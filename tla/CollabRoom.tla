----------------------------- MODULE CollabRoom -----------------------------
(***************************************************************************)
(* One co-editing room over an engram of a direct domain, from the join    *)
(* that opened it until nobody owns it any more                            *)
(* (crates/engine/src/collab/session.rs, crates/rest/src/collab/ws.rs).    *)
(*                                                                         *)
(* The actors are the sockets of the room, the saver task, the teardown    *)
(* of each socket that left as the last one (finish in ws.rs), a sweep     *)
(* that closes the room from outside, an agent editing the same document   *)
(* through the engine, and everybody else who writes the file.  The room's *)
(* state is behind one async mutex; a save holds it over several awaits,   *)
(* and `at' says which step its holder takes next.  Whatever needs the     *)
(* mutex is enabled only while it is "free"; the file, the index row and   *)
(* the `disposed' flag are not behind it.                                  *)
(*                                                                         *)
(* Time is left out: a timer that has run out is a choice of the saver.    *)
(***************************************************************************)
EXTENDS CollabText, FiniteSets

CONSTANTS
    Conns,            \* the connections
    MaxParticipants,  \* MAX_PARTICIPANTS
    Manifest,         \* TRUE: the room is over the domain's MANIFEST
    MaxEdits,         \* bound: updates typed or composed in
    MaxOutside,       \* bound: changes to the file made outside the room
    MaxFaults         \* bound: transient refusals of the engine

ASSUME RoomAssumption ==
    /\ Manifest \in BOOLEAN
    /\ MaxParticipants \in Nat \ {0}
    /\ MaxEdits \in Nat
    /\ MaxOutside \in Nat
    /\ MaxFaults \in Nat

VARIABLES
    file,        \* the document's file
    row,         \* whether the index resolves the document's address
    doc,         \* the live text
    lastSaved,   \* last_saved_text: the base of the next merge
    checksum,    \* the compare-and-swap token of the next save
    saveState,   \* save_state
    pending,     \* the conflict the room has to resolve
    dirty,       \* dirty, and oldest_unsaved, which always moves with it
    flush,       \* flush_requested
    closed,      \* the room accepted an external deletion
    finalSaved,  \* final_saved: a final save ran since the last join
    conns,       \* the connections in the room
    at,          \* the next step of the task that holds the room's mutex
    tries,       \* the save attempt the holder is in (save_locked's loop)
    disposed,    \* the room is over: no save path writes again
    registered,  \* the registry holds this room under its key
    fin,         \* per connection: where its teardown stands
    saver,       \* the saver task: idle, or waiting for its mutex again
    sweep,       \* the sweep that closes this room
    agent,       \* the text an agent's edit was computed from
    kept,        \* the texts written to the kept folder
    ended,       \* observer: what ended the room
    slips,       \* observer: what the run passed through since a save landed
    edits, outside, faults  \* how much of each bound is used

disk    == <<file, row>>
text    == <<doc, lastSaved, checksum>>
status  == <<saveState, pending, dirty, flush, closed>>
lock    == <<at, tries>>
life    == <<disposed, registered, ended>>
tasks   == <<fin, saver, sweep>>
bounds  == <<edits, outside, faults>>

vars == <<disk, text, status, finalSaved, conns, lock, life, tasks, agent,
          kept, slips, bounds>>

NoConflict == [kind |-> "none", theirs |-> Absent]
Deleted    == [kind |-> "deleted", theirs |-> Absent]
Edit(c)    == [kind |-> "edit", theirs |-> c]

Conflicts == {NoConflict, Deleted} \cup {Edit(c) : c \in Content}

\* The document and what the room holds of it.
TextTypes ==
    /\ file \in Stored
    /\ row \in BOOLEAN
    /\ doc \in Text
    /\ lastSaved \in Text
    /\ checksum \in Content
    /\ saveState \in {"ok", "failed", "conflict"}
    /\ pending \in Conflicts
    /\ dirty \in BOOLEAN
    /\ flush \in BOOLEAN
    /\ closed \in BOOLEAN
    /\ finalSaved \in BOOLEAN

\* Where the tasks around the room stand.
TaskTypes ==
    /\ conns \subseteq Conns
    /\ at \in {"free", "check", "write", "read", "restore"}
    /\ tries \in 0..2
    /\ disposed \in BOOLEAN
    /\ registered \in BOOLEAN
    /\ fin \in [Conns -> {"no", "final", "gap", "saving", "dispose"}]
    /\ saver \in {"idle", "gap"}
    /\ sweep \in {"no", "final", "gap", "saving", "close", "over"}

\* What was computed, kept and observed.
OtherTypes ==
    /\ agent \in Text \cup {Absent}
    /\ kept \subseteq Text
    /\ ended \in {"open", "empty", "swept", "poisoned"}
    /\ slips \subseteq {"outrun", "overtaken", "late", "mine", "flushonly"}
    /\ edits \in Nat /\ outside \in Nat /\ faults \in Nat

TypeOK == TextTypes /\ TaskTypes /\ OtherTypes

(***************************************************************************)
(* CollabSession::open followed by the add_conn of the join that opened    *)
(* it: the room's text is the file's, as LF, and its token the checksum of *)
(* the bytes on disk.                                                      *)
(***************************************************************************)
Init ==
    /\ file \in Content
    /\ row = TRUE
    /\ doc = file.lines
    /\ lastSaved = file.lines
    /\ checksum = file
    /\ saveState = "ok"
    /\ pending = NoConflict
    /\ dirty = FALSE
    /\ flush = FALSE
    /\ closed = FALSE
    /\ finalSaved = FALSE
    /\ \E c \in Conns : conns = {c}
    /\ at = "free"
    /\ tries = 0
    /\ disposed = FALSE
    /\ registered = TRUE
    /\ fin = [c \in Conns |-> "no"]
    /\ saver = "idle"
    /\ sweep = "no"
    /\ agent = Absent
    /\ kept = {}
    /\ ended = "open"
    /\ slips = {}
    /\ edits = 0 /\ outside = 0 /\ faults = 0

-----------------------------------------------------------------------------
(***************************************************************************)
(* Conditions                                                              *)
(***************************************************************************)
Free == at = "free"

\* The engine answers NotFound: the address does not resolve, or the index
\* still has its row while the file is gone.
Missing == file = Absent \/ ~row

\* The compare of the compare-and-swap fails.
Stale == file # checksum

\* The path holds a text that is not the one the room last saved.
SomebodyElsesThere == file # Absent /\ file.lines # lastSaved

\* Mutant of Changed: the debounce gates on the flag, not on the text.
ChangedByFlag == doc # lastSaved \/ dirty

\* The room's text is not the text it last saved.
Changed == doc # lastSaved

\* The room takes an engine verb's text: it will save what it is given.
Saving == ~closed /\ ~finalSaved /\ saveState = "ok"

\* The save under way is a final one: a teardown's or a sweep's.
FinalPass == sweep = "saving" \/ \E c \in Conns : fin[c] = "saving"

-----------------------------------------------------------------------------
(***************************************************************************)
(* The ends of a save pass.                                                *)
(***************************************************************************)

\* Mutant of Keep: only a conflict is kept, not a refused save.
KeepConflictOnly(state, t, base) ==
    kept' = IF state = "conflict" /\ t # base THEN kept \cup {t} ELSE kept

\* keep_unsaved_text, on the ways out of a final save that did not land.
Keep(state, t, base) ==
    kept' = IF state \in {"failed", "conflict"} /\ t # base
            THEN kept \cup {t} ELSE kept

\* The pass returns: a final one keeps what it could not save, and its task
\* goes on to drop the room.
Release(state, t, base) ==
    /\ at' = "free"
    /\ tries' = 0
    /\ fin' = [c \in Conns |-> IF fin[c] = "saving" THEN "dispose" ELSE fin[c]]
    /\ sweep' = IF sweep = "saving" THEN "close" ELSE sweep
    /\ IF FinalPass THEN Keep(state, t, base) ELSE UNCHANGED kept

\* save_locked begins.
StartPass == at' = "check" /\ tries' = 1

\* fail_save, ending the pass.
FailSave ==
    /\ saveState' = "failed"
    /\ Release("failed", doc, lastSaved)

\* raise_deleted and raise_edit.
RaiseDeleted == saveState' = "conflict" /\ pending' = Deleted
RaiseEdit    == saveState' = "conflict" /\ pending' = Edit(file)

\* Mutant of AdoptMerge: the token moves, the base of the next merge does not.
AdoptTokenOnly ==
    /\ doc' = Merged(lastSaved, doc, file.lines)
    /\ checksum' = file
    /\ UNCHANGED lastSaved

\* A clean merge_external: the merge becomes the live text, and what the
\* file says becomes the base and the token.
AdoptMerge ==
    /\ doc' = Merged(lastSaved, doc, file.lines)
    /\ lastSaved' = file.lines
    /\ checksum' = file

Collision == MergeConflicts(lastSaved, doc, file.lines)

Fault ==
    /\ faults < MaxFaults
    /\ faults' = faults + 1
    /\ UNCHANGED <<edits, outside>>

-----------------------------------------------------------------------------
(***************************************************************************)
(* The steps of save_locked, taken by whichever task holds the mutex.      *)
(***************************************************************************)

\* save_attempt of a room that is over.
CheckOver ==
    /\ at = "check"
    /\ disposed \/ closed
    /\ Release(saveState, doc, lastSaved)
    /\ UNCHANGED <<disk, text, status, finalSaved, conns, life, saver, agent,
                   slips, bounds>>

\* save_attempt with nothing to write: the room is clean, and a standing
\* failure is over.
CheckClean ==
    /\ at = "check"
    /\ ~disposed /\ ~closed
    /\ ~Changed
    /\ flush' = FALSE
    /\ dirty' = FALSE
    /\ saveState' = "ok"
    /\ Release("ok", doc, lastSaved)
    /\ UNCHANGED <<disk, text, pending, closed, finalSaved, conns, life, saver,
                   agent, slips, bounds>>

\* Mutant of CheckChanged: the attempt does not look at `disposed' again.
CheckChangedUnowned ==
    /\ at = "check"
    /\ ~closed
    /\ Changed
    /\ flush' = FALSE
    /\ doc' = Canon(doc)
    /\ at' = "write"
    /\ UNCHANGED <<disk, lastSaved, checksum, saveState, pending, dirty, closed,
                   finalSaved, conns, tries, life, tasks, agent, kept, slips,
                   bounds>>

\* save_attempt up to its write: alias spellings are normalised, in the live
\* text too.
CheckChanged ==
    /\ at = "check"
    /\ ~disposed /\ ~closed
    /\ Changed
    /\ flush' = FALSE
    /\ doc' = Canon(doc)
    /\ at' = "write"
    /\ UNCHANGED <<disk, lastSaved, checksum, saveState, pending, dirty, closed,
                   finalSaved, conns, tries, life, tasks, agent, kept, slips,
                   bounds>>

\* The normalisation fails, or the room refuses the normalised text because it
\* would switch its domain to read-only.
CheckFails ==
    /\ at = "check"
    /\ ~disposed /\ ~closed
    /\ Changed
    /\ flush' = FALSE
    /\ doc' \in {doc, Canon(doc)}
    /\ saveState' = "failed"
    /\ Release("failed", doc', lastSaved)
    /\ Fault
    /\ UNCHANGED <<disk, lastSaved, checksum, pending, dirty, closed, finalSaved,
                   conns, life, saver, agent, slips>>

\* Mutant of WriteFails: a refused save disarms the timers.
WriteFailsDisarmed ==
    /\ at = "write"
    /\ FailSave
    /\ (Refused(doc) /\ UNCHANGED bounds) \/ Fault
    /\ dirty' = FALSE
    /\ UNCHANGED <<disk, text, pending, flush, closed, finalSaved, conns, life,
                   saver, agent, slips>>

\* The engine refuses the write: the text does not parse as an engram, or a
\* transient failure.  dirty and oldest_unsaved stand.
WriteFails ==
    /\ at = "write"
    /\ FailSave
    /\ \/ Refused(doc) /\ UNCHANGED bounds
       \/ Fault
    /\ UNCHANGED <<disk, text, pending, dirty, flush, closed, finalSaved, conns,
                   life, saver, agent, slips>>

\* There is no engram to save.
WriteMissing ==
    /\ at = "write"
    /\ ~Refused(doc)
    /\ Missing
    /\ RaiseDeleted
    /\ Release("conflict", doc, lastSaved)
    /\ UNCHANGED <<disk, text, dirty, flush, closed, finalSaved, conns, life,
                   saver, agent, slips, bounds>>

\* The compare-and-swap finds another file than the token stands for.
WriteStale ==
    /\ at = "write"
    /\ ~Refused(doc)
    /\ ~Missing
    /\ Stale
    /\ at' = "read"
    /\ UNCHANGED <<disk, text, status, finalSaved, conns, tries, life, tasks,
                   agent, kept, slips, bounds>>

\* The compare-and-swap writes, and the receipt moves token and text together.
WriteLands ==
    /\ at = "write"
    /\ ~Refused(doc)
    /\ ~Missing
    /\ ~Stale
    /\ file' = LfContent(doc)
    /\ row' = TRUE
    /\ checksum' = LfContent(doc)
    /\ lastSaved' = doc
    /\ dirty' = FALSE
    /\ saveState' = "ok"
    /\ Release("ok", doc, doc)
    /\ slips' = {}
    /\ UNCHANGED <<doc, pending, flush, closed, finalSaved, conns, life, saver,
                   agent, bounds>>

\* After a stale write the document is read again; it may be gone by now, or
\* unreadable.
ReadMissing ==
    /\ at = "read"
    /\ Missing
    /\ RaiseDeleted
    /\ Release("conflict", doc, lastSaved)
    /\ UNCHANGED <<disk, text, dirty, flush, closed, finalSaved, conns, life,
                   saver, agent, slips, bounds>>

ReadFails ==
    /\ at = "read"
    /\ FailSave
    /\ Fault
    /\ UNCHANGED <<disk, text, pending, dirty, flush, closed, finalSaved, conns,
                   life, saver, agent, slips>>

ReadCollides ==
    /\ at = "read"
    /\ ~Missing
    /\ Collision
    /\ RaiseEdit
    /\ Release("conflict", doc, lastSaved)
    /\ UNCHANGED <<disk, text, dirty, flush, closed, finalSaved, conns, life,
                   saver, agent, slips, bounds>>

\* A clean merge: the first attempt is made again over the merged text, the
\* second one was the last, and the pass ends with the merged text unsaved.
ReadMerges ==
    /\ at = "read"
    /\ ~Missing
    /\ ~Collision
    /\ AdoptMerge
    /\ \/ /\ tries = 1
          /\ at' = "check"
          /\ tries' = 2
          /\ UNCHANGED <<tasks, kept, slips>>
       \/ /\ tries = 2
          /\ Release(saveState, doc', lastSaved')
          /\ slips' = IF FinalPass /\ doc' # lastSaved'
                      THEN slips \cup {"outrun"} ELSE slips
          /\ UNCHANGED saver
    /\ UNCHANGED <<disk, status, finalSaved, conns, life, agent, bounds>>

SaveStep ==
    \/ CheckOver \/ CheckClean \/ CheckChanged \/ CheckFails
    \/ WriteFails \/ WriteMissing \/ WriteStale \/ WriteLands
    \/ ReadMissing \/ ReadFails \/ ReadCollides \/ ReadMerges

-----------------------------------------------------------------------------
(***************************************************************************)
(* The saver task (due_save): a tick of a room that is neither over nor in *)
(* conflict.                                                               *)
(***************************************************************************)
\* Mutant of Ticks: a room whose save failed waits for a flush that never comes.
TicksUnlessFailed == Free /\ saver = "idle" /\ ~disposed /\ saveState = "ok"

Ticks == Free /\ saver = "idle" /\ ~disposed /\ saveState # "conflict"

\* A save is due: a client asked for one, or a change has waited long enough.
\* A MANIFEST text that switches the Reflection off first gives the mutex up
\* for closing the reflection rooms; whether it does is left open here.
SaverDue ==
    /\ Ticks
    /\ flush \/ (dirty /\ Changed)
    /\ \/ StartPass /\ UNCHANGED saver
       \/ Manifest /\ saver' = "gap" /\ UNCHANGED lock
    /\ UNCHANGED <<disk, text, status, finalSaved, conns, life, fin, sweep,
                   agent, kept, slips, bounds>>

\* Updates arrived and none of them changed the text: the timers are disarmed,
\* and a blocked room goes on to a pass that clears its failure.
SaverDisarms ==
    /\ Ticks
    /\ ~flush /\ dirty /\ ~Changed
    /\ dirty' = FALSE
    /\ IF saveState = "ok" THEN UNCHANGED lock ELSE StartPass
    /\ UNCHANGED <<disk, text, saveState, pending, flush, closed, finalSaved,
                   conns, life, tasks, agent, kept, slips, bounds>>

\* maybe_probe of an idle room, or of one whose timers this tick disarmed: the
\* file moved under it.
SaverProbes ==
    /\ Ticks
    /\ ~flush /\ (dirty => ~Changed)
    /\ ~closed /\ saveState = "ok"
    /\ dirty' = FALSE
    /\ \/ /\ Missing
          /\ RaiseDeleted
          /\ UNCHANGED <<text, flush, lock>>
       \/ /\ ~Missing /\ Stale /\ Collision
          /\ RaiseEdit
          /\ UNCHANGED <<text, flush, lock>>
       \/ /\ ~Missing /\ Stale /\ ~Collision
          /\ AdoptMerge
          /\ \/ StartPass /\ UNCHANGED flush
             \/ Manifest /\ flush' = TRUE /\ UNCHANGED lock
          /\ UNCHANGED <<saveState, pending>>
    /\ UNCHANGED <<disk, closed, finalSaved, conns, life, tasks, agent, kept,
                   slips, bounds>>

\* The saver has its mutex again after closing the reflection rooms.
SaverResumes ==
    /\ Free
    /\ saver = "gap"
    /\ saver' = "idle"
    /\ IF disposed \/ closed \/ saveState = "conflict"
       THEN UNCHANGED lock
       ELSE StartPass
    /\ UNCHANGED <<disk, text, status, finalSaved, conns, life, fin, sweep,
                   agent, kept, slips, bounds>>

SaverStep == SaverDue \/ SaverDisarms \/ SaverProbes \/ SaverResumes

-----------------------------------------------------------------------------
(***************************************************************************)
(* The sockets: join_doc into the open room, handle_frame, and the exit    *)
(* of the socket loop.  A frame is handled whatever became of the room.    *)
(***************************************************************************)
Join(c) ==
    /\ registered /\ ~disposed
    /\ Free
    /\ c \notin conns /\ fin[c] = "no"
    /\ Cardinality(conns) < MaxParticipants
    /\ conns' = conns \cup {c}
    /\ finalSaved' = FALSE
    /\ UNCHANGED <<disk, text, status, lock, life, tasks, agent, kept, slips,
                   bounds>>

\* Observer: what is typed or decided in a room a sweep has saved already, or
\* that is over, is what the close of the room cuts off.
Late == IF disposed \/ sweep = "close" THEN {"late"} ELSE {}

\* A document update.
Type(c, l, v) ==
    /\ Free
    /\ c \in conns
    /\ v # doc[l]
    /\ edits < MaxEdits
    /\ edits' = edits + 1
    /\ doc' = [doc EXCEPT ![l] = v]
    /\ dirty' = TRUE
    /\ slips' = slips \cup Late
    /\ UNCHANGED <<disk, lastSaved, checksum, saveState, pending, flush, closed,
                   finalSaved, conns, lock, life, tasks, agent, kept, outside,
                   faults>>

\* A provider's answer to its greeting: an update that carries nothing new
\* and marks the room dirty all the same.
Answer(c) ==
    /\ Free
    /\ c \in conns
    /\ dirty' = TRUE
    /\ UNCHANGED <<disk, text, saveState, pending, flush, closed, finalSaved,
                   conns, lock, life, tasks, agent, kept, slips, bounds>>

Flush(c) ==
    /\ Free
    /\ c \in conns
    /\ flush' = TRUE
    /\ UNCHANGED <<disk, text, saveState, pending, dirty, closed, finalSaved,
                   conns, lock, life, tasks, agent, kept, slips, bounds>>

\* A conflict is resolved by the first resolve that reaches it.
Resolving(c, kind) ==
    /\ Free
    /\ c \in conns
    /\ saveState = "conflict"
    /\ pending.kind = kind

\* Mutant of ResolveEditMine: only the checksum is adopted.
ResolveEditMineToken(c) ==
    /\ Resolving(c, "edit")
    /\ checksum' = pending.theirs
    /\ saveState' = "ok"
    /\ pending' = NoConflict
    /\ flush' = TRUE
    /\ UNCHANGED <<disk, doc, lastSaved, dirty, closed, finalSaved, conns, lock,
                   life, tasks, agent, kept, slips, bounds>>

\* "mine" over colliding edits: their version is the base and the token my
\* text lands over, with the save that follows.
ResolveEditMine(c) ==
    /\ Resolving(c, "edit")
    /\ checksum' = pending.theirs
    /\ lastSaved' = pending.theirs.lines
    /\ saveState' = "ok"
    /\ pending' = NoConflict
    /\ flush' = TRUE
    /\ slips' = slips \cup Late \cup (IF dirty THEN {"mine"} ELSE {"mine", "flushonly"})
    /\ UNCHANGED <<disk, doc, dirty, closed, finalSaved, conns, lock, life,
                   tasks, agent, kept, bounds>>

\* "theirs" over colliding edits: their version wins whole.
ResolveEditTheirs(c) ==
    /\ Resolving(c, "edit")
    /\ doc' = pending.theirs.lines
    /\ lastSaved' = pending.theirs.lines
    /\ checksum' = pending.theirs
    /\ dirty' = FALSE
    /\ flush' = FALSE
    /\ saveState' = "ok"
    /\ pending' = NoConflict
    /\ slips' = slips \cup Late
    /\ UNCHANGED <<disk, closed, finalSaved, conns, lock, life, tasks, agent,
                   kept, bounds>>

\* "theirs" over a deletion: the deletion stands and the room is closed.
ResolveDeletedTheirs(c) ==
    /\ Resolving(c, "deleted")
    /\ closed' = TRUE
    /\ pending' = NoConflict
    /\ UNCHANGED <<disk, text, saveState, dirty, flush, finalSaved, conns, lock,
                   life, tasks, agent, kept, slips, bounds>>

\* Mutant of ResolveDeletedMine: the restored text is not normalised.
ResolveDeletedMineAsTyped(c) ==
    /\ Resolving(c, "deleted")
    /\ ~SomebodyElsesThere
    /\ pending' = NoConflict
    /\ at' = "restore"
    /\ UNCHANGED <<disk, text, saveState, dirty, flush, closed, finalSaved,
                   conns, tries, life, tasks, agent, kept, slips, bounds>>

\* "mine" over a deletion (restore_mine) reads the path first.  Somebody
\* else's text there becomes an edit conflict; otherwise the room's text,
\* normalised, is to be restored with the mutex held.
ResolveDeletedMine(c) ==
    /\ Resolving(c, "deleted")
    /\ IF SomebodyElsesThere
       THEN RaiseEdit /\ UNCHANGED <<doc, lock>>
       ELSE /\ doc' = Canon(doc)
            /\ pending' = NoConflict
            /\ at' = "restore"
            /\ UNCHANGED <<saveState, tries>>
    /\ slips' = slips \cup Late
    /\ UNCHANGED <<disk, lastSaved, checksum, dirty, flush, closed, finalSaved,
                   conns, life, tasks, agent, kept, bounds>>

\* restore_doc writes the path, whatever is there by now.
RestoreLands ==
    /\ at = "restore"
    /\ ~Refused(doc)
    /\ file' = LfContent(doc)
    /\ row' = TRUE
    /\ checksum' = LfContent(doc)
    /\ lastSaved' = doc
    /\ dirty' = FALSE
    /\ saveState' = "ok"
    /\ at' = "free"
    /\ UNCHANGED <<doc, pending, flush, closed, finalSaved, conns, tries, life,
                   tasks, agent, kept, slips, bounds>>

\* Mutant of RestoreFails: the conflict that was taken is not put back.
RestoreFailsUnasked ==
    /\ at = "restore"
    /\ (Refused(doc) /\ UNCHANGED bounds) \/ Fault
    /\ at' = "free"
    /\ UNCHANGED <<disk, text, status, finalSaved, conns, tries, life, tasks,
                   agent, kept, slips>>

\* refuse_restore: the deletion stays the open question.
RestoreFails ==
    /\ at = "restore"
    /\ \/ Refused(doc) /\ UNCHANGED bounds
       \/ Fault
    /\ pending' = Deleted
    /\ at' = "free"
    /\ UNCHANGED <<disk, text, saveState, dirty, flush, closed, finalSaved,
                   conns, tries, life, tasks, agent, kept, slips>>

Resolve(c) ==
    \/ ResolveEditMine(c) \/ ResolveEditTheirs(c)
    \/ ResolveDeletedMine(c) \/ ResolveDeletedTheirs(c)

Restore == RestoreLands \/ RestoreFails

-----------------------------------------------------------------------------
(***************************************************************************)
(* The end of a room.  finish in ws.rs: remove_conn, and for the last      *)
(* connection final_save and then dispose_if_empty, each under locks of    *)
(* its own.  A sweep takes the room out of the registry, saves and closes. *)
(***************************************************************************)

\* remove_conn.
Leave(c) ==
    /\ Free
    /\ c \in conns
    /\ conns' = conns \ {c}
    /\ fin' = [fin EXCEPT ![c] = IF conns = {c} THEN "final" ELSE "no"]
    /\ UNCHANGED <<disk, text, status, finalSaved, lock, life, saver, sweep,
                   agent, kept, slips, bounds>>

\* last_save up to its pass; `next' is where it leaves its task: "over",
\* "gap" (closing the reflection rooms without the mutex) or "saving".
LastSave(next) ==
    \/ /\ disposed
       /\ next = "over"
       /\ UNCHANGED <<finalSaved, kept, lock>>
    \/ /\ ~disposed
       /\ Free
       /\ finalSaved' = TRUE
       /\ \/ /\ saveState = "conflict"
             /\ next = "over"
             /\ IF closed THEN UNCHANGED kept ELSE Keep(saveState, doc, lastSaved)
             /\ UNCHANGED lock
          \/ /\ saveState # "conflict"
             /\ Manifest
             /\ next = "gap"
             /\ UNCHANGED <<kept, lock>>
          \/ /\ saveState # "conflict"
             /\ next = "saving"
             /\ StartPass
             /\ UNCHANGED kept

\* Mutant of LastSaveResumes: a conflict met in the gap keeps nothing.
LastSaveResumesUnkept(next) ==
    /\ Free
    /\ UNCHANGED <<finalSaved, kept>>
    /\ IF disposed \/ closed \/ saveState = "conflict"
       THEN next = "over" /\ UNCHANGED lock
       ELSE next = "saving" /\ StartPass

\* last_save after the gap: the room may not save any more.
LastSaveResumes(next) ==
    /\ Free
    /\ UNCHANGED finalSaved
    /\ IF disposed \/ closed \/ saveState = "conflict"
       THEN /\ next = "over"
            /\ IF saveState = "conflict" THEN Keep(saveState, doc, lastSaved)
                                         ELSE UNCHANGED kept
            /\ UNCHANGED lock
       ELSE /\ next = "saving"
            /\ StartPass
            /\ UNCHANGED kept

FinishSaves(c) ==
    /\ \E next \in {"over", "gap", "saving"} :
         /\ \/ fin[c] = "final" /\ LastSave(next)
            \/ fin[c] = "gap" /\ LastSaveResumes(next)
         /\ fin' = [fin EXCEPT ![c] = IF next = "over" THEN "dispose" ELSE next]
    /\ UNCHANGED <<disk, text, status, conns, life, saver, sweep, agent, slips,
                   bounds>>

\* Mutant of DisposeIfEmpty: a poisoned room stays in the registry.
DisposeIfAlive(c) ==
    /\ fin[c] = "dispose"
    /\ ~registered \/ disposed \/ Free
    /\ fin' = [fin EXCEPT ![c] = "no"]
    /\ IF registered /\ ~disposed /\ conns = {}
       THEN registered' = FALSE /\ disposed' = TRUE /\ ended' = "empty"
       ELSE UNCHANGED life
    /\ UNCHANGED <<disk, text, status, finalSaved, conns, lock, saver, sweep,
                   agent, kept, slips, bounds>>

\* dispose_if_empty.  The room's mutex is taken only to count connections.
DisposeIfEmpty(c) ==
    /\ fin[c] = "dispose"
    /\ ~registered \/ disposed \/ Free
    /\ fin' = [fin EXCEPT ![c] = "no"]
    /\ IF registered /\ (disposed \/ conns = {})
       THEN /\ registered' = FALSE
            /\ disposed' = TRUE
            /\ ended' = IF disposed THEN ended ELSE "empty"
            /\ slips' = IF \E d \in Conns \ {c} : fin[d] \in {"final", "gap"}
                        THEN slips \cup {"overtaken"} ELSE slips
       ELSE UNCHANGED <<life, slips>>
    /\ UNCHANGED <<disk, text, status, finalSaved, conns, lock, saver, sweep,
                   agent, kept, bounds>>

\* sweep_domain_rooms collects the room.
SweepStarts ==
    /\ registered
    /\ sweep = "no"
    /\ registered' = FALSE
    /\ sweep' = "final"
    /\ UNCHANGED <<disk, text, status, finalSaved, conns, lock, disposed, ended,
                   fin, saver, agent, kept, slips, bounds>>

\* sweep_task: the save comes first, then the close.
SweepSaves ==
    /\ \E next \in {"over", "gap", "saving"} :
         /\ \/ sweep = "final" /\ LastSave(next)
            \/ sweep = "gap" /\ LastSaveResumes(next)
         /\ sweep' = IF next = "over" THEN "close" ELSE next
    /\ UNCHANGED <<disk, text, status, conns, life, fin, saver, agent, slips,
                   bounds>>

SweepCloses ==
    /\ sweep = "close"
    /\ sweep' = "over"
    /\ disposed' = TRUE
    /\ ended' = IF disposed THEN ended ELSE "swept"
    /\ UNCHANGED <<disk, text, status, finalSaved, conns, lock, registered, fin,
                   saver, agent, kept, slips, bounds>>

SweepStep == SweepSaves \/ SweepCloses

\* A saver pass or a frame panics below yrs: the pass is dropped with its
\* mutex and the room is closed for good.
Poison ==
    /\ ~disposed
    /\ Free \/ (at \in {"check", "read"} /\ ~FinalPass)
    /\ disposed' = TRUE
    /\ ended' = "poisoned"
    /\ at' = "free"
    /\ tries' = 0
    /\ UNCHANGED <<disk, text, status, finalSaved, conns, registered, tasks,
                   agent, kept, slips, bounds>>

\* A join that finds the room disposed opens another one in its place.
Replace ==
    /\ registered
    /\ disposed
    /\ registered' = FALSE
    /\ UNCHANGED <<disk, text, status, finalSaved, conns, lock, disposed, ended,
                   tasks, agent, kept, slips, bounds>>

-----------------------------------------------------------------------------
(***************************************************************************)
(* Engine verbs that meet the open room, and the world outside it.         *)
(***************************************************************************)

\* live_text: an edit verb reads the room and computes its text from that.
AgentReads ==
    /\ registered /\ ~disposed
    /\ Free
    /\ Saving
    /\ agent = Absent
    /\ agent' = doc
    /\ UNCHANGED <<disk, text, status, finalSaved, conns, lock, life, tasks,
                   kept, slips, bounds>>

\* Mutant of Composable: the text the edit was computed from is not compared.
ComposableAnyText == registered /\ ~disposed /\ Saving

\* compose_while_saving: the edit, its spellings normalised as every write's
\* are, lands only on the text it was computed from.
Composable == registered /\ ~disposed /\ Saving /\ doc = agent

AgentComposes(l, v) ==
    /\ agent # Absent
    /\ Free
    /\ Composable
    /\ edits < MaxEdits
    /\ edits' = edits + 1
    /\ doc' = Canon([agent EXCEPT ![l] = v])
    /\ dirty' = TRUE
    /\ agent' = Absent
    /\ UNCHANGED <<disk, lastSaved, checksum, saveState, pending, flush, closed,
                   finalSaved, conns, lock, life, tasks, kept, slips, outside,
                   faults>>

\* The compose is refused; the verb falls back on the file.
AgentRefused ==
    /\ agent # Absent
    /\ Free \/ ~registered \/ disposed
    /\ ~Composable
    /\ agent' = Absent
    /\ UNCHANGED <<disk, text, status, finalSaved, conns, lock, life, tasks,
                   kept, slips, bounds>>

\* absorb_file_change, after an engine verb wrote the room's file.
Absorb ==
    /\ registered /\ ~disposed
    /\ Free
    /\ Saving
    /\ ~Missing /\ Stale
    /\ IF Collision
       THEN RaiseEdit /\ UNCHANGED <<text, dirty>>
       ELSE /\ AdoptMerge
            /\ dirty' = (dirty \/ doc' # lastSaved')
            /\ UNCHANGED <<saveState, pending>>
    /\ UNCHANGED <<disk, flush, closed, finalSaved, conns, lock, life, tasks,
                   agent, kept, slips, bounds>>

\* Somebody else writes, deletes or creates the file.
OutsideChange(f) ==
    /\ outside < MaxOutside
    /\ outside' = outside + 1
    /\ f # file
    /\ file' = f
    /\ UNCHANGED <<row, text, status, finalSaved, conns, lock, life, tasks,
                   agent, kept, slips, edits, faults>>

\* The index catches up with the file.
IndexSync ==
    /\ row # (file # Absent)
    /\ row' = (file # Absent)
    /\ UNCHANGED <<file, text, status, finalSaved, conns, lock, life, tasks,
                   agent, kept, slips, bounds>>

-----------------------------------------------------------------------------
Socket(c) == Join(c) \/ Answer(c) \/ Flush(c) \/ Resolve(c) \/ Leave(c)
Finish(c) == FinishSaves(c) \/ DisposeIfEmpty(c)

Next ==
    \/ SaveStep \/ SaverStep \/ Restore
    \/ \E c \in Conns : Socket(c) \/ Finish(c)
    \/ \E c \in Conns, l \in Lines, v \in Values : Type(c, l, v)
    \/ SweepStarts \/ SweepStep \/ Poison \/ Replace
    \/ AgentReads \/ AgentRefused \/ Absorb
    \/ \E l \in Lines, v \in Values : AgentComposes(l, v)
    \/ \E f \in Stored : OutsideChange(f)
    \/ IndexSync

Spec == Init /\ [][Next]_vars

(***************************************************************************)
(* The saver task, the sweep and the teardowns run on the daemon's         *)
(* runtime, which polls each again while it can go on.  A teardown and a   *)
(* sweep wait for the room's mutex, which serves its waiters in order      *)
(* (tokio's Mutex), so each gets it even from a saver that keeps retrying: *)
(* strong fairness.  Nothing is assumed of clients, agents and outside     *)
(* writers.                                                                *)
(***************************************************************************)
Fairness ==
    /\ WF_vars(SaveStep)
    /\ WF_vars(Restore)
    /\ WF_vars(SaverStep)
    /\ SF_vars(SweepStep)
    /\ \A c \in Conns : SF_vars(Finish(c))

FairSpec == Spec /\ Fairness

-----------------------------------------------------------------------------
(***************************************************************************)
(* Safety                                                                  *)
(***************************************************************************)

\* The token of the next save stands for exactly the text the next merge is
\* based on ("Checksum and text move together"): otherwise a save could land
\* over text no merge has seen.
TokenMatchesBase == checksum.lines = lastSaved

\* A room never waits for a decision nobody can make: while it is in conflict
\* there is a conflict to resolve, unless it accepted the deletion or is just
\* restoring its text; and it saves only while there is none.
ConflictIsResolvable ==
    /\ saveState = "conflict" => pending # NoConflict \/ closed \/ at = "restore"
    /\ pending # NoConflict => saveState = "conflict" /\ at = "free"

\* The changes of the live text against the text last saved are all in one of
\* the kept texts. A spelling is no change: a save that respells a line and
\* then fails leaves it respelled.
UnsavedIsKept ==
    \E k \in kept : \A l \in Lines :
        Canon(doc)[l] = Canon(lastSaved)[l] \/ Canon(k)[l] = Canon(doc)[l]

Accounted == Canon(doc) = Canon(lastSaved) \/ UnsavedIsKept

\* A room that ended because it emptied or was swept has saved its text, or
\* the server has kept it - unless its last save was outrun twice, a teardown
\* overtook another one, or the text was typed after the sweep's save.
NothingLost ==
    ended \in {"empty", "swept"} /\ ~closed =>
        Accounted \/ \E slip \in {"outrun", "overtaken", "late"} : slip \in slips

\* Unsaved text of an open room that may save is always on its way: the saver
\* has been told of it.  (A "mine" that only set flush_requested is the
\* exception: a failed save uses the flush up.)
UnsavedIsArmed ==
    Changed /\ Free /\ ~disposed /\ saveState # "conflict" =>
        dirty \/ flush \/ saver = "gap" \/ "flushonly" \in slips

\* A room in which nobody edited anything, or held on to its text against
\* somebody else's, saves nothing, whatever line endings its file has and
\* however many providers answered a greeting.
UneditedNeverSaves == at = "write" => edits > 0 \/ "mine" \in slips

\* A save of the room overwrites only what the room has seen: the file it
\* replaces says what the last merge was based on.
SaveOverwritesOnlySeen ==
    [][at = "write" /\ file' # file /\ outside' = outside =>
         file # Absent /\ file.lines = lastSaved]_vars

\* An agent's edit, computed from a text it read before the room went on,
\* changes the one line it is about, respells the others at most, and reverts
\* nobody's typing.
ComposeTouchesItsLine ==
    [][agent # Absent /\ agent' = Absent =>
         Cardinality({l \in Lines : doc'[l] \notin {doc[l], Canon(doc)[l]}}) <= 1]_vars

\* What the room writes, by a save or by a restore, parses as an engram and
\* spells every domain canonically.
WritesAreEngrams ==
    [][file' # file /\ outside' = outside =>
         ~Refused(file'.lines) /\ \A l \in Lines : file'.lines[l] # Alias]_vars

\* A room that is over starts no save: only one already writing may land.
OverStartsNoSave == [][disposed /\ at # "write" => at' # "write"]_vars

-----------------------------------------------------------------------------
(***************************************************************************)
(* Liveness                                                                *)
(***************************************************************************)

\* What somebody typed is eventually saved, unless it does not parse, there
\* is a conflict to resolve first, or the room is over.
UnsavedSettles ==
    (dirty /\ ~disposed) ~>
        \/ ~dirty \/ disposed
        \/ saveState = "conflict"
        \/ saveState = "failed" /\ Refused(Canon(doc))

\* A room everybody has left leaves the registry, unless somebody joins.
EmptiedRoomGoes == (registered /\ conns = {}) ~> (~registered \/ conns # {})

-----------------------------------------------------------------------------
(***************************************************************************)
(* What comments in the code say, and the code does not keep in every run. *)
(***************************************************************************)

\* "the retry lands unless the file changed AGAIN inside that window - and then
\* the next tick picks it up" (save_locked), also of the save a room ends with:
\* what it did not land is saved later or kept.
FinalTextIsSavedOrKept ==
    ended = "empty" /\ ~closed /\ "overtaken" \notin slips =>
        Accounted

\* "when it was the last one, land whatever is unsaved and let the registry
\* drop the room" (finish): whoever leaves last, the text is landed.
LastOneLandsText ==
    ended = "empty" /\ ~closed /\ "outrun" \notin slips =>
        Accounted

\* "A session never silently overwrites external work" (restore_mine).
NeverOverwritesExternalWork ==
    [][file' # file /\ outside' = outside =>
         file = Absent \/ file.lines = lastSaved]_vars

\* "every later flush retries: dirty and oldest_unsaved stand" (save_attempt).
FailedSaveIsRetried ==
    saveState = "failed" /\ Free /\ Changed /\ ~disposed => dirty \/ flush \/ saver = "gap"

\* "makes every save path a no-op, so nothing can write through a session no
\* one owns any more" (CollabSession::disposed).
DisposedNeverWrites ==
    [][disposed /\ at # "write" => file' = file \/ outside' # outside]_vars
=============================================================================
