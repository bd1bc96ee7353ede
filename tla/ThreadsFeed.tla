----------------------------- MODULE ThreadsFeed -----------------------------
(***************************************************************************)
(* The threads file of one Reflection page, and how the tabs that show it  *)
(* hear that it changed.  It has no row and no stamp: a comment written     *)
(* through the engine is announced by the verb, anything else by the pass   *)
(* that finds another checksum than the one remembered, and the bus drops   *)
(* an announcement that only echoes the last (crates/engine/src/changes.rs, *)
(* crates/engine/src/engine/mod.rs).                                        *)
(*                                                                         *)
(* A tab that hears an event reads the file again at once.  The page itself *)
(* stays, the Reflection is in effect and was walked before.                *)
(***************************************************************************)
EXTENDS Integers

CONSTANTS
    Sums,     \* what the file may hold, by checksum
    Gone,     \* there is no threads file
    Unheard,  \* nothing was announced inside DUPLICATE_WINDOW
    Passes,   \* syncs under way: walks of the domain, targeted passes
    Settled   \* TRUE: the file goes back to what it was only when the newest
              \* announcement inside the window is of what it is

ASSUME FeedAssumption ==
    /\ Gone \notin Sums /\ Unheard \notin Sums
    /\ Settled \in BOOLEAN

VARIABLES
    file,        \* the threads file
    remembered,  \* reflection_walks: its checksum as last walked or written
    latest,      \* recent_reflections: the newest checksum inside the window
    verb,        \* the comment being written: what it still has to do
    pass,        \* per pass: what it is, has read, and still has to do
    known,       \* observer: the file as the tabs last read it
    used         \* observer: what the file ever held

threadsVars == <<file, remembered, latest, verb, pass, known, used>>

Idle == [at |-> "idle", sum |-> Gone]

ThreadsTypeOK ==
    /\ file \in Sums \cup {Gone} /\ remembered \in Sums \cup {Gone}
    /\ latest \in Sums \cup {Unheard}
    /\ verb \in [at : {"idle", "written", "noted"}, sum : Sums \cup {Gone}]
    /\ pass \in [Passes -> [at : {"idle", "walked", "read", "noted"}, sum : Sums \cup {Gone}]]
    /\ known \in Sums \cup {Gone}
    /\ used \subseteq Sums \cup {Gone}

ThreadsInit ==
    /\ file \in Sums \cup {Gone}
    /\ remembered = file
    /\ known = file
    /\ used = {file}
    /\ latest = Unheard
    /\ verb = Idle
    /\ pass = [p \in Passes |-> Idle]

\* Nobody has anything left to announce, and the engine knows the file.
Quiet ==
    /\ verb = Idle
    /\ \A p \in Passes : pass[p] = Idle
    /\ remembered = file

-----------------------------------------------------------------------------
\* Mutant of Duplicate: any announcement repeats the one before it.
DuplicateOfAny(sum) == sum # Gone /\ latest # Unheard

\* announce drops a checksum that repeats the newest one.  A file that is gone
\* has none.
Duplicate(sum) == sum # Gone /\ latest = sum

Announce(sum) ==
    IF Duplicate(sum)
    THEN UNCHANGED <<latest, known>>
    ELSE /\ latest' = IF sum = Gone THEN latest ELSE sum
         /\ known' = file

\* DUPLICATE_WINDOW has passed since the newest announcement.
WindowPasses ==
    /\ latest # Unheard
    /\ latest' = Unheard
    /\ UNCHANGED <<file, remembered, verb, pass, known, used>>

-----------------------------------------------------------------------------
\* open_thread and thread_entry, under the page's lock: the file is written,
\* its rows are committed, and announce_threads remembers and announces it.
\* Every thread and entry has an id of its own, so the content is new.
VerbWrites ==
    /\ verb = Idle
    /\ \E sum \in Sums \ used :
         /\ file' = sum
         /\ used' = used \cup {sum}
         /\ verb' = [at |-> "written", sum |-> sum]
    /\ UNCHANGED <<remembered, latest, pass, known>>

VerbRemembers ==
    /\ verb.at = "written"
    /\ remembered' = verb.sum
    /\ verb' = [verb EXCEPT !.at = "noted"]
    /\ UNCHANGED <<file, latest, pass, known, used>>

VerbAnnounces ==
    /\ verb.at = "noted"
    /\ Announce(verb.sum)
    /\ verb' = Idle
    /\ UNCHANGED <<file, remembered, pass, used>>

\* Somebody else writes or deletes the file: as it never was at any time, as
\* it was before once everything since is announced.
OutsideEdit ==
    /\ \E sum \in (Sums \cup {Gone}) \ {file} :
         /\ sum \in used => Quiet /\ (Settled => latest \in {file, Unheard})
         /\ file' = sum
         /\ used' = used \cup {sum}
    /\ UNCHANGED <<remembered, latest, verb, pass, known>>

-----------------------------------------------------------------------------
\* scan_domain and scan_paths read the file; what they found is applied later.
PassReads(p) ==
    /\ pass[p] = Idle
    /\ \E at \in {"walked", "read"} : pass' = [pass EXCEPT ![p] = [at |-> at, sum |-> file]]
    /\ UNCHANGED <<file, remembered, latest, verb, known, used>>

\* walk_threads_changes: a walk has something to announce when it read another
\* checksum than the one remembered.
WalkCompares(p) ==
    /\ pass[p].at = "walked"
    /\ remembered' = pass[p].sum
    /\ pass' = [pass EXCEPT ![p] = IF remembered # @.sum THEN [@ EXCEPT !.at = "noted"] ELSE Idle]
    /\ UNCHANGED <<file, latest, verb, known, used>>

\* announce_reflection_report of a targeted pass: what it read is remembered
\* and announced in any case.
TargetedRemembers(p) ==
    /\ pass[p].at = "read"
    /\ remembered' = pass[p].sum
    /\ pass' = [pass EXCEPT ![p].at = "noted"]
    /\ UNCHANGED <<file, latest, verb, known, used>>

PassAnnounces(p) ==
    /\ pass[p].at = "noted"
    /\ Announce(pass[p].sum)
    /\ pass' = [pass EXCEPT ![p] = Idle]
    /\ UNCHANGED <<file, remembered, verb, used>>

ThreadsNext ==
    \/ VerbWrites \/ VerbRemembers \/ VerbAnnounces
    \/ OutsideEdit
    \/ \E p \in Passes :
         PassReads(p) \/ WalkCompares(p) \/ TargetedRemembers(p) \/ PassAnnounces(p)
    \/ WindowPasses

ThreadsSpec == ThreadsInit /\ [][ThreadsNext]_threadsVars

-----------------------------------------------------------------------------
\* Once the engine knows the file and nobody has anything left to announce,
\* the tabs show it: whichever of the verbs and passes wrote and read in
\* between, and whatever the bus dropped as an echo ("a file that went A, B
\* and back to A inside the window is a change again", ChangeBus::announce).
TabsAreCurrent == Quiet => known = file
=============================================================================
