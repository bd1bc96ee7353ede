---------------------------- MODULE DomainRename ----------------------------
(***************************************************************************)
(* The rename of one domain: a journal, a pause with a drain, nine         *)
(* idempotent steps, and a crash, a failure or a resend between any two of *)
(* them (engine/rename_domain.rs, engine/src/rename.rs).  Beside it run    *)
(* the writes and the sync passes that name the domain.                    *)
(*                                                                         *)
(* `where[s]' is the set of names the store of step s keeps the domain     *)
(* under; a worker is a write (a member of Writers) or a pass.             *)
(***************************************************************************)
EXTENDS Naturals

CONSTANTS
    Old, New,     \* the domain's name here, and the one it gets
    Writers,      \* requests that write into the domain
    Passes,       \* sync passes that walk it
    Kinds,        \* which renames are asked for: "local", "full"
    MaxCrashes,   \* bound on the crashes of the daemon
    MaxFaults,    \* bound on the steps, and saves of the journal, that fail
    Stale,        \* whether a pass may still hold a name that is gone
    DropsAt       \* where the request of a rename may be dropped half-way

ASSUME NameAssumption == Old # New
ASSUME KindAssumption == Kinds \subseteq {"local", "full"}
ASSUME DropAssumption == DropsAt \subseteq {"drain", "steps", "unjournal"}
ASSUME BoundAssumption == MaxCrashes \in Nat /\ MaxFaults \in Nat
ASSUME WorkerAssumption == Writers \cap Passes = {}

Workers == Writers \cup Passes
Names == {Old, New}

\* RenameStep, in the order the steps run.  Each stands for its store too.
Manifest == 1
Relink == 2
IndexRow == 3
AuthTables == 4
OriginsDir == 5
OverlaysDir == 6
KeptDir == 7
ProvisionReceipt == 8
ConfigFile == 9

Stores == Manifest .. ConfigFile

\* A local rename moves the stores and leaves MANIFEST and links alone.
Moving == IndexRow .. ConfigFile
FirstOf(k) == IF k = "full" THEN Manifest ELSE IndexRow

VARIABLES
    where,      \* the names each store keeps the domain under, on disk
    journal,    \* the journal file: if it is there, its kind, its next step
    mode,       \* the daemon: "down", "starting" or "serving"
    at,         \* the rename that runs: its next move, or "idle"
    kind,       \* the kind that runs, or ran last
    paused,     \* the pause on both names
    frozen,     \* names_frozen: no push of the spellings into the index
    worker,     \* how far each worker is
    name,       \* the name each worker holds
    crashes, faults

disk == << where, journal >>
rename == << at, kind, paused, frozen >>
work == << worker, name >>
counters == << crashes, faults >>
vars == << disk, mode, rename, work, counters >>

\* The name the configuration has the domain under.
Config == where[ConfigFile]

\* The workers `writers' counts into the name n.
Counted(n) == {w \in Workers : worker[w] \in {"counted", "in", "written"} /\ name[w] = n}

\* The journal lists every step, or all that come before the pause.
AllDone == journal.next > ConfigFile
MovesNext == journal.next >= IndexRow

-----------------------------------------------------------------------------
(* What a step does to its store *)

\* Moving a store: nothing to do when it moved already or was never there;
\* both names in place is an error nobody guesses at.  The configuration
\* must have the domain under one of the two.
StepFails(s) ==
    \/ where[s] = Names
    \/ s = ConfigFile /\ where[s] = {}

\* Mutant of MoveStore: a step run again after a crash loses what is there
MoveForgets(s) ==
    where' = [where EXCEPT ![s] = IF New \in @ THEN {} ELSE {New}]

MoveStore(s) ==
    where' = [where EXCEPT ![s] = IF @ = {} THEN {} ELSE {New}]

-----------------------------------------------------------------------------
(* The rename *)

Init ==
    /\ \E drafts \in {{Old}, {}} :
           where = [s \in Stores |-> IF s = OverlaysDir THEN drafts ELSE {Old}]
    /\ journal = [open |-> FALSE, kind |-> "local", next |-> IndexRow]
    /\ mode = "serving"
    /\ at = "idle" /\ kind = "local" /\ paused = FALSE /\ frozen = FALSE
    /\ worker = [w \in Workers |-> "out"]
    /\ name = [w \in Workers |-> Old]
    /\ crashes = 0 /\ faults = 0

\* A rename is asked for: a local one pauses the domain before its journal,
\* a full one writes its journal first.
Ask(k) ==
    /\ mode = "serving" /\ at = "idle"
    /\ ~journal.open
    /\ Config = {Old}
    /\ kind' = k
    /\ at' = IF k = "local" THEN "pause" ELSE "journal"
    /\ UNCHANGED << disk, mode, paused, frozen, work, counters >>

\* The rename a stop left behind is asked for again.
Resend ==
    /\ mode = "serving" /\ at = "idle"
    /\ journal.open
    /\ Config = {Old}
    /\ at' = "steps" /\ kind' = journal.kind
    /\ UNCHANGED << disk, mode, paused, frozen, work, counters >>

Pause ==
    /\ \/ at = "pause"
       \/ at = "steps" /\ MovesNext /\ ~paused
    /\ paused' = TRUE
    /\ at' = "drain"
    /\ UNCHANGED << disk, mode, kind, frozen, work, counters >>

\* Mutant of Drained: nothing is waited for
DrainsNothing ==
    /\ at = "drain"
    /\ at' = IF journal.open THEN "steps" ELSE "journal"
    /\ UNCHANGED << disk, mode, kind, paused, frozen, work, counters >>

\* No write counted into the old name is still running.
Drained ==
    /\ at = "drain"
    /\ Counted(Old) = {}
    /\ at' = IF journal.open THEN "steps" ELSE "journal"
    /\ UNCHANGED << disk, mode, kind, paused, frozen, work, counters >>

\* Mutant of DrainTimesOut: the pause stays
TimesOutPaused ==
    /\ at = "drain"
    /\ Counted(Old) # {}
    /\ at' = "idle"
    /\ UNCHANGED << disk, mode, kind, paused, frozen, work, counters >>

\* They did not finish in time: the pause is lifted and the caller refused.
DrainTimesOut ==
    /\ at = "drain"
    /\ Counted(Old) # {}
    /\ paused' = FALSE
    /\ at' = "idle"
    /\ UNCHANGED << disk, mode, kind, frozen, work, counters >>

SaveJournal ==
    /\ at = "journal"
    /\ \/ /\ journal' = [open |-> TRUE, kind |-> kind, next |-> FirstOf(kind)]
          /\ at' = "steps"
          /\ UNCHANGED << paused, faults >>
       \/ /\ faults < MaxFaults /\ faults' = faults + 1
          /\ paused' = FALSE
          /\ at' = "idle"
          /\ UNCHANGED journal
    /\ UNCHANGED << where, mode, kind, frozen, work, crashes >>

\* rename_stopped: the caller gets an error, the pause stays.
Stop ==
    /\ frozen' = FALSE
    /\ at' = "idle"

CanRun ==
    /\ at = "steps" /\ ~AllDone
    /\ MovesNext => paused

RunStep ==
    /\ CanRun
    /\ IF StepFails(journal.next)
         THEN Stop /\ UNCHANGED where
         ELSE /\ MoveStore(journal.next)
              /\ frozen' = (frozen \/ MovesNext)
              /\ at' = "note"
    /\ UNCHANGED << journal, mode, kind, paused, work, counters >>

\* The step's own store refuses, for now.
StepRefused ==
    /\ CanRun
    /\ faults < MaxFaults /\ faults' = faults + 1
    /\ Stop
    /\ UNCHANGED << disk, mode, kind, paused, work, crashes >>

\* Mutant of NoteStep: the step counted twice
NoteStepTwice ==
    /\ at = "note"
    /\ journal' = [journal EXCEPT !.next = @ + 2]
    /\ at' = "steps"
    /\ UNCHANGED << where, mode, kind, paused, frozen, work, counters >>

NoteStep ==
    /\ at = "note"
    /\ \/ /\ journal' = [journal EXCEPT !.next = @ + 1]
          /\ at' = "steps"
          /\ UNCHANGED << frozen, faults >>
       \/ /\ faults < MaxFaults /\ faults' = faults + 1
          /\ Stop
          /\ UNCHANGED journal
    /\ UNCHANGED << where, mode, kind, paused, work, crashes >>

\* Every step is done: the names are published.
Publish ==
    /\ at = "steps" /\ AllDone /\ paused
    /\ frozen' = FALSE
    /\ at' = "unjournal"
    /\ UNCHANGED << disk, mode, kind, paused, work, counters >>

\* The journal goes; one that cannot be deleted is only logged.
RemoveJournal ==
    /\ at = "unjournal"
    /\ \/ journal' = [journal EXCEPT !.open = FALSE] /\ UNCHANGED faults
       \/ faults < MaxFaults /\ faults' = faults + 1 /\ UNCHANGED journal
    /\ at' = "resume"
    /\ UNCHANGED << where, mode, kind, paused, frozen, work, crashes >>

Resume ==
    /\ at = "resume"
    /\ paused' = FALSE
    /\ at' = "idle"
    /\ UNCHANGED << disk, mode, kind, frozen, work, counters >>

\* The request's connection goes: its future is dropped at an await, which
\* frees the slot and the locks and undoes nothing else.
Dropped ==
    /\ mode = "serving" /\ at \in DropsAt
    /\ at' = "idle"
    /\ UNCHANGED << disk, mode, kind, paused, frozen, work, counters >>

-----------------------------------------------------------------------------
(* The daemon *)

GoDown ==
    /\ mode' = "down"
    /\ at' = "idle" /\ paused' = FALSE /\ frozen' = FALSE
    /\ worker' = [w \in Workers |-> "out"]
    /\ UNCHANGED << disk, kind, name >>

Crash ==
    /\ mode # "down"
    /\ crashes < MaxCrashes /\ crashes' = crashes + 1
    /\ GoDown
    /\ UNCHANGED faults

\* A daemon whose rename stopped is restarted.
Restart ==
    /\ mode = "serving" /\ at = "idle" /\ journal.open
    /\ GoDown
    /\ UNCHANGED counters

\* A start finishes the rename it finds before it serves anything.
Start ==
    /\ mode = "down"
    /\ mode' = "starting"
    /\ IF journal.open THEN at' = "steps" /\ kind' = journal.kind
                       ELSE UNCHANGED << at, kind >>
    /\ UNCHANGED << disk, paused, frozen, work, counters >>

Serve ==
    /\ mode = "starting" /\ at = "idle"
    /\ mode' = "serving"
    /\ UNCHANGED << disk, rename, work, counters >>

-----------------------------------------------------------------------------
(* A write, and a pass *)

Goes(w, to) ==
    /\ worker' = [worker EXCEPT ![w] = to]
    /\ UNCHANGED << disk, mode, rename, name, counters >>

\* The caller's spelling is mapped to the name the domain has here, and a
\* pass lists its targets.
Localize(w) ==
    /\ mode = "serving" /\ worker[w] = "out"
    /\ \E n \in Config : name' = [name EXCEPT ![w] = n]
    /\ worker' = [worker EXCEPT ![w] = "asked"]
    /\ UNCHANGED << disk, mode, rename, counters >>

\* enter_write: the pause is over, and the name still registered or not.
WaitClear(w) ==
    /\ w \in Writers
    /\ worker[w] = "asked" /\ ~paused
    /\ Goes(w, IF name[w] \in Config THEN "cleared" ELSE "out")

\* Thirty seconds of pause: the caller is told to try again.
WaitTimesOut(w) ==
    /\ w \in Writers
    /\ worker[w] = "asked" /\ paused
    /\ Goes(w, "out")

\* try_enter: counted first, then the pause is looked at.
Count(w) ==
    /\ worker[w] = IF w \in Writers THEN "cleared" ELSE "asked"
    /\ Goes(w, "counted")

\* Mutant of CheckPause: what was counted goes on
CheckNothing(w) ==
    /\ worker[w] = "counted"
    /\ Goes(w, "in")

CheckPause(w) ==
    /\ worker[w] = "counted"
    /\ Goes(w, IF ~paused THEN "in" ELSE IF w \in Writers THEN "asked" ELSE "out")

\* The domain's row and its folders, under the name the worker holds.
Touch(w) ==
    /\ worker' = [worker EXCEPT ![w] = "written"]
    /\ where' = [where EXCEPT ![IndexRow] = @ \cup {name[w]},
                              ![OverlaysDir] = @ \cup {name[w]}]
    /\ UNCHANGED << journal, mode, rename, name, counters >>

\* A write asks for its domain once more; while a rename has it paused the
\* row is looked up, never created.
Write(w) ==
    /\ w \in Writers
    /\ worker[w] = "in"
    /\ IF name[w] \in Config /\ (paused => name[w] \in where[IndexRow])
         THEN Touch(w)
         ELSE Goes(w, "out")

\* A pass upserts the row of the name it was listed under.
Walk(w) ==
    /\ w \in Passes
    /\ worker[w] = "in"
    /\ IF Stale \/ name[w] \in Config
         THEN /\ worker' = [worker EXCEPT ![w] = "written"]
              /\ where' = [where EXCEPT ![IndexRow] = @ \cup {name[w]}]
              /\ UNCHANGED << journal, mode, rename, name, counters >>
         ELSE Goes(w, "out")

Leave(w) ==
    /\ worker[w] = "written"
    /\ Goes(w, "out")

Work(w) ==
    \/ Localize(w)
    \/ WaitClear(w)
    \/ WaitTimesOut(w)
    \/ Count(w)
    \/ CheckPause(w)
    \/ Write(w)
    \/ Walk(w)
    \/ Leave(w)

RenameStep ==
    \/ Pause
    \/ Drained
    \/ DrainTimesOut
    \/ SaveJournal
    \/ RunStep
    \/ NoteStep
    \/ Publish
    \/ RemoveJournal
    \/ Resume

Next ==
    \/ \E k \in Kinds : Ask(k)
    \/ Resend
    \/ RenameStep
    \/ StepRefused
    \/ Dropped
    \/ Crash
    \/ Restart
    \/ Start
    \/ Serve
    \/ \E w \in Workers : Work(w)

Spec == Init /\ [][Next]_vars

\* The rename, a start, and a write that is under way are tasks that go on;
\* and a daemon whose rename stopped is started again some time, which is
\* what the stopped rename waits for.
FairSpec ==
    /\ Spec
    /\ WF_vars(RenameStep)
    /\ SF_vars(Restart)
    /\ WF_vars(Start)
    /\ WF_vars(Serve)
    /\ \A w \in Workers : WF_vars(CheckPause(w) \/ Write(w) \/ Walk(w) \/ Leave(w))

-----------------------------------------------------------------------------
(* Properties *)

\* Type correctness.
TypeOK ==
    /\ where \in [Stores -> SUBSET Names]
    /\ journal \in [open : BOOLEAN, kind : {"local", "full"},
                    next : Manifest .. ConfigFile + 1]
    /\ mode \in {"down", "starting", "serving"}
    /\ at \in {"idle", "pause", "drain", "journal", "steps", "note",
               "unjournal", "resume"}
    /\ kind \in {"local", "full"}
    /\ paused \in BOOLEAN /\ frozen \in BOOLEAN
    /\ worker \in [Workers -> {"out", "asked", "cleared", "counted", "in", "written"}]
    /\ name \in [Workers -> Names]
    /\ crashes \in 0 .. MaxCrashes /\ faults \in 0 .. MaxFaults

\* When no rename runs and none is left over, the index row, the access
\* records, the state folders, the receipt, and after a full rename the
\* MANIFEST and the links, all carry the name of the configuration: no crash,
\* stop or resend splits a domain in two.
OneName ==
    mode = "serving" /\ at = "idle" /\ ~journal.open =>
        \A s \in FirstOf(kind) .. ConfigFile : where[s] \subseteq Config

\* A write, or a pass, only ever lands in a domain all of whose stores carry
\* the one name it holds (rename.rs: "so nothing writes under the old name
\* after the index row has moved").
LandsInWholeDomain ==
    [][\A w \in Workers : worker[w] = "in" /\ worker'[w] = "written" =>
          \A s \in Moving : where[s] \subseteq {name[w]}]_vars

\* The index never keeps rows of the domain under both of its names
\* (sync.rs, on the passes a rename skips: "a pass under the old one would
\* register a second row").
OneRow == where[IndexRow] # Names

\* A pause is lifted, and the spellings are pushed again, once no rename runs
\* and none is left over: writers are told "is being renamed" only while
\* it is.
HeldWithReason == paused \/ frozen => at # "idle" \/ journal.open

\* A rename that was begun is finished, whatever crashed or failed: each
\* step can be run again on what an earlier run of it left.
LeftoverGoes == journal.open ~> ~journal.open

=============================================================================
