-------------------------- MODULE DomainRenameProofs -------------------------
(***************************************************************************)
(* Theorems about DomainRename: a rename that crashes or stops anywhere    *)
(* never splits the domain, and no write lands in a split one.             *)
(***************************************************************************)
EXTENDS DomainRename, TLAPS

-----------------------------------------------------------------------------
(* The invariant *)

\* The configuration has the domain under one name, and the index has it.
OneConfig ==
    /\ Config = {Old} \/ Config = {New}
    /\ where[IndexRow] # {}

\* While a journal is there, what it lists has moved, what comes after its
\* next step has not, and the next step's store is on one side.
JournalIsTrue ==
    journal.open =>
        /\ journal.next >= FirstOf(journal.kind)
        /\ \A s \in Stores :
              /\ s >= FirstOf(journal.kind) /\ s < journal.next => where[s] \subseteq {New}
              /\ s > journal.next => where[s] \subseteq {Old}
              /\ s = journal.next => where[s] \subseteq {Old} \/ where[s] \subseteq {New}

\* Without one, everything is on the side of the configuration.
SettledIsWhole ==
    ~journal.open =>
        /\ Config = {Old} => \A s \in Stores : where[s] \subseteq {Old}
        /\ Config = {New} =>
              \A s \in Stores : s >= FirstOf(kind) => where[s] \subseteq {New}

\* Where the rename is, against its journal and its pause.
Course ==
    /\ at \in {"steps", "note", "unjournal"} => journal.open /\ kind = journal.kind
    /\ at \in {"pause", "journal"} =>
          ~journal.open /\ Config = {Old} /\ mode = "serving"
    /\ at = "pause" => ~paused /\ kind = "local"
    /\ at = "journal" => (paused <=> kind = "local")
    /\ at = "drain" =>
          /\ paused
          /\ journal.open => MovesNext /\ kind = journal.kind
          /\ ~journal.open => Config = {Old} /\ mode = "serving" /\ kind = "local"
    /\ at = "note" =>
          /\ ~AllDone /\ where[journal.next] \subseteq {New}
          /\ MovesNext => paused
    /\ at = "unjournal" => AllDone /\ paused
    /\ at = "resume" =>
          /\ paused /\ Config = {New}
          /\ journal.open => AllDone /\ kind = journal.kind
    /\ frozen => paused /\ journal.open /\ at \in {"idle", "steps", "note"}
    /\ mode = "down" => at = "idle" /\ ~paused
    /\ mode = "serving" /\ (at = "drain" \/ (at = "steps" /\ ~paused)) =>
          Config = {Old}

\* A half-moved domain that is served is paused, and its pause has drained.
HalfMovedIsPaused ==
    /\ journal.open /\ Config = {Old}
    /\ mode = "serving" \/ (mode = "starting" /\ at = "idle")
    /\ ~paused \/ at = "drain"
    => \A s \in Moving : where[s] \subseteq {Old}

\* Who works, under which name, and nobody inside a drained pause.
WorkersKnow ==
    \A w \in Workers :
        /\ worker[w] # "out" => mode = "serving"
        /\ worker[w] # "out" /\ name[w] = New => Config = {New}
        /\ paused /\ at # "drain" => worker[w] # "in"

IInv ==
    /\ TypeOK
    /\ OneConfig
    /\ JournalIsTrue
    /\ SettledIsWhole
    /\ Course
    /\ HalfMovedIsPaused
    /\ WorkersKnow
    /\ HeldWithReason

USE NameAssumption, KindAssumption, DropAssumption, BoundAssumption, WorkerAssumption
    DEF Workers, Names, Stores, Moving, Manifest, Relink, IndexRow, AuthTables,
        OriginsDir, OverlaysDir, KeptDir, ProvisionReceipt, ConfigFile, FirstOf,
        Config, AllDone, MovesNext

-----------------------------------------------------------------------------
(* The invariant is inductive *)

\* It holds at the start.
LEMMA InitHolds == Init => IInv
<1> SUFFICES ASSUME Init PROVE IInv
  OBVIOUS
<1> USE DEF Init
<1>1. TypeOK
  <2>1. PICK drafts \in {{Old}, {}} :
            where = [s \in Stores |-> IF s = OverlaysDir THEN drafts ELSE {Old}]
    OBVIOUS
  <2>2. where \in [Stores -> SUBSET Names]
    BY <2>1
  <2>3. journal \in [open : BOOLEAN, kind : {"local", "full"},
                    next : Manifest .. ConfigFile + 1]
    OBVIOUS
  <2>4. /\ worker \in [Workers -> {"out", "asked", "cleared", "counted", "in", "written"}]
        /\ name \in [Workers -> Names]
    OBVIOUS
  <2>5. crashes \in 0 .. MaxCrashes /\ faults \in 0 .. MaxFaults
    OBVIOUS
  <2> QED
    BY <2>2, <2>3, <2>4, <2>5 DEF TypeOK
<1>2. OneConfig
  BY DEF OneConfig
<1>3. JournalIsTrue
  BY DEF JournalIsTrue
<1>4. SettledIsWhole
  BY DEF SettledIsWhole
<1>5. Course
  BY DEF Course
<1>6. HalfMovedIsPaused
  BY DEF HalfMovedIsPaused
<1>7. WorkersKnow
  BY DEF WorkersKnow
<1>8. HeldWithReason
  BY DEF HeldWithReason
<1> QED
  BY <1>1, <1>2, <1>3, <1>4, <1>5, <1>6, <1>7, <1>8 DEF IInv

\* A rename is asked for: nothing moved yet.
LEMMA AskKeeps == IInv /\ (\E k \in Kinds : Ask(k)) => IInv'
<1> SUFFICES ASSUME IInv, \E k \in Kinds : Ask(k) PROVE IInv'
  OBVIOUS
<1> USE DEF IInv, Ask, disk, rename, work, counters
<1>1. TypeOK'
  BY DEF TypeOK, Course
<1>2. OneConfig'
  BY DEF TypeOK, OneConfig, JournalIsTrue
<1>3. JournalIsTrue'
  BY DEF TypeOK, JournalIsTrue, SettledIsWhole, Course
<1>4. SettledIsWhole'
  BY DEF TypeOK, JournalIsTrue, SettledIsWhole, Course
<1>5. Course'
  BY DEF TypeOK, OneConfig, JournalIsTrue, SettledIsWhole, Course, HeldWithReason
<1>6. HalfMovedIsPaused'
  BY DEF TypeOK, JournalIsTrue, SettledIsWhole, Course, HalfMovedIsPaused, WorkersKnow, HeldWithReason
<1>7. WorkersKnow'
  BY DEF TypeOK, OneConfig, Course, WorkersKnow
<1>8. HeldWithReason'
  BY DEF Course, HeldWithReason
<1> QED
  BY <1>1, <1>2, <1>3, <1>4, <1>5, <1>6, <1>7, <1>8

\* The pause: whoever is inside is still inside.
LEMMA PauseKeeps == IInv /\ Pause => IInv'
<1> SUFFICES ASSUME IInv, Pause PROVE IInv'
  OBVIOUS
<1> USE DEF IInv, Pause, disk, rename, work, counters
<1>1. TypeOK'
  BY DEF TypeOK, Course
<1>2. OneConfig'
  BY DEF TypeOK, OneConfig, JournalIsTrue
<1>3. JournalIsTrue'
  BY DEF TypeOK, JournalIsTrue, SettledIsWhole, Course
<1>4. SettledIsWhole'
  BY DEF TypeOK, JournalIsTrue, SettledIsWhole, Course
<1>5. Course'
  BY DEF TypeOK, OneConfig, JournalIsTrue, Course
<1>6. HalfMovedIsPaused'
  BY DEF TypeOK, JournalIsTrue, SettledIsWhole, Course, HalfMovedIsPaused, WorkersKnow, HeldWithReason
<1>7. WorkersKnow'
  BY DEF TypeOK, OneConfig, Course, WorkersKnow
<1>8. HeldWithReason'
  BY DEF Course, HeldWithReason
<1> QED
  BY <1>1, <1>2, <1>3, <1>4, <1>5, <1>6, <1>7, <1>8

\* The drain: nobody is inside any more.
LEMMA DrainedKeeps == IInv /\ Drained => IInv'
<1> SUFFICES ASSUME IInv, Drained PROVE IInv'
  OBVIOUS
<1> USE DEF IInv, Drained, Counted, disk, rename, work, counters
<1>1. TypeOK'
  BY DEF TypeOK, Course
<1>2. OneConfig'
  BY DEF TypeOK, OneConfig, JournalIsTrue
<1>3. JournalIsTrue'
  BY DEF TypeOK, JournalIsTrue, SettledIsWhole, Course
<1>4. SettledIsWhole'
  BY DEF TypeOK, JournalIsTrue, SettledIsWhole, Course
<1>5. Course'
  BY DEF TypeOK, OneConfig, JournalIsTrue, Course
<1>6. HalfMovedIsPaused'
  BY DEF TypeOK, JournalIsTrue, SettledIsWhole, Course, HalfMovedIsPaused, WorkersKnow, HeldWithReason
<1>7. WorkersKnow'
  BY DEF TypeOK, OneConfig, Course, WorkersKnow
<1>8. HeldWithReason'
  BY DEF Course, HeldWithReason
<1> QED
  BY <1>1, <1>2, <1>3, <1>4, <1>5, <1>6, <1>7, <1>8

\* The drain gives up: nothing moved, nothing is paused.
LEMMA DrainTimesOutKeeps == IInv /\ DrainTimesOut => IInv'
<1> SUFFICES ASSUME IInv, DrainTimesOut PROVE IInv'
  OBVIOUS
<1> USE DEF IInv, DrainTimesOut, Counted, disk, rename, work, counters
<1>1. TypeOK'
  BY DEF TypeOK, Course
<1>2. OneConfig'
  BY DEF TypeOK, OneConfig, JournalIsTrue
<1>3. JournalIsTrue'
  BY DEF TypeOK, JournalIsTrue, SettledIsWhole, Course
<1>4. SettledIsWhole'
  BY DEF TypeOK, JournalIsTrue, SettledIsWhole, Course
<1>5. Course'
  BY DEF TypeOK, OneConfig, JournalIsTrue, Course
<1>6. HalfMovedIsPaused'
  BY DEF TypeOK, JournalIsTrue, SettledIsWhole, Course, HalfMovedIsPaused, WorkersKnow, HeldWithReason
<1>7. WorkersKnow'
  BY DEF TypeOK, OneConfig, Course, WorkersKnow
<1>8. HeldWithReason'
  BY DEF Course, HeldWithReason
<1> QED
  BY <1>1, <1>2, <1>3, <1>4, <1>5, <1>6, <1>7, <1>8

\* The journal is written.
LEMMA SaveJournalKeeps == IInv /\ SaveJournal => IInv'
<1> SUFFICES ASSUME IInv, SaveJournal PROVE IInv'
  OBVIOUS
<1> USE DEF IInv, SaveJournal, disk, rename, work, counters
<1>1. TypeOK'
  <2>1. (where \in [Stores -> SUBSET Names])'
    BY DEF TypeOK, Course
  <2>2. (journal \in [open : BOOLEAN, kind : {"local", "full"},
                    next : Manifest .. ConfigFile + 1])'
    <3>1. kind \in {"local", "full"} /\ FirstOf(kind) \in Manifest .. ConfigFile + 1
      BY DEF TypeOK
    <3>2. CASE journal' = journal
      BY <3>2 DEF TypeOK
    <3>3. CASE journal' = [open |-> TRUE, kind |-> kind, next |-> FirstOf(kind)]
      BY <3>1, <3>3
    <3> QED
      BY <3>2, <3>3
  <2>3. (/\ mode \in {"down", "starting", "serving"}
         /\ at \in {"idle", "pause", "drain", "journal", "steps", "note",
                    "unjournal", "resume"}
         /\ kind \in {"local", "full"}
         /\ paused \in BOOLEAN /\ frozen \in BOOLEAN)'
    BY DEF TypeOK, Course
  <2>4. (/\ worker \in [Workers -> {"out", "asked", "cleared", "counted", "in", "written"}]
         /\ name \in [Workers -> Names])'
    BY DEF TypeOK, Course
  <2>5. (crashes \in 0 .. MaxCrashes /\ faults \in 0 .. MaxFaults)'
    BY DEF TypeOK, Course
  <2> QED
    BY <2>1, <2>2, <2>3, <2>4, <2>5 DEF TypeOK
<1>2. OneConfig'
  BY DEF TypeOK, OneConfig, JournalIsTrue
<1>3. JournalIsTrue'
  BY DEF TypeOK, JournalIsTrue, SettledIsWhole, Course
<1>4. SettledIsWhole'
  BY DEF TypeOK, JournalIsTrue, SettledIsWhole, Course
<1>5. Course'
  BY DEF TypeOK, OneConfig, JournalIsTrue, Course
<1>6. HalfMovedIsPaused'
  BY DEF TypeOK, JournalIsTrue, SettledIsWhole, Course, HalfMovedIsPaused, WorkersKnow, HeldWithReason
<1>7. WorkersKnow'
  BY DEF TypeOK, OneConfig, Course, WorkersKnow
<1>8. HeldWithReason'
  BY DEF Course, HeldWithReason
<1> QED
  BY <1>1, <1>2, <1>3, <1>4, <1>5, <1>6, <1>7, <1>8

\* One step moves one store.
LEMMA RunStepKeeps == IInv /\ RunStep => IInv'
<1> SUFFICES ASSUME IInv, RunStep PROVE IInv'
  OBVIOUS
<1> USE DEF IInv, RunStep, CanRun, StepFails, MoveStore, Stop, disk, rename, work, counters
<1>1. TypeOK'
  <2>1. (where \in [Stores -> SUBSET Names])'
    BY DEF TypeOK, Course
  <2>2. (journal \in [open : BOOLEAN, kind : {"local", "full"},
                    next : Manifest .. ConfigFile + 1])'
    BY DEF TypeOK, Course
  <2>3. (/\ mode \in {"down", "starting", "serving"}
         /\ at \in {"idle", "pause", "drain", "journal", "steps", "note",
                    "unjournal", "resume"}
         /\ kind \in {"local", "full"}
         /\ paused \in BOOLEAN /\ frozen \in BOOLEAN)'
    BY DEF TypeOK, Course
  <2>4. (/\ worker \in [Workers -> {"out", "asked", "cleared", "counted", "in", "written"}]
         /\ name \in [Workers -> Names])'
    BY DEF TypeOK, Course
  <2>5. (crashes \in 0 .. MaxCrashes /\ faults \in 0 .. MaxFaults)'
    BY DEF TypeOK, Course
  <2> QED
    BY <2>1, <2>2, <2>3, <2>4, <2>5 DEF TypeOK
<1>2. OneConfig'
  BY DEF TypeOK, OneConfig, JournalIsTrue
<1>3. JournalIsTrue'
  BY DEF TypeOK, JournalIsTrue, SettledIsWhole, Course
<1>4. SettledIsWhole'
  BY DEF TypeOK, JournalIsTrue, SettledIsWhole, Course
<1>5. Course'
  BY DEF TypeOK, OneConfig, JournalIsTrue, Course
<1>6. HalfMovedIsPaused'
  BY DEF TypeOK, JournalIsTrue, SettledIsWhole, Course, HalfMovedIsPaused, WorkersKnow, HeldWithReason
<1>7. WorkersKnow'
  BY DEF TypeOK, OneConfig, Course, WorkersKnow
<1>8. HeldWithReason'
  BY DEF Course, HeldWithReason
<1> QED
  BY <1>1, <1>2, <1>3, <1>4, <1>5, <1>6, <1>7, <1>8

\* The step is noted.
LEMMA NoteStepKeeps == IInv /\ NoteStep => IInv'
<1> SUFFICES ASSUME IInv, NoteStep PROVE IInv'
  OBVIOUS
<1> USE DEF IInv, NoteStep, Stop, disk, rename, work, counters
<1>1. TypeOK'
  <2>1. (where \in [Stores -> SUBSET Names])'
    BY DEF TypeOK, Course
  <2>2. (journal \in [open : BOOLEAN, kind : {"local", "full"},
                    next : Manifest .. ConfigFile + 1])'
    BY DEF TypeOK, Course
  <2>3. (/\ mode \in {"down", "starting", "serving"}
         /\ at \in {"idle", "pause", "drain", "journal", "steps", "note",
                    "unjournal", "resume"}
         /\ kind \in {"local", "full"}
         /\ paused \in BOOLEAN /\ frozen \in BOOLEAN)'
    BY DEF TypeOK, Course
  <2>4. (/\ worker \in [Workers -> {"out", "asked", "cleared", "counted", "in", "written"}]
         /\ name \in [Workers -> Names])'
    BY DEF TypeOK, Course
  <2>5. (crashes \in 0 .. MaxCrashes /\ faults \in 0 .. MaxFaults)'
    BY DEF TypeOK, Course
  <2> QED
    BY <2>1, <2>2, <2>3, <2>4, <2>5 DEF TypeOK
<1>2. OneConfig'
  BY DEF TypeOK, OneConfig, JournalIsTrue
<1>3. JournalIsTrue'
  BY DEF TypeOK, JournalIsTrue, SettledIsWhole, Course
<1>4. SettledIsWhole'
  BY DEF TypeOK, JournalIsTrue, SettledIsWhole, Course
<1>5. Course'
  BY DEF TypeOK, OneConfig, JournalIsTrue, Course
<1>6. HalfMovedIsPaused'
  BY DEF TypeOK, JournalIsTrue, SettledIsWhole, Course, HalfMovedIsPaused, WorkersKnow, HeldWithReason
<1>7. WorkersKnow'
  BY DEF TypeOK, OneConfig, Course, WorkersKnow
<1>8. HeldWithReason'
  BY DEF Course, HeldWithReason
<1> QED
  BY <1>1, <1>2, <1>3, <1>4, <1>5, <1>6, <1>7, <1>8

\* The names are published.
LEMMA PublishKeeps == IInv /\ Publish => IInv'
<1> SUFFICES ASSUME IInv, Publish PROVE IInv'
  OBVIOUS
<1> USE DEF IInv, Publish, disk, rename, work, counters
<1>1. TypeOK'
  BY DEF TypeOK, Course
<1>2. OneConfig'
  BY DEF TypeOK, OneConfig, JournalIsTrue
<1>3. JournalIsTrue'
  BY DEF TypeOK, JournalIsTrue, SettledIsWhole, Course
<1>4. SettledIsWhole'
  BY DEF TypeOK, JournalIsTrue, SettledIsWhole, Course
<1>5. Course'
  BY DEF TypeOK, OneConfig, JournalIsTrue, Course
<1>6. HalfMovedIsPaused'
  BY DEF TypeOK, JournalIsTrue, SettledIsWhole, Course, HalfMovedIsPaused, WorkersKnow, HeldWithReason
<1>7. WorkersKnow'
  BY DEF TypeOK, OneConfig, Course, WorkersKnow
<1>8. HeldWithReason'
  BY DEF Course, HeldWithReason
<1> QED
  BY <1>1, <1>2, <1>3, <1>4, <1>5, <1>6, <1>7, <1>8

\* The journal goes.
LEMMA RemoveJournalKeeps == IInv /\ RemoveJournal => IInv'
<1> SUFFICES ASSUME IInv, RemoveJournal PROVE IInv'
  OBVIOUS
<1> USE DEF IInv, RemoveJournal, disk, rename, work, counters
<1>1. TypeOK'
  <2>1. (where \in [Stores -> SUBSET Names])'
    BY DEF TypeOK, Course
  <2>2. (journal \in [open : BOOLEAN, kind : {"local", "full"},
                    next : Manifest .. ConfigFile + 1])'
    BY DEF TypeOK, Course
  <2>3. (/\ mode \in {"down", "starting", "serving"}
         /\ at \in {"idle", "pause", "drain", "journal", "steps", "note",
                    "unjournal", "resume"}
         /\ kind \in {"local", "full"}
         /\ paused \in BOOLEAN /\ frozen \in BOOLEAN)'
    BY DEF TypeOK, Course
  <2>4. (/\ worker \in [Workers -> {"out", "asked", "cleared", "counted", "in", "written"}]
         /\ name \in [Workers -> Names])'
    BY DEF TypeOK, Course
  <2>5. (crashes \in 0 .. MaxCrashes /\ faults \in 0 .. MaxFaults)'
    BY DEF TypeOK, Course
  <2> QED
    BY <2>1, <2>2, <2>3, <2>4, <2>5 DEF TypeOK
<1>2. OneConfig'
  BY DEF TypeOK, OneConfig, JournalIsTrue
<1>3. JournalIsTrue'
  BY DEF TypeOK, JournalIsTrue, SettledIsWhole, Course
<1>4. SettledIsWhole'
  BY DEF TypeOK, JournalIsTrue, SettledIsWhole, Course
<1>5. Course'
  BY DEF TypeOK, OneConfig, JournalIsTrue, Course
<1>6. HalfMovedIsPaused'
  BY DEF TypeOK, JournalIsTrue, SettledIsWhole, Course, HalfMovedIsPaused, WorkersKnow, HeldWithReason
<1>7. WorkersKnow'
  BY DEF TypeOK, OneConfig, Course, WorkersKnow
<1>8. HeldWithReason'
  BY DEF Course, HeldWithReason
<1> QED
  BY <1>1, <1>2, <1>3, <1>4, <1>5, <1>6, <1>7, <1>8

\* The pause is lifted.
LEMMA ResumeKeeps == IInv /\ Resume => IInv'
<1> SUFFICES ASSUME IInv, Resume PROVE IInv'
  OBVIOUS
<1> USE DEF IInv, Resume, disk, rename, work, counters
<1>1. TypeOK'
  BY DEF TypeOK, Course
<1>2. OneConfig'
  BY DEF TypeOK, OneConfig, JournalIsTrue
<1>3. JournalIsTrue'
  BY DEF TypeOK, JournalIsTrue, SettledIsWhole, Course
<1>4. SettledIsWhole'
  BY DEF TypeOK, JournalIsTrue, SettledIsWhole, Course
<1>5. Course'
  BY DEF TypeOK, OneConfig, JournalIsTrue, Course
<1>6. HalfMovedIsPaused'
  BY DEF TypeOK, JournalIsTrue, SettledIsWhole, Course, HalfMovedIsPaused, WorkersKnow, HeldWithReason
<1>7. WorkersKnow'
  BY DEF TypeOK, OneConfig, Course, WorkersKnow
<1>8. HeldWithReason'
  BY DEF Course, HeldWithReason
<1> QED
  BY <1>1, <1>2, <1>3, <1>4, <1>5, <1>6, <1>7, <1>8

\* A step is refused, the pause stays.
LEMMA StepRefusedKeeps == IInv /\ StepRefused => IInv'
<1> SUFFICES ASSUME IInv, StepRefused PROVE IInv'
  OBVIOUS
<1> USE DEF IInv, StepRefused, CanRun, Stop, disk, rename, work, counters
<1>1. TypeOK'
  <2>1. (where \in [Stores -> SUBSET Names])'
    BY DEF TypeOK, Course
  <2>2. (journal \in [open : BOOLEAN, kind : {"local", "full"},
                    next : Manifest .. ConfigFile + 1])'
    BY DEF TypeOK, Course
  <2>3. (/\ mode \in {"down", "starting", "serving"}
         /\ at \in {"idle", "pause", "drain", "journal", "steps", "note",
                    "unjournal", "resume"}
         /\ kind \in {"local", "full"}
         /\ paused \in BOOLEAN /\ frozen \in BOOLEAN)'
    BY DEF TypeOK, Course
  <2>4. (/\ worker \in [Workers -> {"out", "asked", "cleared", "counted", "in", "written"}]
         /\ name \in [Workers -> Names])'
    BY DEF TypeOK, Course
  <2>5. (crashes \in 0 .. MaxCrashes /\ faults \in 0 .. MaxFaults)'
    BY DEF TypeOK, Course
  <2> QED
    BY <2>1, <2>2, <2>3, <2>4, <2>5 DEF TypeOK
<1>2. OneConfig'
  BY DEF TypeOK, OneConfig, JournalIsTrue
<1>3. JournalIsTrue'
  BY DEF TypeOK, JournalIsTrue, SettledIsWhole, Course
<1>4. SettledIsWhole'
  BY DEF TypeOK, JournalIsTrue, SettledIsWhole, Course
<1>5. Course'
  BY DEF TypeOK, OneConfig, JournalIsTrue, Course
<1>6. HalfMovedIsPaused'
  BY DEF TypeOK, JournalIsTrue, SettledIsWhole, Course, HalfMovedIsPaused, WorkersKnow, HeldWithReason
<1>7. WorkersKnow'
  BY DEF TypeOK, OneConfig, Course, WorkersKnow
<1>8. HeldWithReason'
  BY DEF Course, HeldWithReason
<1> QED
  BY <1>1, <1>2, <1>3, <1>4, <1>5, <1>6, <1>7, <1>8

\* The rename is sent again.
LEMMA ResendKeeps == IInv /\ Resend => IInv'
<1> SUFFICES ASSUME IInv, Resend PROVE IInv'
  OBVIOUS
<1> USE DEF IInv, Resend, disk, rename, work, counters
<1>1. TypeOK'
  BY DEF TypeOK, Course
<1>2. OneConfig'
  BY DEF TypeOK, OneConfig, JournalIsTrue
<1>3. JournalIsTrue'
  BY DEF TypeOK, JournalIsTrue, SettledIsWhole, Course
<1>4. SettledIsWhole'
  BY DEF TypeOK, JournalIsTrue, SettledIsWhole, Course
<1>5. Course'
  BY DEF TypeOK, OneConfig, JournalIsTrue, Course
<1>6. HalfMovedIsPaused'
  BY DEF TypeOK, JournalIsTrue, SettledIsWhole, Course, HalfMovedIsPaused, WorkersKnow, HeldWithReason
<1>7. WorkersKnow'
  BY DEF TypeOK, OneConfig, Course, WorkersKnow
<1>8. HeldWithReason'
  BY DEF Course, HeldWithReason
<1> QED
  BY <1>1, <1>2, <1>3, <1>4, <1>5, <1>6, <1>7, <1>8

\* The request goes away, not in the drain.
LEMMA DroppedKeeps == ASSUME "drain" \notin DropsAt PROVE IInv /\ Dropped => IInv'
<1> SUFFICES ASSUME IInv, Dropped PROVE IInv'
  OBVIOUS
<1> USE DEF IInv, Dropped, disk, rename, work, counters
<1>1. TypeOK'
  BY DEF TypeOK, Course
<1>2. OneConfig'
  BY DEF TypeOK, OneConfig, JournalIsTrue
<1>3. JournalIsTrue'
  BY DEF TypeOK, JournalIsTrue, SettledIsWhole, Course
<1>4. SettledIsWhole'
  BY DEF TypeOK, JournalIsTrue, SettledIsWhole, Course
<1>5. Course'
  BY DEF TypeOK, OneConfig, JournalIsTrue, Course
<1>6. HalfMovedIsPaused'
  BY DEF TypeOK, JournalIsTrue, SettledIsWhole, Course, HalfMovedIsPaused, WorkersKnow, HeldWithReason
<1>7. WorkersKnow'
  BY DEF TypeOK, OneConfig, Course, WorkersKnow
<1>8. HeldWithReason'
  BY DEF Course, HeldWithReason
<1> QED
  BY <1>1, <1>2, <1>3, <1>4, <1>5, <1>6, <1>7, <1>8

\* The daemon dies.
LEMMA CrashKeeps == IInv /\ Crash => IInv'
<1> SUFFICES ASSUME IInv, Crash PROVE IInv'
  OBVIOUS
<1> USE DEF IInv, Crash, GoDown, disk, rename, work, counters
<1>1. TypeOK'
  <2>1. (where \in [Stores -> SUBSET Names])'
    BY DEF TypeOK, Course
  <2>2. (journal \in [open : BOOLEAN, kind : {"local", "full"},
                    next : Manifest .. ConfigFile + 1])'
    BY DEF TypeOK, Course
  <2>3. (/\ mode \in {"down", "starting", "serving"}
         /\ at \in {"idle", "pause", "drain", "journal", "steps", "note",
                    "unjournal", "resume"}
         /\ kind \in {"local", "full"}
         /\ paused \in BOOLEAN /\ frozen \in BOOLEAN)'
    BY DEF TypeOK, Course
  <2>4. (/\ worker \in [Workers -> {"out", "asked", "cleared", "counted", "in", "written"}]
         /\ name \in [Workers -> Names])'
    BY DEF TypeOK, Course
  <2>5. (crashes \in 0 .. MaxCrashes /\ faults \in 0 .. MaxFaults)'
    BY DEF TypeOK, Course
  <2> QED
    BY <2>1, <2>2, <2>3, <2>4, <2>5 DEF TypeOK
<1>2. OneConfig'
  BY DEF TypeOK, OneConfig, JournalIsTrue
<1>3. JournalIsTrue'
  BY DEF TypeOK, JournalIsTrue, SettledIsWhole, Course
<1>4. SettledIsWhole'
  BY DEF TypeOK, JournalIsTrue, SettledIsWhole, Course
<1>5. Course'
  BY DEF TypeOK, OneConfig, JournalIsTrue, Course
<1>6. HalfMovedIsPaused'
  BY DEF TypeOK, JournalIsTrue, SettledIsWhole, Course, HalfMovedIsPaused, WorkersKnow, HeldWithReason
<1>7. WorkersKnow'
  BY DEF TypeOK, OneConfig, Course, WorkersKnow
<1>8. HeldWithReason'
  BY DEF Course, HeldWithReason
<1> QED
  BY <1>1, <1>2, <1>3, <1>4, <1>5, <1>6, <1>7, <1>8

\* The daemon is restarted.
LEMMA RestartKeeps == IInv /\ Restart => IInv'
<1> SUFFICES ASSUME IInv, Restart PROVE IInv'
  OBVIOUS
<1> USE DEF IInv, Restart, GoDown, disk, rename, work, counters
<1>1. TypeOK'
  BY DEF TypeOK, Course
<1>2. OneConfig'
  BY DEF TypeOK, OneConfig, JournalIsTrue
<1>3. JournalIsTrue'
  BY DEF TypeOK, JournalIsTrue, SettledIsWhole, Course
<1>4. SettledIsWhole'
  BY DEF TypeOK, JournalIsTrue, SettledIsWhole, Course
<1>5. Course'
  BY DEF TypeOK, OneConfig, JournalIsTrue, Course
<1>6. HalfMovedIsPaused'
  BY DEF TypeOK, JournalIsTrue, SettledIsWhole, Course, HalfMovedIsPaused, WorkersKnow, HeldWithReason
<1>7. WorkersKnow'
  BY DEF TypeOK, OneConfig, Course, WorkersKnow
<1>8. HeldWithReason'
  BY DEF Course, HeldWithReason
<1> QED
  BY <1>1, <1>2, <1>3, <1>4, <1>5, <1>6, <1>7, <1>8

\* The daemon starts.
LEMMA StartKeeps == IInv /\ Start => IInv'
<1> SUFFICES ASSUME IInv, Start PROVE IInv'
  OBVIOUS
<1> USE DEF IInv, Start, disk, rename, work, counters
<1>1. TypeOK'
  BY DEF TypeOK, Course
<1>2. OneConfig'
  BY DEF TypeOK, OneConfig, JournalIsTrue
<1>3. JournalIsTrue'
  BY DEF TypeOK, JournalIsTrue, SettledIsWhole, Course
<1>4. SettledIsWhole'
  BY DEF TypeOK, JournalIsTrue, SettledIsWhole, Course
<1>5. Course'
  BY DEF TypeOK, OneConfig, JournalIsTrue, Course
<1>6. HalfMovedIsPaused'
  BY DEF TypeOK, JournalIsTrue, SettledIsWhole, Course, HalfMovedIsPaused, WorkersKnow, HeldWithReason
<1>7. WorkersKnow'
  BY DEF TypeOK, OneConfig, Course, WorkersKnow
<1>8. HeldWithReason'
  BY DEF Course, HeldWithReason
<1> QED
  BY <1>1, <1>2, <1>3, <1>4, <1>5, <1>6, <1>7, <1>8

\* It serves.
LEMMA ServeKeeps == IInv /\ Serve => IInv'
<1> SUFFICES ASSUME IInv, Serve PROVE IInv'
  OBVIOUS
<1> USE DEF IInv, Serve, disk, rename, work, counters
<1>1. TypeOK'
  BY DEF TypeOK, Course
<1>2. OneConfig'
  BY DEF TypeOK, OneConfig, JournalIsTrue
<1>3. JournalIsTrue'
  BY DEF TypeOK, JournalIsTrue, SettledIsWhole, Course
<1>4. SettledIsWhole'
  BY DEF TypeOK, JournalIsTrue, SettledIsWhole, Course
<1>5. Course'
  BY DEF TypeOK, OneConfig, JournalIsTrue, Course
<1>6. HalfMovedIsPaused'
  BY DEF TypeOK, JournalIsTrue, SettledIsWhole, Course, HalfMovedIsPaused, WorkersKnow, HeldWithReason
<1>7. WorkersKnow'
  BY DEF TypeOK, OneConfig, Course, WorkersKnow
<1>8. HeldWithReason'
  BY DEF Course, HeldWithReason
<1> QED
  BY <1>1, <1>2, <1>3, <1>4, <1>5, <1>6, <1>7, <1>8

\* A write that lands, lands in a domain that is whole.
LEMMA WholeWhereItLands ==
    ASSUME IInv, NEW w \in Workers, worker[w] = "in", name[w] \in Config
    PROVE  \A s \in Moving : where[s] \subseteq {name[w]}
<1>1. mode = "serving" /\ (~paused \/ at = "drain")
  BY DEF IInv, WorkersKnow
<1>2. CASE Config = {Old}
  <2>1. name[w] = Old
    BY <1>2
  <2>2. CASE journal.open
    BY <1>1, <1>2, <2>1, <2>2 DEF IInv, HalfMovedIsPaused
  <2>3. CASE ~journal.open
    BY <1>2, <2>1, <2>3 DEF IInv, SettledIsWhole
  <2> QED
    BY <2>2, <2>3
<1>3. CASE Config = {New}
  <2>1. name[w] = New
    BY <1>3
  <2>2. CASE journal.open
    BY <1>3, <2>1, <2>2 DEF IInv, TypeOK, JournalIsTrue
  <2>3. CASE ~journal.open
    BY <1>3, <2>1, <2>3 DEF IInv, TypeOK, SettledIsWhole
  <2> QED
    BY <2>2, <2>3
<1> QED
  BY <1>2, <1>3 DEF IInv, OneConfig

\* A worker moves on, and nothing else does.
LEMMA GoesKeeps ==
    ASSUME IInv, NEW w \in Workers,
           NEW to \in {"out", "asked", "cleared", "counted", "in", "written"},
           worker[w] # "out", to = "in" => ~paused, Goes(w, to)
    PROVE  IInv'
<1> USE DEF IInv, Goes, disk, rename, counters
<1>1. TypeOK'
  BY DEF TypeOK
<1>2. WorkersKnow'
  BY DEF WorkersKnow, TypeOK
<1>3. OneConfig' /\ JournalIsTrue' /\ SettledIsWhole' /\ HeldWithReason'
  BY DEF OneConfig, JournalIsTrue, SettledIsWhole, HeldWithReason
<1>4. Course' /\ HalfMovedIsPaused'
  BY DEF Course, HalfMovedIsPaused
<1> QED
  BY <1>1, <1>2, <1>3, <1>4

\* A worker writes under its own name into a domain that carries it.
LEMMA LandKeeps ==
    ASSUME IInv, NEW w \in Workers, worker[w] = "in", name[w] \in Config,
           worker' = [worker EXCEPT ![w] = "written"],
           where' \in [Stores -> SUBSET Names],
           \A s \in Stores \ {IndexRow, OverlaysDir} : where'[s] = where[s],
           \A s \in {IndexRow, OverlaysDir} :
              where[s] \subseteq where'[s] /\ where'[s] \subseteq where[s] \cup {name[w]},
           UNCHANGED << journal, mode, rename, name, counters >>
    PROVE  IInv'
<1> USE DEF IInv, rename, counters
<1>1. \A s \in Moving : where[s] \subseteq {name[w]}
  BY WholeWhereItLands
<1>2. TypeOK'
  BY DEF TypeOK
<1>3. OneConfig' /\ HeldWithReason'
  BY DEF OneConfig, HeldWithReason
<1>4. WorkersKnow'
  BY DEF WorkersKnow, TypeOK
<1>5. \A s \in Stores : where'[s] \subseteq where[s] \/ (s \in Moving /\ where'[s] \subseteq {name[w]})
  BY <1>1
<1>6. mode = "serving" /\ (~paused \/ at = "drain")
  BY DEF WorkersKnow
<1>7. JournalIsTrue'
  <2>1. CASE name[w] = Old /\ journal.open
    <3>1. Config = {Old}
      BY <2>1 DEF OneConfig
    <3>2. where[IndexRow] = {Old}
      BY <1>1, <2>1 DEF OneConfig, TypeOK
    <3>3. journal.next \in Nat /\ FirstOf(journal.kind) <= IndexRow
      BY DEF TypeOK
    <3>4. journal.next <= IndexRow
      BY <2>1, <3>2, <3>3 DEF JournalIsTrue
    <3>5. \A s \in Stores : s < journal.next => where'[s] = where[s]
      BY <3>3, <3>4
    <3> QED
      BY <1>5, <2>1, <3>3, <3>4, <3>5 DEF JournalIsTrue
  <2> QED
    BY <1>1, <1>5, <2>1 DEF JournalIsTrue, TypeOK, OneConfig
<1>8. SettledIsWhole'
  BY <1>1, <1>5 DEF SettledIsWhole, TypeOK
<1>9. Course' /\ HalfMovedIsPaused'
  BY <1>1, <1>5, <1>6 DEF Course, HalfMovedIsPaused, TypeOK, OneConfig
<1> QED
  BY <1>2, <1>3, <1>4, <1>7, <1>8, <1>9

\* A worker takes the name the domain has.
LEMMA LocalizeKeeps == \A w \in Workers : IInv /\ Localize(w) => IInv'
<1> SUFFICES ASSUME NEW w \in Workers, IInv, Localize(w) PROVE IInv'
  OBVIOUS
<1> USE DEF IInv, Localize, disk, rename, counters
<1>1. PICK n \in Config : name' = [name EXCEPT ![w] = n]
  OBVIOUS
<1>2. n \in Names /\ Config = {n}
  BY <1>1 DEF TypeOK, OneConfig
<1>3. TypeOK'
  BY <1>1, <1>2 DEF TypeOK
<1>4. WorkersKnow'
  BY <1>1, <1>2 DEF WorkersKnow, TypeOK
<1>5. OneConfig' /\ JournalIsTrue' /\ SettledIsWhole' /\ HeldWithReason'
  BY DEF OneConfig, JournalIsTrue, SettledIsWhole, HeldWithReason
<1>6. Course' /\ HalfMovedIsPaused'
  BY DEF Course, HalfMovedIsPaused
<1> QED
  BY <1>3, <1>4, <1>5, <1>6

\* The steps of a worker that touch nothing but itself.
LEMMA WaitsKeep ==
    \A w \in Workers :
        IInv /\ (WaitClear(w) \/ WaitTimesOut(w) \/ Count(w) \/ CheckPause(w) \/ Leave(w))
        => IInv'
<1> SUFFICES ASSUME NEW w \in Workers, IInv,
                    WaitClear(w) \/ WaitTimesOut(w) \/ Count(w) \/ CheckPause(w) \/ Leave(w)
             PROVE  IInv'
  OBVIOUS
<1>1. worker[w] # "out"
  BY DEF WaitClear, WaitTimesOut, Count, CheckPause, Leave
<1>2. CASE WaitClear(w)
  BY <1>1, <1>2, GoesKeeps DEF WaitClear
<1>3. CASE WaitTimesOut(w)
  BY <1>1, <1>3, GoesKeeps DEF WaitTimesOut
<1>4. CASE Count(w)
  BY <1>1, <1>4, GoesKeeps DEF Count
<1>5. CASE CheckPause(w)
  BY <1>1, <1>5, GoesKeeps DEF CheckPause
<1>6. CASE Leave(w)
  BY <1>1, <1>6, GoesKeeps DEF Leave
<1> QED
  BY <1>2, <1>3, <1>4, <1>5, <1>6

\* A write, and a pass that is not stale, lands under the configured name.
LEMMA WriteKeeps == \A w \in Workers : IInv /\ Write(w) => IInv'
<1> SUFFICES ASSUME NEW w \in Workers, IInv, Write(w) PROVE IInv'
  OBVIOUS
<1>1. CASE Goes(w, "out")
  BY <1>1, GoesKeeps DEF Write
<1>2. CASE name[w] \in Config /\ Touch(w)
  <2>1. where' \in [Stores -> SUBSET Names] /\ name[w] \in Names
    BY <1>2 DEF Touch, IInv, TypeOK
  <2>2. \A s \in Stores \ {IndexRow, OverlaysDir} : where'[s] = where[s]
    BY <1>2 DEF Touch, IInv, TypeOK
  <2>3. \A s \in {IndexRow, OverlaysDir} : where'[s] = where[s] \cup {name[w]}
    BY <1>2 DEF Touch, IInv, TypeOK
  <2> QED
    BY <1>2, <2>1, <2>2, <2>3, LandKeeps DEF Write, Touch
<1> QED
  BY <1>1, <1>2 DEF Write

LEMMA WalkKeeps == ASSUME ~Stale PROVE \A w \in Workers : IInv /\ Walk(w) => IInv'
<1> SUFFICES ASSUME NEW w \in Workers, IInv, Walk(w) PROVE IInv'
  OBVIOUS
<1>1. CASE Goes(w, "out")
  BY <1>1, GoesKeeps DEF Walk
<1>2. CASE name[w] \in Config
  <2>1. where' = [where EXCEPT ![IndexRow] = @ \cup {name[w]}] /\ name[w] \in Names
    BY <1>2 DEF Walk, IInv, TypeOK
  <2>2. where' \in [Stores -> SUBSET Names]
    BY <2>1 DEF IInv, TypeOK
  <2>3. \A s \in Stores \ {IndexRow} : where'[s] = where[s]
    BY <2>1 DEF IInv, TypeOK
  <2>4. where'[IndexRow] = where[IndexRow] \cup {name[w]}
    BY <2>1 DEF IInv, TypeOK
  <2> QED
    BY <1>2, <2>2, <2>3, <2>4, LandKeeps DEF Walk
<1> QED
  BY <1>1, <1>2 DEF Walk

\* Every step keeps the invariant.
LEMMA NextKeeps == ASSUME ~Stale, "drain" \notin DropsAt PROVE IInv /\ [Next]_vars => IInv'
<1> SUFFICES ASSUME IInv, [Next]_vars PROVE IInv'
  OBVIOUS
<1>1. CASE UNCHANGED vars
  <2> USE <1>1 DEF IInv, vars, disk, rename, work, counters
  <2>1. TypeOK' /\ OneConfig' /\ JournalIsTrue' /\ SettledIsWhole'
    BY DEF TypeOK, OneConfig, JournalIsTrue, SettledIsWhole
  <2>2. Course' /\ HalfMovedIsPaused' /\ WorkersKnow' /\ HeldWithReason'
    BY DEF Course, HalfMovedIsPaused, WorkersKnow, HeldWithReason
  <2> QED
    BY <2>1, <2>2
<1>2. CASE \E k \in Kinds : Ask(k)
  BY <1>2, AskKeeps
<1>3. CASE RenameStep
  BY <1>3, PauseKeeps, DrainedKeeps, DrainTimesOutKeeps, SaveJournalKeeps, RunStepKeeps,
     NoteStepKeeps, PublishKeeps, RemoveJournalKeeps, ResumeKeeps DEF RenameStep
<1>4. CASE StepRefused \/ Resend
  BY <1>4, StepRefusedKeeps, ResendKeeps
<1>5. CASE Crash \/ Restart \/ Start \/ Serve
  BY <1>5, CrashKeeps, RestartKeeps, StartKeeps, ServeKeeps
<1>6. CASE \E w \in Workers : Work(w)
  BY <1>6, LocalizeKeeps, WaitsKeep, WriteKeeps, WalkKeeps DEF Work
<1>7. CASE Dropped
  BY <1>7, DroppedKeeps
<1> QED
  BY <1>1, <1>2, <1>3, <1>4, <1>5, <1>6, <1>7 DEF Next

-----------------------------------------------------------------------------
(* The theorems.  They are about a daemon whose passes take their names    *)
(* from the configuration of their time and no rename of which is dropped  *)
(* while it drains.                                                        *)

THEOREM Invariance == ASSUME ~Stale, "drain" \notin DropsAt PROVE Spec => []IInv
<1>1. Init => IInv
  BY InitHolds
<1>2. IInv /\ [Next]_vars => IInv'
  BY NextKeeps
<1> QED
  BY <1>1, <1>2, PTL DEF Spec

\* Type correctness of the model of a rename, and the domain it leaves:
\* however a rename is stopped or crashed and resumed, in the end all of the
\* domain's stores carry its configured name.
THEOREM OneNameTheorem == ASSUME ~Stale, "drain" \notin DropsAt PROVE Spec => [](TypeOK /\ OneName)
<1>1. IInv => TypeOK /\ OneName
  <2> SUFFICES ASSUME IInv, mode = "serving", at = "idle", ~journal.open,
                      NEW s \in FirstOf(kind) .. ConfigFile
               PROVE  where[s] \subseteq Config
    BY DEF IInv, OneName
  <2>1. s \in Stores
    BY DEF IInv, TypeOK
  <2>2. s >= FirstOf(kind)
    BY DEF IInv, TypeOK
  <2> QED
    BY <2>1, <2>2 DEF IInv, OneConfig, SettledIsWhole
<1> QED
  BY <1>1, Invariance, PTL

\* A pause, and the freeze of the spellings, outlive no rename that needs
\* them.
THEOREM HeldTheorem == ASSUME ~Stale, "drain" \notin DropsAt PROVE Spec => []HeldWithReason
<1>1. IInv => HeldWithReason
  BY DEF IInv
<1> QED
  BY <1>1, Invariance, PTL

\* The index keeps the rows of one name of the domain only.
THEOREM OneRowTheorem == ASSUME ~Stale, "drain" \notin DropsAt PROVE Spec => []OneRow
<1>1. IInv => OneRow
  <2> SUFFICES ASSUME IInv PROVE OneRow
    OBVIOUS
  <2>1. CASE journal.open
    <3>1. IndexRow < journal.next \/ IndexRow > journal.next \/ IndexRow = journal.next
      BY DEF IInv, TypeOK
    <3>2. FirstOf(journal.kind) <= IndexRow
      OBVIOUS
    <3> QED
      BY <2>1, <3>1, <3>2 DEF IInv, JournalIsTrue, OneRow
  <2>2. CASE ~journal.open
    BY <2>2 DEF IInv, SettledIsWhole, OneConfig, OneRow
  <2> QED
    BY <2>1, <2>2
<1> QED
  BY <1>1, Invariance, PTL

\* Nothing is written into a domain whose stores are under two names.
THEOREM WholeTheorem == ASSUME ~Stale, "drain" \notin DropsAt PROVE Spec => LandsInWholeDomain
<1> DEFINE Lands == \A w \in Workers : worker[w] = "in" /\ worker'[w] = "written" =>
                        \A s \in Moving : where[s] \subseteq {name[w]}
<1>1. IInv /\ [Next]_vars => [Lands]_vars
  <2> SUFFICES ASSUME IInv, Next, NEW v \in Workers, worker[v] = "in", worker'[v] = "written"
               PROVE  \A s \in Moving : where[s] \subseteq {name[v]}
    OBVIOUS
  <2>1. \E w \in Workers : Write(w) \/ Walk(w)
    <3>1. CASE worker' = [w \in Workers |-> "out"]
      BY <3>1
    <3>2. CASE UNCHANGED worker
      BY <3>2
    <3>3. CASE \E w \in Workers : Work(w)
      <4>1. PICK w \in Workers : Work(w)
        BY <3>3
      <4>2. CASE Localize(w) \/ WaitClear(w) \/ WaitTimesOut(w) \/ Count(w) \/ CheckPause(w) \/ Leave(w)
        BY <4>2 DEF Localize, WaitClear, WaitTimesOut, Count, CheckPause, Leave, Goes, IInv, TypeOK
      <4> QED
        BY <4>1, <4>2 DEF Work
    <3> QED
      BY <3>1, <3>2, <3>3 DEF Next, Ask, Resend, RenameStep, Pause, Drained, DrainTimesOut,
         SaveJournal, RunStep, NoteStep, Publish, RemoveJournal, Resume, StepRefused, Dropped,
         Crash, Restart, GoDown, Start, Serve, work
  <2>2. PICK w \in Workers : Write(w) \/ Walk(w)
    BY <2>1
  <2>3. w = v
    BY <2>2 DEF Write, Walk, Touch, Goes, IInv, TypeOK
  <2>4. name[v] \in Config
    BY <2>2, <2>3 DEF Write, Walk, Touch, Goes, IInv, TypeOK
  <2> QED
    BY <2>4, WholeWhereItLands
<1>2. Spec => [][Next]_vars
  BY DEF Spec
<1>3. Spec => []IInv
  BY Invariance
<1>4. Spec => [][Lands]_vars
  BY <1>1, <1>2, <1>3, PTL
<1> QED
  BY <1>4 DEF LandsInWholeDomain

=============================================================================
