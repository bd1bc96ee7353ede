------------------------------- MODULE HostMove -------------------------------
(***************************************************************************)
(* The host lock of a file domain on a shared database, and the host move   *)
(* a claim marks when it takes the domain from another instance             *)
(* (crates/index/src/hosting.rs, sync.rs, crates/engine/src/engine/fence.rs).*)
(*                                                                         *)
(* Each instance has the domain's files on its disk, or on a volume that    *)
(* several share; the rows of the domain are in the one database.  A        *)
(* transaction of the database is one step.  A daemon and a one-shot        *)
(* command of one machine claim under the same instance id.                *)
(***************************************************************************)
EXTENDS Integers, FiniteSets

CONSTANTS
    Insts,       \* instances, each with its daemon
    Cmds,        \* one-shot commands (crystalline sync) beside the daemons
    Disks,
    Engrams,     \* files the index keeps by their stamp
    Assets,      \* attachments and Reflection files
    Texts,
    None,
    MaxClaims,   \* claims of the lock, each with a token of its own
    MaxWrites,   \* writes through the API
    MaxByHand,   \* changes in the folder by hand
    Raced        \* a walk or a write goes on across a loss of the lock that
                 \* its instance regained meanwhile

ASSUME HostAssumption ==
    /\ None \notin Insts \cup Cmds \cup Disks \cup Texts
    /\ Insts \cap Cmds = {} /\ Engrams \cap Assets = {}
    /\ MaxClaims \in Nat /\ MaxWrites \in Nat /\ MaxByHand \in Nat
    /\ Raced \in BOOLEAN

Files == Engrams \cup Assets
Procs == Insts \cup Cmds

VARIABLES
    home,        \* the disk of each instance
    runsOn,      \* the instance of each process
    disk,        \* the text of each file on each disk, or None
    row,         \* the text each file has a row of, or None
    lock,        \* domain_lock: the row, or NoLock
    last,        \* last_domain_host
    mark,        \* domain.host_move, or NoMark
    hosted,      \* processes that remember hosting the domain
    lease,       \* the tokens a process keeps to give the lock back with
    job,         \* the walk or the write of each process
    claims, writes, edits,
    had,         \* of the files with a row: those each disk has or had
    landed       \* the text of each file on each disk that nobody took back

world == <<home, runsOn>>
counts == <<writes, edits>>
files == <<disk, row, had, landed>>
locks == <<lock, last, claims>>
own == <<hosted, lease>>
vars == <<home, runsOn, disk, row, lock, last, mark, hosted, lease, job,
          claims, writes, edits, had, landed>>

NoLock == [holder |-> None]
NoMark == [claimant |-> None]
NoLease == [token |-> 0, over |-> 0]
Idle == [at |-> "idle"]

Contents == [Files -> Texts \cup {None}]
Locks == [holder : Insts, token : 1..MaxClaims, live : BOOLEAN]
Marks == [claimant : Insts, walked : BOOLEAN]
Walks == [at : {"claimed", "scanned"}, snap : Contents,
          found : Contents, lost : BOOLEAN]
Writes == [at : {"gated", "written"}, file : Files, text : Texts,
           before : Texts \cup {None}, lost : BOOLEAN]

TypeOK ==
    /\ home \in [Insts -> Disks]
    /\ runsOn \in [Procs -> Insts]
    /\ disk \in [Disks -> Contents]
    /\ row \in Contents
    /\ lock \in Locks \cup {NoLock}
    /\ last \in Insts \cup {None}
    /\ mark \in Marks \cup {NoMark}
    /\ hosted \in [Procs -> BOOLEAN]
    /\ lease \in [Procs -> [token : 0..MaxClaims, over : 0..MaxClaims]]
    /\ job \in [Procs -> Walks \cup Writes \cup {Idle, [at |-> "ending"]}]
    /\ claims \in 0..MaxClaims
    /\ writes \in 0..MaxWrites
    /\ edits \in 0..MaxByHand
    /\ had \in [Disks -> SUBSET Files]
    /\ landed \in [Disks -> Contents]

Blank == [f \in Files |-> None]

Init ==
    /\ home \in [Insts -> Disks]
    /\ runsOn \in {on \in [Procs -> Insts] : \A i \in Insts : on[i] = i}
    /\ disk \in [Disks -> Contents]
    /\ \A d \in Disks : (\A i \in Insts : home[i] # d) => disk[d] = Blank
    /\ row = Blank
    /\ lock = NoLock
    /\ last = None
    /\ mark = NoMark
    /\ hosted = [p \in Procs |-> FALSE]
    /\ lease = [p \in Procs |-> NoLease]
    /\ job = [p \in Procs |-> Idle]
    /\ claims = 0
    /\ writes = 0
    /\ edits = 0
    /\ had = [d \in Disks |-> {f \in Files : disk[d][f] # None}]
    /\ landed = disk

Disk(p) == home[runsOn[p]]
Holds(p) == lock # NoLock /\ lock.holder = runsOn[p]
Kept(d, r) == {f \in Files : disk[d][f] # None \/ (f \in had[d] /\ r[f] = row[f])}

\* The disks' histories after the rows are r.
Had(r) == [d \in Disks |-> Kept(d, r)]

-----------------------------------------------------------------------------
\* claim_domain_host.
Claimable(p, takeOver) ==
    lock # NoLock /\ ~Holds(p) /\ ~takeOver => ~lock.live

\* The live claim under the same id that a claim replaces.
Replaced(p) == IF Holds(p) /\ lock.live THEN lock.token ELSE 0

\* A re-claim of one's own lock keeps what the first claim replaced.
Over(p) ==
    IF Replaced(p) # 0 /\ Replaced(p) = lease[p].token THEN lease[p].over ELSE Replaced(p)

Previous == IF lock # NoLock THEN lock.holder ELSE last

\* Mutant of Marked: a lock nobody holds is claimed without a mark.
MarkedFromHolder(p) ==
    IF lock # NoLock /\ lock.holder # runsOn[p]
    THEN [claimant |-> runsOn[p], walked |-> FALSE] ELSE mark

\* claim_and_mark, in the claim's transaction.
Marked(p) ==
    IF Previous # runsOn[p] THEN [claimant |-> runsOn[p], walked |-> FALSE] ELSE mark

\* Mutant of LeaseOf: the first claim's token is kept.
LeaseOfFirst(p) ==
    IF lease[p].token # 0 THEN lease[p] ELSE [token |-> claims + 1, over |-> Over(p)]

LeaseOf(p) == [token |-> claims + 1, over |-> Over(p)]

\* claim_file_host: p acquires the lock.  Jobs of other instances have lost it.
Acquires(p) ==
    /\ claims < MaxClaims
    /\ claims' = claims + 1
    /\ lock' = [holder |-> runsOn[p], token |-> claims + 1, live |-> TRUE]
    /\ last' = runsOn[p]
    /\ mark' = Marked(p)
    /\ hosted' = [hosted EXCEPT ![p] = TRUE]
    /\ lease' = [lease EXCEPT ![p] = LeaseOf(p)]

Outlived(j, p) ==
    [q \in Procs |->
        IF j[q].at \in {"claimed", "scanned", "gated", "written"} /\ runsOn[q] # runsOn[p]
        THEN [j[q] EXCEPT !.lost = TRUE] ELSE j[q]]

\* The holder sends no heartbeat for the stale threshold.
Lapses ==
    /\ lock # NoLock
    /\ lock.live
    /\ lock' = [lock EXCEPT !.live = FALSE]
    /\ UNCHANGED <<world, files, last, mark, own, job, claims, counts>>

\* renew_hosts: by the instance's id, whatever token the row has.  A write
\* turned away at the gate ends hosting too.
Renews(i) ==
    /\ hosted[i]
    /\ IF Holds(i)
       THEN /\ ~lock.live
            /\ lock' = [lock EXCEPT !.live = TRUE]
            /\ UNCHANGED hosted
       ELSE /\ hosted' = [hosted EXCEPT ![i] = FALSE]
            /\ UNCHANGED lock
    /\ UNCHANGED <<world, files, last, mark, lease, job, claims, counts>>

\* release_hosts of a daemon that stops.
Stops(i) ==
    /\ job[i] = Idle
    /\ hosted[i]
    /\ lock' = IF Holds(i) /\ lock.token = lease[i].token THEN NoLock ELSE lock
    /\ hosted' = [hosted EXCEPT ![i] = FALSE]
    /\ lease' = [lease EXCEPT ![i] = NoLease]
    /\ UNCHANGED <<world, files, last, mark, job, claims, counts>>

\* A daemon dies; its row stays until it is stale, its file as it is.
Crashes(i) ==
    /\ hosted[i] \/ job[i] # Idle
    /\ hosted' = [hosted EXCEPT ![i] = FALSE]
    /\ lease' = [lease EXCEPT ![i] = NoLease]
    /\ job' = [job EXCEPT ![i] = Idle]
    /\ landed' = IF job[i].at = "written"
                 THEN [landed EXCEPT ![Disk(i)][job[i].file] = disk[Disk(i)][job[i].file]]
                 ELSE landed
    /\ UNCHANGED <<world, disk, row, had, locks, mark, counts>>

\* give_back: the claim this one replaced has its token again.
GivesBack(c) ==
    lock' =
        CASE ~Holds(c) -> lock
          [] Holds(c) /\ lock.token # lease[c].token -> lock
          [] OTHER -> IF lease[c].over = 0 THEN NoLock
                      ELSE [lock EXCEPT !.token = lease[c].over]

CommandEnds(c) ==
    /\ job[c].at = "ending"
    /\ GivesBack(c)
    /\ hosted' = [hosted EXCEPT ![c] = FALSE]
    /\ lease' = [lease EXCEPT ![c] = NoLease]
    /\ job' = [job EXCEPT ![c] = Idle]
    /\ UNCHANGED <<world, files, last, mark, claims, counts>>

-----------------------------------------------------------------------------
\* sync_walk of a process: the claim and the snapshot of the rows, the scan of
\* the disk without a lock, and the apply.
Ended(p) == IF p \in Cmds THEN [at |-> "ending"] ELSE Idle

WalkBegins(p, takeOver) ==
    /\ job[p] = Idle
    /\ Claimable(p, takeOver)
    /\ Acquires(p)
    /\ job' = Outlived([job EXCEPT ![p] =
         [at |-> "claimed", snap |-> row, found |-> Blank, lost |-> FALSE]], p)
    /\ UNCHANGED <<world, files, counts>>

WalkSkips(p) ==
    /\ job[p] = Idle
    /\ ~Claimable(p, FALSE)
    /\ hosted[p]
    /\ hosted' = [hosted EXCEPT ![p] = FALSE]
    /\ lease' = [lease EXCEPT ![p] = NoLease]
    /\ UNCHANGED <<world, files, locks, mark, job, counts>>

WalkScans(p) ==
    /\ job[p].at = "claimed"
    /\ job' = [job EXCEPT ![p].at = "scanned", ![p].found = disk[Disk(p)]]
    /\ UNCHANGED <<world, files, locks, mark, own, counts>>

WalkFails(p) ==
    /\ job[p].at \in {"claimed", "scanned"}
    /\ job' = [job EXCEPT ![p] = Ended(p)]
    /\ UNCHANGED <<world, files, locks, mark, own, counts>>

\* The lock row is read again in the apply's transaction.
NotApplied(p) ==
    /\ job[p].at = "scanned"
    /\ ~Holds(p)
    /\ job' = [job EXCEPT ![p] = Ended(p)]
    /\ hosted' = [hosted EXCEPT ![p] = FALSE]
    /\ UNCHANGED <<world, files, locks, mark, lease, counts>>

\* Mutant of MayApply: the lock row is not read again.
MayApplyUnfenced(p) == Raced \/ ~job[p].lost \/ ~Holds(p)

MayApply(p) == Holds(p) /\ (Raced \/ ~job[p].lost)

Claimant(p) == mark # NoMark => mark.claimant = runsOn[p]

\* Whether the walk's --accept-disk counts: a move that a walk has reported.
Accepts(p, accept) == accept /\ mark # NoMark /\ Claimant(p) /\ mark.walked

\* Rows of engrams the scan did not find, that nobody wrote since, and whose
\* file is not back; and rows of assets the scan did not find.
GoneEngrams(p) ==
    {f \in Engrams : /\ job[p].snap[f] # None /\ job[p].found[f] = None
                     /\ row[f] = job[p].snap[f]
                     /\ disk[Disk(p)][f] = None}
GoneAssets(p) == {f \in Assets : row[f] # None /\ job[p].found[f] = None}
Gone(p) == GoneEngrams(p) \cup GoneAssets(p)

\* What the scan found changed is read again as it is applied.
Newer(p) ==
    {f \in Files : /\ job[p].found[f] \notin {None, row[f]}
                   /\ disk[Disk(p)][f] # None
                   /\ f \in Engrams => job[p].snap[f] = row[f]}

Applied(p, accepts) ==
    [f \in Files |->
        CASE f \in Newer(p) -> disk[Disk(p)][f]
          [] f \in Gone(p) /\ (mark = NoMark \/ accepts) -> None
          [] OTHER -> row[f]]

\* Mutant of Resolves: the first walk ends the move.
ResolvesAtOnce(p, accepts) == TRUE

\* The move ends with a walk that saw every row, or one that accepts the disk.
Resolves(p, accepts) == accepts \/ Gone(p) = {}

Walked(p, accepts) ==
    CASE mark = NoMark \/ ~Claimant(p) -> mark
      [] OTHER -> IF Resolves(p, accepts) THEN NoMark ELSE [mark EXCEPT !.walked = TRUE]

WalkApplies(p, accept) ==
    /\ job[p].at = "scanned"
    /\ MayApply(p)
    /\ row' = Applied(p, Accepts(p, accept))
    /\ had' = Had(row')
    /\ mark' = Walked(p, Accepts(p, accept))
    /\ job' = [job EXCEPT ![p] = Ended(p)]
    /\ UNCHANGED <<world, disk, landed, locks, own, counts>>

\* sync_paths: the watcher's pass over one file that changed here, in one step.
\* It reads no mark: the file is or was on this disk, whatever others have.
TargetedSync(i, f) ==
    /\ job[i] = Idle
    /\ f \in had[Disk(i)]
    /\ row[f] # disk[Disk(i)][f]
    /\ Claimable(i, FALSE)
    /\ Acquires(i)
    /\ row' = [row EXCEPT ![f] = disk[Disk(i)][f]]
    /\ had' = Had(row')
    /\ job' = Outlived(job, i)
    /\ UNCHANGED <<world, disk, landed, counts>>

-----------------------------------------------------------------------------
\* A write through a daemon's API: it asks for the host lock ...
Wants(i) ==
    /\ job[i] = Idle
    /\ writes < MaxWrites
    /\ writes' = writes + 1
    /\ UNCHANGED edits

Writing(f, t) == [at |-> "gated", file |-> f, text |-> t, before |-> None, lost |-> FALSE]

\* require_file_host claims a lock nobody holds or whose holder is silent.
WriteGated(i, f, t) ==
    /\ Wants(i)
    /\ Holds(i) /\ (hosted[i] \/ lock.live)
    /\ job' = [job EXCEPT ![i] = Writing(f, t)]
    /\ UNCHANGED <<world, files, locks, mark, own>>

WriteClaims(i, f, t) ==
    /\ Wants(i)
    /\ ~(Holds(i) /\ (hosted[i] \/ lock.live))
    /\ Claimable(i, FALSE)
    /\ Acquires(i)
    /\ job' = Outlived([job EXCEPT ![i] = Writing(f, t)], i)
    /\ UNCHANGED <<world, files>>

Overlaps(i) ==
    \E q \in Procs \ {i} : /\ job[q].at = "written" /\ Disk(q) = Disk(i)
                           /\ job[q].file = job[i].file

\* ... then the file ...
WriteFile(i) ==
    /\ job[i].at = "gated"
    /\ ~Overlaps(i)
    /\ LET f == job[i].file
           d == Disk(i)
       IN /\ disk' = [disk EXCEPT ![d][f] = job[i].text]
          /\ had' = [had EXCEPT ![d] = @ \cup {f}]
          /\ job' = [job EXCEPT ![i].at = "written", ![i].before = disk[d][f]]
    /\ UNCHANGED <<world, row, landed, locks, mark, own, counts>>

\* ... and its row, from the file as it is, behind the fence.
WriteLands(i) ==
    /\ job[i].at = "written"
    /\ MayApply(i)
    /\ LET f == job[i].file
           t == disk[Disk(i)][f]
       IN /\ row' = [row EXCEPT ![f] = t]
          /\ had' = Had(row')
          /\ landed' = [landed EXCEPT ![Disk(i)][f] = t]
    /\ job' = [job EXCEPT ![i] = Idle]
    /\ UNCHANGED <<world, disk, locks, mark, own, counts>>

\* Mutant of PutBack: the file is put back whatever it holds by now.
PutBackAlways(i) == job[i].before

\* put_back: only while the file holds what this write left there.
PutBack(i) ==
    LET now == disk[Disk(i)][job[i].file]
    IN IF now = job[i].text THEN job[i].before ELSE now

\* refuse_file_write: the text is kept and the file put back, or the text
\* cannot be kept and the file stays.
WriteRefused(i) ==
    /\ job[i].at = "written"
    /\ ~Holds(i)
    /\ LET f == job[i].file
           d == Disk(i)
       IN \/ /\ disk' = [disk EXCEPT ![d][f] = PutBack(i)]
             /\ UNCHANGED landed
          \/ /\ landed' = [landed EXCEPT ![d][f] = disk[d][f]]
             /\ UNCHANGED disk
    /\ hosted' = IF lock # NoLock THEN [hosted EXCEPT ![i] = FALSE] ELSE hosted
    /\ job' = [job EXCEPT ![i] = Idle]
    /\ UNCHANGED <<world, row, had, locks, mark, lease, counts>>

\* The folder by hand: an edit, a deletion, a copy from another disk.  Under a
\* write the file is neither deleted nor given that write's own text.
ByHand(d, f, t) ==
    /\ \E i \in Insts : home[i] = d
    /\ edits < MaxByHand
    /\ edits' = edits + 1
    /\ disk[d][f] # t
    /\ \A p \in Procs : job[p].at = "written" /\ Disk(p) = d /\ job[p].file = f
                            => t \notin {None, job[p].text}
    /\ disk' = [disk EXCEPT ![d][f] = t]
    /\ landed' = [landed EXCEPT ![d][f] = t]
    /\ had' = IF t = None THEN had ELSE [had EXCEPT ![d] = @ \cup {f}]
    /\ UNCHANGED <<world, row, locks, mark, own, job, writes>>

Next ==
    \/ Lapses
    \/ \E i \in Insts : Renews(i) \/ Stops(i) \/ Crashes(i) \/ WriteFile(i)
                        \/ WriteLands(i) \/ WriteRefused(i)
    \/ \E c \in Cmds : CommandEnds(c)
    \/ \E p \in Procs, b \in BOOLEAN : WalkBegins(p, b) \/ WalkApplies(p, b)
    \/ \E p \in Procs : WalkSkips(p) \/ WalkScans(p) \/ WalkFails(p) \/ NotApplied(p)
    \/ \E i \in Insts, f \in Files : TargetedSync(i, f)
    \/ \E i \in Insts, f \in Files, t \in Texts :
        WriteGated(i, f, t) \/ WriteClaims(i, f, t)
    \/ \E d \in Disks, f \in Files, t \in Texts \cup {None} : ByHand(d, f, t)

Spec == Init /\ [][Next]_vars

-----------------------------------------------------------------------------
\* While no move is marked, every row is of a file that the last host's disk
\* has or had: so the rows the next walk of that host drops are of files that
\* were deleted there, never of files only another host has.
UnmarkedIsWhole ==
    mark = NoMark /\ last # None =>
        \A f \in Files : row[f] # None => f \in had[home[last]]

\* A daemon that hosts the domain can give the lock back when it stops, once
\* the commands of its machine have ended: its token is the row's again.
ReleaseFrees ==
    \A i \in Insts :
        hosted[i] /\ Holds(i) /\ (\A c \in Cmds : runsOn[c] = i => job[c] = Idle)
            => lease[i].token = lock.token

\* A write that was refused leaves no file changed that somebody else wrote
\* since: apart from the writes under way each disk has what landed there.
LandedStays ==
    \A d \in Disks, f \in Files :
        (\A p \in Procs : job[p].at = "written" => Disk(p) # d \/ job[p].file # f)
            => disk[d][f] = landed[d][f]
=============================================================================
