---------------------------- MODULE HostMoveProofs ----------------------------
(***************************************************************************)
(* For any instances, commands, disks, files and texts: what the host lock  *)
(* of a shared database, its moves and its fence keep.                      *)
(***************************************************************************)
EXTENDS HostMove, TLAPS

Ending == [at |-> "ending"]
Jobs == Walks \cup Writes \cup {Idle, Ending}

LEMMA JobKinds ==
    ASSUME NEW j \in Jobs
    PROVE  /\ j.at \in {"idle", "ending", "claimed", "scanned", "gated", "written"}
           /\ j.at \in {"claimed", "scanned"} <=> j \in Walks
           /\ j.at \in {"gated", "written"} <=> j \in Writes
           /\ j.at = "idle" <=> j = Idle
           /\ j.at = "ending" <=> j = Ending
  <1>1. CASE j \in Walks
    BY <1>1 DEF Walks, Writes, Idle, Ending
  <1>2. CASE j \in Writes
    BY <1>2 DEF Walks, Writes, Idle, Ending
  <1>3. CASE j \in {Idle, Ending}
    BY <1>3 DEF Walks, Writes, Idle, Ending
  <1> QED
    BY <1>1, <1>2, <1>3 DEF Jobs

LEMMA WalkType ==
    ASSUME NEW j \in Walks
    PROVE  /\ j.snap \in Contents /\ j.found \in Contents /\ j.lost \in BOOLEAN
           /\ LET l == [j EXCEPT !.lost = TRUE] IN
              /\ l \in Walks /\ l.at = j.at /\ l.snap = j.snap /\ l.found = j.found /\ l.lost
           /\ \A x \in Contents :
                LET s == [j EXCEPT !.at = "scanned", !.found = x] IN
                /\ s \in Walks /\ s.at = "scanned" /\ s.snap = j.snap /\ s.found = x
                /\ s.lost = j.lost
  BY DEF Walks

LEMMA WriteType ==
    ASSUME NEW j \in Writes
    PROVE  /\ j.file \in Files /\ j.text \in Texts /\ j.before \in Texts \cup {None}
           /\ j.lost \in BOOLEAN
           /\ LET l == [j EXCEPT !.lost = TRUE] IN
              /\ l \in Writes /\ l.at = j.at /\ l.file = j.file /\ l.text = j.text
              /\ l.before = j.before /\ l.lost
           /\ \A x \in Texts \cup {None} :
                LET w == [j EXCEPT !.at = "written", !.before = x] IN
                /\ w \in Writes /\ w.at = "written" /\ w.file = j.file /\ w.text = j.text
                /\ w.before = x /\ w.lost = j.lost
  BY DEF Writes

LEMMA JobType == ASSUME TypeOK PROVE job \in [Procs -> Jobs]
  BY DEF TypeOK, Jobs, Ending

\* What a job keeps when its instance loses the lock.
LEMMA OutlivedType ==
    ASSUME TypeOK, NEW j \in [Procs -> Jobs], NEW p \in Procs
    PROVE  /\ Outlived(j, p) \in [Procs -> Jobs]
           /\ \A q \in Procs :
                /\ Outlived(j, p)[q].at = j[q].at
                /\ runsOn[q] = runsOn[p] => Outlived(j, p)[q] = j[q]
                /\ j[q] \in {Idle, Ending} => Outlived(j, p)[q] = j[q]
                /\ j[q] \in Walks =>
                     /\ Outlived(j, p)[q].snap = j[q].snap
                     /\ Outlived(j, p)[q].found = j[q].found
                     /\ runsOn[q] # runsOn[p] => Outlived(j, p)[q].lost
                /\ j[q] \in Writes =>
                     /\ Outlived(j, p)[q].file = j[q].file
                     /\ Outlived(j, p)[q].text = j[q].text
                     /\ Outlived(j, p)[q].before = j[q].before
  <1> DEFINE o(q) == IF j[q].at \in {"claimed", "scanned", "gated", "written"} /\ runsOn[q] # runsOn[p]
                     THEN [j[q] EXCEPT !.lost = TRUE] ELSE j[q]
  <1>1. \A q \in Procs : o(q) \in Jobs /\ o(q).at = j[q].at
    <2> SUFFICES ASSUME NEW q \in Procs PROVE o(q) \in Jobs /\ o(q).at = j[q].at
      OBVIOUS
    <2>1. CASE j[q] \in Walks
      BY <2>1, WalkType DEF Jobs
    <2>2. CASE j[q] \in Writes
      BY <2>2, WriteType DEF Jobs
    <2>3. CASE j[q] \in {Idle, Ending}
      BY <2>3 DEF Idle, Ending
    <2> QED
      BY <2>1, <2>2, <2>3 DEF Jobs
  <1>2. Outlived(j, p) = [q \in Procs |-> o(q)]
    BY DEF Outlived
  <1>3. ASSUME NEW q \in Procs, j[q] \in {Idle, Ending} PROVE o(q) = j[q]
    BY <1>3 DEF Idle, Ending
  <1>4. ASSUME NEW q \in Procs, j[q] \in Walks
        PROVE  /\ o(q).snap = j[q].snap /\ o(q).found = j[q].found
               /\ runsOn[q] # runsOn[p] => o(q).lost
    <2>1. j[q].at \in {"claimed", "scanned"}
      BY <1>4, JobKinds
    <2> QED
      BY <1>4, <2>1, WalkType
  <1>5. ASSUME NEW q \in Procs, j[q] \in Writes
        PROVE  o(q).file = j[q].file /\ o(q).text = j[q].text /\ o(q).before = j[q].before
    BY <1>5, WriteType
  <1>6. \A q \in Procs : runsOn[q] = runsOn[p] => o(q) = j[q]
    OBVIOUS
  <1> HIDE DEF o
  <1> QED
    BY <1>1, <1>2, <1>3, <1>4, <1>5, <1>6

LEMMA HadType ==
    ASSUME TypeOK, NEW r
    PROVE  Had(r) \in [Disks -> SUBSET Files] /\ \A d \in Disks : Had(r)[d] = Kept(d, r)
  BY DEF Had, Kept

LEMMA DiskType == ASSUME TypeOK, NEW p \in Procs PROVE runsOn[p] \in Insts /\ Disk(p) \in Disks
  BY DEF TypeOK, Disk

\* What a claim of the lock does.
LEMMA AcquiresType ==
    ASSUME TypeOK, NEW p \in Procs, Acquires(p)
    PROVE  /\ lock' \in Locks /\ lock' # NoLock
           /\ lock'.holder = runsOn[p] /\ lock'.token = claims + 1 /\ lock'.live
           /\ last' = runsOn[p] /\ last' \in Insts
           /\ mark' \in Marks \cup {NoMark}
           /\ mark' = NoMark => mark = NoMark /\ Previous = runsOn[p]
           /\ hosted' \in [Procs -> BOOLEAN] /\ hosted'[p]
           /\ lease' \in [Procs -> [token : 0..MaxClaims, over : 0..MaxClaims]]
           /\ lease'[p].token = claims + 1 /\ lease'[p].over = Over(p)
           /\ \A q \in Procs : q # p => hosted'[q] = hosted[q] /\ lease'[q] = lease[q]
           /\ claims' = claims + 1 /\ claims' \in 0..MaxClaims
  <1>1. runsOn[p] \in Insts /\ MaxClaims \in Nat /\ claims + 1 \in 1..MaxClaims /\ claims \in Nat
    BY HostAssumption DEF TypeOK, Acquires
  <1>2. lock' = [holder |-> runsOn[p], token |-> claims + 1, live |-> TRUE]
    BY DEF Acquires
  <1>3. lock' \in Locks /\ lock'.holder = runsOn[p] /\ lock'.token = claims + 1 /\ lock'.live
    BY <1>1, <1>2 DEF Locks
  <1>4. lock' # NoLock
    BY <1>1, <1>3, HostAssumption DEF NoLock
  <1>5. mark' \in Marks \cup {NoMark} /\ (mark' = NoMark => mark = NoMark /\ Previous = runsOn[p])
    <2>1. [claimant |-> runsOn[p], walked |-> FALSE] \in Marks
      BY <1>1 DEF Marks
    <2>2. [claimant |-> runsOn[p], walked |-> FALSE] # NoMark
      BY <1>1, HostAssumption DEF NoMark
    <2> QED
      BY <2>1, <2>2 DEF Acquires, Marked, TypeOK
  <1>6. Over(p) \in 0..MaxClaims
    <2>1. Replaced(p) \in 0..MaxClaims
      BY <1>1 DEF Replaced, Holds, TypeOK, Locks
    <2> QED
      BY <1>1, <2>1 DEF Over, TypeOK
  <1>7. LeaseOf(p) \in [token : 0..MaxClaims, over : 0..MaxClaims]
        /\ LeaseOf(p).token = claims + 1 /\ LeaseOf(p).over = Over(p)
    BY <1>1, <1>6 DEF LeaseOf
  <1>8. lease' = [lease EXCEPT ![p] = LeaseOf(p)] /\ hosted' = [hosted EXCEPT ![p] = TRUE]
        /\ last' = runsOn[p] /\ claims' = claims + 1
    BY DEF Acquires
  <1> QED
    BY <1>1, <1>3, <1>4, <1>5, <1>7, <1>8 DEF TypeOK

\* One file of one disk changes.
LEMMA DiskChanges ==
    ASSUME NEW l \in [Disks -> Contents], NEW d \in Disks, NEW f \in Files,
           NEW x \in Texts \cup {None}
    PROVE  LET n == [l EXCEPT ![d][f] = x] IN
           /\ n \in [Disks -> Contents] /\ n[d][f] = x
           /\ \A e \in Disks, g \in Files : e # d \/ g # f => n[e][g] = l[e][g]
  <1>1. l[d] \in [Files -> Texts \cup {None}]
    BY DEF Contents
  <1>2. [l[d] EXCEPT ![f] = x] \in Contents
    BY <1>1 DEF Contents
  <1> QED
    BY <1>1, <1>2

\* The parts of the type invariant that steps change together.
WorldType == home \in [Insts -> Disks] /\ runsOn \in [Procs -> Insts]
FilesType ==
    /\ disk \in [Disks -> Contents] /\ row \in Contents
    /\ had \in [Disks -> SUBSET Files] /\ landed \in [Disks -> Contents]
LocksType ==
    /\ lock \in Locks \cup {NoLock} /\ last \in Insts \cup {None}
    /\ mark \in Marks \cup {NoMark} /\ claims \in 0..MaxClaims
OwnType ==
    /\ hosted \in [Procs -> BOOLEAN]
    /\ lease \in [Procs -> [token : 0..MaxClaims, over : 0..MaxClaims]]
CountsType == writes \in 0..MaxWrites /\ edits \in 0..MaxByHand

LEMMA TypeParts ==
    TypeOK <=> WorldType /\ FilesType /\ LocksType /\ OwnType /\ CountsType
               /\ job \in [Procs -> Jobs]
  BY DEF TypeOK, WorldType, FilesType, LocksType, OwnType, CountsType, Jobs, Ending

LEMMA TypePrimed ==
    ASSUME WorldType', FilesType', LocksType', OwnType', CountsType', job' \in [Procs -> Jobs]
    PROVE  TypeOK'
  BY DEF TypeOK, WorldType, FilesType, LocksType, OwnType, CountsType, Jobs, Ending

LEMMA TypeKeeps ==
    ASSUME TypeOK
    PROVE  /\ UNCHANGED world => WorldType'
           /\ UNCHANGED files => FilesType'
           /\ UNCHANGED <<locks, mark>> => LocksType'
           /\ UNCHANGED own => OwnType'
           /\ UNCHANGED counts => CountsType'
           /\ \A p \in Procs : Acquires(p) => LocksType' /\ OwnType'
  <1>1. ASSUME NEW p \in Procs, Acquires(p) PROVE LocksType' /\ OwnType'
    BY <1>1, AcquiresType DEF LocksType, OwnType
  <1> QED
    BY <1>1, TypeParts
       DEF world, files, locks, own, counts, WorldType, FilesType, LocksType, OwnType, CountsType

LEMMA EndedType == \A p \in Procs : Ended(p) \in Jobs /\ Ended(p) \in {Idle, Ending}
  BY DEF Ended, Jobs, Ending

LEMMA WantsType == ASSUME TypeOK, NEW i \in Insts, Wants(i) PROVE CountsType'
  <1>1. MaxWrites \in Nat /\ writes \in 0..MaxWrites /\ edits \in 0..MaxByHand
    BY HostAssumption DEF TypeOK
  <1> QED
    BY <1>1 DEF Wants, CountsType

\* What a pass makes of the rows.
LEMMA AppliedType ==
    ASSUME TypeOK, NEW p \in Procs, NEW accepts
    PROVE  Applied(p, accepts) \in Contents
  <1>1. row \in Contents /\ disk[Disk(p)] \in Contents
    BY DiskType DEF TypeOK
  <1>2. Newer(p) \subseteq Files
    BY DEF Newer
  <1> QED
    BY <1>1 DEF Applied, Contents

LEMMA TypeStep == ASSUME TypeOK, Next PROVE TypeOK'
  <1>0. job \in [Procs -> Jobs] /\ Insts \subseteq Procs /\ Cmds \subseteq Procs
    BY JobType DEF Procs
  <1>a. Idle \in Jobs
    BY DEF Jobs
  <1>1. CASE Lapses
    <2>1. [lock EXCEPT !.live = FALSE] \in Locks
      BY <1>1 DEF Lapses, TypeOK, Locks
    <2>2. LocksType'
      BY <1>1, <2>1, TypeParts DEF Lapses, LocksType
    <2> QED
      BY <1>0, <1>1, <2>2, TypeKeeps, TypePrimed DEF Lapses, world, files, own, counts
  <1>2. ASSUME NEW i \in Insts, Renews(i) PROVE TypeOK'
    <2>1. Holds(i) => [lock EXCEPT !.live = TRUE] \in Locks
      BY DEF Holds, TypeOK, Locks
    <2>2. LocksType' /\ OwnType'
      BY <1>0, <1>2, <2>1, TypeParts DEF Renews, LocksType, OwnType
    <2> QED
      BY <1>0, <1>2, <2>2, TypeKeeps, TypePrimed DEF Renews, world, files, counts
  <1>3. ASSUME NEW i \in Insts, Stops(i) PROVE TypeOK'
    <2>1. NoLease \in [token : 0..MaxClaims, over : 0..MaxClaims]
      BY HostAssumption DEF NoLease
    <2>2. LocksType' /\ OwnType'
      BY <1>0, <1>3, <2>1, TypeParts DEF Stops, LocksType, OwnType
    <2> QED
      BY <1>0, <1>3, <2>2, TypeKeeps, TypePrimed DEF Stops, world, files, counts
  <1>4. ASSUME NEW i \in Insts, Crashes(i) PROVE TypeOK'
    <2>1. NoLease \in [token : 0..MaxClaims, over : 0..MaxClaims]
      BY HostAssumption DEF NoLease
    <2>2. OwnType'
      BY <1>0, <1>4, <2>1, TypeParts DEF Crashes, OwnType
    <2>3. FilesType'
      <3>1. CASE job[i].at = "written"
        <4>1. job[i] \in Writes /\ Disk(i) \in Disks
          BY <1>0, <3>1, JobKinds, DiskType
        <4>2. landed' = [landed EXCEPT ![Disk(i)][job[i].file] = disk[Disk(i)][job[i].file]]
              /\ UNCHANGED <<disk, row, had>>
          BY <1>4, <3>1 DEF Crashes
        <4>3. job[i].file \in Files
          BY <4>1, WriteType
        <4>4. disk[Disk(i)][job[i].file] \in Texts \cup {None}
          BY <4>1, <4>3 DEF TypeOK, Contents
        <4>5. landed' \in [Disks -> Contents]
          <5>1. landed \in [Disks -> Contents]
            BY DEF TypeOK
          <5>2. [landed EXCEPT ![Disk(i)][job[i].file] = disk[Disk(i)][job[i].file]]
                  \in [Disks -> Contents]
            BY <4>1, <4>3, <4>4, <5>1, DiskChanges
          <5> QED
            BY <4>2, <5>2
        <4> QED
          BY <4>2, <4>5, TypeParts DEF FilesType
      <3>2. CASE job[i].at # "written"
        BY <1>4, <3>2, TypeParts DEF Crashes, FilesType
      <3> QED
        BY <3>1, <3>2
    <2> QED
      BY <1>0, <1>a, <1>4, <2>2, <2>3, TypeKeeps, TypePrimed DEF Crashes, world, counts
  <1>5. ASSUME NEW c \in Cmds, CommandEnds(c) PROVE TypeOK'
    <2>1. NoLease \in [token : 0..MaxClaims, over : 0..MaxClaims]
      BY HostAssumption DEF NoLease
    <2>2. lock' \in Locks \cup {NoLock}
      <3>1. lock' \in {lock, NoLock}
               \/ (lock # NoLock /\ lease[c].over # 0 /\ lock' = [lock EXCEPT !.token = lease[c].over])
        BY <1>5 DEF CommandEnds, GivesBack, Holds
      <3>2. lease[c].over \in 0..MaxClaims
        BY <1>0 DEF TypeOK
      <3> QED
        BY <3>1, <3>2, HostAssumption DEF TypeOK, Locks
    <2>3. LocksType' /\ OwnType'
      BY <1>0, <1>5, <2>1, <2>2, TypeParts DEF CommandEnds, LocksType, OwnType
    <2> QED
      BY <1>0, <1>a, <1>5, <2>3, TypeKeeps, TypePrimed DEF CommandEnds, world, files, counts
  <1>6. ASSUME NEW p \in Procs, NEW b \in BOOLEAN, WalkBegins(p, b) PROVE TypeOK'
    <2> DEFINE j == [at |-> "claimed", snap |-> row, found |-> Blank, lost |-> FALSE]
    <2>1. j \in Jobs
      BY DEF Jobs, Walks, Contents, Blank, TypeOK
    <2>2. job' = Outlived([job EXCEPT ![p] = j], p)
      BY <1>6 DEF WalkBegins
    <2> HIDE DEF j
    <2>3. [job EXCEPT ![p] = j] \in [Procs -> Jobs]
      BY <1>0, <2>1
    <2>4. job' \in [Procs -> Jobs]
      BY <2>2, <2>3, OutlivedType
    <2> QED
      BY <1>6, <2>4, TypeKeeps, TypePrimed DEF WalkBegins, world, files, counts
  <1>7. ASSUME NEW p \in Procs, NEW b \in BOOLEAN, WalkApplies(p, b) PROVE TypeOK'
    <2>1. row' \in Contents
      BY <1>7, AppliedType DEF WalkApplies
    <2>2. had' \in [Disks -> SUBSET Files]
      <3>1. had' = Had(row')
        BY <1>7 DEF WalkApplies
      <3> QED
        BY <3>1, HadType
    <2>3. mark' \in Marks \cup {NoMark}
      <3>1. mark # NoMark => [mark EXCEPT !.walked = TRUE] \in Marks
        BY DEF TypeOK, Marks
      <3> QED
        BY <1>7, <3>1 DEF WalkApplies, Walked, TypeOK
    <2>4. FilesType' /\ LocksType'
      BY <1>7, <2>1, <2>2, <2>3, TypeParts DEF WalkApplies, FilesType, LocksType, locks
    <2> QED
      BY <1>0, <1>7, <2>4, EndedType, TypeKeeps, TypePrimed DEF WalkApplies, world, own, counts
  <1>8. ASSUME NEW p \in Procs, WalkSkips(p) \/ WalkScans(p) \/ WalkFails(p) \/ NotApplied(p)
        PROVE  TypeOK'
    <2>1. OwnType'
      <3>1. NoLease \in [token : 0..MaxClaims, over : 0..MaxClaims]
        BY HostAssumption DEF NoLease
      <3> QED
        BY <1>8, <3>1, TypeParts
           DEF WalkSkips, WalkScans, WalkFails, NotApplied, OwnType, own
    <2>2. job' \in [Procs -> Jobs]
      <3>1. CASE WalkScans(p)
        <4>1. job[p] \in Walks /\ disk[Disk(p)] \in Contents
          BY <1>0, <3>1, JobKinds, DiskType DEF WalkScans, TypeOK
        <4>2. [job[p] EXCEPT !.at = "scanned", !.found = disk[Disk(p)]] \in Jobs
          BY <4>1, WalkType DEF Jobs
        <4> QED
          BY <1>0, <3>1, <4>2 DEF WalkScans
      <3>2. CASE ~WalkScans(p)
        BY <1>0, <1>8, <3>2, EndedType DEF WalkSkips, WalkFails, NotApplied
      <3> QED
        BY <3>1, <3>2
    <2> QED
      BY <1>8, <2>1, <2>2, TypeKeeps, TypePrimed
         DEF WalkSkips, WalkScans, WalkFails, NotApplied, world, files, counts, locks
  <1>9. ASSUME NEW i \in Insts, NEW f \in Files, TargetedSync(i, f) PROVE TypeOK'
    <2>1. row' \in Contents
      BY <1>0, <1>9, DiskType DEF TargetedSync, TypeOK, Contents
    <2>2. had' = Had(row') /\ job' = Outlived(job, i)
      BY <1>9 DEF TargetedSync
    <2>3. FilesType'
      BY <1>9, <2>1, <2>2, HadType, TypeParts DEF TargetedSync, FilesType
    <2>4. job' \in [Procs -> Jobs]
      BY <1>0, <2>2, OutlivedType
    <2> QED
      BY <1>0, <1>9, <2>3, <2>4, TypeKeeps, TypePrimed DEF TargetedSync, world, counts
  <1>10. ASSUME NEW i \in Insts, NEW f \in Files, NEW t \in Texts,
                WriteGated(i, f, t) \/ WriteClaims(i, f, t)
         PROVE  TypeOK'
    <2>1. Writing(f, t) \in Jobs
      BY DEF Writing, Jobs, Writes
    <2>2. [job EXCEPT ![i] = Writing(f, t)] \in [Procs -> Jobs]
      BY <1>0, <2>1
    <2>3. job' \in [Procs -> Jobs]
      <3>1. Outlived([job EXCEPT ![i] = Writing(f, t)], i) \in [Procs -> Jobs]
        BY <1>0, <2>2, OutlivedType
      <3> QED
        BY <1>10, <2>2, <3>1 DEF WriteGated, WriteClaims
    <2>4. CountsType'
      BY <1>10, WantsType DEF WriteGated, WriteClaims
    <2> QED
      BY <1>0, <1>10, <2>3, <2>4, TypeKeeps, TypePrimed
         DEF WriteGated, WriteClaims, world, files, locks
  <1>11. ASSUME NEW i \in Insts, WriteFile(i) PROVE TypeOK'
    <2>1. job[i] \in Writes /\ Disk(i) \in Disks
      BY <1>0, <1>11, JobKinds, DiskType DEF WriteFile
    <2>2. job[i].file \in Files /\ job[i].text \in Texts
      BY <2>1, WriteType
    <2>3. disk[Disk(i)][job[i].file] \in Texts \cup {None}
      BY <2>1, <2>2 DEF TypeOK, Contents
    <2>4. [job[i] EXCEPT !.at = "written", !.before = disk[Disk(i)][job[i].file]] \in Jobs
      BY <2>1, <2>3, WriteType DEF Jobs
    <2>5. job' \in [Procs -> Jobs]
      BY <1>0, <1>11, <2>4 DEF WriteFile
    <2>6. FilesType'
      BY <1>11, <2>1, <2>2, TypeParts DEF WriteFile, FilesType, Contents
    <2> QED
      BY <1>11, <2>5, <2>6, TypeKeeps, TypePrimed DEF WriteFile, world, counts, own, locks
  <1>12. ASSUME NEW i \in Insts, WriteLands(i) PROVE TypeOK'
    <2>1. job[i] \in Writes /\ Disk(i) \in Disks
      BY <1>0, <1>12, JobKinds, DiskType DEF WriteLands
    <2>2. job[i].file \in Files
      BY <2>1, WriteType
    <2>3. disk[Disk(i)][job[i].file] \in Texts \cup {None}
      BY <2>1, <2>2 DEF TypeOK, Contents
    <2>4. row' \in Contents /\ landed' \in [Disks -> Contents]
      BY <1>12, <2>1, <2>2, <2>3 DEF WriteLands, TypeOK, Contents
    <2>5. had' = Had(row')
      BY <1>12 DEF WriteLands
    <2>6. FilesType'
      BY <1>12, <2>4, <2>5, HadType, TypeParts DEF WriteLands, FilesType
    <2> QED
      BY <1>0, <1>a, <1>12, <2>6, TypeKeeps, TypePrimed DEF WriteLands, world, counts, own, locks
  <1>13. ASSUME NEW i \in Insts, WriteRefused(i) PROVE TypeOK'
    <2>1. job[i] \in Writes /\ Disk(i) \in Disks
      BY <1>0, <1>13, JobKinds, DiskType DEF WriteRefused
    <2>2. job[i].file \in Files /\ job[i].before \in Texts \cup {None}
      BY <2>1, WriteType
    <2>3. disk[Disk(i)][job[i].file] \in Texts \cup {None} /\ PutBack(i) \in Texts \cup {None}
      BY <2>1, <2>2 DEF TypeOK, Contents, PutBack
    <2>4. FilesType'
      <3>1. disk' \in [Disks -> Contents] /\ landed' \in [Disks -> Contents]
        <4>1. disk \in [Disks -> Contents] /\ landed \in [Disks -> Contents]
          BY DEF TypeOK
        <4>2. [disk EXCEPT ![Disk(i)][job[i].file] = PutBack(i)] \in [Disks -> Contents]
          BY <2>1, <2>2, <2>3, <4>1, DiskChanges
        <4>3. [landed EXCEPT ![Disk(i)][job[i].file] = disk[Disk(i)][job[i].file]]
                \in [Disks -> Contents]
          BY <2>1, <2>2, <2>3, <4>1, DiskChanges
        <4> QED
          BY <1>13, <4>1, <4>2, <4>3 DEF WriteRefused
      <3> QED
        BY <1>13, <3>1, TypeParts DEF WriteRefused, FilesType
    <2>5. OwnType'
      BY <1>0, <1>13, TypeParts DEF WriteRefused, OwnType
    <2> QED
      BY <1>0, <1>a, <1>13, <2>4, <2>5, TypeKeeps, TypePrimed DEF WriteRefused, world, counts, locks
  <1>14. ASSUME NEW d \in Disks, NEW f \in Files, NEW t \in Texts \cup {None}, ByHand(d, f, t)
         PROVE  TypeOK'
    <2>1. FilesType'
      BY <1>14, TypeParts DEF ByHand, FilesType, Contents
    <2>2. CountsType'
      <3>1. MaxByHand \in Nat /\ edits \in 0..MaxByHand /\ writes \in 0..MaxWrites
        BY HostAssumption DEF TypeOK
      <3> QED
        BY <1>14, <3>1 DEF ByHand, CountsType
    <2> QED
      BY <1>0, <1>14, <2>1, <2>2, TypeKeeps, TypePrimed DEF ByHand, world, own, locks
  <1> QED
    BY <1>1, <1>2, <1>3, <1>4, <1>5, <1>6, <1>7, <1>8, <1>9, <1>10, <1>11, <1>12, <1>13, <1>14
       DEF Next

-----------------------------------------------------------------------------
\* A disk had what it has.
FilesAreHad == \A d \in Disks, f \in Files : disk[d][f] # None => f \in had[d]

\* One write at a time has a file in its hands, and knows what to put back there
\* as long as its own text is there.
Writer(p) == job[p].at = "written"
OneWriter ==
    \A p, q \in Procs :
        Writer(p) /\ Writer(q) /\ Disk(p) = Disk(q) /\ job[p].file = job[q].file => p = q
PutsBackWhatLanded ==
    \A p \in Procs : Writer(p) =>
        LET now == disk[Disk(p)][job[p].file]
            then == landed[Disk(p)][job[p].file]
        IN IF now = job[p].text THEN job[p].before = then ELSE now = then

Fenced == FilesAreHad /\ OneWriter /\ PutsBackWhatLanded /\ LandedStays

\* The steps that leave the writes under way and their files alone.
WritersStay ==
    /\ UNCHANGED <<world, disk, landed>>
    /\ \A p \in Procs :
         /\ Writer(p)' <=> Writer(p)
         /\ Writer(p) => /\ job'[p].file = job[p].file /\ job'[p].text = job[p].text
                         /\ job'[p].before = job[p].before
    /\ \/ UNCHANGED had
       \/ had' = Had(row')

Aside ==
    \/ Lapses
    \/ \E i \in Insts : Renews(i) \/ Stops(i)
    \/ \E c \in Cmds : CommandEnds(c)
    \/ \E p \in Procs, b \in BOOLEAN : WalkBegins(p, b) \/ WalkApplies(p, b)
    \/ \E p \in Procs : WalkSkips(p) \/ WalkScans(p) \/ WalkFails(p) \/ NotApplied(p)
    \/ \E i \in Insts, f \in Files : TargetedSync(i, f)
    \/ \E i \in Insts, f \in Files, t \in Texts :
        WriteGated(i, f, t) \/ WriteClaims(i, f, t)

LEMMA AsideStep == ASSUME TypeOK, Aside PROVE WritersStay
  <1> USE DEF Writer
  <1>0. job \in [Procs -> Jobs] /\ Insts \subseteq Procs /\ Cmds \subseteq Procs
    BY JobType DEF Procs
  <1>a. Idle.at # "written" /\ Ending.at # "written"
    BY DEF Idle, Ending
  <1>1. ASSUME NEW p \in Procs, NEW x \in Jobs, job[p].at # "written", x.at # "written",
               job' = [job EXCEPT ![p] = x],
               UNCHANGED <<world, disk, landed>>, UNCHANGED had \/ had' = Had(row')
        PROVE  WritersStay
    BY <1>0, <1>1 DEF WritersStay
  <1>2. ASSUME NEW p \in Procs, NEW j \in [Procs -> Jobs], job' = Outlived(j, p),
               \A q \in Procs : j[q] = job[q] \/ (job[q].at # "written" /\ j[q].at # "written"),
               UNCHANGED <<world, disk, landed>>, UNCHANGED had \/ had' = Had(row')
        PROVE  WritersStay
    <2> SUFFICES ASSUME NEW q \in Procs
                 PROVE  /\ Writer(q)' <=> Writer(q)
                        /\ Writer(q) => /\ job'[q].file = job[q].file /\ job'[q].text = job[q].text
                                        /\ job'[q].before = job[q].before
      BY <1>2 DEF WritersStay
    <2>1. job'[q].at = j[q].at
      BY <1>2, OutlivedType
    <2>2. Writer(q)' <=> Writer(q)
      BY <1>2, <2>1
    <2>3. ASSUME Writer(q)
          PROVE  /\ job'[q].file = job[q].file /\ job'[q].text = job[q].text
                 /\ job'[q].before = job[q].before
      <3>1. j[q] = job[q] /\ j[q] \in Writes
        BY <1>0, <1>2, <2>3, JobKinds
      <3> QED
        BY <1>2, <3>1, OutlivedType
    <2> QED
      BY <2>2, <2>3
  <1>3. ASSUME UNCHANGED <<world, disk, landed, had, job>> PROVE WritersStay
    BY <1>3 DEF WritersStay
  <1>4. ASSUME NEW p \in Procs, NEW b \in BOOLEAN, WalkBegins(p, b) PROVE WritersStay
    <2> DEFINE j == [at |-> "claimed", snap |-> row, found |-> Blank, lost |-> FALSE]
    <2>1. j \in Jobs /\ j.at = "claimed"
      BY DEF Jobs, Walks, Contents, Blank, TypeOK
    <2>2. job' = Outlived([job EXCEPT ![p] = j], p) /\ job[p] = Idle
          /\ UNCHANGED <<world, disk, landed, had>>
      BY <1>4 DEF WalkBegins, files
    <2> HIDE DEF j
    <2>3. [job EXCEPT ![p] = j] \in [Procs -> Jobs]
          /\ \A q \in Procs : [job EXCEPT ![p] = j][q] = IF q = p THEN j ELSE job[q]
      BY <1>0, <2>1
    <2> QED
      BY <1>2, <1>a, <2>1, <2>2, <2>3
  <1>5. ASSUME NEW p \in Procs,
               WalkScans(p) \/ WalkFails(p) \/ NotApplied(p) \/ \E b \in BOOLEAN : WalkApplies(p, b)
        PROVE  WritersStay
    <2>1. job[p] \in Walks /\ job[p].at # "written"
      BY <1>0, <1>5, JobKinds DEF WalkScans, WalkFails, NotApplied, WalkApplies
    <2>2. PICK x \in Jobs : job' = [job EXCEPT ![p] = x] /\ x.at # "written"
      <3>1. CASE WalkScans(p)
        <4>1. disk[Disk(p)] \in Contents
          BY DiskType DEF TypeOK
        <4> DEFINE x == [job[p] EXCEPT !.at = "scanned", !.found = disk[Disk(p)]]
        <4>2. x \in Walks /\ x.at = "scanned"
          <5>1. x \in Walks
            BY <2>1, <4>1, WalkType
          <5>2. x.at = "scanned"
            BY <2>1 DEF Walks
          <5> QED
            BY <5>1, <5>2
        <4>3. x \in Jobs
          BY <4>2 DEF Jobs
        <4>4. job' = [job EXCEPT ![p] = x]
          BY <3>1 DEF WalkScans
        <4> HIDE DEF x
        <4> QED
          BY <4>2, <4>3, <4>4
      <3>2. CASE ~WalkScans(p)
        BY <1>5, <1>a, <3>2, EndedType DEF WalkFails, NotApplied, WalkApplies
      <3> QED
        BY <3>1, <3>2
    <2>3. UNCHANGED <<world, disk, landed>> /\ (UNCHANGED had \/ had' = Had(row'))
      BY <1>5 DEF WalkScans, WalkFails, NotApplied, WalkApplies, files
    <2> QED
      BY <1>1, <2>1, <2>2, <2>3
  <1>6. ASSUME NEW i \in Insts, NEW f \in Files, TargetedSync(i, f) PROVE WritersStay
    BY <1>0, <1>2, <1>6 DEF TargetedSync
  <1>7. ASSUME NEW i \in Insts, NEW f \in Files, NEW t \in Texts,
               WriteGated(i, f, t) \/ WriteClaims(i, f, t)
        PROVE  WritersStay
    <2>1. Writing(f, t) \in Jobs /\ Writing(f, t).at = "gated"
      BY DEF Writing, Jobs, Writes
    <2>2. job[i] = Idle /\ UNCHANGED <<world, disk, landed, had>>
      BY <1>7 DEF WriteGated, WriteClaims, Wants, files
    <2>3. [job EXCEPT ![i] = Writing(f, t)] \in [Procs -> Jobs]
          /\ \A q \in Procs : [job EXCEPT ![i] = Writing(f, t)][q] =
               IF q = i THEN Writing(f, t) ELSE job[q]
      BY <1>0, <2>1
    <2>4. CASE job' = [job EXCEPT ![i] = Writing(f, t)]
      BY <1>0, <1>1, <1>a, <2>1, <2>2, <2>4
    <2>5. CASE job' = Outlived([job EXCEPT ![i] = Writing(f, t)], i)
      BY <1>0, <1>2, <1>a, <2>1, <2>2, <2>3, <2>5
    <2> QED
      BY <1>7, <2>4, <2>5 DEF WriteGated, WriteClaims
  <1>8. ASSUME NEW c \in Cmds, CommandEnds(c) PROVE WritersStay
    <2>1. Idle \in Jobs
      BY DEF Jobs
    <2> QED
      BY <1>0, <1>1, <1>8, <1>a, <2>1 DEF CommandEnds, files
  <1> QED
    BY <1>3, <1>4, <1>5, <1>6, <1>7, <1>8
       DEF Aside, Lapses, Renews, Stops, WalkSkips, files

LEMMA AsideKeeps == ASSUME TypeOK, Fenced, Aside PROVE Fenced'
  <1>1. WritersStay
    BY AsideStep
  <1>2. \A p \in Procs : Disk(p)' = Disk(p) /\ Disk(p) \in Disks
    BY <1>1, DiskType DEF WritersStay, Disk, world
  <1>3. FilesAreHad'
    <2>1. CASE UNCHANGED had
      BY <1>1, <2>1 DEF WritersStay, Fenced, FilesAreHad
    <2>2. CASE had' = Had(row')
      BY <1>1, <2>2, HadType DEF WritersStay, FilesAreHad, Kept
    <2> QED
      BY <1>1, <2>1, <2>2 DEF WritersStay
  <1>4. OneWriter' /\ PutsBackWhatLanded'
    BY <1>1, <1>2 DEF WritersStay, Fenced, OneWriter, PutsBackWhatLanded
  <1>5. LandedStays'
    BY <1>1, <1>2 DEF WritersStay, Fenced, LandedStays, Writer
  <1> QED
    BY <1>3, <1>4, <1>5 DEF Fenced

\* The write of p ends, and leaves in its file what landed there.
LEMMA WriterEnds ==
    ASSUME TypeOK, Fenced, NEW i \in Insts, Writer(i),
           ~Writer(i)', \A q \in Procs : q # i => job'[q] = job[q],
           UNCHANGED world, FilesAreHad',
           disk'[Disk(i)][job[i].file] = landed'[Disk(i)][job[i].file],
           \A d \in Disks, f \in Files :
              d # Disk(i) \/ f # job[i].file =>
                 disk'[d][f] = disk[d][f] /\ landed'[d][f] = landed[d][f]
    PROVE  Fenced'
  <1>0. i \in Procs /\ job \in [Procs -> Jobs] /\ job[i].file \in Files /\ Disk(i) \in Disks
    <2>1. i \in Procs /\ job \in [Procs -> Jobs]
      BY JobType DEF Procs
    <2>2. job[i] \in Writes
      BY <2>1, JobKinds DEF Writer
    <2> QED
      BY <2>1, <2>2, WriteType, DiskType
  <1>1. \A p \in Procs : Disk(p)' = Disk(p) /\ Disk(p) \in Disks
    BY DiskType DEF Disk, world
  <1>2. \A q \in Procs : Writer(q)' => q # i /\ Writer(q) /\ job'[q] = job[q]
    BY DEF Writer
  <1>3. \A q \in Procs : Writer(q)' => job[q].file \in Files
    BY <1>0, <1>2, JobKinds, WriteType DEF Writer
  <1>4. \A q \in Procs : Writer(q)' => Disk(q) # Disk(i) \/ job[q].file # job[i].file
    BY <1>0, <1>2 DEF Fenced, OneWriter
  <1>5. OneWriter'
    BY <1>1, <1>2 DEF Fenced, OneWriter
  <1>6. PutsBackWhatLanded'
    BY <1>1, <1>2, <1>3, <1>4 DEF Fenced, PutsBackWhatLanded
  <1>7. LandedStays'
    <2> SUFFICES ASSUME NEW d \in Disks, NEW f \in Files,
                        \A p \in Procs : Writer(p)' => Disk(p)' # d \/ job'[p].file # f
                 PROVE  disk'[d][f] = landed'[d][f]
      BY DEF LandedStays, Writer
    <2>1. CASE d = Disk(i) /\ f = job[i].file
      BY <2>1
    <2>2. CASE d # Disk(i) \/ f # job[i].file
      <3>1. \A p \in Procs : Writer(p) => Disk(p) # d \/ job[p].file # f
        <4> SUFFICES ASSUME NEW p \in Procs, Writer(p) PROVE Disk(p) # d \/ job[p].file # f
          OBVIOUS
        <4>1. CASE p = i
          BY <2>2, <4>1
        <4>2. CASE p # i
          <5>1. job'[p] = job[p] /\ Writer(p)'
            BY <4>2 DEF Writer
          <5> QED
            BY <1>1, <5>1
        <4> QED
          BY <4>1, <4>2
      <3> QED
        BY <2>2, <3>1 DEF Fenced, LandedStays, Writer
    <2> QED
      BY <2>1, <2>2
  <1> QED
    BY <1>5, <1>6, <1>7 DEF Fenced

LEMMA FencedStep == ASSUME TypeOK, Fenced, Next PROVE Fenced'
  <1>0. /\ job \in [Procs -> Jobs] /\ Insts \subseteq Procs
        /\ disk \in [Disks -> Contents] /\ landed \in [Disks -> Contents]
        /\ had \in [Disks -> SUBSET Files]
    BY JobType DEF Procs, TypeOK
  <1>a. Idle.at # "written"
    BY DEF Idle
  <1>b. \A p \in Procs : Writer(p) =>
          /\ job[p].file \in Files /\ job[p].text \in Texts
          /\ job[p].before \in Texts \cup {None}
    BY <1>0, JobKinds, WriteType DEF Writer
  <1>c. \A d \in Disks, f \in Files : disk[d][f] \in Texts \cup {None}
    BY DEF TypeOK, Contents
  <1>1. ASSUME NEW i \in Insts, Crashes(i) PROVE Fenced'
    <2>1. CASE Writer(i)
      <3>1. Disk(i) \in Disks /\ job[i].file \in Files
        BY <1>0, <1>b, <2>1, DiskType
      <3>2. /\ landed' = [landed EXCEPT ![Disk(i)][job[i].file] = disk[Disk(i)][job[i].file]]
            /\ UNCHANGED <<world, disk, had>> /\ job' = [job EXCEPT ![i] = Idle]
        BY <1>1, <2>1 DEF Crashes, Writer
      <3>3. /\ landed'[Disk(i)][job[i].file] = disk[Disk(i)][job[i].file]
            /\ \A d \in Disks, f \in Files :
                 d # Disk(i) \/ f # job[i].file => landed'[d][f] = landed[d][f]
        BY <1>0, <1>c, <3>1, <3>2 DEF Contents
      <3>4. ~Writer(i)' /\ \A q \in Procs : q # i => job'[q] = job[q]
        BY <1>0, <1>a, <3>2 DEF Writer
      <3>5. FilesAreHad'
        BY <3>2 DEF Fenced, FilesAreHad
      <3> QED
        BY <2>1, <3>2, <3>3, <3>4, <3>5, WriterEnds
    <2>2. CASE ~Writer(i)
      <3>1. UNCHANGED <<world, disk, had, landed>> /\ job' = [job EXCEPT ![i] = Idle]
        BY <1>1, <2>2 DEF Crashes, Writer
      <3>2. \A q \in Procs : (Writer(q)' <=> Writer(q)) /\ (Writer(q) => job'[q] = job[q])
        BY <1>0, <1>a, <2>2, <3>1 DEF Writer
      <3>3. \A q \in Procs : Disk(q)' = Disk(q)
        BY <3>1 DEF Disk, world
      <3>4. OneWriter' /\ PutsBackWhatLanded'
        BY <3>1, <3>2, <3>3 DEF Fenced, OneWriter, PutsBackWhatLanded
      <3>5. LandedStays'
        BY <3>1, <3>2, <3>3 DEF Fenced, LandedStays, Writer
      <3> QED
        BY <3>1, <3>4, <3>5 DEF Fenced, FilesAreHad
    <2> QED
      BY <2>1, <2>2
  <1>2. ASSUME NEW i \in Insts, WriteFile(i) PROVE Fenced'
    <2> DEFINE d == Disk(i)
               f == job[i].file
               w == [job[i] EXCEPT !.at = "written", !.before = disk[d][f]]
    <2>1. job[i] \in Writes /\ d \in Disks /\ i \in Procs /\ ~Writer(i)
      BY <1>0, <1>2, JobKinds, DiskType DEF WriteFile, Writer
    <2>2. f \in Files /\ job[i].text \in Texts /\ disk[d][f] \in Texts \cup {None}
      BY <1>c, <2>1, WriteType
    <2>3. w.at = "written" /\ w.file = f /\ w.text = job[i].text /\ w.before = disk[d][f]
      <3>1. w.at = "written"
        BY <2>1 DEF Writes
      <3>2. w.file = f /\ w.text = job[i].text /\ w.before = disk[d][f]
        BY <2>1 DEF Writes
      <3> QED
        BY <3>1, <3>2
    <2>4. /\ disk' = [disk EXCEPT ![d][f] = job[i].text]
          /\ had' = [had EXCEPT ![d] = @ \cup {f}]
          /\ job' = [job EXCEPT ![i] = w]
          /\ UNCHANGED <<world, landed>>
      BY <1>2 DEF WriteFile
    <2>5. \A q \in Procs : q # i /\ Writer(q) => Disk(q) # d \/ job[q].file # f
      BY <1>2 DEF WriteFile, Overlaps, Writer
    <2>6. disk[d][f] = landed[d][f]
      BY <2>1, <2>2, <2>5 DEF Fenced, LandedStays, Writer
    <2> HIDE DEF w
    <2>7. /\ disk'[d][f] = job[i].text
          /\ \A e \in Disks, g \in Files : e # d \/ g # f => disk'[e][g] = disk[e][g]
      BY <1>0, <2>1, <2>2, <2>4, DiskChanges
    <2>8. /\ job'[i] = w
          /\ \A q \in Procs : q # i => job'[q] = job[q]
      BY <1>0, <2>1, <2>4
    <2>9. \A q \in Procs : Disk(q)' = Disk(q) /\ Disk(q) \in Disks
      BY <2>4, DiskType DEF Disk, world
    <2>10. \A q \in Procs : Writer(q)' <=> Writer(q) \/ q = i
      BY <2>1, <2>3, <2>8 DEF Writer
    <2> HIDE DEF d, f
    <2>11. FilesAreHad'
      <3> SUFFICES ASSUME NEW e \in Disks, NEW g \in Files, disk'[e][g] # None
                   PROVE  g \in had'[e]
        BY DEF FilesAreHad
      <3>1. had[e] \subseteq had'[e] /\ f \in had'[d]
        BY <1>0, <2>1, <2>4
      <3>2. CASE e = d /\ g = f
        BY <3>1, <3>2
      <3>3. CASE e # d \/ g # f
        <4>1. disk[e][g] # None
          BY <2>7, <3>3
        <4> QED
          BY <3>1, <4>1 DEF Fenced, FilesAreHad
      <3> QED
        BY <3>2, <3>3
    <2>12. OneWriter'
      <3> SUFFICES ASSUME NEW p \in Procs, NEW q \in Procs, Writer(p)', Writer(q)',
                          Disk(p)' = Disk(q)', job'[p].file = job'[q].file, p # q
                   PROVE  FALSE
        BY DEF OneWriter
      <3>1. Disk(i) = d /\ job'[i].file = f
        BY <2>3, <2>8 DEF d
      <3>2. CASE p = i
        BY <2>5, <2>8, <2>9, <2>10, <3>1, <3>2
      <3>3. CASE q = i
        BY <2>5, <2>8, <2>9, <2>10, <3>1, <3>3
      <3>4. CASE p # i /\ q # i
        BY <2>8, <2>9, <2>10, <3>4 DEF Fenced, OneWriter
      <3> QED
        BY <3>2, <3>3, <3>4
    <2>13. PutsBackWhatLanded'
      <3> SUFFICES ASSUME NEW q \in Procs, Writer(q)'
                   PROVE  LET now == disk'[Disk(q)][job'[q].file]
                              then == landed[Disk(q)][job'[q].file]
                          IN IF now = job'[q].text THEN job'[q].before = then ELSE now = then
        BY <2>4, <2>9 DEF PutsBackWhatLanded
      <3>1. CASE q = i
        BY <2>3, <2>6, <2>7, <2>8, <3>1 DEF d
      <3>2. CASE q # i
        <4>1. Writer(q) /\ job'[q] = job[q] /\ (Disk(q) # d \/ job[q].file # f)
          BY <2>5, <2>8, <2>10, <3>2
        <4>2. disk'[Disk(q)][job[q].file] = disk[Disk(q)][job[q].file]
          BY <1>b, <2>7, <2>9, <4>1
        <4> QED
          BY <4>1, <4>2 DEF Fenced, PutsBackWhatLanded
      <3> QED
        BY <3>1, <3>2
    <2>14. LandedStays'
      <3> SUFFICES ASSUME NEW e \in Disks, NEW g \in Files,
                          \A p \in Procs : Writer(p)' => Disk(p)' # e \/ job'[p].file # g
                   PROVE  disk'[e][g] = landed[e][g]
        BY <2>4 DEF LandedStays, Writer
      <3>1. e # d \/ g # f
        BY <2>1, <2>3, <2>8, <2>9, <2>10 DEF d
      <3>2. \A p \in Procs : Writer(p) => Disk(p) # e \/ job[p].file # g
        BY <2>1, <2>8, <2>9, <2>10
      <3> QED
        BY <2>7, <3>1, <3>2 DEF Fenced, LandedStays, Writer
    <2> QED
      BY <2>11, <2>12, <2>13, <2>14 DEF Fenced
  <1>3. ASSUME NEW i \in Insts, WriteLands(i) PROVE Fenced'
    <2> DEFINE t == disk[Disk(i)][job[i].file]
    <2>1. Writer(i) /\ i \in Procs
      BY <1>0, <1>3 DEF WriteLands, Writer
    <2>2. Disk(i) \in Disks /\ job[i].file \in Files /\ t \in Texts \cup {None}
      BY <1>b, <1>c, <2>1, DiskType
    <2>3. /\ landed' = [landed EXCEPT ![Disk(i)][job[i].file] = t]
          /\ had' = Had(row') /\ job' = [job EXCEPT ![i] = Idle]
          /\ UNCHANGED <<world, disk>>
      BY <1>3 DEF WriteLands
    <2>4. /\ landed'[Disk(i)][job[i].file] = t
          /\ \A d \in Disks, f \in Files :
               d # Disk(i) \/ f # job[i].file => landed'[d][f] = landed[d][f]
      BY <1>0, <2>2, <2>3 DEF Contents
    <2>5. ~Writer(i)' /\ \A q \in Procs : q # i => job'[q] = job[q]
      BY <1>0, <1>a, <2>1, <2>3 DEF Writer
    <2>6. FilesAreHad'
      BY <2>3, HadType DEF FilesAreHad, Kept
    <2> QED
      BY <2>1, <2>3, <2>4, <2>5, <2>6, WriterEnds
  <1>4. ASSUME NEW i \in Insts, WriteRefused(i) PROVE Fenced'
    <2> DEFINE d == Disk(i)
               f == job[i].file
    <2>1. Writer(i) /\ i \in Procs
      BY <1>0, <1>4 DEF WriteRefused, Writer
    <2>2. d \in Disks /\ f \in Files /\ disk[d][f] \in Texts \cup {None}
      BY <1>b, <1>c, <2>1, DiskType
    <2>3. PutBack(i) = landed[d][f] /\ PutBack(i) \in Texts \cup {None}
      <3>1. PutBack(i) = IF disk[d][f] = job[i].text THEN job[i].before ELSE disk[d][f]
        BY DEF PutBack
      <3> QED
        BY <1>b, <2>1, <2>2, <3>1 DEF Fenced, PutsBackWhatLanded
    <2>4. job' = [job EXCEPT ![i] = Idle] /\ UNCHANGED <<world, had>>
          /\ \/ disk' = [disk EXCEPT ![d][f] = PutBack(i)] /\ UNCHANGED landed
             \/ landed' = [landed EXCEPT ![d][f] = disk[d][f]] /\ UNCHANGED disk
      BY <1>4 DEF WriteRefused
    <2>5. /\ disk'[d][f] = landed'[d][f]
          /\ \A e \in Disks, g \in Files :
               e # d \/ g # f => disk'[e][g] = disk[e][g] /\ landed'[e][g] = landed[e][g]
      <3>1. CASE disk' = [disk EXCEPT ![d][f] = PutBack(i)] /\ UNCHANGED landed
        BY <1>0, <2>2, <2>3, <3>1 DEF Contents
      <3>2. CASE landed' = [landed EXCEPT ![d][f] = disk[d][f]] /\ UNCHANGED disk
        BY <1>0, <2>2, <3>2 DEF Contents
      <3> QED
        BY <2>4, <3>1, <3>2
    <2>6. ~Writer(i)' /\ \A q \in Procs : q # i => job'[q] = job[q]
      BY <1>0, <1>a, <2>1, <2>4 DEF Writer
    <2>7. FilesAreHad'
      <3>1. disk[d][f] # None => f \in had[d]
        BY <2>2 DEF Fenced, FilesAreHad
      <3>2. disk[d][f] = None => PutBack(i) = disk[d][f]
        BY <1>b, <2>1, HostAssumption DEF PutBack
      <3>3. disk'[d][f] \in {disk[d][f], PutBack(i)}
        <4>1. CASE disk' = [disk EXCEPT ![d][f] = PutBack(i)]
          BY <1>0, <2>2, <2>3, <4>1 DEF Contents
        <4> QED
          BY <2>4, <4>1
      <3>4. disk'[d][f] # None => f \in had[d]
        BY <3>1, <3>2, <3>3
      <3> QED
        BY <2>4, <2>5, <3>4 DEF Fenced, FilesAreHad
    <2> QED
      BY <2>1, <2>4, <2>5, <2>6, <2>7, WriterEnds
  <1>5. ASSUME NEW d \in Disks, NEW f \in Files, NEW t \in Texts \cup {None}, ByHand(d, f, t)
        PROVE  Fenced'
    <2>1. /\ disk' = [disk EXCEPT ![d][f] = t] /\ landed' = [landed EXCEPT ![d][f] = t]
          /\ had' = IF t = None THEN had ELSE [had EXCEPT ![d] = @ \cup {f}]
          /\ UNCHANGED <<world, job>>
          /\ \A p \in Procs : Writer(p) /\ Disk(p) = d /\ job[p].file = f
                                => t \notin {None, job[p].text}
      BY <1>5 DEF ByHand, Writer
    <2>2. /\ disk'[d][f] = t /\ landed'[d][f] = t
          /\ \A e \in Disks, g \in Files :
               e # d \/ g # f => disk'[e][g] = disk[e][g] /\ landed'[e][g] = landed[e][g]
      BY <1>0, <2>1 DEF Contents
    <2>3. \A q \in Procs : Disk(q)' = Disk(q) /\ Disk(q) \in Disks /\ (Writer(q)' <=> Writer(q))
      BY <2>1, DiskType DEF Disk, world, Writer
    <2>4. FilesAreHad'
      <3>1. (\A e \in Disks : had[e] \subseteq had'[e]) /\ (t # None => f \in had'[d])
        BY <1>0, <2>1
      <3> QED
        BY <2>2, <3>1 DEF Fenced, FilesAreHad
    <2>5. OneWriter'
      BY <2>1, <2>3 DEF Fenced, OneWriter
    <2>6. PutsBackWhatLanded'
      <3> SUFFICES ASSUME NEW q \in Procs, Writer(q)
                   PROVE  LET now == disk'[Disk(q)][job[q].file]
                              then == landed'[Disk(q)][job[q].file]
                          IN IF now = job[q].text THEN job[q].before = then ELSE now = then
        BY <2>1, <2>3 DEF PutsBackWhatLanded
      <3>1. CASE Disk(q) = d /\ job[q].file = f
        BY <2>1, <2>2, <3>1
      <3>2. CASE Disk(q) # d \/ job[q].file # f
        BY <1>b, <2>2, <2>3, <3>2 DEF Fenced, PutsBackWhatLanded
      <3> QED
        BY <3>1, <3>2
    <2>7. LandedStays'
      BY <2>1, <2>2, <2>3 DEF Fenced, LandedStays, Writer
    <2> QED
      BY <2>4, <2>5, <2>6, <2>7 DEF Fenced
  <1>6. CASE Aside
    BY <1>6, AsideKeeps
  <1> QED
    BY <1>1, <1>2, <1>3, <1>4, <1>5, <1>6 DEF Next, Aside

-----------------------------------------------------------------------------
\* Who can give the lock back.  A daemon runs on its own instance; a command
\* that has ended has no lease; no two leases are one claim's.
World == \A i \in Insts : runsOn[i] = i
TokensAreClaims ==
    /\ lock # NoLock => lock.token <= claims
    /\ \A p \in Procs : lease[p].token <= claims /\ lease[p].over <= claims
LeasesDiffer ==
    \A p, q \in Procs : lease[p].token = lease[q].token /\ p # q => lease[p].token = 0
EndedHaveNone == \A c \in Cmds : job[c] = Idle => lease[c] = NoLease

\* The row has a daemon's token, or that of its command, which hands it back.
CanRelease(i) ==
    \/ lease[i].token = lock.token
    \/ \E c \in Cmds : /\ runsOn[c] = i /\ job[c] # Idle
                       /\ lease[c].token = lock.token
                       /\ lease[c].over \in {0, lease[i].token}
HandedBack == \A i \in Insts : hosted[i] /\ Holds(i) => CanRelease(i)

Leased == World /\ TokensAreClaims /\ LeasesDiffer /\ EndedHaveNone /\ HandedBack

OneCommand == \A c, d \in Cmds : c = d

\* The steps that claim nothing and hand nothing back.
LockStays ==
    /\ UNCHANGED <<world, claims>>
    /\ \/ lock' = NoLock
       \/ /\ lock # NoLock /\ lock' # NoLock
          /\ lock'.holder = lock.holder /\ lock'.token = lock.token
    /\ \A c \in Cmds : job'[c] = Idle <=> job[c] = Idle
    /\ \A p \in Procs :
         \/ lease'[p] = lease[p] /\ (hosted'[p] => hosted[p])
         \/ lease'[p] = NoLease /\ ~hosted'[p] /\ (p \in Cmds => job[p] = Idle)

LEMMA LockStaysKeeps == ASSUME TypeOK, Leased, LockStays PROVE Leased'
  <1>0. Insts \subseteq Procs /\ Cmds \subseteq Procs /\ Insts \cap Cmds = {} /\ claims \in Nat
    BY HostAssumption DEF Procs, TypeOK
  <1>a. NoLease.token = 0
    BY DEF NoLease
  <1>b. NoLease.over = 0
    BY DEF NoLease
  <1>1. World'
    BY DEF LockStays, Leased, World, world
  <1>2. TokensAreClaims'
    BY <1>0, <1>a, <1>b DEF LockStays, Leased, TokensAreClaims
  <1>3. LeasesDiffer'
    BY <1>a DEF LockStays, Leased, LeasesDiffer
  <1>4. EndedHaveNone'
    BY <1>0 DEF LockStays, Leased, EndedHaveNone
  <1>5. HandedBack'
    <2> SUFFICES ASSUME NEW i \in Insts, hosted'[i], Holds(i)' PROVE CanRelease(i)'
      BY DEF HandedBack
    <2>1. /\ lease'[i] = lease[i] /\ hosted[i]
          /\ lock # NoLock /\ lock'.holder = lock.holder /\ lock'.token = lock.token
      BY <1>0 DEF LockStays, Holds
    <2>2. Holds(i)
      BY <2>1 DEF LockStays, Holds, world
    <2>3. CanRelease(i)
      BY <2>1, <2>2 DEF Leased, HandedBack
    <2>4. CASE lease[i].token = lock.token
      BY <2>1, <2>4 DEF CanRelease
    <2>5. CASE lease[i].token # lock.token
      <3>1. PICK c \in Cmds : /\ runsOn[c] = i /\ job[c] # Idle
                              /\ lease[c].token = lock.token
                              /\ lease[c].over \in {0, lease[i].token}
        BY <2>3, <2>5 DEF CanRelease
      <3>2. lease'[c] = lease[c] /\ job'[c] # Idle /\ runsOn'[c] = i
        BY <1>0, <3>1 DEF LockStays, world
      <3> QED
        BY <2>1, <3>1, <3>2 DEF CanRelease
    <2> QED
      BY <2>4, <2>5
  <1> QED
    BY <1>1, <1>2, <1>3, <1>4, <1>5 DEF Leased

\* A claim of p: a command is at work from it on.
LEMMA AcquiresKeeps ==
    ASSUME TypeOK, Leased, OneCommand, NEW p \in Procs, Acquires(p), UNCHANGED world,
           job[p] = Idle, p \in Cmds => job'[p] # Idle,
           \A c \in Cmds : c # p => (job'[c] = Idle <=> job[c] = Idle)
    PROVE  Leased'
  <1>0. Insts \subseteq Procs /\ Cmds \subseteq Procs /\ Insts \cap Cmds = {} /\ claims \in Nat
    BY HostAssumption DEF Procs, TypeOK
  <1>a. \A q \in Procs : lease[q].token \in Nat
    BY HostAssumption DEF TypeOK
  <1>b. /\ lock' # NoLock /\ lock'.holder = runsOn[p] /\ lock'.token = claims + 1
        /\ lease'[p].token = claims + 1 /\ lease'[p].over = Over(p) /\ claims' = claims + 1
        /\ \A q \in Procs : q # p => hosted'[q] = hosted[q] /\ lease'[q] = lease[q]
    BY AcquiresType
  <1>1. World'
    BY DEF Leased, World, world
  <1>2. TokensAreClaims'
    <2> SUFFICES ASSUME NEW q \in Procs
                 PROVE  lease'[q].token <= claims + 1 /\ lease'[q].over <= claims + 1
      BY <1>0, <1>b DEF TokensAreClaims
    <2>1. lease[q].over \in Nat /\ lease[q].over <= claims
      BY HostAssumption DEF TypeOK, Leased, TokensAreClaims
    <2>2. Replaced(p) = 0 \/ (lock # NoLock /\ Replaced(p) = lock.token)
      BY DEF Replaced, Holds
    <2>3. lock # NoLock => lock.token \in Nat /\ lock.token <= claims
      BY HostAssumption DEF TypeOK, Locks, Leased, TokensAreClaims
    <2>4. q = p => Over(p) = lease[q].over \/ Over(p) = Replaced(p)
      BY DEF Over
    <2>5. q = p => lease'[q].over <= claims + 1
      BY <1>0, <1>b, <2>1, <2>2, <2>3, <2>4
    <2> QED
      BY <1>0, <1>a, <1>b, <2>1, <2>5 DEF Leased, TokensAreClaims
  <1>3. LeasesDiffer'
    <2> SUFFICES ASSUME NEW q \in Procs, NEW r \in Procs, q # r,
                        lease'[q].token = lease'[r].token
                 PROVE  lease'[q].token = 0
      BY DEF LeasesDiffer
    <2>1. \A x \in Procs : lease[x].token # claims + 1
      BY <1>0, <1>a DEF Leased, TokensAreClaims
    <2> QED
      BY <1>b, <2>1 DEF Leased, LeasesDiffer
  <1>4. EndedHaveNone'
    BY <1>0, <1>b DEF Leased, EndedHaveNone
  <1>5. HandedBack'
    <2> SUFFICES ASSUME NEW i \in Insts, hosted'[i], Holds(i)' PROVE CanRelease(i)'
      BY DEF HandedBack
    <2>1. runsOn[i] = i /\ runsOn'[i] = i /\ runsOn[p] = i /\ runsOn'[p] = i
      BY <1>b, <1>1 DEF Leased, World, Holds, world
    <2>2. CASE p = i
      BY <1>b, <2>2 DEF CanRelease
    <2>3. CASE p # i
      <3>1. p \in Cmds
        BY <2>1, <2>3 DEF Procs, Leased, World
      <3>2. lease[p] = NoLease /\ hosted[i] /\ lease'[i] = lease[i]
        BY <1>0, <1>b, <2>3, <3>1 DEF Leased, EndedHaveNone
      <3>3. Over(p) = Replaced(p)
        BY <3>2 DEF Over, NoLease
      <3>4. CASE Holds(p) /\ lock.live
        <4>1. Holds(i)
          BY <2>1, <3>4 DEF Holds
        <4>2. lease[i].token = lock.token
          BY <3>1, <3>2, <4>1 DEF Leased, HandedBack, CanRelease, OneCommand
        <4>3. Over(p) = lease[i].token
          BY <3>3, <3>4, <4>2 DEF Replaced
        <4> QED
          BY <1>b, <2>1, <3>1, <3>2, <4>3 DEF CanRelease
      <3>5. CASE ~(Holds(p) /\ lock.live)
        <4>1. Over(p) = 0
          BY <3>3, <3>5 DEF Replaced
        <4> QED
          BY <1>b, <2>1, <3>1, <4>1 DEF CanRelease
      <3> QED
        BY <3>4, <3>5
    <2> QED
      BY <2>2, <2>3
  <1> QED
    BY <1>1, <1>2, <1>3, <1>4, <1>5 DEF Leased

LEMMA EndKeeps ==
    ASSUME TypeOK, Leased, OneCommand, NEW c \in Cmds, CommandEnds(c) PROVE Leased'
  <1>0. /\ Insts \subseteq Procs /\ Cmds \subseteq Procs /\ Insts \cap Cmds = {}
        /\ claims \in Nat /\ c \in Procs
    BY HostAssumption DEF Procs, TypeOK
  <1>a. NoLease.token = 0
    BY DEF NoLease
  <1>b. \A q \in Procs : lease[q].token \in Nat
    BY HostAssumption DEF TypeOK
  <1>1. /\ UNCHANGED <<world, claims>> /\ lease'[c] = NoLease /\ ~hosted'[c]
        /\ \A p \in Procs : p # c => lease'[p] = lease[p] /\ hosted'[p] = hosted[p]
        /\ \A p \in Procs : p # c => job'[p] = job[p]
    BY <1>0 DEF CommandEnds, TypeOK
  <1>2. \/ lock' = NoLock
        \/ lock' = lock /\ ~(Holds(c) /\ lock.token = lease[c].token)
        \/ /\ Holds(c) /\ lock.token = lease[c].token /\ lease[c].over # 0
           /\ lock' = [lock EXCEPT !.token = lease[c].over]
    BY DEF CommandEnds, GivesBack, Holds
  <1>3. World'
    BY <1>1 DEF Leased, World, world
  <1>4. LeasesDiffer' /\ EndedHaveNone'
    BY <1>0, <1>1, <1>a DEF Leased, LeasesDiffer, EndedHaveNone, OneCommand
  <1>5. \A i \in Insts : hosted'[i] /\ Holds(i)' => lease'[i].token = lock'.token
    <2> SUFFICES ASSUME NEW i \in Insts, hosted'[i], Holds(i)'
                 PROVE  lease'[i].token = lock'.token
      OBVIOUS
    <2>0. i \in Procs /\ i # c /\ lease'[i] = lease[i] /\ hosted[i] /\ lock' # NoLock
          /\ runsOn'[i] = runsOn[i] /\ runsOn[i] = i /\ runsOn' = runsOn
      BY <1>0, <1>1 DEF Holds, Leased, World, world
    <2>1. CASE lock' = lock /\ ~(Holds(c) /\ lock.token = lease[c].token)
      <3>1. Holds(i)
        BY <2>0, <2>1 DEF Holds
      <3>2. CanRelease(i)
        BY <2>0, <3>1 DEF Leased, HandedBack
      <3>3. \A d \in Cmds : runsOn[d] = i => Holds(d) /\ d = c
        BY <2>0, <3>1 DEF Holds, OneCommand
      <3> QED
        BY <2>0, <2>1, <3>2, <3>3 DEF CanRelease
    <2>2. CASE /\ Holds(c) /\ lock.token = lease[c].token /\ lease[c].over # 0
               /\ lock' = [lock EXCEPT !.token = lease[c].over]
      <3>1. lock \in Locks /\ lock'.holder = lock.holder /\ lock'.token = lease[c].over
        BY <2>2 DEF Holds, TypeOK, Locks
      <3>2. Holds(i)
        BY <2>0, <2>2, <3>1 DEF Holds
      <3>3. CanRelease(i)
        BY <2>0, <3>2 DEF Leased, HandedBack
      <3>4. lease[i].token # lock.token
        <4>1. lock.token # 0
          BY <3>1, HostAssumption DEF Locks
        <4> QED
          BY <1>0, <2>0, <2>2, <4>1 DEF Leased, LeasesDiffer
      <3>5. lease[c].over \in {0, lease[i].token}
        BY <3>3, <3>4 DEF CanRelease, OneCommand
      <3> QED
        BY <2>0, <2>2, <3>1, <3>5
    <2> QED
      BY <1>2, <2>0, <2>1, <2>2
  <1>6. HandedBack'
    BY <1>5 DEF HandedBack, CanRelease
  <1>7. TokensAreClaims'
    <2>1. \A p \in Procs : lease'[p].token <= claims /\ lease'[p].over <= claims
      BY <1>0, <1>1, <1>a DEF Leased, TokensAreClaims, NoLease
    <2>2. lock # NoLock => lock \in Locks
      BY DEF TypeOK
    <2>3. \A t \in 0..MaxClaims : lock # NoLock => [lock EXCEPT !.token = t].token = t
      BY <2>2 DEF Locks
    <2>4. lock' # NoLock => lock'.token <= claims
      <3>1. lease[c].over \in 0..MaxClaims
        BY <1>0 DEF TypeOK
      <3> QED
        BY <1>0, <1>2, <2>3, <3>1 DEF Leased, TokensAreClaims, Holds
    <2> QED
      BY <1>1, <2>1, <2>4 DEF TokensAreClaims
  <1> QED
    BY <1>3, <1>4, <1>6, <1>7 DEF Leased

LEMMA LeasedStep == ASSUME TypeOK, Leased, OneCommand, Next PROVE Leased'
  <1>0. /\ job \in [Procs -> Jobs] /\ Insts \subseteq Procs /\ Cmds \subseteq Procs
        /\ Insts \cap Cmds = {} /\ hosted \in [Procs -> BOOLEAN]
        /\ lease \in [Procs -> [token : 0..MaxClaims, over : 0..MaxClaims]]
    BY JobType, HostAssumption DEF Procs, TypeOK
  <1>a. Idle # Ending /\ Idle.at = "idle"
    BY DEF Idle, Ending
  <1>b. lock # NoLock => lock \in Locks /\ lock.holder \in Insts
    BY DEF TypeOK, Locks
  <1>c. \A h \in Insts : lock # NoLock /\ lock'.holder = h => lock' # NoLock
    BY HostAssumption DEF NoLock
  \* Only the live flag of the row changes.
  <1>1. \A b \in BOOLEAN : lock # NoLock /\ lock' = [lock EXCEPT !.live = b] =>
          lock' # NoLock /\ lock'.holder = lock.holder /\ lock'.token = lock.token
    <2> SUFFICES ASSUME NEW b \in BOOLEAN, lock # NoLock, lock' = [lock EXCEPT !.live = b]
                 PROVE  lock' # NoLock /\ lock'.holder = lock.holder /\ lock'.token = lock.token
      OBVIOUS
    <2>1. lock'.holder = lock.holder /\ lock'.token = lock.token
      BY <1>b DEF Locks
    <2> QED
      BY <1>b, <1>c, <2>1
  <1>2. CASE Lapses
    <2>1. LockStays
      BY <1>1, <1>2 DEF Lapses, LockStays, own, world
    <2> QED
      BY <2>1, LockStaysKeeps
  <1>3. ASSUME NEW i \in Insts, Renews(i) PROVE Leased'
    <2>1. \A p \in Procs : lease'[p] = lease[p] /\ (hosted'[p] => hosted[p])
      BY <1>0, <1>3 DEF Renews
    <2>2. LockStays
      BY <1>1, <1>3, <2>1 DEF Renews, LockStays, world, Holds
    <2> QED
      BY <2>2, LockStaysKeeps
  <1>4. ASSUME NEW i \in Insts, Stops(i) PROVE Leased'
    <2>1. \A p \in Procs : \/ lease'[p] = lease[p] /\ hosted'[p] = hosted[p]
                           \/ lease'[p] = NoLease /\ ~hosted'[p] /\ p = i
      BY <1>0, <1>4 DEF Stops
    <2>2. LockStays
      BY <1>0, <1>4, <2>1 DEF Stops, LockStays, world
    <2> QED
      BY <2>2, LockStaysKeeps
  <1>5. ASSUME NEW i \in Insts, Crashes(i) PROVE Leased'
    <2>1. \A p \in Procs : \/ lease'[p] = lease[p] /\ hosted'[p] = hosted[p]
                           \/ lease'[p] = NoLease /\ ~hosted'[p] /\ p = i
      BY <1>0, <1>5 DEF Crashes
    <2>2. \A c \in Cmds : job'[c] = job[c]
      BY <1>0, <1>5 DEF Crashes
    <2>3. LockStays
      BY <1>0, <1>5, <2>1, <2>2 DEF Crashes, LockStays, world, locks
    <2> QED
      BY <2>3, LockStaysKeeps
  <1>6. ASSUME NEW p \in Procs, NEW b \in BOOLEAN, WalkBegins(p, b) PROVE Leased'
    <2> DEFINE j == [at |-> "claimed", snap |-> row, found |-> Blank, lost |-> FALSE]
    <2>1. j \in Jobs /\ j.at = "claimed"
      BY DEF Jobs, Walks, Contents, Blank, TypeOK
    <2>2. job' = Outlived([job EXCEPT ![p] = j], p) /\ job[p] = Idle
          /\ UNCHANGED world /\ Acquires(p)
      BY <1>6 DEF WalkBegins
    <2> HIDE DEF j
    <2>3. [job EXCEPT ![p] = j] \in [Procs -> Jobs]
          /\ \A q \in Procs : [job EXCEPT ![p] = j][q] = IF q = p THEN j ELSE job[q]
      BY <1>0, <2>1
    <2>4. job' \in [Procs -> Jobs] /\ \A q \in Procs : job'[q].at = IF q = p THEN "claimed" ELSE job[q].at
      BY <2>1, <2>2, <2>3, OutlivedType
    <2>5. \A q \in Procs : q # p => (job'[q] = Idle <=> job[q] = Idle)
      BY <1>0, <2>4, JobKinds
    <2>6. job'[p] # Idle
      BY <1>a, <2>4
    <2> QED
      BY <1>0, <2>2, <2>5, <2>6, AcquiresKeeps
  <1>7. ASSUME NEW p \in Procs,
               WalkScans(p) \/ WalkFails(p) \/ NotApplied(p) \/ \E b \in BOOLEAN : WalkApplies(p, b)
        PROVE  Leased'
    <2>1. job[p] # Idle
      BY <1>7, <1>a DEF WalkScans, WalkFails, NotApplied, WalkApplies
    <2>2. /\ \A q \in Procs : q # p => job'[q] = job[q]
          /\ p \in Cmds => job'[p] # Idle
      <3>1. CASE WalkScans(p)
        <4>1. job[p] \in Walks /\ disk[Disk(p)] \in Contents
          BY <1>0, <3>1, JobKinds, DiskType DEF WalkScans, TypeOK
        <4> DEFINE x == [job[p] EXCEPT !.at = "scanned", !.found = disk[Disk(p)]]
        <4>2. x.at = "scanned"
          BY <4>1 DEF Walks
        <4>3. job' = [job EXCEPT ![p] = x]
          BY <3>1 DEF WalkScans
        <4> HIDE DEF x
        <4> QED
          BY <1>0, <1>a, <4>2, <4>3
      <3>2. CASE ~WalkScans(p)
        <4>1. job' = [job EXCEPT ![p] = Ended(p)]
          BY <1>7, <3>2 DEF WalkFails, NotApplied, WalkApplies
        <4> QED
          BY <1>0, <1>a, <4>1 DEF Ended, Ending
      <3> QED
        BY <3>1, <3>2
    <2>3. /\ UNCHANGED <<world, claims, lock, lease>>
          /\ UNCHANGED hosted \/ hosted' = [hosted EXCEPT ![p] = FALSE]
      BY <1>7 DEF WalkScans, WalkFails, NotApplied, WalkApplies, own, locks
    <2>4. \A q \in Procs : hosted'[q] => hosted[q]
      BY <1>0, <2>3
    <2>5. LockStays
      BY <1>0, <2>1, <2>2, <2>3, <2>4 DEF LockStays
    <2> QED
      BY <2>5, LockStaysKeeps
  <1>8. ASSUME NEW p \in Procs, WalkSkips(p) PROVE Leased'
    <2>1. \A q \in Procs : \/ lease'[q] = lease[q] /\ hosted'[q] = hosted[q]
                           \/ lease'[q] = NoLease /\ ~hosted'[q] /\ q = p
      BY <1>0, <1>8 DEF WalkSkips
    <2>2. LockStays
      BY <1>8, <2>1 DEF WalkSkips, LockStays, locks
    <2> QED
      BY <2>2, LockStaysKeeps
  <1>9. ASSUME NEW i \in Insts, NEW f \in Files, TargetedSync(i, f) PROVE Leased'
    <2>1. job' = Outlived(job, i) /\ job[i] = Idle /\ UNCHANGED world /\ Acquires(i)
      BY <1>9 DEF TargetedSync
    <2>2. job' \in [Procs -> Jobs] /\ \A q \in Procs : job'[q].at = job[q].at
      BY <1>0, <2>1, OutlivedType
    <2>3. \A q \in Procs : job'[q] = Idle <=> job[q] = Idle
      BY <1>0, <2>2, JobKinds
    <2> QED
      BY <1>0, <2>1, <2>3, AcquiresKeeps
  <1>10. ASSUME NEW i \in Insts, NEW f \in Files, NEW t \in Texts, WriteGated(i, f, t)
         PROVE  Leased'
    <2>1. \A c \in Cmds : job'[c] = job[c]
      BY <1>0, <1>10 DEF WriteGated
    <2>2. LockStays
      BY <1>10, <2>1 DEF WriteGated, LockStays, locks, own
    <2> QED
      BY <2>2, LockStaysKeeps
  <1>11. ASSUME NEW i \in Insts, NEW f \in Files, NEW t \in Texts, WriteClaims(i, f, t)
         PROVE  Leased'
    <2>1. Writing(f, t) \in Jobs
      BY DEF Writing, Jobs, Writes
    <2>2. [job EXCEPT ![i] = Writing(f, t)] \in [Procs -> Jobs]
          /\ \A q \in Procs : q # i => [job EXCEPT ![i] = Writing(f, t)][q] = job[q]
      BY <1>0, <2>1
    <2>3. job' = Outlived([job EXCEPT ![i] = Writing(f, t)], i) /\ job[i] = Idle
          /\ UNCHANGED world /\ Acquires(i)
      BY <1>11 DEF WriteClaims, Wants
    <2> DEFINE j == [job EXCEPT ![i] = Writing(f, t)]
    <2>a. j \in [Procs -> Jobs] /\ \A q \in Procs : q # i => j[q] = job[q]
      BY <2>2
    <2>b. job' = Outlived(j, i) /\ i \in Procs
      BY <1>0, <2>3
    <2> HIDE DEF j
    <2>4. job' \in [Procs -> Jobs] /\ \A q \in Procs : q # i => job'[q].at = job[q].at
      BY <2>a, <2>b, OutlivedType
    <2>5. \A q \in Procs : q # i => (job'[q] = Idle <=> job[q] = Idle)
      BY <1>0, <2>4, JobKinds
    <2> QED
      BY <1>0, <2>3, <2>5, AcquiresKeeps
  <1>12. ASSUME NEW i \in Insts, WriteFile(i) \/ WriteLands(i) \/ WriteRefused(i) PROVE Leased'
    <2>1. \A c \in Cmds : job'[c] = job[c]
      BY <1>0, <1>12 DEF WriteFile, WriteLands, WriteRefused
    <2>2. \A q \in Procs : hosted'[q] => hosted[q]
      BY <1>0, <1>12 DEF WriteFile, WriteLands, WriteRefused, own
    <2>3. UNCHANGED <<world, claims, lock, lease>>
      BY <1>12 DEF WriteFile, WriteLands, WriteRefused, own, locks
    <2>4. LockStays
      BY <2>1, <2>2, <2>3 DEF LockStays
    <2> QED
      BY <2>4, LockStaysKeeps
  <1>13. ASSUME NEW d \in Disks, NEW f \in Files, NEW t \in Texts \cup {None}, ByHand(d, f, t)
         PROVE  Leased'
    <2>1. LockStays
      BY <1>13 DEF ByHand, LockStays, locks, own
    <2> QED
      BY <2>1, LockStaysKeeps
  <1> QED
    BY <1>2, <1>3, <1>4, <1>5, <1>6, <1>7, <1>8, <1>9, <1>10, <1>11, <1>12, <1>13, EndKeeps
       DEF Next

-----------------------------------------------------------------------------
\* What a walk under the lock knows.
InWalk(p) == job[p] \in Walks /\ ~job[p].lost

HolderIsLast == lock # NoLock => last = lock.holder
WalksHold == \A p \in Procs : InWalk(p) => lock = NoLock \/ lock.holder = runsOn[p]

\* Since the walk read the rows, only its own instance has written any.
RowsAreItsOwn ==
    \A p \in Procs, f \in Files :
        InWalk(p) /\ row[f] # None => row[f] = job[p].snap[f] \/ f \in had[Disk(p)]
FoundWasHad ==
    \A p \in Procs, f \in Files :
        InWalk(p) /\ job[p].at = "scanned" /\ row[f] # None /\ job[p].found[f] # None
            => f \in had[Disk(p)]

WalksKnowRows == WalksHold /\ RowsAreItsOwn /\ FoundWasHad

HadKeeps ==
    \A d \in Disks, f \in Files : row'[f] = row[f] /\ f \in had[d] => f \in had'[d]

LEMMA HadKeepsStep == ASSUME TypeOK, Next PROVE HadKeeps
  <1>1. CASE UNCHANGED had
    BY <1>1 DEF HadKeeps
  <1>2. CASE had' = Had(row')
    BY <1>2, HadType DEF HadKeeps, Kept
  <1>3. ASSUME NEW d \in Disks, NEW f \in Files, had' = [had EXCEPT ![d] = @ \cup {f}]
        PROVE  HadKeeps
    BY <1>3 DEF HadKeeps, TypeOK
  <1>4. ASSUME NEW i \in Insts, WriteFile(i) PROVE HadKeeps
    <2>1. i \in Procs /\ job[i] \in Jobs
      BY JobType DEF Procs
    <2>2. Disk(i) \in Disks /\ job[i].file \in Files
      BY <1>4, <2>1, JobKinds, WriteType, DiskType DEF WriteFile
    <2>3. had' = [had EXCEPT ![Disk(i)] = @ \cup {job[i].file}]
      BY <1>4 DEF WriteFile
    <2> QED
      BY <1>3, <2>2, <2>3
  <1>5. ASSUME NEW d \in Disks, NEW f \in Files, NEW t \in Texts \cup {None}, ByHand(d, f, t)
        PROVE  HadKeeps
    BY <1>1, <1>3, <1>5 DEF ByHand
  <1>6. ASSUME ~\E i \in Insts : WriteFile(i),
               ~\E d \in Disks, f \in Files, t \in Texts \cup {None} : ByHand(d, f, t)
        PROVE  UNCHANGED had \/ had' = Had(row')
    <2>1. CASE \/ Lapses
               \/ \E i \in Insts : Renews(i) \/ Stops(i) \/ Crashes(i)
               \/ \E i \in Insts : WriteLands(i) \/ WriteRefused(i)
               \/ \E c \in Cmds : CommandEnds(c)
      BY <2>1 DEF Lapses, Renews, Stops, Crashes, WriteLands, WriteRefused, CommandEnds, files
    <2>2. CASE \/ \E p \in Procs, b \in BOOLEAN : WalkBegins(p, b) \/ WalkApplies(p, b)
               \/ \E p \in Procs : WalkSkips(p) \/ WalkScans(p) \/ WalkFails(p) \/ NotApplied(p)
      BY <2>2 DEF WalkBegins, WalkApplies, WalkSkips, WalkScans, WalkFails, NotApplied, files
    <2>3. CASE \/ \E i \in Insts, f \in Files : TargetedSync(i, f)
               \/ \E i \in Insts, f \in Files, t \in Texts :
                    WriteGated(i, f, t) \/ WriteClaims(i, f, t)
      BY <2>3 DEF TargetedSync, WriteGated, WriteClaims, files
    <2> QED
      BY <1>6, <2>1, <2>2, <2>3 DEF Next
  <1> QED
    BY <1>1, <1>2, <1>4, <1>5, <1>6

\* The walks under the lock after a step were that before it, as they are.
WalksStay ==
    \A p \in Procs : InWalk(p)' =>
        /\ InWalk(p) /\ job'[p].snap = job[p].snap
        /\ job'[p].at = "scanned" => job[p].at = "scanned" /\ job'[p].found = job[p].found

\* Rows written for disk d.
RowsOf(d) == \A f \in Files : row'[f] \notin {None, row[f]} => f \in had'[d]

LEMMA JobEnds ==
    ASSUME TypeOK, NEW p \in Procs, NEW x, x \notin Walks, job' = [job EXCEPT ![p] = x]
    PROVE  WalksStay
  BY JobType DEF WalksStay, InWalk

\* A claim: the walks left under the lock are of the claim's instance.
LEMMA OutlivedWalks ==
    ASSUME TypeOK, NEW p \in Procs, NEW j \in [Procs -> Jobs], job' = Outlived(j, p),
           UNCHANGED world, \A q \in Procs : j[q] = job[q] \/ j[q] \notin Walks
    PROVE  WalksStay /\ \A q \in Procs : InWalk(q)' => runsOn[q] = runsOn[p]
  <1>1. job' \in [Procs -> Jobs] /\ \A q \in Procs : job'[q].at = j[q].at
    BY OutlivedType
  <1> SUFFICES ASSUME NEW q \in Procs, InWalk(q)'
               PROVE  /\ InWalk(q) /\ job'[q].snap = job[q].snap
                      /\ job'[q].at = "scanned" => job[q].at = "scanned" /\ job'[q].found = job[q].found
                      /\ runsOn[q] = runsOn[p]
    BY DEF WalksStay
  <1>2. job'[q] \in Walks /\ ~job'[q].lost
    BY DEF InWalk
  <1>3. j[q] \in Walks
    <2>1. job'[q].at \in {"claimed", "scanned"}
      BY <1>2 DEF Walks
    <2>2. j[q] \in Jobs /\ j[q].at \in {"claimed", "scanned"}
      BY <1>1, <2>1
    <2> QED
      BY <2>2, JobKinds
  <1>4. j[q] = job[q]
    BY <1>3
  <1>5. runsOn[q] = runsOn[p]
    BY <1>2, <1>3, OutlivedType
  <1>6. job'[q] = j[q]
    BY <1>5, OutlivedType
  <1> QED
    BY <1>2, <1>4, <1>5, <1>6 DEF InWalk

\* The walks under way still know it: nobody wrote a row, or their own instance.
LEMMA WalksKnow ==
    ASSUME TypeOK, WalksKnowRows, HadKeeps, UNCHANGED world, WalksStay,
           \A p \in Procs : InWalk(p)' => RowsOf(Disk(p))
    PROVE  RowsAreItsOwn' /\ FoundWasHad'
  <1>1. \A p \in Procs : Disk(p)' = Disk(p) /\ Disk(p) \in Disks
    BY DiskType DEF Disk, world
  <1>2. RowsAreItsOwn'
    <2> SUFFICES ASSUME NEW p \in Procs, NEW f \in Files, InWalk(p)', row'[f] # None
                 PROVE  row'[f] = job'[p].snap[f] \/ f \in had'[Disk(p)]
      BY <1>1 DEF RowsAreItsOwn
    <2>1. CASE row'[f] = row[f]
      BY <1>1, <2>1 DEF WalksStay, WalksKnowRows, RowsAreItsOwn, HadKeeps
    <2>2. CASE row'[f] # row[f]
      BY <2>2 DEF RowsOf
    <2> QED
      BY <2>1, <2>2
  <1>3. FoundWasHad'
    <2> SUFFICES ASSUME NEW p \in Procs, NEW f \in Files, InWalk(p)', job'[p].at = "scanned",
                        row'[f] # None, job'[p].found[f] # None
                 PROVE  f \in had'[Disk(p)]
      BY <1>1 DEF FoundWasHad
    <2>1. CASE row'[f] = row[f]
      BY <1>1, <2>1 DEF WalksStay, WalksKnowRows, FoundWasHad, HadKeeps
    <2>2. CASE row'[f] # row[f]
      BY <2>2 DEF RowsOf
    <2> QED
      BY <2>1, <2>2
  <1> QED
    BY <1>2, <1>3

\* The row of the lock goes or has the same holder.
HolderStays ==
    \/ lock' = NoLock
    \/ lock # NoLock /\ lock' # NoLock /\ lock'.holder = lock.holder

LEMMA HolderKeeps ==
    ASSUME WalksKnowRows, HolderIsLast, HolderStays, UNCHANGED <<world, last>>, WalksStay
    PROVE  WalksHold' /\ HolderIsLast'
  BY DEF WalksKnowRows, WalksHold, HolderIsLast, HolderStays, WalksStay, world

Whole == HolderIsLast /\ WalksKnowRows /\ UnmarkedIsWhole

\* Steps that write no row and claim nothing.
LEMMA NoRowKeeps ==
    ASSUME TypeOK, Whole, HadKeeps, HolderStays, UNCHANGED <<world, last, mark, row>>, WalksStay
    PROVE  Whole'
  <1>1. HolderIsLast' /\ WalksHold'
    BY HolderKeeps DEF Whole
  <1>2. RowsAreItsOwn' /\ FoundWasHad'
    BY WalksKnow DEF Whole, RowsOf
  <1>3. UnmarkedIsWhole'
    BY DEF Whole, UnmarkedIsWhole, HadKeeps, TypeOK, world
  <1> QED
    BY <1>1, <1>2, <1>3 DEF Whole, WalksKnowRows

\* A row that changed has the text of a disk.
LEMMA RowsFromDisk ==
    ASSUME TypeOK, had' = Had(row'), NEW d \in Disks,
           \A f \in Files : row'[f] \in {None, row[f], disk[d][f]}
    PROVE  RowsOf(d)
  <1> SUFFICES ASSUME NEW f \in Files, row'[f] # None, row'[f] # row[f]
               PROVE  f \in had'[d]
    BY DEF RowsOf
  <1>1. disk[d][f] # None
    OBVIOUS
  <1> QED
    BY <1>1, HadType DEF Kept

\* A claim, which may write the row of one file from its disk.
LEMMA ClaimKeeps ==
    ASSUME TypeOK, Whole, HadKeeps, NEW p \in Procs, Acquires(p), UNCHANGED world,
           WalksStay, \A q \in Procs : InWalk(q)' => runsOn[q] = runsOn[p],
           RowsOf(Disk(p))
    PROVE  Whole'
  <1>1. lock' # NoLock /\ lock'.holder = runsOn[p] /\ last' = runsOn[p]
        /\ (mark' = NoMark => mark = NoMark /\ Previous = runsOn[p])
    BY AcquiresType
  <1>2. HolderIsLast' /\ WalksHold'
    BY <1>1 DEF HolderIsLast, WalksHold, world
  <1>3. RowsAreItsOwn' /\ FoundWasHad'
    <2>1. \A q \in Procs : InWalk(q)' => Disk(q) = Disk(p)
      BY DEF Disk
    <2> QED
      BY <2>1, WalksKnow DEF Whole
  <1>4. UnmarkedIsWhole'
    <2> SUFFICES ASSUME mark' = NoMark, NEW f \in Files, row'[f] # None
                 PROVE  f \in had'[home'[last']]
      BY DEF UnmarkedIsWhole
    <2>1. home'[last'] = Disk(p) /\ Disk(p) \in Disks
      BY <1>1, DiskType DEF Disk, world
    <2>2. mark = NoMark /\ last = runsOn[p]
      BY <1>1 DEF Previous, Whole, HolderIsLast
    <2>3. last # None
      BY <2>2, DiskType, HostAssumption
    <2>4. CASE row'[f] = row[f]
      BY <2>1, <2>2, <2>3, <2>4 DEF Whole, UnmarkedIsWhole, Disk, HadKeeps
    <2>5. CASE row'[f] # row[f]
      BY <2>1, <2>5 DEF RowsOf
    <2> QED
      BY <2>4, <2>5
  <1> QED
    BY <1>2, <1>3, <1>4 DEF Whole, WalksKnowRows

\* The holder writes rows from its own disk.
LEMMA HolderWrites ==
    ASSUME TypeOK, Whole, HadKeeps, NEW p \in Procs, Holds(p),
           UNCHANGED <<world, lock, last>>, WalksStay, RowsOf(Disk(p))
    PROVE  HolderIsLast' /\ WalksKnowRows'
  <1>1. HolderIsLast' /\ WalksHold'
    BY HolderKeeps DEF Whole, HolderStays, Holds
  <1>2. \A q \in Procs : InWalk(q)' => Disk(q) = Disk(p)
    BY DEF WalksStay, Whole, WalksKnowRows, WalksHold, Holds, Disk
  <1>3. RowsAreItsOwn' /\ FoundWasHad'
    BY <1>2, WalksKnow DEF Whole
  <1> QED
    BY <1>1, <1>3 DEF WalksKnowRows

LEMMA LandsKeeps ==
    ASSUME TypeOK, Whole, HadKeeps, NEW i \in Insts, WriteLands(i) PROVE Whole'
  <1>0. i \in Procs /\ job[i] \in Writes /\ Disk(i) \in Disks
    BY JobType, JobKinds, DiskType DEF Procs, WriteLands
  <1>1. /\ Holds(i) /\ had' = Had(row') /\ job' = [job EXCEPT ![i] = Idle]
        /\ row' = [row EXCEPT ![job[i].file] = disk[Disk(i)][job[i].file]]
        /\ UNCHANGED <<world, lock, last, mark>>
    BY DEF WriteLands, MayApply, locks
  <1>2. RowsOf(Disk(i))
    <2>1. \A f \in Files : row'[f] \in {None, row[f], disk[Disk(i)][f]}
      BY <1>1 DEF TypeOK, Contents
    <2> QED
      BY <1>0, <1>1, <2>1, RowsFromDisk
  <1>3. WalksStay
    <2>1. Idle \notin Walks
      BY DEF Idle, Walks
    <2> QED
      BY <1>0, <1>1, <2>1, JobEnds
  <1>4. HolderIsLast' /\ WalksKnowRows'
    BY <1>0, <1>1, <1>2, <1>3, HolderWrites
  <1>5. last = runsOn[i] /\ home[last] = Disk(i)
    BY <1>1 DEF Holds, Whole, HolderIsLast, Disk
  <1>6. UnmarkedIsWhole'
    BY <1>0, <1>1, <1>2, <1>5 DEF Whole, UnmarkedIsWhole, RowsOf, HadKeeps, world
  <1> QED
    BY <1>4, <1>6 DEF Whole

\* A walk that is under the lock as it applies: every row left is of a file its
\* disk has or had, or the move goes on.
LEMMA AppliesKeeps ==
    ASSUME ~Raced, TypeOK, FilesAreHad, Whole, HadKeeps, NEW p \in Procs, NEW b \in BOOLEAN,
           WalkApplies(p, b)
    PROVE  Whole'
  <1> DEFINE a == Accepts(p, b)
             d == Disk(p)
  <1>0. job[p] \in Walks /\ d \in Disks
    BY JobType, JobKinds, DiskType DEF WalkApplies
  <1>1. /\ Holds(p) /\ InWalk(p) /\ job[p].at = "scanned"
        /\ row' = Applied(p, a) /\ had' = Had(row') /\ mark' = Walked(p, a)
        /\ job' = [job EXCEPT ![p] = Ended(p)]
        /\ UNCHANGED <<world, disk, lock, last>>
    BY <1>0 DEF WalkApplies, MayApply, InWalk, locks
  <1> HIDE DEF a, d
  <1>2. \A f \in Files :
          row'[f] = CASE f \in Newer(p) -> disk[d][f]
                      [] f \in Gone(p) /\ (mark = NoMark \/ a) -> None
                      [] OTHER -> row[f]
    BY <1>1 DEF Applied, d
  <1>3. RowsOf(d)
    <2>1. \A f \in Files : row'[f] \in {None, row[f], disk[d][f]}
      BY <1>2
    <2> QED
      BY <1>0, <1>1, <2>1, RowsFromDisk
  <1>4. WalksStay
    <2>1. Ended(p) \notin Walks
      BY EndedType DEF Idle, Ending, Walks
    <2> QED
      BY <1>1, <2>1, JobEnds
  <1>5. HolderIsLast' /\ WalksKnowRows'
    BY <1>1, <1>3, <1>4, HolderWrites DEF d
  <1>6. last = runsOn[p] /\ home[last] = d /\ last # None
    <2>1. runsOn[p] \in Insts
      BY DEF TypeOK
    <2> QED
      BY <1>1, <2>1, HostAssumption DEF Holds, Whole, HolderIsLast, Disk, d
  <1>7. UnmarkedIsWhole'
    <2> SUFFICES ASSUME mark' = NoMark, NEW f \in Files, row'[f] # None
                 PROVE  f \in had'[d]
      BY <1>1, <1>6 DEF UnmarkedIsWhole, world
    <2>1. CASE row'[f] # row[f]
      BY <1>3, <2>1 DEF RowsOf
    <2>2. CASE row'[f] = row[f] /\ mark = NoMark
      BY <1>0, <1>6, <2>2 DEF Whole, UnmarkedIsWhole, HadKeeps
    <2>3. CASE row'[f] = row[f] /\ mark # NoMark
      <3>1. a \/ Gone(p) = {}
        BY <1>1, <2>3 DEF Walked, Resolves, NoMark, TypeOK, Marks
      <3>2. SUFFICES ASSUME f \notin had[d] PROVE FALSE
        BY <1>0, <2>3 DEF HadKeeps
      <3>3. disk[d][f] = None /\ job[p].found[f] = None
        BY <1>0, <1>1, <2>3, <3>2
           DEF FilesAreHad, Whole, WalksKnowRows, FoundWasHad, d
      <3>4. row[f] = job[p].snap[f]
        BY <1>1, <2>3, <3>2 DEF Whole, WalksKnowRows, RowsAreItsOwn, d
      <3>5. f \in Gone(p) /\ f \notin Newer(p)
        BY <2>3, <3>3, <3>4 DEF Gone, GoneEngrams, GoneAssets, Newer, Files, d
      <3> QED
        BY <1>2, <2>3, <3>1, <3>5
    <2> QED
      BY <2>1, <2>2, <2>3
  <1> QED
    BY <1>5, <1>7 DEF Whole

LEMMA WholeStep ==
    ASSUME ~Raced, TypeOK, FilesAreHad, Whole, Next PROVE Whole'
  <1>0. /\ job \in [Procs -> Jobs] /\ Insts \subseteq Procs /\ Cmds \subseteq Procs
        /\ HadKeeps
    BY JobType, HadKeepsStep DEF Procs
  <1>a. Idle \notin Walks /\ Ending \notin Walks /\ \A p \in Procs : Ended(p) \notin Walks
    BY EndedType DEF Idle, Ending, Walks
  <1>b. lock # NoLock => lock \in Locks /\ lock.holder \in Insts
    BY DEF TypeOK, Locks
  <1>c. ASSUME UNCHANGED job PROVE WalksStay
    BY <1>c DEF WalksStay, InWalk
  <1>d. ASSUME UNCHANGED lock PROVE HolderStays
    BY <1>d DEF HolderStays
  <1>e. \A x : lock # NoLock /\ lock' = x /\ x \in Locks /\ x.holder = lock.holder => HolderStays
    BY <1>b, HostAssumption DEF HolderStays, NoLock
  <1>1. CASE Lapses
    <2>1. lock # NoLock /\ [lock EXCEPT !.live = FALSE] \in Locks
          /\ [lock EXCEPT !.live = FALSE].holder = lock.holder
      BY <1>1, <1>b DEF Lapses, Locks
    <2>2. HolderStays
      BY <1>1, <1>e, <2>1 DEF Lapses
    <2> QED
      BY <1>0, <1>1, <1>c, <2>2, NoRowKeeps DEF Lapses, files
  <1>2. ASSUME NEW i \in Insts, Renews(i) PROVE Whole'
    <2>1. HolderStays
      <3>1. CASE Holds(i)
        <4>1. lock # NoLock /\ [lock EXCEPT !.live = TRUE] \in Locks
              /\ [lock EXCEPT !.live = TRUE].holder = lock.holder
          BY <3>1, <1>b DEF Holds, Locks
        <4> QED
          BY <1>2, <1>e, <3>1, <4>1 DEF Renews
      <3>2. CASE ~Holds(i)
        BY <1>2, <1>d, <3>2 DEF Renews
      <3> QED
        BY <3>1, <3>2
    <2> QED
      BY <1>0, <1>2, <1>c, <2>1, NoRowKeeps DEF Renews, files
  <1>3. ASSUME NEW i \in Insts, Stops(i) PROVE Whole'
    <2>1. HolderStays
      BY <1>3, <1>d DEF Stops, HolderStays
    <2> QED
      BY <1>0, <1>3, <1>c, <2>1, NoRowKeeps DEF Stops, files
  <1>4. ASSUME NEW i \in Insts, Crashes(i) PROVE Whole'
    <2>1. HolderStays /\ WalksStay
      BY <1>0, <1>4, <1>a, <1>d, JobEnds DEF Crashes, locks
    <2> QED
      BY <1>0, <1>4, <2>1, NoRowKeeps DEF Crashes, locks
  <1>5. ASSUME NEW c \in Cmds, CommandEnds(c) PROVE Whole'
    <2>1. WalksStay
      BY <1>0, <1>5, <1>a, JobEnds DEF CommandEnds
    <2>2. HolderStays
      <3>1. \/ lock' \in {lock, NoLock}
            \/ lock # NoLock /\ lease[c].over # 0 /\ lock' = [lock EXCEPT !.token = lease[c].over]
        BY <1>5 DEF CommandEnds, GivesBack, Holds
      <3>2. ASSUME lock # NoLock, lease[c].over # 0
            PROVE  /\ [lock EXCEPT !.token = lease[c].over] \in Locks
                   /\ [lock EXCEPT !.token = lease[c].over].holder = lock.holder
        <4>1. lease[c].over \in 1..MaxClaims
          BY <1>0, <3>2, HostAssumption DEF TypeOK
        <4> QED
          BY <1>b, <3>2, <4>1 DEF Locks
      <3> QED
        BY <1>d, <1>e, <3>1, <3>2 DEF HolderStays
    <2> QED
      BY <1>0, <1>5, <2>1, <2>2, NoRowKeeps DEF CommandEnds, files
  <1>6. ASSUME NEW p \in Procs, NEW b \in BOOLEAN, WalkBegins(p, b) PROVE Whole'
    <2> DEFINE j == [at |-> "claimed", snap |-> row, found |-> Blank, lost |-> FALSE]
               js == [job EXCEPT ![p] = j]
    <2>1. j \in Jobs /\ j.at = "claimed" /\ j.snap = row
      BY DEF Jobs, Walks, Contents, Blank, TypeOK
    <2>2. job' = Outlived(js, p) /\ UNCHANGED <<world, row>> /\ Acquires(p)
      BY <1>6 DEF WalkBegins, files
    <2> HIDE DEF j
    <2>3. js \in [Procs -> Jobs] /\ \A q \in Procs : js[q] = IF q = p THEN j ELSE job[q]
      BY <1>0, <2>1
    <2> HIDE DEF js
    <2>4. job'[p] = j
      BY <2>2, <2>3, OutlivedType
    \* Of the other walks, those of this instance stay.
    <2>5. \A q \in Procs : InWalk(q)' =>
            /\ runsOn[q] = runsOn[p]
            /\ q # p => InWalk(q) /\ job'[q] = job[q]
      <3> SUFFICES ASSUME NEW q \in Procs, InWalk(q)'
                   PROVE  runsOn[q] = runsOn[p] /\ (q # p => InWalk(q) /\ job'[q] = job[q])
        OBVIOUS
      <3>1. job'[q] \in Walks /\ ~job'[q].lost
        BY DEF InWalk
      <3>2. job'[q].at = js[q].at
        BY <2>2, <2>3, OutlivedType
      <3>3. js[q] \in Walks
        <4>1. js[q] \in Jobs /\ js[q].at \in {"claimed", "scanned"}
          BY <2>3, <3>1, <3>2 DEF Walks
        <4> QED
          BY <4>1, JobKinds
      <3>4. runsOn[q] = runsOn[p]
        BY <2>2, <2>3, <3>1, <3>3, OutlivedType
      <3>5. job'[q] = js[q]
        BY <2>2, <2>3, <3>4, OutlivedType
      <3> QED
        BY <2>3, <3>1, <3>4, <3>5 DEF InWalk
    <2>6. lock' # NoLock /\ lock'.holder = runsOn[p] /\ last' = runsOn[p]
          /\ (mark' = NoMark => mark = NoMark /\ Previous = runsOn[p])
      BY <2>2, AcquiresType
    <2>7. HolderIsLast' /\ WalksHold'
      BY <2>2, <2>5, <2>6 DEF HolderIsLast, WalksHold, world
    <2>8. \A q \in Procs : Disk(q)' = Disk(q) /\ Disk(q) \in Disks
      BY <2>2, DiskType DEF Disk, world
    <2>9. RowsAreItsOwn'
      <3> SUFFICES ASSUME NEW q \in Procs, NEW f \in Files, InWalk(q)', row[f] # None
                   PROVE  row[f] = job'[q].snap[f] \/ f \in had'[Disk(q)]
        BY <2>2, <2>8 DEF RowsAreItsOwn
      <3>1. CASE q = p
        BY <2>1, <2>4, <3>1
      <3>2. CASE q # p
        BY <1>0, <2>2, <2>5, <2>8, <3>2 DEF Whole, WalksKnowRows, RowsAreItsOwn, HadKeeps
      <3> QED
        BY <3>1, <3>2
    <2>10. FoundWasHad'
      <3> SUFFICES ASSUME NEW q \in Procs, NEW f \in Files, InWalk(q)', row[f] # None,
                          job'[q].at = "scanned", job'[q].found[f] # None
                   PROVE  f \in had'[Disk(q)]
        BY <2>2, <2>8 DEF FoundWasHad
      <3>1. q # p
        BY <2>1, <2>4
      <3> QED
        BY <1>0, <2>2, <2>5, <2>8, <3>1 DEF Whole, WalksKnowRows, FoundWasHad, HadKeeps
    <2>11. UnmarkedIsWhole'
      <3>1. mark' = NoMark => mark = NoMark /\ last = runsOn[p] /\ last # None
        BY <2>6, DiskType, HostAssumption DEF Previous, Whole, HolderIsLast
      <3>2. last' = last => home'[last'] = home[last] /\ (last # None => home[last] \in Disks)
        BY <2>2 DEF world, TypeOK
      <3> QED
        BY <1>0, <2>2, <2>6, <3>1, <3>2 DEF Whole, UnmarkedIsWhole, HadKeeps
    <2> QED
      BY <2>7, <2>9, <2>10, <2>11 DEF Whole, WalksKnowRows
  <1>7. ASSUME NEW p \in Procs, WalkScans(p) PROVE Whole'
    <2> DEFINE x == [job[p] EXCEPT !.at = "scanned", !.found = disk[Disk(p)]]
    <2>1. job[p] \in Walks /\ Disk(p) \in Disks /\ disk[Disk(p)] \in Contents
      BY <1>0, <1>7, JobKinds, DiskType DEF WalkScans, TypeOK
    <2>2. x \in Walks /\ x.snap = job[p].snap /\ x.found = disk[Disk(p)] /\ x.lost = job[p].lost
      <3>1. x \in Walks /\ x.snap = job[p].snap
        BY <2>1 DEF Walks
      <3>2. x.found = disk[Disk(p)] /\ x.lost = job[p].lost
        BY <2>1 DEF Walks
      <3> QED
        BY <3>1, <3>2
    <2>3. job' = [job EXCEPT ![p] = x]
          /\ UNCHANGED <<world, disk, row, had, lock, last, mark>>
      BY <1>7 DEF WalkScans, files, locks
    <2> HIDE DEF x
    <2>4. \A q \in Procs : job'[q] = IF q = p THEN x ELSE job[q]
      BY <1>0, <2>3
    <2>5. \A q \in Procs : InWalk(q)' => InWalk(q) /\ job'[q].snap = job[q].snap
      BY <2>1, <2>2, <2>4 DEF InWalk
    <2>6. \A q \in Procs : Disk(q)' = Disk(q)
      BY <2>3 DEF Disk, world
    <2>7. HolderIsLast' /\ WalksHold' /\ RowsAreItsOwn'
      BY <2>3, <2>5, <2>6 DEF Whole, WalksKnowRows, HolderIsLast, WalksHold, RowsAreItsOwn, world
    <2>8. FoundWasHad'
      <3> SUFFICES ASSUME NEW q \in Procs, NEW f \in Files, InWalk(q)', row[f] # None,
                          job'[q].at = "scanned", job'[q].found[f] # None
                   PROVE  f \in had[Disk(q)]
        BY <2>3, <2>6 DEF FoundWasHad
      <3>1. CASE q = p
        BY <2>1, <2>2, <2>4, <3>1 DEF FilesAreHad
      <3>2. CASE q # p
        BY <2>4, <2>5, <3>2 DEF Whole, WalksKnowRows, FoundWasHad
      <3> QED
        BY <3>1, <3>2
    <2>9. UnmarkedIsWhole'
      BY <2>3 DEF Whole, UnmarkedIsWhole, world
    <2> QED
      BY <2>7, <2>8, <2>9 DEF Whole, WalksKnowRows
  <1>8. ASSUME NEW p \in Procs, WalkFails(p) \/ NotApplied(p) PROVE Whole'
    <2>1. job' = [job EXCEPT ![p] = Ended(p)] /\ UNCHANGED <<world, row, lock, last, mark>>
      BY <1>8 DEF WalkFails, NotApplied, files, locks
    <2>2. HolderStays /\ WalksStay
      BY <1>a, <1>d, <2>1, JobEnds
    <2> QED
      BY <1>0, <2>1, <2>2, NoRowKeeps
  <1>9. ASSUME NEW p \in Procs, WalkSkips(p) PROVE Whole'
    BY <1>0, <1>9, <1>c, <1>d, NoRowKeeps DEF WalkSkips, files, locks
  <1>10. ASSUME NEW i \in Insts, NEW f \in Files, TargetedSync(i, f) PROVE Whole'
    <2>1. /\ job' = Outlived(job, i) /\ UNCHANGED world /\ Acquires(i) /\ i \in Procs
          /\ row' = [row EXCEPT ![f] = disk[Disk(i)][f]] /\ had' = Had(row')
      BY <1>0, <1>10 DEF TargetedSync
    <2>2. WalksStay /\ \A q \in Procs : InWalk(q)' => runsOn[q] = runsOn[i]
      BY <1>0, <2>1, OutlivedWalks
    <2>3. RowsOf(Disk(i))
      <3>1. \A g \in Files : row'[g] \in {None, row[g], disk[Disk(i)][g]}
        BY <2>1 DEF TypeOK, Contents
      <3> QED
        BY <2>1, <3>1, DiskType, RowsFromDisk
    <2> QED
      BY <1>0, <2>1, <2>2, <2>3, ClaimKeeps
  <1>11. ASSUME NEW i \in Insts, NEW f \in Files, NEW t \in Texts, WriteGated(i, f, t)
         PROVE  Whole'
    <2>1. Writing(f, t) \notin Walks
      BY DEF Writing, Walks
    <2>2. HolderStays /\ WalksStay
      BY <1>0, <1>d, <1>11, <2>1, JobEnds DEF WriteGated, locks
    <2> QED
      BY <1>0, <1>11, <2>2, NoRowKeeps DEF WriteGated, files, locks
  <1>12. ASSUME NEW i \in Insts, NEW f \in Files, NEW t \in Texts, WriteClaims(i, f, t)
         PROVE  Whole'
    <2> DEFINE j == [job EXCEPT ![i] = Writing(f, t)]
    <2>1. Writing(f, t) \in Jobs /\ Writing(f, t) \notin Walks
      <3>1. Writing(f, t) \in Writes
        BY DEF Writing, Writes
      <3> QED
        BY <3>1 DEF Jobs, Writing, Walks
    <2>2. j \in [Procs -> Jobs] /\ \A q \in Procs : j[q] = IF q = i THEN Writing(f, t) ELSE job[q]
      BY <1>0, <2>1
    <2>3. job' = Outlived(j, i) /\ UNCHANGED <<world, row>> /\ Acquires(i) /\ i \in Procs
      BY <1>0, <1>12 DEF WriteClaims, files
    <2> HIDE DEF j
    <2>4. WalksStay /\ \A q \in Procs : InWalk(q)' => runsOn[q] = runsOn[i]
      BY <2>1, <2>2, <2>3, OutlivedWalks
    <2> QED
      BY <1>0, <2>3, <2>4, ClaimKeeps DEF RowsOf
  <1>13. ASSUME NEW i \in Insts, WriteFile(i) PROVE Whole'
    <2>1. job[i] \in Writes /\ i \in Procs
      BY <1>0, <1>13, JobKinds DEF WriteFile
    <2> DEFINE x == [job[i] EXCEPT !.at = "written", !.before = disk[Disk(i)][job[i].file]]
    <2>2. x \notin Walks
      BY <2>1 DEF Writes, Walks
    <2>3. job' = [job EXCEPT ![i] = x] /\ UNCHANGED <<world, row, lock, last, mark>>
      BY <1>13 DEF WriteFile, locks
    <2> HIDE DEF x
    <2>4. HolderStays /\ WalksStay
      BY <1>d, <2>1, <2>2, <2>3, JobEnds
    <2> QED
      BY <1>0, <2>3, <2>4, NoRowKeeps
  <1>14. ASSUME NEW i \in Insts, WriteRefused(i) PROVE Whole'
    <2>1. job' = [job EXCEPT ![i] = Idle] /\ UNCHANGED <<world, row, lock, last, mark>>
      BY <1>14 DEF WriteRefused, locks
    <2>2. HolderStays /\ WalksStay
      BY <1>0, <1>a, <1>d, <2>1, JobEnds
    <2> QED
      BY <1>0, <2>1, <2>2, NoRowKeeps
  <1>15. ASSUME NEW d \in Disks, NEW f \in Files, NEW t \in Texts \cup {None}, ByHand(d, f, t)
         PROVE  Whole'
    BY <1>0, <1>15, <1>c, <1>d, NoRowKeeps DEF ByHand, locks
  <1> QED
    BY <1>0, <1>1, <1>2, <1>3, <1>4, <1>5, <1>6, <1>7, <1>8, <1>9, <1>10, <1>11, <1>12, <1>13,
       <1>14, <1>15, LandsKeeps, AppliesKeeps DEF Next

-----------------------------------------------------------------------------
IInv == TypeOK /\ Fenced

LEMMA InitHolds == Init => IInv /\ Leased /\ Whole
  <1> SUFFICES ASSUME Init PROVE IInv /\ Leased /\ Whole
    OBVIOUS
  <1>0. MaxClaims \in Nat /\ MaxWrites \in Nat /\ MaxByHand \in Nat
    BY HostAssumption
  <1>1. job \in [Procs -> Jobs] /\ \A p \in Procs : job[p] = Idle
    BY DEF Init, Jobs
  <1>2. TypeOK
    <2>1. WorldType /\ OwnType
      <3>1. NoLease \in [token : 0..MaxClaims, over : 0..MaxClaims]
        BY <1>0 DEF NoLease
      <3> QED
        BY <3>1 DEF Init, WorldType, OwnType
    <2>2. FilesType
      BY DEF Init, FilesType, Contents, Blank
    <2>3. LocksType /\ CountsType
      BY <1>0 DEF Init, LocksType, CountsType
    <2> QED
      BY <1>1, <2>1, <2>2, <2>3, TypeParts
  <1>3. Fenced
    <2>1. \A p \in Procs : ~Writer(p)
      BY <1>1 DEF Writer, Idle
    <2>2. FilesAreHad /\ LandedStays
      BY DEF Init, FilesAreHad, LandedStays
    <2> QED
      BY <2>1, <2>2 DEF Fenced, OneWriter, PutsBackWhatLanded
  <1>4. Leased
    <2>1. \A p \in Procs : lease[p] = NoLease /\ lease[p].token = 0 /\ lease[p].over = 0 /\ ~hosted[p]
      BY DEF Init, NoLease
    <2>2. Insts \subseteq Procs /\ Cmds \subseteq Procs /\ claims = 0 /\ lock = NoLock
      BY DEF Init, Procs
    <2>3. World /\ TokensAreClaims /\ LeasesDiffer
      BY <2>1, <2>2 DEF Init, World, TokensAreClaims, LeasesDiffer
    <2> QED
      BY <2>1, <2>2, <2>3 DEF Leased, EndedHaveNone, HandedBack
  <1>5. Whole
    <2>1. \A p \in Procs : ~InWalk(p)
      BY <1>1 DEF InWalk, Idle, Walks
    <2>2. HolderIsLast /\ UnmarkedIsWhole
      BY DEF Init, HolderIsLast, UnmarkedIsWhole
    <2> QED
      BY <2>1, <2>2 DEF Whole, WalksKnowRows, WalksHold, RowsAreItsOwn, FoundWasHad
  <1> QED
    BY <1>2, <1>3, <1>4, <1>5 DEF IInv

LEMMA Stutters ==
    ASSUME UNCHANGED vars
    PROVE  (IInv => IInv') /\ (Leased => Leased') /\ (Whole => Whole')
  <1>1. TypeOK => TypeOK'
    BY DEF vars, TypeOK
  <1>2. Fenced => Fenced'
    BY DEF vars, Fenced, FilesAreHad, OneWriter, PutsBackWhatLanded, LandedStays, Writer, Disk
  <1>3. Leased => Leased'
    <2>1. World /\ TokensAreClaims /\ LeasesDiffer /\ EndedHaveNone =>
            (World /\ TokensAreClaims /\ LeasesDiffer /\ EndedHaveNone)'
      BY DEF vars, World, TokensAreClaims, LeasesDiffer, EndedHaveNone
    <2>2. HandedBack => HandedBack'
      BY DEF vars, HandedBack, Holds, CanRelease
    <2> QED
      BY <2>1, <2>2 DEF Leased
  <1>4. Whole => Whole'
    <2>1. HolderIsLast /\ WalksHold => (HolderIsLast /\ WalksHold)'
      BY DEF vars, HolderIsLast, WalksHold, InWalk
    <2>2. RowsAreItsOwn /\ FoundWasHad => (RowsAreItsOwn /\ FoundWasHad)'
      BY DEF vars, RowsAreItsOwn, FoundWasHad, InWalk, Disk
    <2>3. UnmarkedIsWhole => UnmarkedIsWhole'
      BY DEF vars, UnmarkedIsWhole
    <2> QED
      BY <2>1, <2>2, <2>3 DEF Whole, WalksKnowRows
  <1> QED
    BY <1>1, <1>2, <1>3, <1>4 DEF IInv

-----------------------------------------------------------------------------
\* Every state of the host lock, its moves and the writes behind its fence has
\* its type; one write at a time has a file, and knows what to put back there.
THEOREM HostInvariant == Spec => []IInv
  <1>1. IInv /\ [Next]_vars => IInv'
    BY TypeStep, FencedStep, Stutters DEF IInv
  <1> QED
    BY <1>1, InitHolds, PTL DEF Spec

\* Locks, marks, leases and jobs are what hosting.rs, sync.rs and fence.rs keep.
THEOREM HostTypeTheorem == Spec => []TypeOK
  <1>1. IInv => TypeOK
    BY DEF IInv
  <1> QED
    BY <1>1, HostInvariant, PTL

\* A write that the fence refused leaves no file changed that somebody wrote
\* since (put_back compares before it writes).
THEOREM LandedTheorem == Spec => []LandedStays
  <1>1. IInv => LandedStays
    BY DEF IInv, Fenced
  <1> QED
    BY <1>1, HostInvariant, PTL

\* With one command at a time, a daemon that hosts the domain can give the lock
\* back when it stops (claim_domain_host, give_back).
THEOREM ReleaseTheorem == ASSUME OneCommand PROVE Spec => []ReleaseFrees
  <1>1. IInv /\ Leased /\ [Next]_vars => (IInv /\ Leased)'
    BY TypeStep, FencedStep, LeasedStep, Stutters DEF IInv
  <1>2. Leased => ReleaseFrees
    BY DEF Leased, HandedBack, CanRelease, ReleaseFrees
  <1> QED
    BY <1>1, <1>2, InitHolds, PTL DEF Spec

\* When no walk outlives a loss of the lock that its instance regained: without
\* a marked move every row is of a file the last host's disk has or had
\* (claim_and_mark, sync_walk, the fence of its apply).
THEOREM WholeTheorem == ASSUME ~Raced PROVE Spec => []UnmarkedIsWhole
  <1>1. IInv /\ Whole /\ [Next]_vars => (IInv /\ Whole)'
    BY TypeStep, FencedStep, WholeStep, Stutters DEF IInv, Fenced
  <1>2. Whole => UnmarkedIsWhole
    BY DEF Whole
  <1> QED
    BY <1>1, <1>2, InitHolds, PTL DEF Spec
===============================================================================
