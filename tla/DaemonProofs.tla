------------------------------ MODULE DaemonProofs ------------------------------
(***************************************************************************)
(* The daemon: the service lock it holds (InstanceLock), and the webhook's *)
(* slot that its task keeps (TriggerSlot).  The two share nothing.         *)
(*                                                                         *)
(* The service lock has one owner at most, whatever the processes, however *)
(* the lock file is removed and created again, and wherever they die.      *)
(***************************************************************************)
EXTENDS InstanceLock, TriggerSlot, FiniteSetTheorems, TLAPS

\* The steps of a process that holds a lock.
Locking == {"locked", "holds", "bound", "serving", "cleaning", "unrecorded",
            "unsocketed", "unnamed"}

\* A lock is held by the process that has its file open ...
LocksAreHeld ==
    \A f \in Files : lock[f] # Nobody => fd[lock[f]] = f /\ pc[lock[f]] \in Locking

\* ... and who is past its TryLock holds the lock of what it has open.
HoldersLock ==
    \A p \in Procs : pc[p] \in Locking => fd[p] \in Files /\ lock[fd[p]] = p

OpenHasFile == \A p \in Procs : pc[p] = "opened" => fd[p] \in Files

IInv == TypeOK /\ LocksAreHeld /\ HoldersLock /\ OpenHasFile /\ OwnersFileIsNamed

LEMMA OneAtMost == ASSUME IInv PROVE OneOwner
  BY DEF IInv, OneOwner, OwnersFileIsNamed

LEMMA InitInv == Init => IInv
  <1> SUFFICES ASSUME Init PROVE IInv
    OBVIOUS
  <1> USE DEF Init, Owning, Locking
  <1>1. TypeOK
    BY DEF TypeOK, Rest, Steps
  <1>2. LocksAreHeld /\ HoldersLock
    BY DEF LocksAreHeld, HoldersLock
  <1>3. OpenHasFile /\ OwnersFileIsNamed
    BY DEF OpenHasFile, OwnersFileIsNamed
  <1> QED
    BY <1>1, <1>2, <1>3 DEF IInv

\* A process ends, by itself, killed or signalled.
LEMMA EndsKeepsInv ==
    ASSUME IInv, NEW p \in Procs, Ends(p), p # Nobody,
           pick' \in [Clients ->
             [at : {"rest", "termed", "killed", "saw", "tidied", "free"},
              pid : Daemons \cup {Nobody}]]
    PROVE  IInv'
  <1> USE DEF IInv, Ends
  <1>1. TypeOK'
    BY DEF TypeOK, Steps
  <1>2. LocksAreHeld'
    <2> SUFFICES ASSUME NEW f \in Files, lock'[f] # Nobody
                 PROVE  fd'[lock'[f]] = f /\ pc'[lock'[f]] \in Locking
      BY DEF LocksAreHeld
    <2>1. lock'[f] = lock[f] /\ lock[f] # p /\ lock[f] \in Procs
      BY DEF TypeOK
    <2> QED
      BY <2>1 DEF LocksAreHeld, TypeOK
  <1>3. HoldersLock'
    <2> SUFFICES ASSUME NEW q \in Procs, pc'[q] \in Locking
                 PROVE  fd'[q] \in Files /\ lock'[fd'[q]] = q
      BY DEF HoldersLock
    <2>1. q # p /\ pc[q] \in Locking /\ fd'[q] = fd[q]
      BY DEF TypeOK, Locking
    <2> QED
      BY <2>1 DEF HoldersLock, TypeOK
  <1>4. OpenHasFile'
    BY DEF OpenHasFile, TypeOK
  <1>5. OwnersFileIsNamed'
    <2> SUFFICES ASSUME NEW q \in Procs, Owning(q)'
                 PROVE  path' = fd'[q] /\ lock'[path'] = q
      BY DEF OwnersFileIsNamed
    <2>1. q # p /\ Owning(q) /\ fd'[q] = fd[q]
      BY DEF TypeOK, Owning
    <2>2. fd[q] \in Files
      BY <2>1 DEF HoldersLock, Owning, Locking
    <2> QED
      BY <2>1, <2>2 DEF OwnersFileIsNamed, TypeOK
  <1> QED
    BY <1>1, <1>2, <1>3, <1>4, <1>5

\* A step that leaves the lock and who has what open, and moves no process in
\* or out of the steps of an owner, keeps the invariant with its types.
LEMMA QuietKeepsInv ==
    ASSUME IInv, TypeOK', UNCHANGED files,
           \A p \in Procs : pc'[p] = pc[p] \/ (Owning(p) /\ Owning(p)')
    PROVE  IInv'
  <1>1. LocksAreHeld'
    <2> SUFFICES ASSUME NEW f \in Files, lock'[f] # Nobody
                 PROVE  fd'[lock'[f]] = f /\ pc'[lock'[f]] \in Locking
      BY DEF LocksAreHeld
    <2>1. lock[f] \in Procs /\ fd[lock[f]] = f /\ pc[lock[f]] \in Locking
      BY DEF IInv, LocksAreHeld, TypeOK, files
    <2> QED
      BY <2>1 DEF files, Owning, Locking
  <1>2. HoldersLock'
    BY DEF IInv, HoldersLock, files, Owning, Locking
  <1>3. OpenHasFile'
    BY DEF IInv, OpenHasFile, files, Owning
  <1>4. OwnersFileIsNamed'
    BY DEF IInv, OwnersFileIsNamed, files, Owning
  <1> QED
    BY <1>1, <1>2, <1>3, <1>4 DEF IInv

LEMMA OpenKeepsInv ==
    ASSUME IInv, NEW p \in Procs, Open(p) PROVE IInv'
  <1> USE DEF Open
  <1>1. PICK f \in Files : /\ IF path = Nobody THEN f \in Unused ELSE f = path
                           /\ path' = f /\ fd' = [fd EXCEPT ![p] = f]
    OBVIOUS
  <1>2. TypeOK'
    BY <1>1 DEF IInv, TypeOK, Steps
  <1>3. LocksAreHeld'
    <2> SUFFICES ASSUME NEW g \in Files, lock'[g] # Nobody
                 PROVE  fd'[lock'[g]] = g /\ pc'[lock'[g]] \in Locking
      BY DEF LocksAreHeld
    <2>1. lock[g] \in Procs /\ fd[lock[g]] = g /\ pc[lock[g]] \in Locking
      BY DEF IInv, LocksAreHeld, TypeOK
    <2>2. lock[g] # p
      BY <2>1 DEF Locking
    <2> QED
      BY <1>1, <2>1, <2>2 DEF IInv, TypeOK
  <1>4. HoldersLock'
    BY <1>1 DEF IInv, TypeOK, HoldersLock, Locking
  <1>5. OpenHasFile'
    BY <1>1 DEF IInv, TypeOK, OpenHasFile
  <1>6. OwnersFileIsNamed'
    <2> SUFFICES ASSUME NEW q \in Procs, Owning(q)'
                 PROVE  path' = fd'[q] /\ lock'[path'] = q
      BY DEF OwnersFileIsNamed
    <2>1. q # p /\ Owning(q) /\ fd'[q] = fd[q]
      BY <1>1 DEF IInv, TypeOK, Owning
    <2>2. fd[q] \in Files /\ path = fd[q] /\ lock[path] = q
      BY <2>1 DEF IInv, HoldersLock, OwnersFileIsNamed, Owning, Locking
    <2>3. path # Nobody
      BY <2>2, LockAssumption
    <2> QED
      BY <1>1, <2>1, <2>2, <2>3
  <1> QED
    BY <1>2, <1>3, <1>4, <1>5, <1>6 DEF IInv

LEMMA TryLockKeepsInv ==
    ASSUME IInv, NEW p \in Procs, TryLock(p) PROVE IInv'
  <1> USE DEF TryLock
  <1>0. fd[p] \in Files /\ p # Nobody
    BY LockAssumption DEF IInv, OpenHasFile
  <1>1. TypeOK'
    BY <1>0 DEF IInv, TypeOK, Steps
  <1>2. LocksAreHeld'
    <2> SUFFICES ASSUME NEW g \in Files, lock'[g] # Nobody
                 PROVE  fd'[lock'[g]] = g /\ pc'[lock'[g]] \in Locking
      BY DEF LocksAreHeld
    <2>1. CASE g = fd[p]
      BY <2>1, <1>0 DEF IInv, TypeOK, Locking
    <2>2. CASE g # fd[p]
      <3>1. lock'[g] = lock[g]
        BY <2>2 DEF IInv, TypeOK
      <3>2. lock[g] \in Procs /\ fd[lock[g]] = g /\ pc[lock[g]] \in Locking
        BY <3>1 DEF IInv, TypeOK, LocksAreHeld
      <3>3. lock[g] # p
        BY <3>2 DEF Locking
      <3> QED
        BY <3>1, <3>2, <3>3 DEF IInv, TypeOK
    <2> QED
      BY <2>1, <2>2
  <1>3. HoldersLock'
    <2> SUFFICES ASSUME NEW q \in Procs, pc'[q] \in Locking
                 PROVE  fd'[q] \in Files /\ lock'[fd'[q]] = q
      BY DEF HoldersLock
    <2>1. CASE q = p
      BY <2>1, <1>0 DEF IInv, TypeOK
    <2>2. CASE q # p
      <3>1. pc[q] \in Locking /\ fd[q] \in Files /\ lock[fd[q]] = q
        BY <2>2 DEF IInv, TypeOK, HoldersLock
      <3>2. fd[q] # fd[p] /\ q # Nobody
        BY <3>1, LockAssumption
      <3> QED
        BY <3>1, <3>2 DEF IInv, TypeOK
    <2> QED
      BY <2>1, <2>2
  <1>4. OpenHasFile'
    BY DEF IInv, TypeOK, OpenHasFile
  <1>5. OwnersFileIsNamed'
    <2> SUFFICES ASSUME NEW q \in Procs, Owning(q)'
                 PROVE  path' = fd'[q] /\ lock'[path'] = q
      BY DEF OwnersFileIsNamed
    <2>1. q # p /\ Owning(q)
      BY DEF IInv, TypeOK, Owning
    <2>2. path = fd[q] /\ lock[path] = q /\ fd[q] \in Files
      BY <2>1 DEF IInv, OwnersFileIsNamed, HoldersLock, Owning, Locking
    <2>3. path # fd[p]
      BY <2>2, LockAssumption
    <2> QED
      BY <2>2, <2>3 DEF IInv, TypeOK
  <1> QED
    BY <1>1, <1>2, <1>3, <1>4, <1>5 DEF IInv

LEMMA LockHeldKeepsInv ==
    ASSUME IInv, NEW p \in Procs, LockHeld(p) PROVE IInv'
  <1> USE DEF LockHeld
  <1>0. PICK at \in {"idle", "gone"} : pc' = [pc EXCEPT ![p] = at]
    OBVIOUS
  <1>1. TypeOK'
    BY <1>0 DEF IInv, TypeOK, Steps
  <1>2. LocksAreHeld'
    <2> SUFFICES ASSUME NEW g \in Files, lock'[g] # Nobody
                 PROVE  fd'[lock'[g]] = g /\ pc'[lock'[g]] \in Locking
      BY DEF LocksAreHeld
    <2>1. lock[g] \in Procs /\ fd[lock[g]] = g /\ pc[lock[g]] \in Locking
      BY DEF IInv, LocksAreHeld, TypeOK
    <2>2. lock[g] # p
      BY <2>1 DEF Locking
    <2> QED
      BY <1>0, <2>1, <2>2 DEF IInv, TypeOK
  <1>3. HoldersLock' /\ OpenHasFile'
    BY <1>0 DEF IInv, TypeOK, HoldersLock, OpenHasFile, Locking
  <1>4. OwnersFileIsNamed'
    BY <1>0 DEF IInv, TypeOK, OwnersFileIsNamed, Owning
  <1> QED
    BY <1>1, <1>2, <1>3, <1>4 DEF IInv

LEMMA CheckKeepsInv ==
    ASSUME IInv, NEW p \in Procs, Check(p) PROVE IInv'
  <1> USE DEF Check
  <1>0. fd[p] \in Files /\ lock[fd[p]] = p
    BY DEF IInv, HoldersLock, Locking
  <1>1. TypeOK'
    BY DEF IInv, TypeOK, Steps, files
  <1>2. LocksAreHeld'
    BY DEF IInv, TypeOK, LocksAreHeld, Locking, files
  <1>3. HoldersLock'
    BY <1>0 DEF IInv, TypeOK, HoldersLock, Locking, files
  <1>4. OpenHasFile'
    BY DEF IInv, TypeOK, OpenHasFile, files
  <1>5. OwnersFileIsNamed'
    BY <1>0 DEF IInv, TypeOK, OwnersFileIsNamed, Owning, Current, files
  <1> QED
    BY <1>1, <1>2, <1>3, <1>4, <1>5 DEF IInv

LEMMA CheckFailsKeepsInv ==
    ASSUME IInv, NEW p \in Procs, CheckFails(p) PROVE IInv'
  <1> USE DEF CheckFails
  <1>0. fd[p] \in Files /\ lock[fd[p]] = p
    BY DEF IInv, HoldersLock, Locking
  <1>1. TypeOK'
    BY <1>0 DEF IInv, TypeOK, Steps
  <1>2. LocksAreHeld'
    <2> SUFFICES ASSUME NEW g \in Files, lock'[g] # Nobody
                 PROVE  fd'[lock'[g]] = g /\ pc'[lock'[g]] \in Locking
      BY DEF LocksAreHeld
    <2>1. g # fd[p] /\ lock'[g] = lock[g]
      BY <1>0 DEF IInv, TypeOK
    <2>2. lock[g] \in Procs /\ fd[lock[g]] = g /\ pc[lock[g]] \in Locking
      BY <2>1 DEF IInv, LocksAreHeld, TypeOK
    <2>3. lock[g] # p
      BY <2>1, <2>2
    <2> QED
      BY <2>1, <2>2, <2>3 DEF IInv, TypeOK
  <1>3. HoldersLock'
    <2> SUFFICES ASSUME NEW q \in Procs, pc'[q] \in Locking
                 PROVE  fd'[q] \in Files /\ lock'[fd'[q]] = q
      BY DEF HoldersLock
    <2>1. q # p /\ pc[q] \in Locking
      BY DEF IInv, TypeOK, Locking
    <2>2. fd[q] \in Files /\ lock[fd[q]] = q
      BY <2>1 DEF IInv, HoldersLock
    <2>3. fd[q] # fd[p]
      BY <2>1, <2>2, <1>0
    <2> QED
      BY <2>1, <2>2, <2>3 DEF IInv, TypeOK
  <1>4. OpenHasFile'
    BY DEF IInv, TypeOK, OpenHasFile
  <1>5. OwnersFileIsNamed'
    <2> SUFFICES ASSUME NEW q \in Procs, Owning(q)'
                 PROVE  path' = fd'[q] /\ lock'[path'] = q
      BY DEF OwnersFileIsNamed
    <2>1. q # p /\ Owning(q)
      BY DEF IInv, TypeOK, Owning
    <2>2. path = fd[q] /\ lock[path] = q /\ fd[q] \in Files
      BY <2>1 DEF IInv, OwnersFileIsNamed, HoldersLock, Owning, Locking
    <2>3. path # fd[p]
      BY <2>1, <2>2, <1>0
    <2> QED
      BY <2>1, <2>2, <2>3 DEF IInv, TypeOK
  <1> QED
    BY <1>1, <1>2, <1>3, <1>4, <1>5 DEF IInv

\* The lock file is removed while it is locked: nobody else owns the index.
LEMMA UnnameKeepsInv ==
    ASSUME IInv, NEW p \in Procs, Unname(p) PROVE IInv'
  <1> USE DEF Unname
  <1>0. Owning(p)
    BY DEF Owning
  <1>1. TypeOK'
    BY DEF IInv, TypeOK, Steps
  <1>2. LocksAreHeld'
    BY DEF IInv, TypeOK, LocksAreHeld, Locking
  <1>3. HoldersLock'
    BY DEF IInv, TypeOK, HoldersLock, Locking
  <1>4. OpenHasFile'
    BY DEF IInv, TypeOK, OpenHasFile
  <1>5. \A q \in Procs : ~Owning(q)'
    BY <1>0, OneAtMost DEF IInv, TypeOK, OneOwner, Owning
  <1>6. OwnersFileIsNamed'
    BY <1>5 DEF OwnersFileIsNamed
  <1> QED
    BY <1>1, <1>2, <1>3, <1>4, <1>6 DEF IInv

LEMMA StepInv == IInv /\ [Next]_vars => IInv'
  <1> SUFFICES ASSUME IInv, [Next]_vars PROVE IInv'
    OBVIOUS
  <1>d. Daemons \subseteq Procs /\ Doctors \subseteq Procs /\ Nobody \notin Procs
    BY LockAssumption DEF Procs
  <1>1. CASE UNCHANGED vars
    <2>1. TypeOK'
      BY <1>1 DEF IInv, TypeOK, vars, files
    <2> QED
      BY <1>1, <2>1, QuietKeepsInv DEF vars, files
  <1>2. CASE \E p \in Procs : Open(p)
    BY <1>2, OpenKeepsInv
  <1>3. CASE \E p \in Procs : TryLock(p)
    BY <1>3, TryLockKeepsInv
  <1>4. CASE \E p \in Daemons : Bind(p) \/ Publish(p)
    <2> PICK p \in Daemons : Bind(p) \/ Publish(p)
      BY <1>4
    <2>1. TypeOK'
      BY <1>d DEF IInv, TypeOK, Bind, Publish, Steps, files
    <2>2. UNCHANGED files /\ \A q \in Procs : pc'[q] = pc[q] \/ (Owning(q) /\ Owning(q)')
      BY <1>d DEF IInv, TypeOK, Bind, Publish, Owning
    <2> QED
      BY <2>1, <2>2, QuietKeepsInv
  <1>5. CASE \E p \in Daemons : Hangs(p)
    <2>1. TypeOK'
      BY <1>5 DEF IInv, TypeOK, Hangs, files
    <2> QED
      BY <1>5, <2>1, QuietKeepsInv DEF Hangs
  <1>6. CASE \E p \in Procs : LockHeld(p)
    BY <1>6, LockHeldKeepsInv
  <1>7. CASE \E p \in Procs : Check(p)
    BY <1>7, CheckKeepsInv
  <1>8. CASE \E p \in Procs : CheckFails(p)
    BY <1>8, CheckFailsKeepsInv
  <1>9. CASE \E p \in Procs : Unrecord(p) \/ Unsocket(p)
    <2> PICK p \in Procs : Unrecord(p) \/ Unsocket(p)
      BY <1>9
    <2>1. TypeOK'
      BY DEF IInv, TypeOK, Unrecord, Unsocket, Steps, files
    <2>2. UNCHANGED files /\ \A q \in Procs : pc'[q] = pc[q] \/ (Owning(q) /\ Owning(q)')
      BY DEF IInv, TypeOK, Unrecord, Unsocket, Owning
    <2> QED
      BY <2>1, <2>2, QuietKeepsInv
  <1>10. CASE \E p \in Procs : Unname(p)
    BY <1>10, UnnameKeepsInv
  <1>11. CASE \E p \in Procs : Unlock(p) \/ Dies(p)
    BY <1>11, <1>d, EndsKeepsInv DEF Unlock, Dies, IInv, TypeOK
  <1>12. CASE \E c \in Clients : Kill(c)
    <2> PICK c \in Clients : Kill(c)
      BY <1>12
    <2>1. pick[c].pid \in Procs /\ pick[c].pid # Nobody
      BY <1>d DEF Kill, Alive, IInv, TypeOK
    <2> QED
      BY <2>1, EndsKeepsInv DEF Kill, IInv, TypeOK
  <1>13. CASE \E c \in Clients : Dislodge(c) \/ SeesRecord(c) \/ CleansRecord(c)
                                 \/ SeesFree(c) \/ CleansSocket(c)
    <2> PICK c \in Clients : Dislodge(c) \/ SeesRecord(c) \/ CleansRecord(c)
                             \/ SeesFree(c) \/ CleansSocket(c)
      BY <1>13
    <2> USE DEF Dislodge, SeesRecord, CleansRecord, SeesFree, CleansSocket
    <2>1. UNCHANGED <<files, pc, hung>>
      OBVIOUS
    <2>2. TypeOK'
      BY <2>1 DEF IInv, TypeOK, Rest, files
    <2> QED
      BY <2>1, <2>2, QuietKeepsInv
  <1> QED
    BY <1>1, <1>2, <1>3, <1>4, <1>5, <1>6, <1>7, <1>8, <1>9, <1>10, <1>11, <1>12,
       <1>13, <1>d DEF Next, DoctorOpen

THEOREM Invariance == Spec => []IInv
  BY InitInv, StepInv, PTL DEF Spec

\* The values of every variable stay what TypeOK says.
THEOREM TypeCorrect == Spec => []TypeOK
  <1>1. IInv => TypeOK
    BY DEF IInv
  <1> QED
    BY <1>1, Invariance, PTL

\* At most one process owns the index.
THEOREM MutualExclusion == Spec => []OneOwner
  <1>1. IInv => OneOwner
    BY OneAtMost
  <1> QED
    BY <1>1, Invariance, PTL

\* An owner's lock file is the one at the path, so it never removes another's.
THEOREM OwnFile == Spec => []OwnersFileIsNamed
  <1>1. IInv => OwnersFileIsNamed
    BY DEF IInv
  <1> QED
    BY <1>1, Invariance, PTL

-----------------------------------------------------------------------------
(***************************************************************************)
(* A serving daemon is found. No owner takes another one's files, since    *)
(* there is one; what a client removes after its look is nobody's while no *)
(* daemon takes over in between (~Raced).                                  *)
(***************************************************************************)
\* A bound socket is the daemon's, and while a client is about to remove the
\* record nobody serves, the socket file nobody has bound it.
Found ==
    /\ ServingIsFound
    /\ \A p \in Daemons : pc[p] = "bound" => socket = p
    /\ \A c \in Clients, p \in Daemons :
         /\ pick[c].at = "saw" => pc[p] # "serving"
         /\ pick[c].at = "free" => pc[p] \notin {"bound", "serving"}

\* Who is bound or serves owns the index, so its lock is not free.
LEMMA BoundOwns ==
    ASSUME IInv, NEW p \in Daemons, pc[p] \in {"bound", "serving"}
    PROVE  Owning(p) /\ ~Free
  <1>1. Owning(p) /\ p \in Procs /\ p # Nobody
    BY LockAssumption DEF Owning, Procs
  <1>2. path = fd[p] /\ lock[path] = p /\ fd[p] \in Files
    BY <1>1 DEF IInv, OwnersFileIsNamed, HoldersLock, Owning, Locking
  <1> QED
    BY <1>1, <1>2, LockAssumption DEF Free

\* A step that leaves the files a daemon is found by, and in which nobody
\* binds or publishes and no client takes a look, disturbs nobody.
LEMMA FoundStands ==
    ASSUME Found, UNCHANGED <<record, socket>>,
           \A p \in Daemons : pc'[p] \in {"bound", "serving"} => pc'[p] = pc[p],
           \A c \in Clients : pick'[c].at \in {"saw", "free"} => pick'[c].at = pick[c].at
    PROVE  Found'
  BY DEF Found, ServingIsFound

\* An owner that leaves takes its own files: nobody else is bound or serves.
LEMMA LeavingKeepsFound ==
    ASSUME Found, IInv, NEW p \in Procs, Unrecord(p) \/ Unsocket(p) PROVE Found'
  <1>1. Owning(p) /\ pc' \in [Procs -> Steps] /\ pc'[p] \notin {"bound", "serving"}
        /\ \A q \in Procs \ {p} : pc'[q] = pc[q]
    BY DEF Unrecord, Unsocket, Owning, IInv, TypeOK, Steps
  <1>2. \A q \in Daemons : pc'[q] \notin {"bound", "serving"}
    BY <1>1, BoundOwns, OneAtMost DEF OneOwner, Procs
  <1>3. pick' = pick
    BY DEF Unrecord, Unsocket
  <1> QED
    BY <1>2, <1>3 DEF Found, ServingIsFound

\* A daemon binds or publishes while no client is between a look and its removal.
LEMMA TakingKeepsFound ==
    ASSUME Found, IInv, ~Raced, NEW p \in Daemons, Quiet, Bind(p) \/ Publish(p)
    PROVE  Found'
  <1>1. /\ p \in Procs /\ Owning(p) /\ pick' = pick
        /\ \A q \in Procs \ {p} : pc'[q] = pc[q]
    BY DEF Bind, Publish, Owning, Procs, IInv, TypeOK
  <1>2. \A q \in Daemons \ {p} : pc'[q] \notin {"bound", "serving"}
    BY <1>1, BoundOwns, OneAtMost DEF OneOwner, Procs
  <1>3. \A c \in Clients : pick'[c].at \notin {"saw", "free"}
    BY <1>1 DEF Quiet
  <1>4. socket' = p /\ (pc'[p] = "serving" => record' = p)
    BY <1>1 DEF Bind, Publish, Found, IInv, TypeOK
  <1> QED
    BY <1>2, <1>3, <1>4 DEF Found, ServingIsFound

\* A client's look: the record names one that is gone, or the lock is free.
LEMMA LookKeepsFound ==
    ASSUME Found, IInv, NEW c \in Clients, SeesRecord(c) \/ SeesFree(c) PROVE Found'
  <1>1. UNCHANGED <<pc, record, socket>> /\ pick' \in [Clients ->
             [at : {"rest", "termed", "killed", "saw", "tidied", "free"},
              pid : Daemons \cup {Nobody}]]
    BY DEF SeesRecord, SeesFree, IInv, TypeOK, Rest
  <1>2. \A d \in Clients \ {c} : pick'[d] = pick[d]
    BY DEF SeesRecord, SeesFree, IInv, TypeOK
  <1>3. ASSUME NEW p \in Daemons, pick'[c].at = "saw" PROVE pc[p] # "serving"
    <2> SUFFICES ASSUME pc[p] = "serving" PROVE FALSE
      OBVIOUS
    <2>1. record = p /\ ~Free /\ p # Nobody
      BY BoundOwns, LockAssumption DEF Found, ServingIsFound, Procs
    <2>2. CASE SeesRecord(c)
      <3>1. record = pick[c].pid
        BY <1>3, <2>2 DEF SeesRecord, IInv, TypeOK
      <3> QED
        BY <2>1, <2>2, <3>1 DEF SeesRecord, Released, Alive
    <2>3. CASE SeesFree(c)
      BY <1>3, <2>3 DEF SeesFree, IInv, TypeOK, Rest
    <2> QED
      BY <2>2, <2>3
  <1>4. ASSUME NEW p \in Daemons, pick'[c].at = "free" PROVE pc[p] \notin {"bound", "serving"}
    <2>1. SeesFree(c) /\ Free
      BY <1>4 DEF SeesRecord, SeesFree, IInv, TypeOK, Rest
    <2> QED
      BY <2>1, BoundOwns
  <1>5. \A d \in Clients, p \in Daemons :
          /\ pick'[d].at = "saw" => pc'[p] # "serving"
          /\ pick'[d].at = "free" => pc'[p] \notin {"bound", "serving"}
    <2> TAKE d \in Clients, p \in Daemons
    <2>1. CASE d = c
      BY <2>1, <1>1, <1>3, <1>4
    <2>2. CASE d # c
      BY <2>2, <1>1, <1>2 DEF Found
    <2> QED
      BY <2>1, <2>2
  <1> QED
    BY <1>1, <1>5 DEF Found, ServingIsFound

\* What a client removes, nobody is found by.
LEMMA CleaningKeepsFound ==
    ASSUME Found, IInv, NEW c \in Clients, CleansRecord(c) \/ CleansSocket(c) PROVE Found'
  <1>1. pc' = pc /\ \A d \in Clients :
          pick'[d].at \in {"saw", "free"} => pick'[d].at = pick[d].at
    BY DEF CleansRecord, CleansSocket, IInv, TypeOK, Rest
  <1>2. CASE CleansRecord(c)
    <2>1. socket' = socket /\ \A p \in Daemons : pc[p] # "serving"
      BY <1>2 DEF CleansRecord, Found
    <2> QED
      BY <1>1, <2>1 DEF Found, ServingIsFound
  <1>3. CASE CleansSocket(c)
    <2>1. \A p \in Daemons : pc[p] \notin {"bound", "serving"}
      BY <1>3 DEF CleansSocket, Found
    <2> QED
      BY <1>1, <2>1 DEF Found, ServingIsFound
  <1> QED
    BY <1>2, <1>3

LEMMA StepFound ==
    ASSUME ~Raced, Found, IInv, [Next]_vars PROVE Found'
  <1>d. Daemons \subseteq Procs /\ Doctors \subseteq Procs
    BY DEF Procs
  <1>1. CASE UNCHANGED vars
    BY <1>1, FoundStands DEF vars
  <1>2. CASE \E p \in Procs : Open(p) \/ TryLock(p) \/ LockHeld(p) \/ Check(p)
                              \/ CheckFails(p) \/ Unname(p)
    <2> PICK p \in Procs : Open(p) \/ TryLock(p) \/ LockHeld(p) \/ Check(p)
                           \/ CheckFails(p) \/ Unname(p)
      BY <1>2
    <2>1. UNCHANGED <<record, socket, pick>>
          /\ \A q \in Daemons : pc'[q] \in {"bound", "serving"} => pc'[q] = pc[q]
      BY <1>d DEF Open, TryLock, LockHeld, Check, CheckFails, Unname, IInv, TypeOK
    <2> QED
      BY <2>1, FoundStands
  <1>3. CASE \E p \in Daemons : Quiet /\ (Bind(p) \/ Publish(p))
    BY <1>3, TakingKeepsFound
  <1>4. CASE \E p \in Daemons : Hangs(p)
    BY <1>4, FoundStands DEF Hangs
  <1>5. CASE \E p \in Procs : Unrecord(p) \/ Unsocket(p)
    BY <1>5, LeavingKeepsFound
  <1>6. CASE \E p \in Procs : Ends(p) /\ \A c \in Clients :
               pick'[c].at \in {"saw", "free"} => pick'[c].at = pick[c].at
    <2> PICK p \in Procs : Ends(p) /\ \A c \in Clients :
               pick'[c].at \in {"saw", "free"} => pick'[c].at = pick[c].at
      BY <1>6
    <2>1. UNCHANGED <<record, socket>>
          /\ \A q \in Daemons : pc'[q] \in {"bound", "serving"} => pc'[q] = pc[q]
      BY <1>d DEF Ends, IInv, TypeOK
    <2> QED
      BY <2>1, FoundStands
  <1>7. CASE \E p \in Procs : Unlock(p) \/ Dies(p)
    BY <1>7, <1>6 DEF Unlock, Dies
  <1>8. CASE \E c \in Clients : Dislodge(c) \/ Kill(c)
    <2> PICK c \in Clients : Dislodge(c) \/ Kill(c)
      BY <1>8
    <2>1. \A d \in Clients :
            pick'[d].at \in {"saw", "free"} => pick'[d].at = pick[d].at
      BY DEF Dislodge, Kill, IInv, TypeOK
    <2>2. CASE Kill(c)
      <3>1. pick[c].pid \in Procs
        BY <1>d, <2>2 DEF Kill, Alive, IInv, TypeOK
      <3> QED
        BY <2>1, <2>2, <3>1, <1>6 DEF Kill
    <2>3. CASE Dislodge(c)
      BY <2>1, <2>3, FoundStands DEF Dislodge
    <2> QED
      BY <2>2, <2>3
  <1>9. CASE \E c \in Clients : SeesRecord(c) \/ SeesFree(c)
    BY <1>9, LookKeepsFound
  <1>10. CASE \E c \in Clients : CleansRecord(c) \/ CleansSocket(c)
    BY <1>10, CleaningKeepsFound
  <1> QED
    BY <1>1, <1>2, <1>3, <1>4, <1>5, <1>7, <1>8, <1>9, <1>10, <1>d DEF Next, DoctorOpen

\* A daemon that serves is found by its record and its socket, while no daemon
\* takes over between a client's look and its removal.
THEOREM FoundTheorem == ASSUME ~Raced PROVE Spec => []ServingIsFound
  <1>1. Init => Found
    BY DEF Init, Found, ServingIsFound, Procs, Rest
  <1>2. IInv /\ Found /\ [Next]_vars => Found'
    BY StepFound
  <1>3. Found => ServingIsFound
    BY DEF Found
  <1> QED
    BY <1>1, <1>2, <1>3, Invariance, PTL DEF Spec

-----------------------------------------------------------------------------
LEMMA OwnerIs ==
    ASSUME OneOwner, NEW p \in Procs, Owning(p) PROVE Owner = p
  BY DEF OneOwner, Owner

LEMMA NoOwner ==
    ASSUME \A p \in Procs : ~Owning(p) PROVE Owner = Nobody
  BY DEF Owner

\* Every step acquires for a process when nobody owns, releases, or keeps.
LEMMA StepPromise ==
    ASSUME IInv, IInv', [Next]_vars PROVE [Promise!Next]_Owner
  <1>1. OneOwner /\ OneOwner'
    BY OneAtMost, PTL
  <1>d. Daemons \subseteq Procs /\ Doctors \subseteq Procs /\ Nobody \notin Procs
    BY LockAssumption DEF Procs
  <1>2. CASE \A p \in Procs : Owning(p)' <=> Owning(p)
    <2>1. CASE \E p \in Procs : Owning(p)
      <3> PICK p \in Procs : Owning(p)
        BY <2>1
      <3>1. Owner = p
        BY <1>1, OwnerIs
      <3>2. Owner' = p
        BY <1>1, <1>2 DEF OneOwner, Owner
      <3> QED
        BY <3>1, <3>2
    <2>2. CASE \A p \in Procs : ~Owning(p)
      <3>1. Owner = Nobody /\ Owner' = Nobody
        BY <2>2, <1>2 DEF Owner
      <3> QED
        BY <3>1
    <2> QED
      BY <2>1, <2>2
  <1>3. CASE \E p \in Procs : Check(p)
    <2> PICK p \in Procs : Check(p)
      BY <1>3
    <2>1. \A q \in Procs : ~Owning(q)
      BY DEF Check, Current, Owning, IInv, HoldersLock, OwnersFileIsNamed, Locking
    <2>2. Owning(p)'
      BY DEF Check, Owning, IInv, TypeOK
    <2>3. Owner = Nobody
      BY <2>1, NoOwner
    <2>4. Owner' = p
      BY <2>2, <1>1 DEF OneOwner, Owner
    <2> QED
      BY <2>3, <2>4 DEF Promise!Next, Promise!Acquire
  <1>4. CASE \E p \in Procs : /\ Owning(p) /\ ~Owning(p)'
                              /\ \A q \in Procs \ {p} : Owning(q)' => Owning(q)
    <2> PICK p \in Procs : /\ Owning(p) /\ ~Owning(p)'
                           /\ \A q \in Procs \ {p} : Owning(q)' => Owning(q)
      BY <1>4
    <2>1. Owner = p /\ p # Nobody
      BY <1>1, <1>d, OwnerIs
    <2>2. \A q \in Procs : ~Owning(q)'
      BY <1>1 DEF OneOwner
    <2>3. Owner' = Nobody
      BY <2>2 DEF Owner
    <2> QED
      BY <2>1, <2>3 DEF Promise!Next, Promise!Release
  <1>5. CASE \E p \in Procs : Ends(p)
    <2> PICK p \in Procs : Ends(p)
      BY <1>5
    <2>1. ~Owning(p)' /\ \A q \in Procs \ {p} : Owning(q)' <=> Owning(q)
      BY DEF Ends, Owning, IInv, TypeOK
    <2> QED
      BY <2>1, <1>2, <1>4
  <1>6. CASE \E p \in Procs : Unname(p)
    <2> PICK p \in Procs : Unname(p)
      BY <1>6
    <2>1. Owning(p) /\ ~Owning(p)' /\ \A q \in Procs \ {p} : Owning(q)' <=> Owning(q)
      BY DEF Unname, Owning, IInv, TypeOK
    <2> QED
      BY <2>1, <1>4
  <1>7. CASE UNCHANGED vars
    BY <1>7, <1>2 DEF vars, Owning
  <1>8. CASE \E p \in Procs : Open(p) \/ TryLock(p) \/ LockHeld(p) \/ CheckFails(p)
                              \/ Unrecord(p) \/ Unsocket(p)
    <2> PICK p \in Procs : Open(p) \/ TryLock(p) \/ LockHeld(p) \/ CheckFails(p)
                           \/ Unrecord(p) \/ Unsocket(p)
      BY <1>8
    <2>1. \A q \in Procs : Owning(q)' <=> Owning(q)
      BY DEF Open, TryLock, LockHeld, CheckFails, Unrecord, Unsocket, Owning, IInv,
             TypeOK
    <2> QED
      BY <2>1, <1>2
  <1>9. CASE \E p \in Daemons : Bind(p) \/ Publish(p) \/ Hangs(p)
    <2>1. \A q \in Procs : Owning(q)' <=> Owning(q)
      BY <1>9, <1>d DEF Bind, Publish, Hangs, Owning, IInv, TypeOK
    <2> QED
      BY <2>1, <1>2
  <1>10. CASE \E c \in Clients : Dislodge(c) \/ SeesRecord(c) \/ CleansRecord(c)
                                 \/ SeesFree(c) \/ CleansSocket(c)
    <2>1. \A q \in Procs : Owning(q)' <=> Owning(q)
      BY <1>10 DEF Dislodge, SeesRecord, CleansRecord, SeesFree, CleansSocket, Owning
    <2> QED
      BY <2>1, <1>2
  <1>11. CASE \E c \in Clients : Kill(c)
    <2> PICK c \in Clients : Kill(c)
      BY <1>11
    <2>1. pick[c].pid \in Procs
      BY <1>d DEF Kill, Alive, IInv, TypeOK
    <2> QED
      BY <2>1, <1>5 DEF Kill
  <1> QED
    BY <1>3, <1>5, <1>6, <1>7, <1>8, <1>9, <1>10, <1>11, <1>d
    DEF Next, DoctorOpen, Unlock, Dies

\* The lock files, with their removal and their clean-up, implement a lock.
THEOREM KeepsPromise == Spec => Exclusive
  <1>1. Init => Promise!Init
    BY DEF Init, Promise!Init, Owner, Owning
  <1>2. IInv /\ IInv' /\ [Next]_vars => [Promise!Next]_Owner
    BY StepPromise
  <1> QED
    BY <1>1, <1>2, Invariance, PTL DEF Spec, Exclusive, Promise!Spec
-----------------------------------------------------------------------------
(***************************************************************************)
(* The webhook's slot, for any counts, thresholds, tries and faults: it    *)
(* knows of its delivery, keeps to the cap, and keeps what it owes.  The   *)
(* argument: a delivery in the air is the slot's own, and the slot has it  *)
(* in its memory until the rate limit is over; only turning the trigger    *)
(* off in between makes the slot forget.                                   *)
(***************************************************************************)
\* A delivery that started within the last RATE_LIMIT is in the slot's memory,
\* unless the trigger was read as off in between.
CapIsKnown == recent /\ ~cut => slot # NoSlot /\ slot.recent

\* A slot's delivery is the one in the air.
OneDelivery ==
    ~cut =>
    /\ \A f, g \in InTheAir : f = g
    /\ InTheAir # {} <=> (slot # NoSlot /\ Slot.inFlight)

SlotInv == TriggerTypeOK /\ CapIsKnown /\ OneDelivery

-----------------------------------------------------------------------------
Delivery == [try : 0..Attempts, end : Outcomes]
SlotTypes == slot \in Slots \cup {NoSlot} /\ flight \in [Flights -> Delivery]
OtherTypes ==
    /\ known \in BOOLEAN /\ trigger \in BOOLEAN /\ people \in BOOLEAN
    /\ lease \in BOOLEAN /\ backoff \in BOOLEAN /\ recent \in BOOLEAN /\ owed \in BOOLEAN
    /\ event \in {"none", "threads", "sources", "lag"}
    /\ count \in 0..MaxCount[loop]
    /\ loop \in Loops /\ cut \in BOOLEAN
    /\ faults \in 0..MaxFaults /\ odd \in 0..MaxFaults

LEMMA SlotTypeParts == TriggerTypeOK <=> SlotTypes /\ OtherTypes
  BY DEF TriggerTypeOK, SlotTypes, OtherTypes, Delivery

LEMMA SlotTypePartsNext == TriggerTypeOK' <=> SlotTypes' /\ OtherTypes'
  BY DEF TriggerTypeOK, SlotTypes, OtherTypes, Delivery

\* A slot that is none has no field of a slot.
LEMMA SlotType ==
    ASSUME TriggerTypeOK
    PROVE  /\ Fresh \in Slots /\ NoSlot \notin Slots /\ Slot \in Slots
           /\ NoFlight \in Delivery
           /\ slot # NoSlot => slot \in Slots /\ Slot = slot
  <1>1. MaxCount[loop] \in Nat /\ Attempts \in Nat
    BY TriggerAssumption DEF TriggerTypeOK
  <1>2. Fresh \in Slots
    BY <1>1 DEF Fresh, Slots, NotSeen
  <1>3. NoSlot \notin Slots
    <2> SUFFICES ASSUME NoSlot \in Slots PROVE FALSE
      OBVIOUS
    <2>1. DOMAIN NoSlot = {"none"}
      BY DEF NoSlot
    <2>2. "armed" \in DOMAIN NoSlot
      BY DEF Slots
    <2> QED
      BY <2>1, <2>2
  <1>4. NoFlight \in Delivery
    BY <1>1 DEF NoFlight, Delivery, Outcomes
  <1> QED
    BY <1>2, <1>3, <1>4 DEF TriggerTypeOK, Slot

\* What a look at s leaves, and when it may leave no slot.
LEMMA LookTypes ==
    ASSUME TriggerTypeOK, NEW s \in Slots, NEW release \in BOOLEAN, Look(s, release),
           UNCHANGED <<loop, count>>
    PROVE  SlotTypes' /\ odd' \in 0..MaxFaults /\ cut' \in BOOLEAN /\ recent' \in BOOLEAN
  <1> DEFINE urgent == release \/ s.urgent
  <1>1. urgent \in BOOLEAN /\ s.urgent \in BOOLEAN
    BY DEF Slots
  <1>2. Counted(s) \in Slots /\ UNCHANGED Slots
    <2>1. count \in NotSeen..MaxCount[loop]
      BY TriggerAssumption DEF TriggerTypeOK, NotSeen
    <2> QED
      BY <2>1 DEF Counted, Slots
  <1>3. \A t \in Slots : Armed(t) \in Slots
    BY DEF Armed, Slots
  <1> HIDE DEF urgent
  <1>4. CASE LookOff
    BY <1>4, SlotTypeParts DEF LookOff, SlotTypes, OtherTypes
  <1>5. CASE LookFails(s)
    BY <1>2, <1>5, SlotTypeParts, TriggerAssumption DEF LookFails, Odd, SlotTypes, OtherTypes
  <1>6. CASE LookBacksOff(s, urgent)
    <2>1. [Armed(s) EXCEPT !.urgent = urgent] \in Slots
      BY <1>1, <1>3 DEF Slots
    <2> QED
      BY <1>2, <1>6, <2>1, SlotTypeParts
         DEF LookBacksOff, Read, Quietly, SlotTypes, OtherTypes
  <1>7. CASE LookRuns(s)
    <2>1. [s EXCEPT !.afterLease = TRUE] \in Slots
      BY DEF Slots
    <2> QED
      BY <1>2, <1>7, <2>1, SlotTypeParts DEF LookRuns, Read, Quietly, SlotTypes, OtherTypes
  <1>8. CASE Read /\ LookNothingDue(s)
    <2>1. [Counted(s) EXCEPT !.urgent = FALSE] \in Slots
      BY <1>2 DEF Slots
    <2> QED
      BY <1>2, <1>8, <2>1, SlotTypeParts
         DEF LookNothingDue, Read, Quietly, SlotTypes, OtherTypes
  <1>9. CASE Read /\ LookNotYet(s, urgent)
    BY <1>2, <1>3, <1>9, SlotTypeParts DEF LookNotYet, Read, Quietly, SlotTypes, OtherTypes
  <1>10. CASE Read /\ LookHolds(s, urgent)
    <2>1. [Armed(Counted(s)) EXCEPT !.urgent = TRUE] \in Slots
      BY <1>2, <1>3 DEF Slots
    <2> QED
      BY <1>2, <1>10, <2>1, SlotTypeParts DEF LookHolds, Read, Quietly, SlotTypes, OtherTypes
  <1>11. ASSUME NEW f \in Flights, Read, LookSends(s, urgent, f)
         PROVE  SlotTypes' /\ odd' \in 0..MaxFaults /\ cut' \in BOOLEAN /\ recent' \in BOOLEAN
    <2>1. [Counted(s) EXCEPT !.urgent = FALSE, !.recent = TRUE, !.inFlight = TRUE] \in Slots
      BY <1>2 DEF Slots
    <2>2. [try |-> 1, end |-> "none"] \in Delivery
      BY TriggerAssumption DEF Delivery, Outcomes
    <2> QED
      BY <1>2, <1>11, <2>1, <2>2, SlotTypeParts DEF LookSends, Read, SlotTypes, OtherTypes
  <1> QED
    BY <1>4, <1>5, <1>6, <1>7, <1>8, <1>9, <1>10, <1>11 DEF Look, urgent

\* What a look does to the memory of its slot, and to the delivery.
Forgets ==
    /\ slot' = NoSlot /\ cut' = (cut \/ recent \/ InTheAir # {})
    /\ UNCHANGED <<flight, recent>>
Remembers(s) ==
    /\ UNCHANGED <<flight, recent, cut>>
    /\ \/ slot = NoSlot /\ slot' = NoSlot
       \/ slot' \in Slots /\ slot'.recent = s.recent /\ slot'.inFlight = s.inFlight
Sends(s) ==
    /\ ~s.recent /\ ~s.inFlight
    /\ slot' \in Slots /\ slot'.recent /\ slot'.inFlight
    /\ recent' = TRUE /\ cut' = cut
    /\ \E f \in Flights, d \in Delivery :
         d # NoFlight /\ flight[f] = NoFlight /\ flight' = [flight EXCEPT ![f] = d]

LEMMA LookEffects ==
    ASSUME TriggerTypeOK, NEW s \in Slots, NEW release \in BOOLEAN, Look(s, release)
    PROVE  Forgets \/ Remembers(s) \/ Sends(s)
  <1> DEFINE urgent == release \/ s.urgent
  <1>1. urgent \in BOOLEAN
    BY DEF Slots
  <1>2. Counted(s) \in Slots /\ Counted(s).recent = s.recent /\ Counted(s).inFlight = s.inFlight
    <2>1. count \in NotSeen..MaxCount[loop]
      BY TriggerAssumption DEF TriggerTypeOK, NotSeen
    <2> QED
      BY <2>1 DEF Counted, Slots
  <1>3. \A t \in Slots : /\ Armed(t) \in Slots
                         /\ Armed(t).recent = t.recent /\ Armed(t).inFlight = t.inFlight
    BY DEF Armed, Slots
  <1> HIDE DEF urgent
  <1>4. CASE LookOff
    BY <1>4 DEF LookOff, Forgets
  <1>5. CASE LookFails(s)
    BY <1>5 DEF LookFails, Remembers
  <1>6. CASE LookBacksOff(s, urgent)
    BY <1>1, <1>3, <1>6 DEF LookBacksOff, Read, Quietly, Remembers, Slots
  <1>7. CASE LookRuns(s)
    BY <1>7 DEF LookRuns, Read, Quietly, Remembers, Slots
  <1>8. CASE Read /\ LookNothingDue(s)
    BY <1>2, <1>8 DEF LookNothingDue, Read, Quietly, Remembers, Slots
  <1>9. CASE Read /\ LookNotYet(s, urgent)
    BY <1>2, <1>3, <1>9 DEF LookNotYet, Read, Quietly, Remembers
  <1>10. CASE Read /\ LookHolds(s, urgent)
    <2>1. Armed(Counted(s)) \in Slots /\ Armed(Counted(s)).recent = s.recent
          /\ Armed(Counted(s)).inFlight = s.inFlight
      BY <1>2, <1>3
    <2> QED
      BY <1>10, <2>1 DEF LookHolds, Read, Quietly, Remembers, Slots
  <1>11. ASSUME NEW f \in Flights, Read, LookSends(s, urgent, f) PROVE Sends(s)
    <2>1. slot' \in Slots /\ slot'.recent /\ slot'.inFlight
      BY <1>2, <1>11 DEF LookSends, Slots
    <2>2. [try |-> 1, end |-> "none"] \in Delivery /\ [try |-> 1, end |-> "none"] # NoFlight
      BY TriggerAssumption DEF Delivery, Outcomes, NoFlight
    <2> QED
      BY <1>11, <2>1, <2>2 DEF LookSends, Read, Held, Sends
  <1> QED
    BY <1>4, <1>5, <1>6, <1>7, <1>8, <1>9, <1>10, <1>11 DEF Look, urgent

\* The wakeups that look, and at which slot.
Wakes == ReleaseTick \/ EvolveTick \/ DueLook

LEMMA WakesLook ==
    ASSUME TriggerTypeOK, Wakes
    PROVE  /\ UNCHANGED <<loop, trigger, people, count, lease, backoff, event, faults, owed>>
           /\ known' \in BOOLEAN
           /\ \E s \in Slots, release \in BOOLEAN :
                /\ Look(s, release)
                /\ s.recent = Slot.recent /\ s.inFlight = Slot.inFlight
                /\ s.urgent = Slot.urgent
  <1>1. UNCHANGED <<loop, trigger, people, count, lease, backoff, event, faults, owed>>
        /\ known' \in BOOLEAN
    BY SlotTypeParts DEF Wakes, ReleaseTick, EvolveTick, DueLook, work, OtherTypes
  <1>2. CASE ReleaseTick
    <2>1. slot \in Slots /\ Slot = slot
      BY <1>2, SlotType DEF ReleaseTick, Slot, Fresh
    <2>2. [slot EXCEPT !.afterLease = FALSE] \in Slots
      BY <2>1 DEF Slots
    <2> QED
      BY <1>1, <1>2, <2>1, <2>2 DEF ReleaseTick, Slots
  <1>3. CASE EvolveTick
    BY <1>1, <1>3, SlotType DEF EvolveTick
  <1>4. CASE DueLook
    <2>1. slot \in Slots /\ Slot = slot
      BY <1>4, SlotType DEF DueLook
    <2>2. [slot EXCEPT !.armed = FALSE] \in Slots
      BY <2>1 DEF Slots
    <2> QED
      BY <1>1, <1>4, <2>1, <2>2 DEF DueLook, Slots
  <1> QED
    BY <1>2, <1>3, <1>4 DEF Wakes

-----------------------------------------------------------------------------
\* The task's other wakeups and the clock change one slot, which keeps what it
\* remembers of its delivery.
Touches ==
    OnChange \/ OnLag \/ LeaseTick \/ WaitEnds \/ QuietEnds
Retouched(t) ==
    t \in Slots /\ t.recent = Slot.recent /\ t.inFlight = Slot.inFlight /\ t.urgent = Slot.urgent

LEMMA TouchEffects ==
    ASSUME TriggerTypeOK, Touches
    PROVE  /\ slot' = slot \/ Retouched(slot')
           /\ UNCHANGED <<loop, cut, flight, work, bounds, recent, owed>>
           /\ known' \in BOOLEAN /\ event' \in {"none", event}
  <1>1. \A t \in Slots : /\ Retouched(t) => Retouched(Armed(t))
                         /\ Retouched(t) => Retouched([t EXCEPT !.quiet = FALSE])
                         /\ Retouched(t) => Retouched([t EXCEPT !.quiet = TRUE])
                         /\ Retouched(t) => Retouched([t EXCEPT !.waits = FALSE])
                         /\ Retouched(t) => Retouched([t EXCEPT !.afterLease = TRUE])
    BY DEF Armed, Retouched, Slots
  <1>2. Retouched(Slot) /\ (slot # NoSlot => Slot = slot) /\ (slot = NoSlot => Slot = Fresh)
    BY SlotType DEF Retouched, Slot
  <1>3. Slot \in Slots /\ Armed(Slot) \in Slots
    BY SlotType DEF Armed, Slots
  <1>4. CASE OnChange
    BY <1>1, <1>2, <1>3, <1>4, SlotTypeParts DEF OnChange, OtherTypes
  <1>5. CASE OnLag
    BY <1>1, <1>2, <1>3, <1>5, SlotTypeParts DEF OnLag, OtherTypes
  <1>6. CASE LeaseTick
    BY <1>1, <1>2, <1>3, <1>6, SlotTypeParts DEF LeaseTick, OtherTypes
  <1>7. CASE WaitEnds
    BY <1>1, <1>2, <1>3, <1>7, SlotTypeParts DEF WaitEnds, OtherTypes
  <1>8. CASE QuietEnds
    BY <1>1, <1>2, <1>3, <1>8, SlotTypeParts DEF QuietEnds, OtherTypes
  <1> QED
    BY <1>4, <1>5, <1>6, <1>7, <1>8 DEF Touches

\* A try of a delivery leaves it in the air.
Tries == \E f \in Flights : PostTaken(f) \/ PostFails(f) \/ RetryYields(f) \/ Breaks(f)

LEMMA TryEffects ==
    ASSUME TriggerTypeOK, Tries
    PROVE  /\ flight' \in [Flights -> Delivery] /\ InTheAir' = InTheAir
           /\ UNCHANGED <<loop, cut, slot, known, work, event, odd, recent>>
           /\ owed' \in BOOLEAN /\ faults' \in 0..MaxFaults
  <1> PICK f \in Flights : PostTaken(f) \/ PostFails(f) \/ RetryYields(f) \/ Breaks(f)
    BY DEF Tries
  <1>1. flight \in [Flights -> Delivery] /\ flight[f] \in Delivery
    BY DEF TriggerTypeOK, Delivery
  <1>2. flight[f].try > 0 /\ flight[f].end = "none"
    BY DEF PostTaken, PostFails, RetryYields, Breaks, MayPost, Posting
  <1>3. /\ owed' \in BOOLEAN /\ faults' \in 0..MaxFaults
        /\ UNCHANGED <<loop, cut, slot, known, work, event, odd, recent>>
    <2>1. faults \in 0..MaxFaults /\ odd \in 0..MaxFaults /\ owed \in BOOLEAN
      BY SlotTypeParts DEF OtherTypes
    <2>2. CASE PostTaken(f) \/ RetryYields(f)
      BY <2>1, <2>2 DEF PostTaken, RetryYields, bounds
    <2>3. CASE PostFails(f) \/ Breaks(f)
      BY <2>1, <2>3, TriggerAssumption DEF PostFails, Breaks
    <2> QED
      BY <2>2, <2>3
  <1>4. PICK d : d \in Delivery /\ d.try > 0 /\ flight' = [flight EXCEPT ![f] = d]
    <2>1. CASE PostTaken(f) \/ RetryYields(f) \/ Breaks(f)
      <3>1. \A e \in Outcomes : LET d == [flight[f] EXCEPT !.end = e] IN
              d \in Delivery /\ d.try > 0
        BY <1>1, <1>2 DEF Delivery
      <3>2. {"sent", "failed", "lease"} \subseteq Outcomes
        BY DEF Outcomes
      <3> QED
        BY <2>1, <3>1, <3>2 DEF PostTaken, RetryYields, Breaks
    <2>2. CASE PostFails(f)
      <3>1. Retried(flight[f]) \in Delivery /\ Retried(flight[f]).try > 0
        BY <1>1, <1>2, TriggerAssumption DEF Retried, Delivery, Outcomes
      <3>2. flight' = [flight EXCEPT ![f] = Retried(flight[f])]
        BY <2>2 DEF PostFails
      <3> QED
        BY <3>1, <3>2
    <2> QED
      BY <2>1, <2>2
  <1>5. flight[f] # NoFlight /\ d # NoFlight
    BY <1>2, <1>4 DEF NoFlight
  <1>6. InTheAir' = InTheAir
    BY <1>1, <1>4, <1>5 DEF InTheAir
  <1> QED
    BY <1>1, <1>3, <1>4, <1>6

LEMMA DeliveredEffects ==
    ASSUME TriggerTypeOK, NEW f \in Flights, Delivered(f)
    PROVE  /\ flight' \in [Flights -> Delivery] /\ f \in InTheAir /\ InTheAir' = InTheAir \ {f}
           /\ slot' \in Slots /\ ~slot'.inFlight /\ slot'.recent = Slot.recent
           /\ Slot.urgent => slot'.urgent
           /\ UNCHANGED <<loop, cut, known, work, event, bounds, recent, owed>>
  <1>1. flight \in [Flights -> Delivery] /\ flight[f] \in Delivery /\ NoFlight \in Delivery
    BY SlotType DEF TriggerTypeOK, Delivery
  <1>2. f \in InTheAir
    BY <1>1 DEF Delivered, InTheAir, NoFlight
  <1>3. flight' \in [Flights -> Delivery] /\ InTheAir' = InTheAir \ {f}
    BY <1>1 DEF Delivered, InTheAir
  <1>4. slot' = Settled(flight[f].end) /\ flight[f].end \in {"sent", "failed", "lease"}
    BY <1>1 DEF Delivered, Delivery, Outcomes
  <1>5. Slot \in Slots
    BY SlotType
  <1>6. slot' \in Slots /\ ~slot'.inFlight /\ slot'.recent = Slot.recent
        /\ (Slot.urgent => slot'.urgent)
    BY <1>4, <1>5 DEF Settled, Armed, Slots
  <1> QED
    BY <1>2, <1>3, <1>6 DEF Delivered

LEMMA RateEffects ==
    ASSUME TriggerTypeOK, RateEnds
    PROVE  /\ slot = NoSlot => slot' = slot
           /\ slot # NoSlot => slot' \in Slots /\ slot'.inFlight = slot.inFlight
                               /\ slot'.urgent = slot.urgent
           /\ UNCHANGED <<loop, cut, known, flight, work, event, bounds, owed>>
           /\ recent' = FALSE
  BY SlotType DEF RateEnds, Slots

\* The surroundings leave the slot and its delivery alone.
LEMMA SurroundingsEffects ==
    ASSUME TriggerTypeOK, Surroundings
    PROVE  UNCHANGED <<loop, cut, slot, flight, known, recent>> /\ OtherTypes'
  <1>1. OtherTypes
    BY SlotTypeParts
  <1> USE TriggerAssumption DEF OtherTypes, work, bounds
  <1>2. CASE PeopleAsk
    BY <1>1, <1>2 DEF PeopleAsk
  <1>3. ASSUME NEW n \in 0..MaxCount[loop], CountMoves(n)
        PROVE  UNCHANGED <<loop, cut, slot, flight, known, recent>> /\ OtherTypes'
    <2>1. Tells(n) \in BOOLEAN
      <3>1. CASE Reflects
        BY <3>1 DEF Tells
      <3>2. CASE ~Reflects
        BY <1>1, <3>2 DEF Tells
      <3> QED
        BY <3>1, <3>2
    <2> QED
      BY <1>1, <1>3, <2>1 DEF CountMoves
  <1>4. CASE RunStarts
    BY <1>1, <1>4 DEF RunStarts
  <1>5. CASE RunEnds
    <2>1. odd' \in 0..MaxFaults
      BY <1>1, <1>5 DEF RunEnds, OddIf, Odd
    <2>2. owed' \in BOOLEAN /\ people' \in BOOLEAN /\ backoff' \in BOOLEAN
          /\ count' \in 0..MaxCount[loop]
      <3>1. (trigger /\ IF Reflects THEN Work ELSE count >= Threshold) \in BOOLEAN
        <4>1. CASE Reflects
          BY <1>1, <4>1 DEF Work
        <4>2. CASE ~Reflects
          BY <1>1, <4>2
        <4> QED
          BY <4>1, <4>2
      <3>2. 0 \in 0..MaxCount[loop]
        BY <1>1
      <3> QED
        BY <1>1, <1>5, <3>1, <3>2 DEF RunEnds
    <2> QED
      BY <1>1, <1>5, <2>1, <2>2 DEF RunEnds
  <1>6. CASE BackoffEnds
    BY <1>1, <1>6 DEF BackoffEnds
  <1>7. CASE Toggle
    <2>1. odd' \in 0..MaxFaults
      BY <1>1, <1>7 DEF Toggle, OddIf, Odd
    <2>2. event' \in {"none", "threads", "sources", "lag"}
      BY <1>1, <1>7 DEF Toggle
    <2>3. trigger' \in BOOLEAN /\ owed' \in BOOLEAN
      BY <1>1, <1>7 DEF Toggle
    <2> QED
      BY <1>1, <1>7, <2>1, <2>2, <2>3 DEF Toggle
  <1>8. CASE Laps
    BY <1>1, <1>8 DEF Laps, OddIf, Odd
  <1> QED
    BY <1>2, <1>3, <1>4, <1>5, <1>6, <1>7, <1>8 DEF Surroundings

-----------------------------------------------------------------------------
LEMMA NextParts ==
    ASSUME TriggerNext
    PROVE  Surroundings \/ RateEnds \/ Touches \/ Wakes \/ Tries \/ Restart
           \/ \E f \in Flights : Delivered(f)
  BY DEF TriggerNext, Touches, Wakes, Tries, Delivers

LEMMA SlotTypeStep == ASSUME TriggerTypeOK, TriggerNext PROVE TriggerTypeOK'
  <1> SUFFICES SlotTypes' /\ OtherTypes'
    BY SlotTypePartsNext
  <1> SlotTypes /\ OtherTypes
    BY SlotTypeParts
  <1> USE DEF SlotTypes
  <1>0. loop' = loop => Slots' = Slots
    BY DEF Slots
  <1>1. CASE Surroundings
    BY <1>0, <1>1, SurroundingsEffects
  <1>2. CASE RateEnds
    BY <1>0, <1>2, RateEffects DEF OtherTypes, work, bounds
  <1>3. CASE Touches
    BY <1>0, <1>3, TouchEffects DEF Retouched, OtherTypes, work, bounds
  <1>4. CASE Wakes
    <2>1. PICK s \in Slots, release \in BOOLEAN : Look(s, release)
      BY <1>4, WakesLook
    <2>2. UNCHANGED <<loop, trigger, people, count, lease, backoff, event, faults, owed>>
          /\ known' \in BOOLEAN
      BY <1>4, WakesLook
    <2>3. SlotTypes' /\ odd' \in 0..MaxFaults /\ cut' \in BOOLEAN /\ recent' \in BOOLEAN
      BY <2>1, <2>2, LookTypes
    <2> QED
      BY <2>2, <2>3 DEF OtherTypes
  <1>5. CASE Tries
    BY <1>0, <1>5, TryEffects DEF OtherTypes, work
  <1>6. CASE Restart
    <2>1. flight' \in [Flights -> Delivery]
      BY <1>6, SlotType DEF Restart
    <2>2. faults' \in 0..MaxFaults
      BY <1>6, TriggerAssumption DEF Restart, OtherTypes
    <2> QED
      BY <1>0, <1>6, <2>1, <2>2 DEF Restart, OtherTypes, work
  <1>7. ASSUME NEW f \in Flights, Delivered(f) PROVE SlotTypes' /\ OtherTypes'
    BY <1>0, <1>7, DeliveredEffects DEF OtherTypes, work, bounds
  <1> QED
    BY <1>1, <1>2, <1>3, <1>4, <1>5, <1>6, <1>7, NextParts

\* What the slot remembers, of a slot or of none.
LEMMA SlotOf ==
    ASSUME TriggerTypeOK
    PROVE  /\ slot = NoSlot => ~Slot.recent /\ ~Slot.inFlight /\ ~Slot.urgent
           /\ \A t \in Slots : t # NoSlot
  BY SlotType DEF Slot, Fresh

LEMMA SlotNext == slot' # NoSlot => Slot' = slot'
  BY DEF Slot, NoSlot

LEMMA CapStep == ASSUME TriggerTypeOK, CapIsKnown, TriggerNext PROVE CapIsKnown'
  <1> USE DEF CapIsKnown
  <1>0. slot # NoSlot => Slot = slot
    BY SlotType
  <1>1. CASE Surroundings
    BY <1>1, SurroundingsEffects
  <1>2. CASE RateEnds
    BY <1>2, RateEffects
  <1>3. CASE Touches
    BY <1>0, <1>3, TouchEffects, SlotOf DEF Retouched
  <1>4. CASE Wakes
    <2>1. PICK s \in Slots, release \in BOOLEAN :
            Look(s, release) /\ s.recent = Slot.recent /\ s.inFlight = Slot.inFlight
      BY <1>4, WakesLook
    <2>2. Forgets \/ Remembers(s) \/ Sends(s)
      BY <2>1, LookEffects
    <2> QED
      BY <1>0, <2>1, <2>2, SlotOf DEF Forgets, Remembers, Sends
  <1>5. CASE Tries
    BY <1>5, TryEffects
  <1>6. CASE Restart
    BY <1>6 DEF Restart
  <1>7. ASSUME NEW f \in Flights, Delivered(f) PROVE CapIsKnown'
    BY <1>0, <1>7, DeliveredEffects, SlotOf
  <1> QED
    BY <1>1, <1>2, <1>3, <1>4, <1>5, <1>6, <1>7, NextParts

LEMMA DeliveryStep == ASSUME TriggerTypeOK, OneDelivery, TriggerNext PROVE OneDelivery'
  <1> USE DEF OneDelivery
  <1>0. /\ slot # NoSlot => Slot = slot
        /\ slot' # NoSlot => Slot' = slot'
        /\ flight' = flight => InTheAir' = InTheAir
    BY SlotType, SlotNext DEF InTheAir
  <1>1. CASE Surroundings
    BY <1>0, <1>1, SurroundingsEffects
  <1>2. CASE RateEnds
    BY <1>0, <1>2, RateEffects, SlotOf
  <1>3. CASE Touches
    BY <1>0, <1>3, TouchEffects, SlotOf DEF Retouched
  <1>4. CASE Wakes
    <2>1. PICK s \in Slots, release \in BOOLEAN :
            Look(s, release) /\ s.recent = Slot.recent /\ s.inFlight = Slot.inFlight
      BY <1>4, WakesLook
    <2>2. CASE Forgets
      BY <1>0, <2>2 DEF Forgets
    <2>3. CASE Remembers(s)
      BY <1>0, <2>1, <2>3, SlotOf DEF Remembers
    <2>4. CASE Sends(s)
      <3>1. ~cut => InTheAir = {}
        BY <1>0, <2>1, <2>4, SlotOf DEF Sends
      <3>2. PICK f \in Flights, d \in Delivery :
              d # NoFlight /\ flight' = [flight EXCEPT ![f] = d]
        BY <2>4 DEF Sends
      <3>3. InTheAir' = InTheAir \cup {f}
        BY <3>2, SlotTypeParts DEF InTheAir, SlotTypes
      <3> QED
        BY <1>0, <2>4, <3>1, <3>3, SlotOf DEF Sends
    <2> QED
      BY <2>1, <2>2, <2>3, <2>4, LookEffects
  <1>5. CASE Tries
    BY <1>0, <1>5, TryEffects
  <1>6. CASE Restart
    BY <1>6 DEF Restart, InTheAir
  <1>7. ASSUME NEW f \in Flights, Delivered(f) PROVE OneDelivery'
    BY <1>0, <1>7, DeliveredEffects, SlotOf
  <1> QED
    BY <1>1, <1>2, <1>3, <1>4, <1>5, <1>6, <1>7, NextParts

LEMMA SlotInitHolds == TriggerInit => SlotInv
  <1> SUFFICES ASSUME TriggerInit PROVE SlotInv
    OBVIOUS
  <1>1. NoFlight \in [try : 0..Attempts, end : Outcomes]
    BY TriggerAssumption DEF NoFlight, Outcomes
  <1>2. MaxCount[loop] \in Nat
    BY TriggerAssumption DEF TriggerInit
  <1>3. TriggerTypeOK
    <2>1. SlotTypes
      BY <1>1 DEF TriggerInit, SlotTypes, Delivery
    <2>2. OtherTypes
      <3>1. count \in 0..MaxCount[loop] /\ faults \in 0..MaxFaults /\ odd \in 0..MaxFaults
        BY <1>2, TriggerAssumption DEF TriggerInit
      <3> QED
        BY <3>1 DEF TriggerInit, OtherTypes
    <2> QED
      BY <2>1, <2>2, SlotTypeParts
  <1>4. CapIsKnown /\ OneDelivery
    BY DEF TriggerInit, CapIsKnown, OneDelivery, InTheAir
  <1> QED
    BY <1>3, <1>4 DEF SlotInv

\* What every state of a slot keeps, by every look, delivery, lag and restart.
THEOREM SlotInvariant == TriggerSpec => []SlotInv
  <1>1. ASSUME SlotInv, [TriggerNext]_triggerVars PROVE SlotInv'
    <2>1. CASE TriggerNext
      BY <1>1, <2>1, SlotTypeStep, CapStep, DeliveryStep DEF SlotInv
    <2>2. CASE UNCHANGED triggerVars
      BY <1>1, <2>2 DEF SlotInv, triggerVars, work, bounds, TriggerTypeOK, CapIsKnown, OneDelivery, Slots,
                        InTheAir, Slot
    <2> QED
      BY <1>1, <2>1, <2>2
  <1> QED
    BY <1>1, SlotInitHolds, PTL DEF TriggerSpec

\* Type correctness of the slot, its deliveries and its surroundings.
THEOREM SlotTypeTheorem == TriggerSpec => []TriggerTypeOK
  <1>1. SlotInv => TriggerTypeOK
    BY DEF SlotInv
  <1> QED
    BY <1>1, SlotInvariant, PTL

\* on_outcome clears the slot's in_flight exactly when its delivery is over:
\* a slot never waits for a delivery that is gone, nor sends beside one.
THEOREM InFlightTheorem == TriggerSpec => []InFlightIsTrue
  <1>1. ASSUME SlotInv PROVE InFlightIsTrue
    <2> SUFFICES ASSUME ~cut PROVE Cardinality(InTheAir) <= 1
      BY <1>1 DEF SlotInv, OneDelivery, InFlightIsTrue
    <2>1. CASE InTheAir = {}
      BY <2>1, FS_EmptySet
    <2>2. CASE InTheAir # {}
      <3>1. PICK f : InTheAir = {f}
        BY <1>1, <2>2 DEF SlotInv, OneDelivery
      <3> QED
        BY <3>1, FS_Singleton
    <2> QED
      BY <2>1, <2>2
  <1> QED
    BY <1>1, SlotInvariant, PTL

\* fire starts no delivery within RATE_LIMIT of the one before, whichever of
\* the ticks, the releases, the failures and the lags asks for it.
THEOREM CapTheorem == TriggerSpec => CapHolds
  <1>1. ASSUME SlotInv, [TriggerNext]_triggerVars PROVE [Starts => ~recent \/ cut]_triggerVars
    <2> SUFFICES ASSUME TriggerNext, Starts PROVE ~recent \/ cut
      BY <1>1
    <2> TriggerTypeOK /\ CapIsKnown
      BY <1>1 DEF SlotInv
    <2>1. PICK g \in Flights : flight[g] = NoFlight /\ flight'[g] # NoFlight
      BY DEF Starts
    <2>2. InTheAir' # InTheAir /\ g \in InTheAir' /\ g \notin InTheAir
      BY <2>1 DEF InTheAir
    <2>3. flight' # flight
      BY <2>1
    <2>4. ~Surroundings /\ ~RateEnds /\ ~Touches /\ ~Tries /\ ~Restart
      BY <2>1, <2>2, <2>3, SurroundingsEffects, RateEffects, TouchEffects, TryEffects DEF Restart
    <2>5. ASSUME NEW f \in Flights PROVE ~Delivered(f)
      BY <2>2, DeliveredEffects
    <2>6. PICK s \in Slots, release \in BOOLEAN : Look(s, release) /\ s.recent = Slot.recent
      BY <2>4, <2>5, NextParts, WakesLook
    <2>7. Sends(s)
      BY <2>3, <2>6, LookEffects DEF Forgets, Remembers
    <2> QED
      BY <2>6, <2>7, SlotType DEF Sends, CapIsKnown
  <1> QED
    BY <1>1, SlotInvariant, PTL DEF TriggerSpec, CapHolds

\* A look at a slot that owes leaves it owing, or sends, or finds nothing due
\* or the trigger off.
LEMMA LookKeepsOwed ==
    ASSUME TriggerTypeOK, NEW s \in Slots, s.urgent, NEW release \in BOOLEAN, Look(s, release)
    PROVE  \/ Starts \/ ~Work \/ ~trigger \/ slot = NoSlot
           \/ slot' \in Slots /\ slot'.urgent
  <1> DEFINE urgent == release \/ s.urgent
  <1>1. urgent = TRUE
    BY DEF Slots
  <1>2. Counted(s) \in Slots /\ Counted(s).urgent
    <2>1. count \in NotSeen..MaxCount[loop]
      BY TriggerAssumption DEF TriggerTypeOK, NotSeen
    <2> QED
      BY <2>1 DEF Counted, Slots
  <1>3. \A t \in Slots : Armed(t) \in Slots /\ Armed(t).urgent = t.urgent
    BY DEF Armed, Slots
  <1> HIDE DEF urgent
  <1>4. CASE LookOff
    BY <1>4 DEF LookOff
  <1>5. CASE LookFails(s)
    BY <1>5 DEF LookFails
  <1>6. CASE LookBacksOff(s, urgent)
    BY <1>1, <1>3, <1>6 DEF LookBacksOff, Slots
  <1>7. CASE LookRuns(s)
    BY <1>7 DEF LookRuns, Slots
  <1>8. CASE LookNothingDue(s)
    BY <1>8 DEF LookNothingDue
  <1>9. CASE LookNotYet(s, urgent)
    BY <1>2, <1>3, <1>9 DEF LookNotYet
  <1>10. CASE LookHolds(s, urgent)
    <2>1. Armed(Counted(s)) \in Slots
      BY <1>2, <1>3
    <2> QED
      BY <1>10, <2>1 DEF LookHolds, Slots
  <1>11. ASSUME NEW f \in Flights, LookSends(s, urgent, f) PROVE Starts
    <2>1. [try |-> 1, end |-> "none"] # NoFlight
      BY DEF NoFlight
    <2>2. flight'[f] = [try |-> 1, end |-> "none"]
      BY <1>11, SlotTypeParts DEF LookSends, SlotTypes
    <2> QED
      BY <1>11, <2>1, <2>2 DEF LookSends, Starts
  <1> QED
    BY <1>4, <1>5, <1>6, <1>7, <1>8, <1>9, <1>10, <1>11 DEF Look, urgent

\* look, on_outcome and the ticks keep the `urgent' of a slot that owes a send
\* until it is sent, is not due any more, is turned off or the daemon restarts.
THEOREM OwedTheorem == TriggerSpec => OwedIsKept
  <1> DEFINE Kept == Owes(slot) /\ ~Owes(slot') =>
                       Starts \/ ~Work \/ ~trigger \/ faults' # faults
  <1>1. ASSUME SlotInv, [TriggerNext]_triggerVars PROVE [Kept]_triggerVars
    <2> SUFFICES ASSUME TriggerNext, slot # NoSlot, slot.urgent, ~(slot' # NoSlot /\ slot'.urgent)
                 PROVE  Starts \/ ~Work \/ ~trigger \/ faults' # faults
      BY <1>1 DEF Owes
    <2> TriggerTypeOK
      BY <1>1 DEF SlotInv
    <2>1. slot \in Slots /\ Slot = slot /\ \A t \in Slots : t # NoSlot
      BY SlotType, SlotOf
    <2>2. ~Surroundings /\ ~RateEnds /\ ~Touches /\ ~Tries
      BY <2>1, SurroundingsEffects, RateEffects, TouchEffects, TryEffects DEF Retouched
    <2>3. ASSUME NEW f \in Flights PROVE ~Delivered(f)
      BY <2>1, DeliveredEffects
    <2>4. CASE Wakes
      <3>1. PICK s \in Slots, release \in BOOLEAN : Look(s, release) /\ s.urgent = Slot.urgent
        BY <2>4, WakesLook
      <3> QED
        BY <2>1, <3>1, LookKeepsOwed
    <2>5. CASE Restart
      BY <2>5, SlotTypeParts DEF Restart, OtherTypes
    <2> QED
      BY <2>2, <2>3, <2>4, <2>5, NextParts
  <1> QED
    BY <1>1, SlotInvariant, PTL DEF TriggerSpec, OwedIsKept
=============================================================================
