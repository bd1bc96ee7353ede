----------------------------- MODULE InstanceLock -----------------------------
(***************************************************************************)
(* service.lock, service.json and service.sock of one state directory       *)
(* (crates/service/src/instance.rs): daemons that take the lock, serve and   *)
(* leave, are killed or hang; `doctor --fix', which removes what a dead one  *)
(* left; and clients that dislodge a daemon that does not answer.           *)
(*                                                                         *)
(* A lock file is removed while it is locked, so the lock is on a file       *)
(* (an inode), and the path may name another one.  A process runs once: it  *)
(* is never started again under the same pid.                               *)
(***************************************************************************)
EXTENDS Integers, FiniteSets

CONSTANTS
    Daemons,   \* processes that run `crystalline serve'
    Doctors,   \* processes that run `doctor --fix'
    Clients,   \* processes that connect, and dislodge what does not answer
    Files,     \* the inodes the lock file may have
    Nobody,
    Raced      \* TRUE: a daemon may take over between a look of the clean-up
               \* and its removal

Procs == Daemons \cup Doctors

ASSUME LockAssumption ==
    /\ Nobody \notin Procs \cup Files
    /\ Daemons \cap Doctors = {} /\ Raced \in BOOLEAN

VARIABLES
    path,    \* the inode service.lock names, or Nobody
    lock,    \* per inode: who holds its lock
    fd,      \* per process: the inode it has open
    pc,      \* per process: how far it is
    record,  \* whom service.json names
    socket,  \* who bound the file at service.sock
    hung,    \* daemons that answer nothing
    pick     \* per client: how far its dislodging is, and whom it is after

files == <<path, lock, fd>>
vars == <<path, lock, fd, pc, record, socket, hung, pick>>

Rest == [at |-> "rest", pid |-> Nobody]
Steps == {"idle", "opened", "locked", "holds", "bound", "serving", "cleaning",
          "unrecorded", "unsocketed", "unnamed", "gone"}

TypeOK ==
    /\ path \in Files \cup {Nobody}
    /\ lock \in [Files -> Procs \cup {Nobody}]
    /\ fd \in [Procs -> Files \cup {Nobody}]
    /\ pc \in [Procs -> Steps]
    /\ record \in Daemons \cup {Nobody} /\ socket \in Daemons \cup {Nobody}
    /\ hung \subseteq Daemons
    /\ pick \in [Clients ->
         [at : {"rest", "termed", "killed", "saw", "tidied", "free"},
          pid : Daemons \cup {Nobody}]]

Init ==
    /\ path = Nobody /\ lock = [f \in Files |-> Nobody]
    /\ fd = [p \in Procs |-> Nobody] /\ pc = [p \in Procs |-> "idle"]
    /\ record = Nobody /\ socket = Nobody /\ hung = {}
    /\ pick = [c \in Clients |-> Rest]

Free == IF path = Nobody THEN TRUE ELSE lock[path] = Nobody
Alive(p) == p # Nobody /\ pc[p] # "gone"
Answers(p) == p # Nobody /\ pc[p] = "serving" /\ p \notin hung

\* Files that are no process's and at no path; an open inode is not used again.
Unused == {f \in Files : f # path /\ \A p \in Procs : fd[p] # f}

-----------------------------------------------------------------------------
\* acquire_ownership and hold_service_lock: open or create, try to lock, and
\* compare what was locked with what the path names.
Open(p) ==
    /\ pc[p] = "idle"
    /\ \E f \in Files :
         /\ IF path = Nobody THEN f \in Unused ELSE f = path
         /\ path' = f
         /\ fd' = [fd EXCEPT ![p] = f]
    /\ pc' = [pc EXCEPT ![p] = "opened"]
    /\ UNCHANGED <<lock, record, socket, hung, pick>>

\* `doctor --fix' looks for files of a daemon that is gone, then takes the lock.
DoctorOpen(d) ==
    /\ d \in Doctors
    /\ record # Nobody /\ ~Alive(record) /\ Free
    /\ Open(d)

TryLock(p) ==
    /\ pc[p] = "opened"
    /\ lock[fd[p]] = Nobody
    /\ lock' = [lock EXCEPT ![fd[p]] = p]
    /\ pc' = [pc EXCEPT ![p] = "locked"]
    /\ UNCHANGED <<path, fd, record, socket, hung, pick>>

\* The lock is held: a daemon tries again with the path opened afresh, or gives
\* up after its last attempt; doctor leaves things alone.
LockHeld(p) ==
    /\ pc[p] = "opened"
    /\ lock[fd[p]] # Nobody
    /\ fd' = [fd EXCEPT ![p] = Nobody]
    /\ \E at \in IF p \in Doctors THEN {"gone"} ELSE {"idle", "gone"} :
         pc' = [pc EXCEPT ![p] = at]
    /\ UNCHANGED <<path, lock, record, socket, hung, pick>>

\* Mutant of Current: the lock counts whatever file it is on.
CurrentAny(p) == TRUE

\* locked_file_is_current.
Current(p) == path = fd[p]

Check(p) ==
    /\ pc[p] = "locked"
    /\ Current(p)
    /\ pc' = [pc EXCEPT ![p] = IF p \in Doctors THEN "cleaning" ELSE "holds"]
    /\ UNCHANGED <<files, record, socket, hung, pick>>

CheckFails(p) ==
    /\ pc[p] = "locked"
    /\ ~Current(p)
    /\ lock' = [lock EXCEPT ![fd[p]] = Nobody]
    /\ fd' = [fd EXCEPT ![p] = Nobody]
    /\ pc' = [pc EXCEPT ![p] = IF p \in Doctors THEN "gone" ELSE "idle"]
    /\ UNCHANGED <<path, record, socket, hung, pick>>

-----------------------------------------------------------------------------
\* A daemon that owns the index binds its socket, past a leftover file, and
\* publishes its record.
Bind(p) ==
    /\ pc[p] = "holds"
    /\ socket' = p
    /\ pc' = [pc EXCEPT ![p] = "bound"]
    /\ UNCHANGED <<files, record, hung, pick>>

Publish(p) ==
    /\ pc[p] = "bound"
    /\ record' = p
    /\ pc' = [pc EXCEPT ![p] = "serving"]
    /\ UNCHANGED <<files, socket, hung, pick>>

\* It leaves by dropping its Ownership: the record, the socket, the lock file
\* while it is locked, and the lock.  doctor removes the same three.
Unrecord(p) ==
    /\ pc[p] \in {"holds", "bound", "serving", "cleaning"} /\ p \notin hung
    /\ record' = Nobody
    /\ pc' = [pc EXCEPT ![p] = "unrecorded"]
    /\ UNCHANGED <<files, socket, hung, pick>>

Unsocket(p) ==
    /\ pc[p] = "unrecorded" /\ p \notin hung
    /\ socket' = Nobody
    /\ pc' = [pc EXCEPT ![p] = "unsocketed"]
    /\ UNCHANGED <<files, record, hung, pick>>

\* Mutant of Unname: the lock goes first, then the file.
UnnameUnlocked(p) ==
    \/ /\ pc[p] = "unsocketed" /\ p \notin hung
       /\ lock[fd[p]] = p
       /\ lock' = [lock EXCEPT ![fd[p]] = Nobody]
       /\ UNCHANGED <<path, fd, pc, record, socket, hung, pick>>
    \/ /\ pc[p] = "unsocketed" /\ p \notin hung
       /\ lock[fd[p]] # p
       /\ path' = Nobody
       /\ pc' = [pc EXCEPT ![p] = "unnamed"]
       /\ UNCHANGED <<lock, fd, record, socket, hung, pick>>

Unname(p) ==
    /\ pc[p] = "unsocketed" /\ p \notin hung
    /\ path' = Nobody
    /\ pc' = [pc EXCEPT ![p] = "unnamed"]
    /\ UNCHANGED <<lock, fd, record, socket, hung, pick>>

\* The process ends: the kernel lets its lock go and closes its file.
Ends(p) ==
    /\ lock' = [f \in Files |-> IF lock[f] = p THEN Nobody ELSE lock[f]]
    /\ fd' = [fd EXCEPT ![p] = Nobody]
    /\ pc' = [pc EXCEPT ![p] = "gone"]
    /\ hung' = hung \ {p}
    /\ UNCHANGED <<path, record, socket>>

Unlock(p) == pc[p] = "unnamed" /\ Ends(p) /\ UNCHANGED pick

\* kill -9, at any point.
Dies(p) == pc[p] \notin {"idle", "gone"} /\ Ends(p) /\ UNCHANGED pick

Hangs(p) ==
    /\ p \in Daemons \ hung
    /\ pc[p] \notin {"idle", "gone"}
    /\ hung' = hung \cup {p}
    /\ UNCHANGED <<files, pc, record, socket, pick>>

-----------------------------------------------------------------------------
\* dislodge_unresponsive.  The lock is held, the socket does not answer, and
\* the record names a process that runs: it gets the graceful signal.
Dislodge(c) ==
    /\ pick[c] = Rest
    /\ ~Free /\ ~Answers(socket) /\ Alive(record)
    /\ pick' = [pick EXCEPT ![c] = [at |-> "termed", pid |-> record]]
    /\ UNCHANGED <<files, pc, record, socket, hung>>

\* It did not leave in time: the hard signal.
Kill(c) ==
    /\ pick[c].at = "termed"
    /\ ~Free /\ Alive(pick[c].pid)
    /\ Ends(pick[c].pid)
    /\ pick' = [pick EXCEPT ![c].at = "killed"]

\* wait_for_release: the lock is free, or the pid is gone.
Released(c) ==
    pick[c].at \in {"termed", "killed"} /\ (Alive(pick[c].pid) => Free)

\* No daemon takes the lock while a clean-up is between a look and its removal.
Quiet == Raced \/ \A c \in Clients : pick[c].at \notin {"saw", "free"}

\* clean_after_dislodge: the record goes when it still names the pid ...
SeesRecord(c) ==
    /\ Released(c)
    /\ pick' = [pick EXCEPT ![c].at = IF record = pick[c].pid THEN "saw" ELSE "tidied"]
    /\ UNCHANGED <<files, pc, record, socket, hung>>

CleansRecord(c) ==
    /\ pick[c].at = "saw"
    /\ record' = Nobody
    /\ pick' = [pick EXCEPT ![c].at = "tidied"]
    /\ UNCHANGED <<files, pc, socket, hung>>

\* Mutant of SeesFree: the socket file goes whoever holds the lock.
SeesFreeAlways(c) ==
    /\ pick[c].at = "tidied"
    /\ pick' = [pick EXCEPT ![c] = [@ EXCEPT !.at = "free"]]
    /\ UNCHANGED <<files, pc, record, socket, hung>>

\* ... and the socket file while the lock is free.
SeesFree(c) ==
    /\ pick[c].at = "tidied"
    /\ pick' = [pick EXCEPT ![c] = IF Free THEN [@ EXCEPT !.at = "free"] ELSE Rest]
    /\ UNCHANGED <<files, pc, record, socket, hung>>

CleansSocket(c) ==
    /\ pick[c].at = "free"
    /\ socket' = Nobody
    /\ pick' = [pick EXCEPT ![c] = Rest]
    /\ UNCHANGED <<files, pc, record, hung>>

Next ==
    \/ \E p \in Daemons :
         \/ Quiet /\ (Open(p) \/ TryLock(p) \/ Bind(p) \/ Publish(p))
         \/ Hangs(p)
    \/ \E d \in Doctors : DoctorOpen(d) \/ TryLock(d)
    \/ \E p \in Procs :
         \/ LockHeld(p) \/ Check(p) \/ CheckFails(p) \/ Unrecord(p) \/ Unsocket(p)
         \/ Unname(p) \/ Unlock(p) \/ Dies(p)
    \/ \E c \in Clients :
         \/ Dislodge(c) \/ Kill(c) \/ SeesRecord(c) \/ CleansRecord(c)
         \/ SeesFree(c) \/ CleansSocket(c)

Spec == Init /\ [][Next]_vars

-----------------------------------------------------------------------------
\* The processes that act as owners.
Owning(p) ==
    pc[p] \in {"holds", "bound", "serving", "cleaning", "unrecorded", "unsocketed"}

\* At most one process owns the index, though the lock file is removed and
\* created again under processes that wait for it ("two owners of one state
\* directory").
OneOwner == \A p, q \in Procs : Owning(p) /\ Owning(q) => p = q

\* Who owns the index holds the lock of the file at the path: it removes its
\* own lock file when it leaves, never a successor's.
OwnersFileIsNamed == \A p \in Procs : Owning(p) => path = fd[p] /\ lock[path] = p

\* A daemon that serves is found: no leaving predecessor, no doctor and no
\* client that dislodged one takes its socket or its record away ("a successor
\* that already took over is never disturbed").
ServingIsFound == \A p \in Daemons : pc[p] = "serving" => socket = p /\ record = p

\* InstanceLock keeps what Ownership promises: the owner is the process that
\* acts as one.
Owner == IF \E p \in Procs : Owning(p) THEN CHOOSE p \in Procs : Owning(p) ELSE Nobody
Promise == INSTANCE Ownership WITH owner <- Owner
Exclusive == Promise!Spec
=============================================================================
