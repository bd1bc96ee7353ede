----------------------------- MODULE ChangeRing -----------------------------
(***************************************************************************)
(* The ring of the change bus: the events a daemon announced, numbered from *)
(* 1 inside the epoch of its process, of which the newest RingCapacity can  *)
(* be replayed (crates/engine/src/changes.rs).                              *)
(*                                                                         *)
(* `log' holds every event of the epoch.  The ring is its part from          *)
(* `oldest' on, and each subscriber's broadcast channel is a part of it too. *)
(***************************************************************************)
EXTENDS Integers, Sequences

CONSTANTS
    Events,        \* what can be announced
    RingCapacity   \* RING_CAPACITY

ASSUME RingAssumption == RingCapacity \in Nat \ {0}

VARIABLES
    epoch,   \* the second the process started
    log,     \* the events announced, at their sequence numbers
    oldest   \* the number of the ring's front entry; Len(log) + 1: none

ring == <<epoch, log, oldest>>

RingType ==
    /\ epoch \in Nat \ {0}
    /\ log \in Seq(Events)
    /\ oldest \in Nat \ {0}
    /\ oldest <= Len(log) + 1
    /\ Len(log) - oldest + 1 <= RingCapacity

\* A bus as ChangeBus::new leaves it.
FreshRing == epoch = 1 /\ log = <<>> /\ oldest = 1

\* The end of announce: the event gets the next number, the front entry makes
\* room in a full ring, and the event is sent to whoever is subscribed, all
\* under the ring's mutex.
Send(e) ==
    /\ log' = Append(log, e)
    /\ oldest' = IF Len(log) - oldest + 1 = RingCapacity THEN oldest + 1 ELSE oldest
    /\ UNCHANGED epoch

\* Mutant of MustReset: one event too many may be missing from the ring.
MustResetLate(id) ==
    \/ id.epoch # epoch
    \/ id.seq > Len(log)
    \/ oldest <= Len(log) /\ oldest > id.seq + 2

\* replay_after answers Reset: the id is another process's, one this process
\* has not issued, or older than what the ring holds.  Otherwise everything
\* after it is replayed.
MustReset(id) ==
    \/ id.epoch # epoch
    \/ id.seq > Len(log)
    \/ oldest <= Len(log) /\ oldest > id.seq + 1

\* The first event replay_after answers with: the ring's first after the id.
ReplayFrom(id) == IF oldest > id.seq THEN oldest ELSE id.seq + 1
=============================================================================
