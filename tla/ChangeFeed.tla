----------------------------- MODULE ChangeFeed -----------------------------
(***************************************************************************)
(* What the event stream promises a browser: the changes it may hear come  *)
(* to it in the order they were made and without a gap, or it is told to    *)
(* refetch everything.  A browser that is away misses nothing for good.     *)
(***************************************************************************)
EXTENDS Integers, FiniteSets

CONSTANTS Clients

VARIABLES
    count,   \* the changes made since the daemon started
    on,      \* the clients that listen
    missed   \* per client: the changes it may hear and has not heard of; 0
             \* stands for what was missed while no daemon ran

feed == <<count, on, missed>>

FeedInit ==
    /\ count = 0
    /\ on = {}
    /\ missed = [c \in Clients |-> {}]

\* A change the clients in `to' may hear.
Make(to) ==
    /\ count' = count + 1
    /\ missed' = [c \in Clients |-> IF c \in to THEN missed[c] \cup {count'} ELSE missed[c]]
    /\ UNCHANGED on

\* A client hears of the first change it has missed.
Hear(c) ==
    /\ c \in on
    /\ \E n \in missed[c] :
         /\ \A m \in missed[c] : n <= m
         /\ missed' = [missed EXCEPT ![c] = @ \ {n}]
    /\ UNCHANGED <<count, on>>

\* A client is told to refetch everything.
Refetch(c) ==
    /\ c \in on
    /\ missed' = [missed EXCEPT ![c] = {}]
    /\ UNCHANGED <<count, on>>

\* A client begins to listen, where it left off or from now on.
Begin(c) ==
    /\ c \notin on
    /\ on' = on \cup {c}
    /\ \E from \in 0..count + 1 :
         missed' = [missed EXCEPT ![c] = {n \in @ : n >= from}]
    /\ UNCHANGED count

Stop(c) ==
    /\ on' = on \ {c}
    /\ UNCHANGED <<count, missed>>

\* The daemon restarts: everybody may have missed something.
Renew ==
    /\ count' = 0
    /\ on' = {}
    /\ missed' = [c \in Clients |-> {0}]

FeedNext ==
    \/ \E to \in SUBSET Clients : Make(to)
    \/ \E c \in Clients : Hear(c) \/ Refetch(c) \/ Begin(c) \/ Stop(c)
    \/ Renew

FeedSpec == FeedInit /\ [][FeedNext]_feed
=============================================================================
