----------------------------- MODULE EventStream -----------------------------
(***************************************************************************)
(* GET /api/v1/events: the event stream each browser keeps open, caught up *)
(* from the ring when it reconnects, live from its broadcast channel after *)
(* that (crates/rest/src/events.rs, over crates/engine/src/changes.rs).    *)
(*                                                                         *)
(* An event is the set of clients that may hear it: what a session may read *)
(* is asked when the event comes up, and its answer is taken from there.    *)
(* A frame that is written and then lost with its connection counts as not  *)
(* written, so writing and receiving it are one step.                       *)
(***************************************************************************)
EXTENDS ChangeRing, FiniteSets

CONSTANTS
    Clients,          \* the browsers; each keeps one stream
    ChannelCapacity,  \* CHANNEL_CAPACITY
    StreamsTotal,     \* STREAMS_TOTAL
    SameSecond,       \* TRUE: a restart may fall into the second of the start
    MaxChanges,       \* bound: events announced in one epoch
    MaxRestarts,      \* bound: restarts of the daemon
    MaxFaults         \* bound: failed re-resolutions of what a session may see

ASSUME StreamAssumption ==
    /\ Events = SUBSET Clients
    /\ ChannelCapacity \in Nat \ {0}
    /\ StreamsTotal \in Nat \ {0}
    /\ SameSecond \in BOOLEAN
    /\ MaxChanges \in Nat /\ MaxRestarts \in Nat /\ MaxFaults \in Nat

VARIABLES
    phase,       \* per client: no stream, subscribed to the channel, or serving
    receiver,    \* the number its channel receives next
    from, upto,  \* its backlog: the events from..upto
    owesReset,   \* reset_pending
    lastSent,    \* last_sent
    lastId,      \* the id its browser presents as Last-Event-ID
    missed,      \* observer: what it may hear and has not heard of, see
                 \* ChangeFeed; what is dropped because the records that say
                 \* whether it may hear it do not answer is not in it
    restarts, faults  \* how much of each bound is used

stream == <<phase, receiver, from, upto, owesReset, lastSent>>
client == <<lastId, missed>>
bounds == <<restarts, faults>>
vars   == <<ring, stream, client, bounds>>

NoId == [epoch |-> 0, seq |-> 0]

TypeOK ==
    /\ RingType
    /\ phase \in [Clients -> {"off", "subscribed", "open"}]
    /\ receiver \in [Clients -> Nat \ {0}]
    /\ from \in [Clients -> Nat \ {0}]
    /\ upto \in [Clients -> Nat]
    /\ owesReset \in [Clients -> BOOLEAN]
    /\ lastSent \in [Clients -> Nat]
    /\ lastId \in [Clients -> [epoch : Nat, seq : Nat]]
    /\ missed \in [Clients -> SUBSET Nat]
    /\ restarts \in Nat /\ faults \in Nat

Init ==
    /\ FreshRing
    /\ phase = [c \in Clients |-> "off"]
    /\ receiver = [c \in Clients |-> 1]
    /\ from = [c \in Clients |-> 1]
    /\ upto = [c \in Clients |-> 0]
    /\ owesReset = [c \in Clients |-> FALSE]
    /\ lastSent = [c \in Clients |-> 0]
    /\ lastId = [c \in Clients |-> NoId]
    /\ missed = [c \in Clients |-> {}]
    /\ restarts = 0 /\ faults = 0

\* The streams of `gone' are dropped, with all their state.
Drop(gone) ==
    /\ phase' = [c \in Clients |-> IF c \in gone THEN "off" ELSE phase[c]]
    /\ receiver' = [c \in Clients |-> IF c \in gone THEN 1 ELSE receiver[c]]
    /\ from' = [c \in Clients |-> IF c \in gone THEN 1 ELSE from[c]]
    /\ upto' = [c \in Clients |-> IF c \in gone THEN 0 ELSE upto[c]]
    /\ owesReset' = [c \in Clients |-> c \notin gone /\ owesReset[c]]
    /\ lastSent' = [c \in Clients |-> IF c \in gone THEN 0 ELSE lastSent[c]]

-----------------------------------------------------------------------------
\* Something changed that the clients in `to' may hear.
Change(to) ==
    /\ Len(log) < MaxChanges
    /\ Send(to)
    /\ missed' = [c \in Clients |->
                    IF c \in to THEN missed[c] \cup {Len(log) + 1} ELSE missed[c]]
    /\ UNCHANGED <<stream, lastId, bounds>>

\* The daemon restarts, into a new epoch unless that takes less than a second.
\* What changed meanwhile is announced to nobody.
Restart ==
    /\ restarts < MaxRestarts
    /\ restarts' = restarts + 1
    /\ \/ epoch' = epoch + 1
       \/ SameSecond /\ epoch' = epoch
    /\ log' = <<>>
    /\ oldest' = 1
    /\ Drop(Clients)
    /\ missed' = [c \in Clients |-> {0}]
    /\ UNCHANGED <<lastId, faults>>

-----------------------------------------------------------------------------
(***************************************************************************)
(* stream_events: the stream subscribes before it reads the ring, so what  *)
(* is announced in between is in its channel.                              *)
(***************************************************************************)
Subscribe(c) ==
    /\ phase[c] = "off"
    /\ Cardinality({d \in Clients : phase[d] # "off"}) < StreamsTotal
    /\ phase' = [phase EXCEPT ![c] = "subscribed"]
    /\ receiver' = [receiver EXCEPT ![c] = Len(log) + 1]
    /\ UNCHANGED <<ring, from, upto, owesReset, lastSent, client, bounds>>

\* The stream opens with the backlog lo..hi.
Opens(c, lo, hi, reset) ==
    /\ phase' = [phase EXCEPT ![c] = "open"]
    /\ from' = [from EXCEPT ![c] = lo]
    /\ upto' = [upto EXCEPT ![c] = hi]
    /\ owesReset' = [owesReset EXCEPT ![c] = reset]
    /\ UNCHANGED <<ring, receiver, lastSent, lastId, bounds>>

\* A browser without an id is served from its subscription on: it has just
\* loaded its page, or resets once its source opens.
StartLive(c) ==
    /\ phase[c] = "subscribed"
    /\ lastId[c] = NoId
    /\ Opens(c, receiver[c], receiver[c] - 1, FALSE)
    /\ missed' = [missed EXCEPT ![c] = {n \in @ : n >= receiver[c]}]

\* catch_up: a reset, or what the ring still holds after the id.
CatchUp(c) ==
    /\ phase[c] = "subscribed"
    /\ lastId[c] # NoId
    /\ IF MustReset(lastId[c])
       THEN Opens(c, receiver[c], receiver[c] - 1, TRUE)
       ELSE Opens(c, ReplayFrom(lastId[c]), Len(log), FALSE)
    /\ UNCHANGED missed

-----------------------------------------------------------------------------
(***************************************************************************)
(* Subscriber::next: a pending reset first, then the backlog, then the      *)
(* channel.                                                                 *)
(***************************************************************************)
\* Mutant of Frame: an event in both the backlog and the channel is sent twice.
FrameAgain(c, n) ==
    /\ lastSent' = [lastSent EXCEPT ![c] = n]
    /\ IF c \in log[n]
       THEN /\ lastId' = [lastId EXCEPT ![c] = [epoch |-> epoch, seq |-> n]]
            /\ missed' = [missed EXCEPT ![c] = @ \ {n}]
       ELSE UNCHANGED <<lastId, missed>>
    /\ UNCHANGED faults

\* Subscriber::frame: event n is written unless it was already, or the session
\* may not hear it; when that cannot be asked, the event is dropped.
Frame(c, n) ==
    \/ /\ n <= lastSent[c]
       /\ UNCHANGED <<lastSent, lastId, missed, faults>>
    \/ /\ n > lastSent[c]
       /\ lastSent' = [lastSent EXCEPT ![c] = n]
       /\ IF c \in log[n]
          THEN /\ lastId' = [lastId EXCEPT ![c] = [epoch |-> epoch, seq |-> n]]
               /\ missed' = [missed EXCEPT ![c] = @ \ {n}]
          ELSE UNCHANGED <<lastId, missed>>
       /\ UNCHANGED faults
    \/ /\ n > lastSent[c]
       /\ c \in log[n]
       /\ faults < MaxFaults
       /\ faults' = faults + 1
       /\ lastSent' = [lastSent EXCEPT ![c] = n]
       /\ missed' = [missed EXCEPT ![c] = @ \ {n}]
       /\ UNCHANGED lastId

\* The reset frame: no id, and the browser refetches everything.
ResetFrame(c) ==
    /\ missed' = [missed EXCEPT ![c] = {}]
    /\ UNCHANGED <<lastSent, lastId, faults>>

ServeReset(c) ==
    /\ phase[c] = "open"
    /\ owesReset[c]
    /\ owesReset' = [owesReset EXCEPT ![c] = FALSE]
    /\ ResetFrame(c)
    /\ UNCHANGED <<ring, phase, receiver, from, upto, restarts>>

\* Mutant of Serving: the last event of a backlog keeps the stream from its
\* channel.
ServingStuck(c) == phase[c] = "open" /\ ~owesReset[c] /\ from[c] # upto[c]

\* The stream is past its reset.
Serving(c) == phase[c] = "open" /\ ~owesReset[c]

ServeBacklog(c) ==
    /\ Serving(c)
    /\ from[c] <= upto[c]
    /\ Frame(c, from[c])
    /\ from' = [from EXCEPT ![c] = @ + 1]
    /\ UNCHANGED <<ring, phase, receiver, upto, owesReset, restarts>>

\* The channel has overwritten what the stream would receive next.
Lagged(c) == Len(log) - receiver[c] + 1 > ChannelCapacity

ServeLive(c) ==
    /\ Serving(c)
    /\ from[c] > upto[c]
    /\ receiver[c] <= Len(log)
    /\ ~Lagged(c)
    /\ Frame(c, receiver[c])
    /\ receiver' = [receiver EXCEPT ![c] = @ + 1]
    /\ UNCHANGED <<ring, phase, from, upto, owesReset, restarts>>

\* Mutant of ServeLag: a stream that fell behind goes on without a reset.
ServeLagSilently(c) ==
    /\ Serving(c)
    /\ from[c] > upto[c]
    /\ Lagged(c)
    /\ receiver' = [receiver EXCEPT ![c] = Len(log) - ChannelCapacity + 1]
    /\ UNCHANGED <<ring, phase, from, upto, owesReset, lastSent, client, bounds>>

\* RecvError::Lagged: the stream goes on with the oldest event the channel
\* still holds, after a reset.
ServeLag(c) ==
    /\ Serving(c)
    /\ from[c] > upto[c]
    /\ Lagged(c)
    /\ receiver' = [receiver EXCEPT ![c] = Len(log) - ChannelCapacity + 1]
    /\ ResetFrame(c)
    /\ UNCHANGED <<ring, phase, from, upto, owesReset, restarts>>

Serve(c) == ServeReset(c) \/ ServeBacklog(c) \/ ServeLive(c) \/ ServeLag(c)

-----------------------------------------------------------------------------
\* The connection drops, the session ends, or the browser closes its tab.
Close(c) ==
    /\ phase[c] # "off"
    /\ Drop({c})
    /\ UNCHANGED <<ring, client, bounds>>

\* The browser opens a source of its own, which has seen no id.
NewSource(c) ==
    /\ phase[c] = "off"
    /\ lastId[c] # NoId
    /\ lastId' = [lastId EXCEPT ![c] = NoId]
    /\ UNCHANGED <<ring, stream, missed, bounds>>

Open(c) == Subscribe(c) \/ StartLive(c) \/ CatchUp(c)

Next ==
    \/ \E to \in SUBSET Clients : Change(to)
    \/ \E c \in Clients : Open(c) \/ Serve(c) \/ Close(c) \/ NewSource(c)
    \/ Restart

Spec == Init /\ [][Next]_vars

\* The daemon serves every stream it opened.
FairSpec == Spec /\ \A c \in Clients : WF_vars(StartLive(c) \/ CatchUp(c) \/ Serve(c))

-----------------------------------------------------------------------------
\* A stream with nothing left to say has told its browser of everything it may
\* hear, across any number of reconnects, evictions from the ring and lags.
DrainedMissedNothing ==
    \A c \in Clients :
        Serving(c) /\ from[c] > upto[c] /\ receiver[c] = Len(log) + 1 => missed[c] = {}

\* Within a process, a browser never receives an older event after a newer one.
IdsGoUp ==
    [][\A c \in Clients :
         lastId'[c] # lastId[c] /\ lastId'[c].epoch = lastId[c].epoch =>
             lastId'[c].seq > lastId[c].seq]_vars

\* The stream implements the promise of ChangeFeed.
Feed == INSTANCE ChangeFeed WITH
            count <- Len(log), on <- {c \in Clients : phase[c] = "open"}

FollowsFeed == Feed!FeedSpec

\* An open stream is brought up to date while it stays open.
StreamCatchesUp ==
    \A c \in Clients : phase[c] = "open" ~> (missed[c] = {} \/ phase[c] # "open")

\* "A restart is a new epoch, and a reconnect across one gets a `reset`"
\* (EventId): whoever reconnects after a restart is told to refetch.
RestartIsNoticed ==
    \A c \in Clients : Serving(c) => 0 \notin missed[c]
=============================================================================
