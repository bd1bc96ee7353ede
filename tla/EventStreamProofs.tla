-------------------------- MODULE EventStreamProofs --------------------------
(***************************************************************************)
(* What holds of the event stream for any number of clients, capacities     *)
(* and changes.  The argument: an open stream has its browser's missed      *)
(* events ahead of it, in its backlog or in its channel, and the id a       *)
(* browser presents has them after it.  Both rest on a restart being a new   *)
(* epoch, so the theorems assume SameSecond = FALSE.                         *)
(*                                                                         *)
(* The last section is about one source of events, ThreadsFeed.            *)
(***************************************************************************)
EXTENDS EventStream, ThreadsFeed, TLAPS

\* Nothing a client keeps is ahead of the log, and what it has missed is an
\* event it may hear, or 0.
Bounded(c) ==
    /\ upto[c] <= Len(log)
    /\ lastSent[c] <= Len(log)
    /\ receiver[c] <= Len(log) + 1
    /\ \A n \in missed[c] : n = 0 \/ (n \in 1..Len(log) /\ c \in log[n])

\* The id a browser holds is of this epoch or an earlier one, and everything
\* it has missed comes after it.
IdBehind(c) ==
    /\ lastId[c].epoch <= epoch
    /\ lastId[c].epoch = 0 => lastId[c] = NoId
    /\ lastId[c].epoch = epoch =>
         /\ lastId[c].seq <= Len(log)
         /\ \A n \in missed[c] : lastId[c].seq < n

\* A stream that listens goes on after the id its browser holds.
IdServed(c) ==
    phase[c] # "off" /\ lastId[c].epoch = epoch =>
        \/ lastId[c].seq <= lastSent[c]
        \/ /\ lastId[c].seq < receiver[c]
           /\ phase[c] = "open" /\ from[c] <= upto[c] => lastId[c].seq < from[c]

\* What the browser of an open stream has missed is in the backlog or in the
\* channel.
MissedAhead(c) ==
    Serving(c) => \A n \in missed[c] :
        /\ lastSent[c] < n
        /\ from[c] <= upto[c] => from[c] <= n
        /\ n < receiver[c] => from[c] <= upto[c] /\ n <= upto[c]

\* A stream that has sent nothing yet.
Unsent(c) == phase[c] # "open" => lastSent[c] = 0

\* A ring of a log with events is not empty.
RingFilled == log # <<>> => oldest <= Len(log)

ClientInv(c) == Bounded(c) /\ IdBehind(c) /\ IdServed(c) /\ MissedAhead(c) /\ Unsent(c)

StreamInv ==
    /\ TypeOK
    /\ RingFilled
    /\ \A c \in Clients : ClientInv(c)

-----------------------------------------------------------------------------
\* The initial state.
LEMMA InitInv == Init => StreamInv
<1> SUFFICES ASSUME Init PROVE StreamInv
  OBVIOUS
<1>1. TypeOK
  BY RingAssumption DEF Init, TypeOK, RingType, FreshRing, NoId
<1>2. RingFilled
  BY DEF Init, FreshRing, RingFilled
<1>3. ASSUME NEW c \in Clients PROVE ClientInv(c)
  BY DEF Init, FreshRing, NoId, ClientInv, Bounded, IdBehind, IdServed, MissedAhead,
         Unsent, Serving
<1> QED
  BY <1>1, <1>2, <1>3 DEF StreamInv

\* A client an action leaves alone keeps its invariant.
LEMMA Untouched ==
    ASSUME NEW c \in Clients, ClientInv(c), UNCHANGED ring,
           phase'[c] = phase[c], receiver'[c] = receiver[c], from'[c] = from[c],
           upto'[c] = upto[c], owesReset'[c] = owesReset[c], lastSent'[c] = lastSent[c],
           lastId'[c] = lastId[c], missed'[c] = missed[c]
    PROVE  ClientInv(c)'
BY DEF ClientInv, Bounded, IdBehind, IdServed, MissedAhead, Unsent, Serving, ring

\* A new event is ahead of every client that may hear it.
LEMMA ChangeInv ==
    ASSUME StreamInv, NEW to \in SUBSET Clients, Change(to)
    PROVE  StreamInv'
<1> USE DEF Change, Send, stream, bounds
<1>1. log' \in Seq(Events) /\ Len(log') = Len(log) + 1
  BY StreamAssumption DEF StreamInv, TypeOK, RingType
<1>2. \A n \in 1..Len(log) : log'[n] = log[n]
  BY DEF StreamInv, TypeOK, RingType
<1>3. log'[Len(log) + 1] = to
  BY DEF StreamInv, TypeOK, RingType
<1>4. TypeOK'
  BY <1>1, RingAssumption DEF StreamInv, TypeOK, RingType
<1>5. RingFilled'
  BY <1>1, RingAssumption DEF StreamInv, TypeOK, RingType, RingFilled
<1>6. ASSUME NEW c \in Clients PROVE ClientInv(c)'
  <2> ClientInv(c) /\ TypeOK
    BY DEF StreamInv
  <2>1. \A n \in missed'[c] : n \in missed[c] \/ (n = Len(log) + 1 /\ c \in to)
    BY DEF TypeOK
  <2>2. Bounded(c)'
    BY <2>1, <1>1, <1>2, <1>3 DEF TypeOK, RingType, ClientInv, Bounded
  <2>3. IdBehind(c)'
    BY <2>1, <1>1 DEF TypeOK, RingType, ClientInv, IdBehind
  <2>4. IdServed(c)'
    BY <2>1, <1>1 DEF TypeOK, RingType, ClientInv, IdServed
  <2>5. MissedAhead(c)'
    BY <2>1, <1>1 DEF TypeOK, RingType, ClientInv, MissedAhead, Serving, Bounded
  <2>6. Unsent(c)'
    BY DEF ClientInv, Unsent
  <2> QED
    BY <2>2, <2>3, <2>4, <2>5, <2>6 DEF ClientInv
<1> QED
  BY <1>4, <1>5, <1>6 DEF StreamInv

\* A restart leaves no stream, and every id to an earlier epoch.
LEMMA RestartInv ==
    ASSUME ~SameSecond, StreamInv, Restart
    PROVE  StreamInv'
<1> USE DEF Restart, Drop
<1>1. epoch' = epoch + 1 /\ log' = <<>> /\ oldest' = 1
  OBVIOUS
<1>2. TypeOK'
  BY <1>1, RingAssumption DEF StreamInv, TypeOK, RingType
<1>3. RingFilled'
  BY <1>1 DEF RingFilled
<1>4. ASSUME NEW c \in Clients PROVE ClientInv(c)'
  BY <1>1 DEF StreamInv, TypeOK, RingType, ClientInv, Bounded, IdBehind, IdServed,
              MissedAhead, Unsent, Serving
<1> QED
  BY <1>2, <1>3, <1>4 DEF StreamInv

\* Opening a stream keeps its state typed.
LEMMA OpensTyped ==
    ASSUME TypeOK, NEW c \in Clients, NEW lo \in Nat \ {0}, NEW hi \in Nat,
           NEW reset \in BOOLEAN, Opens(c, lo, hi, reset),
           missed' \in [Clients -> SUBSET Nat]
    PROVE  TypeOK'
<1>1. RingType' /\ receiver' = receiver /\ lastSent' = lastSent /\ lastId' = lastId
      /\ restarts' = restarts /\ faults' = faults
  BY DEF Opens, TypeOK, RingType, ring, bounds
<1>2. phase' \in [Clients -> {"off", "subscribed", "open"}]
  BY DEF Opens, TypeOK
<1>3. from' \in [Clients -> Nat \ {0}] /\ upto' \in [Clients -> Nat]
  BY DEF Opens, TypeOK
<1>4. owesReset' \in [Clients -> BOOLEAN]
  BY DEF Opens, TypeOK
<1> QED
  BY <1>1, <1>2, <1>3, <1>4 DEF TypeOK

\* A stream opens with its backlog after the id its browser presents.
LEMMA OpenInv ==
    ASSUME StreamInv, NEW c \in Clients, Open(c)
    PROVE  StreamInv'
<1>1. CASE Subscribe(c)
  <2> USE <1>1 DEF Subscribe, client, bounds
  <2>1. TypeOK'
    <3>1. RingType' /\ phase' \in [Clients -> {"off", "subscribed", "open"}]
      BY DEF StreamInv, TypeOK, RingType, ring
    <3>2. receiver' \in [Clients -> Nat \ {0}]
      BY DEF StreamInv, TypeOK, RingType
    <3> QED
      BY <3>1, <3>2 DEF StreamInv, TypeOK
  <2>2. ClientInv(c)'
    <3>1. TypeOK /\ ClientInv(c)
      BY DEF StreamInv
    <3>2. Bounded(c)' /\ IdBehind(c)' /\ Unsent(c)'
      BY <3>1 DEF TypeOK, RingType, ring, ClientInv, Bounded, IdBehind, Unsent
    <3>3. IdServed(c)' /\ MissedAhead(c)'
      BY <3>1 DEF TypeOK, RingType, ring, ClientInv, IdBehind, IdServed, MissedAhead,
                  Serving
    <3> QED
      BY <3>2, <3>3 DEF ClientInv
  <2>3. ASSUME NEW d \in Clients, d # c PROVE ClientInv(d)'
    BY <2>3, Untouched DEF StreamInv, TypeOK
  <2> QED
    BY <2>1, <2>2, <2>3 DEF StreamInv, RingFilled, ring
<1>2. CASE StartLive(c)
  <2>0. TypeOK /\ ClientInv(c) /\ StartLive(c)
    BY <1>2 DEF StreamInv
  <2>1. receiver[c] \in Nat \ {0} /\ missed' \in [Clients -> SUBSET Nat]
    BY <2>0 DEF TypeOK, StartLive
  <2>2. receiver[c] - 1 \in Nat
    BY <2>1
  <2>3. TypeOK'
    BY <2>0, <2>1, <2>2, OpensTyped DEF StartLive
  <2> USE <2>0 DEF StartLive, Opens, bounds
  <2>4. Bounded(c)' /\ IdBehind(c)' /\ Unsent(c)'
    BY DEF TypeOK, RingType, ring, ClientInv, Bounded, IdBehind, Unsent, NoId
  <2>5. IdServed(c)' /\ MissedAhead(c)'
    BY DEF TypeOK, RingType, ring, ClientInv, IdServed, MissedAhead, Unsent, Serving, NoId
  <2>6. ASSUME NEW d \in Clients, d # c PROVE ClientInv(d)'
    BY <2>6, Untouched DEF StreamInv, TypeOK
  <2> QED
    BY <2>3, <2>4, <2>5, <2>6 DEF ClientInv, StreamInv, RingFilled, ring
<1>3. CASE CatchUp(c) /\ MustReset(lastId[c])
  <2>1. Opens(c, receiver[c], receiver[c] - 1, TRUE) /\ UNCHANGED missed
    BY <1>3 DEF CatchUp
  <2>2. phase[c] = "subscribed" /\ receiver[c] \in Nat \ {0} /\ TypeOK
    BY <1>3 DEF CatchUp, StreamInv, TypeOK
  <2>3. TypeOK'
    <3>1. receiver[c] - 1 \in Nat
      BY <2>2
    <3>2. missed' \in [Clients -> SUBSET Nat]
      BY <2>1, <2>2 DEF TypeOK
    <3> QED
      BY <2>1, <2>2, <3>1, <3>2, OpensTyped
  <2> USE <2>1 DEF Opens, bounds
  <2>4. ClientInv(c)'
    <3>1. ClientInv(c)
      BY DEF StreamInv
    <3>2. Bounded(c)' /\ Unsent(c)'
      BY <2>2, <3>1 DEF TypeOK, RingType, ring, ClientInv, Bounded, Unsent
    <3>3. IdBehind(c)'
      BY <2>2, <3>1 DEF TypeOK, RingType, ring, ClientInv, IdBehind
    <3>4. IdServed(c)' /\ MissedAhead(c)'
      BY <2>2, <3>1 DEF TypeOK, RingType, ring, ClientInv, IdServed, MissedAhead, Serving
    <3> QED
      BY <3>2, <3>3, <3>4 DEF ClientInv
  <2>5. ASSUME NEW d \in Clients, d # c PROVE ClientInv(d)'
    BY <2>5, Untouched DEF StreamInv, TypeOK
  <2> QED
    BY <2>3, <2>4, <2>5 DEF StreamInv, RingFilled, ring
<1>4. CASE CatchUp(c) /\ ~MustReset(lastId[c])
  <2>1. /\ lastId[c].epoch = epoch
        /\ lastId[c].seq <= Len(log)
        /\ ReplayFrom(lastId[c]) = lastId[c].seq + 1
    BY <1>4 DEF MustReset, ReplayFrom, StreamInv, TypeOK, RingType, RingFilled
  <2>2. Opens(c, lastId[c].seq + 1, Len(log), FALSE) /\ UNCHANGED missed
    BY <1>4, <2>1 DEF CatchUp
  <2>3. phase[c] = "subscribed"
    BY <1>4 DEF CatchUp
  <2>0. TypeOK /\ ClientInv(c)
    BY DEF StreamInv
  <2>4. TypeOK'
    <3>1. Len(log) \in Nat /\ lastId[c].seq + 1 \in Nat \ {0}
      BY <2>0 DEF TypeOK, RingType
    <3>2. missed' \in [Clients -> SUBSET Nat]
      BY <2>0, <2>2 DEF TypeOK
    <3> QED
      BY <2>0, <2>2, <3>1, <3>2, OpensTyped
  <2> USE <2>2 DEF Opens, bounds
  <2>5. Bounded(c)' /\ IdBehind(c)' /\ Unsent(c)'
    BY <2>0, <2>3 DEF TypeOK, RingType, ring, ClientInv, Bounded, IdBehind, Unsent
  <2>6. IdServed(c)'
    BY <2>0, <2>3 DEF TypeOK, RingType, ring, ClientInv, IdServed
  <2>7. MissedAhead(c)'
    BY <2>0, <2>1, <2>3 DEF TypeOK, RingType, ring, ClientInv, Bounded, IdBehind,
                            MissedAhead, Unsent, Serving
  <2>8. ASSUME NEW d \in Clients, d # c PROVE ClientInv(d)'
    BY <2>8, Untouched DEF StreamInv, TypeOK
  <2> QED
    BY <2>4, <2>5, <2>6, <2>7, <2>8 DEF ClientInv, StreamInv, RingFilled, ring
<1> QED
  BY <1>1, <1>2, <1>3, <1>4 DEF Open, CatchUp

\* What is left when event n was served.
FrameEffect(c, n) ==
    /\ lastSent' \in [Clients -> Nat] /\ n <= lastSent'[c] /\ lastSent'[c] <= Len(log)
    /\ lastId' \in [Clients -> [epoch : Nat, seq : Nat]]
    /\ missed' \in [Clients -> SUBSET Nat] /\ missed'[c] \subseteq missed[c]
    /\ faults' \in Nat
    /\ \A m \in missed'[c] : n < m /\ lastSent'[c] < m
    /\ lastId'[c].epoch <= epoch
    /\ lastId'[c].epoch = 0 => lastId'[c] = NoId
    /\ lastId'[c].epoch = epoch =>
         /\ lastId'[c].seq <= Len(log)
         /\ lastId'[c].seq <= lastSent'[c]
         /\ \A m \in missed'[c] : lastId'[c].seq < m
    /\ lastId'[c] # lastId[c] /\ lastId'[c].epoch = lastId[c].epoch =>
         lastId'[c].seq > lastId[c].seq
    /\ \A d \in Clients \ {c} :
         lastSent'[d] = lastSent[d] /\ lastId'[d] = lastId[d] /\ missed'[d] = missed[d]

\* Serving event n, the next of the backlog or of the channel, leaves behind
\* it nothing the browser has missed.
LEMMA FrameKeeps ==
    ASSUME StreamInv, NEW c \in Clients, NEW n \in 1..Len(log), Serving(c),
           Frame(c, n), \A m \in missed[c] : n <= m,
           lastId[c].epoch = epoch => lastId[c].seq < n \/ lastId[c].seq <= lastSent[c]
    PROVE  FrameEffect(c, n)
<1>1. /\ epoch \in Nat \ {0} /\ Len(log) \in Nat /\ faults \in Nat
      /\ lastSent \in [Clients -> Nat] /\ missed \in [Clients -> SUBSET Nat]
      /\ lastId \in [Clients -> [epoch : Nat, seq : Nat]]
  BY DEF StreamInv, TypeOK, RingType
<1>2. /\ lastSent[c] <= Len(log)
      /\ \A m \in missed[c] : lastSent[c] < m /\ (m = n => c \in log[n])
      /\ IdBehind(c)
  BY DEF StreamInv, ClientInv, Bounded, MissedAhead
<1>3. n \in Nat \ {0} /\ n <= Len(log)
  BY <1>1
<1>4. CASE n <= lastSent[c] /\ UNCHANGED <<lastSent, lastId, missed, faults>>
  <2>1. \A m \in missed[c] : n < m
    BY <1>1, <1>2, <1>3, <1>4
  <2>2. lastId[c].epoch = epoch => lastId[c].seq <= lastSent[c]
    BY <1>1, <1>3, <1>4
  <2> QED
    BY <1>1, <1>2, <1>4, <2>1, <2>2 DEF FrameEffect, IdBehind
<1>5. CASE /\ n > lastSent[c] /\ lastSent' = [lastSent EXCEPT ![c] = n]
           /\ lastId' = [lastId EXCEPT ![c] = [epoch |-> epoch, seq |-> n]]
           /\ missed' = [missed EXCEPT ![c] = @ \ {n}]
           /\ UNCHANGED faults
  <2>1. /\ lastSent'[c] = n /\ missed'[c] = missed[c] \ {n}
        /\ lastId'[c].epoch = epoch /\ lastId'[c].seq = n
    BY <1>1, <1>5
  <2>2. \A m \in missed'[c] : n < m
    BY <1>1, <1>3, <2>1
  <2>3. lastId[c].epoch = epoch => lastId[c].seq < n
    BY <1>1, <1>3, <1>5
  <2>4. /\ lastSent' \in [Clients -> Nat] /\ missed' \in [Clients -> SUBSET Nat]
        /\ lastId' \in [Clients -> [epoch : Nat, seq : Nat]]
    BY <1>1, <1>3, <1>5
  <2>5. \A d \in Clients \ {c} :
          lastSent'[d] = lastSent[d] /\ lastId'[d] = lastId[d] /\ missed'[d] = missed[d]
    BY <1>1, <1>5
  <2> QED
    BY <1>1, <1>3, <1>5, <2>1, <2>2, <2>3, <2>4, <2>5 DEF FrameEffect
<1>6. CASE /\ n > lastSent[c] /\ lastSent' = [lastSent EXCEPT ![c] = n]
           /\ missed' = [missed EXCEPT ![c] = @ \ {n}] /\ faults' \in Nat
           /\ UNCHANGED lastId
  <2>1. lastSent'[c] = n /\ missed'[c] = missed[c] \ {n}
    BY <1>1, <1>6
  <2>2. \A m \in missed'[c] : n < m
    BY <1>1, <1>3, <2>1
  <2>3. lastId[c].epoch = epoch => lastId[c].seq <= n
    BY <1>1, <1>3, <1>6
  <2>4. lastSent' \in [Clients -> Nat] /\ missed' \in [Clients -> SUBSET Nat]
    BY <1>1, <1>3, <1>6
  <2>5. \A d \in Clients \ {c} : lastSent'[d] = lastSent[d] /\ missed'[d] = missed[d]
    BY <1>1, <1>6
  <2> QED
    BY <1>1, <1>2, <1>3, <1>6, <2>1, <2>2, <2>3, <2>4, <2>5 DEF FrameEffect, IdBehind
<1>8. faults + 1 \in Nat
  BY <1>1
<1>9. CASE n <= lastSent[c]
  BY <1>4, <1>9, <1>1, <1>3 DEF Frame
<1>10. CASE n > lastSent[c] /\ c \in log[n]
  <2>1. \/ /\ lastSent' = [lastSent EXCEPT ![c] = n]
           /\ lastId' = [lastId EXCEPT ![c] = [epoch |-> epoch, seq |-> n]]
           /\ missed' = [missed EXCEPT ![c] = @ \ {n}]
           /\ UNCHANGED faults
        \/ /\ lastSent' = [lastSent EXCEPT ![c] = n]
           /\ missed' = [missed EXCEPT ![c] = @ \ {n}]
           /\ faults' = faults + 1
           /\ UNCHANGED lastId
    BY <1>1, <1>3, <1>10 DEF Frame
  <2> QED
    BY <1>5, <1>6, <1>8, <1>10, <2>1
<1>11. CASE n > lastSent[c] /\ c \notin log[n]
  <2>1. /\ lastSent' = [lastSent EXCEPT ![c] = n]
        /\ UNCHANGED <<lastId, missed, faults>>
    BY <1>1, <1>3, <1>11 DEF Frame
  <2>2. missed' = [missed EXCEPT ![c] = @ \ {n}]
    BY <1>1, <1>2, <1>11, <2>1
  <2> QED
    BY <1>1, <1>6, <1>11, <2>1, <2>2
<1> QED
  BY <1>1, <1>3, <1>9, <1>10, <1>11

-----------------------------------------------------------------------------
\* Serving an open stream.
LEMMA ServeInv ==
    ASSUME StreamInv, NEW c \in Clients, Serve(c)
    PROVE  StreamInv' /\ (lastId'[c] # lastId[c] /\ lastId'[c].epoch = lastId[c].epoch =>
                             lastId'[c].seq > lastId[c].seq)
                      /\ \A d \in Clients \ {c} : lastId'[d] = lastId[d]
<1> TypeOK /\ ClientInv(c) /\ UNCHANGED ring
  BY DEF StreamInv, Serve, ServeReset, ServeBacklog, ServeLive, ServeLag
<1>1. CASE ServeReset(c)
  <2> USE <1>1 DEF ServeReset, ResetFrame
  <2>1. TypeOK'
    BY DEF TypeOK, RingType, ring
  <2>2. ClientInv(c)'
    BY DEF TypeOK, RingType, ring, ClientInv, Bounded, IdBehind, IdServed, MissedAhead,
           Unsent
  <2>3. ASSUME NEW d \in Clients, d # c PROVE ClientInv(d)'
    BY <2>3, Untouched DEF StreamInv, TypeOK
  <2> QED
    BY <2>1, <2>2, <2>3 DEF StreamInv, RingFilled, ring
<1>2. CASE ServeBacklog(c)
  <2>1. /\ Serving(c) /\ Frame(c, from[c]) /\ from' = [from EXCEPT ![c] = @ + 1]
        /\ UNCHANGED <<phase, upto, owesReset, restarts, receiver>>
        /\ from[c] <= upto[c]
    BY <1>2 DEF ServeBacklog
  <2>2. from[c] \in 1..Len(log)
    BY <2>1 DEF TypeOK, RingType, ClientInv, Bounded
  <2>3. \A m \in missed[c] : from[c] <= m
    BY <2>1 DEF TypeOK, RingType, ClientInv, MissedAhead
  <2>4. lastId[c].epoch = epoch => lastId[c].seq < from[c] \/ lastId[c].seq <= lastSent[c]
    BY <2>1 DEF ClientInv, IdServed, Serving
  <2>5. FrameEffect(c, from[c])
    BY <2>1, <2>2, <2>3, <2>4, FrameKeeps
  <2>6. TypeOK'
    <3>1. from' \in [Clients -> Nat \ {0}]
      BY <2>1 DEF TypeOK
    <3>2. RingType'
      BY DEF TypeOK, RingType, ring
    <3> QED
      BY <2>1, <2>5, <3>1, <3>2 DEF TypeOK, FrameEffect
  <2>7. Bounded(c)' /\ IdBehind(c)'
    <3>1. receiver'[c] <= Len(log) + 1
      BY <2>1, <2>2 DEF TypeOK, RingType, ClientInv, Bounded
    <3>2. upto' = upto /\ log' = log /\ epoch' = epoch
      BY <2>1 DEF ring
    <3>3. Bounded(c)'
      BY <2>5, <3>1, <3>2 DEF ClientInv, Bounded, FrameEffect
    <3>4. IdBehind(c)'
      BY <2>5, <3>2 DEF IdBehind, FrameEffect, NoId
    <3> QED
      BY <3>3, <3>4
  <2>8. IdServed(c)' /\ Unsent(c)'
    BY <2>1, <2>5 DEF ring, IdServed, Unsent, Serving, FrameEffect
  <2>9. MissedAhead(c)'
    <3>1. /\ from'[c] = from[c] + 1 /\ receiver' = receiver /\ upto' = upto
          /\ from[c] \in Nat /\ receiver[c] \in Nat /\ upto[c] \in Nat
      BY <2>1 DEF TypeOK
    <3>2. ASSUME NEW m \in missed'[c]
          PROVE  m \in Nat /\ m \in missed[c] /\ from[c] < m /\ lastSent'[c] < m
      BY <2>5 DEF FrameEffect
    <3>3. \A m \in missed[c] : m < receiver[c] => from[c] <= upto[c] /\ m <= upto[c]
      BY <2>1 DEF ClientInv, MissedAhead
    <3> QED
      BY <2>1, <3>1, <3>2, <3>3 DEF MissedAhead
  <2>10. ASSUME NEW d \in Clients, d # c PROVE ClientInv(d)'
    <3>1. ClientInv(d) /\ from'[d] = from[d]
      BY <2>1, <2>10 DEF StreamInv, TypeOK
    <3>2. lastSent'[d] = lastSent[d] /\ lastId'[d] = lastId[d] /\ missed'[d] = missed[d]
      BY <2>5, <2>10 DEF FrameEffect
    <3> QED
      BY <2>1, <3>1, <3>2, Untouched
  <2> QED
    BY <2>5, <2>6, <2>7, <2>8, <2>9, <2>10
       DEF StreamInv, ClientInv, RingFilled, ring, FrameEffect
<1>3. CASE ServeLive(c)
  <2>1. /\ Serving(c) /\ Frame(c, receiver[c]) /\ receiver' = [receiver EXCEPT ![c] = @ + 1]
        /\ UNCHANGED <<phase, upto, owesReset, restarts, from>>
        /\ from[c] > upto[c] /\ receiver[c] <= Len(log)
    BY <1>3 DEF ServeLive
  <2>2. receiver[c] \in 1..Len(log)
    BY <2>1 DEF TypeOK, RingType, ClientInv, Bounded
  <2>3. \A m \in missed[c] : receiver[c] <= m
    BY <2>1 DEF TypeOK, RingType, ClientInv, MissedAhead
  <2>4. lastId[c].epoch = epoch => lastId[c].seq < receiver[c] \/ lastId[c].seq <= lastSent[c]
    BY <2>1 DEF ClientInv, IdServed, Serving
  <2>5. FrameEffect(c, receiver[c])
    BY <2>1, <2>2, <2>3, <2>4, FrameKeeps
  <2>6. TypeOK'
    <3>1. receiver' \in [Clients -> Nat \ {0}]
      BY <2>1 DEF TypeOK
    <3>2. RingType'
      BY DEF TypeOK, RingType, ring
    <3> QED
      BY <2>1, <2>5, <3>1, <3>2 DEF TypeOK, FrameEffect
  <2>7. Bounded(c)' /\ IdBehind(c)'
    <3>1. receiver'[c] <= Len(log) + 1
      BY <2>1, <2>2 DEF TypeOK, RingType, ClientInv, Bounded
    <3>2. upto' = upto /\ log' = log /\ epoch' = epoch
      BY <2>1 DEF ring
    <3>3. Bounded(c)'
      BY <2>5, <3>1, <3>2 DEF ClientInv, Bounded, FrameEffect
    <3>4. IdBehind(c)'
      BY <2>5, <3>2 DEF IdBehind, FrameEffect, NoId
    <3> QED
      BY <3>3, <3>4
  <2>8. IdServed(c)' /\ Unsent(c)'
    BY <2>1, <2>5 DEF ring, IdServed, Unsent, Serving, FrameEffect
  <2>9. MissedAhead(c)'
    <3>1. /\ receiver'[c] = receiver[c] + 1 /\ from' = from /\ upto' = upto
          /\ from[c] \in Nat /\ receiver[c] \in Nat /\ upto[c] \in Nat
      BY <2>1 DEF TypeOK
    <3>2. ASSUME NEW m \in missed'[c]
          PROVE  m \in Nat /\ m \in missed[c] /\ receiver[c] < m /\ lastSent'[c] < m
      BY <2>5 DEF FrameEffect
    <3>3. \A m \in missed[c] : m < receiver[c] => from[c] <= upto[c] /\ m <= upto[c]
      BY <2>1 DEF ClientInv, MissedAhead
    <3> QED
      BY <2>1, <3>1, <3>2, <3>3 DEF MissedAhead
  <2>10. ASSUME NEW d \in Clients, d # c PROVE ClientInv(d)'
    <3>1. ClientInv(d) /\ receiver'[d] = receiver[d]
      BY <2>1, <2>10 DEF StreamInv, TypeOK
    <3>2. lastSent'[d] = lastSent[d] /\ lastId'[d] = lastId[d] /\ missed'[d] = missed[d]
      BY <2>5, <2>10 DEF FrameEffect
    <3> QED
      BY <2>1, <3>1, <3>2, Untouched
  <2> QED
    BY <2>5, <2>6, <2>7, <2>8, <2>9, <2>10
       DEF StreamInv, ClientInv, RingFilled, ring, FrameEffect
<1>4. CASE ServeLag(c)
  <2> USE <1>4 DEF ServeLag, ResetFrame, Lagged
  <2>1. /\ Len(log) - ChannelCapacity + 1 \in Nat \ {0}
        /\ Len(log) - ChannelCapacity + 1 <= Len(log) + 1
        /\ receiver[c] < Len(log) - ChannelCapacity + 1
    <3>1. receiver[c] \in Nat \ {0} /\ Len(log) \in Nat
      BY DEF TypeOK, RingType
    <3>2. ChannelCapacity \in Nat \ {0} /\ Len(log) - receiver[c] + 1 > ChannelCapacity
      BY StreamAssumption
    <3> QED
      BY <3>1, <3>2
  <2>2. TypeOK'
    BY <2>1 DEF TypeOK, RingType, ring
  <2>3. ClientInv(c)'
    <3>1. /\ receiver'[c] = Len(log) - ChannelCapacity + 1 /\ missed'[c] = {}
          /\ receiver[c] \in Nat
      BY DEF TypeOK
    <3>2. Bounded(c)' /\ IdBehind(c)' /\ Unsent(c)' /\ MissedAhead(c)'
      BY <2>1, <3>1 DEF ring, ClientInv, Bounded, IdBehind, Unsent, MissedAhead
    <3>3. lastId \in [Clients -> [epoch : Nat, seq : Nat]]
      BY DEF TypeOK
    <3>4. IdServed(c)'
      BY <2>1, <3>1, <3>3 DEF ring, ClientInv, IdServed
    <3> QED
      BY <3>2, <3>4 DEF ClientInv
  <2>4. ASSUME NEW d \in Clients, d # c PROVE ClientInv(d)'
    BY <2>4, Untouched DEF StreamInv, TypeOK
  <2> QED
    BY <2>2, <2>3, <2>4 DEF StreamInv, RingFilled, ring
<1> QED
  BY <1>1, <1>2, <1>3, <1>4 DEF Serve

\* A stream that is dropped, and a browser that forgets its id.
LEMMA AwayInv ==
    ASSUME StreamInv, NEW c \in Clients, Close(c) \/ NewSource(c)
    PROVE  StreamInv'
<1>1. CASE Close(c)
  <2> USE <1>1 DEF Close, Drop, client, bounds
  <2>1. TypeOK'
    BY DEF StreamInv, TypeOK, RingType, ring
  <2>2. ClientInv(c)'
    BY DEF StreamInv, TypeOK, RingType, ring, ClientInv, Bounded, IdBehind, IdServed,
           MissedAhead, Unsent, Serving
  <2>3. ASSUME NEW d \in Clients, d # c PROVE ClientInv(d)'
    BY <2>3, Untouched DEF StreamInv, TypeOK
  <2> QED
    BY <2>1, <2>2, <2>3 DEF StreamInv, RingFilled, ring
<1>2. CASE NewSource(c)
  <2> USE <1>2 DEF NewSource, NoId, stream, bounds
  <2>1. TypeOK'
    BY DEF StreamInv, TypeOK, RingType, ring
  <2>2. ClientInv(c)'
    BY DEF StreamInv, TypeOK, RingType, ring, ClientInv, Bounded, IdBehind, IdServed,
           MissedAhead, Unsent, Serving
  <2>3. ASSUME NEW d \in Clients, d # c PROVE ClientInv(d)'
    BY <2>3, Untouched DEF StreamInv, TypeOK
  <2> QED
    BY <2>1, <2>2, <2>3 DEF StreamInv, RingFilled, ring
<1> QED
  BY <1>1, <1>2

\* A step that changes nothing.
LEMMA StutterInv == ASSUME StreamInv, UNCHANGED vars PROVE StreamInv'
BY DEF StreamInv, vars, ring, stream, client, bounds, TypeOK, RingType, RingFilled,
       ClientInv, Bounded, IdBehind, IdServed, MissedAhead, Unsent, Serving

-----------------------------------------------------------------------------
\* The invariant of the event stream: every open stream has what its browser
\* missed ahead of it.
THEOREM StreamInvariant == ASSUME ~SameSecond PROVE Spec => []StreamInv
<1>1. ASSUME StreamInv, [Next]_vars PROVE StreamInv'
  <2>1. CASE UNCHANGED vars
    BY <1>1, <2>1, StutterInv
  <2>2. CASE \E to \in SUBSET Clients : Change(to)
    BY <1>1, <2>2, ChangeInv
  <2>3. CASE \E c \in Clients : Open(c)
    BY <1>1, <2>3, OpenInv
  <2>4. CASE \E c \in Clients : Serve(c)
    BY <1>1, <2>4, ServeInv
  <2>5. CASE \E c \in Clients : Close(c) \/ NewSource(c)
    BY <1>1, <2>5, AwayInv
  <2>6. CASE Restart
    BY <1>1, <2>6, RestartInv
  <2> QED
    BY <1>1, <2>1, <2>2, <2>3, <2>4, <2>5, <2>6 DEF Next
<1> QED
  BY <1>1, InitInv, PTL DEF Spec

\* A stream with nothing left to say has told its browser of everything it may
\* hear (Subscriber::next, replay_after), for any capacity of ring and channel.
THEOREM DrainedTheorem == ASSUME ~SameSecond PROVE Spec => []DrainedMissedNothing
<1>1. StreamInv => DrainedMissedNothing
  <2> SUFFICES ASSUME StreamInv, NEW c \in Clients, Serving(c), from[c] > upto[c],
                      receiver[c] = Len(log) + 1, NEW n \in missed[c]
               PROVE  FALSE
    BY DEF DrainedMissedNothing
  <2>1. TypeOK /\ Bounded(c) /\ MissedAhead(c)
    BY DEF StreamInv, ClientInv
  <2>2. n \in Nat /\ n <= Len(log)
    BY <2>1 DEF TypeOK, RingType, Bounded
  <2>3. n < receiver[c] => from[c] <= upto[c]
    BY <2>1 DEF MissedAhead
  <2>4. from[c] \in Nat /\ upto[c] \in Nat /\ Len(log) \in Nat
    BY <2>1 DEF TypeOK, RingType
  <2> QED
    BY <2>2, <2>3, <2>4
<1> QED
  BY <1>1, StreamInvariant, PTL

\* Within a process a browser never receives an older event after a newer one
\* (Subscriber::frame, last_sent), however often its stream was reopened.
THEOREM OrderTheorem == ASSUME ~SameSecond PROVE Spec => IdsGoUp
<1> DEFINE Up(c) == lastId'[c] # lastId[c] /\ lastId'[c].epoch = lastId[c].epoch =>
                        lastId'[c].seq > lastId[c].seq
<1>1. ASSUME StreamInv, [Next]_vars PROVE [\A c \in Clients : Up(c)]_vars
  <2>1. CASE UNCHANGED lastId
    BY <2>1
  <2>2. ASSUME NEW c \in Clients, Serve(c) PROVE \A d \in Clients : Up(d)
    BY <1>1, <2>2, ServeInv
  <2>3. ASSUME NEW c \in Clients, NewSource(c) PROVE \A d \in Clients : Up(d)
    <3>1. ClientInv(c) /\ lastId[c] # NoId /\ lastId' = [lastId EXCEPT ![c] = NoId]
      BY <1>1, <2>3 DEF StreamInv, NewSource
    <3>2. lastId \in [Clients -> [epoch : Nat, seq : Nat]]
      BY <1>1 DEF StreamInv, TypeOK
    <3>3. lastId[c].epoch # 0 /\ NoId.epoch = 0
      BY <3>1 DEF ClientInv, IdBehind, NoId
    <3> QED
      BY <3>1, <3>2, <3>3
  <2>4. UNCHANGED vars => UNCHANGED lastId
    BY DEF vars, client
  <2>5. (\E to \in SUBSET Clients : Change(to)) \/ Restart => UNCHANGED lastId
    BY DEF Change, Restart
  <2>6. (\E c \in Clients : Open(c) \/ Close(c)) => UNCHANGED lastId
    BY DEF Open, Subscribe, StartLive, CatchUp, Opens, Close, client
  <2> QED
    BY <1>1, <2>1, <2>2, <2>3, <2>4, <2>5, <2>6 DEF Next
<1> QED
  BY <1>1, StreamInvariant, PTL DEF Spec, IdsGoUp
-----------------------------------------------------------------------------
(***************************************************************************)
(* The stream implements the feed: every step is a step of ChangeFeed, or  *)
(* changes neither the events, the listeners nor what anybody missed.      *)
(***************************************************************************)
Listening == {c \in Clients : phase[c] = "open"}

\* A served event is the first one its browser missed, or changes nothing.
LEMMA FrameHears ==
    ASSUME NEW c \in Clients, NEW n, Frame(c, n), phase[c] = "open",
           \A m \in missed[c] : n <= m, missed \in [Clients -> SUBSET Nat],
           UNCHANGED <<log, phase>>
    PROVE  Feed!Hear(c) \/ UNCHANGED Feed!feed
<1>1. UNCHANGED missed \/ missed' = [missed EXCEPT ![c] = @ \ {n}]
  BY DEF Frame
<1>2. CASE UNCHANGED missed
  BY <1>2 DEF Feed!feed
<1>3. CASE missed' = [missed EXCEPT ![c] = @ \ {n}] /\ n \in missed[c]
  BY <1>3 DEF Feed!Hear
<1>4. CASE missed' = [missed EXCEPT ![c] = @ \ {n}] /\ n \notin missed[c]
  <2>1. missed[c] \ {n} = missed[c]
    BY <1>4
  <2>2. missed' = missed
    BY <1>4, <2>1
  <2> QED
    BY <2>2 DEF Feed!feed
<1> QED
  BY <1>1, <1>2, <1>3, <1>4

\* Serving is hearing, or refetching.
LEMMA ServeFeed ==
    ASSUME StreamInv, NEW c \in Clients, Serve(c)
    PROVE  Feed!Hear(c) \/ Feed!Refetch(c) \/ UNCHANGED Feed!feed
<1>1. /\ missed \in [Clients -> SUBSET Nat] /\ MissedAhead(c)
      /\ receiver[c] \in Nat /\ from[c] \in Nat /\ upto[c] \in Nat
  BY DEF StreamInv, TypeOK, ClientInv
<1>2. UNCHANGED <<log, phase>> /\ phase[c] = "open"
  BY DEF Serve, ServeReset, ServeBacklog, ServeLive, ServeLag, Serving, ring
<1>3. CASE ServeReset(c) \/ ServeLag(c)
  <2>1. missed' = [missed EXCEPT ![c] = {}]
    BY <1>3 DEF ServeReset, ServeLag, ResetFrame
  <2> QED
    BY <1>2, <2>1 DEF Feed!Refetch
<1>4. CASE ServeBacklog(c)
  <2>1. Frame(c, from[c]) /\ \A m \in missed[c] : from[c] <= m
    BY <1>4 DEF ServeBacklog, MissedAhead, StreamInv, ClientInv
  <2> QED
    BY <1>1, <1>2, <2>1, FrameHears
<1>5. CASE ServeLive(c)
  <2>1. Frame(c, receiver[c]) /\ Serving(c) /\ ~(from[c] <= upto[c])
    BY <1>1, <1>5 DEF ServeLive
  <2>2. \A m \in missed[c] : receiver[c] <= m
    <3>1. \A m \in missed[c] : m \in Nat /\ ~(m < receiver[c])
      BY <1>1, <2>1 DEF MissedAhead
    <3> QED
      BY <1>1, <3>1
  <2> QED
    BY <1>1, <1>2, <2>1, <2>2, FrameHears
<1> QED
  BY <1>3, <1>4, <1>5 DEF Serve

\* Opening a stream is beginning to listen, with everything missed or with
\* what is announced from the subscription on.
LEMMA OpenFeed ==
    ASSUME StreamInv, NEW c \in Clients, Open(c)
    PROVE  Feed!Begin(c) \/ UNCHANGED Feed!feed
<1>1. /\ missed \in [Clients -> SUBSET Nat]
      /\ receiver[c] \in 0..Len(log) + 1 /\ Len(log) \in Nat
      /\ phase \in [Clients -> {"off", "subscribed", "open"}]
  BY DEF StreamInv, TypeOK, RingType, ClientInv, Bounded
<1>2. CASE Subscribe(c)
  <2>1. UNCHANGED <<log, missed>> /\ Listening' = Listening
    BY <1>1, <1>2 DEF Subscribe, ring, client, Listening
  <2> QED
    BY <2>1 DEF Feed!feed, Listening
<1>3. CASE StartLive(c) \/ CatchUp(c)
  <2>1. phase[c] = "subscribed" /\ phase' = [phase EXCEPT ![c] = "open"] /\ log' = log
    BY <1>3 DEF StartLive, CatchUp, Opens, ring
  <2>2. c \notin Listening /\ Listening' = Listening \cup {c}
    BY <1>1, <2>1 DEF Listening
  <2>3. \E n \in 0..Len(log) + 1 :
            missed' = [missed EXCEPT ![c] = {m \in @ : m >= n}]
    <3>1. CASE StartLive(c)
      BY <1>1, <3>1 DEF StartLive
    <3>2. CASE CatchUp(c)
      <4>1. missed[c] = {m \in missed[c] : m >= 0} /\ missed' = missed
        BY <1>1, <3>2 DEF CatchUp
      <4>2. missed' = [missed EXCEPT ![c] = {m \in @ : m >= 0}]
        BY <1>1, <4>1
      <4>3. 0 \in 0..Len(log) + 1
        BY <1>1
      <4> QED
        BY <4>2, <4>3, Zenon
    <3> QED
      BY <1>3, <3>1, <3>2
  <2> QED
    BY <2>1, <2>2, <2>3 DEF Feed!Begin, Listening
<1> QED
  BY <1>2, <1>3 DEF Open

\* The stream implements ChangeFeed: what a browser may hear comes to it in
\* the order it was announced and without a gap, or it is told to refetch.
THEOREM FeedTheorem == ASSUME ~SameSecond PROVE Spec => FollowsFeed
<1>1. Init => Feed!FeedInit
  BY DEF Init, FreshRing, Feed!FeedInit
<1>2. ASSUME StreamInv, Next PROVE Feed!FeedNext \/ UNCHANGED Feed!feed
  <2>0. phase \in [Clients -> {"off", "subscribed", "open"}] /\ log \in Seq(Events)
    BY <1>2 DEF StreamInv, TypeOK, RingType
  <2>1. ASSUME NEW to \in SUBSET Clients, Change(to) PROVE Feed!Make(to)
    <3>1. Len(log') = Len(log) + 1
      BY <2>0, <2>1, StreamAssumption DEF Change, Send
    <3> QED
      BY <2>1, <3>1 DEF Change, stream, Feed!Make
  <2>2. ASSUME NEW c \in Clients, Close(c) PROVE Feed!Stop(c)
    <3>1. Listening' = Listening \ {c}
      BY <2>0, <2>2 DEF Close, Drop, Listening
    <3> QED
      BY <2>2, <3>1 DEF Close, ring, client, Feed!Stop, Listening
  <2>3. ASSUME NEW c \in Clients, NewSource(c) PROVE UNCHANGED Feed!feed
    BY <2>3 DEF NewSource, ring, stream, Feed!feed
  <2>4. CASE Restart
    BY <2>4 DEF Restart, Drop, Feed!Renew, Feed!FeedNext
  <2> QED
    BY <1>2, <2>1, <2>2, <2>3, <2>4, ServeFeed, OpenFeed DEF Next, Feed!FeedNext
<1>3. UNCHANGED vars => UNCHANGED Feed!feed
  BY DEF vars, ring, stream, client, Feed!feed
<1>4. StreamInv /\ [Next]_vars => [Feed!FeedNext]_(Feed!feed)
  BY <1>2, <1>3
<1> QED
  BY <1>1, <1>4, StreamInvariant, PTL DEF Spec, FollowsFeed, Feed!FeedSpec
-----------------------------------------------------------------------------
(***************************************************************************)
(* The threads file of ThreadsFeed, whose changes reach the tabs over the  *)
(* same stream.  The argument: while a tab shows another file than there   *)
(* is, either the engine remembers another one too, so that the next pass  *)
(* announces, or a verb or a pass holds an announcement that the bus will  *)
(* not take for an echo.  A file the bus announced last is the one the     *)
(* tabs show, since no content comes back before all is announced.         *)
(***************************************************************************)
\* What anyone read, remembers or announced was in the file at some time.
Seen ==
    /\ {file, remembered, known} \subseteq used
    /\ verb.at # "idle" => verb.sum \in used
    /\ \A p \in Passes : pass[p].at # "idle" => pass[p].sum \in used
    /\ latest \in used \cup {Unheard}

\* The tabs show the file the bus announced last, while it is there.
LatestIsShown == Duplicate(file) => known = file

\* A file the tabs do not show will be announced.
AnnouncementDue ==
    \/ known = file
    \/ remembered # file
    \/ verb.at # "idle" /\ ~Duplicate(verb.sum)
    \/ \E p \in Passes : pass[p].at = "noted" /\ ~Duplicate(pass[p].sum)

ThreadsInv == ThreadsTypeOK /\ Seen /\ LatestIsShown /\ AnnouncementDue

\* The types of the threads file, the verb and the passes are kept.
LEMMA ThreadsTyped ==
    ASSUME FeedAssumption, ThreadsTypeOK, ThreadsNext
    PROVE  ThreadsTypeOK'
<1> USE DEF ThreadsTypeOK, Idle, Announce
<1>1. CASE VerbWrites \/ OutsideEdit \/ WindowPasses
  BY <1>1 DEF VerbWrites, OutsideEdit, WindowPasses
<1>2. CASE VerbRemembers
  BY <1>2 DEF VerbRemembers
<1>3. CASE VerbAnnounces
  BY <1>3 DEF VerbAnnounces
<1>4. ASSUME NEW p \in Passes, PassReads(p) PROVE ThreadsTypeOK'
  BY <1>4 DEF PassReads
<1>5. ASSUME NEW p \in Passes, WalkCompares(p) PROVE ThreadsTypeOK'
  BY <1>5 DEF WalkCompares
<1>6. ASSUME NEW p \in Passes, TargetedRemembers(p) PROVE ThreadsTypeOK'
  BY <1>6 DEF TargetedRemembers
<1>7. ASSUME NEW p \in Passes, PassAnnounces(p) PROVE ThreadsTypeOK'
  BY <1>7 DEF PassAnnounces
<1> QED
  BY <1>1, <1>2, <1>3, <1>4, <1>5, <1>6, <1>7 DEF ThreadsNext

\* An announcement the bus takes shows the tabs the file; one it drops
\* changes nothing.
LEMMA AnnounceShows ==
    ASSUME ThreadsInv, NEW sum \in used, Announce(sum),
           UNCHANGED <<file, used>>
    PROVE  /\ latest' \in used \cup {Unheard}
           /\ known' \in used
           /\ \/ known' = file'
              \/ Duplicate(sum) /\ UNCHANGED <<latest, known>>
           /\ LatestIsShown'
BY DEF Announce, ThreadsInv, Seen, LatestIsShown, Duplicate

\* Who changes the file leaves another one remembered than there is.
LEMMA EditIsNew ==
    ASSUME FeedAssumption, Settled, ThreadsInv,
           VerbWrites \/ OutsideEdit
    PROVE  /\ Seen'
           /\ LatestIsShown'
           /\ remembered' # file'
<1>1. CASE VerbWrites
  BY <1>1 DEF VerbWrites, ThreadsInv, ThreadsTypeOK, Seen, LatestIsShown,
              Duplicate, FeedAssumption
<1>2. CASE OutsideEdit
  <2>1. PICK sum \in (Sums \cup {Gone}) \ {file} :
          /\ sum \in used => Quiet /\ (Settled => latest \in {file, Unheard})
          /\ file' = sum
          /\ used' = used \cup {sum}
    BY <1>2 DEF OutsideEdit
  <2>2. UNCHANGED <<remembered, latest, verb, pass, known>>
    BY <1>2 DEF OutsideEdit
  <2>3. Seen'
    BY <2>1, <2>2 DEF ThreadsInv, Seen
  <2>4. remembered' # file'
    BY <2>1, <2>2 DEF ThreadsInv, Seen, Quiet
  <2>5. file' # Gone => latest' # file'
    BY <2>1, <2>2 DEF ThreadsInv, Seen, FeedAssumption
  <2> QED
    BY <2>3, <2>4, <2>5 DEF LatestIsShown, Duplicate
<1> QED
  BY <1>1, <1>2

\* A pass or a verb that begins, remembers or finds nothing new.
LEMMA NotingKeepsDue ==
    ASSUME ThreadsInv, UNCHANGED <<file, latest, known, used>>,
           \/ VerbRemembers
           \/ \E p \in Passes : \/ PassReads(p) \/ WalkCompares(p)
                                \/ TargetedRemembers(p)
    PROVE  Seen' /\ LatestIsShown' /\ AnnouncementDue'
<1> USE DEF ThreadsInv, Seen, LatestIsShown, AnnouncementDue, Duplicate,
            ThreadsTypeOK
<1>1. CASE VerbRemembers
  BY <1>1 DEF VerbRemembers
<1>2. ASSUME NEW p \in Passes, PassReads(p)
      PROVE  Seen' /\ LatestIsShown' /\ AnnouncementDue'
  <2>1. PICK at \in {"walked", "read"} : pass' = [pass EXCEPT ![p] = [at |-> at, sum |-> file]]
    BY <1>2 DEF PassReads
  <2>2. UNCHANGED <<remembered, verb>> /\ pass[p] = Idle
    BY <1>2 DEF PassReads
  <2>3. \A o \in Passes \ {p} : pass'[o] = pass[o]
    BY <2>1
  <2>4. pass'[p] = [at |-> at, sum |-> file]
    BY <2>1
  <2>5. Seen' /\ LatestIsShown'
    BY <2>2, <2>3, <2>4
  <2>6. AnnouncementDue'
    BY <2>2, <2>3, <2>4 DEF Idle
  <2> QED
    BY <2>5, <2>6
<1>3. ASSUME NEW p \in Passes, WalkCompares(p) \/ TargetedRemembers(p)
      PROVE  Seen' /\ LatestIsShown' /\ AnnouncementDue'
  <2>1. /\ remembered' = pass[p].sum /\ verb' = verb
        /\ pass[p].at \in {"walked", "read"} /\ pass[p].sum \in used
        /\ \A o \in Passes \ {p} : pass'[o] = pass[o]
    BY <1>3 DEF WalkCompares, TargetedRemembers
  <2>2. \/ pass'[p] = [pass[p] EXCEPT !.at = "noted"]
        \/ pass'[p] = Idle /\ remembered = pass[p].sum
    BY <1>3 DEF WalkCompares, TargetedRemembers
  <2>3. Seen' /\ LatestIsShown'
    BY <2>1, <2>2 DEF Idle
  <2>4. CASE pass'[p] = [pass[p] EXCEPT !.at = "noted"]
    <3>1. pass'[p].at = "noted" /\ pass'[p].sum = pass[p].sum
      BY <2>4
    <3>2. AnnouncementDue'
      BY <2>1, <3>1
    <3> QED
      BY <2>3, <3>2
  <2>5. CASE pass'[p] = Idle /\ remembered = pass[p].sum
    <3>1. AnnouncementDue'
      BY <2>1, <2>5
    <3> QED
      BY <2>3, <3>1
  <2> QED
    BY <2>2, <2>4, <2>5
<1> QED
  BY <1>1, <1>2, <1>3

\* The window closes: what would have been an echo is an announcement again.
LEMMA WindowKeepsDue ==
    ASSUME FeedAssumption, ThreadsInv, WindowPasses
    PROVE  Seen' /\ LatestIsShown' /\ AnnouncementDue'
<1> USE DEF ThreadsInv, Seen, LatestIsShown, AnnouncementDue, Duplicate,
            ThreadsTypeOK, FeedAssumption, WindowPasses
<1>1. Seen' /\ LatestIsShown'
  OBVIOUS
<1>2. AnnouncementDue'
  OBVIOUS
<1> QED
  BY <1>1, <1>2

\* Somebody announces: the tabs read the file again, or whoever had to
\* announce it still has.
LEMMA AnnouncingKeepsDue ==
    ASSUME ThreadsInv,
           VerbAnnounces \/ \E p \in Passes : PassAnnounces(p)
    PROVE  Seen' /\ LatestIsShown' /\ AnnouncementDue'
<1>1. CASE VerbAnnounces
  <2>1. /\ verb.at = "noted" /\ Announce(verb.sum) /\ verb' = Idle
        /\ UNCHANGED <<file, remembered, pass, used>>
    BY <1>1 DEF VerbAnnounces
  <2>2. verb.sum \in used
    BY <2>1 DEF ThreadsInv, Seen
  <2>3. /\ latest' \in used \cup {Unheard} /\ known' \in used
        /\ LatestIsShown'
        /\ \/ known' = file'
           \/ Duplicate(verb.sum) /\ UNCHANGED <<latest, known>>
    BY <2>1, <2>2, AnnounceShows
  <2>4. Seen'
    BY <2>1, <2>3 DEF ThreadsInv, Seen, Idle
  <2>5. AnnouncementDue'
    BY <2>1, <2>3 DEF ThreadsInv, AnnouncementDue, Duplicate
  <2> QED
    BY <2>3, <2>4, <2>5
<1>2. ASSUME NEW p \in Passes, PassAnnounces(p)
      PROVE  Seen' /\ LatestIsShown' /\ AnnouncementDue'
  <2>1. /\ pass[p].at = "noted" /\ Announce(pass[p].sum)
        /\ pass' = [pass EXCEPT ![p] = Idle]
        /\ UNCHANGED <<file, remembered, verb, used>>
    BY <1>2 DEF PassAnnounces
  <2>2. pass[p].sum \in used
    BY <2>1 DEF ThreadsInv, Seen
  <2>3. /\ latest' \in used \cup {Unheard} /\ known' \in used
        /\ LatestIsShown'
        /\ \/ known' = file'
           \/ Duplicate(pass[p].sum) /\ UNCHANGED <<latest, known>>
    BY <2>1, <2>2, AnnounceShows
  <2>4. pass'[p] = Idle /\ \A o \in Passes \ {p} : pass'[o] = pass[o]
    BY <2>1 DEF ThreadsInv, ThreadsTypeOK
  <2>5. Seen'
    BY <2>1, <2>3, <2>4 DEF ThreadsInv, Seen, Idle
  <2>6. AnnouncementDue'
    BY <2>1, <2>3, <2>4 DEF ThreadsInv, AnnouncementDue, Duplicate
  <2> QED
    BY <2>3, <2>5, <2>6
<1> QED
  BY <1>1, <1>2

\* The invariant of the threads file, where it goes back to what it was only
\* when the newest announcement inside the window is of what it is.
THEOREM ThreadsInvariant ==
    ASSUME FeedAssumption, Settled PROVE ThreadsSpec => []ThreadsInv
<1>1. ThreadsInit => ThreadsInv
  BY DEF ThreadsInit, Idle, ThreadsTypeOK, ThreadsInv, Seen, LatestIsShown,
         AnnouncementDue
<1>2. ASSUME ThreadsInv, ThreadsNext PROVE ThreadsInv'
  <2>1. ThreadsTypeOK'
    BY <1>2, ThreadsTyped DEF ThreadsInv
  <2>2. CASE VerbWrites \/ OutsideEdit
    BY <1>2, <2>1, <2>2, EditIsNew DEF ThreadsInv, AnnouncementDue
  <2>3. CASE VerbAnnounces \/ \E p \in Passes : PassAnnounces(p)
    BY <1>2, <2>1, <2>3, AnnouncingKeepsDue DEF ThreadsInv
  <2>4. CASE WindowPasses
    BY <1>2, <2>1, <2>4, WindowKeepsDue DEF ThreadsInv
  <2>5. CASE \/ VerbRemembers
             \/ \E p \in Passes : \/ PassReads(p) \/ WalkCompares(p)
                                  \/ TargetedRemembers(p)
    <3>1. UNCHANGED <<file, latest, known, used>>
      BY <2>5 DEF VerbRemembers, PassReads, WalkCompares,
                  TargetedRemembers
    <3> QED
      BY <1>2, <2>1, <2>5, <3>1, NotingKeepsDue DEF ThreadsInv
  <2> QED
    BY <1>2, <2>2, <2>3, <2>4, <2>5 DEF ThreadsNext
<1>3. ASSUME ThreadsInv, UNCHANGED threadsVars PROVE ThreadsInv'
  BY <1>3 DEF threadsVars, ThreadsInv, Seen, LatestIsShown, AnnouncementDue,
              ThreadsTypeOK, Duplicate
<1>4. ThreadsInv /\ [ThreadsNext]_(threadsVars) => ThreadsInv'
  BY <1>2, <1>3
<1> QED
  BY <1>1, <1>4, PTL DEF ThreadsSpec

\* Once the engine knows the threads file and nobody has anything left to
\* announce, the tabs show it, for any contents and any number of passes.
THEOREM CurrentTheorem ==
    ASSUME FeedAssumption, Settled
    PROVE  ThreadsSpec => []TabsAreCurrent
<1>1. ThreadsInv => TabsAreCurrent
  BY DEF ThreadsInv, AnnouncementDue, TabsAreCurrent, Quiet, Idle
<1> QED
  BY <1>1, ThreadsInvariant, PTL
=============================================================================
