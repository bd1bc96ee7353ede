-------------------------- MODULE CollabRegistryProofs --------------------------
(***************************************************************************)
(* For any documents, addresses, rooms, connections and moves: what the     *)
(* registry of the co-editing rooms keeps.                                 *)
(***************************************************************************)
EXTENDS CollabRegistry, FiniteSetTheorems, TLAPS

\* A key's room was opened, and knows its key.
KeysAreKnown ==
    \A a \in Filed : room[held[a]] # NoRoom /\ room[held[a]].key = a

\* A member's room was opened.
MembersHaveRooms == \A c \in Conns : conn[c] # Out => room[conn[c].room] # NoRoom

\* Whoever may still save is in the map, or with a sweep or a move.
IsFiled(r) == held[room[r].key] = r
LiveAreKnown ==
    \A r \in Rooms : Live(r) => IsFiled(r) \/ r \in sweep.rooms \/ HeldByMove(r)

\* What a sweep took out.
SweepHolds ==
    /\ \A r \in sweep.rooms : room[r] # NoRoom
    /\ sweep.at # "saving" => sweep.rooms = {}
    /\ sweep.at = "saving" \/ ~registered => Filed = {}
    /\ ~registered => sweep = NoSweep

\* What a move took out, and what its members will be told.
TakenOut(m) == move[m] # NoMove /\ move[m].room # None
MoveHolds(m) ==
    /\ TakenOut(m) =>
         LET r == move[m].room IN
         /\ room[r] # NoRoom
         /\ \A a \in Addrs : held[a] # r
         /\ r \notin sweep.rooms
         /\ \A n \in Moves : TakenOut(n) /\ move[n].room = r => n = m
         /\ move[m].pc \in {"closed", "moved", "telling"} => room[r].disposed
         /\ room[r].told = "none" =>
              room[r].went = IF move[m].pc \in {"moved", "telling"} THEN move[m].to ELSE None
    /\ move[m].pc \in {"saving", "orphan"} => TakenOut(m)
MovesHold == \A m \in Moves : MoveHolds(m)

\* Nobody is told before the room is over, and a room that went somewhere and
\* has not been told is with the move.
TellsAreDue ==
    \A r \in Rooms :
        room[r] # NoRoom =>
        /\ room[r].told # "none" => room[r].disposed
        /\ room[r].told = "none" => room[r].went = None \/ HeldByMove(r)

\* How many moves fence a key.
Fencing(a) == {m \in Moves : move[m] # NoMove /\ move[m].from = a}
FencesCount == \A a \in Addrs : fence[a] = Cardinality(Fencing(a))

-----------------------------------------------------------------------------
LEMMA Kinds ==
    /\ NoRoom \notin Sessions /\ NoMove \notin Closes /\ Out \notin Members
    /\ \A s \in Sessions : s # NoRoom
    /\ \A x \in Closes : x # NoMove
    /\ \A x \in Members : x # Out
  <1>1. \A s \in Sessions : s # NoRoom
    BY DEF Sessions, NoRoom
  <1>2. \A x \in Closes : x # NoMove
    BY DEF Closes, NoMove
  <1>3. \A x \in Members : x # Out
    BY DEF Members, Out
  <1> QED
    BY <1>1, <1>2, <1>3

LEMMA RoomType ==
    ASSUME TypeOK, NEW r \in Rooms, room[r] # NoRoom
    PROVE  /\ room[r] \in Sessions /\ room[r].doc \in Docs /\ room[r].key \in Addrs
           /\ room[r].at \in Addrs /\ room[r].disposed \in BOOLEAN
           /\ room[r].next \in Addrs \cup {None}
           /\ Ended(r) \in Sessions /\ Ended(r).disposed
           /\ Ended(r).key = room[r].key /\ Ended(r).doc = room[r].doc
           /\ Ended(r).at = room[r].at /\ Ended(r).next = room[r].next
           /\ Ended(r).told = room[r].told /\ Ended(r).went = room[r].went
  <1>1. room[r] \in Sessions
    BY DEF TypeOK
  <1> QED
    BY <1>1 DEF Sessions, Ended

\* What telling does to a room.
LEMMA ToldType ==
    ASSUME TypeOK, NEW r \in Rooms, room[r] # NoRoom, NEW what \in {"internal"} \cup Addrs
    PROVE  LET t == Told(r, what) IN
           /\ t \in Sessions /\ t.disposed
           /\ t.key = room[r].key /\ t.doc = room[r].doc /\ t.at = room[r].at
           /\ t.next = room[r].next /\ t.went = room[r].went
           /\ t.told = IF room[r].told = "none" THEN what ELSE room[r].told
           /\ t.told # "none"
  <1>1. Ended(r) \in Sessions /\ Ended(r).told = room[r].told
    BY RoomType
  <1>2. what # "none"
    BY RegistryAssumption
  <1> QED
    BY <1>1, <1>2, RoomType DEF Told, Sessions

LEMMA MoveType ==
    ASSUME TypeOK, NEW m \in Moves, move[m] # NoMove
    PROVE  /\ move[m] \in Closes /\ move[m].doc \in Docs
           /\ move[m].from \in Addrs /\ move[m].to \in Addrs
           /\ move[m].room \in Rooms \cup {None}
           /\ \A p \in {"saving", "closed", "orphan", "moved", "telling"} :
                [move[m] EXCEPT !.pc = p] \in Closes
  <1>1. move[m] \in Closes
    BY DEF TypeOK
  <1> QED
    BY <1>1 DEF Closes

LEMMA ConnType ==
    ASSUME TypeOK, NEW c \in Conns, conn[c] # Out
    PROVE  conn[c] \in Members /\ conn[c].room \in Rooms /\ conn[c].at \in {"in", "leaving"}
  BY DEF TypeOK, Members

LEMMA NoneType ==
    /\ None \notin Rooms /\ None \notin Addrs
    /\ NoMove.pc = "idle" /\ Out.at = "out"
  BY RegistryAssumption DEF NoMove, Out

\* A move ends: one fence less on its key, whose number is not nought.
LEMMA FenceLifts ==
    ASSUME TypeOK, FencesCount, NEW m \in Moves, move[m] # NoMove,
           NEW a \in Addrs, a = move[m].from,
           fence' = Lift(a), move' = [move EXCEPT ![m] = NoMove]
    PROVE  FencesCount' /\ fence' \in [Addrs -> Nat]
  <1>1. m \in Fencing(a) /\ move \in [Moves -> Closes \cup {NoMove}]
    BY MoveType DEF TypeOK, Fencing
  <1>2. \A b \in Addrs : IsFiniteSet(Fencing(b))
    BY RegistryAssumption, FS_Subset DEF Fencing
  <1>3. Fencing(a)' = Fencing(a) \ {m}
    BY <1>1 DEF Fencing
  <1>4. \A b \in Addrs : b # a => Fencing(b)' = Fencing(b)
    BY <1>1 DEF Fencing
  <1>5. Cardinality(Fencing(a)') = Cardinality(Fencing(a)) - 1
    BY <1>1, <1>2, <1>3, FS_RemoveElement
  <1>6. fence[a] = Cardinality(Fencing(a)) /\ fence \in [Addrs -> Nat]
    BY <1>1 DEF FencesCount, TypeOK
  <1>7. Cardinality(Fencing(a)') \in Nat
    BY <1>1, <1>2, <1>3, FS_CardinalityType, FS_RemoveElement
  <1>8. \A b \in Addrs : fence'[b] = IF b = a THEN fence[a] - 1 ELSE fence[b]
    BY <1>1, <1>6 DEF Lift
  <1>9. FencesCount'
    BY <1>4, <1>5, <1>6, <1>8 DEF FencesCount
  <1>10. fence' \in [Addrs -> Nat]
    BY <1>1, <1>5, <1>6, <1>7, <1>8 DEF Lift
  <1> QED
    BY <1>9, <1>10

LEMMA FenceRises ==
    ASSUME TypeOK, FencesCount, NEW m \in Moves, move[m] = NoMove, NEW a \in Addrs,
           NEW x \in Closes, x.from = a,
           fence' = [fence EXCEPT ![a] = @ + 1], move' = [move EXCEPT ![m] = x]
    PROVE  FencesCount' /\ fence' \in [Addrs -> Nat]
  <1>1. m \notin Fencing(a) /\ move \in [Moves -> Closes \cup {NoMove}] /\ x # NoMove
    BY Kinds DEF TypeOK, Fencing
  <1>2. IsFiniteSet(Fencing(a))
    BY RegistryAssumption, FS_Subset DEF Fencing
  <1>3. Fencing(a)' = Fencing(a) \cup {m}
    BY <1>1 DEF Fencing
  <1>4. \A b \in Addrs : b # a => Fencing(b)' = Fencing(b)
    BY <1>1 DEF Fencing
  <1>5. Cardinality(Fencing(a)') = Cardinality(Fencing(a)) + 1
    BY <1>1, <1>2, <1>3, FS_AddElement
  <1>6. fence[a] = Cardinality(Fencing(a)) /\ fence \in [Addrs -> Nat]
    BY DEF FencesCount, TypeOK
  <1>7. FencesCount'
    BY <1>4, <1>5, <1>6 DEF FencesCount
  <1> QED
    BY <1>6, <1>7

\* A move goes on: what it fences does not change.
LEMMA FenceStays ==
    ASSUME TypeOK, FencesCount, UNCHANGED fence,
           \A n \in Moves : move'[n] = NoMove <=> move[n] = NoMove,
           \A n \in Moves : move[n] # NoMove => move'[n].from = move[n].from
    PROVE  FencesCount'
  <1>1. \A a \in Addrs : Fencing(a)' = Fencing(a)
    BY DEF Fencing
  <1> QED
    BY <1>1 DEF FencesCount

-----------------------------------------------------------------------------
Registered == KeysAreKnown /\ MembersHaveRooms /\ SweepHolds /\ MovesHold

LEMMA TakenType ==
    ASSUME TypeOK, MovesHold, NEW m \in Moves, TakenOut(m)
    PROVE  move[m].room \in Rooms /\ room[move[m].room] # NoRoom
  BY MoveType DEF MovesHold, MoveHolds, TakenOut

\* Told, of a room a move took out or of none.
LEMMA TellsType ==
    ASSUME TypeOK, MovesHold, NEW m \in Moves, move[m] # NoMove,
           NEW what \in {"internal"} \cup Addrs, Tells(m, what)
    PROVE  room' \in [Rooms -> Sessions \cup {NoRoom}]
  <1>1. CASE move[m].room = None
    BY <1>1 DEF Tells, TypeOK
  <1>2. CASE move[m].room # None
    <2>1. Told(move[m].room, what) \in Sessions
      BY <1>2, TakenType, ToldType DEF TakenOut
    <2> QED
      BY <1>2, <2>1 DEF Tells, TypeOK
  <1> QED
    BY <1>1, <1>2

LEMMA IncidentType == ASSUME TypeOK, Incident PROVE incidents' \in 0..MaxIncidents
  BY RegistryAssumption DEF TypeOK, Incident

LEMMA TypeStep ==
    ASSUME TypeOK, FencesCount, Registered, Next PROVE TypeOK' /\ FencesCount'
  <1> USE DEF Registered
  <1>0. UNCHANGED <<fence, move>> => FencesCount'
    BY FenceStays
  <1>1. ASSUME NEW c \in Conns, NEW a \in Addrs, JoinOpen(c, a) PROVE TypeOK' /\ FencesCount'
    <2>1. held[a] \in Rooms
      BY <1>1 DEF JoinOpen, TypeOK
    <2> QED
      BY <1>0, <1>1, <2>1 DEF JoinOpen, TypeOK, Members
  <1>2. ASSUME NEW c \in Conns, NEW a \in Addrs, JoinOpens(c, a) PROVE TypeOK' /\ FencesCount'
    <2>1. PICK d \in Docs, r \in Rooms :
            /\ room' = [room EXCEPT ![r] =
                 [open |-> TRUE, doc |-> d, key |-> a, at |-> a, next |-> None,
                  disposed |-> FALSE, told |-> "none", went |-> None]]
            /\ held' = [held EXCEPT ![a] = r]
            /\ conn' = [conn EXCEPT ![c] = [at |-> "in", room |-> r]]
      BY <1>2 DEF JoinOpens
    <2>2. room' \in [Rooms -> Sessions \cup {NoRoom}]
      BY <2>1 DEF TypeOK, Sessions
    <2> QED
      BY <1>0, <1>2, <2>1, <2>2 DEF JoinOpens, TypeOK, Members
  <1>3. ASSUME NEW c \in Conns, Leave(c) PROVE TypeOK' /\ FencesCount'
    <2>1. conn[c] \in Members
      BY <1>3, ConnType, NoneType DEF Leave
    <2>2. [conn[c] EXCEPT !.at = "leaving"] \in Members
      BY <2>1 DEF Members
    <2> QED
      BY <1>0, <1>3, <2>2 DEF Leave, TypeOK
  <1>4. ASSUME NEW c \in Conns, DisposeIfEmpty(c) PROVE TypeOK' /\ FencesCount'
    <2>1. conn[c].room \in Rooms /\ room[conn[c].room] # NoRoom
      BY <1>4, ConnType, NoneType DEF DisposeIfEmpty, MembersHaveRooms
    <2>2. Ended(conn[c].room) \in Sessions
      BY <2>1, RoomType
    <2>3. room' \in [Rooms -> Sessions \cup {NoRoom}] /\ held' \in [Addrs -> Rooms \cup {None}]
      BY <1>4, <2>2 DEF DisposeIfEmpty, TypeOK
    <2> QED
      BY <1>0, <1>4, <2>3 DEF DisposeIfEmpty, TypeOK
  <1>5. ASSUME NEW r \in Rooms, NEW b \in Addrs, SaveRenames(r, b) PROVE TypeOK' /\ FencesCount'
    <2>1. room[r] \in Sessions
      BY <1>5, RoomType DEF SaveRenames, Live
    <2>2. [room[r] EXCEPT !.at = b, !.next = b] \in Sessions
      BY <2>1 DEF Sessions
    <2> QED
      BY <1>0, <1>5, <2>2, IncidentType DEF SaveRenames, TypeOK
  <1>6. ASSUME NEW r \in Rooms, Rekey(r) PROVE TypeOK' /\ FencesCount'
    <2>1. room[r] \in Sessions /\ room[r].next \in Addrs
      BY <1>6, RoomType DEF Rekey
    <2>2. /\ [room[r] EXCEPT !.key = room[r].next, !.next = None] \in Sessions
          /\ [room[r] EXCEPT !.next = None] \in Sessions
      BY <2>1 DEF Sessions
    <2> QED
      BY <1>0, <1>6, <2>1, <2>2 DEF Rekey, TypeOK
  <1>7. ASSUME NEW r \in Rooms, Poison(r) PROVE TypeOK' /\ FencesCount'
    <2>1. Told(r, "internal") \in Sessions
      BY <1>7, ToldType DEF Poison, Live
    <2> QED
      BY <1>0, <1>7, <2>1, RegistryAssumption DEF Poison, Incident, TypeOK
  <1>8. ASSUME NEW r \in Rooms, SweepCloses(r) PROVE TypeOK' /\ FencesCount'
    <2>1. Told(r, "internal") \in Sessions
      BY <1>8, ToldType DEF SweepCloses, SweepHolds
    <2>2. room' \in [Rooms -> Sessions \cup {NoRoom}]
      BY <1>8, <2>1 DEF SweepCloses, TypeOK
    <2> QED
      BY <1>0, <1>8, <2>2 DEF SweepCloses, TypeOK
  <1>9. ASSUME NEW m \in Moves, NEW d \in Docs, NEW a \in Addrs, NEW b \in Addrs,
               CloseForMove(m, d, a, b)
        PROVE  TypeOK' /\ FencesCount'
    <2> DEFINE x == [pc |-> IF held[a] = None THEN "closed" ELSE "saving",
                     doc |-> d, from |-> a, to |-> b, room |-> held[a]]
    <2>1. x \in Closes /\ x.from = a /\ move' = [move EXCEPT ![m] = x] /\ move[m] = NoMove
          /\ fence' = [fence EXCEPT ![a] = @ + 1]
      BY <1>9 DEF CloseForMove, TypeOK, Closes
    <2> HIDE DEF x
    <2>2. FencesCount' /\ fence' \in [Addrs -> Nat]
      BY <2>1, FenceRises
    <2> QED
      BY <1>9, <2>1, <2>2 DEF CloseForMove, TypeOK
  <1>10. ASSUME NEW m \in Moves,
                MoveSaved(m) \/ MoveCommits(m) \/ MoveCancelled(m) \/ MoveOrphaned(m)
         PROVE  TypeOK' /\ FencesCount'
    <2>1. PICK p \in {"saving", "closed", "orphan", "moved", "telling"} :
            move' = [move EXCEPT ![m].pc = p] /\ UNCHANGED fence
      BY <1>10 DEF MoveSaved, MoveCommits, MoveCancelled, MoveOrphaned
    <2>2. move[m] # NoMove
      BY <1>10, NoneType DEF MoveSaved, MoveCommits, MoveCancelled, MoveOrphaned
    <2>3. [move[m] EXCEPT !.pc = p] \in Closes /\ move[m] \in Closes
      BY <2>2, MoveType
    <2>4. move' \in [Moves -> Closes \cup {NoMove}] /\ move'[m].from = move[m].from
      BY <2>1, <2>3 DEF TypeOK, Closes
    <2>5. FencesCount'
      BY <2>1, <2>2, <2>3, <2>4, FenceStays, Kinds DEF TypeOK
    <2>6. addr' \in [Docs -> Addrs \cup {None}] /\ room' \in [Rooms -> Sessions \cup {NoRoom}]
      <3>1. CASE MoveSaved(m)
        <4>1. TakenOut(m)
          BY <3>1 DEF MoveSaved, MovesHold, MoveHolds
        <4>2. Ended(move[m].room) \in Sessions
          BY <4>1, TakenType, RoomType
        <4> QED
          BY <3>1, <4>2 DEF MoveSaved, TypeOK
      <3>2. CASE MoveCommits(m)
        <4>1. ASSUME move[m].room # None
              PROVE  [room[move[m].room] EXCEPT !.went = move[m].to] \in Sessions
          <5>1. room[move[m].room] \in Sessions /\ move[m].to \in Addrs
            BY <2>2, <4>1, TakenType, RoomType, MoveType DEF TakenOut
          <5> QED
            BY <5>1 DEF Sessions
        <4> QED
          BY <2>2, <3>2, <4>1, MoveType DEF MoveCommits, TypeOK
      <3>3. CASE MoveCancelled(m) \/ MoveOrphaned(m)
        BY <3>3 DEF MoveCancelled, MoveOrphaned, TypeOK
      <3> QED
        BY <1>10, <3>1, <3>2, <3>3
    <2> QED
      BY <1>10, <2>4, <2>5, <2>6 DEF MoveSaved, MoveCommits, MoveCancelled, MoveOrphaned, TypeOK
  <1>11. ASSUME NEW m \in Moves, MoveDrops(m) \/ OrphanEnds(m) \/ MoveTells(m)
         PROVE  TypeOK' /\ FencesCount'
    <2>1. move[m] # NoMove
      BY <1>11, NoneType DEF MoveDrops, OrphanEnds, MoveTells
    <2>2. PICK what \in {"internal"} \cup Addrs : Tells(m, what)
      BY <1>11, <2>1, MoveType DEF MoveDrops, OrphanEnds, MoveTells
    <2>3. room' \in [Rooms -> Sessions \cup {NoRoom}]
      BY <2>1, <2>2, TellsType
    <2>4. PICK a \in Addrs : a = move[m].from /\ fence' = Lift(a)
      BY <1>11, <2>1, MoveType DEF MoveDrops, OrphanEnds, MoveTells
    <2>5. move' = [move EXCEPT ![m] = NoMove]
      BY <1>11 DEF MoveDrops, OrphanEnds, MoveTells
    <2>6. FencesCount' /\ fence' \in [Addrs -> Nat]
      BY <2>1, <2>4, <2>5, FenceLifts
    <2> QED
      BY <1>11, <2>3, <2>5, <2>6 DEF MoveDrops, OrphanEnds, MoveTells, TypeOK
  <1>12. ASSUME SweepBegins \/ SweepRefused \/ SweepCollects \/ SweepEnds \/ AddAgain
         PROVE  TypeOK' /\ FencesCount'
    <2>1. {held[a] : a \in Filed} \subseteq Rooms
      BY DEF Filed, TypeOK
    <2>2. CASE SweepBegins
      BY <1>0, <2>2, IncidentType DEF SweepBegins, TypeOK
    <2>3. CASE SweepRefused
      BY <1>0, <2>3 DEF SweepRefused, NoSweep, TypeOK
    <2>4. CASE SweepCollects
      BY <1>0, <2>1, <2>4 DEF SweepCollects, TypeOK
    <2>5. CASE SweepEnds
      BY <1>0, <2>5 DEF SweepEnds, NoSweep, TypeOK
    <2>6. CASE AddAgain
      BY <1>0, <2>6 DEF AddAgain, TypeOK
    <2> QED
      BY <1>12, <2>2, <2>3, <2>4, <2>5, <2>6
  <1>13. ASSUME NEW d \in Docs, Delete(d) PROVE TypeOK' /\ FencesCount'
    BY <1>0, <1>13, RegistryAssumption DEF Delete, Incident, TypeOK
  <1> QED
    BY <1>1, <1>2, <1>3, <1>4, <1>5, <1>6, <1>7, <1>8, <1>9, <1>10, <1>11, <1>12, <1>13 DEF Next

-----------------------------------------------------------------------------
\* The steps but for a room that opens, one that is filed anew, and a move that
\* commits.
Plain ==
    \/ \E c \in Conns, a \in Addrs : JoinOpen(c, a)
    \/ \E c \in Conns : Leave(c) \/ DisposeIfEmpty(c)
    \/ \E r \in Rooms, b \in Addrs : SaveRenames(r, b)
    \/ \E r \in Rooms : Poison(r) \/ SweepCloses(r)
    \/ \E m \in Moves, d \in Docs, a, b \in Addrs : CloseForMove(m, d, a, b)
    \/ \E m \in Moves :
        \/ MoveSaved(m) \/ MoveDrops(m) \/ MoveCancelled(m)
        \/ OrphanEnds(m) \/ MoveOrphaned(m) \/ MoveTells(m)
    \/ SweepBegins \/ SweepRefused \/ SweepCollects \/ SweepEnds \/ AddAgain
    \/ \E d \in Docs : Delete(d)
Opening == \E c \in Conns, a \in Addrs : JoinOpens(c, a)
Rekeying == \E r \in Rooms : Rekey(r)
Committing == \E m \in Moves : MoveCommits(m)

LEMMA NextParts == Next <=> Plain \/ Opening \/ Rekeying \/ Committing
  BY DEF Next, Plain, Opening, Rekeying, Committing

\* But for a room that opens and one that is filed anew, no step opens a room,
\* files one or forgets that one is over.
RoomsStay ==
    \A r \in Rooms :
        /\ room'[r] = NoRoom <=> room[r] = NoRoom
        /\ room[r] # NoRoom =>
             /\ room'[r].key = room[r].key /\ room'[r].doc = room[r].doc
             /\ room[r].disposed => room'[r].disposed
             /\ room[r].told # "none" => room'[r].told = room[r].told
HeldShrinks == \A a \in Addrs : held'[a] \in {held[a], None}

\* A room that a step ends, or one whose members it tells.
EndsRoom(r) ==
    /\ room[r] # NoRoom
    /\ \E s \in Sessions :
         /\ s.disposed /\ s.key = room[r].key /\ s.doc = room[r].doc /\ s.at = room[r].at
         /\ s.next = room[r].next /\ s.went = room[r].went
         /\ room[r].told # "none" => s.told = room[r].told
         /\ room' = [room EXCEPT ![r] = s]

LEMMA EndsStay == ASSUME TypeOK, NEW r \in Rooms, EndsRoom(r) PROVE RoomsStay
  <1>1. room \in [Rooms -> Sessions \cup {NoRoom}]
    BY DEF TypeOK
  <1> QED
    BY <1>1, Kinds DEF EndsRoom, RoomsStay

\* The steps that end rooms, and which.
LEMMA Enders ==
    ASSUME TypeOK, Registered
    PROVE  /\ \A c \in Conns : DisposeIfEmpty(c) =>
                UNCHANGED <<held, room>> \/ EndsRoom(conn[c].room)
           /\ \A r \in Rooms : Poison(r) \/ SweepCloses(r) => EndsRoom(r)
           /\ \A m \in Moves : MoveSaved(m) => EndsRoom(move[m].room)
           /\ \A m \in Moves : MoveDrops(m) \/ OrphanEnds(m) \/ MoveTells(m) =>
                IF TakenOut(m) THEN EndsRoom(move[m].room) ELSE UNCHANGED room
  <1> USE DEF Registered
  <1>1. ASSUME NEW r \in Rooms, room[r] # NoRoom, room' = [room EXCEPT ![r] = Ended(r)]
        PROVE  EndsRoom(r)
    BY <1>1, RoomType DEF EndsRoom
  <1>2. ASSUME NEW r \in Rooms, room[r] # NoRoom, NEW what \in {"internal"} \cup Addrs,
               room' = [room EXCEPT ![r] = Told(r, what)]
        PROVE  EndsRoom(r)
    <2> DEFINE t == Told(r, what)
    <2>1. /\ t \in Sessions /\ t.disposed
          /\ t.key = room[r].key /\ t.doc = room[r].doc /\ t.at = room[r].at
          /\ t.next = room[r].next /\ t.went = room[r].went
          /\ room[r].told # "none" => t.told = room[r].told
      BY <1>2, ToldType
    <2> HIDE DEF t
    <2>2. room' = [room EXCEPT ![r] = t]
      BY <1>2 DEF t
    <2> QED
      BY <1>2, <2>1, <2>2 DEF EndsRoom
  <1>3. ASSUME NEW c \in Conns, DisposeIfEmpty(c)
        PROVE  UNCHANGED <<held, room>> \/ EndsRoom(conn[c].room)
    <2>1. conn[c].room \in Rooms /\ room[conn[c].room] # NoRoom
      BY <1>3, ConnType, NoneType DEF DisposeIfEmpty, MembersHaveRooms
    <2> QED
      BY <1>1, <1>3, <2>1 DEF DisposeIfEmpty
  <1>4. ASSUME NEW r \in Rooms, Poison(r) \/ SweepCloses(r) PROVE EndsRoom(r)
    BY <1>2, <1>4 DEF Poison, SweepCloses, SweepHolds, Live
  <1>5. ASSUME NEW m \in Moves, MoveSaved(m) PROVE EndsRoom(move[m].room)
    <2>1. TakenOut(m)
      BY <1>5 DEF MoveSaved, MovesHold, MoveHolds
    <2> QED
      BY <1>1, <1>5, <2>1, TakenType DEF MoveSaved
  <1>6. ASSUME NEW m \in Moves, MoveDrops(m) \/ OrphanEnds(m) \/ MoveTells(m)
        PROVE  IF TakenOut(m) THEN EndsRoom(move[m].room) ELSE UNCHANGED room
    <2>1. move[m] # NoMove
      BY <1>6, NoneType DEF MoveDrops, OrphanEnds, MoveTells
    <2>2. PICK what \in {"internal"} \cup Addrs : Tells(m, what)
      BY <1>6, <2>1, MoveType DEF MoveDrops, OrphanEnds, MoveTells
    <2> QED
      BY <1>2, <2>1, <2>2, TakenType DEF Tells, TakenOut
  <1> QED
    BY <1>3, <1>4, <1>5, <1>6

LEMMA StaysStep ==
    ASSUME TypeOK, Registered, Plain \/ Committing
    PROVE  RoomsStay /\ HeldShrinks
  <1>0. UNCHANGED room => RoomsStay
    BY DEF RoomsStay
  <1>1. UNCHANGED held => HeldShrinks
    BY DEF HeldShrinks
  <1>2. ASSUME NEW c \in Conns, DisposeIfEmpty(c) PROVE RoomsStay /\ HeldShrinks
    <2>1. HeldShrinks
      BY <1>2 DEF DisposeIfEmpty, HeldShrinks, TypeOK
    <2>2. conn[c].room \in Rooms
      BY <1>2, ConnType, NoneType DEF DisposeIfEmpty
    <2> QED
      BY <1>0, <1>2, <2>1, <2>2, Enders, EndsStay
  <1>3. ASSUME NEW r \in Rooms, Poison(r) \/ SweepCloses(r) PROVE RoomsStay /\ HeldShrinks
    BY <1>1, <1>3, Enders, EndsStay DEF Poison, SweepCloses
  <1>4. ASSUME NEW m \in Moves, MoveSaved(m) PROVE RoomsStay /\ HeldShrinks
    <2>1. TakenOut(m)
      BY <1>4 DEF MoveSaved, Registered, MovesHold, MoveHolds
    <2> QED
      BY <1>1, <1>4, <2>1, TakenType, Enders, EndsStay DEF MoveSaved, Registered
  <1>5. ASSUME NEW m \in Moves, MoveDrops(m) \/ OrphanEnds(m) \/ MoveTells(m)
        PROVE  RoomsStay /\ HeldShrinks
    BY <1>0, <1>1, <1>5, TakenType, Enders, EndsStay
       DEF MoveDrops, OrphanEnds, MoveTells, Registered
  <1>6. ASSUME NEW m \in Moves, MoveCommits(m) PROVE RoomsStay /\ HeldShrinks
    <2>1. CASE UNCHANGED room
      BY <1>0, <1>1, <1>6, <2>1 DEF MoveCommits
    <2>2. CASE /\ move[m].room # None
               /\ room' = [room EXCEPT ![move[m].room].went = move[m].to]
      <3> DEFINE r == move[m].room
      <3>1. r \in Rooms /\ room[r] \in Sessions /\ move[m].to \in Addrs
        BY <1>6, <2>2, TakenType, RoomType, MoveType, NoneType
           DEF MoveCommits, TakenOut, Registered
      <3>2. RoomsStay
        BY <2>2, <3>1, Kinds DEF RoomsStay, Sessions, TypeOK
      <3> QED
        BY <1>1, <1>6, <3>2 DEF MoveCommits
    <2> QED
      BY <1>6, <2>1, <2>2 DEF MoveCommits
  <1>7. ASSUME NEW r \in Rooms, NEW b \in Addrs, SaveRenames(r, b)
        PROVE  RoomsStay /\ HeldShrinks
    <2>1. room[r] \in Sessions
      BY <1>7, RoomType DEF SaveRenames, Live
    <2>2. RoomsStay
      BY <1>7, <2>1, Kinds DEF SaveRenames, RoomsStay, Sessions, TypeOK
    <2> QED
      BY <1>1, <1>7, <2>2 DEF SaveRenames
  <1>8. ASSUME NEW c \in Conns, Leave(c) \/ \E a \in Addrs : JoinOpen(c, a)
        PROVE  RoomsStay /\ HeldShrinks
    BY <1>0, <1>1, <1>8 DEF JoinOpen, Leave
  <1>9. ASSUME NEW m \in Moves, NEW d \in Docs, NEW a \in Addrs, NEW b \in Addrs,
               CloseForMove(m, d, a, b)
        PROVE  RoomsStay /\ HeldShrinks
    BY <1>0, <1>9 DEF CloseForMove, HeldShrinks, TypeOK
  <1>10. ASSUME NEW m \in Moves, MoveCancelled(m) \/ MoveOrphaned(m)
         PROVE  RoomsStay /\ HeldShrinks
    BY <1>0, <1>1, <1>10 DEF MoveCancelled, MoveOrphaned
  <1>11. CASE SweepCollects
    BY <1>0, <1>11 DEF SweepCollects, HeldShrinks
  <1>12. CASE SweepBegins \/ SweepRefused \/ SweepEnds \/ AddAgain
    BY <1>0, <1>1, <1>12 DEF SweepBegins, SweepRefused, SweepEnds, AddAgain
  <1>13. ASSUME NEW d \in Docs, Delete(d) PROVE RoomsStay /\ HeldShrinks
    BY <1>0, <1>1, <1>13 DEF Delete
  <1> QED
    BY <1>2, <1>3, <1>4, <1>5, <1>6, <1>7, <1>8, <1>9, <1>10, <1>11, <1>12, <1>13
       DEF Plain, Committing

-----------------------------------------------------------------------------
\* A room that is opened: at a key where nobody is.
Opens(d, r, a, c) ==
    /\ room[r] = NoRoom /\ addr[d] = a /\ Vacant(a)
    /\ room'[r] \in Sessions /\ ~room'[r].disposed
    /\ room'[r].doc = d /\ room'[r].key = a /\ room'[r].at = a /\ room'[r].next = None
    /\ room'[r].told = "none" /\ room'[r].went = None
    /\ \A q \in Rooms : q # r => room'[q] = room[q]
    /\ held' = [held EXCEPT ![a] = r]
    /\ conn' = [conn EXCEPT ![c] = [at |-> "in", room |-> r]]

LEMMA OpensEffects ==
    ASSUME TypeOK, NEW c \in Conns, NEW a \in Addrs, JoinOpens(c, a)
    PROVE  \E d \in Docs, r \in Rooms : Opens(d, r, a, c)
  <1>1. PICK d \in Docs, r \in Rooms :
          /\ addr[d] = a /\ room[r] = NoRoom
          /\ room' = [room EXCEPT ![r] =
               [open |-> TRUE, doc |-> d, key |-> a, at |-> a, next |-> None,
                disposed |-> FALSE, told |-> "none", went |-> None]]
          /\ held' = [held EXCEPT ![a] = r]
          /\ conn' = [conn EXCEPT ![c] = [at |-> "in", room |-> r]]
    BY DEF JoinOpens
  <1>2. room'[r] = [open |-> TRUE, doc |-> d, key |-> a, at |-> a, next |-> None,
                    disposed |-> FALSE, told |-> "none", went |-> None]
    BY <1>1 DEF TypeOK
  <1>3. room'[r] \in Sessions
    BY <1>2 DEF Sessions
  <1>4. \A q \in Rooms : q # r => room'[q] = room[q]
    BY <1>1 DEF TypeOK
  <1>5. Vacant(a)
    BY DEF JoinOpens
  <1>6. /\ room'[r].disposed = FALSE /\ room'[r].doc = d /\ room'[r].key = a
        /\ room'[r].at = a /\ room'[r].next = None
        /\ room'[r].told = "none" /\ room'[r].went = None
    BY <1>2
  <1> QED
    BY <1>1, <1>3, <1>4, <1>5, <1>6 DEF Opens

\* A room that is filed anew, or is not.
Rekeyed(r) ==
    /\ room[r] # NoRoom /\ room'[r] \in Sessions
    /\ room[r].next \in Addrs /\ room'[r].next = None
    /\ room'[r].doc = room[r].doc /\ room'[r].at = room[r].at
    /\ room'[r].disposed = room[r].disposed
    /\ room'[r].told = room[r].told /\ room'[r].went = room[r].went
    /\ \A q \in Rooms : q # r => room'[q] = room[q]
    /\ \/ /\ held' = held /\ room'[r].key = room[r].key
          /\ room[r].next = room[r].key \/ ~Refiled(r, room[r].next)
       \/ /\ room[r].next # room[r].key /\ Refiled(r, room[r].next)
          /\ room'[r].key = room[r].next
          /\ held' = [held EXCEPT ![room[r].key] = None, ![room[r].next] = r]

LEMMA RekeyEffects ==
    ASSUME TypeOK, NEW r \in Rooms, Rekey(r) PROVE Rekeyed(r)
  <1>1. room[r] \in Sessions /\ room[r].next \in Addrs
    BY RoomType DEF Rekey
  <1>2. LET s == [room[r] EXCEPT !.key = room[r].next, !.next = None] IN
        /\ s \in Sessions /\ s.key = room[r].next /\ s.next = None
        /\ s.doc = room[r].doc /\ s.at = room[r].at /\ s.disposed = room[r].disposed
        /\ s.told = room[r].told /\ s.went = room[r].went
    BY <1>1 DEF Sessions
  <1>3. LET s == [room[r] EXCEPT !.next = None] IN
        /\ s \in Sessions /\ s.key = room[r].key /\ s.next = None
        /\ s.doc = room[r].doc /\ s.at = room[r].at /\ s.disposed = room[r].disposed
        /\ s.told = room[r].told /\ s.went = room[r].went
    BY <1>1 DEF Sessions
  <1>4. CASE room[r].next # room[r].key /\ Refiled(r, room[r].next)
    <2>1. /\ room' = [room EXCEPT ![r] = [room[r] EXCEPT !.key = room[r].next, !.next = None]]
          /\ held' = [held EXCEPT ![room[r].key] = None, ![room[r].next] = r]
      BY <1>4 DEF Rekey
    <2> QED
      BY <1>1, <1>2, <1>4, <2>1, Kinds DEF Rekeyed, TypeOK
  <1>5. CASE ~(room[r].next # room[r].key /\ Refiled(r, room[r].next))
    <2>1. room' = [room EXCEPT ![r] = [room[r] EXCEPT !.next = None]] /\ held' = held
      BY <1>5 DEF Rekey
    <2> QED
      BY <1>1, <1>3, <1>5, <2>1, Kinds DEF Rekeyed, TypeOK
  <1> QED
    BY <1>4, <1>5

LEMMA KeysStep == ASSUME TypeOK, Registered, Next PROVE KeysAreKnown'
  <1> USE DEF Registered, KeysAreKnown, Filed
  <1>0. held \in [Addrs -> Rooms \cup {None}] /\ None \notin Rooms
    BY NoneType DEF TypeOK
  <1>1. ASSUME NEW c \in Conns, NEW a \in Addrs, JoinOpens(c, a) PROVE KeysAreKnown'
    <2>1. PICK d \in Docs, r \in Rooms : Opens(d, r, a, c)
      BY <1>1, OpensEffects
    <2> QED
      BY <1>0, <2>1, Kinds DEF Opens
  <1>2. ASSUME NEW r \in Rooms, Rekey(r) PROVE KeysAreKnown'
    <2>1. Rekeyed(r)
      BY <1>2, RekeyEffects
    <2>2. CASE held' = held /\ room'[r].key = room[r].key
      BY <1>0, <2>1, <2>2, Kinds DEF Rekeyed
    <2>3. CASE /\ Refiled(r, room[r].next) /\ room'[r].key = room[r].next
               /\ held' = [held EXCEPT ![room[r].key] = None, ![room[r].next] = r]
      BY <1>0, <2>1, <2>3, Kinds DEF Rekeyed, Refiled
    <2> QED
      BY <2>1, <2>2, <2>3 DEF Rekeyed
  <1>3. CASE Plain \/ Committing
    <2>1. RoomsStay /\ HeldShrinks
      BY <1>3, StaysStep
    <2> QED
      BY <1>0, <2>1 DEF RoomsStay, HeldShrinks
  <1> QED
    BY <1>1, <1>2, <1>3, NextParts DEF Opening, Rekeying

\* No room is closed for good: who has one keeps one.
LEMMA OpenedStay ==
    ASSUME TypeOK, Registered, Next
    PROVE  \A r \in Rooms : room[r] # NoRoom =>
             /\ room'[r] # NoRoom /\ room'[r].doc = room[r].doc
             /\ room[r].disposed => room'[r].disposed
             /\ room[r].told # "none" => room'[r].told = room[r].told
  <1>1. ASSUME NEW c \in Conns, NEW a \in Addrs, JoinOpens(c, a)
        PROVE  \A r \in Rooms : room[r] # NoRoom => room'[r] = room[r]
    <2>1. PICK d \in Docs, r \in Rooms : Opens(d, r, a, c)
      BY <1>1, OpensEffects
    <2> QED
      BY <2>1 DEF Opens
  <1>2. ASSUME NEW r \in Rooms, Rekey(r) PROVE Rekeyed(r)
    BY <1>2, RekeyEffects
  <1>3. CASE Plain \/ Committing
    BY <1>3, StaysStep DEF RoomsStay
  <1> QED
    BY <1>1, <1>2, <1>3, NextParts, Kinds DEF Rekeyed, Opening, Rekeying

\* Who is in a room, after each kind of step.
Joins(c) == \E a \in Addrs : JoinOpen(c, a) \/ JoinOpens(c, a)

LEMMA ConnsStay ==
    ASSUME TypeOK, Next, \A c \in Conns : ~Joins(c) /\ ~Leave(c) /\ ~DisposeIfEmpty(c)
    PROVE  UNCHANGED conn
  BY DEF Next, Joins, SaveRenames, Rekey, Poison, SweepCloses, CloseForMove, MoveSaved,
         MoveCommits, MoveDrops, MoveCancelled, OrphanEnds, MoveOrphaned, MoveTells,
         SweepBegins, SweepRefused, SweepCollects, SweepEnds, AddAgain, Delete

LEMMA MembersStep == ASSUME TypeOK, Registered, Next PROVE MembersHaveRooms'
  <1> USE DEF Registered, MembersHaveRooms
  <1>0. conn \in [Conns -> Members \cup {Out}]
    BY DEF TypeOK
  <1>1. ASSUME NEW c \in Conns, NEW a \in Addrs, JoinOpen(c, a) PROVE MembersHaveRooms'
    <2>1. held[a] \in Rooms /\ room[held[a]] # NoRoom
      BY <1>1 DEF JoinOpen, Live, TypeOK
    <2>2. UNCHANGED room /\ conn' = [conn EXCEPT ![c] = [at |-> "in", room |-> held[a]]]
      BY <1>1 DEF JoinOpen
    <2> QED
      BY <1>0, <2>1, <2>2
  <1>2. ASSUME NEW c \in Conns, NEW a \in Addrs, JoinOpens(c, a) PROVE MembersHaveRooms'
    <2>1. PICK d \in Docs, r \in Rooms : Opens(d, r, a, c)
      BY <1>2, OpensEffects
    <2> QED
      BY <1>0, <2>1, ConnType, OpenedStay, Kinds DEF Opens
  <1>3. ASSUME NEW c \in Conns, Leave(c) PROVE MembersHaveRooms'
    <2>1. conn[c] # Out /\ conn[c] \in Members /\ UNCHANGED room
      BY <1>3, <1>0, NoneType DEF Leave
    <2>2. conn'[c] = Out \/ conn'[c].room = conn[c].room
      BY <1>0, <1>3, <2>1 DEF Leave, Members
    <2> QED
      BY <1>0, <1>3, <2>1, <2>2 DEF Leave
  <1>4. ASSUME NEW c \in Conns, DisposeIfEmpty(c) PROVE MembersHaveRooms'
    <2>1. conn' = [conn EXCEPT ![c] = Out]
      BY <1>4 DEF DisposeIfEmpty
    <2> QED
      BY <1>0, <2>1, ConnType, OpenedStay
  <1>5. CASE UNCHANGED conn
    BY <1>5, ConnType, OpenedStay
  <1> QED
    BY <1>1, <1>2, <1>3, <1>4, <1>5, ConnsStay DEF Joins

-----------------------------------------------------------------------------
\* The steps that leave the sweep alone.
LEMMA SweepStays ==
    ASSUME TypeOK, Registered, Next, UNCHANGED <<sweep, registered>>,
           (sweep.at = "saving" \/ ~registered) /\ Filed = {} => Filed' = {}
    PROVE  SweepHolds'
  <1>1. sweep.rooms \subseteq Rooms
    BY DEF TypeOK
  <1> QED
    BY <1>1, OpenedStay DEF Registered, SweepHolds

LEMMA Shrinks == ASSUME HeldShrinks, Filed = {} PROVE Filed' = {}
  BY DEF HeldShrinks, Filed

LEMMA SweepStep == ASSUME TypeOK, Registered, Next PROVE SweepHolds'
  <1>1. ASSUME NEW c \in Conns, NEW a \in Addrs, JoinOpens(c, a) PROVE SweepHolds'
    BY <1>1, SweepStays DEF JoinOpens, MayJoin
  <1>2. ASSUME NEW r \in Rooms, Rekey(r) PROVE SweepHolds'
    <2>1. Rekeyed(r)
      BY <1>2, RekeyEffects
    <2>2. Filed = {} => held' = held
      <3> SUFFICES ASSUME Filed = {}, Refiled(r, room[r].next) PROVE FALSE
        BY <2>1 DEF Rekeyed
      <3>1. room[r].key \in Addrs /\ held[room[r].key] = r /\ r # None
        BY <2>1, RoomType, NoneType DEF Refiled, Rekeyed
      <3> QED
        BY <3>1 DEF Filed
    <2>3. Filed = {} => Filed' = {}
      BY <2>2 DEF Filed
    <2> QED
      BY <1>2, <2>3, SweepStays DEF Rekey
  <1>3. CASE SweepBegins \/ SweepRefused
    BY <1>3 DEF SweepBegins, SweepRefused, NoSweep, Registered, SweepHolds, Filed
  <1>4. CASE SweepCollects
    <2>1. \A r \in sweep'.rooms : room[r] # NoRoom
      BY <1>4 DEF SweepCollects, Registered, KeysAreKnown
    <2>2. Filed' = {}
      BY <1>4 DEF SweepCollects, Filed
    <2>3. registered /\ sweep' = [at |-> "saving", rooms |-> {held[a] : a \in Filed}]
      BY <1>4 DEF SweepCollects, Registered, SweepHolds, NoSweep
    <2> QED
      BY <1>4, <2>1, <2>2, <2>3 DEF SweepCollects, SweepHolds
  <1>5. ASSUME NEW r \in Rooms, SweepCloses(r) PROVE SweepHolds'
    <2>1. sweep.at = "saving" /\ sweep # NoSweep
      BY <1>5 DEF SweepCloses, Registered, SweepHolds, NoSweep
    <2>2. sweep'.rooms \subseteq sweep.rooms /\ sweep'.at = "saving" /\ UNCHANGED <<held, registered>>
      BY <1>5, <2>1 DEF SweepCloses, TypeOK
    <2>3. \A q \in sweep'.rooms : room'[q] # NoRoom
      BY <2>2, OpenedStay DEF Registered, SweepHolds, TypeOK
    <2> QED
      BY <2>1, <2>2, <2>3 DEF Registered, SweepHolds, Filed
  <1>6. CASE SweepEnds
    BY <1>6 DEF SweepEnds, NoSweep, Registered, SweepHolds, Filed
  <1>7. CASE AddAgain
    BY <1>7 DEF AddAgain, NoSweep, Registered, SweepHolds, Filed
  <1>8. ASSUME Plain \/ Committing, UNCHANGED <<sweep, registered>> PROVE SweepHolds'
    BY <1>8, StaysStep, Shrinks, SweepStays
  <1> QED
    BY <1>1, <1>2, <1>3, <1>4, <1>5, <1>6, <1>7, <1>8, NextParts
       DEF Plain, Opening, Rekeying, Committing, JoinOpen, Leave, DisposeIfEmpty, SaveRenames, Poison, CloseForMove, MoveSaved,
           MoveCommits, MoveDrops, MoveCancelled, OrphanEnds, MoveOrphaned, MoveTells, Delete

\* Where a room's document went changes with a commit only.
WentStays ==
    \A r \in Rooms : room[r] # NoRoom => room'[r].went = room[r].went

LEMMA WentStep ==
    ASSUME TypeOK, Registered, Plain \/ Opening \/ Rekeying PROVE WentStays
  <1> USE DEF WentStays
  <1>1. ASSUME NEW r \in Rooms, EndsRoom(r) PROVE WentStays
    BY <1>1 DEF EndsRoom, TypeOK
  <1>2. ASSUME NEW c \in Conns, DisposeIfEmpty(c) PROVE WentStays
    <2>1. conn[c].room \in Rooms
      BY <1>2, ConnType, NoneType DEF DisposeIfEmpty
    <2> QED
      BY <1>1, <1>2, <2>1, Enders
  <1>3. ASSUME NEW r \in Rooms, Poison(r) \/ SweepCloses(r) PROVE WentStays
    BY <1>1, <1>3, Enders
  <1>4. ASSUME NEW m \in Moves,
               MoveSaved(m) \/ MoveDrops(m) \/ OrphanEnds(m) \/ MoveTells(m)
        PROVE  WentStays
    <2>1. MoveSaved(m) => TakenOut(m)
      BY DEF MoveSaved, Registered, MovesHold, MoveHolds
    <2> QED
      BY <1>1, <1>4, <2>1, TakenType, Enders DEF Registered
  <1>5. ASSUME NEW c \in Conns, NEW a \in Addrs, JoinOpens(c, a) PROVE WentStays
    <2>1. PICK d \in Docs, r \in Rooms : Opens(d, r, a, c)
      BY <1>5, OpensEffects
    <2> QED
      BY <2>1 DEF Opens
  <1>6. ASSUME NEW r \in Rooms, Rekey(r) PROVE WentStays
    BY <1>6, RekeyEffects DEF Rekeyed
  <1>7. ASSUME NEW r \in Rooms, NEW b \in Addrs, SaveRenames(r, b) PROVE WentStays
    <2>1. room[r] \in Sessions
      BY <1>7, RoomType DEF SaveRenames, Live
    <2> QED
      BY <1>7, <2>1 DEF SaveRenames, Sessions, TypeOK
  <1>8. CASE UNCHANGED room
    BY <1>8
  <1> QED
    BY <1>2, <1>3, <1>4, <1>5, <1>6, <1>7, <1>8
       DEF Plain, Opening, Rekeying, JoinOpen, Leave, CloseForMove, MoveCancelled, MoveOrphaned, SweepBegins,
           SweepRefused, SweepCollects, SweepEnds, AddAgain, Delete

-----------------------------------------------------------------------------
\* A move that does not step, and whose room nobody files.
LEMMA MoveStays ==
    ASSUME TypeOK, Registered, RoomsStay, HeldShrinks, NEW m \in Moves,
           move'[m] = move[m],
           TakenOut(m) => room'[move[m].room].went = room[move[m].room].went,
           TakenOut(m) => move[m].room \notin sweep'.rooms,
           \A n \in Moves : TakenOut(n)' /\ move'[n].room = move[m].room /\ TakenOut(m) => n = m
    PROVE  MoveHolds(m)'
  <1>1. MoveHolds(m)
    BY DEF Registered, MovesHold
  <1>2. CASE TakenOut(m)
    <2>1. PICK q \in Rooms : q = move[m].room
      BY <1>2, TakenType DEF Registered
    <2>2. /\ room[q] # NoRoom /\ \A a \in Addrs : held[a] # q
          /\ move[m].pc \in {"closed", "moved", "telling"} => room[q].disposed
          /\ room[q].told = "none" =>
               room[q].went = IF move[m].pc \in {"moved", "telling"} THEN move[m].to ELSE None
      BY <1>1, <1>2, <2>1 DEF MoveHolds
    <2>3. /\ room'[q] # NoRoom
          /\ room[q].disposed => room'[q].disposed
          /\ room'[q].told = "none" => room[q].told = "none"
          /\ room'[q].went = room[q].went
      BY <1>2, <2>1, <2>2 DEF RoomsStay
    <2>4. \A a \in Addrs : held'[a] # q
      BY <2>1, <2>2, NoneType DEF HeldShrinks
    <2> QED
      BY <1>1, <1>2, <2>1, <2>2, <2>3, <2>4 DEF MoveHolds, TakenOut
  <1>3. CASE ~TakenOut(m)
    BY <1>1, <1>3 DEF MoveHolds, TakenOut
  <1> QED
    BY <1>2, <1>3

\* The other moves, when one steps.
LEMMA OthersStay ==
    ASSUME TypeOK, Registered, RoomsStay, HeldShrinks, NEW m \in Moves,
           \A n \in Moves : n # m => move'[n] = move[n],
           \A n \in Moves : n # m /\ TakenOut(n) =>
             room'[move[n].room].went = room[move[n].room].went,
           sweep' = sweep,
           TakenOut(m)' => (TakenOut(m) /\ move'[m].room = move[m].room)
                           \/ \E a \in Addrs : held[a] = move'[m].room
    PROVE  \A n \in Moves : n # m => MoveHolds(n)'
  <1> SUFFICES ASSUME NEW n \in Moves, n # m PROVE MoveHolds(n)'
    OBVIOUS
  <1>1. ASSUME NEW k \in Moves, TakenOut(k)', move'[k].room = move[n].room, TakenOut(n)
        PROVE  k = n
    <2>1. CASE k # m
      BY <1>1, <2>1 DEF Registered, MovesHold, MoveHolds, TakenOut
    <2>2. CASE k = m
      BY <1>1, <2>2 DEF Registered, MovesHold, MoveHolds
    <2> QED
      BY <2>1, <2>2
  <1>2. TakenOut(n) => move[n].room \notin sweep'.rooms
    BY DEF Registered, MovesHold, MoveHolds
  <1> QED
    BY <1>1, <1>2, MoveStays

LEMMA MovesStep == ASSUME TypeOK, Registered, TellsAreDue, Next PROVE MovesHold'
  <1>0. move \in [Moves -> Closes \cup {NoMove}] /\ None \notin Rooms
        /\ room \in [Rooms -> Sessions \cup {NoRoom}] /\ held \in [Addrs -> Rooms \cup {None}]
    BY NoneType DEF TypeOK
  <1>a. \A m \in Moves : TakenOut(m) =>
          /\ move[m].room \in Rooms /\ room[move[m].room] # NoRoom
          /\ \A a \in Addrs : held[a] # move[m].room
          /\ move[m].room \notin sweep.rooms
          /\ \A n \in Moves : TakenOut(n) /\ move[n].room = move[m].room => n = m
    BY TakenType DEF Registered, MovesHold, MoveHolds
  <1>1. ASSUME NEW c \in Conns, NEW a \in Addrs, JoinOpens(c, a) PROVE MovesHold'
    <2>1. PICK d \in Docs, r \in Rooms : Opens(d, r, a, c)
      BY <1>1, OpensEffects
    <2>2. UNCHANGED <<move, sweep>>
      BY <1>1 DEF JoinOpens
    <2>3. ASSUME NEW m \in Moves PROVE MoveHolds(m)'
      <3>1. CASE TakenOut(m)
        <4>1. MoveHolds(m) /\ move[m].room # r
          BY <1>a, <2>1, <3>1 DEF Opens, Registered, MovesHold
        <4>2. room'[move[m].room] = room[move[m].room]
          BY <1>a, <2>1, <3>1, <4>1 DEF Opens
        <4>3. \A b \in Addrs : held'[b] # move[m].room
          BY <1>0, <1>a, <2>1, <3>1, <4>1 DEF Opens
        <4> QED
          BY <2>2, <3>1, <4>1, <4>2, <4>3 DEF MoveHolds, TakenOut
      <3>2. CASE ~TakenOut(m)
        BY <2>2, <3>2 DEF MoveHolds, TakenOut, Registered, MovesHold
      <3> QED
        BY <3>1, <3>2
    <2> QED
      BY <2>3 DEF MovesHold
  <1>2. ASSUME NEW r \in Rooms, Rekey(r) PROVE MovesHold'
    <2>1. Rekeyed(r) /\ UNCHANGED <<move, sweep>>
      BY <1>2, RekeyEffects DEF Rekey
    <2>2. ASSUME NEW m \in Moves PROVE MoveHolds(m)'
      <3>1. CASE TakenOut(m)
        <4>1. \A b \in Addrs : held'[b] # move[m].room
          BY <1>0, <1>a, <2>1, <3>1, RoomType DEF Rekeyed, Refiled
        <4>2. LET q == move[m].room IN
              /\ room'[q] # NoRoom /\ room'[q].disposed = room[q].disposed
              /\ room'[q].told = room[q].told /\ room'[q].went = room[q].went
          BY <1>a, <2>1, <3>1, Kinds DEF Rekeyed
        <4>3. MoveHolds(m)
          BY DEF Registered, MovesHold
        <4> QED
          BY <2>1, <3>1, <4>1, <4>2, <4>3 DEF MoveHolds, TakenOut
      <3>2. CASE ~TakenOut(m)
        BY <2>1, <3>2 DEF MoveHolds, TakenOut, Registered, MovesHold
      <3> QED
        BY <3>1, <3>2
    <2> QED
      BY <2>2 DEF MovesHold
  <1>3. ASSUME NEW m \in Moves, NEW d \in Docs, NEW a \in Addrs, NEW b \in Addrs,
               CloseForMove(m, d, a, b)
        PROVE  MovesHold'
    <2>1. RoomsStay /\ HeldShrinks /\ UNCHANGED <<room, sweep>> /\ move[m] = NoMove
      BY <1>3, StaysStep DEF CloseForMove, Plain
    <2>2. /\ move'[m].pc = (IF held[a] = None THEN "closed" ELSE "saving")
          /\ move'[m].room = held[a] /\ move'[m].to = b
          /\ \A n \in Moves : n # m => move'[n] = move[n]
          /\ held' = [held EXCEPT ![a] = None]
      BY <1>0, <1>3 DEF CloseForMove
    <2>3. \A n \in Moves : n # m => MoveHolds(n)'
      BY <2>1, <2>2, OthersStay DEF TakenOut
    <2>4. CASE held[a] = None
      BY <2>2, <2>3, <2>4 DEF MovesHold, MoveHolds, TakenOut
    <2>5. CASE held[a] # None
      <3> DEFINE r == held[a]
      <3>1. a \in Filed /\ r \in Rooms /\ room[r] # NoRoom /\ room[r].key = a
        BY <1>0, <2>5 DEF Filed, Registered, KeysAreKnown
      <3>2. \A e \in Addrs : held'[e] # r
        <4> SUFFICES ASSUME NEW e \in Addrs, e # a, held[e] = r PROVE FALSE
          BY <1>0, <2>2, <3>1
        <4> QED
          BY <2>5, <3>1 DEF Filed, Registered, KeysAreKnown
      <3>3. r \notin sweep.rooms
        BY <3>1 DEF Registered, SweepHolds
      <3>4. \A n \in Moves : n # m => ~(TakenOut(n) /\ move[n].room = r)
        BY <1>a
      <3>5. room[r].told = "none" => room[r].went = None
        <4>1. ~HeldByMove(r)
          BY <1>0, <2>1, <3>1, <3>4 DEF HeldByMove, TakenOut
        <4> QED
          BY <3>1, <4>1 DEF TellsAreDue
      <3> HIDE DEF r
      <3>6. move'[m].room = r /\ move'[m].pc = "saving" /\ move'[m] # NoMove
        BY <2>2, <2>5, NoneType DEF r
      <3>7. MoveHolds(m)'
        BY <2>1, <2>2, <3>1, <3>2, <3>3, <3>4, <3>5, <3>6, <1>0 DEF MoveHolds, TakenOut
      <3> QED
        BY <2>3, <3>7 DEF MovesHold
    <2> QED
      BY <2>4, <2>5
  <1>4. ASSUME NEW m \in Moves,
               MoveSaved(m) \/ MoveCommits(m) \/ MoveCancelled(m) \/ MoveOrphaned(m)
        PROVE  MovesHold'
    <2>1. RoomsStay /\ HeldShrinks
      BY <1>4, StaysStep DEF Plain, Committing
    <2>2. PICK p \in {"closed", "moved", "orphan", "telling"} :
            move' = [move EXCEPT ![m].pc = p] /\ UNCHANGED <<sweep, held>>
      BY <1>4 DEF MoveSaved, MoveCommits, MoveCancelled, MoveOrphaned
    <2>3. move[m] # NoMove /\ move[m] \in Closes
      BY <1>4, NoneType, MoveType DEF MoveSaved, MoveCommits, MoveCancelled, MoveOrphaned
    <2>4. /\ move'[m].pc = p /\ move'[m].room = move[m].room /\ move'[m].to = move[m].to
          /\ move'[m] # NoMove
          /\ \A n \in Moves : n # m => move'[n] = move[n]
      BY <1>0, <2>2, <2>3, NoneType DEF Closes
    <2>5. ASSUME NEW n \in Moves, n # m, TakenOut(n)
          PROVE  room'[move[n].room].went = room[move[n].room].went
      <3>1. CASE MoveCommits(m)
        <4>1. move[n].room # move[m].room
          BY <1>a, <2>3, <2>5 DEF TakenOut
        <4> QED
          BY <1>0, <1>a, <2>5, <3>1, <4>1 DEF MoveCommits
      <3>2. CASE ~MoveCommits(m)
        <4>1. WentStays
          BY <1>4, <3>2, WentStep DEF Plain
        <4> QED
          BY <1>a, <2>5, <4>1 DEF WentStays
      <3> QED
        BY <3>1, <3>2
    <2>6. \A n \in Moves : n # m => MoveHolds(n)'
      BY <2>1, <2>2, <2>3, <2>4, <2>5, OthersStay DEF TakenOut
    <2>7. MoveHolds(m)'
      <3>1. MoveHolds(m)
        BY DEF Registered, MovesHold
      <3>2. CASE MoveSaved(m)
        <4>1. TakenOut(m) /\ p = "closed" /\ move[m].pc = "saving"
          BY <2>3, <2>4, <3>1, <3>2 DEF MoveSaved, MoveHolds
        <4>2. LET q == move[m].room IN
              /\ room'[q] # NoRoom /\ room'[q].disposed
              /\ room'[q].told = room[q].told /\ room'[q].went = room[q].went
          <5>1. room' = [room EXCEPT ![move[m].room] = Ended(move[m].room)]
            BY <3>2 DEF MoveSaved
          <5> QED
            BY <1>0, <1>a, <4>1, <5>1, RoomType, Kinds
        <4> QED
          BY <1>a, <2>2, <2>4, <3>1, <4>1, <4>2 DEF MoveHolds, TakenOut
      <3>3. CASE MoveCommits(m)
        <4>1. p = "moved" /\ move[m].pc = "closed"
          BY <2>4, <3>3, <1>0, <2>3 DEF MoveCommits, Closes
        <4>2. CASE TakenOut(m)
          <5>1. LET q == move[m].room IN
                /\ room'[q] # NoRoom /\ room'[q].disposed
                /\ room'[q].told = room[q].told
                /\ room[q].told = "none" => room'[q].went = move[m].to
            <6>1. room[move[m].room] \in Sessions /\ move[m].to \in Addrs
              BY <1>a, <2>3, <4>2, RoomType, MoveType
            <6>2. room[move[m].room].disposed
              BY <3>1, <4>1, <4>2 DEF MoveHolds
            <6>3. room' = IF room[move[m].room].told = "none"
                          THEN [room EXCEPT ![move[m].room].went = move[m].to] ELSE room
              BY <3>3, <4>2 DEF MoveCommits, TakenOut
            <6> QED
              BY <1>0, <1>a, <4>2, <6>1, <6>2, <6>3, Kinds DEF Sessions
          <5> QED
            BY <1>a, <2>2, <2>4, <3>1, <4>1, <4>2, <5>1 DEF MoveHolds, TakenOut
        <4>3. CASE ~TakenOut(m)
          BY <2>3, <2>4, <4>1, <4>3 DEF MoveHolds, TakenOut
        <4> QED
          BY <4>2, <4>3
      <3>4. CASE MoveCancelled(m) \/ MoveOrphaned(m)
        <4>1. /\ UNCHANGED room
              /\ \/ move[m].pc = "saving" /\ p = "orphan"
                 \/ move[m].pc = "moved" /\ p = "telling"
          BY <1>0, <2>3, <2>4, <3>4 DEF MoveCancelled, MoveOrphaned, Closes
        <4> QED
          BY <2>2, <2>3, <2>4, <2>6, <3>1, <4>1, <1>a DEF MoveHolds, TakenOut
      <3> QED
        BY <1>4, <3>2, <3>3, <3>4
    <2> QED
      BY <2>6, <2>7 DEF MovesHold
  <1>5. CASE SweepCollects
    <2>1. UNCHANGED <<move, room>> /\ sweep'.rooms = {held[a] : a \in Filed}
          /\ \A a \in Addrs : held'[a] = None
      BY <1>5 DEF SweepCollects
    <2>2. ASSUME NEW m \in Moves PROVE MoveHolds(m)'
      <3>1. MoveHolds(m)
        BY DEF Registered, MovesHold
      <3>2. TakenOut(m) => move[m].room \notin sweep'.rooms /\ move[m].room # None
        BY <1>a, <2>1 DEF Filed, TakenOut
      <3>3. TakenOut(m)' <=> TakenOut(m)
        BY <2>1 DEF TakenOut
      <3>4. \A n \in Moves : TakenOut(n)' <=> TakenOut(n)
        BY <2>1 DEF TakenOut
      <3> QED
        BY <2>1, <3>1, <3>2, <3>3, <3>4 DEF MoveHolds
    <2> QED
      BY <2>2 DEF MovesHold
  <1>6. ASSUME Plain, \A m \in Moves : move'[m] \in {move[m], NoMove},
               sweep'.rooms \subseteq sweep.rooms
        PROVE  MovesHold'
    <2>1. RoomsStay /\ HeldShrinks /\ WentStays
      BY <1>6, StaysStep, WentStep
    <2>2. ASSUME NEW m \in Moves PROVE MoveHolds(m)'
      <3>1. CASE move'[m] = NoMove
        BY <3>1, NoneType DEF MoveHolds, TakenOut
      <3>2. CASE move'[m] = move[m]
        <4>1. \A n \in Moves : TakenOut(n)' /\ move'[n].room = move[m].room /\ TakenOut(m)
                => n = m
          BY <1>6, <1>a DEF TakenOut
        <4> QED
          BY <1>6, <1>a, <2>1, <3>2, <4>1, MoveStays DEF WentStays
      <3> QED
        BY <1>6, <3>1, <3>2
    <2> QED
      BY <2>2 DEF MovesHold
  <1>7. ASSUME NEW m \in Moves, MoveDrops(m) \/ OrphanEnds(m) \/ MoveTells(m)
        PROVE  MovesHold'
    <2>1. move' = [move EXCEPT ![m] = NoMove] /\ sweep' = sweep /\ held' = held
      BY <1>7 DEF MoveDrops, OrphanEnds, MoveTells
    <2> QED
      BY <1>0, <1>6, <1>7, <2>1 DEF Plain
  <1>8. ASSUME Plain, UNCHANGED <<move, sweep>> PROVE MovesHold'
    BY <1>6, <1>8
  <1>9. ASSUME Plain, UNCHANGED move, sweep' = NoSweep PROVE MovesHold'
    BY <1>6, <1>9 DEF NoSweep
  <1>10. ASSUME NEW r \in Rooms, SweepCloses(r) PROVE MovesHold'
    BY <1>6, <1>10 DEF SweepCloses, Plain, TypeOK
  <1>11. CASE SweepBegins
    BY <1>6, <1>11 DEF SweepBegins, Plain, TypeOK
  <1>12. ASSUME Plain
         PROVE  \/ UNCHANGED <<move, sweep>>
                \/ UNCHANGED move /\ sweep' = NoSweep
                \/ \E r \in Rooms : SweepCloses(r)
                \/ SweepBegins \/ SweepCollects
                \/ \E m \in Moves, d \in Docs, a, b \in Addrs : CloseForMove(m, d, a, b)
                \/ \E m \in Moves :
                     \/ MoveSaved(m) \/ MoveCancelled(m) \/ MoveOrphaned(m)
                     \/ MoveDrops(m) \/ OrphanEnds(m) \/ MoveTells(m)
    BY <1>12
       DEF Plain, JoinOpen, Leave, DisposeIfEmpty, SaveRenames, Poison, SweepRefused, SweepEnds,
           AddAgain, Delete
  <1> QED
    BY <1>1, <1>2, <1>3, <1>4, <1>5, <1>7, <1>8, <1>9, <1>10, <1>11, <1>12, NextParts
       DEF Opening, Rekeying, Committing

-----------------------------------------------------------------------------
\* A step that tells a room's members.
TellsRoom(r, what) ==
    /\ EndsRoom(r)
    /\ room'[r].told = IF room[r].told = "none" THEN what ELSE room[r].told

LEMMA Tellers ==
    ASSUME TypeOK, Registered
    PROVE  /\ \A r \in Rooms : Poison(r) \/ SweepCloses(r) => TellsRoom(r, "internal")
           /\ \A m \in Moves : TakenOut(m) =>
                /\ MoveDrops(m) \/ OrphanEnds(m) => TellsRoom(move[m].room, "internal")
                /\ MoveTells(m) => TellsRoom(move[m].room, move[m].to)
  <1>1. ASSUME NEW r \in Rooms, room[r] # NoRoom, NEW what \in {"internal"} \cup Addrs,
               room' = [room EXCEPT ![r] = Told(r, what)]
        PROVE  room'[r].told = IF room[r].told = "none" THEN what ELSE room[r].told
    <2>1. room'[r] = Told(r, what)
      BY <1>1 DEF TypeOK
    <2> QED
      BY <1>1, <2>1, ToldType
  <1>2. ASSUME NEW r \in Rooms, Poison(r) \/ SweepCloses(r) PROVE TellsRoom(r, "internal")
    BY <1>1, <1>2, Enders DEF Poison, SweepCloses, Registered, SweepHolds, Live, TellsRoom
  <1>3. ASSUME NEW m \in Moves, TakenOut(m), NEW what \in {"internal"} \cup Addrs, Tells(m, what),
               EndsRoom(move[m].room)
        PROVE  TellsRoom(move[m].room, what)
    <2>1. move[m].room \in Rooms /\ room[move[m].room] # NoRoom
      BY <1>3, TakenType DEF Registered
    <2> QED
      BY <1>1, <1>3, <2>1 DEF Tells, TakenOut, TellsRoom
  <1>4. ASSUME NEW m \in Moves, TakenOut(m) PROVE move[m].to \in Addrs
    BY <1>4, MoveType DEF TakenOut
  <1> QED
    BY <1>2, <1>3, <1>4, Enders DEF MoveDrops, OrphanEnds, MoveTells

\* A room that a move took out stays with it until its members are told.
LEMMA HeldStays ==
    ASSUME TypeOK, Registered, Next
    PROVE  \A r \in Rooms : HeldByMove(r) =>
             HeldByMove(r)' \/ (room'[r].told # "none" /\ room'[r].disposed)
  <1>0. move \in [Moves -> Closes \cup {NoMove}] /\ None \notin Rooms
    BY NoneType DEF TypeOK
  <1>1. ASSUME NEW m \in Moves, MoveDrops(m) \/ OrphanEnds(m) \/ MoveTells(m),
               NEW r \in Rooms, HeldByMove(r)
        PROVE  HeldByMove(r)' \/ (room'[r].told # "none" /\ room'[r].disposed)
    <2>1. move' = [move EXCEPT ![m] = NoMove]
      BY <1>1 DEF MoveDrops, OrphanEnds, MoveTells
    <2>2. PICK n \in Moves : TakenOut(n) /\ move[n].room = r
      BY <1>0, <1>1 DEF HeldByMove, TakenOut
    <2>3. CASE n # m
      BY <1>0, <2>1, <2>2, <2>3 DEF HeldByMove, TakenOut
    <2>4. CASE n = m
      <3>1. PICK what \in {"internal"} \cup Addrs : TellsRoom(r, what)
        BY <1>1, <2>2, <2>4, Tellers, MoveType DEF TakenOut
      <3>2. what # "none"
        BY RegistryAssumption
      <3>3. room \in [Rooms -> Sessions \cup {NoRoom}]
        BY DEF TypeOK
      <3> QED
        BY <3>1, <3>2, <3>3 DEF TellsRoom, EndsRoom
    <2> QED
      BY <2>3, <2>4
  <1>2. ASSUME NEW m \in Moves,
               MoveSaved(m) \/ MoveCommits(m) \/ MoveCancelled(m) \/ MoveOrphaned(m),
               NEW r \in Rooms, HeldByMove(r)
        PROVE  HeldByMove(r)'
    <2>1. PICK p : move' = [move EXCEPT ![m].pc = p]
      BY <1>2 DEF MoveSaved, MoveCommits, MoveCancelled, MoveOrphaned
    <2>2. move[m] \in Closes
      BY <1>2, MoveType, NoneType DEF MoveSaved, MoveCommits, MoveCancelled, MoveOrphaned
    <2>3. move'[m].pc = p /\ move'[m].room = move[m].room
          /\ p \in {"closed", "moved", "orphan", "telling"}
      BY <1>0, <1>2, <2>1, <2>2 DEF Closes, MoveSaved, MoveCommits, MoveCancelled, MoveOrphaned
    <2>4. move'[m] # NoMove
      BY <2>3, NoneType
    <2> QED
      BY <1>0, <1>2, <2>1, <2>2, <2>3, <2>4 DEF HeldByMove
  <1>3. ASSUME NEW m \in Moves, NEW d \in Docs, NEW a \in Addrs, NEW b \in Addrs,
               CloseForMove(m, d, a, b), NEW r \in Rooms, HeldByMove(r)
        PROVE  HeldByMove(r)'
    <2>1. move[m] = NoMove /\ \A n \in Moves : n # m => move'[n] = move[n]
      BY <1>3, <1>0 DEF CloseForMove
    <2> QED
      BY <1>3, <2>1 DEF HeldByMove
  <1>4. ASSUME UNCHANGED move, NEW r \in Rooms, HeldByMove(r) PROVE HeldByMove(r)'
    BY <1>4 DEF HeldByMove
  <1> QED
    BY <1>1, <1>2, <1>3, <1>4
       DEF Next, JoinOpen, JoinOpens, Leave, DisposeIfEmpty, SaveRenames, Rekey, Poison,
           SweepCloses, SweepBegins, SweepRefused, SweepCollects, SweepEnds, AddAgain, Delete

\* Who is told, by which step.
LEMMA ToldStays ==
    ASSUME TypeOK, Registered, Next, NEW r \in Rooms, room[r] # NoRoom,
           room'[r].told # room[r].told
    PROVE  \/ TellsRoom(r, "internal") /\ (Live(r) \/ r \in sweep.rooms)
           \/ \E m \in Moves : /\ TakenOut(m) /\ move[m].room = r
                               /\ \/ /\ MoveDrops(m) \/ OrphanEnds(m)
                                     /\ TellsRoom(r, "internal")
                                  \/ MoveTells(m) /\ TellsRoom(r, move[m].to)
  <1>0. room \in [Rooms -> Sessions \cup {NoRoom}]
    BY DEF TypeOK
  <1>1. ASSUME NEW q \in Rooms, EndsRoom(q) PROVE q = r
    BY <1>0, <1>1 DEF EndsRoom
  <1>2. ASSUME NEW q \in Rooms, room' = [room EXCEPT ![q] = Ended(q)], room[q] # NoRoom
        PROVE  FALSE
    BY <1>0, <1>2, RoomType
  <1>3. ASSUME NEW c \in Conns, DisposeIfEmpty(c) PROVE FALSE
    <2>1. conn[c].room \in Rooms /\ room[conn[c].room] # NoRoom
      BY <1>3, ConnType, NoneType DEF DisposeIfEmpty, Registered, MembersHaveRooms
    <2> QED
      BY <1>2, <1>3, <2>1 DEF DisposeIfEmpty
  <1>4. ASSUME NEW q \in Rooms, Poison(q) \/ SweepCloses(q)
        PROVE  TellsRoom(r, "internal") /\ (Live(r) \/ r \in sweep.rooms)
    <2>1. TellsRoom(q, "internal") /\ (Live(q) \/ q \in sweep.rooms)
      BY <1>4, Tellers DEF Poison, SweepCloses
    <2> QED
      BY <1>1, <2>1 DEF TellsRoom
  <1>5. ASSUME NEW m \in Moves, MoveSaved(m) PROVE FALSE
    <2>1. TakenOut(m)
      BY <1>5 DEF MoveSaved, Registered, MovesHold, MoveHolds
    <2> QED
      BY <1>2, <1>5, <2>1, TakenType DEF MoveSaved, Registered
  <1>6. ASSUME NEW m \in Moves, MoveDrops(m) \/ OrphanEnds(m) \/ MoveTells(m)
        PROVE  /\ TakenOut(m) /\ move[m].room = r
               /\ \/ /\ MoveDrops(m) \/ OrphanEnds(m)
                     /\ TellsRoom(r, "internal")
                  \/ MoveTells(m) /\ TellsRoom(r, move[m].to)
    <2>1. TakenOut(m) /\ EndsRoom(move[m].room)
      BY <1>6, Enders
    <2>2. move[m].room = r
      BY <1>1, <2>1, TakenType DEF Registered
    <2> QED
      BY <1>6, <2>1, <2>2, Tellers
  <1>7. ASSUME NEW m \in Moves, MoveCommits(m) PROVE FALSE
    <2>1. move[m] # NoMove
      BY <1>7, NoneType DEF MoveCommits
    <2>2. CASE /\ move[m].room # None
               /\ room' = [room EXCEPT ![move[m].room].went = move[m].to]
      <3>1. move[m].room \in Rooms /\ room[move[m].room] \in Sessions
        BY <2>1, <2>2, TakenType, RoomType DEF TakenOut, Registered
      <3> QED
        BY <1>0, <2>2, <3>1 DEF Sessions
    <2> QED
      BY <1>7, <2>2 DEF MoveCommits
  <1>8. ASSUME NEW q \in Rooms, NEW b \in Addrs, SaveRenames(q, b) PROVE FALSE
    <2>1. room[q] \in Sessions
      BY <1>8, RoomType DEF SaveRenames, Live
    <2> QED
      BY <1>0, <1>8, <2>1 DEF SaveRenames, Sessions
  <1>9. ASSUME NEW q \in Rooms, Rekey(q) PROVE FALSE
    BY <1>9, RekeyEffects DEF Rekeyed
  <1>10. ASSUME NEW c \in Conns, NEW a \in Addrs, JoinOpens(c, a) PROVE FALSE
    <2>1. PICK d \in Docs, q \in Rooms : Opens(d, q, a, c)
      BY <1>10, OpensEffects
    <2> QED
      BY <2>1 DEF Opens
  <1>11. ~UNCHANGED room
    OBVIOUS
  <1> QED
    BY <1>3, <1>4, <1>5, <1>6, <1>7, <1>8, <1>9, <1>10, <1>11
       DEF Next, JoinOpen, Leave, CloseForMove, MoveCancelled, MoveOrphaned, SweepBegins,
           SweepRefused, SweepCollects, SweepEnds, AddAgain, Delete

LEMMA TellsStep == ASSUME TypeOK, Registered, TellsAreDue, Next PROVE TellsAreDue'
  <1> SUFFICES ASSUME NEW r \in Rooms, room'[r] # NoRoom
               PROVE  /\ room'[r].told # "none" => room'[r].disposed
                      /\ room'[r].told = "none" => room'[r].went = None \/ HeldByMove(r)'
    BY DEF TellsAreDue
  <1>0. room \in [Rooms -> Sessions \cup {NoRoom}]
    BY DEF TypeOK
  <1>1. CASE room[r] = NoRoom
    <2>1. CASE Opening
      <3>1. PICK c \in Conns, a \in Addrs : JoinOpens(c, a)
        BY <2>1 DEF Opening
      <3>2. PICK d \in Docs, q \in Rooms : Opens(d, q, a, c)
        BY <3>1, OpensEffects
      <3> QED
        BY <1>1, <3>2 DEF Opens
    <2>2. CASE Rekeying
      BY <1>1, <2>2, RekeyEffects DEF Rekeying, Rekeyed
    <2>3. CASE Plain \/ Committing
      BY <1>1, <2>3, StaysStep DEF RoomsStay
    <2> QED
      BY <2>1, <2>2, <2>3, NextParts
  <1>2. CASE room[r] # NoRoom
    <2>1. room'[r].told # room[r].told => room'[r].disposed
      BY <1>0, <1>2, ToldStays DEF TellsRoom, EndsRoom
    <2>2. room'[r].told # "none" => room'[r].disposed
      BY <1>2, <2>1, OpenedStay DEF TellsAreDue
    <2>3. ASSUME room'[r].told = "none" PROVE room'[r].went = None \/ HeldByMove(r)'
      <3>1. room[r].told = "none"
        BY <1>2, <2>3, OpenedStay
      <3>2. CASE HeldByMove(r)
        BY <2>3, <3>2, HeldStays
      <3>3. CASE ~HeldByMove(r)
        <4>1. room[r].went = None
          BY <1>2, <3>1, <3>3 DEF TellsAreDue
        <4>2. CASE Committing
          <5>1. PICK m \in Moves : MoveCommits(m)
            BY <4>2 DEF Committing
          <5>2. move[m] # NoMove
            BY <5>1, NoneType DEF MoveCommits
          <5>3. move[m].room # r
            BY <3>3, <5>2 DEF HeldByMove
          <5> QED
            BY <1>0, <4>1, <5>1, <5>3 DEF MoveCommits
        <4>3. CASE Plain \/ Opening \/ Rekeying
          BY <1>2, <4>1, <4>3, WentStep DEF WentStays
        <4> QED
          BY <4>2, <4>3, NextParts
      <3> QED
        BY <3>2, <3>3
    <2> QED
      BY <2>2, <2>3
  <1> QED
    BY <1>1, <1>2

-----------------------------------------------------------------------------
LEMMA LiveStep ==
    ASSUME TypeOK, Registered, LiveAreKnown, Next PROVE LiveAreKnown'
  <1> SUFFICES ASSUME NEW r \in Rooms, Live(r)'
               PROVE  IsFiled(r)' \/ r \in sweep'.rooms \/ HeldByMove(r)'
    BY DEF LiveAreKnown
  <1>0. held \in [Addrs -> Rooms \cup {None}] /\ None \notin Rooms
    BY NoneType DEF TypeOK
  <1>1. CASE Opening
    <2>1. PICK c \in Conns, a \in Addrs : JoinOpens(c, a)
      BY <1>1 DEF Opening
    <2>2. PICK d \in Docs, q \in Rooms : Opens(d, q, a, c)
      BY <2>1, OpensEffects
    <2>3. UNCHANGED <<sweep, move>>
      BY <2>1 DEF JoinOpens
    <2>4. CASE r = q
      BY <1>0, <2>2, <2>4 DEF Opens, IsFiled
    <2>5. CASE r # q
      <3>1. room'[r] = room[r] /\ Live(r)
        BY <2>2, <2>5 DEF Opens, Live
      <3>2. IsFiled(r) => IsFiled(r)'
        BY <1>0, <2>2, <3>1 DEF Opens, IsFiled, Vacant
      <3> QED
        BY <2>3, <3>1, <3>2 DEF LiveAreKnown, HeldByMove
    <2> QED
      BY <2>4, <2>5
  <1>2. CASE Rekeying
    <2>1. PICK q \in Rooms : Rekey(q)
      BY <1>2 DEF Rekeying
    <2>2. Rekeyed(q) /\ UNCHANGED <<sweep, move>>
      BY <2>1, RekeyEffects DEF Rekey
    <2>3. Live(r)
      BY <2>2 DEF Rekeyed, Live
    <2>4. IsFiled(r) => IsFiled(r)'
      <3>1. CASE held' = held /\ room'[q].key = room[q].key
        BY <2>2, <3>1 DEF Rekeyed, IsFiled
      <3>2. CASE /\ Refiled(q, room[q].next) /\ room'[q].key = room[q].next
                 /\ held' = [held EXCEPT ![room[q].key] = None, ![room[q].next] = q]
        <4>1. room[q].key \in Addrs /\ room[q].next \in Addrs /\ held[room[q].key] = q
          BY <2>2, <3>2, RoomType DEF Rekeyed, Refiled
        <4>2. CASE r = q
          BY <1>0, <3>2, <4>1, <4>2 DEF IsFiled
        <4>3. CASE r # q
          <5>1. room'[r].key = room[r].key /\ room[r].key \in Addrs
            BY <2>2, <2>3, <4>3, RoomType DEF Rekeyed, Live
          <5>2. IsFiled(r) => room[r].key # room[q].key /\ room[r].key # room[q].next
            BY <1>0, <2>3, <3>2, <4>1, <4>3 DEF IsFiled, Refiled, Vacant
          <5> QED
            BY <1>0, <3>2, <4>1, <5>1, <5>2 DEF IsFiled
        <4> QED
          BY <4>2, <4>3
      <3> QED
        BY <2>2, <3>1, <3>2 DEF Rekeyed
    <2> QED
      BY <2>2, <2>3, <2>4 DEF LiveAreKnown, HeldByMove
  <1>3. CASE Plain \/ Committing
    <2>1. RoomsStay
      BY <1>3, StaysStep
    <2>2. Live(r) /\ room'[r].key = room[r].key /\ ~room'[r].disposed /\ room[r].key \in Addrs
      BY <2>1, RoomType DEF RoomsStay, Live
    <2>3. CASE HeldByMove(r)
      BY <2>2, <2>3, HeldStays
    <2>4. CASE r \in sweep.rooms
      <3>1. ~SweepCloses(r)
        BY <2>2, Enders DEF EndsRoom, TypeOK
      <3>2. sweep.at = "saving"
        BY <2>4 DEF Registered, SweepHolds
      <3>3. \A q \in Rooms : SweepCloses(q) => r \in sweep'.rooms
        BY <2>4, <3>1 DEF SweepCloses, TypeOK
      <3> QED
        BY <1>3, <2>4, <3>2, <3>3
           DEF Plain, Committing, JoinOpen, Leave, DisposeIfEmpty, SaveRenames, Poison, CloseForMove,
               MoveSaved, MoveCommits, MoveDrops, MoveCancelled, OrphanEnds, MoveOrphaned,
               MoveTells, SweepBegins, SweepRefused, SweepCollects, SweepEnds, AddAgain, Delete,
               NoSweep
    <2>5. CASE IsFiled(r)
      <3>1. ASSUME NEW c \in Conns, DisposeIfEmpty(c) PROVE IsFiled(r)'
        <4>1. conn[c].room = r => EndsRoom(r) \/ held' = held
          BY <3>1, Enders
        <4>2. EndsRoom(r) => room'[r].disposed
          BY DEF EndsRoom, TypeOK
        <4> QED
          BY <1>0, <2>2, <2>5, <3>1, <4>1, <4>2 DEF DisposeIfEmpty, IsFiled
      <3>2. ASSUME NEW m \in Moves, NEW d \in Docs, NEW a \in Addrs, NEW b \in Addrs,
                   CloseForMove(m, d, a, b)
            PROVE  IsFiled(r)' \/ HeldByMove(r)'
        <4>1. CASE a = room[r].key
          <5>1. move'[m].room = r /\ move'[m].pc = "saving"
            BY <1>0, <2>5, <3>2, <4>1 DEF CloseForMove, IsFiled, TypeOK
          <5> QED
            BY <5>1, NoneType DEF HeldByMove
        <4>2. CASE a # room[r].key
          BY <1>0, <2>2, <2>5, <3>2, <4>2 DEF CloseForMove, IsFiled
        <4> QED
          BY <4>1, <4>2
      <3>3. CASE SweepCollects
        BY <1>0, <2>2, <2>5, <3>3 DEF SweepCollects, IsFiled, Filed
      <3>4. CASE UNCHANGED held
        BY <2>2, <2>5, <3>4 DEF IsFiled
      <3> QED
        BY <1>3, <3>1, <3>2, <3>3, <3>4
           DEF Plain, Committing, JoinOpen, Leave, SaveRenames, Poison, SweepCloses,
               MoveSaved, MoveCommits, MoveDrops, MoveCancelled, OrphanEnds, MoveOrphaned,
               MoveTells, SweepBegins, SweepRefused, SweepEnds, AddAgain, Delete
    <2> QED
      BY <2>2, <2>3, <2>4, <2>5 DEF LiveAreKnown
  <1> QED
    BY <1>1, <1>2, <1>3, NextParts

-----------------------------------------------------------------------------
\* Somebody is in a filed room, or looks after it.
LEMMA NoEmptyStep ==
    ASSUME TypeOK, Registered, NoEmptyRoomStays, Next PROVE NoEmptyRoomStays'
  <1> SUFFICES ASSUME NEW a \in Addrs, held'[a] # None
               PROVE  \E c \in Conns : conn'[c] # Out /\ conn'[c].room = held'[a]
    BY DEF NoEmptyRoomStays, Filed
  <1>0. /\ held \in [Addrs -> Rooms \cup {None}] /\ None \notin Rooms
        /\ conn \in [Conns -> Members \cup {Out}]
    BY NoneType DEF TypeOK
  <1>a. \A e \in Addrs : held[e] # None =>
          \E c \in Conns : conn[c] # Out /\ conn[c].room = held[e]
    BY DEF NoEmptyRoomStays, Filed
  <1>1. CASE Opening
    <2>1. PICK c \in Conns, b \in Addrs : JoinOpens(c, b)
      BY <1>1 DEF Opening
    <2>2. PICK d \in Docs, q \in Rooms : Opens(d, q, b, c)
      BY <2>1, OpensEffects
    <2>3. conn[c] = Out
      BY <2>1 DEF JoinOpens, MayJoin
    <2>4. CASE a = b
      <3>1. conn'[c] = [at |-> "in", room |-> q] /\ conn'[c] \in Members /\ held'[a] = q
        BY <1>0, <2>2, <2>4 DEF Opens, Members
      <3> QED
        BY <3>1, Kinds
    <2>5. CASE a # b
      BY <1>0, <1>a, <2>2, <2>3, <2>5 DEF Opens
    <2> QED
      BY <2>4, <2>5
  <1>2. CASE Rekeying
    <2>1. PICK q \in Rooms : Rekey(q)
      BY <1>2 DEF Rekeying
    <2>2. Rekeyed(q) /\ UNCHANGED conn
      BY <2>1, RekeyEffects DEF Rekey
    <2>3. \E e \in Addrs : held'[a] = held[e] /\ held[e] # None
      BY <1>0, <2>2, RoomType DEF Rekeyed, Refiled
    <2> QED
      BY <1>a, <2>2, <2>3
  <1>3. ASSUME NEW c \in Conns, NEW b \in Addrs, JoinOpen(c, b)
        PROVE  \E g \in Conns : conn'[g] # Out /\ conn'[g].room = held'[a]
    <2>1. conn[c] = Out /\ held' = held
      BY <1>3 DEF JoinOpen, MayJoin
    <2> QED
      BY <1>0, <1>3, <1>a, <2>1 DEF JoinOpen
  <1>4. ASSUME NEW c \in Conns, Leave(c)
        PROVE  \E g \in Conns : conn'[g] # Out /\ conn'[g].room = held'[a]
    <2>1. PICK g \in Conns : conn[g] # Out /\ conn[g].room = held[a]
      BY <1>4, <1>a DEF Leave
    <2>2. held' = held /\ conn[c].at = "in" /\ conn[c] \in Members
      BY <1>0, <1>4, NoneType DEF Leave
    <2>3. CASE In(conn[c].room) = {c}
      <3>1. conn'[c] = [conn[c] EXCEPT !.at = "leaving"] /\ \A k \in Conns : k # c => conn'[k] = conn[k]
        BY <1>0, <1>4, <2>3 DEF Leave
      <3>2. conn'[c] \in Members /\ conn'[c].room = conn[c].room
        BY <2>2, <3>1 DEF Members
      <3> QED
        BY <2>1, <2>2, <3>1, <3>2, Kinds
    <2>4. CASE In(conn[c].room) # {c}
      <3>1. c \in In(conn[c].room)
        BY <2>2 DEF In, Members
      <3>2. PICK k \in Conns : k # c /\ conn[k] = [at |-> "in", room |-> conn[c].room]
        BY <2>4, <3>1 DEF In
      <3>3. \A h \in Conns : h # c => conn'[h] = conn[h]
        BY <1>0, <1>4 DEF Leave
      <3>4. conn[k] # Out /\ conn[k].room = conn[c].room
        BY <3>2, NoneType
      <3> QED
        BY <2>1, <2>2, <3>2, <3>3, <3>4
    <2> QED
      BY <2>3, <2>4
  <1>5. ASSUME NEW c \in Conns, DisposeIfEmpty(c)
        PROVE  \E g \in Conns : conn'[g] # Out /\ conn'[g].room = held'[a]
    <2>1. held'[a] = held[a] /\ held[a] # None
      BY <1>0, <1>5 DEF DisposeIfEmpty
    <2>2. \A h \in Conns : h # c => conn'[h] = conn[h]
      BY <1>0, <1>5 DEF DisposeIfEmpty
    <2>3. PICK g \in Conns : conn[g] # Out /\ conn[g].room = held[a]
      BY <1>a, <2>1
    <2>4. CASE g # c
      BY <2>1, <2>2, <2>3, <2>4
    <2>5. CASE g = c
      <3>1. room[conn[c].room].key = a
        BY <2>1, <2>3, <2>5 DEF Registered, KeysAreKnown, Filed
      <3>2. In(conn[c].room) # {}
        BY <1>0, <1>5, <2>1, <2>3, <2>5, <3>1 DEF DisposeIfEmpty, Leaves
      <3>3. PICK k \in Conns : conn[k] = [at |-> "in", room |-> conn[c].room]
        BY <3>2 DEF In
      <3>4. k # c /\ conn[k] # Out /\ conn[k].room = held[a]
        BY <1>5, <2>3, <2>5, <3>3, NoneType DEF DisposeIfEmpty
      <3> QED
        BY <2>1, <2>2, <3>4
    <2> QED
      BY <2>4, <2>5
  <1>6. ASSUME Plain \/ Committing, UNCHANGED conn
        PROVE  \E g \in Conns : conn'[g] # Out /\ conn'[g].room = held'[a]
    <2>1. held'[a] = held[a]
      BY <1>6, StaysStep DEF HeldShrinks
    <2> QED
      BY <1>6, <1>a, <2>1
  <1> QED
    BY <1>1, <1>2, <1>3, <1>4, <1>5, <1>6, ConnsStay, NextParts DEF Joins, Opening

-----------------------------------------------------------------------------
\* Which steps end a room whose members are not told by it.
LEMMA Quietly ==
    ASSUME TypeOK, Registered, Next, NEW r \in Rooms, room[r] # NoRoom, ~room[r].disposed,
           room'[r].disposed, room'[r].told = "none"
    PROVE  \/ \E c \in Conns : DisposeIfEmpty(c) /\ In(r) = {}
           \/ \E m \in Moves : MoveSaved(m) /\ move[m].room = r
  <1>0. room \in [Rooms -> Sessions \cup {NoRoom}]
    BY DEF TypeOK
  <1>1. ASSUME NEW q \in Rooms, EndsRoom(q) PROVE q = r
    BY <1>0, <1>1 DEF EndsRoom
  <1>2. ASSUME NEW what \in {"internal"} \cup Addrs, TellsRoom(r, what) PROVE FALSE
    <2>1. what # "none"
      BY RegistryAssumption
    <2> QED
      BY <1>2, <2>1 DEF TellsRoom
  <1>3. ASSUME NEW c \in Conns, DisposeIfEmpty(c) PROVE In(r) = {}
    <2>1. conn[c].room \in Rooms /\ EndsRoom(conn[c].room)
      BY <1>3, Enders, ConnType, NoneType DEF DisposeIfEmpty
    <2>2. conn[c].room = r
      BY <1>1, <2>1
    <2>3. room' # room
      OBVIOUS
    <2> QED
      BY <1>3, <2>2, <2>3 DEF DisposeIfEmpty
  <1>4. ASSUME NEW q \in Rooms, Poison(q) \/ SweepCloses(q) PROVE FALSE
    <2>1. TellsRoom(q, "internal")
      BY <1>4, Tellers
    <2> QED
      BY <1>1, <1>2, <2>1 DEF TellsRoom
  <1>5. ASSUME NEW m \in Moves, MoveSaved(m) PROVE move[m].room = r
    <2>1. TakenOut(m)
      BY <1>5 DEF MoveSaved, Registered, MovesHold, MoveHolds
    <2> QED
      BY <1>1, <1>5, <2>1, Enders, TakenType DEF Registered
  <1>6. ASSUME NEW m \in Moves, MoveDrops(m) \/ OrphanEnds(m) \/ MoveTells(m) PROVE FALSE
    <2>1. TakenOut(m) /\ EndsRoom(move[m].room)
      BY <1>6, Enders
    <2>2. move[m].room = r
      BY <1>1, <2>1, TakenType DEF Registered
    <2>3. move[m].to \in Addrs
      BY <2>1, MoveType DEF TakenOut
    <2>4. PICK what \in {"internal"} \cup Addrs : TellsRoom(r, what)
      BY <1>6, <2>1, <2>2, <2>3, Tellers
    <2> QED
      BY <1>2, <2>4
  <1>7. ASSUME NEW m \in Moves, MoveCommits(m) PROVE FALSE
    <2>1. move[m] # NoMove
      BY <1>7, NoneType DEF MoveCommits
    <2>2. CASE /\ move[m].room # None
               /\ room' = [room EXCEPT ![move[m].room].went = move[m].to]
      <3>1. move[m].room \in Rooms /\ room[move[m].room] \in Sessions
        BY <2>1, <2>2, TakenType, RoomType DEF TakenOut, Registered
      <3> QED
        BY <1>0, <2>2, <3>1 DEF Sessions
    <2> QED
      BY <1>7, <2>2 DEF MoveCommits
  <1>8. ASSUME NEW q \in Rooms, NEW b \in Addrs, SaveRenames(q, b) PROVE FALSE
    <2>1. room[q] \in Sessions
      BY <1>8, RoomType DEF SaveRenames, Live
    <2> QED
      BY <1>0, <1>8, <2>1 DEF SaveRenames, Sessions
  <1>9. ASSUME NEW q \in Rooms, Rekey(q) PROVE FALSE
    BY <1>9, RekeyEffects DEF Rekeyed
  <1>10. ASSUME NEW c \in Conns, NEW a \in Addrs, JoinOpens(c, a) PROVE FALSE
    <2>1. PICK d \in Docs, q \in Rooms : Opens(d, q, a, c)
      BY <1>10, OpensEffects
    <2> QED
      BY <2>1 DEF Opens
  <1>11. ~UNCHANGED room
    OBVIOUS
  <1> QED
    BY <1>3, <1>4, <1>5, <1>6, <1>7, <1>8, <1>9, <1>10, <1>11
       DEF Next, JoinOpen, Leave, CloseForMove, MoveCancelled, MoveOrphaned, SweepBegins,
           SweepRefused, SweepCollects, SweepEnds, AddAgain, Delete

\* Nobody comes into a room that is over.
LEMMA NobodyNew ==
    ASSUME TypeOK, Registered, Next, NEW r \in Rooms, room[r] # NoRoom, room[r].disposed,
           NEW g \in Conns, conn'[g] = [at |-> "in", room |-> r]
    PROVE  conn[g] = [at |-> "in", room |-> r]
  <1>0. conn \in [Conns -> Members \cup {Out}] /\ \A x : [at |-> "in", room |-> x] # Out
    BY NoneType DEF TypeOK, Out
  <1>1. ASSUME NEW c \in Conns, NEW a \in Addrs, JoinOpen(c, a) PROVE conn'[g] = conn[g]
    BY <1>0, <1>1 DEF JoinOpen, Live
  <1>2. ASSUME NEW c \in Conns, NEW a \in Addrs, JoinOpens(c, a) PROVE conn'[g] = conn[g]
    <2>1. PICK d \in Docs, q \in Rooms : Opens(d, q, a, c)
      BY <1>2, OpensEffects
    <2> QED
      BY <1>0, <2>1 DEF Opens
  <1>3. ASSUME NEW c \in Conns, Leave(c) PROVE conn'[g] = conn[g]
    <2>1. [conn[c] EXCEPT !.at = "leaving"].at = "leaving"
      BY <1>0, <1>3, NoneType DEF Leave, Members
    <2> QED
      BY <1>0, <1>3, <2>1 DEF Leave
  <1>4. ASSUME NEW c \in Conns, DisposeIfEmpty(c) PROVE conn'[g] = conn[g]
    BY <1>0, <1>4 DEF DisposeIfEmpty
  <1> QED
    BY <1>1, <1>2, <1>3, <1>4, ConnsStay DEF Joins

LEMMA ToldStep ==
    ASSUME TypeOK, Registered, TellsAreDue, EveryoneIsTold, Next PROVE EveryoneIsTold'
  <1> SUFFICES ASSUME NEW r \in Rooms, room'[r] # NoRoom
               PROVE  /\ room'[r].disposed /\ In(r)' # {} =>
                           room'[r].told # "none" \/ HeldByMove(r)'
                      /\ room'[r].told # "none" =>
                           room'[r].told = IF room'[r].went = None THEN "internal"
                                           ELSE room'[r].went
    BY DEF EveryoneIsTold
  <1>0. room \in [Rooms -> Sessions \cup {NoRoom}]
    BY DEF TypeOK
  <1>1. CASE room[r] = NoRoom
    <2>1. CASE Opening
      <3>1. PICK c \in Conns, a \in Addrs : JoinOpens(c, a)
        BY <2>1 DEF Opening
      <3>2. PICK d \in Docs, q \in Rooms : Opens(d, q, a, c)
        BY <3>1, OpensEffects
      <3> QED
        BY <1>1, <3>2 DEF Opens
    <2>2. CASE Rekeying
      BY <1>1, <2>2, RekeyEffects DEF Rekeying, Rekeyed
    <2>3. CASE Plain \/ Committing
      BY <1>1, <2>3, StaysStep DEF RoomsStay
    <2> QED
      BY <2>1, <2>2, <2>3, NextParts
  <1>2. CASE room[r] # NoRoom
    <2>1. ASSUME room'[r].disposed, In(r)' # {}, room'[r].told = "none"
          PROVE  HeldByMove(r)'
      <3>1. room[r].told = "none"
        BY <1>2, <2>1, OpenedStay
      <3>2. PICK g \in Conns : conn'[g] = [at |-> "in", room |-> r]
        BY <2>1 DEF In
      <3>3. CASE room[r].disposed
        <4>1. g \in In(r)
          BY <1>2, <3>2, <3>3, NobodyNew DEF In
        <4> QED
          BY <1>2, <2>1, <3>1, <3>3, <4>1, HeldStays DEF EveryoneIsTold
      <3>4. CASE ~room[r].disposed
        <4>1. ASSUME NEW c \in Conns, DisposeIfEmpty(c), In(r) = {} PROVE FALSE
          <5>1. [at |-> "in", room |-> r] # Out
            BY NoneType DEF Out
          <5> QED
            BY <3>2, <4>1, <5>1 DEF DisposeIfEmpty, In, TypeOK
        <4>2. ASSUME NEW m \in Moves, MoveSaved(m), move[m].room = r PROVE HeldByMove(r)'
          <5>1. move[m] \in Closes
            BY <4>2, MoveType, NoneType DEF MoveSaved
          <5>2. move'[m].room = r /\ move'[m].pc = "closed"
            BY <4>2, <5>1 DEF MoveSaved, Closes, TypeOK
          <5> QED
            BY <5>2, NoneType DEF HeldByMove
        <4> QED
          BY <1>2, <2>1, <3>4, <4>1, <4>2, Quietly
      <3> QED
        BY <3>3, <3>4
    <2>2. ASSUME room'[r].told # "none"
          PROVE  room'[r].told = IF room'[r].went = None THEN "internal" ELSE room'[r].went
      <3>1. CASE room'[r].told = room[r].told
        <4>1. CASE Committing
          <5>1. PICK m \in Moves : MoveCommits(m)
            BY <4>1 DEF Committing
          <5>2. room'[r].went = room[r].went
            BY <1>0, <2>2, <3>1, <5>1 DEF MoveCommits
          <5> QED
            BY <1>2, <2>2, <3>1, <5>2 DEF EveryoneIsTold
        <4>2. CASE Plain \/ Opening \/ Rekeying
          BY <1>2, <2>2, <3>1, <4>2, WentStep DEF WentStays, EveryoneIsTold
        <4> QED
          BY <4>1, <4>2, NextParts
      <3>2. CASE room'[r].told # room[r].told
        <4>0. room[r].told = "none"
          BY <1>2, <3>2, OpenedStay
        <4>a. \A what : TellsRoom(r, what) => room'[r].told = what /\ room'[r].went = room[r].went
          BY <1>0, <4>0 DEF TellsRoom, EndsRoom
        <4>1. CASE TellsRoom(r, "internal") /\ (Live(r) \/ r \in sweep.rooms)
          <5>1. ASSUME HeldByMove(r) PROVE room[r].went = None
            <6>1. PICK m \in Moves : TakenOut(m) /\ move[m].room = r
              BY <5>1, NoneType DEF HeldByMove, TakenOut
            <6> QED
              BY <4>0, <4>1, <6>1 DEF Registered, MovesHold, MoveHolds, Live
          <5>2. room[r].went = None
            BY <1>2, <4>0, <5>1 DEF TellsAreDue
          <5> QED
            BY <4>1, <4>a, <5>2
        <4>2. ASSUME NEW m \in Moves, TakenOut(m), move[m].room = r,
                     MoveDrops(m) \/ OrphanEnds(m), TellsRoom(r, "internal")
              PROVE  room'[r].told = "internal" /\ room'[r].went = None
          <5>1. room[r].went = None
            BY <4>0, <4>2 DEF Registered, MovesHold, MoveHolds, MoveDrops, OrphanEnds
          <5> QED
            BY <4>2, <4>a, <5>1
        <4>3. ASSUME NEW m \in Moves, TakenOut(m), move[m].room = r,
                     MoveTells(m), TellsRoom(r, move[m].to)
              PROVE  room'[r].told = room'[r].went /\ room'[r].went # None
          <5>1. room[r].went = move[m].to
            BY <4>0, <4>3 DEF Registered, MovesHold, MoveHolds, MoveTells
          <5>2. move[m].to # None
            BY <4>3, MoveType, NoneType DEF TakenOut
          <5> QED
            BY <4>3, <4>a, <5>1, <5>2
        <4> QED
          BY <1>2, <3>2, <4>1, <4>2, <4>3, ToldStays
      <3> QED
        BY <3>1, <3>2
    <2> QED
      BY <2>1, <2>2
  <1> QED
    BY <1>1, <1>2

-----------------------------------------------------------------------------
\* The inductive invariant.
IInv ==
    /\ TypeOK /\ Registered /\ FencesCount /\ TellsAreDue /\ LiveAreKnown
    /\ NoEmptyRoomStays /\ EveryoneIsTold

LEMMA InitHolds == ASSUME Init PROVE IInv
  <1>1. TypeOK
    BY RegistryAssumption DEF Init, TypeOK, NoSweep
  <1>2. KeysAreKnown /\ MembersHaveRooms /\ SweepHolds /\ MovesHold /\ TellsAreDue /\ LiveAreKnown
    BY DEF Init, KeysAreKnown, MembersHaveRooms, SweepHolds, MovesHold, MoveHolds, TakenOut,
           TellsAreDue, LiveAreKnown, Live, Filed, NoSweep, NoMove
  <1>3. FencesCount
    <2>1. \A a \in Addrs : Fencing(a) = {}
      BY DEF Init, Fencing
    <2> QED
      BY <2>1, FS_EmptySet DEF Init, FencesCount
  <1>4. NoEmptyRoomStays /\ EveryoneIsTold
    BY DEF Init, NoEmptyRoomStays, EveryoneIsTold, Filed
  <1> QED
    BY <1>1, <1>2, <1>3, <1>4 DEF IInv, Registered

LEMMA Stutters == ASSUME IInv, UNCHANGED vars PROVE IInv'
  <1> USE DEF vars
  <1>1. TypeOK'
    BY DEF IInv, TypeOK
  <1>2. KeysAreKnown' /\ MembersHaveRooms' /\ SweepHolds'
    BY DEF IInv, Registered, KeysAreKnown, MembersHaveRooms, SweepHolds, Filed
  <1>3. MovesHold'
    BY DEF IInv, Registered, MovesHold, MoveHolds, TakenOut
  <1>4. FencesCount'
    BY DEF IInv, FencesCount, Fencing
  <1>5. TellsAreDue' /\ LiveAreKnown'
    BY DEF IInv, TellsAreDue, LiveAreKnown, Live, IsFiled, HeldByMove
  <1>6. NoEmptyRoomStays' /\ EveryoneIsTold'
    BY DEF IInv, NoEmptyRoomStays, EveryoneIsTold, Filed, In, HeldByMove
  <1> QED
    BY <1>1, <1>2, <1>3, <1>4, <1>5, <1>6 DEF IInv, Registered

\* Every step of the registry, of a room's saves, of a move and of an
\* unregistration keeps the invariant.
THEOREM RegistryInvariant == Spec => []IInv
  <1>1. Init => IInv
    BY InitHolds
  <1>2. IInv /\ [Next]_vars => IInv'
    <2> SUFFICES ASSUME IInv, Next PROVE IInv'
      BY Stutters
    <2>1. TypeOK /\ Registered /\ FencesCount /\ TellsAreDue
      BY DEF IInv
    <2>2. TypeOK' /\ FencesCount'
      BY <2>1, TypeStep
    <2>3. Registered'
      BY <2>1, KeysStep, MembersStep, SweepStep, MovesStep DEF Registered
    <2>4. TellsAreDue' /\ LiveAreKnown' /\ NoEmptyRoomStays' /\ EveryoneIsTold'
      BY <2>1, TellsStep, LiveStep, NoEmptyStep, ToldStep DEF IInv
    <2> QED
      BY <2>2, <2>3, <2>4 DEF IInv
  <1> QED
    BY <1>1, <1>2, PTL DEF Spec

\* The registry's state is well-formed, and a key's fence is never below nought,
\* however many moves fence it and whichever of them are cancelled.
THEOREM RegistryTypeTheorem == Spec => []TypeOK
  <1>1. IInv => TypeOK
    BY DEF IInv
  <1> QED
    BY <1>1, RegistryInvariant, PTL

\* A room in the map has somebody in it or somebody who will look whether it is
\* empty (join_doc, finish, dispose_if_empty), under any renames and moves.
THEOREM NoEmptyTheorem == Spec => []NoEmptyRoomStays
  <1>1. IInv => NoEmptyRoomStays
    BY DEF IInv
  <1> QED
    BY <1>1, RegistryInvariant, PTL

\* Whoever sits in a room that is over has been told where the document went, or
\* will be by the move that ended it (TellMoved, ClosedForMove::drop, poison).
THEOREM ToldTheorem == Spec => []EveryoneIsTold
  <1>1. IInv => EveryoneIsTold
    BY DEF IInv
  <1> QED
    BY <1>1, RegistryInvariant, PTL

\* An unregistered domain has no room but one a move is ending (fence_joins,
\* dispose_domain).
THEOREM SweepTheorem == Spec => []SweepIsFinal
  <1>1. IInv => SweepIsFinal
    <2> SUFFICES ASSUME IInv, ~registered
                 PROVE  /\ Filed = {}
                        /\ \A r \in Rooms : Live(r) => HeldByMove(r)
      BY DEF SweepIsFinal
    <2>1. Filed = {} /\ sweep.rooms = {}
      BY DEF IInv, Registered, SweepHolds, NoSweep
    <2>2. ASSUME NEW r \in Rooms, Live(r) PROVE ~IsFiled(r)
      <3>1. room[r].key \in Addrs /\ r # None
        BY <2>2, RoomType, NoneType DEF IInv, Live
      <3> QED
        BY <2>1, <3>1 DEF IsFiled, Filed
    <2> QED
      BY <2>1, <2>2 DEF IInv, LiveAreKnown
  <1> QED
    BY <1>1, RegistryInvariant, PTL

-----------------------------------------------------------------------------
\* What else is kept when nothing comes between a save that renamed its document
\* and the rekey that follows it, nor renames a document that is being moved.

AddrsDiffer == \A d, e \in Docs : addr[d] = addr[e] /\ addr[d] # None => d = e

\* A room that is not being renamed saves to its key.
FiledAtKey ==
    \A a \in Filed :
        Live(held[a]) /\ room[held[a]].next = None => room[held[a]].at = a

\* One room is being renamed at a time, to a key where nobody is.
OneRenames ==
    \A r \in Rooms :
        room[r] # NoRoom /\ room[r].next # None =>
        /\ room[r].at = room[r].next
        /\ Vacant(room[r].next)
        /\ \A q \in Rooms : room[q] # NoRoom /\ room[q].next # None => q = r

\* One move at a time is on its way to its commit; meanwhile its document stays
\* where it was, and no live room over it is in the map.
OneMoves ==
    \A m, n \in Moves :
        {move[m].pc, move[n].pc} \subseteq {"saving", "closed", "moved"} => m = n
MovesClose ==
    \A m \in Moves :
        move[m].pc \in {"saving", "closed"} =>
        /\ addr[move[m].doc] \in {move[m].from, None}
        /\ \A a \in Filed : Live(held[a]) => room[held[a]].doc # move[m].doc

\* A move's live room is over its document, or over one that was deleted.
MovesLive ==
    \A m \in Moves :
        TakenOut(m) /\ Live(move[m].room) =>
        LET d == room[move[m].room].doc IN d = move[m].doc \/ addr[d] = None

Addressed ==
    /\ AddrsDiffer /\ FiledAtKey /\ OneRenames /\ OneMoves /\ MovesClose /\ MovesLive
    /\ RoomsKeepTheirAddress /\ OneRoom

\* The steps that change no address.
Resting ==
    \/ \E c \in Conns, a \in Addrs : JoinOpen(c, a)
    \/ \E c \in Conns : Leave(c) \/ DisposeIfEmpty(c)
    \/ \E r \in Rooms : Poison(r) \/ SweepCloses(r)
    \/ \E m \in Moves :
        \/ MoveSaved(m) \/ MoveDrops(m) \/ MoveCancelled(m)
        \/ OrphanEnds(m) \/ MoveOrphaned(m) \/ MoveTells(m)
    \/ SweepBegins \/ SweepRefused \/ SweepCollects \/ SweepEnds \/ AddAgain
Saving == \E r \in Rooms, b \in Addrs : SaveRenames(r, b)
Closing == \E m \in Moves, d \in Docs, a, b \in Addrs : CloseForMove(m, d, a, b)
Deleting == \E d \in Docs : Delete(d)

LEMMA PlainParts == Plain <=> Resting \/ Saving \/ Closing \/ Deleting
  BY DEF Plain, Resting, Saving, Closing, Deleting

\* But for a save that renames, and the rekey, no room's address changes.
Still ==
    \A r \in Rooms :
        room[r] # NoRoom => room'[r].at = room[r].at /\ room'[r].next = room[r].next

LEMMA StillStep ==
    ASSUME TypeOK, Registered, Resting \/ Closing \/ Deleting \/ Committing PROVE Still
  <1> USE DEF Still
  <1>1. ASSUME NEW r \in Rooms, EndsRoom(r) PROVE Still
    BY <1>1 DEF EndsRoom, TypeOK
  <1>2. ASSUME NEW c \in Conns, DisposeIfEmpty(c) PROVE Still
    <2>1. conn[c].room \in Rooms
      BY <1>2, ConnType, NoneType DEF DisposeIfEmpty
    <2> QED
      BY <1>1, <1>2, <2>1, Enders
  <1>3. ASSUME NEW r \in Rooms, Poison(r) \/ SweepCloses(r) PROVE Still
    BY <1>1, <1>3, Enders
  <1>4. ASSUME NEW m \in Moves, MoveSaved(m) \/ MoveDrops(m) \/ OrphanEnds(m) \/ MoveTells(m)
        PROVE  Still
    <2>1. MoveSaved(m) => TakenOut(m)
      BY DEF MoveSaved, Registered, MovesHold, MoveHolds
    <2> QED
      BY <1>1, <1>4, <2>1, TakenType, Enders DEF Registered
  <1>5. ASSUME NEW m \in Moves, MoveCommits(m) PROVE Still
    <2>1. move[m] # NoMove
      BY <1>5, NoneType DEF MoveCommits
    <2>2. CASE /\ move[m].room # None
               /\ room' = [room EXCEPT ![move[m].room].went = move[m].to]
      <3>1. move[m].room \in Rooms /\ room[move[m].room] \in Sessions
        BY <2>1, <2>2, TakenType, RoomType DEF TakenOut, Registered
      <3> QED
        BY <2>2, <3>1 DEF Sessions, TypeOK
    <2> QED
      BY <1>5, <2>2 DEF MoveCommits
  <1>6. CASE UNCHANGED room
    BY <1>6
  <1> QED
    BY <1>2, <1>3, <1>4, <1>5, <1>6
       DEF Resting, Closing, Deleting, Committing, JoinOpen, Leave, CloseForMove, MoveCancelled,
           MoveOrphaned, SweepBegins, SweepRefused, SweepCollects, SweepEnds, AddAgain, Delete

\* Who is live in the map after such a step was so before, at the same address.
LiveAt(a) == held[a] # None /\ Live(held[a])
Fewer ==
    \A a \in Addrs :
        LiveAt(a)' =>
        /\ LiveAt(a) /\ held[a] = held'[a] /\ held[a] \in Rooms
        /\ LET r == held[a] IN
           /\ room'[r].doc = room[r].doc /\ room'[r].at = room[r].at
           /\ room'[r].next = room[r].next

LEMMA FewerStep ==
    ASSUME TypeOK, RoomsStay, HeldShrinks, Still PROVE Fewer
  <1>1. held \in [Addrs -> Rooms \cup {None}]
    BY DEF TypeOK
  <1> QED
    BY <1>1 DEF Fewer, RoomsStay, HeldShrinks, Still, Live, LiveAt

\* What follows from that alone.
LEMMA FewerKeep ==
    ASSUME TypeOK, Addressed, RoomsStay, HeldShrinks, Still
    PROVE  FiledAtKey' /\ OneRenames' /\ OneRoom'
  <1>1. Fewer
    BY FewerStep
  <1>2. FiledAtKey'
    BY <1>1 DEF Fewer, Addressed, FiledAtKey, Filed, LiveAt, Live
  <1>3. OneRoom'
    BY <1>1 DEF Fewer, Addressed, OneRoom, Filed, LiveAt
  <1>4. OneRenames'
    <2> SUFFICES ASSUME NEW r \in Rooms, room'[r] # NoRoom, room'[r].next # None
                 PROVE  /\ room'[r].at = room'[r].next
                        /\ Vacant(room[r].next)'
                        /\ \A q \in Rooms : room'[q] # NoRoom /\ room'[q].next # None => q = r
      BY DEF RoomsStay, Still, OneRenames
    <2>1. \A q \in Rooms : room'[q] # NoRoom =>
            room[q] # NoRoom /\ room'[q].at = room[q].at /\ room'[q].next = room[q].next
      BY DEF RoomsStay, Still
    <2>2. room[r].next \in Addrs /\ Vacant(room[r].next)
      BY <2>1, RoomType DEF Addressed, OneRenames
    <2>3. Vacant(room[r].next)'
      <3> DEFINE b == room[r].next
      <3>1. Vacant(b) <=> ~LiveAt(b)
        BY DEF Vacant, LiveAt
      <3>2. Vacant(b)' <=> ~LiveAt(b)'
        BY DEF Vacant, LiveAt
      <3> QED
        BY <1>1, <2>1, <2>2, <3>1, <3>2 DEF Fewer
    <2> QED
      BY <2>1, <2>3 DEF Addressed, OneRenames
  <1> QED
    BY <1>2, <1>3, <1>4

\* Two documents never get one address, and a deleted one gets none.
LEMMA AddrsStep ==
    ASSUME TypeOK, AddrsDiffer, Next
    PROVE  AddrsDiffer' /\ \A d \in Docs : addr[d] = None => addr'[d] = None
  <1>0. addr \in [Docs -> Addrs \cup {None}] /\ None \notin Addrs
    BY NoneType DEF TypeOK
  <1>1. ASSUME NEW r \in Rooms, NEW b \in Addrs, SaveRenames(r, b)
        PROVE  AddrsDiffer' /\ \A d \in Docs : addr[d] = None => addr'[d] = None
    <2>1. room[r].doc \in Docs /\ room[r].at \in Addrs
      BY <1>1, RoomType DEF SaveRenames, Live
    <2> QED
      BY <1>0, <1>1, <2>1 DEF SaveRenames, Free, AddrsDiffer
  <1>2. ASSUME NEW m \in Moves, MoveCommits(m)
        PROVE  AddrsDiffer' /\ \A d \in Docs : addr[d] = None => addr'[d] = None
    <2>1. move[m].doc \in Docs /\ move[m].to \in Addrs
      BY <1>2, MoveType, NoneType DEF MoveCommits
    <2> QED
      BY <1>0, <1>2, <2>1 DEF MoveCommits, Free, AddrsDiffer
  <1>3. ASSUME NEW d \in Docs, Delete(d)
        PROVE  AddrsDiffer' /\ \A e \in Docs : addr[e] = None => addr'[e] = None
    BY <1>0, <1>3 DEF Delete, AddrsDiffer
  <1>4. CASE UNCHANGED addr
    BY <1>4 DEF AddrsDiffer
  <1> QED
    BY <1>1, <1>2, <1>3, <1>4
       DEF Next, JoinOpen, JoinOpens, Leave, DisposeIfEmpty, Rekey, Poison, SweepCloses,
           CloseForMove, MoveSaved, MoveDrops, MoveCancelled, OrphanEnds, MoveOrphaned, MoveTells,
           SweepBegins, SweepRefused, SweepCollects, SweepEnds, AddAgain

\* A move goes on, or ends.
MovesRest ==
    \A m \in Moves :
        move'[m] # NoMove =>
        /\ move[m] # NoMove
        /\ move'[m].doc = move[m].doc /\ move'[m].from = move[m].from
        /\ move'[m].room = move[m].room
        /\ move'[m].pc \in {"saving", "closed"} => move[m].pc \in {"saving", "closed"}
        /\ move'[m].pc = "moved" => move[m].pc \in {"saving", "closed", "moved"}

LEMMA MovesRestStep ==
    ASSUME TypeOK, Resting \/ Saving \/ Deleting \/ Committing \/ Opening \/ Rekeying
    PROVE  MovesRest
  <1>0. move \in [Moves -> Closes \cup {NoMove}]
    BY DEF TypeOK
  <1>1. ASSUME NEW m \in Moves, MoveDrops(m) \/ OrphanEnds(m) \/ MoveTells(m) PROVE MovesRest
    BY <1>0, <1>1 DEF MovesRest, MoveDrops, OrphanEnds, MoveTells
  <1>2. ASSUME NEW m \in Moves,
               MoveSaved(m) \/ MoveCommits(m) \/ MoveCancelled(m) \/ MoveOrphaned(m)
        PROVE  MovesRest
    <2>1. move[m] # NoMove /\ move[m] \in Closes
      BY <1>2, MoveType, NoneType DEF MoveSaved, MoveCommits, MoveCancelled, MoveOrphaned
    <2>2. PICK p \in {"closed", "moved", "orphan", "telling"} :
            /\ move' = [move EXCEPT ![m].pc = p]
            /\ p = "closed" => move[m].pc = "saving"
            /\ p = "moved" => move[m].pc = "closed"
      BY <1>2 DEF MoveSaved, MoveCommits, MoveCancelled, MoveOrphaned
    <2>3. /\ move'[m].pc = p /\ move'[m].doc = move[m].doc
          /\ move'[m].from = move[m].from /\ move'[m].room = move[m].room
          /\ \A n \in Moves : n # m => move'[n] = move[n]
      BY <1>0, <2>1, <2>2 DEF Closes
    <2> QED
      BY <2>1, <2>2, <2>3 DEF MovesRest
  <1>3. CASE UNCHANGED move
    BY <1>3 DEF MovesRest
  <1> QED
    BY <1>1, <1>2, <1>3
       DEF Resting, Saving, Deleting, Committing, Opening, Rekeying, JoinOpen, JoinOpens, Leave,
           DisposeIfEmpty, SaveRenames, Rekey, Poison, SweepCloses, SweepBegins, SweepRefused,
           SweepCollects, SweepEnds, AddAgain, Delete

\* What follows from that.
LEMMA MovesRestKeep ==
    ASSUME TypeOK, Addressed, MovesRest PROVE OneMoves'
  <1>1. \A m \in Moves :
          move'[m].pc \in {"saving", "closed", "moved"} =>
          move[m].pc \in {"saving", "closed", "moved"}
    <2> SUFFICES ASSUME NEW m \in Moves, move'[m].pc \in {"saving", "closed", "moved"}
                 PROVE  move[m].pc \in {"saving", "closed", "moved"}
      OBVIOUS
    <2>1. move'[m] # NoMove
      BY NoneType
    <2> QED
      BY <2>1 DEF MovesRest
  <1> QED
    BY <1>1 DEF Addressed, OneMoves

LEMMA LiveStays ==
    ASSUME TypeOK, Registered, RoomsStay, MovesRest, MovesLive,
           \A d \in Docs : addr[d] = None => addr'[d] = None
    PROVE  MovesLive'
  <1> SUFFICES ASSUME NEW m \in Moves, TakenOut(m)', Live(move[m].room)'
               PROVE  LET d == room'[move'[m].room].doc IN d = move'[m].doc \/ addr'[d] = None
    BY DEF MovesLive
  <1>1. TakenOut(m) /\ move'[m].room = move[m].room /\ move'[m].doc = move[m].doc
    BY DEF TakenOut, MovesRest
  <1>2. PICK q \in Rooms : q = move[m].room /\ room[q] # NoRoom
    BY <1>1, TakenType DEF Registered
  <1>3. Live(q) /\ room'[q].doc = room[q].doc /\ room[q].doc \in Docs
    BY <1>1, <1>2, RoomType DEF RoomsStay, Live
  <1> QED
    BY <1>1, <1>2, <1>3 DEF MovesLive

-----------------------------------------------------------------------------
LEMMA RestingKeeps == ASSUME TypeOK, Registered, Addressed, Next, Resting PROVE Addressed'
  <1>1. RoomsStay /\ HeldShrinks /\ Still /\ MovesRest
    BY StaysStep, StillStep, MovesRestStep, PlainParts
  <1>2. FiledAtKey' /\ OneRenames' /\ OneRoom' /\ OneMoves' /\ Fewer
    BY <1>1, FewerKeep, FewerStep, MovesRestKeep
  <1>3. AddrsDiffer' /\ MovesLive'
    BY <1>1, AddrsStep, LiveStays DEF Addressed
  <1>4. UNCHANGED addr
    BY DEF Resting, JoinOpen, Leave, DisposeIfEmpty, Poison, SweepCloses, MoveSaved, MoveDrops,
           MoveCancelled, OrphanEnds, MoveOrphaned, MoveTells, SweepBegins, SweepRefused,
           SweepCollects, SweepEnds, AddAgain
  <1>5. MovesClose'
    <2> SUFFICES ASSUME NEW m \in Moves, move'[m].pc \in {"saving", "closed"}
                 PROVE  /\ addr[move'[m].doc] \in {move'[m].from, None}
                        /\ \A a \in Addrs : LiveAt(a)' => room'[held'[a]].doc # move'[m].doc
      BY <1>4 DEF MovesClose, Filed, LiveAt
    <2>1. move'[m] # NoMove
      BY NoneType
    <2>2. /\ move'[m].doc = move[m].doc /\ move'[m].from = move[m].from
          /\ move[m].pc \in {"saving", "closed"}
      BY <1>1, <2>1 DEF MovesRest
    <2> QED
      BY <1>2, <2>2 DEF Fewer, Addressed, MovesClose, Filed, LiveAt
  <1>6. RoomsKeepTheirAddress'
    <2> SUFFICES ASSUME NEW a \in Addrs, LiveAt(a)'
                 PROVE  addr[room'[held'[a]].doc] \in {room'[held'[a]].at, None}
      BY <1>4 DEF RoomsKeepTheirAddress, Filed, LiveAt
    <2> QED
      BY <1>2 DEF Fewer, Addressed, RoomsKeepTheirAddress, Filed, LiveAt
  <1> QED
    BY <1>2, <1>3, <1>5, <1>6 DEF Addressed

LEMMA DeletingKeeps == ASSUME TypeOK, Registered, Addressed, Next, Deleting PROVE Addressed'
  <1>1. UNCHANGED <<held, room, move>>
    BY DEF Deleting, Delete
  <1>2. \A e \in Docs : addr'[e] \in {addr[e], None}
    BY DEF Deleting, Delete, TypeOK
  <1>3. AddrsDiffer'
    BY AddrsStep DEF Addressed
  <1>4. FiledAtKey' /\ OneRenames' /\ OneMoves' /\ OneRoom'
    BY <1>1 DEF Addressed, FiledAtKey, OneRenames, OneMoves, OneRoom, Filed, Live, Vacant
  <1>5. MovesClose'
    <2>1. \A m \in Moves : move[m].pc \in {"saving", "closed"} => move[m].doc \in Docs
      BY MoveType, NoneType
    <2> QED
      BY <1>1, <1>2, <2>1 DEF Addressed, MovesClose, Filed, Live
  <1>6. MovesLive'
    <2>1. \A m \in Moves : TakenOut(m) => room[move[m].room].doc \in Docs
      BY TakenType, RoomType DEF Registered
    <2> QED
      BY <1>1, <1>2, <2>1 DEF Addressed, MovesLive, TakenOut, Live
  <1>7. RoomsKeepTheirAddress'
    <2>1. \A a \in Filed : room[held[a]].doc \in Docs
      BY RoomType DEF Registered, KeysAreKnown, Filed, TypeOK
    <2> QED
      BY <1>1, <1>2, <2>1 DEF Addressed, RoomsKeepTheirAddress, Filed, Live
  <1> QED
    BY <1>3, <1>4, <1>5, <1>6, <1>7 DEF Addressed

\* A move lands: no live room over its document is in the map.
LEMMA CommittingKeeps ==
    ASSUME TypeOK, Registered, Addressed, Next, Committing PROVE Addressed'
  <1>0. PICK m \in Moves : MoveCommits(m)
    BY DEF Committing
  <1>1. RoomsStay /\ HeldShrinks /\ Still /\ MovesRest
    BY StaysStep, StillStep, MovesRestStep
  <1>2. FiledAtKey' /\ OneRenames' /\ OneRoom' /\ OneMoves' /\ Fewer
    BY <1>1, FewerKeep, FewerStep, MovesRestKeep
  <1>3. AddrsDiffer' /\ MovesLive'
    BY <1>1, AddrsStep, LiveStays DEF Addressed
  <1>4. /\ move[m].pc = "closed" /\ move'[m].pc = "moved"
        /\ \A n \in Moves : n # m => move'[n] = move[n]
        /\ \A d \in Docs : d # move[m].doc => addr'[d] = addr[d]
    <2>1. move[m] \in Closes
      BY <1>0, MoveType, NoneType DEF MoveCommits
    <2> QED
      BY <1>0, <2>1 DEF MoveCommits, TypeOK, Closes
  <1>5. MovesClose'
    <2>1. ASSUME NEW n \in Moves, move'[n].pc \in {"saving", "closed"} PROVE FALSE
      <3>1. n # m /\ move[n].pc \in {"saving", "closed"}
        BY <1>4, <2>1
      <3> QED
        BY <1>4, <3>1 DEF Addressed, OneMoves
    <2> QED
      BY <2>1 DEF MovesClose
  <1>6. RoomsKeepTheirAddress'
    <2> SUFFICES ASSUME NEW a \in Addrs, LiveAt(a)'
                 PROVE  addr'[room'[held'[a]].doc] \in {room'[held'[a]].at, None}
      BY DEF RoomsKeepTheirAddress, Filed, LiveAt
    <2>1. /\ LiveAt(a) /\ held[a] = held'[a] /\ held[a] \in Rooms
          /\ room'[held[a]].doc = room[held[a]].doc /\ room'[held[a]].at = room[held[a]].at
      BY <1>2 DEF Fewer
    <2>2. room[held[a]].doc \in Docs
      BY <2>1, RoomType DEF LiveAt, Live
    <2>3. room[held[a]].doc # move[m].doc
      BY <1>4, <2>1 DEF Addressed, MovesClose, LiveAt, Filed
    <2> QED
      BY <1>4, <2>1, <2>2, <2>3 DEF Addressed, RoomsKeepTheirAddress, LiveAt, Filed
  <1> QED
    BY <1>2, <1>3, <1>5, <1>6 DEF Addressed

\* A move takes a room out: it is the document's, and the only one.
LEMMA ClosingKeeps ==
    ASSUME TypeOK, Registered, Addressed, ~Raced, Next, Closing PROVE Addressed'
  <1>0. PICK m \in Moves, d \in Docs, a \in Addrs, b \in Addrs : CloseForMove(m, d, a, b)
    BY DEF Closing
  <1>1. RoomsStay /\ HeldShrinks /\ Still
    BY StaysStep, StillStep, PlainParts
  <1>2. FiledAtKey' /\ OneRenames' /\ OneRoom' /\ Fewer
    BY <1>1, FewerKeep, FewerStep
  <1>3. AddrsDiffer'
    BY AddrsStep DEF Addressed
  <1>4. /\ UNCHANGED <<addr, room>> /\ ~MoveLocked /\ ~Renaming /\ addr[d] = a
        /\ move'[m].pc \in {"saving", "closed"} /\ move'[m].doc = d /\ move'[m].from = a
        /\ move'[m].room = held[a]
        /\ \A n \in Moves : n # m => move'[n] = move[n]
        /\ held' = [held EXCEPT ![a] = None]
    BY <1>0 DEF CloseForMove, TypeOK
  <1>a. a # None /\ held \in [Addrs -> Rooms \cup {None}]
    BY NoneType DEF TypeOK
  <1>5. OneMoves'
    BY <1>4 DEF OneMoves, MoveLocked
  <1>6. \A e \in Addrs : LiveAt(e) => room[held[e]].at = e
    BY <1>4, <1>a DEF Addressed, FiledAtKey, LiveAt, Filed, Renaming, Live, TypeOK
  <1>7. \A e \in Addrs : LiveAt(e) => addr[room[held[e]].doc] \in {e, None}
    BY <1>6 DEF Addressed, RoomsKeepTheirAddress, LiveAt, Filed
  <1>8. MovesClose'
    <2>1. ASSUME NEW n \in Moves, n # m PROVE ~(move'[n].pc \in {"saving", "closed"})
      BY <1>4, <2>1 DEF MoveLocked
    <2>2. ASSUME NEW e \in Addrs, LiveAt(e)' PROVE room'[held'[e]].doc # d
      <3>1. LiveAt(e) /\ e # a /\ held'[e] = held[e]
        BY <1>2, <1>4, <1>a, <2>2 DEF Fewer, LiveAt
      <3> QED
        BY <1>4, <1>7, <1>a, <3>1
    <2> QED
      BY <1>4, <2>1, <2>2 DEF MovesClose, LiveAt, Filed
  <1>9. MovesLive'
    <2>1. ASSUME held[a] # None, Live(held[a])
          PROVE  room[held[a]].doc = d \/ addr[room[held[a]].doc] = None
      <3>1. room[held[a]].doc \in Docs
        BY <1>a, <2>1, RoomType DEF Live
      <3> QED
        BY <1>4, <1>7, <1>a, <2>1, <3>1 DEF LiveAt, Addressed, AddrsDiffer
    <2> QED
      BY <1>4, <2>1 DEF Addressed, MovesLive, TakenOut, Live
  <1>10. RoomsKeepTheirAddress'
    BY <1>2, <1>4 DEF Fewer, Addressed, RoomsKeepTheirAddress, LiveAt, Filed
  <1> QED
    BY <1>2, <1>3, <1>5, <1>8, <1>9, <1>10 DEF Addressed

\* A save renames: the room is the only live one over its document.
LEMMA SavingKeeps ==
    ASSUME TypeOK, Registered, LiveAreKnown, Addressed, ~Raced, Next, Saving PROVE Addressed'
  <1>0. PICK r \in Rooms, b \in Addrs : SaveRenames(r, b)
    BY DEF Saving
  <1> DEFINE d == room[r].doc
  <1>1. /\ room[r] \in Sessions /\ room[r] # NoRoom /\ Live(r)
        /\ d \in Docs /\ room[r].at \in Addrs /\ addr[d] = room[r].at
    BY <1>0, RoomType DEF SaveRenames, Live
  <1>2. /\ UNCHANGED <<held, move, sweep>> /\ ~Renaming /\ ~Moving(d) /\ Vacant(b)
        /\ addr' = [addr EXCEPT ![d] = b]
        /\ room' = [room EXCEPT ![r].at = b, ![r].next = b]
    BY <1>0 DEF SaveRenames
  <1>3. /\ room'[r] # NoRoom /\ room'[r].at = b /\ room'[r].next = b /\ room'[r].doc = d
        /\ room'[r].disposed = room[r].disposed /\ room'[r].key = room[r].key
        /\ \A q \in Rooms : q # r => room'[q] = room[q]
    <2>1. room'[r] \in Sessions /\ room'[r].at = b /\ room'[r].next = b /\ room'[r].doc = d
          /\ room'[r].disposed = room[r].disposed /\ room'[r].key = room[r].key
      BY <1>1, <1>2 DEF TypeOK, Sessions
    <2> QED
      BY <1>2, <2>1, Kinds DEF TypeOK
  <1>4. held \in [Addrs -> Rooms \cup {None}] /\ None \notin Rooms /\ None \notin Addrs
        /\ addr \in [Docs -> Addrs \cup {None}]
    BY NoneType DEF TypeOK
  <1>5. \A q \in Rooms : (Live(q)' <=> Live(q)) /\ (room[q] # NoRoom => room'[q].doc = room[q].doc)
    BY <1>1, <1>3 DEF Live
  <1>6. \A a \in Addrs : LiveAt(a)' <=> LiveAt(a)
    BY <1>2, <1>4, <1>5 DEF LiveAt
  <1>7. AddrsDiffer'
    BY AddrsStep DEF Addressed
  <1> HIDE DEF d
  <1>8. FiledAtKey'
    <2> SUFFICES ASSUME NEW a \in Addrs, LiveAt(a), room'[held[a]].next = None
                 PROVE  room'[held[a]].at = a
      BY <1>2, <1>6 DEF FiledAtKey, LiveAt, Filed
    <2>1. held[a] # r /\ room'[held[a]] = room[held[a]]
      BY <1>3, <1>4 DEF LiveAt
    <2> QED
      BY <2>1 DEF Addressed, FiledAtKey, LiveAt, Filed
  <1>9. OneRenames'
    <2>1. \A q \in Rooms : room'[q] # NoRoom /\ room'[q].next # None => q = r
      BY <1>2, <1>3 DEF Renaming
    <2>2. Vacant(b)'
      BY <1>2, <1>6 DEF Vacant, LiveAt
    <2> QED
      BY <1>3, <2>1, <2>2 DEF OneRenames
  <1>10. OneMoves'
    BY <1>2 DEF Addressed, OneMoves
  <1>11. MovesClose'
    <2> SUFFICES ASSUME NEW m \in Moves, move[m].pc \in {"saving", "closed"}
                 PROVE  /\ addr'[move[m].doc] \in {move[m].from, None}
                        /\ \A a \in Addrs : LiveAt(a)' => room'[held[a]].doc # move[m].doc
      BY <1>2 DEF MovesClose, LiveAt, Filed
    <2>1. move[m] # NoMove /\ move[m].doc \in Docs /\ move[m].doc # d
      BY <1>2, MoveType, NoneType DEF Moving
    <2>2. addr'[move[m].doc] = addr[move[m].doc]
      BY <1>2, <1>4, <2>1
    <2>3. ASSUME NEW a \in Addrs, LiveAt(a)' PROVE room'[held[a]].doc # move[m].doc
      <3>1. LiveAt(a) /\ room'[held[a]].doc = room[held[a]].doc
        BY <1>4, <1>5, <1>6, <2>3 DEF LiveAt, Live
      <3> QED
        BY <3>1 DEF Addressed, MovesClose, LiveAt, Filed
    <2> QED
      BY <2>2, <2>3 DEF Addressed, MovesClose
  <1>12. MovesLive'
    <2> SUFFICES ASSUME NEW m \in Moves, TakenOut(m), Live(move[m].room)'
                 PROVE  LET e == room'[move[m].room].doc IN e = move[m].doc \/ addr'[e] = None
      BY <1>2 DEF MovesLive, TakenOut
    <2>1. PICK q \in Rooms : q = move[m].room /\ room[q] # NoRoom
      BY TakenType DEF Registered
    <2>2. Live(q) /\ room'[q].doc = room[q].doc /\ room[q].doc \in Docs
      <3>1. Live(q)'
        BY <1>2, <2>1 DEF Live
      <3> QED
        BY <1>5, <2>1, <3>1, RoomType
    <2>3. room[q].doc = move[m].doc \/ addr[room[q].doc] = None
      BY <2>1, <2>2 DEF Addressed, MovesLive
    <2> QED
      BY <1>1, <1>2, <1>4, <2>1, <2>2, <2>3, NoneType
  <1>13. \A a \in Addrs : LiveAt(a) /\ held[a] # r => room[held[a]].doc # d
    <2> SUFFICES ASSUME NEW a \in Addrs, LiveAt(a), held[a] # r, room[held[a]].doc = d
                 PROVE  FALSE
      OBVIOUS
    <2>1. CASE IsFiled(r)
      <3>1. LiveAt(room[r].key) /\ held[room[r].key] = r /\ room[r].key \in Addrs
        BY <1>1, <1>4, <2>1, RoomType DEF IsFiled, LiveAt
      <3> QED
        BY <3>1 DEF Addressed, OneRoom, LiveAt, Filed, d
    <2>2. CASE r \in sweep.rooms
      BY <2>2 DEF Registered, SweepHolds, LiveAt, Filed
    <2>3. CASE HeldByMove(r)
      <3>1. PICK m \in Moves : TakenOut(m) /\ move[m].room = r
        BY <1>4, <2>3 DEF HeldByMove, TakenOut
      <3>2. d = move[m].doc \/ addr[d] = None
        BY <1>1, <3>1 DEF Addressed, MovesLive, d
      <3> QED
        BY <1>1, <1>2, <1>4, <3>1, <3>2 DEF Moving, TakenOut
    <2> QED
      BY <1>1, <2>1, <2>2, <2>3 DEF LiveAreKnown
  <1>14. RoomsKeepTheirAddress'
    <2> SUFFICES ASSUME NEW a \in Addrs, LiveAt(a)
                 PROVE  addr'[room'[held[a]].doc] \in {room'[held[a]].at, None}
      BY <1>2, <1>6 DEF RoomsKeepTheirAddress, LiveAt, Filed
    <2>1. CASE held[a] = r
      BY <1>1, <1>2, <1>3, <1>4, <2>1 DEF d
    <2>2. CASE held[a] # r
      <3>1. room'[held[a]] = room[held[a]] /\ room[held[a]].doc # d
        BY <1>3, <1>4, <1>13, <2>2 DEF LiveAt
      <3>2. room[held[a]].doc \in Docs
        BY <1>4, RoomType DEF LiveAt, Live
      <3> QED
        BY <1>2, <1>4, <3>1, <3>2 DEF Addressed, RoomsKeepTheirAddress, LiveAt, Filed
    <2> QED
      BY <2>1, <2>2
  <1>15. OneRoom'
    <2>1. \A a \in Addrs : LiveAt(a) => room'[held[a]].doc = room[held[a]].doc
      BY <1>4, <1>5 DEF LiveAt, Live
    <2> QED
      BY <1>2, <1>6, <2>1 DEF Addressed, OneRoom, LiveAt, Filed
  <1> QED
    BY <1>7, <1>8, <1>9, <1>10, <1>11, <1>12, <1>14, <1>15 DEF Addressed

\* The rekey that follows: the new key is still free.
LEMMA RekeyingKeeps == ASSUME TypeOK, Registered, Addressed, Next, Rekeying PROVE Addressed'
  <1>0. PICK r \in Rooms : Rekey(r)
    BY DEF Rekeying
  <1>1. Rekeyed(r) /\ UNCHANGED <<addr, move>>
    BY <1>0, RekeyEffects DEF Rekey
  <1>2. held \in [Addrs -> Rooms \cup {None}] /\ None \notin Rooms /\ None \notin Addrs
        /\ room[r].key \in Addrs
    BY <1>1, RoomType, NoneType DEF TypeOK, Rekeyed
  <1>3. /\ room[r].at = room[r].next /\ Vacant(room[r].next) /\ room[r].next # None
        /\ \A q \in Rooms : room[q] # NoRoom /\ room[q].next # None => q = r
    BY <1>1, <1>2 DEF Addressed, OneRenames, Rekeyed
  <1>4. \A q \in Rooms :
          /\ Live(q)' <=> Live(q)
          /\ room'[q] = NoRoom <=> room[q] = NoRoom
          /\ room[q] # NoRoom => room'[q].doc = room[q].doc /\ room'[q].at = room[q].at
    BY <1>1, Kinds DEF Rekeyed, Live
  <1>5. \A q \in Rooms : room'[q] # NoRoom => room'[q].next = None
    BY <1>1, <1>3, <1>4 DEF Rekeyed
  <1>6. OneRenames'
    BY <1>5 DEF OneRenames
  <1>7. AddrsDiffer' /\ OneMoves'
    BY <1>1 DEF Addressed, AddrsDiffer, OneMoves
  \* Whoever is in the map was in it, and nobody is twice.
  <1>8. \E f \in [Addrs -> Addrs] : \A a \in Addrs :
          held'[a] # None =>
          /\ held'[a] = held[f[a]]
          /\ \A e \in Addrs : held'[e] # None /\ f[a] = f[e] => a = e
    <2>1. CASE held' = held
      <3> WITNESS [a \in Addrs |-> a] \in [Addrs -> Addrs]
      <3> QED
        BY <2>1
    <2>2. CASE /\ room[r].next # room[r].key /\ held[room[r].key] = r
               /\ held' = [held EXCEPT ![room[r].key] = None, ![room[r].next] = r]
      <3> DEFINE g == [a \in Addrs |-> IF a = room[r].next THEN room[r].key ELSE a]
      <3>1. g \in [Addrs -> Addrs]
        BY <1>2
      <3>2. \A a \in Addrs : held'[a] # None => held'[a] = held[g[a]]
        BY <1>2, <2>2
      <3>3. \A a, e \in Addrs : held'[a] # None /\ held'[e] # None /\ g[a] = g[e] => a = e
        BY <1>2, <2>2
      <3> HIDE DEF g
      <3> QED
        BY <3>1, <3>2, <3>3
    <2> QED
      BY <1>1, <2>1, <2>2 DEF Rekeyed, Refiled
  <1>9. PICK f \in [Addrs -> Addrs] : \A a \in Addrs :
          held'[a] # None =>
          /\ held'[a] = held[f[a]]
          /\ \A e \in Addrs : held'[e] # None /\ f[a] = f[e] => a = e
    BY <1>8
  <1>10. \A a \in Addrs : LiveAt(a)' =>
           /\ LiveAt(f[a]) /\ f[a] \in Addrs /\ held'[a] = held[f[a]]
           /\ room'[held'[a]].doc = room[held[f[a]]].doc
           /\ room'[held'[a]].at = room[held[f[a]]].at
    BY <1>2, <1>4, <1>9 DEF LiveAt, Live
  <1>11. FiledAtKey'
    <2> SUFFICES ASSUME NEW a \in Addrs, LiveAt(a)' PROVE room'[held'[a]].at = a
      BY DEF FiledAtKey, LiveAt, Filed
    <2>1. CASE held'[a] = r
      <3>1. room'[r].at = room[r].next
        BY <1>1, <1>3 DEF Rekeyed
      <3>2. CASE held' = held
        <4>1. room[r].key = a
          BY <2>1, <3>2, <1>2 DEF Registered, KeysAreKnown, Filed
        <4>2. room[r].next = a
          BY <1>1, <1>2, <1>3, <2>1, <3>2, <4>1 DEF Rekeyed, Refiled
        <4> QED
          BY <2>1, <3>1, <4>2
      <3>3. CASE /\ held[room[r].key] = r
                 /\ held' = [held EXCEPT ![room[r].key] = None, ![room[r].next] = r]
        <4>1. a = room[r].next
          <5> SUFFICES ASSUME a # room[r].next PROVE FALSE
            OBVIOUS
          <5>1. held[a] = r /\ a # room[r].key
            BY <1>2, <2>1, <3>3
          <5> QED
            BY <1>2, <5>1 DEF Registered, KeysAreKnown, Filed
        <4> QED
          BY <2>1, <3>1, <4>1
      <3> QED
        BY <1>1, <3>2, <3>3 DEF Rekeyed, Refiled
    <2>2. CASE held'[a] # r
      <3>1. held'[a] = held[a] /\ held[a] # None
        BY <1>1, <1>2, <2>2 DEF Rekeyed, LiveAt
      <3>2. held[a] \in Rooms /\ Live(held[a]) /\ room[held[a]].next = None
            /\ room'[held[a]].at = room[held[a]].at
        BY <1>2, <1>3, <1>4, <2>2, <3>1 DEF LiveAt, Live
      <3> QED
        BY <3>1, <3>2 DEF Addressed, FiledAtKey, Filed
    <2> QED
      BY <2>1, <2>2
  <1>12. OneRoom'
    BY <1>9, <1>10 DEF Addressed, OneRoom, LiveAt, Filed
  <1>13. MovesClose'
    BY <1>1, <1>10 DEF Addressed, MovesClose, LiveAt, Filed
  <1>14. MovesLive'
    BY <1>1, <1>4, TakenType DEF Registered, Addressed, MovesLive, TakenOut
  <1>15. RoomsKeepTheirAddress'
    BY <1>1, <1>10 DEF Addressed, RoomsKeepTheirAddress, LiveAt, Filed
  <1> QED
    BY <1>6, <1>7, <1>11, <1>12, <1>13, <1>14, <1>15 DEF Addressed

\* A room opens: no fence is up, and nobody has the document open elsewhere.
LEMMA OpeningKeeps ==
    ASSUME TypeOK, Registered, FencesCount, Addressed, ~Raced, Next, Opening PROVE Addressed'
  <1>0. PICK c \in Conns, a \in Addrs : JoinOpens(c, a)
    BY DEF Opening
  <1>1. PICK d \in Docs, r \in Rooms : Opens(d, r, a, c)
    BY <1>0, OpensEffects
  <1>2. UNCHANGED <<addr, move>> /\ fence[a] = 0 /\ ~Renaming
    BY <1>0 DEF JoinOpens, MayJoin
  <1>3. held \in [Addrs -> Rooms \cup {None}] /\ None \notin Rooms /\ a # None
    BY NoneType DEF TypeOK
  <1>4. \A e \in Addrs : LiveAt(e) =>
          /\ held[e] # r /\ room'[held[e]] = room[held[e]] /\ e # a
          /\ room[held[e]].at = e /\ addr[room[held[e]].doc] \in {e, None}
    <2> SUFFICES ASSUME NEW e \in Addrs, LiveAt(e)
                 PROVE  /\ held[e] # r /\ room'[held[e]] = room[held[e]] /\ e # a
                        /\ room[held[e]].at = e /\ addr[room[held[e]].doc] \in {e, None}
      OBVIOUS
    <2>1. held[e] \in Rooms /\ held[e] # r /\ room'[held[e]] = room[held[e]] /\ e # a
      BY <1>1, <1>3 DEF Opens, LiveAt, Live, Vacant
    <2>2. room[held[e]].at = e
      BY <1>2, <2>1 DEF Addressed, FiledAtKey, Filed, LiveAt, Live, Renaming
    <2> QED
      BY <2>1, <2>2 DEF Addressed, RoomsKeepTheirAddress, LiveAt, Filed
  <1>5. \A e \in Addrs : LiveAt(e)' =>
          \/ e = a /\ held'[e] = r
          \/ LiveAt(e) /\ held'[e] = held[e] /\ room'[held[e]] = room[held[e]]
    BY <1>1, <1>3 DEF Opens, LiveAt, Live, KeysAreKnown, Registered, Filed
  <1>6. room'[r].doc = d /\ room'[r].at = a /\ room'[r].next = None /\ addr[d] = a
    BY <1>1 DEF Opens
  <1>7. FiledAtKey' /\ RoomsKeepTheirAddress'
    <2> SUFFICES ASSUME NEW e \in Addrs, LiveAt(e)'
                 PROVE  room'[held'[e]].at = e /\ addr[room'[held'[e]].doc] \in {e, None}
      BY <1>2 DEF FiledAtKey, RoomsKeepTheirAddress, LiveAt, Filed
    <2> QED
      BY <1>4, <1>5, <1>6
  <1>8. OneRenames'
    BY <1>1, <1>2, <1>6 DEF OneRenames, Renaming, Opens
  <1>9. AddrsDiffer' /\ OneMoves'
    BY <1>2 DEF Addressed, AddrsDiffer, OneMoves
  <1>10. MovesClose'
    <2> SUFFICES ASSUME NEW m \in Moves, move[m].pc \in {"saving", "closed"}
                 PROVE  /\ addr[move[m].doc] \in {move[m].from, None}
                        /\ \A e \in Addrs : LiveAt(e)' => room'[held'[e]].doc # move[m].doc
      BY <1>2 DEF MovesClose, LiveAt, Filed
    <2>1. addr[move[m].doc] \in {move[m].from, None}
      BY DEF Addressed, MovesClose
    <2>2. move[m].from # a
      <3>1. IsFiniteSet(Fencing(a)) /\ Cardinality(Fencing(a)) = 0
        BY <1>2, RegistryAssumption, FS_Subset DEF FencesCount, Fencing
      <3>2. Fencing(a) = {}
        BY <3>1, FS_EmptySet
      <3> QED
        BY <3>2, NoneType DEF Fencing
    <2>3. move[m].doc # d
      BY <1>3, <1>6, <2>1, <2>2
    <2>4. ASSUME NEW e \in Addrs, LiveAt(e)' PROVE room'[held'[e]].doc # move[m].doc
      BY <1>5, <1>6, <2>3, <2>4 DEF Addressed, MovesClose, LiveAt, Filed
    <2> QED
      BY <2>1, <2>4
  <1>11. MovesLive'
    <2> SUFFICES ASSUME NEW m \in Moves, TakenOut(m)
                 PROVE  room'[move[m].room] = room[move[m].room]
      BY <1>2 DEF Addressed, MovesLive, TakenOut, Live
    <2> QED
      BY <1>1, TakenType DEF Opens, Registered
  <1>12. OneRoom'
    <2> SUFFICES ASSUME NEW e \in Addrs, NEW g \in Addrs, LiveAt(e)', LiveAt(g)',
                        room'[held'[e]].doc = room'[held'[g]].doc
                 PROVE  e = g
      BY DEF OneRoom, LiveAt, Filed
    <2>1. \A x \in Addrs : LiveAt(x) => room[held[x]].doc # d
      BY <1>3, <1>4, <1>6
    <2>2. CASE held'[e] = r \/ held'[g] = r
      BY <1>4, <1>5, <1>6, <2>1, <2>2
    <2>3. CASE held'[e] # r /\ held'[g] # r
      BY <1>5, <2>3 DEF Addressed, OneRoom, LiveAt, Filed
    <2> QED
      BY <2>2, <2>3
  <1> QED
    BY <1>7, <1>8, <1>9, <1>10, <1>11, <1>12 DEF Addressed

-----------------------------------------------------------------------------
\* When no join, move or rename comes between a save that renamed its document
\* and its rekey: addresses, keys, moves and rooms agree in every state.
THEOREM AddressInvariant == ASSUME ~Raced PROVE Spec => [](IInv /\ Addressed)
  <1>1. Init => IInv /\ Addressed
    <2> SUFFICES ASSUME Init PROVE Addressed
      BY InitHolds
    <2>1. AddrsDiffer
      BY DEF Init, AddrsDiffer
    <2>2. FiledAtKey /\ OneRenames /\ RoomsKeepTheirAddress /\ OneRoom
      BY DEF Init, FiledAtKey, OneRenames, RoomsKeepTheirAddress, OneRoom, Filed
    <2>3. OneMoves /\ MovesClose /\ MovesLive
      BY DEF Init, OneMoves, MovesClose, MovesLive, TakenOut, NoMove
    <2> QED
      BY <2>1, <2>2, <2>3 DEF Addressed
  <1>2. IInv /\ Addressed /\ [Next]_vars => (IInv /\ Addressed)'
    <2>1. ASSUME IInv, Addressed, Next PROVE Addressed'
      <3>1. TypeOK /\ Registered /\ FencesCount /\ LiveAreKnown
        BY <2>1 DEF IInv
      <3> QED
        BY <2>1, <3>1, NextParts, PlainParts, RestingKeeps, SavingKeeps, ClosingKeeps,
           DeletingKeeps, CommittingKeeps, RekeyingKeeps, OpeningKeeps
    <2>2. ASSUME IInv, Next PROVE IInv'
      <3>1. TypeOK /\ Registered /\ FencesCount /\ TellsAreDue
        BY <2>2 DEF IInv
      <3>2. TypeOK' /\ FencesCount' /\ Registered'
        BY <2>2, <3>1, TypeStep, KeysStep, MembersStep, SweepStep, MovesStep DEF Registered
      <3> QED
        BY <2>2, <3>1, <3>2, TellsStep, LiveStep, NoEmptyStep, ToldStep DEF IInv
    <2>3. ASSUME Addressed, UNCHANGED vars PROVE Addressed'
      <3>1. AddrsDiffer' /\ FiledAtKey' /\ OneRenames'
        BY <2>3 DEF vars, Addressed, AddrsDiffer, FiledAtKey, OneRenames, Filed, Live, Vacant
      <3>2. OneMoves' /\ MovesClose' /\ MovesLive'
        BY <2>3 DEF vars, Addressed, OneMoves, MovesClose, MovesLive, TakenOut, Filed, Live
      <3>3. RoomsKeepTheirAddress' /\ OneRoom'
        BY <2>3 DEF vars, Addressed, RoomsKeepTheirAddress, OneRoom, Filed, Live
      <3> QED
        BY <3>1, <3>2, <3>3 DEF Addressed
    <2> QED
      BY <2>1, <2>2, <2>3, Stutters
  <1> QED
    BY <1>1, <1>2, PTL DEF Spec

\* A document has one room people can join (CollabSessions::rekey, close_for_move,
\* the fence of join_doc).
THEOREM OneRoomTheorem == ASSUME ~Raced PROVE Spec => []OneRoom
  <1>1. IInv /\ Addressed => OneRoom
    BY DEF Addressed
  <1> QED
    BY <1>1, AddressInvariant, PTL

\* A room people can join saves to the address its document has, through moves
\* that take documents away and renames that take rooms along.
THEOREM AddressTheorem == ASSUME ~Raced PROVE Spec => []RoomsKeepTheirAddress
  <1>1. IInv /\ Addressed => RoomsKeepTheirAddress
    BY DEF Addressed
  <1> QED
    BY <1>1, AddressInvariant, PTL
=============================================================================
