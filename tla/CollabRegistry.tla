---------------------------- MODULE CollabRegistry ----------------------------
(***************************************************************************)
(* The registry of the co-editing rooms of one domain (CollabSessions,      *)
(* crates/engine/src/collab/session.rs), beside what moves a document's     *)
(* address under it: a frontmatter rename in a room's save, a move verb,    *)
(* and an unregistration of the domain.                                    *)
(*                                                                         *)
(* What happens under the registry's lock is one step.  CollabRoom has what  *)
(* goes on inside a room; here a room is its address, whether it is over,   *)
(* who is in it and what they were told.  Rooms over Reflection pages and   *)
(* drafts are filed under keys of their own and behave the same.           *)
(***************************************************************************)
EXTENDS Integers, FiniteSets

CONSTANTS
    Docs,          \* the documents of the domain
    Addrs,         \* permalinks, which are the keys
    Rooms,         \* CollabSession objects, by epoch; each is opened once
    Conns,         \* connections
    Moves,         \* calls of move_engram
    None,
    MaxSessions, MaxParticipants,
    MaxIncidents,  \* frontmatter renames, panics, deletions and sweeps
    Raced          \* a join, a move or another room's rename may come between
                   \* a save that renamed its document and the rekey that
                   \* follows it, and a save may rename a document that a move
                   \* is moving

ASSUME RegistryAssumption ==
    /\ None \notin Docs \cup Addrs \cup Rooms
    /\ {"none", "internal"} \cap Addrs = {}
    /\ MaxSessions \in Nat /\ MaxParticipants \in Nat
    /\ MaxIncidents \in Nat
    /\ Raced \in BOOLEAN
    /\ IsFiniteSet(Moves)

VARIABLES
    addr,        \* where each document is, or None
    registered,  \* the domain is registered
    held,        \* sessions: the room filed under each key
    room,        \* each room, or NoRoom
    fence,       \* moving: how many moves hold each key
    move,        \* each call of move_engram
    conn,        \* each connection
    sweep,       \* an unregistration: its step, and the rooms it took out
    incidents

vars == <<addr, registered, held, room, fence, move, conn, sweep, incidents>>

NoRoom == [open |-> FALSE]
Sessions ==
    [open : {TRUE}, doc : Docs, key : Addrs, at : Addrs, next : Addrs \cup {None},
     disposed : BOOLEAN, told : {"none", "internal"} \cup Addrs, went : Addrs \cup {None}]
NoMove == [pc |-> "idle"]
Closes ==
    [pc : {"saving", "closed", "orphan", "moved", "telling"}, doc : Docs, from : Addrs,
     to : Addrs, room : Rooms \cup {None}]
Out == [at |-> "out"]
Members == [at : {"in", "leaving"}, room : Rooms]

TypeOK ==
    /\ addr \in [Docs -> Addrs \cup {None}]
    /\ registered \in BOOLEAN
    /\ held \in [Addrs -> Rooms \cup {None}]
    /\ room \in [Rooms -> Sessions \cup {NoRoom}]
    /\ fence \in [Addrs -> Nat]
    /\ move \in [Moves -> Closes \cup {NoMove}]
    /\ conn \in [Conns -> Members \cup {Out}]
    /\ sweep \in [at : {"none", "fenced", "saving"}, rooms : SUBSET Rooms]
    /\ incidents \in 0..MaxIncidents

NoSweep == [at |-> "none", rooms |-> {}]

Init ==
    /\ addr \in [Docs -> Addrs]
    /\ \A d, e \in Docs : addr[d] = addr[e] => d = e
    /\ registered = TRUE
    /\ held = [a \in Addrs |-> None]
    /\ room = [r \in Rooms |-> NoRoom]
    /\ fence = [a \in Addrs |-> 0]
    /\ move = [m \in Moves |-> NoMove]
    /\ conn = [c \in Conns |-> Out]
    /\ sweep = NoSweep
    /\ incidents = 0

Live(r) == room[r] # NoRoom /\ ~room[r].disposed
Filed == {a \in Addrs : held[a] # None}
In(r) == {c \in Conns : conn[c] = [at |-> "in", room |-> r]}
Vacant(a) == held[a] # None => ~Live(held[a])
Free(a) == \A d \in Docs : addr[d] # a
Renaming == \E r \in Rooms : room[r] # NoRoom /\ room[r].next # None
Moving(d) == \E m \in Moves : move[m] # NoMove /\ move[m].doc = d
HeldByMove(r) == \E m \in Moves : move[m] # NoMove /\ move[m].room = r

Incident == incidents < MaxIncidents /\ incidents' = incidents + 1

\* A room ends; its members are told once, and leave.
Ended(r) == [room[r] EXCEPT !.disposed = TRUE]
Told(r, what) == [Ended(r) EXCEPT !.told = IF @ = "none" THEN what ELSE @]

-----------------------------------------------------------------------------
\* join_doc.  Mutant of MayJoin: the fence is not looked at.
MayJoinFenced(c, a) ==
    /\ conn[c] = Out
    /\ registered
    /\ sweep.at = "none"
    /\ Raced \/ ~Renaming

\* The pass of the upgrade route (join_pass), and no move under way.
MayJoin(c, a) ==
    /\ conn[c] = Out
    /\ registered
    /\ sweep.at = "none"
    /\ fence[a] = 0
    /\ Raced \/ ~Renaming

JoinOpen(c, a) ==
    /\ MayJoin(c, a)
    /\ held[a] # None
    /\ Live(held[a])
    /\ Cardinality(In(held[a])) < MaxParticipants
    /\ conn' = [conn EXCEPT ![c] = [at |-> "in", room |-> held[a]]]
    /\ UNCHANGED <<addr, registered, held, room, fence, move, sweep, incidents>>

\* No room or a corpse is there: the document is opened.
JoinOpens(c, a) ==
    /\ MayJoin(c, a)
    /\ Vacant(a)
    /\ held[a] # None \/ Cardinality(Filed) < MaxSessions
    /\ MaxParticipants > 0
    /\ \E d \in Docs, r \in Rooms :
        /\ addr[d] = a
        /\ room[r] = NoRoom
        /\ room' = [room EXCEPT ![r] =
             [open |-> TRUE, doc |-> d, key |-> a, at |-> a, next |-> None,
              disposed |-> FALSE, told |-> "none", went |-> None]]
        /\ held' = [held EXCEPT ![a] = r]
        /\ conn' = [conn EXCEPT ![c] = [at |-> "in", room |-> r]]
    /\ UNCHANGED <<addr, registered, fence, move, sweep, incidents>>

\* finish: remove_conn, and by the last one a final save (a SaveRenames, if it
\* is one) before it looks whether the room is empty.
Leave(c) ==
    /\ conn[c].at = "in"
    /\ conn' = [conn EXCEPT ![c] =
         IF In(@.room) = {c} THEN [@ EXCEPT !.at = "leaving"] ELSE Out]
    /\ UNCHANGED <<addr, registered, held, room, fence, move, sweep, incidents>>

\* Mutant of Leaves: the room is looked up where its document is saved to.
LeavesByAddress(r) == room[r].at

\* The key is read under the registry's lock.
Leaves(r) == room[r].key

DisposeIfEmpty(c) ==
    /\ conn[c].at = "leaving"
    /\ LET r == conn[c].room
           k == Leaves(r)
       IN IF held[k] = r /\ (room[r].disposed \/ In(r) = {})
          THEN /\ held' = [held EXCEPT ![k] = None]
               /\ room' = [room EXCEPT ![r] = Ended(r)]
          ELSE UNCHANGED <<held, room>>
    /\ conn' = [conn EXCEPT ![c] = Out]
    /\ UNCHANGED <<addr, registered, fence, move, sweep, incidents>>

-----------------------------------------------------------------------------
\* A save of a room's text whose permalink line was edited: the document
\* answers to a new address, and the room saves there from now on.
SaveRenames(r, b) ==
    /\ Incident
    /\ registered
    /\ Live(r)
    /\ room[r].next = None
    /\ addr[room[r].doc] = room[r].at
    /\ Free(b)
    /\ Raced \/ (~Renaming /\ ~Moving(room[r].doc) /\ Vacant(b))
    /\ addr' = [addr EXCEPT ![room[r].doc] = b]
    /\ room' = [room EXCEPT ![r].at = b, ![r].next = b]
    /\ UNCHANGED <<registered, held, fence, move, conn, sweep>>

\* Mutant of Refiled: a room that lost its entry is filed all the same.
RefiledAnyway(r, b) == Vacant(b)

\* The entry is still the room's, and no live room has the new key.
Refiled(r, b) ==
    /\ held[room[r].key] = r
    /\ Vacant(b)

\* adopt_rename, with no guard held: rekey.
Rekey(r) ==
    /\ room[r] # NoRoom
    /\ room[r].next # None
    /\ LET b == room[r].next IN
       IF b # room[r].key /\ Refiled(r, b)
       THEN /\ held' = [held EXCEPT ![room[r].key] = None, ![b] = r]
            /\ room' = [room EXCEPT ![r].key = b, ![r].next = None]
       ELSE /\ room' = [room EXCEPT ![r].next = None]
            /\ UNCHANGED held
    /\ UNCHANGED <<addr, registered, fence, move, conn, sweep, incidents>>

\* A saver pass panics: poison.  The room stays filed, a corpse.
Poison(r) ==
    /\ Incident
    /\ Live(r)
    /\ room' = [room EXCEPT ![r] = Told(r, "internal")]
    /\ UNCHANGED <<addr, registered, held, fence, move, conn, sweep>>

-----------------------------------------------------------------------------
\* The move verb.  lock_moves: one move at a time, but for what a cancelled
\* one leaves to its task.
MoveLocked == \E m \in Moves : move[m].pc \in {"saving", "closed", "moved"}

\* close_for_move: the fence and the room's entry in one step.
CloseForMove(m, d, a, b) ==
    /\ move[m] = NoMove
    /\ ~MoveLocked
    /\ registered
    /\ addr[d] = a
    /\ Free(b)
    /\ Raced \/ ~Renaming
    /\ fence' = [fence EXCEPT ![a] = @ + 1]
    /\ held' = [held EXCEPT ![a] = None]
    /\ move' = [move EXCEPT ![m] =
         [pc |-> IF held[a] = None THEN "closed" ELSE "saving",
          doc |-> d, from |-> a, to |-> b, room |-> held[a]]]
    /\ UNCHANGED <<addr, registered, room, conn, sweep, incidents>>

\* The room's last save is done, and the room is over but not told yet.
MoveSaved(m) ==
    /\ move[m].pc = "saving"
    /\ move' = [move EXCEPT ![m].pc = "closed"]
    /\ room' = [room EXCEPT ![move[m].room] = Ended(move[m].room)]
    /\ UNCHANGED <<addr, registered, held, fence, conn, sweep, incidents>>

\* The move lands, by the document's path, whatever address it has by now.
MoveCommits(m) ==
    /\ move[m].pc = "closed"
    /\ registered
    /\ addr[move[m].doc] # None /\ Free(move[m].to)
    /\ addr' = [addr EXCEPT ![move[m].doc] = move[m].to]
    /\ move' = [move EXCEPT ![m].pc = "moved"]
    /\ LET r == move[m].room IN
       room' = IF r # None /\ room[r].told = "none"
               THEN [room EXCEPT ![r].went = move[m].to] ELSE room
    /\ UNCHANGED <<registered, held, fence, conn, sweep, incidents>>

Lift(a) == [fence EXCEPT ![a] = @ - 1]
Tells(m, what) ==
    LET r == move[m].room IN
    room' = IF r = None THEN room ELSE [room EXCEPT ![r] = Told(r, what)]

\* The move fails after the close, or its request goes away before it
\* commits: the guard drops.
MoveDrops(m) ==
    /\ move[m].pc = "closed"
    /\ Tells(m, "internal")
    /\ fence' = Lift(move[m].from)
    /\ move' = [move EXCEPT ![m] = NoMove]
    /\ UNCHANGED <<addr, registered, held, conn, sweep, incidents>>

\* The request goes away during the last save, which its task finishes with
\* the fence.
MoveCancelled(m) ==
    /\ move[m].pc = "saving"
    /\ move' = [move EXCEPT ![m].pc = "orphan"]
    /\ UNCHANGED <<addr, registered, held, room, fence, conn, sweep, incidents>>

OrphanEnds(m) ==
    /\ move[m].pc = "orphan"
    /\ Tells(m, "internal")
    /\ fence' = Lift(move[m].from)
    /\ move' = [move EXCEPT ![m] = NoMove]
    /\ UNCHANGED <<addr, registered, held, conn, sweep, incidents>>

\* It goes away after the commit: a task of TellMoved's tells.
MoveOrphaned(m) ==
    /\ move[m].pc = "moved"
    /\ move' = [move EXCEPT ![m].pc = "telling"]
    /\ UNCHANGED <<addr, registered, held, room, fence, conn, sweep, incidents>>

\* Mutant of MoveTells: a cancelled move tells what a failed one does.
MoveTellsInternal(m) ==
    /\ move[m].pc \in {"moved", "telling"}
    /\ Tells(m, IF move[m].pc = "moved" THEN move[m].to ELSE "internal")
    /\ fence' = Lift(move[m].from)
    /\ move' = [move EXCEPT ![m] = NoMove]
    /\ UNCHANGED <<addr, registered, held, conn, sweep, incidents>>

MoveTells(m) ==
    /\ move[m].pc \in {"moved", "telling"}
    /\ Tells(m, move[m].to)
    /\ fence' = Lift(move[m].from)
    /\ move' = [move EXCEPT ![m] = NoMove]
    /\ UNCHANGED <<addr, registered, held, conn, sweep, incidents>>

-----------------------------------------------------------------------------
\* unregister_domain: fence_joins, then the guards, which may refuse.
SweepBegins ==
    /\ registered
    /\ sweep = NoSweep
    /\ Incident
    /\ sweep' = [sweep EXCEPT !.at = "fenced"]
    /\ UNCHANGED <<addr, registered, held, room, fence, move, conn>>

SweepRefused ==
    /\ sweep.at = "fenced"
    /\ sweep' = NoSweep
    /\ UNCHANGED <<addr, registered, held, room, fence, move, conn, incidents>>

\* dispose_domain takes every room out of the map ...
SweepCollects ==
    /\ sweep.at = "fenced"
    /\ sweep' = [at |-> "saving", rooms |-> {held[a] : a \in Filed}]
    /\ held' = [a \in Addrs |-> None]
    /\ UNCHANGED <<addr, registered, room, fence, move, conn, incidents>>

\* ... and its task saves and closes each.
SweepCloses(r) ==
    /\ r \in sweep.rooms
    /\ sweep' = [sweep EXCEPT !.rooms = @ \ {r}]
    /\ room' = [room EXCEPT ![r] = Told(r, "internal")]
    /\ UNCHANGED <<addr, registered, held, fence, move, conn, incidents>>

SweepEnds ==
    /\ sweep.at = "saving"
    /\ sweep.rooms = {}
    /\ registered' = FALSE
    /\ sweep' = NoSweep
    /\ UNCHANGED <<addr, held, room, fence, move, conn, incidents>>

\* The domain is added again, with the files it kept.
AddAgain ==
    /\ ~registered
    /\ registered' = TRUE
    /\ UNCHANGED <<addr, held, room, fence, move, conn, sweep, incidents>>

\* Somebody deletes a document, with a room over it or without.
Delete(d) ==
    /\ addr[d] # None
    /\ Incident
    /\ addr' = [addr EXCEPT ![d] = None]
    /\ UNCHANGED <<registered, held, room, fence, move, conn, sweep>>

Next ==
    \/ \E c \in Conns, a \in Addrs : JoinOpen(c, a) \/ JoinOpens(c, a)
    \/ \E c \in Conns : Leave(c) \/ DisposeIfEmpty(c)
    \/ \E r \in Rooms, b \in Addrs : SaveRenames(r, b)
    \/ \E r \in Rooms : Rekey(r) \/ Poison(r) \/ SweepCloses(r)
    \/ \E m \in Moves, d \in Docs, a, b \in Addrs : CloseForMove(m, d, a, b)
    \/ \E m \in Moves :
        \/ MoveSaved(m) \/ MoveCommits(m) \/ MoveDrops(m) \/ MoveCancelled(m)
        \/ OrphanEnds(m) \/ MoveOrphaned(m) \/ MoveTells(m)
    \/ SweepBegins \/ SweepRefused \/ SweepCollects \/ SweepEnds \/ AddAgain
    \/ \E d \in Docs : Delete(d)

Spec == Init /\ [][Next]_vars

-----------------------------------------------------------------------------
\* A document has one room people can join: nobody edits it in a second room
\* beside the first, through renames, moves, corpses and rooms that were
\* left and joined again.
OneRoom ==
    \A a, b \in Filed :
        Live(held[a]) /\ Live(held[b]) /\ room[held[a]].doc = room[held[b]].doc => a = b

\* A room people can join saves to the address its document has: a move takes
\* the room out before it takes the address away ("no room opens over the
\* document until the move is done"), and a rename takes the room along.
RoomsKeepTheirAddress ==
    \A a \in Filed :
        LET r == held[a] IN Live(r) => addr[room[r].doc] \in {room[r].at, None}

\* A room in the map has somebody in it, or somebody who will look whether it
\* is empty: a left room does not keep its place among MAX_SESSIONS.
NoEmptyRoomStays ==
    \A a \in Filed : \E c \in Conns : conn[c] # Out /\ conn[c].room = held[a]

\* Whoever sits in a room that is over has been told, where its document
\* went if the move committed and "internal" otherwise, or will be by the
\* move that ended it.
EveryoneIsTold ==
    \A r \in Rooms :
        room[r] # NoRoom =>
        /\ room[r].disposed /\ In(r) # {} => room[r].told # "none" \/ HeldByMove(r)
        /\ room[r].told # "none" =>
             room[r].told = IF room[r].went = None THEN "internal" ELSE room[r].went

\* A domain that is not registered has no room but one a move is ending: the
\* sweep found every room, and no join, rename or move brought one back.
SweepIsFinal ==
    ~registered =>
    /\ Filed = {}
    /\ \A r \in Rooms : Live(r) => HeldByMove(r)
=============================================================================
