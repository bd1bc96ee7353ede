\* One document and two addresses: three rooms one after another, two
\* connections and two moves, one of them cancelled. Rooms are opened once,
\* so it stops.
SPECIFICATION Spec
CONSTANTS
    Docs = {d1}
    Addrs = {a1, a2}
    Rooms = {r1, r2, r3}
    Conns = {c1, c2}
    Moves = {m1, m2}
    None = None
    MaxSessions = 2
    MaxParticipants = 2
    MaxIncidents = 2
    Raced = FALSE
SYMMETRY Sym
INVARIANTS
    
    
    NoEmptyRoomStays
    EveryoneIsTold
    SweepIsFinal
CHECK_DEADLOCK FALSE
