\* Two sockets, the saver, an agent, a sweep and one outside change, over a
\* room whose saves may give the mutex up half way. A room may end for good,
\* so it may stop.
SPECIFICATION Spec
CONSTANTS
    c1 = c1  c2 = c2
    l1 = l1  l2 = l2
    v1 = v1  v2 = v2
    alias = alias  broken = broken  canonical = canonical
    Absent = Absent
    Alias = alias
    Canonical = canonical
    Broken = broken
    Lines = {l1, l2}
    Values = {v1, v2}
    Conns = {c1, c2}
    MaxParticipants = 2
    Manifest = TRUE
    MaxEdits = 2
    MaxOutside = 1
    MaxFaults = 0
SYMMETRY Symmetry
INVARIANTS
    NothingLost
    UneditedNeverSaves
PROPERTIES
    ComposeTouchesItsLine
CHECK_DEADLOCK FALSE
