\* One socket while the file changes under the room more than once, with
\* texts a save respells and texts the engine refuses. A room may end for
\* good, so it may stop.
SPECIFICATION Spec
CONSTANTS
    c1 = c1  c2 = c2
    l1 = l1  l2 = l2
    v1 = v1  v2 = v2
    alias = alias  broken = broken  canonical = canonical
    Absent = Absent
    Alias = alias
    Canonical = v1
    Broken = broken
    Lines = {l1}
    Values = {v1, alias, broken}
    Conns = {c1}
    MaxParticipants = 2
    Manifest = FALSE
    MaxEdits = 1
    MaxOutside = 2
    MaxFaults = 1
INVARIANTS
    TokenMatchesBase
    NothingLost
    ConflictIsResolvable
    UnsavedIsArmed
PROPERTIES
    SaveOverwritesOnlySeen
    WritesAreEngrams
CHECK_DEADLOCK FALSE
