\* A room over a MANIFEST, whose saves may give the mutex up half way,
\* under the fairness of the daemon tasks. A room may end for good, so it
\* may stop.
SPECIFICATION FairSpec
CONSTANTS
    c1 = c1  c2 = c2
    l1 = l1  l2 = l2
    v1 = v1  v2 = v2
    alias = alias  broken = broken  canonical = canonical
    Absent = Absent
    Alias = alias
    Canonical = v1
    Broken = broken
    Lines = {l1}
    Values = {v1, broken}
    Conns = {c1, c2}
    MaxParticipants = 2
    Manifest = TRUE
    MaxEdits = 1
    MaxOutside = 0
    MaxFaults = 1
PROPERTIES
    OverStartsNoSave
    UnsavedSettles
    EmptiedRoomGoes
CHECK_DEADLOCK FALSE
