\* Three daemons, a doctor and two clients that dislodge; every process ends.
SPECIFICATION Spec
CONSTANTS
    Daemons = {d1, d2, d3}
    Doctors = {x1}
    Clients = {c1, c2}
    Files = {f1, f2, f3, f4, f5}
    Nobody = Nobody
    Raced = FALSE
SYMMETRY Sym
INVARIANTS
    OwnersFileIsNamed
    ServingIsFound
PROPERTIES
    Exclusive
CHECK_DEADLOCK FALSE
