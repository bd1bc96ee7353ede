\* Two instances with a disk each or one volume, a command of one of them, one
\* engram with two texts. Claims and changes are bounded, so it stops.
SPECIFICATION Spec
CONSTANTS
    Insts = {i1, i2}
    Cmds = {c1}
    Disks = {x, y}
    Engrams = {e}
    Assets = {}
    Texts = {t1, t2}
    None = None
    MaxClaims = 3
    MaxWrites = 1
    MaxByHand = 1
    Raced = FALSE
SYMMETRY Sym
INVARIANTS
    UnmarkedIsWhole
    
    
CHECK_DEADLOCK FALSE
