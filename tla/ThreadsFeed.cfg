\* Two passes beside the verbs and an outside editor, over four contents.
SPECIFICATION ThreadsSpec
CONSTANTS
    s1 = s1
    s2 = s2
    s3 = s3
    s4 = s4
    p1 = p1
    p2 = p2
    Sums = {s1, s2, s3, s4}
    Gone = Gone
    Unheard = Unheard
    Passes = {p1, p2}
    Settled = TRUE
SYMMETRY Symmetry
INVARIANTS
    TabsAreCurrent
