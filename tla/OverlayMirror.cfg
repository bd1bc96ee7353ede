\* Two paths of one account's drafts. Every call may have begun and ended,
\* so the drafts may rest.
SPECIFICATION FairSpec
CONSTANTS
    p = p  q = q
    t = t  u = u
    Paths = {p, q}
    Texts = {t, u}
    TeamTexts = {t}
    None = None
    Tomb = Tomb
    Origin = Origin
    Calls = {c1, c2}
    c1 = c1  c2 = c2
    MaxCalls = 2
    MaxFaults = 2
    MaxWipes = 1
    MaxPulls = 1

    
PROPERTIES
    DraftsComeBack
CHECK_DEADLOCK FALSE
