\* An agent, and the machine's owner who cannot tell its writes from others',
\* beside another account. Takes are bounded, so it may stop.
SPECIFICATION Spec
CONSTANTS
    r1 = r1  r2 = r2  a1 = a1  a2 = a2
    Runners = {r1, r2}
    Accounts = {a1, a2}
    Owner = Owner
    AccountOf <- AgentAndOwner
    Paths = {p1}
    MaxTakes = 2
    MaxFaults = 2
    MaxRecords = 2
    Raced = FALSE
INVARIANTS
    RecordedOnce
    EveryRunIsInHistory
    
    
CHECK_DEADLOCK FALSE
