\* A slot of either loop: work, runs, lags, one fault or odd step, and two
\* deliveries: a slot turned off over one may send again.
SPECIFICATION TriggerFairSpec
CONSTANTS
    Loops = {"reflect", "evolve"}
    Threshold = 2
    MaxCount <- Counts
    Attempts = 2
    Flights = {f1, f2}
    MaxFaults = 1
PROPERTIES
    CapHolds
    WorkIsTold
    OwedIsKept
