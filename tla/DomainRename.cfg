CONSTANTS
  Old = old
  New = new
  Writers = {w1, w2}
  Passes = {p1}
  Kinds = {"local", "full"}
  MaxCrashes = 1
  MaxFaults = 1
  Stale = FALSE
  DropsAt = {"steps", "unjournal"}

CHECK_DEADLOCK FALSE
SPECIFICATION FairSpec
INVARIANTS
  OneName
  HeldWithReason
PROPERTIES
  LandsInWholeDomain
  LeftoverGoes
