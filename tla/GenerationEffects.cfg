SPECIFICATION EffectSpec
CONSTANTS
  p1 = p1
  p2 = p2
  r1 = r1
  r2 = r2
  a1 = a1
  a2 = a2
  Pages = {p1, p2}
  Runs = {r1, r2}
  Accounts = {a1, a2}
  Owner = a1
  Local = Local
  NoRun = NoRun
  NoClaim = NoClaim
  Authorities = {"browser", "agent"}
  MaxFence = 2
  MaxTroubles = 1
  MaxSwitches = 1
  Twins = FALSE
  Elsewhere = FALSE
SYMMETRY Symmetry
CONSTRAINT Bounded
INVARIANTS
  EffectTypeOK
  CompletedHasAsset
  ServedAfterAsset
  ResumedOnce
PROPERTIES
  OnceSpec
  DeletedStays
CHECK_DEADLOCK FALSE
