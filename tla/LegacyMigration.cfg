\* Two Hosts and the Operator, four attempts and three failures or crashes.
SPECIFICATION FairSpec
CONSTANTS
  Hosts = {h1, h2}
  Operator = Operator
  None = None
  MaxAttempts = 4
  MaxFaults = 3
  ReadsFail = FALSE
INVARIANTS
  ChildIsGuarded
  DamageIsRecoverable
  MarkersAreOwned
  ServesOnlyUnguarded
PROPERTIES
  ImplementsUpgrade
  EventuallyServed
