SPECIFICATION FairRecovery
CONSTANTS
  Logins = {alice, bob, carol}
  MaxConnections = 2
  MaxFailures = 3
  Gone = Gone
INVARIANT TeardownIsEarned
INVARIANT OneLoopPerStart
PROPERTY NoPassOverHung
PROPERTY TeardownReachesAll
PROPERTY HungIsReset
