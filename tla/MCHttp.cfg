SPECIFICATION FairSpec
CONSTANTS
  r1 = r1
  r2 = r2
  None = None
  Threads = {r1, r2}
  OpsOf <- HttpOps
  Files = {f1}
  Sessions = {s1, s2}
INVARIANTS
  IndInv
  RecordTracksSession
  CommandsAreSerialized
  BurstOpensOne
PROPERTIES
  CallsEnd
  ServesQueries
