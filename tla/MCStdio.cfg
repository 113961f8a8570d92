SPECIFICATION Spec
CONSTANTS
  r1 = r1
  r2 = r2
  None = None
  Threads = {r1}
  OpsOf <- StdioOps
  Files = {f1, f2}
  Sessions = {s1, s2, s3}
SYMMETRY SessionSymmetry
INVARIANTS
  NoLeakedSession
  StateBelongsToSession
  AbandonedWorkIsStopped
