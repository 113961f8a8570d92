SPECIFICATION Spec
CONSTANTS
  Callers = {c1, c2}
  Crashable = {c1}
  OpsOf <- MCOps
  cust = cust
  customs = customs
  None = None
  Names = {cust, customs}
  Starts <- MCStarts
  Notes = {n1, n2}
  SavedContent <- MCSaved
  AppendedContent <- MCAppended
  n1 = n1
  n2 = n2
  MaxSections = 3
  c1 = c1
  c2 = c2
INVARIANTS
  
  
  KnowledgeKept
PROPERTY GetReturnsKnown
