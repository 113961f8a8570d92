SPECIFICATION Spec
CONSTANTS
  Callers = {c1}
  Texts = {t0}
  c1 = c1
  t0 = t0
  EmptyText = EmptyText
  Zero = Zero
  ZeroText = t0
  Inputs <- MCInputs
  MaxFields = 2
  MaxValues = 2
INVARIANTS
  RoundTrip
  AccessorsAgree
  TablesMatchRecords
PROPERTIES
  EditKeepsOtherFields
