SPECIFICATION FairSpec
CONSTANTS
  None = None
  a1 = a1
  a2 = a2
  a3 = a3
  p1 = p1
  p2 = p2
  p3 = p3
  k1 = k1
  k2 = k2
  Callers = {c1, c2}
  Forcers = {w}
  Tokens = {a1, a2, a3}
  Subjects = {p1, p2, p3}
  SubjectOf <- People
  LoginOf <- Logins
  Keys = {k1, k2}
  Managers = {m1, m2, m3}
  MaxConnections = 1
  AuditEnabled = FALSE
  MaxRequests = 3
INVARIANT WorksUnderOwnLogin
PROPERTY NobodyWaitsForAClose
