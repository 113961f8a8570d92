SPECIFICATION Spec
CONSTANTS
  None = None
  Workers = {w1, w2}
  Apps = {a1}
  Clients = {c1, c2}
  Users = {u1}
  Durable = TRUE
  MaxSecrets = 5
SYMMETRY Symmetry
INVARIANT LoginSingleUse
INVARIANT ClientKept
INVARIANT SubjectSurvivesRefresh
PROPERTY ExpiredLoginEnds
