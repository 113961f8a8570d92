SPECIFICATION Spec
CONSTANTS
  None = None
  Workers = {w1}
  Apps = {a1, a2}
  Clients = {c1, c2}
  Users = {u1}
  Durable = FALSE
  MaxSecrets = 6
SYMMETRY Symmetry
INVARIANT TypeOK
INVARIANT OneRefreshToken
INVARIANT RevocationEndsLogin
INVARIANT OneClientPerApp
