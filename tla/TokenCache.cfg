SPECIFICATION Spec
CONSTANTS
  Users = {u1, u2}
  NoUser = NoUser
  Browsers = {b1, b2}
  NoBrowser = NoBrowser
  Requests = {r1, r2}
  MaxTokens = 3
SYMMETRY Symmetric
INVARIANTS TypeOK OwnTokens SignedInHasToken
PROPERTIES NeverForgets
