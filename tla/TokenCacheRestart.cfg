SPECIFICATION Spec
CONSTANTS
  Users = {u1}
  NoUser = NoUser
  Browsers = {b1}
  NoBrowser = NoBrowser
  Requests = {r1, r2}
  MaxTokens = 3
SYMMETRY Symmetric
INVARIANT TokenOrException
