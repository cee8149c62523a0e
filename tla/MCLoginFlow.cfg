SPECIFICATION Spec
CONSTANTS
  Sids = {s1, s2}
  Tokens = {x, y}
  NoToken = NoToken
  Commits = {c1, c2}
  NoSid = NoSid
  MaxTokens = 3
  PollLimit = 1
  Ttl = 2
INVARIANTS
  TypeOK
  StoresAgree
  PollerIffPending
PROPERTIES
  CommitAddsOnce
  LoginKept
SYMMETRY Symmetry
