SPECIFICATION Spec
CONSTANTS
  Chats = {c1}
  Accounts = {a1}
  MaxPool = 0
INVARIANTS
  FailureRecorded
