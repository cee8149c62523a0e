SPECIFICATION Spec
CONSTANTS
  Chats = {c1, c2}
  Accounts = {a1}
  MaxPool = 1
INVARIANTS
  TypeOK
  LeaseCoversChat
  RunsWellFormed
  
  RecordedOnce
PROPERTIES
  ChatEnds
  
