SPECIFICATION Spec
CONSTANTS
  Tasks = {t1, t2, t3}
  Models = {m1, m2}
  NoTask = NoTask
  MaxId = 3
  MaxPolls = 1
INVARIANTS
  TypeOK
  LockIffOwner
  CacheAgrees
PROPERTIES
  HandedOutActive
  ChatUndisturbed
  AcquireEnds
  ImplementsLease
