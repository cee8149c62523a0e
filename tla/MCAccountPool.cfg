SPECIFICATION Spec
CONSTANTS
  Requests = {r1, r2, r3, r4}
  N = 2
  PassesWakeOn = TRUE
INVARIANTS
  TypeOK
  WaitersConsistent
  BusyIffHeld
  NoLostWakeup
PROPERTIES
  RefusedOnlyWhenBusy
  WaitersAnswered
  AccountsReturn
  ImplementsLease
