SPECIFICATION Spec
CONSTANTS
  Requests = {r1, r2, r3, r4}
  N = 1
  PassesWakeOn = FALSE
PROPERTIES
  RefusedOnlyWhenBusy
