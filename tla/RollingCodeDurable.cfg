\* The store never raises, so only a missing row can leave it behind.
CONSTANTS
  Device = {d1}
  Width = 4
  Window = 1
  Horizon = 2
  StoreFails = FALSE
  Unset = Unset
  MaxSent = 3
  MaxQueue = 1
  MaxRestarts = 1
SPECIFICATION Spec
INVARIANT CodesDurable
CHECK_DEADLOCK FALSE
