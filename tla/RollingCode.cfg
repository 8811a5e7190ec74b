\* One device of either mode, codes of 4 values that roll over after the fourth telegram.
CONSTANTS
  Device = {d1}
  Width = 4
  Window = 1
  Horizon = 2
  StoreFails = TRUE
  Unset = Unset
  MaxSent = 5
  MaxQueue = 1
  MaxRestarts = 1
SPECIFICATION Spec
INVARIANTS
  TypeOK
  AtMostOnce
  OutboundFresh
  NextAccepted
CONSTRAINT StillClaimed
CHECK_DEADLOCK FALSE
