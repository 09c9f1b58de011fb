SPECIFICATION Spec
CONSTANTS
  Programs = {web, ble}
  Requests = {q1, q2, q3}
INVARIANTS
  OtherPinsKept
  EveryRequestSwitches
SYMMETRY LedSymmetry
