CONSTANTS
  Setups = {"vmc"}
  HA = FALSE
  MaxFaults <- Faults
INIT Init
NEXT Next
INVARIANT
  SharedTagged
CHECK_DEADLOCK FALSE
