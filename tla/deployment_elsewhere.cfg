CONSTANTS
  Setups = {"vmc", "vcd", "pipelineVcf"}
  HA = TRUE
  MaxFaults <- Faults
SPECIFICATION Spec
INVARIANTS
  Kept
  Grounded
PROPERTIES
  Converges
CHECK_DEADLOCK FALSE
