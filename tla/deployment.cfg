CONSTANTS
  Setups = {"orchestrated", "manual", "vcf", "tkgs", "pipeline", "pipelineTkgs"}
  HA = TRUE
  MaxFaults <- Faults
SPECIFICATION Spec
INVARIANTS
  TypeOK
  Kept
  Grounded

  
CHECK_DEADLOCK FALSE
