SPECIFICATION Spec
CONSTANTS
  Scripts <- MCScripts
  Nobody = Nobody
  RiscvDv = {}
  Directed = {d1}
  Outcomes <- FewOutcomes
  Jobs = 2
  MaxMakes = 2
  MaxEvents = 1
  All = All
INVARIANTS RerunPassIsReal
CHECK_DEADLOCK FALSE
