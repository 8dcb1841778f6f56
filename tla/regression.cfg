SPECIFICATION FairSpec
CONSTANTS
  Scripts <- MCScripts
  Nobody = Nobody
  RiscvDv = {r1}
  Directed = {d1}
  Outcomes <- FewOutcomes
  Jobs = 2
  MaxMakes = 2
  MaxEvents = 1
  All = All
INVARIANTS TypeOK PassIsReal CollectedLast NothingForgotten
PROPERTIES Refines MakeEnds
CHECK_DEADLOCK FALSE
