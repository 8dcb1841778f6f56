SPECIFICATION FairSpec
CONSTANTS
  R = 2
  C = 3
  LM = 2
  LA = 2
  MaxPkts = 3
  Modes <- SerialAndPaced
INVARIANTS TypeOK MatMul LastBeat
PROPERTIES StallStable Drains Accepts
