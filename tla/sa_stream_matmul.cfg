SPECIFICATION Spec
CONSTANTS
  R = 2
  C = 2
  LM = 1
  LA = 1
  MaxPkts = 3
  Modes <- StreamOnly
INVARIANT MatMul
