\* Every value and every mask of six bits.
CONSTANT Width <- MCWidth
SPECIFICATION Spec
INVARIANTS
  TypeOK
  ReturnsDeposit
  ReadsBack
PROPERTY LoopEnds
CHECK_DEADLOCK FALSE
