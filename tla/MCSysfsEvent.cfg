\* Descriptions of one or two terms, on two CPUs.
CONSTANTS
  Width <- MCWidth
  Terms <- MCTerms
  MaxTerms = 2
  Cpus = {0, 1}
SPECIFICATION FairSpec
INVARIANTS
  TypeOK
  ConfigIsDescribed
  MasksAreTheirRanges
  OutcomeIsDeserved
  CpusComeFromThePmu
PROPERTY ConstructionEnds
CHECK_DEADLOCK FALSE
