\* Two CPUs and a kernel that may change any answer at any time.
CONSTANTS
  Cpus <- MCCpus
  Self = Self
  Junk = Junk
SPECIFICATION FairSpec
INVARIANTS
  TypeOK
  VerdictIsExact
  SupportedCpusAreOpenable
  FallbackIsLastResort
  RejectionIsJustified
PROPERTY CheckEnds
