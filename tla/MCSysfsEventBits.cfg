\* A term whose format is a single bit.
CONSTANTS
  Width <- MCWidth
  Terms <- SingleTerms
  MaxTerms = 2
  Cpus = {0, 1}
SPECIFICATION Spec
INVARIANT SingleBitsCount
CHECK_DEADLOCK FALSE
