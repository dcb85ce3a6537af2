\* is_available_in against the modes the probing found.
CONSTANTS
  Cpus <- MCCpus
  Self = Self
  Junk = Junk
SPECIFICATION Spec
INVARIANT AnswersItsAvailability
