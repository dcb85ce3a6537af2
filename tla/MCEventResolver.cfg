\* One name of each sort, and two PMUs: either may be missing or unreadable when
\* the other is read, and one has an event file.
CONSTANTS
  slash = slash
  file1 = file1
  pmu1 = pmu1
  NoFile = NoFile
  Predefined = {cycles}
  Raw = {r1a}
  Sysfs = {slash}
  Files = {file1}
  FileOf <- MCFileOf
  Devices = devices
  Pmus = {pmu1, pmu2}
  PmuOf <- MCPmuOf
SPECIFICATION FairSpec
INVARIANTS
  TypeOK
  AnswersNeverChange
  MapIsWhatWasTold
  ListingIsAllOrNothing
PROPERTIES
  PredefinedOnlyAtStartup
  ImplementsLookup
  LoopsEnd
