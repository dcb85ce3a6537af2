\* Two packages of two cores, and hotplug at any time.
CONSTANTS
  Machine <- MCMachine
  Ids <- MCIds
  CoreId <- MCCoreId
  PackageId <- MCPackageId
  Guest = TRUE
SPECIFICATION Spec
INVARIANTS
  TypeOK
  MapsAgree
  MeasuringCpusExist
  ExactWhenQuiet
