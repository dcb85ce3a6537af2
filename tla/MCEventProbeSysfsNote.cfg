\* The header's note about new sysfs events.
CONSTANTS
  Cpus <- MCCpus
  Self = Self
  Junk = Junk
SPECIFICATION Spec
INVARIANT SysfsStartsUnavailable
