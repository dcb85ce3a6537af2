\* The comment on get_event_by_name against what it throws; stray is malformed
\* or names no file.
CONSTANTS
  slash = slash
  file1 = file1
  pmu1 = pmu1
  NoFile = NoFile
  Predefined = {cycles}
  Raw = {}
  Sysfs = {slash, stray}
  Files = {file1}
  FileOf <- MCFileOf
  Devices = devices
  Pmus = {pmu1}
  PmuOf <- MCPmuOf
SPECIFICATION Spec
INVARIANT ThrowsOnlyInvalidEvent
