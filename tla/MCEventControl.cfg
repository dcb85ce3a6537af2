CONSTANTS
  a1 = a1
  Guards = {g1, g2}
  Fds = {3, 4, 5}
  Events = {e1, e2, e3}
  NoEvent = NoEvent
  Attrs = {a1, a2}
  Setters = {"disabled", "enable_on_exec"}
  Formats <- NoFormats
  Syscalls = {s1}
SYMMETRY Symmetry
CONSTRAINTS
  FewSettings
  FewFlags
ACTION_CONSTRAINT LowestFree
SPECIFICATION CSpec
INVARIANTS
  CTypeOK
  ReadsMatchGuards
  PlainReadsAreValues
  WakingIsWithinGroup
PROPERTIES
  CountingStartsForAReason
  LostEventsAreOutOfReach
  SettingsLast
