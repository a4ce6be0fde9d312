SPECIFICATION Spec
CONSTANTS
  Pages = 3
  RingLen = 2
  Images = {"a", "b", "bad"}
  Size <- MCSize
  Bootable = {"a", "b"}
  Installed = "b"
  MaxFaults = 1
  Builds = {"v1", "v2"}
  BuildLen <- MCBuildLen
  Factory = "v1"
  Chunk = 2
  Sector = 3
  SlotLen = 6
  MaxUpFaults = 1
  GdbImage = "b"
  NoImage = "none"
  Budgets <- MCBudgets
CHECK_DEADLOCK FALSE
INVARIANT FallbackWhole
