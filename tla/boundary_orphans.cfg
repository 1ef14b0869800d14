\* Guard or a wrapper may outlive whoever started it and race the cleanup.
SPECIFICATION Spec
CONSTANTS
  MaxPhases = 2
  Slots = {s1, s2}
  HostPids = {1}
  Orphans = TRUE
SYMMETRY SlotSymmetry
INVARIANTS NsOwned ReturnedSealed
PROPERTIES NoForeignKill ImplementsOccupancy
CHECK_DEADLOCK FALSE
VIEW Relevant
