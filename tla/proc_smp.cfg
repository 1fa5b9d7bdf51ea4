SPECIFICATION Spec
CONSTANTS
  NPROC = 3
  CPUs = {c1, c2}
  NoCpu = NoCpu
  MaxPid = 3
  KillPids = {2}
SYMMETRY Symmetry
INVARIANTS
  OneStack
  SchedLocks
  FreedOffStack
  NoLostWakeup
  ParentAlive
  PidUnique
  OnlyNamedKilled
