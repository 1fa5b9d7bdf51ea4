SPECIFICATION Spec
CONSTANTS
  NPROC = 3
  CPUs = {c1}
  NoCpu = NoCpu
  MaxPid = 3
  KillPids = {0}
INVARIANT OnlyNamedKilled
