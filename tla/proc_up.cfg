SPECIFICATION FairSpec
CONSTANTS
  NPROC = 3
  CPUs = {c1}
  NoCpu = NoCpu
  MaxPid = 3
  KillPids = {}
PROPERTIES
  WaitReturns
  OrphanReaped
