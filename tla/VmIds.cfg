CONSTANTS
  vm1 = vm1
  vm2 = vm2
  bo1 = bo1
  bo2 = bo2
  Vm <- TwoVms
  Bo <- OneBo
  Nvm = 2
  MaxJobs = 4
  MaxChange = 1
  MaxFail = 0
SPECIFICATION FairSpec
INVARIANTS JobsFindTheirBuffers
PROPERTIES JobsEnd
CHECK_DEADLOCK FALSE
