CONSTANTS
  vm1 = vm1
  vm2 = vm2
  bo1 = bo1
  bo2 = bo2
  Vm <- OneVm
  Bo <- TwoBos
  Nvm = 2
  MaxJobs = 2
  MaxChange = 1
  MaxFail = 1
SPECIFICATION Spec
INVARIANTS JobsFindTheirBuffers
CHECK_DEADLOCK FALSE
