CONSTANTS
  a = a
  b = b
  s1 = s1
  s2 = s2
  R = 3
  Bo <- OneBo
  Slot <- OneSlot
  Syncs = 1
  Mutes <- MCMutes
  MaxJobs = 4
  MaxFail = 1
SPECIFICATION FairSpec
INVARIANTS KnowledgeIsTrue SlotsAreKept
PROPERTIES OrderUntilFailure RingsCatchUp
CHECK_DEADLOCK FALSE
