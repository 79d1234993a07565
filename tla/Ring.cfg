SPECIFICATION Spec
CONSTANTS
  Size = 24
  Align = 4
  Block = 8
  Start = 4
  Request = 8
  Layout <- R100Layout
  Resume = 2
  Families = {TRUE, FALSE}
  MaxSeq = 7
  MaxUpset = 2
INVARIANTS TypeOK FullRingHasFences
PROPERTIES RingIsAQueue BackupIsUnprocessed  
CHECK_DEADLOCK FALSE
