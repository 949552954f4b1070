CONSTANTS
  BufSize = 1
  MaxFrame = 2
  MaxSent = 3
  MaxWire = 2
SPECIFICATION FairSpec
INVARIANTS TypeOK  NoticeIsLast
PROPERTIES SessionEnds 
CHECK_DEADLOCK FALSE
