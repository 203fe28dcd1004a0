SPECIFICATION FairSpec
CONSTANTS
 Objects = {c1, c2}
 MaxFd = 3
 MaxMsgs = 2
INVARIANTS
 HeldOpen
 NoLeak
PROPERTIES
 CloseNoticed
CHECK_DEADLOCK FALSE
