SPECIFICATION FairSpec
CONSTANTS
 Sg = 3
 ExitedKill = {"ESRCH", "0"}
 OtherSignals = TRUE
INVARIANT ObjectOutlivesThread
PROPERTIES OneThread LateCancelHeeded TimerEnds DestructionEnds
