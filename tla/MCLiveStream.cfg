SPECIFICATION FairSpec
CONSTANTS
 LineLen = 2
 MaxLen = 3
 Window = 2
 MaxGroups = 2
 MaxReadings = 2
 MaxSends = 3
INVARIANTS Ordered AllReadings
PROPERTIES SerialServed
