SPECIFICATION Spec
CONSTANTS
 Calls <- MCCalls
 MaxLeaks = 2
INVARIANTS
 NormalIffApplied
 TablesBeforeUse
 ClosedOnDelete
 StatementAsMeant
