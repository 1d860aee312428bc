SPECIFICATION Spec
CONSTANTS
    Leads = {l1}
    Supports = {s1}
    MaxMove = 3
    MaxPhase = 2
    Null = Null
    MaxWrites = 2
    MaxCalls = 2
CHECK_DEADLOCK FALSE
INVARIANTS
    EarlierMovesWereCovered
