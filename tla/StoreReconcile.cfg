SPECIFICATION Spec
CONSTANTS
    Rows = {x1}
    MaxVersion = 2
    MaxAttempts = 2
    Resyncs = {q1, q2}
INVARIANTS
    TypeOK
    CoveredMissesNothing
PROPERTIES
    RowsStay
    OutagesAreMadeGood
    ReconnectsSettle
