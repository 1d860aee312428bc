SPECIFICATION Spec
CONSTANTS
    Tabs = {t1, t2}
    Moves = {m1, m2}
    Sections = {dynamics}
    Texts = {x}
    None = None
    MaxRevision = 2
    MaxQueue = 2
    MaxStrays = 1
SYMMETRY Symmetry
CHECK_DEADLOCK FALSE
INVARIANTS
    TypeOK
    RecordedOnce
    ShowsItsMove
PROPERTIES
    OtherPartsStay
