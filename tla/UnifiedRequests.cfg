SPECIFICATION Spec
CONSTANTS
    Requests = {x1}
    Questions = {q1, q2}
    Keys = {k1}
    Null = Null
    Facilitators = {f1, f2}
    Reviewers = {v1, v2}
    Regional = FALSE
    MaxRevision = 3
SYMMETRY Symmetry
CHECK_DEADLOCK FALSE
INVARIANTS
    AnsweredOnce
    ReturnChain
    ReturnsWhatWasRead
