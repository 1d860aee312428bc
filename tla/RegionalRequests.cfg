SPECIFICATION Spec
CONSTANTS
    Requests = {x1, x2}
    Questions = {q1, q2}
    Keys = {k1, k2}
    Null = Null
    Facilitators = {f1}
    Reviewers = {v1, v2}
    Regional = TRUE
    MaxRevision = 3
SYMMETRY Symmetry
CHECK_DEADLOCK FALSE
INVARIANTS
    TypeOK
    AnswersWhatWasAsked
    RetriesCreateOnce
    SubmissionsAreRecorded
