SPECIFICATION Spec
CONSTANTS
    Recipients = {blue, red}
    Scribes = {s1}
    Facilitators = {f1}
    Reviewers = {r1}
    MaxVersion = 6
    MaxMessages = 5
SYMMETRY RecipientSymmetry
CHECK_DEADLOCK FALSE
INVARIANTS
    TypeOK
    OverwritesWhatWasShown
    ApprovesWhatWasSeen
    ApprovalsAreKept
    CompletedIsApproved
    RoundsChain
PROPERTIES
    NegotiationSpec
