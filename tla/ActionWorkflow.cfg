SPECIFICATION NotifyingSpec
CONSTANTS
    Actions = {a1}
    NeedsSelections = {a1}
    Scribes = {s1}
    Facilitators = {f1}
    Reviewers = {r1, r2}
    MaxVersion = 7
    green = green
    industry = industry
    Teams = {green, industry}
    Requested <- MCRequested
SYMMETRY ReviewerSymmetry
CHECK_DEADLOCK FALSE
INVARIANTS
    TypeOK
    DecidesWhatWasRead
    ReviewChain
    LogIsComplete
    VersionIdentifiesRow
    InformsOnceAndTruly
PROPERTIES
    TerminalIsFinal
    LifecycleSpec
