SPECIFICATION FairSpec
CONSTANTS
  a = a
  b = b
  facilitator = facilitator
  notetaker = notetaker
  NoRole = NoRole
  People = {a, b}
  Roles = {facilitator}
  Capacity <- MCOnePlace
  Timeout = 1
  MaxCalls = 1
PROPERTIES
  HolderLearns
  AbandonedIsFreed
