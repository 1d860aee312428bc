SPECIFICATION Spec
CONSTANTS
  a = a
  b = b
  facilitator = facilitator
  notetaker = notetaker
  NoRole = NoRole
  People = {a, b}
  Roles = {facilitator, notetaker}
  Capacity <- MCCapacity
  Timeout = 1
  MaxCalls = 2
SYMMETRY PeopleSymmetry
INVARIANTS
  TypeOK
  CapacityHolds
  ClosedAdmitsNobody
PROPERTIES
  RevokedStaysOut
  LeasesAreHonoured
