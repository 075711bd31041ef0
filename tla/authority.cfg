SPECIFICATION FairSpec
CONSTANTS
  a1 = a1
  a2 = a2
  b1 = b1
  A = A
  B = B
  Hosts = {A, B}
  Transports = {a1, a2, b1}
  HostOf <- MCHostOf
  RolesOf <- MCRolesOf
  None = None
INVARIANTS TypeOK ControllerIsInputOwner ControllerCanType OwnersAreEligible GeometryIsNotForgotten
PROPERTIES GeometryIsStable OnlyConflictsOutdate
PROPERTY GeometryReturns
