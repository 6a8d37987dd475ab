\* Two users, three organisations, one invitation, two requests at a time.
SPECIFICATION Spec
CONSTANTS
  ana = ana
  ben = ben
  orgA = orgA
  orgB = orgB
  orgC = orgC
  inv = inv
  r1 = r1
  r2 = r2
  Null = Null
  Users = {ana, ben}
  Orgs = {orgA, orgB, orgC}
  Invites = {inv}
  Requests = {r1, r2}
  MaxRows = 3
  MaxOrgs = 1
  Roles = {"org_admin", "analyst"}
SYMMETRY Symmetry
INVARIANTS
  LastAdminLeavesByRace
  CapIsNearlyKept
  JoinedByAccepting
CHECK_DEADLOCK FALSE
