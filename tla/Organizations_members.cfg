SPECIFICATION Spec
CONSTANTS
  User = {u1, u2}
  Creator = u1
  SystemRole <- Roles
  CustomRole <- Customs
  Custom = custom
  Permission <- Permissions
  Grants <- RoleGrants
  Invitation = {v1, v2}
  Request = {q1, q2}
  None = None
SYMMETRY Symmetry
CHECK_DEADLOCK FALSE
INVARIANTS HasOwner OwnerHasAccount  MemberHasRole
PROPERTIES SettledOnce
