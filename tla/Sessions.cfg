SPECIFICATION LiveSpec
CONSTANTS
  ana = ana
  beto = beto
  Users = {ana, beto}
  Nobody = Nobody
  RoleOf <- TwoRoles
  Calls = {q1, q2}
  Places = {"/login", "/dashboard"}
  MaxTokens = 2
  MaxEra = 2
INVARIANTS TokenFollowsUser ScreensAdmit
PROPERTIES EveryRequestSettles
