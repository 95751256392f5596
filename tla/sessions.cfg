SPECIFICATION SessionsSpec
CONSTANTS
  Users = {"u1"}
  Calls = {"login1", "login2", "refresh1", "refresh2", "logout", "everywhere"}
  CallKind <- MCCallKind
  CallUser <- MCCallUser
  None = None
  Expiring = {"login1"}
INVARIANT SessionsTypeOK
INVARIANT SuccessorRevokesPredecessor
PROPERTY UsedTokenRefused
PROPERTY SignedOutStaysOut
PROPERTY CallsAnswered
CHECK_DEADLOCK FALSE
