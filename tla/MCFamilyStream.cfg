SPECIFICATION Spec
CONSTANTS
  ann = ann
  ben = ben
  zoe = zoe
  Keys = {ann, ben}
  Users = {ann, ben}
  r1 = r1
  r2 = r2
  c1 = c1
  c2 = c2
  Requests = {}
  Connections = {c1, c2}
  Operators = {o1}
  Role <- Roles
  Hashes = {FALSE}
  Nobody = Nobody
  Nothing = Nothing
  Limit = 1
  Window = 2
  MaxBuckets = 1
  MaxTokens = 1
  IdleLifetime = 3
  AbsoluteLifetime = 4
  TouchInterval = 2
  OperatorLifetime = 3
  Reauthenticate = 1
  MaxTime = 3
  MaxPasswords = 1
INVARIANT CaptureHasListener
PROPERTY AudioFollowsAccess
SYMMETRY Alike
CHECK_DEADLOCK FALSE
