SPECIFICATION Spec
CONSTANTS
  ann = ann
  ben = ben
  zoe = zoe
  Keys = {ann, ben, zoe}
  Users = {ann, ben}
  r1 = r1
  r2 = r2
  c1 = c1
  c2 = c2
  Requests = {r1, r2}
  Connections = {}
  Operators = {o1}
  Role <- Roles
  Hashes = {TRUE}
  Nobody = Nobody
  Nothing = Nothing
  Limit = 1
  Window = 2
  MaxBuckets = 2
  MaxTokens = 1
  IdleLifetime = 3
  AbsoluteLifetime = 4
  TouchInterval = 2
  OperatorLifetime = 1
  Reauthenticate = 1
  MaxTime = 2
  MaxPasswords = 0
 
PROPERTIES AccessEnds 
SYMMETRY Alike
CHECK_DEADLOCK FALSE
