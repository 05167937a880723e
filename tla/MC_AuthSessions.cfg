CONSTANTS
  Subjects = {"u1"}
  RedisAddrSet = TRUE
  RefreshEnabled = TRUE
  Rotation = TRUE
  RefreshTTLSeconds = 0
  DefaultTTL = 2
  None = None
  MaxRefreshTokens = 3
  MaxReqs = 3
  MaxTime = 3
  Instances = {i1, i2}
  NumKids = 2
  Secret = Secret
  HasConfigure = TRUE
  KeyLoadFails = FALSE
  TTL = 2
  Leeway = 1
  MaxAccessTokens = 2

SPECIFICATION Spec
SYMMETRY InstanceSymmetry
CHECK_DEADLOCK FALSE

INVARIANT TokensVerifyAtNewerInstances
PROPERTY RefinesSessionTokens
