CONSTANTS
  Instances = {"i1", "i2"}
  NumKids = 2
  Secret = Secret
  HasConfigure = TRUE
  KeyLoadFails = TRUE
  TTL = 2
  Leeway = 1
  MaxTokens = 2
  MaxTime = 3

SPECIFICATION TSSpec
CHECK_DEADLOCK FALSE

INVARIANT TokensVerifyAtNewerInstances
