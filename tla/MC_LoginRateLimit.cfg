CONSTANTS
  Instances = {"api1", "api2"}
  IPs = {"ip1"}
  Emails = {"alice", "bob"}
  RPS = 1
  Burst = 2
  RedisAddrSet = TRUE
  FailClosed = TRUE
  MaxReqs = 3
  MaxTime = 1

SPECIFICATION Spec

INVARIANT EmailAdmissionBounded
