\* Two instances behind the load balancer, the victim's browser alone: one
\* Login, one code, one callback, and no time passing.
CONSTANTS
  Instances = {"i1", "i2"}
  Browsers = {"victim", "mallory"}
  Attacker = "mallory"
  Owner <- MCOwner
  AttackerEmails = {"mallory@corp"}
  Provisioned = {"alice", "mallory@corp"}
  HasRefreshStore = TRUE
  NoEmail = NoEmail
  None = None
  StateTTL = 1
  MaxTime = 0
  MaxLogins = 1
  MaxCodes = 1
  MaxReqs = 1

SPECIFICATION Spec
CHECK_DEADLOCK FALSE

PROPERTY LiveStateAccepted
