CONSTANTS
  Instances = {"i1"}
  Browsers = {"victim", "mallory"}
  Attacker = "mallory"
  Owner <- MCOwner
  AttackerEmails = {"mallory@corp", "mallory@ext", NoEmail}
  Provisioned = {"alice", "mallory@corp"}
  HasRefreshStore = TRUE
  NoEmail = NoEmail
  None = None
  StateTTL = 0
  MaxTime = 1
  MaxLogins = 2
  MaxCodes = 2
  MaxReqs = 2

SPECIFICATION Spec

INVARIANT TypeOK
INVARIANT AtMostOneSessionPerHandshake
