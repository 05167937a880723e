\* The model stops when every one of its MaxReqs requests is answered, as
\* an idle server does; that final state is not a deadlock of the code.
CONSTANTS
  Emails = {"e1"}
  BadEmail = BadEmail
  Passwords = {"pw1", "pw2"}
  Roles = {"user", "admin", "bogus"}
  BadId = BadId
  None = None
  MaxUsers = 1
  MaxReqs = 3

SPECIFICATION Spec
CHECK_DEADLOCK FALSE

INVARIANT ChangeAuthorisedByReplacedPassword
