\* Clients send valid and invalid fields, parseable and unparseable ids.
\* The model stops when every one of its MaxReqs requests is answered, as
\* an idle server does; that final state is not a deadlock of the code.
CONSTANTS
  AssetIds = {"a1"}
  ProfileIds = {"p1"}
  RepoIds = {"r1"}
  BadId = BadId
  None = None
  Fields <- MCFields
  MaxReqs = 3

SPECIFICATION Spec
CHECK_DEADLOCK FALSE

INVARIANT UpsertAnswersOwnWrite
