CONSTANTS
  States <- MCStates
  Payloads <- MCPayloads
  StateTTL = 1
  MaxTime = 3

SPECIFICATION Spec

PROPERTY RefinesSingleUse
PROPERTY ExpiredEventuallySwept
