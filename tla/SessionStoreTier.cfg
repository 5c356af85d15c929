SPECIFICATION Spec
CONSTANTS
  c1 = c1
  none = none
  Commands = {c1}
  Tiers = {"readonly"}
  Titles = {"first", "second"}
  None = none
  Keep = 2
  Refused <- MCRefused
  MaxMessage = 3
  MaxAsked = 3
INVARIANT TierStays
CHECK_DEADLOCK FALSE
