\* Every hour and window, every boundary of the limits, and every table of three
\* of the rules.
SPECIFICATION Spec
CONSTANTS
  Names <- MCNames
  Part <- MCPart
  Lower <- MCLower
  HardBlocked = {"bar"}
  Rules = {r1, r2, r3}
  Families <- MCFamilies
INVARIANTS AllowedUnlessBlocked HigherPriorityFirst ApprovalsComplete
  HoursGoRoundTheClock VerdictHasWayOn LimitsOfTableKept
CHECK_DEADLOCK FALSE
