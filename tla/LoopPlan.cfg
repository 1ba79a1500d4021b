SPECIFICATION PlanSpec
CONSTANTS
  MaxNodes = 3
  MaxEdges = 2
  Limits <- MCLimits
INVARIANT Bounded
INVARIANT HaltsForAReason
PROPERTY EndedForGood
