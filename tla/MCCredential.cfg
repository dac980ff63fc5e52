SPECIFICATION RequestSpec
CONSTANTS
  None = None
  Canon <- MCCanon
  Names = {"sid", "token"}
  Plans <- MCPlans
  Locations <- MCLocations
  MaxRequests = 3
  MaxSends = 2
INVARIANTS
  SentAsMeant
  OriginalIntact
CHECK_DEADLOCK FALSE
