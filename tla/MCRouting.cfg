\* Two miners and one call at a time, over one slot.
SPECIFICATION RoutingSpec
CONSTANTS
  Miners = {m1, m2}
  Calls = {c1}
  MAX_INFLIGHT = 1
  ENDPOINT_TTL = 1
  ANNOUNCE_MAX_AGE = 1
  Skew = 0
  Ahead <- MCAhead
  FinalScores = {1}
  Verified <- MCVerified
  MaxEvents = 3
  MaxGatewayRestarts = 1
INVARIANTS
  QuietMinersDisappear
  SlotsAreExact
  WorkIsPaidToWorker
PROPERTY ListedAgainAndAgain
