\* One client: parse the brief, then save the review screen.
SPECIFICATION FairSpec
CONSTANTS
  Requests = {r1, r2}
  None = None
  InFlight = 1
  MaxWet = 1
  MaxCrashes = 0
  Endpoints <- ReviewEndpoints
PROPERTY
  UnsupportedStandsUntilParsed
