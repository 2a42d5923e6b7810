SPECIFICATION FairSpec
CONSTANTS
  c1 = c1
  c2 = c2
  c3 = c3
  r1 = r1
  r2 = r2
  west = west
  Clients = {c1, c2, c3}
  Stores = {1}
  Reps = {r1, r2}
  None = None
  MaxRefreshes = 2
  Alerts <- MCAlerts
  Territory <- MCTerritory
  Score <- MCScore
  Recs <- MCRecs
  Starts <- MCStarts
INVARIANTS
  TypeOK
  PagesInOrder
  FeedComplete
  AnswersAudited
PROPERTIES
  ListingEnds
CHECK_DEADLOCK FALSE
