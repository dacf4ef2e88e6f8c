SPECIFICATION Spec
CONSTANTS
  None = None
  q1 = q1
  w1 = w1
  w2 = w2
  y1 = y1
  y2 = y2
  ZeroDecimal = {"JPY"}
  Ttl <- MCTtl
  Pivot <- MCPivot
  Initial <- MCInitial
  Drafts <- MCMarketDrafts
  Searches = {}
  MaxChanges = 2
  LastHour = 1
  Hotelbeds = "hb"
  Availability <- MCAvailability
  Content <- MCContent
  NewHotel <- MCNewHotel
  PageSize = 2
  MaxPages = 2
  MaxRetries = 1
  Syncs = {y1, y2}
  Requests <- MCRequests
  Admins = {w1, w2}
  MarketChanges <- MCMarketChanges
  EventIds = {1, 2, 3}
  EventKinds <- MCEventKinds
  AuditQueries <- MCAuditQueries
  Limits <- MCLimits
  Feeds <- MCManyFeeds
  Bookings <- MCBookings
  Quotes <- MCQuotes
  RefundAmounts <- MCRefunds
CONSTRAINT MarketBound
CHECK_DEADLOCK FALSE
INVARIANTS
  CatalogueOk
  NoLostPatch
  SyncComplete
  PagesComplete
  LocksReversible
