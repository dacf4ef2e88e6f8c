SPECIFICATION Spec
CONSTANTS
  None = None
  q1 = q1
  w1 = w1
  w2 = w2
  y1 = y1
  y2 = y2
  ZeroDecimal = {"JPY"}
  Ttl <- MCTtl
  Pivot <- MCPivot
  Initial <- MCInitial
  Drafts <- MCDrafts
  Searches = {q1}
  MaxChanges = 2
  LastHour = 1
  Hotelbeds = "hb"
  Availability <- MCAvailability
  Content <- MCContent
  NewHotel <- MCNewHotel
  PageSize = 1
  MaxPages = 1
  MaxRetries = 1
  Syncs = {}
  Requests <- MCRequests
  Admins = {w1}
  MarketChanges <- MCChanges
  EventIds = {}
  EventKinds = {}
  AuditQueries = {}
  Limits <- MCNoLimits
  Feeds <- MCFeeds
  Bookings = {}
  Quotes = {}
  RefundAmounts = {}
CONSTRAINT SellingBound
CHECK_DEADLOCK FALSE
INVARIANTS
  OffersSellable
  NothingWithheld
  PricedByBestRule
  ConversionsOnRecord
  RatesOnRecord
