SPECIFICATION Spec
CONSTANTS
  op = op
  booker = booker
  new = new
  agency = agency
  foreign = foreign
  e1 = e1
  e2 = e2
  e3 = e3
  g1 = g1
  g2 = g2
  g3 = g3
  w1 = w1
  w2 = w2
  Users = {op, booker, new}
  Tenants <- MCTenants
  Accounts = {agency, foreign}
  AccountRow <- MCAccountRow
  SeedUsers <- MCSeedUsers
  Tokens <- MCTokens
  Orders <- MCOrders
  GrantIds = {g1, g2, g3}
  LogIds = {e1, e2, e3}
  EventOf <- MCEventOf
  Workers = {w1, w2}
  PoolSize = 2
  TTL = 1
  MaxTime = 1
  NoGrant = NoGrant
  NoAccount = NoAccount
  NoUser = NoUser
CONSTRAINT AboutGrants
INVARIANTS
  EveryEndIsAudited
