SPECIFICATION ClusterSpec
CONSTANTS
  n1 = n1
  n2 = n2
  u1 = u1
  u2 = u2
  c1 = c1
  c2 = c2
  nsA = nsA
  nsB = nsB
  Global = Global
  None = None
  Nodes = {n1, n2}
  Users = {u1}
  Namespaces = {nsA, nsB}
  Clients = {c1, c2}
  UserOf <- OneUser
  NsOf <- TwoSpaces
  Setups <- MovingOrSharing
  BitmapTTL = 1
  MaxOffset = 0
  ClItems <- LinkItems
  ClLookups <- LinkLookups
  ClMaxBatch = 2
  ClFailures = 1
  ClCacheCap = 1
  ClPanics = 1
  ClNodes = {"n1", "n2"}
  ClLives <- LinkLives
  ClMortals = {"n2"}
  ClDialers = {"n1"}
  ClErrors = 1
INVARIANT IndexedIsOnline
INVARIANT AllUsersCovers
INVARIANT LiveStaysRegistered
INVARIANT LinksAgree
PROPERTY OwnerKeepsIndex
 
PROPERTY DeadEntriesFade
PROPERTY LinksRecover
CHECK_DEADLOCK FALSE
