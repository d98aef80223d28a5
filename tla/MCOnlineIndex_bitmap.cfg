SPECIFICATION FairSpec
CONSTANTS
  n1 = n1
  n2 = n2
  u1 = u1
  u2 = u2
  c1 = c1
  c2 = c2
  nsA = nsA
  nsB = nsB
  Global = Global
  None = None
  Nodes = {n1}
  Users = {u1, u2}
  Namespaces = {nsA}
  Clients = {c1, c2}
  UserOf <- TwoUsers
  NsOf <- OneSpace
  Setups <- JustSharing
  BitmapTTL = 3
  MaxOffset = 0
PROPERTY OfflineIsNoticed
CHECK_DEADLOCK FALSE
