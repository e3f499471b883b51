SPECIFICATION Spec
CONSTANTS
  ann = ann
  bob = bob
  cat = cat
  sword = sword
  Nobody = Nobody
  Chars = {ann, bob, cat}
  Items = {sword}
  Sums = {0, 1}
  Cods = {0, 1}
  StartGold = 2
  StartBag <- SwordOfAnn
  Postage = 1
  MaxMoney = 3
  Writers = {ann}
  Doomed = {ann}
  Restless = {ann}
  MaxMails = 3
  MaxQueries = 1
  MaxOld = 1
  SlowLookup = FALSE
  Account <- OneEach
  StartBids = {1}
  Buyouts = {0, 2}
  Deposit = 1
  CutPercent = 50
  MaxAuctions = 1
SYMMETRY Others
INVARIANT TypeOK
INVARIANT ItemOnce
INVARIANT NoGoldCreated
PROPERTY AuctionSettled
CHECK_DEADLOCK FALSE
