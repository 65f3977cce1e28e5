CONSTANTS
  shirt = shirt  shoes = shoes  socks = socks
  ann = ann  bob = bob
  None = None
  Ids = {1, 2, 3, 4}
  Users = {ann, bob}
  OwnerOf <- MCOwnerOf
  Caller = ann
  SKUs = {shirt, shoes, socks}
  Currencies = {"THB", "USD"}
  Carts <- MCCarts
  PriceLists <- MCPriceLists
  MaxInt64 = 7
  maxQuantity = 3
  maxLines = 2
  defaultPageSize = 1
  maxPageSize = 2
  AskedSizes = {0, 2, 3}
  MaxClock = 1
SPECIFICATION FairSpec
INVARIANTS TotalIsExact OrdersAreShownOnce
PROPERTIES WalksEnd
