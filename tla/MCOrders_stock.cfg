SPECIFICATION OrdersSpec
CONSTANTS
  shirt = shirt
  shirtM = shirtM
  shirtL = shirtL
  o1 = o1
  o2 = o2
  k1 = k1
  k2 = k2
  Product = {shirt}
  Variant = {shirtM, shirtL}
  ProductOf <- MCProductOf
  OrderId = {o1, o2}
  Key = {k1, k2}
  NoKey = NoKey
  Destination = {algiers}
  Basket <- MCBasket
  StockLevel = {2}
SYMMETRY Symmetric
INVARIANTS TypeOK OneOrderPerKey StockConserved
PROPERTY FollowsLifecycle
