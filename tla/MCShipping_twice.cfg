SPECIFICATION Spec
CONSTANTS
  cap = cap
  c1 = c1
  c2 = c2
  yalidine = yalidine
  zr = zr
  Product = {cap}
  Variant = {}
  ProductOf <- MCProductOf
  OrderId = {o1}
  Key = {k1}
  NoKey = NoKey
  Destination = {algiers}
  Basket <- OneUnit
  StockLevel = {1}
  Caller = {c1, c2}
  Provider = {yalidine}
  NoProvider = NoProvider
  MaxParcels = 2
  Faults = {}
INVARIANT AtMostOneParcel
