SPECIFICATION Spec
CONSTANTS
  cap = cap
  c1 = c1
  c2 = c2
  yalidine = yalidine
  zr = zr
  Product = {cap}
  Variant = {}
  ProductOf <- MCProductOf
  OrderId = {o1}
  Key = {k1}
  NoKey = NoKey
  Destination = {algiers}
  Basket <- OneUnit
  StockLevel = {1}
  Caller = {c1, c2}
  Provider = {yalidine, zr}
  NoProvider = NoProvider
  MaxParcels = 2
  Faults = {"crash", "lost_answer", "db_error"}
SYMMETRY Symmetric
INVARIANTS ParcelNeedsConfirmation AcceptedHasParcel ReturnedOnce OneParcelUnlessDoubt
PROPERTY CallProgresses
