SPECIFICATION Spec
CONSTANTS
  Store = {s1, s2}
  Flow = {f1, f2}
  Kinds = {"meta", "instagram", "cloud"}
  LinkedTo = {"user"}
  ProfileId = "user"
  MaxRows = 3
  MaxLinks = 2
SYMMETRY Symmetry
CHECK_DEADLOCK FALSE
INVARIANTS TypeOK ConsentOnce
PROPERTY StoreFixed
