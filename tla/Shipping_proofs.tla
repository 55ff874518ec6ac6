---- MODULE Shipping_proofs ----
(***************************************************************************)
(* Proofs about Orders.tla and Shipping.tla: for any number of products,   *)
(* variants, orders, events and destinations, of concurrent dispatchOrder  *)
(* calls, couriers and parcels, and any combination of faults. The first   *)
(* part is about the orders alone, the second about them with dispatch.    *)
(* What needs fairness is left to TLC. StockConserved, a statement about   *)
(* sums over all orders, rests on a theory of such sums that comes before  *)
(* it: finite sets have no infinite descent, so a set for which a fact     *)
(* about a sum fails would have a smallest subset for which it fails.      *)
(***************************************************************************)
EXTENDS Shipping, FiniteSetTheorems, WellFoundedInduction, TLAPS

LEMMA OwnerType == \A s \in Sku : Owner(s) \in Product
BY OrdersAssumption DEF Sku, Owner

LEMMA TrackedType ==
  ASSUME TypeOK, NEW units \in [Sku -> Nat]
  PROVE  Tracked(units) \in [Sku -> Nat]
BY DEF Tracked

LEMMA PutBackType ==
  ASSUME TypeOK, NEW o \in OrderId
  PROVE  PutBack(o) \in [Sku -> Nat]
BY TrackedType DEF PutBack, TypeOK

-----------------------------------------------------------------------------
(* Type correctness. What needs care is the stock: a decrement follows the *)
(* test that it fits, and a form writes natural numbers only.              *)

LEMMA CreateOrderTypes ==
  ASSUME TypeOK, NEW o \in OrderId, NEW k \in Key, NEW b \in Basket,
         NEW d \in Destination, CreateOrder(o, k, b, d)
  PROVE  TypeOK'
<1>1. b \in [Sku -> Nat]
  BY OrdersAssumption
<1>2. Tracked(b) \in [Sku -> Nat]
  BY <1>1, TrackedType
<1>3. stockQuantity' \in [Sku -> Nat]
  BY <1>2 DEF CreateOrder, InStock, TakeStock, TypeOK
<1>4. status' \in [OrderId -> OrderStatus \cup {"NONE"}]
  BY DEF CreateOrder, TypeOK, OrderStatus
<1>5. key' \in [OrderId -> Key \cup {NoKey}]
  BY DEF CreateOrder, TypeOK
<1>6. /\ items' \in [OrderId -> [Sku -> Nat]]
      /\ taken' \in [OrderId -> [Sku -> Nat]]
  BY <1>1, <1>2 DEF CreateOrder, TypeOK
<1> QED
  BY <1>3, <1>4, <1>5, <1>6 DEF CreateOrder, catalogueVars, TypeOK

LEMMA CancelOrderTypes ==
  ASSUME TypeOK, NEW o \in OrderId, CancelOrder(o)
  PROVE  TypeOK'
<1>1. PutBack(o) \in [Sku -> Nat]
  BY PutBackType
<1>2. stockQuantity' \in [Sku -> Nat]
  BY <1>1 DEF CancelOrder, TypeOK
<1>3. returned' \in [OrderId -> [Sku -> Nat]]
  BY <1>1 DEF CancelOrder, TypeOK
<1>4. status' \in [OrderId -> OrderStatus \cup {"NONE"}]
  BY DEF CancelOrder, Transition, TypeOK, OrderStatus
<1> QED
  BY <1>2, <1>3, <1>4 DEF CancelOrder, Transition, catalogueVars, TypeOK

LEMMA MoveOrderTypes ==
  ASSUME TypeOK, NEW o \in OrderId, NEW next \in OrderStatus, MoveOrder(o, next)
  PROVE  TypeOK'
BY DEF MoveOrder, Transition, catalogueVars, TypeOK

LEMMA RestockTypes ==
  ASSUME TypeOK, NEW counts \in [Sku -> Nat], Restock(counts)
  PROVE  stockQuantity' \in [Sku -> Nat] /\ supplied' \in [Sku -> Int]
BY DEF Restock, TypeOK

LEMMA SaveProductTypes ==
  ASSUME TypeOK, NEW p \in Product, SaveProduct(p)
  PROVE  TypeOK'
<1>1. PICK st \in ProductStatus, tracked \in BOOLEAN, count \in StockLevel,
           perVariant \in StockLevel, listed \in SUBSET VariantsOf(p) :
         \E available \in SUBSET listed :
           WriteProduct(p, st, tracked, count, listed, available, perVariant)
  BY DEF SaveProduct
<1>2. PICK available \in SUBSET listed :
         WriteProduct(p, st, tracked, count, listed, available, perVariant)
  BY <1>1
<1>3. stockQuantity' \in [Sku -> Nat] /\ supplied' \in [Sku -> Int]
  <2> DEFINE counts == [s \in Sku |->
            CASE s = p -> count
              [] s \in listed -> perVariant
              [] s \in VariantsOf(p) \ listed -> 0
              [] OTHER -> stockQuantity[s]]
  <2>1. counts \in [Sku -> Nat]
    BY OrdersAssumption DEF TypeOK
  <2>2. Restock(counts)
    BY <1>2 DEF WriteProduct
  <2> QED
    BY <2>1, <2>2, RestockTypes
<1>4. variantState' \in [Variant -> {"NONE", "AVAILABLE", "UNAVAILABLE"}]
  BY <1>2 DEF WriteProduct, TypeOK
<1>5. /\ productStatus' \in [Product -> ProductStatus \cup {"NONE"}]
      /\ trackInventory' \in [Product -> BOOLEAN]
  BY <1>2 DEF WriteProduct, TypeOK
<1> QED
  BY <1>2, <1>3, <1>4, <1>5 DEF WriteProduct, orderVars, TypeOK

LEMMA ArchiveProductTypes ==
  ASSUME TypeOK, NEW p \in Product, ArchiveProduct(p)
  PROVE  TypeOK'
<1>1. [stockQuantity EXCEPT ![p] = 0] \in [Sku -> Nat]
  BY DEF TypeOK
<1>2. stockQuantity' \in [Sku -> Nat] /\ supplied' \in [Sku -> Int]
  BY <1>1, RestockTypes DEF ArchiveProduct
<1>3. productStatus' \in [Product -> ProductStatus \cup {"NONE"}]
  BY DEF ArchiveProduct, TypeOK, ProductStatus
<1> QED
  BY <1>2, <1>3 DEF ArchiveProduct, orderVars, TypeOK

LEMMA TypeStep == TypeOK /\ [OrdersNext]_ordersVars => TypeOK'
<1> SUFFICES ASSUME TypeOK, [OrdersNext]_ordersVars
             PROVE  TypeOK'
  OBVIOUS
<1>1. ASSUME NEW o \in OrderId, NEW k \in Key, NEW b \in Basket, NEW d \in Destination,
             CreateOrder(o, k, b, d)
      PROVE  TypeOK'
  BY <1>1, CreateOrderTypes
<1>2. ASSUME NEW o \in OrderId, CancelOrder(o)
      PROVE  TypeOK'
  BY <1>2, CancelOrderTypes
<1>3. ASSUME NEW o \in OrderId, NEW next \in OrderStatus, MoveOrder(o, next)
      PROVE  TypeOK'
  BY <1>3, MoveOrderTypes
<1>4. ASSUME NEW p \in Product, CreateProduct(p) \/ UpdateProduct(p)
      PROVE  TypeOK'
  BY <1>4, SaveProductTypes DEF CreateProduct, UpdateProduct
<1>5. ASSUME NEW p \in Product, ArchiveProduct(p)
      PROVE  TypeOK'
  BY <1>5, ArchiveProductTypes
<1>6. CASE SaveDeliveryRates
  BY <1>6 DEF SaveDeliveryRates, catalogueVars, orderVars, TypeOK
<1>7. CASE UNCHANGED ordersVars
  BY <1>7 DEF ordersVars, catalogueVars, orderVars, TypeOK
<1> QED
  BY <1>1, <1>2, <1>3, <1>4, <1>5, <1>6, <1>7 DEF OrdersNext

(* Type correctness of the order and catalogue tables: in particular no    *)
(* interleaving of order creation, cancellation and product forms drives a *)
(* stockQuantity below zero.                                               *)
THEOREM OrdersTypeCorrect == OrdersSpec => []TypeOK
<1>1. OrdersInit => TypeOK
  BY DEF OrdersInit, TypeOK, Nothing
<1> QED
  BY <1>1, TypeStep, PTL DEF OrdersSpec

-----------------------------------------------------------------------------
(* One order per event.                                                    *)

LEMMA OneOrderStep == TypeOK /\ OneOrderPerKey /\ [OrdersNext]_ordersVars => OneOrderPerKey'
<1> SUFFICES ASSUME TypeOK, OneOrderPerKey, [OrdersNext]_ordersVars
             PROVE  OneOrderPerKey'
  OBVIOUS
<1>1. ASSUME NEW o \in OrderId, NEW k \in Key, NEW b \in Basket, NEW d \in Destination,
             CreateOrder(o, k, b, d)
      PROVE  OneOrderPerKey'
  <2>1. \A q \in OrderId : status[q] # "NONE" => key[q] # k
    BY <1>1 DEF CreateOrder, OrderExistsFor
  <2>2. \A q \in OrderId : q # o => status'[q] = status[q] /\ key'[q] = key[q]
    BY <1>1 DEF CreateOrder, TypeOK
  <2>3. key'[o] = k
    BY <1>1 DEF CreateOrder, TypeOK
  <2> QED
    BY <2>1, <2>2, <2>3 DEF OneOrderPerKey
<1>2. ASSUME NEW o \in OrderId, NEW next \in OrderStatus, Transition(o, next)
      PROVE  OneOrderPerKey'
  <2>1. status[o] # "NONE" /\ key' = key
    BY <1>2 DEF Transition
  <2>2. \A q \in OrderId : status'[q] # "NONE" => status[q] # "NONE"
    BY <1>2, <2>1 DEF Transition, TypeOK
  <2> QED
    BY <2>1, <2>2 DEF OneOrderPerKey
<1>3. CASE UNCHANGED <<status, key>>
  BY <1>3 DEF OneOrderPerKey
<1>4. ASSUME NEW o \in OrderId, CancelOrder(o)
      PROVE  OneOrderPerKey'
  BY <1>2, <1>4 DEF CancelOrder, OrderStatus
<1>5. ASSUME NEW o \in OrderId, NEW next \in OrderStatus, MoveOrder(o, next)
      PROVE  OneOrderPerKey'
  BY <1>2, <1>5 DEF MoveOrder
<1>6. ASSUME NEW p \in Product, CreateProduct(p) \/ UpdateProduct(p)
      PROVE  OneOrderPerKey'
  BY <1>3, <1>6 DEF CreateProduct, UpdateProduct, SaveProduct, WriteProduct, orderVars
<1>7. ASSUME NEW p \in Product, ArchiveProduct(p)
      PROVE  OneOrderPerKey'
  BY <1>3, <1>7 DEF ArchiveProduct, orderVars
<1>8. CASE SaveDeliveryRates \/ UNCHANGED ordersVars
  BY <1>3, <1>8 DEF SaveDeliveryRates, ordersVars, orderVars
<1> QED
  BY <1>1, <1>4, <1>5, <1>6, <1>7, <1>8 DEF OrdersNext

(* However often a webhook event is processed, and by however many workers *)
(* at once, createOrderFromTool leaves at most one order for it.           *)
THEOREM OneOrderPerEvent == OrdersSpec => []OneOrderPerKey
<1>1. OrdersInit => OneOrderPerKey
  BY DEF OrdersInit, OneOrderPerKey
<1> QED
  BY <1>1, OneOrderStep, OrdersTypeCorrect, PTL DEF OrdersSpec

-----------------------------------------------------------------------------
(* Orders implements OrderLifecycle. What a cancellation gives back is     *)
(* some of what the order is about, of each line all units or none, as the *)
(* trackInventory flags stand at that moment; before it nothing has been   *)
(* given back, which is what the invariant keeps.                          *)

Unreturned ==
  \A o \in OrderId :
    status[o] \in {"NONE", "CAPTURED", "CONFIRMED", "PACKING"} => returned[o] = Nothing

LifecycleInv == TypeOK /\ Unreturned

LEMMA TrackedIsSome ==
  ASSUME NEW units \in [Sku -> Nat]
  PROVE  /\ Tracked(units) \in [Sku -> Nat]
         /\ Tracked(units) \in Lifecycle!SomeOf(units)
BY DEF Tracked, Lifecycle!SomeOf

(* Of an order that has returned nothing, a cancellation returns PutBack.  *)
LEMMA CancelReturns ==
  ASSUME LifecycleInv, NEW o \in OrderId, CancelOrder(o)
  PROVE  /\ status[o] \in {"CAPTURED", "CONFIRMED", "PACKING"}
         /\ status' = [status EXCEPT ![o] = "CANCELED"]
         /\ returned' = [returned EXCEPT ![o] = PutBack(o)]
         /\ UNCHANGED <<items, taken>>
<1>1. /\ status[o] \in OrderStatus
      /\ "CANCELED" \in transitions[status[o]]
      /\ status' = [status EXCEPT ![o] = "CANCELED"]
      /\ UNCHANGED <<items, taken>>
  BY DEF CancelOrder, Transition, LifecycleInv, TypeOK
<1>2. status[o] \in {"CAPTURED", "CONFIRMED", "PACKING"}
  BY <1>1 DEF transitions, OrderStatus
<1>3. returned[o] = Nothing /\ PutBack(o) \in [Sku -> Nat]
  BY <1>2, PutBackType DEF LifecycleInv, Unreturned
<1>4. [s \in Sku |-> returned[o][s] + PutBack(o)[s]] = PutBack(o)
  BY <1>3 DEF Nothing
<1> QED
  BY <1>1, <1>2, <1>4 DEF CancelOrder

LEMMA MoveLeavesStock ==
  ASSUME TypeOK, NEW o \in OrderId, NEW next \in OrderStatus, MoveOrder(o, next)
  PROVE  /\ next # "CANCELED" /\ status[o] \in OrderStatus
         /\ next \in transitions[status[o]]
         /\ status' = [status EXCEPT ![o] = next]
         /\ UNCHANGED <<items, taken, returned>>
BY DEF MoveOrder, Transition, TypeOK

LEMMA CatalogueLeavesOrders ==
  ASSUME \/ \E p \in Product : CreateProduct(p) \/ UpdateProduct(p) \/ ArchiveProduct(p)
         \/ SaveDeliveryRates
         \/ UNCHANGED ordersVars
  PROVE  UNCHANGED orderVars
BY DEF CreateProduct, UpdateProduct, SaveProduct, WriteProduct, ArchiveProduct,
       SaveDeliveryRates, ordersVars

LEMMA UnreturnedStep ==
  ASSUME LifecycleInv, [OrdersNext]_ordersVars
  PROVE  Unreturned'
<1> USE DEF LifecycleInv
<1>1. ASSUME NEW o \in OrderId, NEW k \in Key, NEW b \in Basket, NEW d \in Destination,
             CreateOrder(o, k, b, d)
      PROVE  Unreturned'
  <2>1. /\ status[o] = "NONE" /\ returned' = returned
        /\ status' = [status EXCEPT ![o] = "CAPTURED"]
    BY <1>1 DEF CreateOrder
  <2> QED
    BY <2>1 DEF Unreturned, TypeOK
<1>2. ASSUME NEW o \in OrderId, CancelOrder(o)
      PROVE  Unreturned'
  BY <1>2, CancelReturns DEF Unreturned, TypeOK
<1>3. ASSUME NEW o \in OrderId, NEW next \in OrderStatus, MoveOrder(o, next)
      PROVE  Unreturned'
  <2>1. next \in {"CAPTURED", "CONFIRMED", "PACKING"} =>
          status[o] \in {"CAPTURED", "CONFIRMED", "PACKING"}
    BY <1>3, MoveLeavesStock DEF transitions, OrderStatus
  <2> QED
    BY <1>3, <2>1, MoveLeavesStock DEF Unreturned, TypeOK, OrderStatus
<1>4. CASE UNCHANGED orderVars
  BY <1>4 DEF orderVars, Unreturned
<1> QED
  BY <1>1, <1>2, <1>3, <1>4, CatalogueLeavesOrders DEF OrdersNext

LEMMA LifecycleInit == OrdersInit => Lifecycle!Init /\ LifecycleInv
<1>1. OrdersInit => Lifecycle!Init /\ Unreturned
  BY DEF OrdersInit, Lifecycle!Init, Lifecycle!Nothing, Nothing, Unreturned
<1>2. OrdersInit => TypeOK
  BY DEF OrdersInit, TypeOK, Nothing
<1> QED
  BY <1>1, <1>2 DEF LifecycleInv

LEMMA LifecycleInvariant == OrdersSpec => []LifecycleInv
<1>1. LifecycleInv /\ [OrdersNext]_ordersVars => LifecycleInv'
  BY UnreturnedStep, TypeStep DEF LifecycleInv
<1> QED
  BY <1>1, LifecycleInit, PTL DEF OrdersSpec

LEMMA LifecycleCapture ==
  ASSUME LifecycleInv, NEW o \in OrderId, NEW k \in Key, NEW b \in Basket,
         NEW d \in Destination, CreateOrder(o, k, b, d)
  PROVE  Lifecycle!Next
<1>1. /\ status[o] = "NONE"
      /\ status' = [status EXCEPT ![o] = "CAPTURED"]
      /\ items' = [items EXCEPT ![o] = b]
      /\ taken' = [taken EXCEPT ![o] = Tracked(b)]
      /\ returned' = returned
  BY DEF CreateOrder
<1>2. items'[o] = b /\ taken'[o] = Tracked(b)
  BY <1>1 DEF LifecycleInv, TypeOK
<1>3. b \in [Sku -> Nat]
  BY OrdersAssumption
<1>4. Tracked(b) \in Lifecycle!SomeOf(b)
  BY <1>3, TrackedIsSome
<1>5. Lifecycle!Capture(o)
  BY <1>1, <1>2, <1>3, <1>4 DEF Lifecycle!Capture
<1> QED
  BY <1>5 DEF Lifecycle!Next

LEMMA LifecycleCancel ==
  ASSUME LifecycleInv, NEW o \in OrderId, CancelOrder(o)
  PROVE  Lifecycle!Next
<1>1. /\ status[o] \in {"CAPTURED", "CONFIRMED", "PACKING"}
      /\ status' = [status EXCEPT ![o] = "CANCELED"]
      /\ returned' = [returned EXCEPT ![o] = PutBack(o)]
      /\ UNCHANGED <<items, taken>>
  BY CancelReturns
<1>2. items[o] \in [Sku -> Nat] /\ returned'[o] = PutBack(o)
  BY <1>1 DEF LifecycleInv, TypeOK
<1>3. PutBack(o) \in Lifecycle!SomeOf(items[o])
  BY <1>2, TrackedIsSome DEF PutBack
<1>4. Lifecycle!Cancel(o)
  BY <1>1, <1>2, <1>3 DEF Lifecycle!Cancel, Lifecycle!BeforeShipping
<1> QED
  BY <1>4 DEF Lifecycle!Next

LEMMA LifecycleMove ==
  ASSUME LifecycleInv, NEW o \in OrderId, NEW next \in OrderStatus, MoveOrder(o, next)
  PROVE  Lifecycle!Next
<1>1. /\ next # "CANCELED" /\ status[o] \in OrderStatus
      /\ next \in transitions[status[o]]
      /\ status' = [status EXCEPT ![o] = next]
      /\ UNCHANGED <<items, taken, returned>>
  BY MoveLeavesStock DEF LifecycleInv
<1>2. status'[o] = next
  BY <1>1 DEF LifecycleInv, TypeOK
<1>3. CASE next = "RETURNED"
  <2>1. status[o] \in {"SHIPPED", "DELIVERED"}
    BY <1>1, <1>3 DEF transitions, OrderStatus
  <2>2. Lifecycle!Return(o)
    BY <1>1, <1>3, <2>1 DEF Lifecycle!Return, Lifecycle!AfterShipping
  <2> QED
    BY <2>2 DEF Lifecycle!Next
<1>4. CASE next # "RETURNED"
  <2>1. \/ status[o] = "CAPTURED" /\ next = "CONFIRMED"
        \/ status[o] = "CONFIRMED" /\ next \in {"PACKING", "SHIPPED"}
        \/ status[o] = "PACKING" /\ next = "SHIPPED"
        \/ status[o] = "SHIPPED" /\ next = "DELIVERED"
    BY <1>1, <1>4 DEF transitions, OrderStatus
  <2>2. Lifecycle!Advance(o)
    BY <1>1, <1>2, <2>1 DEF Lifecycle!Advance
  <2> QED
    BY <2>2 DEF Lifecycle!Next
<1> QED
  BY <1>3, <1>4

LEMMA LifecycleStep ==
  LifecycleInv /\ [OrdersNext]_ordersVars => [Lifecycle!Next]_(Lifecycle!vars)
<1> SUFFICES ASSUME LifecycleInv, [OrdersNext]_ordersVars
             PROVE  Lifecycle!Next \/ UNCHANGED Lifecycle!vars
  OBVIOUS
<1>1. CASE UNCHANGED orderVars
  BY <1>1 DEF orderVars, Lifecycle!vars
<1> QED
  BY <1>1, CatalogueLeavesOrders, LifecycleCapture, LifecycleCancel, LifecycleMove
  DEF OrdersNext

(* The order handlers implement the abstract life cycle: every transaction *)
(* of orders.ts and of the catalogue forms is one of its steps or none,    *)
(* also when a form changes trackInventory between order and cancellation. *)
THEOREM OrdersImplementLifecycle == OrdersSpec => FollowsLifecycle
BY LifecycleInit, LifecycleStep, LifecycleInvariant, PTL
DEF OrdersSpec, FollowsLifecycle, Lifecycle!Spec

-----------------------------------------------------------------------------
(***************************************************************************)
(* Sums over finite sets. MapThenSumSet is a fold, computed by a recursive *)
(* function over the subsets of the set; these lemmas say that the function *)
(* exists and how its value changes. Each is an induction over the subsets, *)
(* by a smallest set for which the claim fails.                            *)
(***************************************************************************)
(* The element a fold over a set takes first, and what it means that h is  *)
(* the table of the sums of g over the subsets of S.                       *)
First(t) == CHOOSE x \in t : TRUE
SumsOf(S, g, h) ==
  h = [t \in SUBSET S |-> IF t = {} THEN 0 ELSE g[First(t)] + h[t \ {First(t)}]]

LEMMA FirstIn == \A t : t # {} => First(t) \in t
BY DEF First

(* A set of subsets of a finite set has a minimal member: the induction    *)
(* the sums need, without an operator for the induction hypothesis.        *)
LEMMA MinimalSubset ==
  ASSUME NEW S, IsFiniteSet(S), NEW T \in SUBSET SUBSET S, T # {}
  PROVE  \E x \in T : \A y \in T : y \subseteq x => y = x
<1>1. T \subseteq FiniteSubsetsOf(S)
  BY FS_Subset DEF FiniteSubsetsOf
<1>2. PICK x \in T : \A y \in T : ~(<<y, x>> \in StrictSubsetOrdering(S))
  BY <1>1, FS_StrictSubsetOrderingWellFounded, WFMin
<1> QED
  BY <1>2 DEF StrictSubsetOrdering

LEMMA SumsAgree ==
  ASSUME NEW S, IsFiniteSet(S), NEW A \in SUBSET S, NEW B \in SUBSET S,
         NEW g, NEW h, NEW k, SumsOf(A, g, h), SumsOf(B, g, k)
  PROVE  \A t \in SUBSET (A \cap B) : h[t] = k[t]
<1> DEFINE Bad == {t \in SUBSET (A \cap B) : h[t] # k[t]}
<1> SUFFICES ASSUME Bad # {} PROVE FALSE
  OBVIOUS
<1>1. PICK t \in Bad : \A u \in Bad : u \subseteq t => u = t
  <2>1. Bad \in SUBSET SUBSET S
    OBVIOUS
  <2> HIDE DEF Bad
  <2> QED
    BY <2>1, MinimalSubset
<1>2. t # {}
  BY DEF SumsOf
<1>3. First(t) \in t
  BY <1>2, FirstIn
<1>4. h[t \ {First(t)}] = k[t \ {First(t)}]
  BY <1>1, <1>3
<1>5. h[t] = g[First(t)] + h[t \ {First(t)}] /\ k[t] = g[First(t)] + k[t \ {First(t)}]
  BY <1>2 DEF SumsOf
<1> QED
  BY <1>4, <1>5

LEMMA SumsExist ==
  ASSUME NEW S, IsFiniteSet(S), NEW g
  PROVE  \E h : SumsOf(S, g, h)
<1> DEFINE Bad == {U \in SUBSET S : ~ \E h : SumsOf(U, g, h)}
<1> SUFFICES ASSUME Bad # {} PROVE FALSE
  OBVIOUS
<1>1. PICK U \in Bad : \A V \in Bad : V \subseteq U => V = U
  <2>1. Bad \in SUBSET SUBSET S
    OBVIOUS
  <2> HIDE DEF Bad
  <2> QED
    BY <2>1, MinimalSubset
<1> DEFINE k(t) == CHOOSE h : SumsOf(t, g, h)
           rest(t) == t \ {First(t)}
           H == [t \in SUBSET U |-> IF t = {} THEN 0 ELSE g[First(t)] + k(rest(t))[rest(t)]]
<1>2. ASSUME NEW t \in SUBSET U, t # {}
      PROVE  rest(t) \in SUBSET U /\ SumsOf(rest(t), g, k(rest(t)))
  <2>1. First(t) \in t
    BY <1>2, FirstIn
  <2>2. rest(t) \in SUBSET S /\ rest(t) \subseteq U /\ rest(t) # U
    BY <2>1
  <2>3. \E h : SumsOf(rest(t), g, h)
    BY <1>1, <2>2
  <2> HIDE DEF rest
  <2> QED
    BY <2>2, <2>3
<1> HIDE DEF k
<1>3. ASSUME NEW t \in SUBSET U, t # {}
      PROVE  H[rest(t)] = k(rest(t))[rest(t)]
  <2> DEFINE r == rest(t)
  <2>1. r \in SUBSET U /\ SumsOf(r, g, k(r))
    BY <1>2, <1>3
  <2> HIDE DEF r, rest
  <2>2. CASE r = {}
    <3>1. k(r)[r] = 0
      BY <2>1, <2>2 DEF SumsOf
    <3> QED
      BY <2>1, <2>2, <3>1 DEF r
  <2>3. CASE r # {}
    <3>1. rest(r) \in SUBSET U /\ SumsOf(rest(r), g, k(rest(r))) /\ rest(r) \in SUBSET r
      BY <1>2, <2>1, <2>3 DEF rest
    <3>2. k(rest(r))[rest(r)] = k(r)[rest(r)]
      <4>1. /\ rest(r) \in SUBSET S /\ r \in SUBSET S
            /\ rest(r) \in SUBSET (rest(r) \cap r)
        BY <2>1, <3>1
      <4>2. \A u \in SUBSET (rest(r) \cap r) : k(rest(r))[u] = k(r)[u]
        BY <2>1, <3>1, <4>1, SumsAgree
      <4> QED
        BY <4>1, <4>2
    <3>3. k(r)[r] = g[First(r)] + k(r)[rest(r)]
      BY <2>1, <2>3 DEF SumsOf, rest
    <3>4. H[r] = g[First(r)] + k(rest(r))[rest(r)]
      BY <2>1, <2>3
    <3> QED
      BY <3>2, <3>3, <3>4 DEF r
  <2> QED
    BY <2>2, <2>3
<1>4. SumsOf(U, g, H)
  <2>1. \A t \in SUBSET U : t # {} => k(rest(t))[rest(t)] = H[t \ {First(t)}]
    BY <1>3
  <2> QED
    BY <2>1 DEF SumsOf
<1> QED
  BY <1>1, <1>4

LEMMA SumsAdd ==
  ASSUME NEW S, IsFiniteSet(S), NEW g \in [S -> Int], NEW h, SumsOf(S, g, h)
  PROVE  /\ \A t \in SUBSET S : h[t] \in Int
         /\ \A t \in SUBSET S : \A x \in t : h[t] = g[x] + h[t \ {x}]
<1>0. \A t \in SUBSET S : t # {} => /\ First(t) \in t
                                    /\ h[t] = g[First(t)] + h[t \ {First(t)}]
  BY FirstIn DEF SumsOf
<1>1. \A t \in SUBSET S : h[t] \in Int
  <2> DEFINE Bad == {t \in SUBSET S : h[t] \notin Int}
  <2> SUFFICES ASSUME Bad # {} PROVE FALSE
    OBVIOUS
  <2>1. PICK t \in Bad : \A u \in Bad : u \subseteq t => u = t
    <3>1. Bad \in SUBSET SUBSET S
      OBVIOUS
    <3> HIDE DEF Bad
    <3> QED
      BY <3>1, MinimalSubset
  <2>2. t # {}
    BY DEF SumsOf
  <2>3. h[t \ {First(t)}] \in Int /\ g[First(t)] \in Int
    BY <1>0, <2>1, <2>2
  <2>4. h[t] = g[First(t)] + h[t \ {First(t)}]
    BY <1>0, <2>2
  <2>5. h[t] \in Int
    BY <2>3, <2>4
  <2> QED
    BY <2>5
<1>2. \A t \in SUBSET S : \A x \in t : h[t] = g[x] + h[t \ {x}]
  <2> DEFINE Bad == {t \in SUBSET S : \E x \in t : h[t] # g[x] + h[t \ {x}]}
  <2> SUFFICES ASSUME Bad # {} PROVE FALSE
    OBVIOUS
  <2>1. PICK t \in Bad : \A u \in Bad : u \subseteq t => u = t
    <3>1. Bad \in SUBSET SUBSET S
      OBVIOUS
    <3> HIDE DEF Bad
    <3> QED
      BY <3>1, MinimalSubset
  <2>2. PICK x \in t : h[t] # g[x] + h[t \ {x}]
    OBVIOUS
  <2> DEFINE p == First(t)
  <2>3. p \in t /\ h[t] = g[p] + h[t \ {p}]
    BY <1>0, <2>2
  <2> HIDE DEF p
  <2>4. x # p
    BY <2>2, <2>3
  <2>5. t \ {p} \notin Bad /\ t \ {x} \notin Bad
    BY <2>1, <2>2, <2>3
  <2>6. h[t \ {p}] = g[x] + h[(t \ {p}) \ {x}]
    BY <2>2, <2>4, <2>5
  <2>7. h[t \ {x}] = g[p] + h[(t \ {x}) \ {p}]
    BY <2>3, <2>4, <2>5
  <2>8. (t \ {p}) \ {x} = (t \ {x}) \ {p} /\ (t \ {p}) \ {x} \in SUBSET S
    OBVIOUS
  <2>9. g[x] \in Int /\ g[p] \in Int /\ h[(t \ {p}) \ {x}] \in Int
    BY <1>1, <2>3, <2>8
  <2> DEFINE r == h[(t \ {p}) \ {x}]
  <2>10. h[t] = g[p] + (g[x] + r) /\ h[t \ {x}] = g[p] + r
    BY <2>3, <2>6, <2>7, <2>8
  <2>11. r \in Int
    BY <2>9
  <2> HIDE DEF r
  <2>12. h[t] = g[x] + h[t \ {x}]
    BY <2>9, <2>10, <2>11
  <2> QED
    BY <2>2, <2>12
<1> QED
  BY <1>1, <1>2

(* Changing one addend changes the sum by as much.                         *)
AlikeBut(S, x, g, f) == \A y \in S \ {x} : f[y] = g[y]

LEMMA SumsChange ==
  ASSUME NEW S, IsFiniteSet(S), NEW g \in [S -> Int], NEW f \in [S -> Int],
         NEW h, SumsOf(S, g, h), NEW k, SumsOf(S, f, k),
         NEW x \in S, AlikeBut(S, x, g, f)
  PROVE  k[S] = h[S] + (f[x] - g[x])
<1>1. \A t \in SUBSET (S \ {x}) : k[t] = h[t]
  <2> USE DEF AlikeBut
  <2> DEFINE Bad == {t \in SUBSET (S \ {x}) : k[t] # h[t]}
  <2> SUFFICES ASSUME Bad # {} PROVE FALSE
    OBVIOUS
  <2>1. PICK t \in Bad : \A u \in Bad : u \subseteq t => u = t
    <3>1. Bad \in SUBSET SUBSET S
      OBVIOUS
    <3> HIDE DEF Bad
    <3> QED
      BY <3>1, MinimalSubset
  <2>2. t # {}
    BY DEF SumsOf
  <2>3. First(t) \in t
    BY <2>2, FirstIn
  <2>4. h[t \ {First(t)}] = k[t \ {First(t)}]
    BY <2>1, <2>3
  <2>5. h[t] = g[First(t)] + h[t \ {First(t)}] /\ k[t] = f[First(t)] + k[t \ {First(t)}]
    BY <2>2 DEF SumsOf
  <2> QED
    BY <2>3, <2>4, <2>5
<1>2. h[S] = g[x] + h[S \ {x}] /\ k[S] = f[x] + k[S \ {x}] /\ h[S \ {x}] \in Int
  <2>1. S \in SUBSET S /\ S \ {x} \in SUBSET S
    OBVIOUS
  <2>2. /\ \A t \in SUBSET S : h[t] \in Int
        /\ \A t \in SUBSET S : \A y \in t : h[t] = g[y] + h[t \ {y}]
    BY SumsAdd
  <2>3. /\ \A t \in SUBSET S : k[t] \in Int
        /\ \A t \in SUBSET S : \A y \in t : k[t] = f[y] + k[t \ {y}]
    BY SumsAdd
  <2> QED
    BY <2>1, <2>2, <2>3
<1>3. k[S \ {x}] = h[S \ {x}] /\ f[x] \in Int /\ g[x] \in Int
  BY <1>1
<1> QED
  BY <1>2, <1>3

LEMMA SumsOfZeros ==
  ASSUME NEW S, IsFiniteSet(S), NEW g, \A x \in S : g[x] = 0, NEW h, SumsOf(S, g, h)
  PROVE  h[S] = 0
<1> DEFINE Bad == {t \in SUBSET S : h[t] # 0}
<1> SUFFICES ASSUME Bad # {} PROVE FALSE
  OBVIOUS
<1>1. PICK t \in Bad : \A u \in Bad : u \subseteq t => u = t
  <2>1. Bad \in SUBSET SUBSET S
    OBVIOUS
  <2> HIDE DEF Bad
  <2> QED
    BY <2>1, MinimalSubset
<1>2. t # {}
  BY DEF SumsOf
<1>3. First(t) \in t
  BY <1>2, FirstIn
<1>4. h[t \ {First(t)}] = 0
  BY <1>1, <1>3
<1>5. h[t] = g[First(t)] + h[t \ {First(t)}] /\ g[First(t)] = 0
  BY <1>2, <1>3 DEF SumsOf
<1> QED
  BY <1>4, <1>5

(* The units of s in m (what all orders took, or what they returned).      *)
Total(m, s) == MapThenSumSet(LAMBDA o : m[o][s], OrderId)

LEMMA TotalIsSum ==
  ASSUME IsFiniteSet(OrderId), NEW m, NEW s
  PROVE  \E h : /\ SumsOf(OrderId, [o \in OrderId |-> m[o][s]], h)
               /\ Total(m, s) = h[OrderId]
<1> DEFINE g == [o \in OrderId |-> m[o][s]]
           Fold(h) == h = [t \in SUBSET OrderId |->
                             IF t = {} THEN 0 ELSE m[First(t)][s] + h[t \ {First(t)}]]
<1>1. Total(m, s) = (CHOOSE h : Fold(h))[OrderId]
  BY DEF Total, MapThenSumSet, MapThenFoldSet, First
<1>2. \A t \in SUBSET OrderId : t # {} => g[First(t)] = m[First(t)][s]
  BY FirstIn
<1> HIDE DEF g
<1>3. ASSUME NEW h PROVE Fold(h) <=> SumsOf(OrderId, g, h)
  BY <1>2 DEF SumsOf
<1>4. \E h : SumsOf(OrderId, g, h)
  BY SumsExist
<1> HIDE DEF Fold
<1>5. Fold(CHOOSE h : Fold(h))
  BY <1>3, <1>4
<1> QED
  BY <1>1, <1>3, <1>5 DEF g

Units == [OrderId -> [Sku -> Nat]]
SameButFor(o, s, m, n) == \A q \in OrderId \ {o} : n[q][s] = m[q][s]

LEMMA TotalChange ==
  ASSUME IsFiniteSet(OrderId), NEW s \in Sku, NEW o \in OrderId,
         NEW m, NEW n, m \in Units, n \in Units, SameButFor(o, s, m, n)
  PROVE  /\ Total(m, s) \in Int
         /\ Total(n, s) = Total(m, s) + (n[o][s] - m[o][s])
<1> DEFINE g == [q \in OrderId |-> m[q][s]]
           f == [q \in OrderId |-> n[q][s]]
<1>1. g \in [OrderId -> Int] /\ f \in [OrderId -> Int]
  BY DEF Units
<1>2. f[o] = n[o][s] /\ g[o] = m[o][s]
  OBVIOUS
<1>3. AlikeBut(OrderId, o, g, f)
  BY DEF AlikeBut, SameButFor
<1>4. PICK h : SumsOf(OrderId, g, h) /\ Total(m, s) = h[OrderId]
  BY TotalIsSum
<1>5. PICK k : SumsOf(OrderId, f, k) /\ Total(n, s) = k[OrderId]
  BY TotalIsSum
<1> HIDE DEF f, g
<1>6. h[OrderId] \in Int
  BY <1>1, <1>4, SumsAdd
<1>7. k[OrderId] = h[OrderId] + (f[o] - g[o])
  BY <1>1, <1>3, <1>4, <1>5, SumsChange
<1> QED
  BY <1>2, <1>4, <1>5, <1>6, <1>7

LEMMA TotalType ==
  ASSUME IsFiniteSet(OrderId), NEW s \in Sku, NEW m, m \in Units
  PROVE  Total(m, s) \in Int
<1> DEFINE g == [q \in OrderId |-> m[q][s]]
<1>1. g \in [OrderId -> Int]
  BY DEF Units
<1>2. PICK h : SumsOf(OrderId, g, h) /\ Total(m, s) = h[OrderId]
  BY TotalIsSum
<1> HIDE DEF g
<1>3. h[OrderId] \in Int
  BY <1>1, <1>2, SumsAdd
<1> QED
  BY <1>2, <1>3

LEMMA TotalOfNothing ==
  ASSUME IsFiniteSet(OrderId), NEW s \in Sku
  PROVE  Total([o \in OrderId |-> Nothing], s) = 0
<1> DEFINE m == [o \in OrderId |-> Nothing]
           g == [q \in OrderId |-> m[q][s]]
<1>1. \A q \in OrderId : g[q] = 0
  BY DEF Nothing
<1>2. PICK h : SumsOf(OrderId, g, h) /\ Total(m, s) = h[OrderId]
  BY TotalIsSum
<1> HIDE DEF g
<1>3. h[OrderId] = 0
  BY <1>1, <1>2, SumsOfZeros
<1> QED
  BY <1>2, <1>3

(* An order that does not exist has taken nothing: its creation is what    *)
(* the conservation law must account for.                                  *)
NothingTakenYet == \A o \in OrderId : status[o] = "NONE" => taken[o] = Nothing

ConservationInv == TypeOK /\ NothingTakenYet /\ StockConserved

LEMMA ConservedTotals ==
  StockConserved <=>
    \A s \in Sku : stockQuantity[s] = supplied[s] - Total(taken, s) + Total(returned, s)
BY DEF StockConserved, Total

LEMMA ConservedTotalsNext ==
  StockConserved' <=>
    \A s \in Sku : stockQuantity'[s] = supplied'[s] - Total(taken', s) + Total(returned', s)
BY DEF StockConserved, Total, MapThenSumSet, MapThenFoldSet

(* The catalogue's forms move the shelf and the history of supplies by the *)
(* same amount, and no order.                                              *)
LEMMA RestockConserves ==
  ASSUME ConservationInv, IsFiniteSet(OrderId), NEW counts \in [Sku -> Nat],
         Restock(counts), UNCHANGED <<taken, returned>>
  PROVE  StockConserved'
<1>1. \A s \in Sku : supplied'[s] - stockQuantity'[s] = supplied[s] - stockQuantity[s]
  BY DEF Restock, ConservationInv, TypeOK
<1>2. \A s \in Sku : stockQuantity'[s] \in Int /\ supplied'[s] \in Int
  BY DEF Restock, ConservationInv, TypeOK
<1>3. ASSUME NEW s \in Sku
      PROVE  stockQuantity'[s] = supplied'[s] - Total(taken', s) + Total(returned', s)
  <2>1. Total(taken, s) \in Int /\ Total(returned, s) \in Int
    BY TotalType DEF ConservationInv, TypeOK, Units
  <2>2. stockQuantity[s] = supplied[s] - Total(taken, s) + Total(returned, s)
    BY ConservedTotals DEF ConservationInv
  <2>3. Total(taken', s) = Total(taken, s) /\ Total(returned', s) = Total(returned, s)
    OBVIOUS
  <2>4. stockQuantity[s] \in Int /\ supplied[s] \in Int
    BY DEF ConservationInv, TypeOK
  <2>5. stockQuantity'[s] = supplied'[s] + (stockQuantity[s] - supplied[s])
    BY <1>1, <1>2, <2>4
  <2>6. ASSUME NEW x \in Int, NEW y \in Int, NEW a \in Int, NEW b \in Int, NEW c \in Int,
               x = y - a + b
        PROVE  c + (x - y) = c - a + b
    BY <2>6
  <2>7. supplied'[s] + (stockQuantity[s] - supplied[s])
          = supplied'[s] - Total(taken, s) + Total(returned, s)
    BY <1>2, <2>1, <2>2, <2>4, <2>6
  <2> QED
    BY <2>3, <2>5, <2>7
<1> QED
  BY <1>3, ConservedTotalsNext

LEMMA CreateConserves ==
  ASSUME ConservationInv, IsFiniteSet(OrderId), TypeOK',
         NEW o \in OrderId, NEW k \in Key, NEW b \in Basket,
         NEW d \in Destination, CreateOrder(o, k, b, d)
  PROVE  StockConserved'
<1> DEFINE units == Tracked(b)
<1>1. /\ stockQuantity' = [s \in Sku |-> stockQuantity[s] - units[s]]
      /\ taken' = [taken EXCEPT ![o] = units]
      /\ UNCHANGED <<supplied, returned>> /\ taken[o] = Nothing
  BY DEF CreateOrder, TakeStock, ConservationInv, NothingTakenYet
<1>2. units \in [Sku -> Nat]
  BY OrdersAssumption, TrackedType DEF ConservationInv
<1> HIDE DEF units
<1>3. ASSUME NEW s \in Sku
      PROVE  stockQuantity'[s] = supplied'[s] - Total(taken', s) + Total(returned', s)
  <2>1. taken \in Units /\ taken' \in Units
    BY DEF ConservationInv, TypeOK, Units
  <2>2. SameButFor(o, s, taken, taken')
    BY <1>1, <2>1 DEF SameButFor, Units
  <2>3. /\ Total(taken, s) \in Int
        /\ Total(taken', s) = Total(taken, s) + (taken'[o][s] - taken[o][s])
    BY <2>1, <2>2, TotalChange
  <2>4. taken'[o][s] = units[s] /\ taken[o][s] = 0 /\ units[s] \in Int
    BY <1>1, <1>2, <2>1 DEF Units, Nothing
  <2>5. Total(returned', s) = Total(returned, s) /\ Total(returned, s) \in Int
    BY <1>1, TotalType DEF ConservationInv, TypeOK, Units
  <2>6. stockQuantity[s] = supplied[s] - Total(taken, s) + Total(returned, s)
    BY ConservedTotals DEF ConservationInv
  <2>7. /\ stockQuantity'[s] = stockQuantity[s] - units[s] /\ supplied'[s] = supplied[s]
        /\ stockQuantity[s] \in Int /\ supplied[s] \in Int
    BY <1>1 DEF ConservationInv, TypeOK
  <2>8. Total(taken', s) = Total(taken, s) + units[s]
    BY <2>3, <2>4
  <2> QED
    BY <2>3, <2>4, <2>5, <2>6, <2>7, <2>8
<1> QED
  BY <1>3, ConservedTotalsNext

LEMMA CancelConserves ==
  ASSUME ConservationInv, IsFiniteSet(OrderId), TypeOK', NEW o \in OrderId, CancelOrder(o)
  PROVE  StockConserved'
<1> DEFINE units == PutBack(o)
<1>1. /\ stockQuantity' = [s \in Sku |-> stockQuantity[s] + units[s]]
      /\ returned' = [returned EXCEPT ![o] = [s \in Sku |-> returned[o][s] + units[s]]]
      /\ UNCHANGED <<supplied, taken>>
  BY DEF CancelOrder, Transition
<1>2. units \in [Sku -> Nat]
  BY PutBackType DEF ConservationInv
<1> HIDE DEF units
<1>3. ASSUME NEW s \in Sku
      PROVE  stockQuantity'[s] = supplied'[s] - Total(taken', s) + Total(returned', s)
  <2>1. returned \in Units /\ returned' \in Units
    BY DEF ConservationInv, TypeOK, Units
  <2>2. SameButFor(o, s, returned, returned')
    BY <1>1, <2>1 DEF SameButFor, Units
  <2>3. /\ Total(returned, s) \in Int
        /\ Total(returned', s) = Total(returned, s) + (returned'[o][s] - returned[o][s])
    BY <2>1, <2>2, TotalChange
  <2>4. returned'[o][s] = returned[o][s] + units[s] /\ returned[o][s] \in Int /\ units[s] \in Int
    BY <1>1, <1>2, <2>1 DEF Units
  <2>5. Total(taken', s) = Total(taken, s) /\ Total(taken, s) \in Int
    BY <1>1, TotalType DEF ConservationInv, TypeOK, Units
  <2>6. stockQuantity[s] = supplied[s] - Total(taken, s) + Total(returned, s)
    BY ConservedTotals DEF ConservationInv
  <2>7. /\ stockQuantity'[s] = stockQuantity[s] + units[s] /\ supplied'[s] = supplied[s]
        /\ stockQuantity[s] \in Int /\ supplied[s] \in Int
    BY <1>1 DEF ConservationInv, TypeOK
  <2>8. Total(returned', s) = Total(returned, s) + units[s]
    BY <2>3, <2>4
  <2> QED
    BY <2>3, <2>4, <2>5, <2>6, <2>7, <2>8
<1> QED
  BY <1>3, ConservedTotalsNext

LEMMA UntouchedConserves ==
  ASSUME ConservationInv, UNCHANGED <<stockQuantity, supplied, taken, returned>>
  PROVE  StockConserved'
<1>1. \A s \in Sku : Total(taken', s) = Total(taken, s) /\ Total(returned', s) = Total(returned, s)
  OBVIOUS
<1> QED
  BY <1>1, ConservedTotals, ConservedTotalsNext DEF ConservationInv

LEMMA ConservationStep ==
  ASSUME IsFiniteSet(OrderId)
  PROVE  ConservationInv /\ [OrdersNext]_ordersVars => ConservationInv'
<1> SUFFICES ASSUME ConservationInv, [OrdersNext]_ordersVars PROVE ConservationInv'
  OBVIOUS
<1>1. TypeOK'
  BY TypeStep DEF ConservationInv
<1>2. ASSUME NEW o \in OrderId, NEW k \in Key, NEW b \in Basket, NEW d \in Destination,
             CreateOrder(o, k, b, d)
      PROVE  ConservationInv'
  <2>1. NothingTakenYet'
    BY <1>2 DEF CreateOrder, ConservationInv, NothingTakenYet, TypeOK
  <2> QED
    BY <1>1, <1>2, <2>1, CreateConserves DEF ConservationInv
<1>3. ASSUME NEW o \in OrderId, CancelOrder(o)
      PROVE  ConservationInv'
  <2>1. NothingTakenYet'
    BY <1>3 DEF CancelOrder, Transition, ConservationInv, NothingTakenYet, TypeOK
  <2> QED
    BY <1>1, <1>3, <2>1, CancelConserves DEF ConservationInv
<1>4. ASSUME NEW o \in OrderId, NEW next \in OrderStatus, MoveOrder(o, next)
      PROVE  ConservationInv'
  <2>0. /\ status' = [status EXCEPT ![o] = next] /\ taken' = taken
        /\ status[o] # "NONE" /\ status \in [OrderId -> OrderStatus \cup {"NONE"}]
    BY <1>4 DEF MoveOrder, Transition, ConservationInv, TypeOK
  <2>1. NothingTakenYet'
    BY <2>0 DEF ConservationInv, NothingTakenYet, OrderStatus
  <2> QED
    BY <1>1, <1>4, <2>1, UntouchedConserves DEF MoveOrder, Transition, ConservationInv
<1>5. CASE UNCHANGED orderVars /\ \E counts \in [Sku -> Nat] : Restock(counts)
  <2>1. UNCHANGED <<status, taken, returned>>
    BY <1>5 DEF orderVars
  <2>2. NothingTakenYet'
    BY <2>1 DEF NothingTakenYet, ConservationInv
  <2> QED
    BY <1>1, <1>5, <2>1, <2>2, RestockConserves DEF ConservationInv
<1>6. ASSUME NEW counts, Restock(counts)
      PROVE  counts \in [Sku -> Nat]
  BY <1>1, <1>6 DEF Restock, TypeOK
<1>7. ASSUME NEW p \in Product, CreateProduct(p) \/ UpdateProduct(p) \/ ArchiveProduct(p)
      PROVE  ConservationInv'
  <2>1. UNCHANGED orderVars /\ \E counts : Restock(counts)
    BY <1>7 DEF CreateProduct, UpdateProduct, SaveProduct, WriteProduct, ArchiveProduct
  <2> QED
    BY <1>5, <1>6, <2>1
<1>8. CASE SaveDeliveryRates \/ UNCHANGED ordersVars
  <2>1. UNCHANGED <<status, stockQuantity, supplied, taken, returned>>
    BY <1>8 DEF SaveDeliveryRates, ordersVars, orderVars
  <2>2. NothingTakenYet'
    BY <2>1 DEF NothingTakenYet, ConservationInv
  <2> QED
    BY <1>1, <2>1, <2>2, UntouchedConserves DEF ConservationInv
<1> QED
  BY <1>2, <1>3, <1>4, <1>7, <1>8 DEF OrdersNext

LEMMA ConservationInit ==
  ASSUME IsFiniteSet(OrderId)
  PROVE  OrdersInit => ConservationInv
<1> SUFFICES ASSUME OrdersInit PROVE ConservationInv
  OBVIOUS
<1>1. TypeOK /\ NothingTakenYet
  BY DEF OrdersInit, TypeOK, Nothing, NothingTakenYet
<1>2. ASSUME NEW s \in Sku
      PROVE  stockQuantity[s] = supplied[s] - Total(taken, s) + Total(returned, s)
  <2>1. taken = [o \in OrderId |-> Nothing] /\ returned = [o \in OrderId |-> Nothing]
    BY DEF OrdersInit
  <2>2. Total(taken, s) = 0 /\ Total(returned, s) = 0
    BY <2>1, TotalOfNothing
  <2>3. stockQuantity[s] = 0 /\ supplied[s] = 0
    BY DEF OrdersInit, Nothing
  <2> QED
    BY <2>2, <2>3
<1> QED
  BY <1>1, <1>2, ConservedTotals DEF ConservationInv

(* No interleaving of captures, cancellations and catalogue edits invents  *)
(* or loses a unit, whatever merchants do to trackInventory: the shelf is  *)
(* what was supplied, less what all orders took, plus what they returned.  *)
THEOREM StockIsConserved ==
  ASSUME IsFiniteSet(OrderId)
  PROVE  OrdersSpec => []StockConserved
<1>1. ConservationInv => StockConserved
  BY DEF ConservationInv
<1> QED
  BY <1>1, ConservationInit, ConservationStep, PTL DEF OrdersSpec

-----------------------------------------------------------------------------
(***************************************************************************)
(* Second part: dispatch.                                                  *)
(***************************************************************************)
(* What a call still knows is true: a call that runs has an order and a    *)
(* provider, works for a confirmed order once it has decided to send, and  *)
(* reports an acceptance only for a parcel the courier holds.              *)
CallInv ==
  \A c \in Caller : pc[c] # "idle" =>
    /\ target[c] \in OrderId
    /\ pc[c] \in {"read", "create", "update"} => via[c] \in Provider
    /\ seen[c] \in {"CONFIRMED", "PACKING"} => target[c] \in confirmed
    /\ pc[c] \in {"create", "update", "send"} => target[c] \in confirmed
    /\ pc[c] = "accepted" => parcels[target[c]] > 0

(* No status reached from CONFIRMED forgets the confirmation. *)
ConfirmationKept ==
  \A o \in OrderId : status[o] \in {"CONFIRMED", "PACKING"} => o \in confirmed

ShippingInv ==
  /\ ShippingTypeOK
  /\ CallInv
  /\ ConfirmationKept
  /\ ParcelNeedsConfirmation
  /\ AcceptedHasParcel

LEMMA DecisionCases ==
  ASSUME NEW c \in Caller
  PROVE  /\ Decision(c) \in {"idle", "repair", "create", "update"}
         /\ Decision(c) \in {"create", "update"} => seen[c] \in {"CONFIRMED", "PACKING"}
BY DEF Decision

LEMMA ShippingInit == Init => ShippingInv
<1> SUFFICES ASSUME Init PROVE ShippingInv
  OBVIOUS
<1>1. TypeOK
  BY DEF Init, OrdersInit, TypeOK, Nothing
<1>2. ShippingTypeOK
  BY <1>1, ShippingAssumption DEF Init, ShippingTypeOK, NONE, PC
<1> QED
  BY <1>2 DEF ShippingInv, Init, OrdersInit, CallInv, ConfirmationKept,
              ParcelNeedsConfirmation, AcceptedHasParcel, NONE

-----------------------------------------------------------------------------
(* Type correctness. *)

LEMMA FinishTypes ==
  ASSUME ShippingTypeOK, NEW c \in Caller, Finish(c)
  PROVE  /\ pc' \in [Caller -> PC]
         /\ target' \in [Caller -> OrderId \cup {NoOrder}]
         /\ via' \in [Caller -> Provider \cup {NoProvider}]
         /\ seen' \in [Caller -> OrderStatus \cup {NONE}]
BY DEF Finish, ShippingTypeOK, PC

LEMMA GotoTypes ==
  ASSUME ShippingTypeOK, NEW c \in Caller, NEW next \in PC, Goto(c, next)
  PROVE  /\ pc' \in [Caller -> PC]
         /\ target' \in [Caller -> OrderId \cup {NoOrder}]
         /\ via' \in [Caller -> Provider \cup {NoProvider}]
         /\ seen' \in [Caller -> OrderStatus \cup {NONE}]
BY DEF Goto, ShippingTypeOK

LEMMA WriteRowTypes ==
  ASSUME ShippingTypeOK, NEW o \in OrderId, NEW st \in DispatchStatus,
         NEW p \in Provider \cup {NoProvider}, WriteRow(o, st, p)
  PROVE  /\ rowStatus' \in [OrderId -> DispatchStatus \cup {NONE}]
         /\ rowProvider' \in [OrderId -> Provider \cup {NoProvider}]
BY DEF WriteRow, ShippingTypeOK

LEMMA ForceShippedTypes ==
  ASSUME TypeOK, NEW o \in OrderId, ForceShipped(o)
  PROVE  TypeOK'
<1>1. status' \in [OrderId -> OrderStatus \cup {"NONE"}]
  BY DEF ForceShipped, TypeOK, OrderStatus
<1> QED
  BY <1>1 DEF ForceShipped, catalogueVars, TypeOK

LEMMA OrdersVarsTypes ==
  ASSUME TypeOK, UNCHANGED ordersVars
  PROVE  TypeOK'
BY TypeStep

LEMMA DoubtTypes ==
  ASSUME ShippingInv, NEW c \in Caller, CallStep(c) \/ Crash(c)
  PROVE  doubtful' \in SUBSET OrderId
<1>1. doubtful' = doubtful \/ (pc[c] # "idle" /\ doubtful' = doubtful \cup {target[c]})
  BY DEF CallStep, ReadDispatch, RepairStatus, CreateRow, UpdateRow, CourierTakes,
         CourierRefuses, MarkAccepted, MarkShipped, UpdateThrows, MarkFailed, Crash, Doubt
<1> QED
  BY <1>1 DEF ShippingInv, CallInv, ShippingTypeOK

LEMMA CallTypes ==
  ASSUME ShippingInv, NEW c \in Caller, CallStep(c) \/ Crash(c)
  PROVE  ShippingTypeOK'
<1> USE DEF ShippingInv
<1>d. doubtful' \in SUBSET OrderId
  BY DoubtTypes
<1>0. /\ TypeOK
      /\ pc[c] # "idle" => target[c] \in OrderId
      /\ pc[c] \in {"create", "update"} => via[c] \in Provider
      /\ \A o \in OrderId : rowProvider[o] \in Provider \cup {NoProvider}
  BY DEF ShippingTypeOK, CallInv
<1>1. CASE ReadDispatch(c)
  <2>1. Decision(c) \in PC
    BY DecisionCases DEF PC
  <2>2. Finish(c) \/ Goto(c, Decision(c))
    BY <1>1 DEF ReadDispatch
  <2>3. TypeOK'
    BY <1>0, <1>1, OrdersVarsTypes DEF ReadDispatch
  <2> QED
    BY <1>d, <1>1, <2>1, <2>2, <2>3, FinishTypes, GotoTypes DEF ReadDispatch, rowVars, ShippingTypeOK
<1>2. CASE RepairStatus(c) \/ MarkShipped(c)
  <2>1. TypeOK'
    BY <1>0, <1>2, ForceShippedTypes DEF RepairStatus, MarkShipped
  <2> QED
    BY <1>d, <1>2, <2>1, FinishTypes DEF RepairStatus, MarkShipped, rowVars, ShippingTypeOK
<1>3. CASE CreateRow(c)
  <2>1. TypeOK'
    BY <1>0, <1>3, OrdersVarsTypes DEF CreateRow
  <2>2. \/ WriteRow(target[c], "PENDING", via[c]) /\ Goto(c, "send")
        \/ UNCHANGED rowVars /\ Finish(c)
    BY <1>3 DEF CreateRow
  <2> QED
    BY <1>d, <1>0, <1>3, <2>1, <2>2, FinishTypes, GotoTypes, WriteRowTypes
    DEF CreateRow, rowVars, ShippingTypeOK, DispatchStatus, PC
<1>4. CASE UpdateRow(c)
  <2>1. TypeOK'
    BY <1>0, <1>4, OrdersVarsTypes DEF UpdateRow
  <2> QED
    BY <1>d, <1>0, <1>4, <2>1, GotoTypes, WriteRowTypes
    DEF UpdateRow, ShippingTypeOK, DispatchStatus, PC
<1>5. CASE CourierTakes(c)
  <2>1. TypeOK'
    BY <1>0, <1>5, OrdersVarsTypes DEF CourierTakes
  <2>2. parcels' \in [OrderId -> 0..MaxParcels]
    BY <1>0, <1>5, ShippingAssumption DEF CourierTakes, ShippingTypeOK
  <2>3. Goto(c, "accepted") \/ Goto(c, "failed")
    BY <1>5 DEF CourierTakes
  <2> QED
    BY <1>d, <1>5, <2>1, <2>2, <2>3, GotoTypes DEF CourierTakes, rowVars, ShippingTypeOK, PC
<1>6. CASE CourierRefuses(c) \/ UpdateThrows(c)
  <2>1. TypeOK'
    BY <1>0, <1>6, OrdersVarsTypes DEF CourierRefuses, UpdateThrows
  <2> QED
    BY <1>d, <1>6, <2>1, GotoTypes DEF CourierRefuses, UpdateThrows, rowVars, ShippingTypeOK, PC
<1>7. CASE MarkAccepted(c)
  <2>1. TypeOK'
    BY <1>0, <1>7, OrdersVarsTypes DEF MarkAccepted
  <2>2. WriteRow(target[c], "ACCEPTED", rowProvider[target[c]]) /\ target[c] \in OrderId
    BY <1>0, <1>7 DEF MarkAccepted
  <2> QED
    BY <1>d, <1>0, <1>7, <2>1, <2>2, GotoTypes, WriteRowTypes
    DEF MarkAccepted, ShippingTypeOK, DispatchStatus, PC
<1>8. CASE MarkFailed(c)
  <2>1. TypeOK'
    BY <1>0, <1>8, OrdersVarsTypes DEF MarkFailed
  <2>2. WriteRow(target[c], "FAILED", rowProvider[target[c]]) /\ target[c] \in OrderId
    BY <1>0, <1>8 DEF MarkFailed
  <2> QED
    BY <1>d, <1>0, <1>8, <2>1, <2>2, FinishTypes, WriteRowTypes
    DEF MarkFailed, ShippingTypeOK, DispatchStatus
<1>9. CASE Crash(c)
  <2>1. TypeOK'
    BY <1>0, <1>9, OrdersVarsTypes DEF Crash
  <2> QED
    BY <1>d, <1>9, <2>1, FinishTypes DEF Crash, rowVars, ShippingTypeOK
<1> QED
  BY <1>1, <1>2, <1>3, <1>4, <1>5, <1>6, <1>7, <1>8, <1>9 DEF CallStep

LEMMA OtherTypes ==
  ASSUME ShippingTypeOK,
         \/ OrdersStep
         \/ SaveConnector
         \/ \E c \in Caller, o \in OrderId, p \in Provider : ReadOrder(c, o, p)
         \/ UNCHANGED vars
  PROVE  ShippingTypeOK'
<1>0. TypeOK
  BY DEF ShippingTypeOK
<1>1. CASE OrdersStep
  <2>1. TypeOK'
    BY <1>0, <1>1, TypeStep DEF OrdersStep
  <2> QED
    BY <1>1, <2>1 DEF OrdersStep, rowVars, callVars, ShippingTypeOK
<1>2. CASE SaveConnector
  <2>1. TypeOK'
    BY <1>0, <1>2, OrdersVarsTypes DEF SaveConnector
  <2> QED
    BY <1>2, <2>1 DEF SaveConnector, rowVars, callVars, ShippingTypeOK
<1>3. ASSUME NEW c \in Caller, NEW o \in OrderId, NEW p \in Provider, ReadOrder(c, o, p)
      PROVE  ShippingTypeOK'
  <2>1. TypeOK'
    BY <1>0, <1>3, OrdersVarsTypes DEF ReadOrder
  <2>2. seen' \in [Caller -> OrderStatus \cup {NONE}]
    BY <1>0, <1>3 DEF ReadOrder, ShippingTypeOK, TypeOK, NONE
  <2> QED
    BY <1>3, <2>1, <2>2 DEF ReadOrder, rowVars, ShippingTypeOK, PC
<1>4. CASE UNCHANGED vars
  <2>1. TypeOK'
    BY <1>0, <1>4, OrdersVarsTypes DEF vars
  <2> QED
    BY <1>4, <2>1 DEF vars, shippingVars, rowVars, callVars, ShippingTypeOK
<1> QED
  BY <1>1, <1>2, <1>3, <1>4

-----------------------------------------------------------------------------
(* What calls know, confirmations, and what an ACCEPTED row says.          *)

(* A call that ends, or moves on without touching rows, keeps the facts.   *)
LEMMA FinishInv ==
  ASSUME ShippingInv, NEW c \in Caller, Finish(c),
         UNCHANGED <<parcels, confirmed>>
  PROVE  CallInv'
<1> SUFFICES ASSUME NEW d \in Caller, pc'[d] # "idle"
             PROVE  /\ d # c
                    /\ pc'[d] = pc[d] /\ target'[d] = target[d]
                    /\ via'[d] = via[d] /\ seen'[d] = seen[d]
  BY DEF ShippingInv, CallInv
<1> QED
  BY DEF Finish, ShippingInv, ShippingTypeOK

LEMMA GotoInv ==
  ASSUME ShippingInv, NEW c \in Caller, NEW next \in PC, Goto(c, next),
         pc[c] # "idle", confirmed' = confirmed,
         \A o \in OrderId : parcels[o] > 0 => parcels'[o] > 0,
         next # "read", next \in {"create", "update"} => via[c] \in Provider,
         next \in {"create", "update", "send"} => target[c] \in confirmed,
         next = "accepted" => parcels'[target[c]] > 0
  PROVE  CallInv'
<1> SUFFICES ASSUME NEW d \in Caller, pc'[d] # "idle"
             PROVE  /\ target'[d] \in OrderId
                    /\ pc'[d] \in {"read", "create", "update"} => via'[d] \in Provider
                    /\ seen'[d] \in {"CONFIRMED", "PACKING"} => target'[d] \in confirmed'
                    /\ pc'[d] \in {"create", "update", "send"} => target'[d] \in confirmed'
                    /\ pc'[d] = "accepted" => parcels'[target'[d]] > 0
  BY DEF CallInv
<1>1. /\ target' = target
      /\ pc' = [pc EXCEPT ![c] = next]
      /\ via' = [via EXCEPT ![c] = IF next \in {"create", "update"} THEN @ ELSE NoProvider]
      /\ seen' = [seen EXCEPT ![c] = NONE]
  BY DEF Goto
<1>2. CASE d = c
  <2>1. pc'[d] = next /\ target'[d] = target[c] /\ seen'[d] = NONE
        /\ (next \in {"create", "update"} => via'[d] = via[c])
    BY <1>1, <1>2 DEF ShippingInv, ShippingTypeOK
  <2>2. target[c] \in OrderId /\ NONE \notin {"CONFIRMED", "PACKING"}
    BY DEF ShippingInv, CallInv, NONE
  <2> QED
    BY <1>2, <2>1, <2>2
<1>3. CASE d # c
  <2>1. pc'[d] = pc[d] /\ target'[d] = target[d] /\ via'[d] = via[d] /\ seen'[d] = seen[d]
    BY <1>1, <1>3 DEF ShippingInv, ShippingTypeOK
  <2>2. target[d] \in OrderId
    BY <2>1 DEF ShippingInv, CallInv
  <2> QED
    BY <2>1, <2>2 DEF ShippingInv, CallInv
<1> QED
  BY <1>2, <1>3

LEMMA CallStepCallInv ==
  ASSUME ShippingInv, NEW c \in Caller, CallStep(c) \/ Crash(c)
  PROVE  CallInv'
<1>0. pc[c] # "idle" =>
        /\ target[c] \in OrderId
        /\ seen[c] \in {"CONFIRMED", "PACKING"} => target[c] \in confirmed
        /\ pc[c] \in {"create", "update", "send"} => target[c] \in confirmed
  BY DEF ShippingInv, CallInv
<1>1. CASE ReadDispatch(c)
  <2>1. pc[c] = "read" /\ UNCHANGED <<parcels, confirmed>>
    BY <1>1 DEF ReadDispatch
  <2>2. CASE Decision(c) = "idle"
    BY <1>1, <2>1, <2>2, FinishInv DEF ReadDispatch
  <2>3. CASE Decision(c) # "idle"
    <3>1. Goto(c, Decision(c)) /\ Decision(c) \in PC
      BY <1>1, <2>3, DecisionCases DEF ReadDispatch, PC
    <3>2. Decision(c) \in {"create", "update", "send"} => target[c] \in confirmed
      BY <1>0, <2>1, DecisionCases
    <3>3. Decision(c) # "accepted"
      BY DecisionCases
    <3>4. Decision(c) # "read" /\ via[c] \in Provider
      BY <2>1, DecisionCases DEF ShippingInv, CallInv
    <3> QED
      BY <2>1, <3>1, <3>2, <3>3, <3>4, GotoInv
  <2> QED
    BY <2>2, <2>3
<1>2. CASE RepairStatus(c) \/ MarkShipped(c) \/ MarkFailed(c) \/ Crash(c)
  BY <1>2, FinishInv DEF RepairStatus, MarkShipped, MarkFailed, Crash
<1>3. CASE CreateRow(c)
  <2>1. pc[c] = "create" /\ UNCHANGED <<parcels, confirmed>> /\ (Goto(c, "send") \/ Finish(c))
    BY <1>3 DEF CreateRow
  <2> QED
    BY <1>0, <2>1, GotoInv, FinishInv DEF PC
<1>4. CASE UpdateRow(c)
  BY <1>0, <1>4, GotoInv DEF UpdateRow, PC
<1>5. CASE CourierTakes(c)
  <2>1. /\ pc[c] = "send" /\ confirmed' = confirmed
        /\ Goto(c, "accepted") \/ Goto(c, "failed")
        /\ parcels' = [parcels EXCEPT ![target[c]] = @ + 1]
    BY <1>5 DEF CourierTakes
  <2>2. parcels \in [OrderId -> Nat]
    BY ShippingAssumption DEF ShippingInv, ShippingTypeOK
  <2>3. parcels'[target[c]] > 0 /\ \A o \in OrderId : parcels[o] > 0 => parcels'[o] > 0
    BY <1>0, <2>1, <2>2
  <2> QED
    BY <2>1, <2>3, GotoInv DEF PC
<1>6. CASE CourierRefuses(c) \/ UpdateThrows(c)
  BY <1>6, GotoInv DEF CourierRefuses, UpdateThrows, PC
<1>7. CASE MarkAccepted(c)
  BY <1>7, GotoInv DEF MarkAccepted, PC
<1> QED
  BY <1>1, <1>2, <1>3, <1>4, <1>5, <1>6, <1>7 DEF CallStep

LEMMA CallStepOrders ==
  ASSUME ShippingInv, NEW c \in Caller, CallStep(c) \/ Crash(c)
  PROVE  ConfirmationKept' /\ ParcelNeedsConfirmation' /\ AcceptedHasParcel'
<1>0. /\ pc[c] # "idle" => target[c] \in OrderId
      /\ pc[c] = "send" => target[c] \in confirmed
      /\ pc[c] = "accepted" => parcels[target[c]] > 0
      /\ parcels \in [OrderId -> Nat]
  BY ShippingAssumption DEF ShippingInv, CallInv, ShippingTypeOK
<1>1. confirmed' = confirmed
  BY DEF CallStep, ReadDispatch, RepairStatus, CreateRow, UpdateRow, CourierTakes,
         CourierRefuses, MarkAccepted, MarkShipped, UpdateThrows, MarkFailed, Crash
<1>2. status' = status \/ \E o \in OrderId : ForceShipped(o)
  BY <1>0 DEF CallStep, ReadDispatch, RepairStatus, CreateRow, UpdateRow, CourierTakes,
         CourierRefuses, MarkAccepted, MarkShipped, UpdateThrows, MarkFailed, Crash,
         ordersVars, orderVars
<1>3. ConfirmationKept'
  BY <1>1, <1>2 DEF ConfirmationKept, ForceShipped, ShippingInv, ShippingTypeOK, TypeOK
<1>4. CASE CourierTakes(c)
  <2>1. parcels' = [parcels EXCEPT ![target[c]] = @ + 1] /\ target[c] \in confirmed
    BY <1>0, <1>4 DEF CourierTakes
  <2>2. rowStatus' = rowStatus
    BY <1>4 DEF CourierTakes, rowVars
  <2>3. ParcelNeedsConfirmation'
    BY <1>0, <1>1, <2>1 DEF ParcelNeedsConfirmation, ShippingInv
  <2>4. AcceptedHasParcel'
    BY <1>0, <2>1, <2>2 DEF AcceptedHasParcel, ShippingInv
  <2> QED
    BY <1>3, <2>3, <2>4
<1>5. CASE ~ CourierTakes(c)
  <2>1. parcels' = parcels
    BY <1>5 DEF CallStep, ReadDispatch, RepairStatus, CreateRow, UpdateRow,
         CourierRefuses, MarkAccepted, MarkShipped, UpdateThrows, MarkFailed, Crash
  <2>2. \A o \in OrderId : rowStatus'[o] = "ACCEPTED" =>
           rowStatus[o] = "ACCEPTED" \/ (MarkAccepted(c) /\ o = target[c])
    BY <1>5 DEF CallStep, ReadDispatch, RepairStatus, CreateRow, UpdateRow, CourierRefuses,
         MarkAccepted, MarkShipped, UpdateThrows, MarkFailed, Crash, rowVars, WriteRow,
         ShippingInv, ShippingTypeOK
  <2>3. AcceptedHasParcel'
    BY <1>0, <2>1, <2>2 DEF AcceptedHasParcel, ShippingInv, MarkAccepted
  <2>4. ParcelNeedsConfirmation'
    BY <1>1, <2>1 DEF ParcelNeedsConfirmation, ShippingInv
  <2> QED
    BY <1>3, <2>3, <2>4
<1> QED
  BY <1>4, <1>5

(* Order transactions confirm before they pack. *)
LEMMA OrdersStepConfirms ==
  ASSUME ShippingInv, OrdersStep
  PROVE  ConfirmationKept'
<1>1. confirmed \subseteq confirmed' /\ \A o \in OrderId : status'[o] = "CONFIRMED" => o \in confirmed'
  BY DEF OrdersStep
<1>2. \A o \in OrderId : status'[o] = "PACKING" => status[o] \in {"CONFIRMED", "PACKING"}
  <2>1. ASSUME NEW q \in OrderId, NEW next \in OrderStatus, Transition(q, next)
        PROVE  \A o \in OrderId : status'[o] = "PACKING" => status[o] \in {"CONFIRMED", "PACKING"}
    <3>1. /\ status' = [status EXCEPT ![q] = next]
          /\ next \in transitions[status[q]]
          /\ status[q] \in OrderStatus
      BY <2>1 DEF Transition, ShippingInv, ShippingTypeOK, TypeOK
    <3>2. next = "PACKING" => status[q] = "CONFIRMED"
      BY <3>1 DEF transitions, OrderStatus
    <3> QED
      BY <3>1, <3>2 DEF ShippingInv, ShippingTypeOK, TypeOK
  <2>2. ASSUME NEW q \in OrderId, NEW k \in Key, NEW b \in Basket, NEW d \in Destination,
               CreateOrder(q, k, b, d)
        PROVE  \A o \in OrderId : status'[o] = "PACKING" => status[o] \in {"CONFIRMED", "PACKING"}
    BY <2>2 DEF CreateOrder, ShippingInv, ShippingTypeOK, TypeOK
  <2>3. ASSUME status' = status
        PROVE  \A o \in OrderId : status'[o] = "PACKING" => status[o] \in {"CONFIRMED", "PACKING"}
    BY <2>3
  <2>4. ASSUME NEW p \in Product, CreateProduct(p) \/ UpdateProduct(p) \/ ArchiveProduct(p)
        PROVE  status' = status
    BY <2>4 DEF CreateProduct, UpdateProduct, SaveProduct, WriteProduct, ArchiveProduct, orderVars
  <2>5. CASE SaveDeliveryRates
    BY <2>3, <2>5 DEF SaveDeliveryRates, orderVars
  <2> QED
    BY <2>1, <2>2, <2>3, <2>4, <2>5
    DEF OrdersStep, OrdersNext, CancelOrder, MoveOrder, OrderStatus
<1> QED
  BY <1>1, <1>2 DEF ConfirmationKept, ShippingInv

LEMMA OtherInv ==
  ASSUME ShippingInv,
         \/ OrdersStep
         \/ SaveConnector
         \/ \E c \in Caller, o \in OrderId, p \in Provider : ReadOrder(c, o, p)
         \/ UNCHANGED vars
  PROVE  CallInv' /\ ConfirmationKept' /\ ParcelNeedsConfirmation' /\ AcceptedHasParcel'
<1> USE DEF ShippingInv
<1>1. CASE OrdersStep
  <2>1. /\ UNCHANGED <<pc, target, via, seen, rowStatus, parcels>>
        /\ confirmed \subseteq confirmed'
    BY <1>1 DEF OrdersStep, rowVars, callVars
  <2> QED
    BY <1>1, <2>1, OrdersStepConfirms DEF CallInv, ParcelNeedsConfirmation, AcceptedHasParcel
<1>2. ASSUME NEW c \in Caller, NEW o \in OrderId, NEW p \in Provider, ReadOrder(c, o, p)
      PROVE  CallInv' /\ ConfirmationKept' /\ ParcelNeedsConfirmation' /\ AcceptedHasParcel'
  <2>1. /\ UNCHANGED <<rowStatus, parcels, confirmed, status>>
        /\ pc' = [pc EXCEPT ![c] = "read"]
        /\ target' = [target EXCEPT ![c] = o]
        /\ via' = [via EXCEPT ![c] = p]
        /\ seen' = [seen EXCEPT ![c] = status[o]]
    BY <1>2 DEF ReadOrder, rowVars, ordersVars, orderVars
  <2>2. status[o] \in {"CONFIRMED", "PACKING"} => o \in confirmed
    BY DEF ConfirmationKept
  <2>3. CallInv'
    BY <2>1, <2>2 DEF CallInv, ShippingTypeOK
  <2> QED
    BY <2>1, <2>3 DEF ConfirmationKept, ParcelNeedsConfirmation, AcceptedHasParcel
<1>3. CASE SaveConnector \/ UNCHANGED vars
  <2>1. UNCHANGED <<pc, target, via, seen, rowStatus, parcels, confirmed, status>>
    BY <1>3 DEF SaveConnector, vars, shippingVars, rowVars, callVars, ordersVars, orderVars
  <2> QED
    BY <2>1 DEF CallInv, ConfirmationKept, ParcelNeedsConfirmation, AcceptedHasParcel
<1> QED
  BY <1>1, <1>2, <1>3

LEMMA ShippingStep == ShippingInv /\ [Next]_vars => ShippingInv'
<1> SUFFICES ASSUME ShippingInv, [Next]_vars PROVE ShippingInv'
  OBVIOUS
<1>1. ASSUME NEW c \in Caller, CallStep(c) \/ Crash(c)
      PROVE  ShippingInv'
  BY <1>1, CallTypes, CallStepCallInv, CallStepOrders DEF ShippingInv
<1>2. ASSUME \/ OrdersStep
             \/ SaveConnector
             \/ \E c \in Caller, o \in OrderId, p \in Provider : ReadOrder(c, o, p)
             \/ UNCHANGED vars
      PROVE  ShippingInv'
  BY <1>2, OtherTypes, OtherInv DEF ShippingInv
<1> QED
  BY <1>1, <1>2 DEF Next

LEMMA ShippingInvariant == Spec => []ShippingInv
BY ShippingInit, ShippingStep, PTL DEF Spec

(* Type correctness of the dispatch rows and of the calls in flight. *)
THEOREM ShippingTypeCorrect == Spec => []ShippingTypeOK
BY ShippingInvariant, PTL DEF ShippingInv

(* No courier ever gets an order that nobody confirmed, however stale the  *)
(* status is with which dispatchOrder works.                               *)
THEOREM ParcelsAreConfirmed == Spec => []ParcelNeedsConfirmation
BY ShippingInvariant, PTL DEF ShippingInv

(* An ACCEPTED row is backed by a parcel, through every failure, crash and *)
(* retry of dispatchOrder.                                                 *)
THEOREM AcceptedIsBacked == Spec => []AcceptedHasParcel
BY ShippingInvariant, PTL DEF ShippingInv

-----------------------------------------------------------------------------
(* Stock is returned once. dispatchOrder may move a cancelled order to     *)
(* SHIPPED, but only forward, out of the reach of another cancellation.    *)

ReturnedLines ==
  \A o \in OrderId :
    /\ \A s \in Sku : returned[o][s] \in {0, items[o][s]}
    /\ status[o] = "NONE" => returned[o] = Nothing

ReturnInv == LifecycleInv /\ ReturnedLines

LEMMA OrdersNextReturns ==
  ASSUME ReturnInv, [OrdersNext]_ordersVars
  PROVE  ReturnedLines'
<1> USE DEF ReturnInv, LifecycleInv
<1>1. ASSUME NEW o \in OrderId, NEW k \in Key, NEW b \in Basket, NEW d \in Destination,
             CreateOrder(o, k, b, d)
      PROVE  ReturnedLines'
  <2>1. /\ status[o] = "NONE" /\ returned' = returned
        /\ status' = [status EXCEPT ![o] = "CAPTURED"]
        /\ items' = [items EXCEPT ![o] = b]
    BY <1>1 DEF CreateOrder
  <2>2. \A s \in Sku : returned[o][s] = 0
    BY <2>1 DEF ReturnedLines, Nothing
  <2> QED
    BY <2>1, <2>2 DEF ReturnedLines, TypeOK
<1>2. ASSUME NEW o \in OrderId, CancelOrder(o)
      PROVE  ReturnedLines'
  <2>1. \A s \in Sku : PutBack(o)[s] \in {0, items[o][s]}
    <3>1. PutBack(o) = [s \in Sku |-> IF trackInventory[Owner(s)] THEN items[o][s] ELSE 0]
      BY DEF PutBack, Tracked
    <3> QED
      BY <3>1
  <2>2. /\ returned'[o] = PutBack(o) /\ status'[o] = "CANCELED" /\ items' = items
        /\ \A q \in OrderId \ {o} : returned'[q] = returned[q] /\ status'[q] = status[q]
    BY <1>2, CancelReturns DEF TypeOK
  <2> QED
    BY <2>1, <2>2 DEF ReturnedLines
<1>3. ASSUME NEW o \in OrderId, NEW next \in OrderStatus, MoveOrder(o, next)
      PROVE  ReturnedLines'
  BY <1>3, MoveLeavesStock DEF ReturnedLines, TypeOK, OrderStatus
<1>4. CASE UNCHANGED orderVars
  BY <1>4 DEF orderVars, ReturnedLines
<1> QED
  BY <1>1, <1>2, <1>3, <1>4, CatalogueLeavesOrders DEF OrdersNext

LEMMA ForceShippedReturns ==
  ASSUME ReturnInv, NEW o \in OrderId, ForceShipped(o)
  PROVE  Unreturned' /\ ReturnedLines'
<1>1. /\ status' = [status EXCEPT ![o] = "SHIPPED"]
      /\ UNCHANGED <<items, returned>>
  BY DEF ForceShipped
<1> QED
  BY <1>1 DEF ReturnInv, LifecycleInv, TypeOK, Unreturned, ReturnedLines

LEMMA ReturnStep ==
  ASSUME ShippingInv, ReturnInv, [Next]_vars
  PROVE  ReturnInv'
<1>1. CASE OrdersStep \/ UNCHANGED ordersVars
  BY <1>1, OrdersNextReturns, UnreturnedStep, TypeStep DEF OrdersStep, ReturnInv, LifecycleInv
<1>2. ASSUME NEW c \in Caller, RepairStatus(c) \/ MarkShipped(c)
      PROVE  ReturnInv'
  <2>1. target[c] \in OrderId /\ ForceShipped(target[c])
    BY <1>2 DEF RepairStatus, MarkShipped, ShippingInv, CallInv
  <2> QED
    BY <2>1, ForceShippedReturns, ForceShippedTypes DEF ReturnInv, LifecycleInv
<1>3. ASSUME NEW c \in Caller, CallStep(c) \/ Crash(c), ~ RepairStatus(c), ~ MarkShipped(c)
      PROVE  UNCHANGED ordersVars
  BY <1>3 DEF CallStep, ReadDispatch, CreateRow, UpdateRow, CourierTakes, CourierRefuses,
              MarkAccepted, UpdateThrows, MarkFailed, Crash
<1>4. CASE UNCHANGED vars \/ SaveConnector
           \/ \E c \in Caller, o \in OrderId, p \in Provider : ReadOrder(c, o, p)
  BY <1>1, <1>4 DEF vars, SaveConnector, ReadOrder
<1> QED
  BY <1>1, <1>2, <1>3, <1>4 DEF Next

(* Stock goes back at most once per order, in spite of the statuses that   *)
(* dispatchOrder overwrites and of whatever forms do to trackInventory.    *)
THEOREM StockReturnedOnce == Spec => []ReturnedOnce
<1>1. Init => ReturnInv
  BY LifecycleInit DEF Init, OrdersInit, ReturnInv, ReturnedLines, Nothing
<1>2. ReturnInv => ReturnedOnce
  BY DEF ReturnInv, LifecycleInv, Unreturned, ReturnedLines, ReturnedOnce
<1> QED
  BY <1>1, <1>2, ReturnStep, ShippingInvariant, PTL DEF Spec

-----------------------------------------------------------------------------
(* The conservation law again, now with the calls of dispatchOrder: what   *)
(* they do to orders is to overwrite a status, never a quantity.           *)
LEMMA ForceShippedConserves ==
  ASSUME ConservationInv, NEW o \in OrderId, ForceShipped(o)
  PROVE  ConservationInv'
<1>1. /\ status' = [status EXCEPT ![o] = "SHIPPED"]
      /\ UNCHANGED <<stockQuantity, supplied, taken, returned>>
  BY DEF ForceShipped
<1>2. TypeOK'
  BY ForceShippedTypes DEF ConservationInv
<1>3. NothingTakenYet'
  BY <1>1 DEF ConservationInv, NothingTakenYet, TypeOK
<1> QED
  BY <1>1, <1>2, <1>3, UntouchedConserves DEF ConservationInv

LEMMA ConservationWithDispatch ==
  ASSUME IsFiniteSet(OrderId), ShippingInv, ConservationInv, [Next]_vars
  PROVE  ConservationInv'
<1>1. CASE OrdersStep \/ UNCHANGED ordersVars
  BY <1>1, ConservationStep DEF OrdersStep
<1>2. ASSUME NEW c \in Caller, RepairStatus(c) \/ MarkShipped(c)
      PROVE  ConservationInv'
  <2>1. target[c] \in OrderId /\ ForceShipped(target[c])
    BY <1>2 DEF RepairStatus, MarkShipped, ShippingInv, CallInv
  <2> QED
    BY <2>1, ForceShippedConserves
<1>3. ASSUME NEW c \in Caller, CallStep(c) \/ Crash(c), ~ RepairStatus(c), ~ MarkShipped(c)
      PROVE  UNCHANGED ordersVars
  BY <1>3 DEF CallStep, ReadDispatch, CreateRow, UpdateRow, CourierTakes, CourierRefuses,
              MarkAccepted, UpdateThrows, MarkFailed, Crash
<1>4. CASE UNCHANGED vars \/ SaveConnector
           \/ \E c \in Caller, o \in OrderId, p \in Provider : ReadOrder(c, o, p)
  BY <1>1, <1>4 DEF vars, SaveConnector, ReadOrder
<1> QED
  BY <1>1, <1>2, <1>3, <1>4 DEF Next

(* Late dispatch calls, failures and crashes included: a unit is on the    *)
(* shelf, with an order, or was never supplied.                            *)
THEOREM StockConservedWithDispatch ==
  ASSUME IsFiniteSet(OrderId)
  PROVE  Spec => []StockConserved
<1>1. Init => ConservationInv
  BY ConservationInit DEF Init
<1>2. ConservationInv => StockConserved
  BY DEF ConservationInv
<1> QED
  BY <1>1, <1>2, ConservationWithDispatch, ShippingInvariant, PTL DEF Spec

-----------------------------------------------------------------------------
(* The dispatch row prevents a second parcel as long as nothing fails and  *)
(* no two calls work on the same order. Of an order without doubt: one     *)
(* call at most works on it, a call on its way to the courier has sent     *)
(* nothing, and a parcel that exists is on the row or known to a call that *)
(* is about to write it.                                                   *)
ParcelKnown(o) ==
  /\ \A c, d \in Caller : target[c] = o /\ target[d] = o => c = d
  /\ \A c \in Caller :
       target[c] = o /\ pc[c] \in {"create", "update", "send", "failed"} => parcels[o] = 0
  /\ parcels[o] <= 1
  /\ parcels[o] > 0 =>
       \/ rowStatus[o] = "ACCEPTED"
       \/ \E c \in Caller : pc[c] = "accepted" /\ target[c] = o

(* An idle call has no order, so that target says who works on which.      *)
OneParcelInv ==
  /\ \A c \in Caller : pc[c] = "idle" => target[c] = NoOrder
  /\ \A o \in OrderId : o \in doubtful \/ ParcelKnown(o)

(* Of its own order: what a step has to establish.                         *)
LEMMA OneParcelAt ==
  ASSUME ShippingInv, OneParcelInv, NEW c \in Caller, target[c] \in OrderId,
         pc' \in [Caller -> PC], target' \in [Caller -> OrderId \cup {NoOrder}],
         \A d \in Caller \ {c} : pc'[d] = pc[d] /\ target'[d] = target[d],
         \A q \in OrderId \ {target[c]} : parcels'[q] = parcels[q] /\ rowStatus'[q] = rowStatus[q],
         doubtful \subseteq doubtful',
         target'[c] \in {target[c], NoOrder}, pc'[c] = "idle" => target'[c] = NoOrder,
         target[c] \notin doubtful' =>
           /\ target'[c] = target[c] /\ pc'[c] \in {"create", "update", "send", "failed"} =>
                parcels'[target[c]] = 0
           /\ parcels'[target[c]] <= 1
           /\ parcels'[target[c]] > 0 =>
                \/ rowStatus'[target[c]] = "ACCEPTED"
                \/ pc'[c] = "accepted" /\ target'[c] = target[c]
  PROVE  OneParcelInv'
<1>1. \A d \in Caller : target'[d] \in {target[d], NoOrder}
  OBVIOUS
<1>2. ASSUME NEW d \in Caller, pc'[d] = "idle"
      PROVE  target'[d] = NoOrder
  BY <1>2 DEF OneParcelInv
<1>3. ASSUME NEW q \in OrderId, q \notin doubtful'
      PROVE  ParcelKnown(q)'
  <2>1. ParcelKnown(q) /\ q # NoOrder
    BY <1>3, ShippingAssumption DEF OneParcelInv
  <2>2. \A a, b \in Caller : target'[a] = q /\ target'[b] = q => a = b
    BY <1>1, <2>1 DEF ParcelKnown
  <2>3. CASE q = target[c]
    <3>1. \A d \in Caller : target'[d] = q => d = c
      BY <1>1, <2>1, <2>3 DEF ParcelKnown
    <3> QED
      BY <1>3, <2>2, <2>3, <3>1 DEF ParcelKnown
  <2>4. CASE q # target[c]
    <3>1. parcels'[q] = parcels[q] /\ rowStatus'[q] = rowStatus[q]
      BY <2>4
    <3>2. \A d \in Caller : target'[d] = q => d # c /\ pc'[d] = pc[d] /\ target[d] = q
      BY <2>1, <2>4
    <3>3. \A d \in Caller : target[d] = q => pc'[d] = pc[d] /\ target'[d] = q
      BY <2>4
    <3> QED
      BY <2>1, <2>2, <3>1, <3>2, <3>3 DEF ParcelKnown
  <2> QED
    BY <2>3, <2>4
<1> QED
  BY <1>2, <1>3 DEF OneParcelInv

LEMMA OneParcelCall ==
  ASSUME ShippingInv, OneParcelInv, NEW c \in Caller, CallStep(c) \/ Crash(c)
  PROVE  OneParcelInv'
<1> DEFINE o == target[c]
<1>1. /\ pc \in [Caller -> PC] /\ rowStatus \in [OrderId -> DispatchStatus \cup {NONE}]
      /\ target \in [Caller -> OrderId \cup {NoOrder}]
      /\ parcels \in [OrderId -> 0..MaxParcels]
  BY DEF ShippingInv, ShippingTypeOK
<1>2. pc[c] # "idle" /\ o \in OrderId
  BY DEF ShippingInv, CallInv, CallStep, ReadDispatch, RepairStatus, CreateRow, UpdateRow,
         CourierTakes, CourierRefuses, MarkAccepted, MarkShipped, UpdateThrows, MarkFailed, Crash
<1>t. ShippingTypeOK'
  BY CallTypes
<1>4. /\ \A d \in Caller \ {c} : pc'[d] = pc[d] /\ target'[d] = target[d]
      /\ \A q \in OrderId \ {o} : parcels'[q] = parcels[q] /\ rowStatus'[q] = rowStatus[q]
      /\ doubtful \subseteq doubtful'
      /\ target'[c] \in {o, NoOrder}
  BY <1>1, <1>2 DEF CallStep, ReadDispatch, RepairStatus, CreateRow, UpdateRow,
     CourierTakes, CourierRefuses, MarkAccepted, MarkShipped, UpdateThrows, MarkFailed,
     Crash, Finish, Goto, WriteRow, rowVars, Doubt
<1>5. o \notin doubtful =>
        /\ pc[c] \in {"create", "update", "send", "failed"} => parcels[o] = 0
        /\ parcels[o] <= 1
        /\ parcels[o] > 0 => rowStatus[o] = "ACCEPTED" \/ pc[c] = "accepted"
  BY <1>2 DEF OneParcelInv, ParcelKnown
<1>6. ASSUME pc'[c] = "idle" => target'[c] = NoOrder,
             o \notin doubtful' =>
               /\ target'[c] = o /\ pc'[c] \in {"create", "update", "send", "failed"} =>
                    parcels'[o] = 0
               /\ parcels'[o] <= 1
               /\ parcels'[o] > 0 =>
                    \/ rowStatus'[o] = "ACCEPTED"
                    \/ pc'[c] = "accepted" /\ target'[c] = o
      PROVE  OneParcelInv'
  <2>1. pc' \in [Caller -> PC] /\ target' \in [Caller -> OrderId \cup {NoOrder}]
    BY <1>t DEF ShippingTypeOK
  <2> QED
    BY <1>2, <1>4, <1>6, <2>1, OneParcelAt
<1>7. CASE ReadDispatch(c)
  <2>1. Decision(c) \in {"create", "update"} => rowStatus[o] # "ACCEPTED"
    BY DEF Decision
  <2>2. Decision(c) \in {"idle", "repair", "create", "update"}
    BY DecisionCases
  <2>3. UNCHANGED <<rowStatus, parcels, doubtful>> /\ parcels[o] \in Nat /\ pc[c] = "read"
    BY <1>1, <1>2, <1>7 DEF ReadDispatch, rowVars
  <2>4. CASE Decision(c) = "idle"
    <3>1. pc'[c] = "idle" /\ target'[c] = NoOrder
      BY <1>1, <1>7, <2>4 DEF ReadDispatch, Finish
    <3> QED
      BY <1>5, <1>6, <2>3, <3>1
  <2>5. CASE Decision(c) # "idle"
    <3>1. pc'[c] = Decision(c) /\ target'[c] = o
      BY <1>1, <1>7, <2>5 DEF ReadDispatch, Goto
    <3> QED
      BY <1>5, <1>6, <2>1, <2>2, <2>3, <2>5, <3>1
  <2> QED
    BY <2>4, <2>5
<1>8. CASE RepairStatus(c) \/ MarkShipped(c)
  <2>1. /\ pc'[c] = "idle" /\ target'[c] = NoOrder /\ pc[c] \in {"repair", "ship"}
        /\ UNCHANGED <<rowStatus, parcels, doubtful>>
    BY <1>1, <1>8 DEF RepairStatus, MarkShipped, Finish, rowVars
  <2> QED
    BY <1>5, <1>6, <2>1
<1>9. CASE CreateRow(c) \/ UpdateRow(c)
  <2>1. /\ pc[c] \in {"create", "update"} /\ UNCHANGED <<parcels, doubtful>>
        /\ \/ pc'[c] = "send"
           \/ pc'[c] = "idle" /\ target'[c] = NoOrder
    BY <1>1, <1>9 DEF CreateRow, UpdateRow, Finish, Goto
  <2>2. parcels[o] \in Nat
    BY <1>1, <1>2
  <2> QED
    BY <1>5, <1>6, <2>1, <2>2
<1>10. CASE CourierTakes(c)
  <2>1. /\ parcels' = [parcels EXCEPT ![o] = @ + 1] /\ pc[c] = "send"
        /\ \/ Goto(c, "accepted") /\ UNCHANGED doubtful
           \/ Goto(c, "failed") /\ o \in doubtful'
    BY <1>10 DEF CourierTakes, Doubt
  <2>2. o \notin doubtful' => parcels'[o] = 1 /\ Goto(c, "accepted")
    BY <1>1, <1>2, <1>4, <1>5, <2>1
  <2>3. /\ pc'[c] # "idle"
        /\ Goto(c, "accepted") => pc'[c] = "accepted" /\ target'[c] = o
    BY <1>1, <2>1 DEF Goto
  <2> QED
    BY <1>6, <2>2, <2>3
<1>11. CASE CourierRefuses(c)
  <2>1. pc'[c] = "failed" /\ pc[c] = "send" /\ UNCHANGED <<rowStatus, parcels, doubtful>>
    BY <1>1, <1>11 DEF CourierRefuses, Goto, rowVars
  <2>2. parcels[o] \in Nat
    BY <1>1, <1>2
  <2> QED
    BY <1>5, <1>6, <2>1, <2>2
<1>12. CASE MarkAccepted(c)
  <2>1. /\ pc'[c] = "ship" /\ UNCHANGED <<parcels, doubtful>>
        /\ rowStatus'[o] = "ACCEPTED"
    BY <1>1, <1>2, <1>12 DEF MarkAccepted, Goto, WriteRow
  <2> QED
    BY <1>5, <1>6, <2>1
<1>13. CASE MarkFailed(c)
  <2>1. /\ pc'[c] = "idle" /\ target'[c] = NoOrder /\ pc[c] = "failed"
        /\ UNCHANGED <<parcels, doubtful>>
    BY <1>1, <1>13 DEF MarkFailed, Finish
  <2>2. parcels[o] \in Nat
    BY <1>1, <1>2
  <2> QED
    BY <1>5, <1>6, <2>1, <2>2
<1>14. CASE UpdateThrows(c)
  <2>1. pc'[c] = "failed" /\ o \in doubtful'
    BY <1>1, <1>14 DEF UpdateThrows, Goto, Doubt
  <2> QED
    BY <1>6, <2>1
<1>15. CASE Crash(c)
  <2>1. /\ pc'[c] = "idle" /\ target'[c] = NoOrder
        /\ pc[c] = "accepted" => o \in doubtful'
        /\ UNCHANGED <<rowStatus, parcels>>
    BY <1>1, <1>15 DEF Crash, Finish, rowVars, Doubt
  <2> QED
    BY <1>4, <1>5, <1>6, <2>1
<1> QED
  BY <1>7, <1>8, <1>9, <1>10, <1>11, <1>12, <1>13, <1>14, <1>15 DEF CallStep

LEMMA OneParcelRead ==
  ASSUME ShippingInv, OneParcelInv,
         NEW c \in Caller, NEW o \in OrderId, NEW p \in Provider, ReadOrder(c, o, p)
  PROVE  OneParcelInv'
<1>1. /\ pc[c] = "idle" /\ target[c] = NoOrder /\ UNCHANGED <<rowStatus, parcels>>
      /\ pc' = [pc EXCEPT ![c] = "read"] /\ target' = [target EXCEPT ![c] = o]
      /\ doubtful' = doubtful \cup {q \in {o} : \E d \in Caller : target[d] = q}
  BY DEF ReadOrder, rowVars, OneParcelInv
<1>2. pc \in [Caller -> PC] /\ target \in [Caller -> OrderId \cup {NoOrder}]
  BY DEF ShippingInv, ShippingTypeOK
<1>3. /\ \A d \in Caller \ {c} : pc'[d] = pc[d] /\ target'[d] = target[d]
      /\ pc'[c] = "read" /\ target'[c] = o
  BY <1>1, <1>2
<1>4. ASSUME NEW q \in OrderId, q \notin doubtful'
      PROVE  ParcelKnown(q)'
  <2>1. ParcelKnown(q) /\ q # NoOrder
    BY <1>1, <1>4, ShippingAssumption DEF OneParcelInv
  <2>2. q = o => \A d \in Caller : target[d] # q
    BY <1>1, <1>4
  <2>3. \A d \in Caller : target'[d] = q =>
          (d = c /\ q = o) \/ (d # c /\ target[d] = q /\ pc'[d] = pc[d])
    BY <1>3
  <2>4. \A a, b \in Caller : target'[a] = q /\ target'[b] = q => a = b
    BY <2>1, <2>2, <2>3 DEF ParcelKnown
  <2>5. \A d \in Caller : target'[d] = q /\ pc'[d] \in {"create", "update", "send", "failed"} =>
          parcels[q] = 0
    BY <1>3, <2>1, <2>3 DEF ParcelKnown
  <2>6. \A d \in Caller : target[d] = q => pc'[d] = pc[d] /\ target'[d] = q
    BY <1>1, <1>3, <2>1
  <2> QED
    BY <1>1, <2>1, <2>4, <2>5, <2>6 DEF ParcelKnown
<1> QED
  BY <1>3, <1>4 DEF OneParcelInv

LEMMA OneParcelStep ==
  ASSUME ShippingInv, OneParcelInv, [Next]_vars
  PROVE  OneParcelInv'
<1>1. CASE OrdersStep \/ SaveConnector \/ UNCHANGED vars
  <2>1. UNCHANGED <<pc, target, rowStatus, parcels, doubtful>>
    BY <1>1 DEF OrdersStep, SaveConnector, rowVars, callVars, vars, shippingVars
  <2> QED
    BY <2>1 DEF OneParcelInv, ParcelKnown
<1> QED
  BY <1>1, OneParcelRead, OneParcelCall DEF Next

(* An order whose calls follow one another, and whose parcel is not lost   *)
(* sight of, is handed to the courier at most once, for any number of      *)
(* calls, orders and couriers, and any refusals and crashes. Each excuse   *)
(* is needed: the run dispatch_twice shows what two concurrent calls do,   *)
(* and each lost answer or update makes a retry send again.                *)
THEOREM OneParcelWithoutDoubt == Spec => []OneParcelUnlessDoubt
<1>1. Init => OneParcelInv
  <2> SUFFICES ASSUME Init PROVE OneParcelInv
    OBVIOUS
  <2>1. ASSUME NEW o \in OrderId PROVE ParcelKnown(o)
    <3>1. (\A c \in Caller : target[c] = NoOrder) /\ parcels[o] = 0 /\ o # NoOrder
      BY ShippingAssumption DEF Init
    <3> QED
      BY <3>1 DEF ParcelKnown
  <2> QED
    BY <2>1 DEF Init, OneParcelInv
<1>2. OneParcelInv /\ ShippingInv => OneParcelUnlessDoubt
  BY DEF OneParcelInv, ParcelKnown, OneParcelUnlessDoubt, ShippingInv, ShippingTypeOK
<1> QED
  BY <1>1, <1>2, OneParcelStep, ShippingInvariant, PTL DEF Spec

-----------------------------------------------------------------------------
(* A call ends, whatever is done to it: no step leads back.                *)
LEMMA CallAdvances ==
  ASSUME ShippingInv, NEW c \in Caller, CallStep(c)
  PROVE  /\ StepsLeft[pc'[c]] < StepsLeft[pc[c]]
         /\ \A d \in Caller \ {c} : pc'[d] = pc[d]
<1>1. pc \in [Caller -> PC]
  BY DEF ShippingInv, ShippingTypeOK
<1> USE <1>1 DEF StepsLeft, Goto, Finish
<1>2. CASE ReadDispatch(c)
  BY <1>2, DecisionCases DEF ReadDispatch
<1>3. CASE RepairStatus(c) \/ MarkShipped(c) \/ MarkFailed(c)
  BY <1>3 DEF RepairStatus, MarkShipped, MarkFailed
<1>4. CASE CreateRow(c) \/ UpdateRow(c)
  BY <1>4 DEF CreateRow, UpdateRow
<1>5. CASE CourierTakes(c) \/ CourierRefuses(c)
  BY <1>5 DEF CourierTakes, CourierRefuses
<1>6. CASE MarkAccepted(c) \/ UpdateThrows(c)
  BY <1>6 DEF MarkAccepted, UpdateThrows
<1> QED
  BY <1>2, <1>3, <1>4, <1>5, <1>6 DEF CallStep

LEMMA OthersLeaveCalls ==
  ASSUME ShippingInv, NEW c \in Caller, pc[c] # "idle", [Next]_vars,
         \A d \in Caller : ~ CallStep(d)
  PROVE  pc'[c] \in {pc[c], "idle"}
<1>1. pc \in [Caller -> PC]
  BY DEF ShippingInv, ShippingTypeOK
<1>2. CASE OrdersStep \/ SaveConnector \/ UNCHANGED vars
  BY <1>2 DEF OrdersStep, SaveConnector, callVars, shippingVars, vars
<1>3. ASSUME NEW d \in Caller, NEW o \in OrderId, NEW p \in Provider, ReadOrder(d, o, p)
      PROVE  pc'[c] = pc[c]
  BY <1>1, <1>3 DEF ReadOrder
<1>4. ASSUME NEW d \in Caller, Crash(d)
      PROVE  pc'[c] \in {pc[c], "idle"}
  BY <1>1, <1>4 DEF Crash, Finish
<1> QED
  BY <1>2, <1>3, <1>4 DEF Next

(* No schedule of calls, couriers and failures sends a call round in       *)
(* circles.                                                                *)
THEOREM CallsProgress == Spec => CallProgresses
<1>1. ASSUME ShippingInv, [Next]_vars, NEW c \in Caller, pc[c] # "idle", pc'[c] # pc[c]
      PROVE  StepsLeft[pc'[c]] < StepsLeft[pc[c]]
  <2>1. CASE \E d \in Caller : CallStep(d)
    BY <1>1, <2>1, CallAdvances
  <2>2. CASE \A d \in Caller : ~ CallStep(d)
    <3>1. pc'[c] = "idle"
      BY <1>1, <2>2, OthersLeaveCalls
    <3>2. pc[c] \in PC \ {"idle"}
      BY <1>1 DEF ShippingInv, ShippingTypeOK
    <3> QED
      BY <3>1, <3>2 DEF PC, StepsLeft
  <2> QED
    BY <2>1, <2>2
<1>2. ShippingInv /\ [Next]_vars =>
        [\A c \in Caller :
            pc[c] # "idle" /\ pc'[c] # pc[c] => StepsLeft[pc'[c]] < StepsLeft[pc[c]]]_vars
  BY <1>1
<1> QED
  BY <1>2, ShippingInvariant, PTL DEF Spec, CallProgresses

====
