---- MODULE Orders ----
(***************************************************************************)
(* Order capture, order status and stock: services/orders.ts, with the     *)
(* catalogue and delivery-rate handlers of routes/dashboard.ts that write  *)
(* the rows an order reads. Every handler here is one database             *)
(* transaction, so it is one action; a transaction that throws is rolled   *)
(* back and is no step at all.                                             *)
(*                                                                         *)
(* Prices, names, addresses and the lead's contact fields are abstracted:  *)
(* a Destination stands for a wilaya together with a delivery type, a      *)
(* basket for the item lines of the tool call summed per Sku (the lines    *)
(* are decremented one after the other, so they succeed together exactly   *)
(* when the sum fits). The lead upserted with the order is CONVERTED in    *)
(* the same transaction, so leads say nothing that orders do not.          *)
(***************************************************************************)
EXTENDS Integers, FiniteSetsExt

CONSTANTS
    Product,             \* products of the store
    Variant,             \* size/colour variants
    ProductOf,           \* [Variant -> Product]
    OrderId,             \* identities of order rows
    Key,                 \* idempotency keys: the webhook event that asks for the order
    NoKey,               \* the key of a row that does not exist
    Destination,         \* a wilaya with a delivery type
    Basket,              \* the baskets customers ask for, a subset of [Sku -> Nat]
    StockLevel           \* the stock counts a merchant may type in a form

Sku == Product \cup Variant
Owner(s) == IF s \in Variant THEN ProductOf[s] ELSE s
VariantsOf(p) == {v \in Variant : ProductOf[v] = p}

ASSUME OrdersAssumption ==
    /\ Product \cap Variant = {}
    /\ ProductOf \in [Variant -> Product]
    /\ NoKey \notin Key
    /\ Basket \subseteq [Sku -> Nat]
    /\ StockLevel \subseteq Nat

VARIABLES
    productStatus,   \* Product.status, "NONE" before the product exists
    trackInventory,  \* Product.trackInventory
    variantState,    \* ProductVariant.isAvailable, "NONE" before the row exists
    stockQuantity,   \* stockQuantity of the product or of the variant
    deliverable,     \* destinations whose rate is enabled and priced
    status,          \* Order.status, "NONE" before the row exists
    key,             \* Order.idempotencyKey
    items,           \* the order's items, summed per Sku
    taken,           \* history: units the order's creation took from stock
    returned,        \* history: units its cancellation put back
    supplied         \* history: net units merchants put on the shelf

catalogueVars == <<productStatus, trackInventory, variantState>>
orderVars == <<status, key, items, taken, returned>>
ordersVars == <<catalogueVars, stockQuantity, deliverable, orderVars, supplied>>

OrderStatus == {"CAPTURED", "CONFIRMED", "PACKING", "SHIPPED", "DELIVERED",
                "CANCELED", "RETURNED"}
ProductStatus == {"ACTIVE", "DRAFT", "ARCHIVED"}

Nothing == [s \in Sku |-> 0]

OrdersInit ==
    /\ productStatus = [p \in Product |-> "NONE"]
    /\ trackInventory = [p \in Product |-> TRUE]
    /\ variantState = [v \in Variant |-> "NONE"]
    /\ stockQuantity = Nothing
    /\ deliverable = {}
    /\ status = [o \in OrderId |-> "NONE"]
    /\ key = [o \in OrderId |-> NoKey]
    /\ items = [o \in OrderId |-> Nothing]
    /\ taken = [o \in OrderId |-> Nothing]
    /\ returned = [o \in OrderId |-> Nothing]
    /\ supplied = Nothing

-----------------------------------------------------------------------------
(* createOrderFromTool *)

(* Mistake: a cancelled order no longer counts as the event's order.       *)
OpenOrderExistsFor(k) ==
    \E o \in OrderId : status[o] \notin {"NONE", "CANCELED", "RETURNED"} /\ key[o] = k

(* The order already created for the event, if any, is returned as it is.  *)
OrderExistsFor(k) == \E o \in OrderId : status[o] # "NONE" /\ key[o] = k

(* Every product is ACTIVE; a line names an available variant exactly when *)
(* its product has variants at all.                                        *)
Orderable(basket) ==
    \A s \in Sku : basket[s] > 0 =>
        /\ productStatus[Owner(s)] = "ACTIVE"
        /\ IF s \in Variant
             THEN variantState[s] = "AVAILABLE"
             ELSE \A v \in VariantsOf(s) : variantState[v] = "NONE"

(* What the conditional decrements take: only tracked products count.      *)
Tracked(units) == [s \in Sku |-> IF trackInventory[Owner(s)] THEN units[s] ELSE 0]

(* Mistake: the variant rows are decremented without the stock condition.  *)
InStockOfProducts(units) == \A p \in Product : units[p] <= stockQuantity[p]

InStock(units) == \A s \in Sku : units[s] <= stockQuantity[s]

(* Mistake: only the first item line is taken off the shelf.               *)
TakeFirstLine(units) ==
    LET first == CHOOSE s \in Sku : units[s] > 0
    IN  IF units = Nothing THEN stockQuantity
        ELSE [stockQuantity EXCEPT ![first] = @ - units[first]]

TakeStock(units) == [s \in Sku |-> stockQuantity[s] - units[s]]

CreateOrder(o, k, basket, d) ==
    /\ ~ OrderExistsFor(k)
    /\ d \in deliverable
    /\ Orderable(basket)
    /\ InStock(Tracked(basket))
    /\ status[o] = "NONE"
    /\ stockQuantity' = TakeStock(Tracked(basket))
    /\ status' = [status EXCEPT ![o] = "CAPTURED"]
    /\ key' = [key EXCEPT ![o] = k]
    /\ items' = [items EXCEPT ![o] = basket]
    /\ taken' = [taken EXCEPT ![o] = Tracked(basket)]
    /\ UNCHANGED <<catalogueVars, deliverable, returned, supplied>>

-----------------------------------------------------------------------------
(* transitionOrderStatus *)

transitions ==
    [CAPTURED  |-> {"CONFIRMED", "CANCELED"},
     CONFIRMED |-> {"PACKING", "SHIPPED", "CANCELED"},
     PACKING   |-> {"SHIPPED", "CANCELED"},
     SHIPPED   |-> {"DELIVERED", "RETURNED"},
     DELIVERED |-> {"RETURNED"},
     CANCELED  |-> {},
     RETURNED  |-> {}]

(* Mistake: any status may follow any other.                               *)
AnyTransition(o, next) ==
    /\ status[o] \notin {"NONE", next}
    /\ status' = [status EXCEPT ![o] = next]
    /\ UNCHANGED <<catalogueVars, deliverable, key, items, taken, supplied>>

(* Serializable isolation makes the read and the compare-and-set one step: *)
(* a status changed in between fails the claim and rolls back.             *)
Transition(o, next) ==
    /\ status[o] # "NONE"
    /\ next \in transitions[status[o]]
    /\ status' = [status EXCEPT ![o] = next]
    /\ UNCHANGED <<catalogueVars, deliverable, key, items, taken, supplied>>

(* Stock goes back for the items whose product is tracked at this moment.  *)
PutBack(o) == Tracked(items[o])

CancelOrder(o) ==
    /\ Transition(o, "CANCELED")
    /\ \A v \in Variant : items[o][v] > 0 => variantState[v] # "NONE"
    /\ stockQuantity' = [s \in Sku |-> stockQuantity[s] + PutBack(o)[s]]
    /\ returned' = [returned EXCEPT ![o] = [s \in Sku |-> @[s] + PutBack(o)[s]]]

MoveOrder(o, next) ==
    /\ next # "CANCELED"
    /\ Transition(o, next)
    /\ UNCHANGED <<stockQuantity, returned>>

-----------------------------------------------------------------------------
(* The dashboard's catalogue handlers *)

(* Absolute stock counts typed by the merchant; the history of what was    *)
(* put on the shelf moves by the difference.                               *)
Restock(counts) ==
    /\ stockQuantity' = counts
    /\ supplied' = [s \in Sku |-> supplied[s] + counts[s] - stockQuantity[s]]

(* The rows a product form writes: the product itself, the variants it     *)
(* lists, and the existing variants it no longer lists, which are made     *)
(* unavailable and emptied.                                                *)
WriteProduct(p, st, tracked, count, listed, available, perVariant) ==
    /\ productStatus' = [productStatus EXCEPT ![p] = st]
    /\ trackInventory' = [trackInventory EXCEPT ![p] = tracked]
    /\ variantState' =
         [v \in Variant |->
            CASE v \in available -> "AVAILABLE"
              [] v \in listed \ available -> "UNAVAILABLE"
              [] v \in VariantsOf(p) \ listed /\ variantState[v] # "NONE" -> "UNAVAILABLE"
              [] OTHER -> variantState[v]]
    /\ Restock([s \in Sku |->
            CASE s = p -> count
              [] s \in listed -> perVariant
              [] s \in VariantsOf(p) \ listed -> 0
              [] OTHER -> stockQuantity[s]])
    /\ UNCHANGED <<deliverable, orderVars>>

SaveProduct(p) ==
    \E st \in ProductStatus, tracked \in BOOLEAN, count, perVariant \in StockLevel,
       listed \in SUBSET VariantsOf(p) : \E available \in SUBSET listed :
         WriteProduct(p, st, tracked, count, listed, available, perVariant)

CreateProduct(p) ==
    /\ productStatus[p] = "NONE"
    /\ SaveProduct(p)

UpdateProduct(p) ==
    /\ productStatus[p] # "NONE"
    /\ SaveProduct(p)

(* DELETE empties and archives the product row; its variants keep theirs.  *)
ArchiveProduct(p) ==
    /\ productStatus[p] # "NONE"
    /\ productStatus' = [productStatus EXCEPT ![p] = "ARCHIVED"]
    /\ Restock([stockQuantity EXCEPT ![p] = 0])
    /\ UNCHANGED <<trackInventory, variantState, deliverable, orderVars>>

(* PUT /settings upserts the rates it lists, so any rate may change.       *)
SaveDeliveryRates ==
    /\ deliverable' \in SUBSET Destination
    /\ deliverable' # deliverable
    /\ UNCHANGED <<catalogueVars, stockQuantity, orderVars, supplied>>

-----------------------------------------------------------------------------
OrdersNext ==
    \/ \E o \in OrderId, k \in Key, b \in Basket, d \in Destination : CreateOrder(o, k, b, d)
    \/ \E o \in OrderId : CancelOrder(o)
    \/ \E o \in OrderId, next \in OrderStatus : MoveOrder(o, next)
    \/ \E p \in Product : CreateProduct(p)
    \/ \E p \in Product : UpdateProduct(p)
    \/ \E p \in Product : ArchiveProduct(p)
    \/ SaveDeliveryRates

OrdersSpec == OrdersInit /\ [][OrdersNext]_ordersVars

-----------------------------------------------------------------------------
(* Properties *)

(* Type correctness; stock is a natural number, so no interleaving of      *)
(* order creation, cancellation and edits overdraws it.                    *)
TypeOK ==
    /\ productStatus \in [Product -> ProductStatus \cup {"NONE"}]
    /\ trackInventory \in [Product -> BOOLEAN]
    /\ variantState \in [Variant -> {"NONE", "AVAILABLE", "UNAVAILABLE"}]
    /\ stockQuantity \in [Sku -> Nat]
    /\ deliverable \in SUBSET Destination
    /\ status \in [OrderId -> OrderStatus \cup {"NONE"}]
    /\ key \in [OrderId -> Key \cup {NoKey}]
    /\ items \in [OrderId -> [Sku -> Nat]]
    /\ taken \in [OrderId -> [Sku -> Nat]]
    /\ returned \in [OrderId -> [Sku -> Nat]]
    /\ supplied \in [Sku -> Int]

(* A webhook event, however often it is processed, has at most one order   *)
(* (the findUnique on storeId_idempotencyKey in createOrderFromTool).      *)
OneOrderPerKey ==
    \A o1, o2 \in OrderId :
        status[o1] # "NONE" /\ status[o2] # "NONE" /\ key[o1] = key[o2] => o1 = o2

(* No unit is invented or lost: what is on the shelf is what merchants     *)
(* supplied, less what orders took, plus what cancellations returned.      *)
StockConserved ==
    \A s \in Sku :
        stockQuantity[s] = supplied[s]
                             - MapThenSumSet(LAMBDA o : taken[o][s], OrderId)
                             + MapThenSumSet(LAMBDA o : returned[o][s], OrderId)

(* "Cancelling before shipping gives the stock back, once"                 *)
(* (docs/ARCHITECTURE.md:92): a cancelled order has given back the units   *)
(* its creation took, and an order that is not cancelled has given none.   *)
CancelReturnsStock ==
    \A o \in OrderId :
        returned[o] = IF status[o] = "CANCELED" THEN taken[o] ELSE Nothing

(* Statuses and stock follow the abstract order life cycle, whatever edits *)
(* of the catalogue come in between: only a cancellation gives stock back, *)
(* of each line of its own order all or nothing.                           *)
Lifecycle == INSTANCE OrderLifecycle

FollowsLifecycle == Lifecycle!Spec
====
