---- MODULE Shipping ----
(***************************************************************************)
(* Handing an order to a courier: dispatchOrder of services/shipping.ts,   *)
(* running concurrently with the order and catalogue transactions of       *)
(* Orders. dispatchOrder is not a transaction: each of its database calls  *)
(* and the HTTP request to the courier is a step of its own, and whatever  *)
(* was read stays in local variables while others write.                   *)
(*                                                                         *)
(* A call keeps only what later steps use: the order, the provider, the    *)
(* order status it read, and where it is (pc). The request and response    *)
(* payloads, tracking numbers and error texts are left out.                *)
(***************************************************************************)
EXTENDS Orders

CONSTANTS
    Caller,       \* requests in flight: each runs dispatchOrder again and again
    Provider,     \* YALIDINE, ZR_EXPRESS
    NoProvider,
    MaxParcels,   \* bound: parcels a courier takes for one order
    Faults        \* which of "crash", "lost_answer", "db_error" may happen

NONE == "NONE"
NoOrder == "NO_ORDER"

ASSUME ShippingAssumption ==
    /\ NoProvider \notin Provider
    /\ NoOrder \notin OrderId
    /\ MaxParcels \in Nat
    /\ Faults \subseteq {"crash", "lost_answer", "db_error"}

VARIABLES
    enabled,       \* providers whose connector is enabled
    rowStatus,     \* status of the order's ShippingDispatch row, "NONE" before it exists
    rowProvider,   \* its provider
    pc,            \* where each call is
    target,        \* the order it dispatches
    via,           \* the provider it was asked for
    seen,          \* the order status it read
    parcels,       \* courier: parcels taken for each order
    confirmed,     \* history: orders that were CONFIRMED at some time
    doubtful       \* history: orders two calls met on, or whose parcel's news was lost

rowVars == <<rowStatus, rowProvider>>
callVars == <<pc, target, via, seen>>
shippingVars == <<enabled, rowVars, callVars, parcels, confirmed, doubtful>>
vars == <<ordersVars, shippingVars>>

DispatchStatus == {"PENDING", "ACCEPTED", "FAILED"}
PC == {"idle", "read", "repair", "create", "update", "send", "accepted", "ship", "failed"}

Init ==
    /\ OrdersInit
    /\ enabled = {}
    /\ rowStatus = [o \in OrderId |-> NONE]
    /\ rowProvider = [o \in OrderId |-> NoProvider]
    /\ pc = [c \in Caller |-> "idle"]
    /\ target = [c \in Caller |-> NoOrder]
    /\ via = [c \in Caller |-> NoProvider]
    /\ seen = [c \in Caller |-> NONE]
    /\ parcels = [o \in OrderId |-> 0]
    /\ confirmed = {}
    /\ doubtful = {}

-----------------------------------------------------------------------------
(* A call returns or throws: nothing of it is left. *)
Finish(c) ==
    /\ pc' = [pc EXCEPT ![c] = "idle"]
    /\ target' = [target EXCEPT ![c] = NoOrder]
    /\ via' = [via EXCEPT ![c] = NoProvider]
    /\ seen' = [seen EXCEPT ![c] = NONE]

(* The call goes on and keeps what later steps use: the status it read is  *)
(* used up by the decision, the provider by the row it is written to.      *)
Goto(c, next) ==
    /\ pc' = [pc EXCEPT ![c] = next]
    /\ via' = [via EXCEPT ![c] = IF next \in {"create", "update"} THEN @ ELSE NoProvider]
    /\ seen' = [seen EXCEPT ![c] = NONE]
    /\ UNCHANGED target

(* The connector and the order are read; the order's dispatch rows come    *)
(* from a second SELECT, so they may be newer than the order's status.     *)
ReadOrder(c, o, p) ==
    /\ pc[c] = "idle"
    /\ p \in enabled
    /\ status[o] # NONE
    /\ pc' = [pc EXCEPT ![c] = "read"]
    /\ target' = [target EXCEPT ![c] = o]
    /\ via' = [via EXCEPT ![c] = p]
    /\ seen' = [seen EXCEPT ![c] = status[o]]
    /\ doubtful' = doubtful \cup {q \in {o} : \E d \in Caller : target[d] = q}
    /\ UNCHANGED <<ordersVars, enabled, rowVars, parcels, confirmed>>

(* Mistake: the order's status is not looked at.                           *)
DecisionByRowOnly(c) ==
    CASE rowStatus[target[c]] = "ACCEPTED" -> "idle"
      [] rowStatus[target[c]] = NONE -> "create"
      [] OTHER -> "update"

(* What dispatchOrder decides from what it has read. *)
Decision(c) ==
    LET o == target[c]
        accepted == rowStatus[o] = "ACCEPTED"
        elsewhere == rowStatus[o] # NONE /\ rowProvider[o] # via[c]
    IN  CASE accepted /\ ~elsewhere /\ seen[c] # "SHIPPED" -> "repair"
          [] accepted /\ (elsewhere \/ seen[c] = "SHIPPED") -> "idle"
          [] ~accepted /\ elsewhere /\ rowStatus[o] # "FAILED" -> "idle"
          [] ~accepted /\ ~(elsewhere /\ rowStatus[o] # "FAILED")
               /\ seen[c] \notin {"CONFIRMED", "PACKING"} -> "idle"
          [] OTHER -> IF rowStatus[o] = NONE THEN "create" ELSE "update"

ReadDispatch(c) ==
    /\ pc[c] = "read"
    /\ IF Decision(c) = "idle" THEN Finish(c) ELSE Goto(c, Decision(c))
    /\ UNCHANGED <<ordersVars, enabled, rowVars, parcels, confirmed, doubtful>>

(* order.update by id, whatever the status has become since it was read.   *)
ForceShipped(o) ==
    /\ status' = [status EXCEPT ![o] = "SHIPPED"]
    /\ UNCHANGED <<catalogueVars, stockQuantity, deliverable, key, items,
                   taken, returned, supplied>>

(* The parcel was accepted earlier but the order did not get its status.   *)
RepairStatus(c) ==
    /\ pc[c] = "repair"
    /\ ForceShipped(target[c])
    /\ Finish(c)
    /\ UNCHANGED <<enabled, rowVars, parcels, confirmed, doubtful>>

WriteRow(o, st, p) ==
    /\ rowStatus' = [rowStatus EXCEPT ![o] = st]
    /\ rowProvider' = [rowProvider EXCEPT ![o] = p]

(* The unique (storeId, orderId) makes the second of two creates throw.    *)
CreateRow(c) ==
    /\ pc[c] = "create"
    /\ IF rowStatus[target[c]] = NONE
         THEN WriteRow(target[c], "PENDING", via[c]) /\ Goto(c, "send")
         ELSE UNCHANGED rowVars /\ Finish(c)
    /\ UNCHANGED <<ordersVars, enabled, parcels, confirmed, doubtful>>

UpdateRow(c) ==
    /\ pc[c] = "update"
    /\ WriteRow(target[c], "PENDING", via[c])
    /\ Goto(c, "send")
    /\ UNCHANGED <<ordersVars, enabled, parcels, confirmed, doubtful>>

Doubt(o) == doubtful' = doubtful \cup {o}

(* The courier takes the parcel; its answer may be lost on the way back.   *)
CourierTakes(c) ==
    /\ pc[c] = "send"
    /\ parcels[target[c]] < MaxParcels
    /\ parcels' = [parcels EXCEPT ![target[c]] = @ + 1]
    /\ \/ Goto(c, "accepted") /\ UNCHANGED doubtful
       \/ "lost_answer" \in Faults /\ Goto(c, "failed") /\ Doubt(target[c])
    /\ UNCHANGED <<ordersVars, enabled, rowVars, confirmed>>

(* Mistake: an error answer of the courier is taken for an acceptance.     *)
CourierErrorIgnored(c) ==
    /\ pc[c] = "send"
    /\ Goto(c, "accepted")
    /\ UNCHANGED <<ordersVars, enabled, rowVars, parcels, confirmed, doubtful>>

(* Mistake: a request that failed is tried again, without end.             *)
CourierAskedAgain(c) ==
    /\ pc[c] = "send"
    /\ Goto(c, "update")
    /\ UNCHANGED <<ordersVars, enabled, rowVars, parcels, confirmed, doubtful>>

(* The courier answers with an error, or the request never reaches it.     *)
CourierRefuses(c) ==
    /\ pc[c] = "send"
    /\ Goto(c, "failed")
    /\ UNCHANGED <<ordersVars, enabled, rowVars, parcels, confirmed, doubtful>>

(* Mistake: an answer without a tracking number counts as a failure.       *)
MarkAcceptedIfTracked(c) ==
    /\ pc[c] = "accepted"
    /\ \/ WriteRow(target[c], "ACCEPTED", rowProvider[target[c]]) /\ Goto(c, "ship")
       \/ UNCHANGED rowVars /\ Goto(c, "failed")
    /\ UNCHANGED <<ordersVars, enabled, parcels, confirmed, doubtful>>

MarkAccepted(c) ==
    /\ pc[c] = "accepted"
    /\ WriteRow(target[c], "ACCEPTED", rowProvider[target[c]])
    /\ Goto(c, "ship")
    /\ UNCHANGED <<ordersVars, enabled, parcels, confirmed, doubtful>>

MarkShipped(c) ==
    /\ pc[c] = "ship"
    /\ ForceShipped(target[c])
    /\ Finish(c)
    /\ UNCHANGED <<enabled, rowVars, parcels, confirmed, doubtful>>

(* The try block also covers the two updates after the courier's answer.   *)
UpdateThrows(c) ==
    /\ "db_error" \in Faults
    /\ pc[c] \in {"accepted", "ship"}
    /\ Goto(c, "failed")
    /\ Doubt(target[c])
    /\ UNCHANGED <<ordersVars, enabled, rowVars, parcels, confirmed>>

MarkFailed(c) ==
    /\ pc[c] = "failed"
    /\ WriteRow(target[c], "FAILED", rowProvider[target[c]])
    /\ Finish(c)
    /\ UNCHANGED <<ordersVars, enabled, parcels, confirmed, doubtful>>

(* The process dies: the call is gone, its rows stay as they are.          *)
Crash(c) ==
    /\ "crash" \in Faults
    /\ pc[c] # "idle"
    /\ Finish(c)
    /\ IF pc[c] = "accepted" THEN Doubt(target[c]) ELSE UNCHANGED doubtful
    /\ UNCHANGED <<ordersVars, enabled, rowVars, parcels, confirmed>>

(* PUT /connectors/:type *)
SaveConnector ==
    /\ enabled' \in SUBSET Provider
    /\ enabled' # enabled
    /\ UNCHANGED <<ordersVars, rowVars, callVars, parcels, confirmed, doubtful>>

OrdersStep ==
    /\ OrdersNext
    /\ confirmed' = confirmed \cup {o \in OrderId : status'[o] = "CONFIRMED"}
    /\ UNCHANGED <<enabled, rowVars, callVars, parcels, doubtful>>

-----------------------------------------------------------------------------
(* The steps that Node runs by itself once a call has started. *)
CallStep(c) ==
    \/ ReadDispatch(c) \/ RepairStatus(c) \/ CreateRow(c) \/ UpdateRow(c)
    \/ CourierTakes(c) \/ CourierRefuses(c)
    \/ MarkAccepted(c) \/ MarkShipped(c) \/ UpdateThrows(c) \/ MarkFailed(c)

Next ==
    \/ OrdersStep
    \/ SaveConnector
    \/ \E c \in Caller, o \in OrderId, p \in Provider : ReadOrder(c, o, p)
    \/ \E c \in Caller : CallStep(c)
    \/ \E c \in Caller : Crash(c)

Spec == Init /\ [][Next]_vars

-----------------------------------------------------------------------------
(* Properties *)

ShippingTypeOK ==
    /\ TypeOK
    /\ enabled \in SUBSET Provider
    /\ rowStatus \in [OrderId -> DispatchStatus \cup {NONE}]
    /\ rowProvider \in [OrderId -> Provider \cup {NoProvider}]
    /\ pc \in [Caller -> PC]
    /\ target \in [Caller -> OrderId \cup {NoOrder}]
    /\ via \in [Caller -> Provider \cup {NoProvider}]
    /\ seen \in [Caller -> OrderStatus \cup {NONE}]
    /\ parcels \in [OrderId -> 0..MaxParcels]
    /\ confirmed \in SUBSET OrderId
    /\ doubtful \in SUBSET OrderId

(* No order leaves the shop before somebody confirmed it, although calls   *)
(* work with a status read long before they reach the courier.             *)
ParcelNeedsConfirmation ==
    \A o \in OrderId : parcels[o] > 0 => o \in confirmed

(* An ACCEPTED row is never a guess: the courier holds a parcel, whatever  *)
(* other calls, failures and crashes did to the row in between.            *)
AcceptedHasParcel ==
    \A o \in OrderId : rowStatus[o] = "ACCEPTED" => parcels[o] > 0

(* Stock goes back at most once per order, even though dispatchOrder       *)
(* overwrites statuses without looking and trackInventory may change: of   *)
(* each line all units or none have been returned, and an order that can   *)
(* still be cancelled has returned nothing.                                *)
ReturnedOnce ==
    \A o \in OrderId :
        /\ \A s \in Sku : returned[o][s] \in {0, items[o][s]}
        /\ status[o] \in {"CAPTURED", "CONFIRMED", "PACKING"} => returned[o] = Nothing

(* The dispatch row prevents sending an order twice (README.md:142).       *)
AtMostOneParcel == \A o \in OrderId : parcels[o] <= 1

(* What the row does prevent: as long as no two calls for the order run at *)
(* the same time and no news of its parcel is lost (the courier's answer,  *)
(* a failing update after it, the process between the two), retries and    *)
(* repeated clicks, with whatever couriers, leave it at one parcel.        *)
OneParcelUnlessDoubt == \A o \in OrderId : parcels[o] > 1 => o \in doubtful

(* A call ends: each of its steps leaves it fewer to take (six at most),   *)
(* and nothing others do, with any faults, gives it more.                  *)
StepsLeft == [idle |-> 0, repair |-> 1, failed |-> 1, ship |-> 2, accepted |-> 3,
              send |-> 4, create |-> 5, update |-> 5, read |-> 6]

CallProgresses ==
    [][\A c \in Caller :
          pc[c] # "idle" /\ pc'[c] # pc[c] => StepsLeft[pc'[c]] < StepsLeft[pc[c]]]_vars
====
