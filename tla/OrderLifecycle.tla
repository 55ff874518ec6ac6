---- MODULE OrderLifecycle ----
(***************************************************************************)
(* What the shop is promised about an order, with no word on how it is     *)
(* stored: progress only moves forward, nothing is packed before it is     *)
(* confirmed, cancelling is possible only before shipping and is the only  *)
(* step that gives stock back, of each line of the order all or nothing;   *)
(* CANCELED and RETURNED are final. Orders.tla is shown to implement this. *)
(***************************************************************************)
EXTENDS Naturals

CONSTANTS OrderId,  \* identities of order rows
          Sku       \* the things stock is counted for

VARIABLES status,   \* [OrderId -> OrderStatus or "NONE"]
          items,    \* [OrderId -> units of each Sku the order is about]
          taken,    \* [OrderId -> of these, what its creation took from stock]
          returned  \* [OrderId -> of these, what its cancellation gave back]

vars == <<status, items, taken, returned>>

BeforeShipping == {"CAPTURED", "CONFIRMED", "PACKING"}
AfterShipping  == {"SHIPPED", "DELIVERED"}

Nothing == [s \in Sku |-> 0]

(* Of each thing all units or none. *)
SomeOf(units) == {part \in [Sku -> Nat] : \A s \in Sku : part[s] \in {0, units[s]}}

Init ==
    /\ status = [o \in OrderId |-> "NONE"]
    /\ items = [o \in OrderId |-> Nothing]
    /\ taken = [o \in OrderId |-> Nothing]
    /\ returned = [o \in OrderId |-> Nothing]

(* A new order, what it is about, and what of that it takes from stock.    *)
Capture(o) ==
    /\ status[o] = "NONE"
    /\ status' = [status EXCEPT ![o] = "CAPTURED"]
    /\ items'[o] \in [Sku -> Nat]
    /\ items' = [items EXCEPT ![o] = items'[o]]
    /\ taken'[o] \in SomeOf(items'[o])
    /\ taken' = [taken EXCEPT ![o] = taken'[o]]
    /\ UNCHANGED returned

(* Forward moves: confirmation first, then packing or shipping, then       *)
(* delivery. None of them touches stock.                                   *)
Advance(o) ==
    /\ \/ status[o] = "CAPTURED" /\ status'[o] = "CONFIRMED"
       \/ status[o] = "CONFIRMED" /\ status'[o] \in {"PACKING", "SHIPPED"}
       \/ status[o] = "PACKING" /\ status'[o] = "SHIPPED"
       \/ status[o] = "SHIPPED" /\ status'[o] = "DELIVERED"
    /\ status' = [status EXCEPT ![o] = status'[o]]
    /\ UNCHANGED <<items, taken, returned>>

Cancel(o) ==
    /\ status[o] \in BeforeShipping
    /\ status' = [status EXCEPT ![o] = "CANCELED"]
    /\ returned'[o] \in SomeOf(items[o])
    /\ returned' = [returned EXCEPT ![o] = returned'[o]]
    /\ UNCHANGED <<items, taken>>

Return(o) ==
    /\ status[o] \in AfterShipping
    /\ status' = [status EXCEPT ![o] = "RETURNED"]
    /\ UNCHANGED <<items, taken, returned>>

Next == \E o \in OrderId : Capture(o) \/ Advance(o) \/ Cancel(o) \/ Return(o)

Spec == Init /\ [][Next]_vars
====
