------------------------------ MODULE CardLife ------------------------------
(***************************************************************************)
(* The life of a gift card as its buyer and the treasury see it.  The      *)
(* cards of an order are offered, and paid or given up, together; each     *)
(* becomes active once, with what its price is worth, and only if its      *)
(* order was paid; from then on only redemptions change it, and the one    *)
(* that leaves nothing closes it.                                          *)
(*                                                                         *)
(* GiftCards, the composition of the webshop and the funding worker, is    *)
(* shown to implement this specification.                                  *)
(***************************************************************************)
EXTENDS Integers

CONSTANTS
  Orders,   \* orders of gift cards
  Cards,    \* gift cards
  OrderOf,  \* the order each card belongs to
  Worth     \* the amounts a card may be funded with, in sats

VARIABLES
  order,    \* what the buyer has done about each order
  status,   \* blank, active or redeemed
  sats      \* what a card still holds

vars == <<order, status, sats>>

Init ==
  /\ order = [o \in Orders |-> "none"]
  /\ status = [c \in Cards |-> "blank"]
  /\ sats = [c \in Cards |-> 0]

Offer(o) ==
  /\ order[o] = "none"
  /\ order' = [order EXCEPT ![o] = "offered"]
  /\ UNCHANGED <<status, sats>>

Decide(o) ==
  /\ order[o] = "offered"
  /\ \E outcome \in {"paid", "lapsed"} : order' = [order EXCEPT ![o] = outcome]
  /\ UNCHANGED <<status, sats>>

Activate(c) ==
  /\ order[OrderOf[c]] = "paid"
  /\ status[c] = "blank"
  /\ status' = [status EXCEPT ![c] = "active"]
  /\ \E amount \in Worth[c] : sats' = [sats EXCEPT ![c] = amount]
  /\ UNCHANGED order

Redeem(c) ==
  /\ status[c] = "active"
  /\ \E amount \in 1..sats[c] :
       /\ sats' = [sats EXCEPT ![c] = @ - amount]
       /\ status' = [status EXCEPT ![c] = IF amount = sats[c] THEN "redeemed" ELSE @]
  /\ UNCHANGED order

Next ==
  \/ \E o \in Orders : Offer(o) \/ Decide(o)
  \/ \E c \in Cards : Activate(c) \/ Redeem(c)

Spec == Init /\ [][Next]_vars
=============================================================================
