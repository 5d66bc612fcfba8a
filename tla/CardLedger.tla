----------------------------- MODULE CardLedger -----------------------------
(***************************************************************************)
(* What an activated gift card promises its holder, whatever happens       *)
(* inside the service: a balance that starts at the sats reserved for the  *)
(* card, goes down by exactly what is recorded as spent, one redemption at *)
(* a time, and is closed for good when it reaches zero.                    *)
(*                                                                         *)
(* RedeemCard is shown to implement this specification when a card lock    *)
(* outlives the request that took it.                                      *)
(***************************************************************************)
EXTENDS Integers

CONSTANTS Cards,    \* gift cards (rows of table cards)
          Face      \* sats reserved for each card when it became active

VARIABLES status,   \* cards.status
          sats,     \* cards.btc_amount_sats
          spent     \* SUM(btc_amount_sats) of the card's redeem transactions

vars == <<status, sats, spent>>

Init ==
  /\ status = [c \in Cards |-> "active"]
  /\ sats = Face
  /\ spent = [c \in Cards |-> 0]

\* A redemption of amount sats takes effect: it is recorded and debited in
\* one step, and the card that reaches zero is redeemed.
Spend(c, amount) ==
  /\ status[c] = "active"
  /\ amount > 0
  /\ amount <= sats[c]
  /\ sats' = [sats EXCEPT ![c] = @ - amount]
  /\ spent' = [spent EXCEPT ![c] = @ + amount]
  /\ status' = [status EXCEPT ![c] = IF sats[c] = amount THEN "redeemed" ELSE @]

Next == \E c \in Cards : \E amount \in 1..sats[c] : Spend(c, amount)

Spec == Init /\ [][Next]_vars
=============================================================================
