----------------------------- MODULE UsageLedger -----------------------------
(***************************************************************************)
(* What usage billing promises: the price of a request is fixed once, and  *)
(* the user pays that price at most once.                                  *)
(***************************************************************************)
EXTENDS Integers

CONSTANTS
  Keys,     \* requests (request id and API key)
  Costs     \* prices

VARIABLES
  price,    \* the price of each request, 0 before it is fixed
  charged,  \* what was taken off the balance for each request
  balance   \* the user's balance

ledger == <<price, charged, balance>>

Init ==
  /\ price = [k \in Keys |-> 0]
  /\ charged = [k \in Keys |-> 0]
  /\ balance \in Int

Fix(k) ==
  /\ price[k] = 0
  /\ \E c \in Costs : price' = [price EXCEPT ![k] = c]
  /\ UNCHANGED <<charged, balance>>

Charge(k) ==
  /\ price[k] # 0 /\ charged[k] = 0
  /\ charged' = [charged EXCEPT ![k] = price[k]]
  /\ balance' = balance - price[k]
  /\ UNCHANGED price

Next == \E k \in Keys : Fix(k) \/ Charge(k)

Spec == Init /\ [][Next]_ledger
=============================================================================
