---------------------------- MODULE PaymentLedger ----------------------------
(***************************************************************************)
(* What paying for an order promises, whatever the handlers, errors and    *)
(* retries in between: the user's money arrives, then the order is granted *)
(* once, then its rebate is decided once, then it is settled for good.     *)
(***************************************************************************)
CONSTANT HasRebate  \* a rebate decision belongs to the order

VARIABLES paid, granted, rebated, settled

ledger == <<paid, granted, rebated, settled>>

Init == paid = FALSE /\ granted = FALSE /\ rebated = FALSE /\ settled = FALSE

Pay ==
  /\ ~paid /\ paid' = TRUE
  /\ UNCHANGED <<granted, rebated, settled>>

Grant ==
  /\ paid /\ ~granted /\ granted' = TRUE
  /\ UNCHANGED <<paid, rebated, settled>>

DecideRebate ==
  /\ HasRebate /\ granted /\ ~rebated /\ rebated' = TRUE
  /\ UNCHANGED <<paid, granted, settled>>

Settle ==
  /\ granted /\ (HasRebate => rebated) /\ ~settled /\ settled' = TRUE
  /\ UNCHANGED <<paid, granted, rebated>>

Next == Pay \/ Grant \/ DecideRebate \/ Settle

Spec == Init /\ [][Next]_ledger
=============================================================================
