------------------------ MODULE MCPaymentFulfillment ------------------------
(* Model values for checking PaymentFulfillment with TLC. *)
EXTENDS PaymentFulfillment

CONSTANTS w1, w2

TwoWorkers == {w1, w2}
=============================================================================
