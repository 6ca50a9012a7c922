--------------------------- MODULE MCPaymentRefund ---------------------------
(* Model values for checking PaymentRefund with TLC. *)
EXTENDS PaymentRefund, TLC

CONSTANTS a1, a2

OneAdmin == {a1}
TwoAdmins == {a1, a2}

\* Admins are interchangeable: no definition tells them apart.
AdminSymmetry == Permutations(Admins)
=============================================================================
