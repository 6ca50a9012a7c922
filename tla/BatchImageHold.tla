--------------------------- MODULE BatchImageHold ---------------------------
(***************************************************************************)
(* The money of one image batch: its hold is reserved, and captured at the *)
(* actual cost or released.  Each of the three is a transaction that       *)
(* claims its own request id in usage_billing_dedup and does nothing when  *)
(* the id is claimed already.                                              *)
(***************************************************************************)
EXTENDS Integers, Sequences, SequencesExt

CONSTANTS
  Hold,     \* the amount of the hold
  Others    \* what other batches of the user hold

ASSUME HoldAssumption == Hold \in Nat \ {0} /\ Others \in Nat

VARIABLES
  balance, frozen,   \* the users row
  claims             \* the request ids claimed, in their order

money == <<balance, frozen, claims>>
Claims == {"hold", "capture", "release"}

HoldInit == balance \in 0..Hold /\ frozen = Others /\ claims = <<>>

Claimed(id) == id \in ToSet(claims)
Claim(id) == claims' = Append(claims, id)

ReserveHold ==
  /\ ~Claimed("hold") /\ balance >= Hold /\ Claim("hold")
  /\ balance' = balance - Hold /\ frozen' = frozen + Hold

\* The capture gives back what the batch did not use.  Only the frozen balance
\* is looked at, not whether this batch's hold is still part of it.
CanCapture(actual) == Claimed("capture") \/ (actual <= Hold /\ frozen >= Hold)

\* Mutant: a repeated capture is applied again.
CaptureAgain(actual) ==
  /\ Claim("capture")
  /\ balance' = balance + Hold - actual /\ frozen' = frozen - Hold

CaptureHold(actual) ==
  IF Claimed("capture") THEN UNCHANGED money ELSE
  /\ Claim("capture")
  /\ balance' = balance + Hold - actual /\ frozen' = frozen - Hold

\* Mutant: a hold that was never reserved is released too.
ReleasePhantom ==
  IF Claimed("release") THEN UNCHANGED money ELSE
  /\ Claim("release")
  /\ balance' = balance + Hold /\ frozen' = frozen - Hold

\* A hold that was not reserved is not released, but its release is claimed.
CanRelease == Claimed("release") \/ ~Claimed("hold") \/ frozen >= Hold
ReleaseHold ==
  IF Claimed("release") THEN UNCHANGED money ELSE
  /\ Claim("release")
  /\ IF Claimed("hold")
     THEN balance' = balance + Hold /\ frozen' = frozen - Hold
     ELSE UNCHANGED <<balance, frozen>>

\* The hold is reserved and nothing that was claimed later ended it.
Outstanding == claims # <<>> /\ Last(claims) = "hold"
=============================================================================
