----------------------------- MODULE MCAuthCache -----------------------------
(* Model values for checking AuthCache with TLC. *)
EXTENDS AuthCache

CONSTANTS s1, s2

TwoServers == {s1, s2}
=============================================================================
