--------------------------- MODULE MCOAuthRefresh ---------------------------
(* Model values for checking OAuthRefresh with TLC. *)
EXTENDS OAuthRefresh

CONSTANTS r1, r2, a1

TwoRefreshers == {r1, r2}
OneAdmin == {a1}
=============================================================================
