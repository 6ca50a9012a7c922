--------------------------- MODULE MCUsageBilling ---------------------------
EXTENDS UsageBilling, TLC
CONSTANTS h1, h2, r1, k1
TwoHandlers == {h1, h2}
OneRecoverer == {r1}
OneKey == {k1}
=============================================================================
