---------------------------- MODULE MCGateSession ----------------------------
\* Two connections of one user.
EXTENDS GateSession, TLC

CONSTANTS c1, c2

=============================================================================
