------------------------- MODULE MCKillRateControl -------------------------
EXTENDS KillRateControl

CONSTANTS d1, d2, d3

TwoDeciders == {d1, d2}
ThreeDeciders == {d1, d2, d3}
BootTimes == {0, 2}
=============================================================================
