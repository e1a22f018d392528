-------------------------- MODULE MCHttpTransport --------------------------
EXTENDS HttpTransport

CONSTANTS c1, c2, c3

TwoCallers == {c1, c2}
ThreeCallers == {c1, c2, c3}
=============================================================================
