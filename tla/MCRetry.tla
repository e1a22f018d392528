------------------------------ MODULE MCRetry ------------------------------
EXTENDS Retry

PositiveLimits == {1, 2, 3}
ZeroOrOne == {0, 1}
SmallUsizeMax == 1000
=============================================================================
