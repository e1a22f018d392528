---------------------------- MODULE MCStopwatch ----------------------------
EXTENDS Stopwatch

CONSTANTS t1, t2

OneTask == {t1}
TwoTasks == {t1, t2}
TwoIds == {"a", "b"}
=============================================================================
