---------------------------- MODULE MCTimerTests ----------------------------
EXTENDS TimerTests
=============================================================================
