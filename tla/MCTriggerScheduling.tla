----------------------- MODULE MCTriggerScheduling -----------------------
EXTENDS TriggerScheduling

ThreeEvents == 1..3
OpenTwice == {1, 2, 4}
SomeTokens == 0..7
Stores == {"sqlite", "postgres"}
==========================================================================
