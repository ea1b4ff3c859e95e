----------------------------- MODULE MCImReviews -----------------------------
EXTENDS ImReviews

CONSTANTS s1, s2, x1

Two == 1..2
TypedAndPressed == 1..3
Buttons == {2, 3}
First == {1}
Second == {2}
TwoSlots == {s1, s2}
OneSender == {x1}
Processes == {s1, s2, x1}
==============================================================================
