---------------------------- MODULE MCFrontDoor ----------------------------
(* Instances of FrontDoor for TLC. *)
EXTENDS FrontDoor, TLC

CONSTANTS r1, r2, ada, ann, ben

TwoRequests == {r1, r2}
Login == {"login"}
Warehouse == {"warehouse"}
OneClient == {ada}
\* No header, and one whose address is blank.
NoHeader == {<<>>}
BlankHeader == {<<Blank>>}
TwoAccounts == {ann, ben}
Symmetry == Permutations(TwoRequests) \cup Permutations(TwoAccounts)
AsTyped == [e \in TwoAccounts |-> e]
TwoTicks == [l \in Limiters |-> 2]
Few == [l \in Limiters |-> IF l = "account" THEN 1 ELSE 2]
TwoDays == {1, 2}
Halves == [t \in 0..3 |-> IF t < 2 THEN 1 ELSE 2]
Three == [l \in Limiters |-> 3]
=============================================================================
