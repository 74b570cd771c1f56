------------------------------- MODULE MCShop -------------------------------
(* Instances of Shop for TLC. *)
EXTENDS Shop, TLC

CONSTANTS a, b, plush, bear, r1, r2, r3

OneUser == {a}
TwoUsers == {a, b}
OneProduct == {plush}
TwoProducts == {plush, bear}
TwoRequests == {r1, r2}
ThreeRequests == {r1, r2, r3}

NoInputs == {}
OnePrice == {1}
TwoPrices == {1, 3}
Inputs == [price : {3}, inventory : {0, 3}, active : {TRUE}]
          \cup [price : {1}, inventory : {2}, active : {FALSE}]

Upto2 == 0..2
Two == {2}

\* Users, products and requests are interchangeable.
Symmetry2 == Permutations(TwoUsers) \cup Permutations(TwoProducts)
             \cup Permutations(TwoRequests)
=============================================================================
