------------------------------- MODULE MCSeed -------------------------------
(* Seed with two users, for TLC. *)
EXTENDS Seed, TLC

CONSTANTS wendy, mabel, s1, s2, r1, r2, r3, seeded

TwoUsers == {wendy, mabel}
TwoServers == {s1, s2}
ThreeRequests == {r1, r2, r3}
OneReview == <<mabel>>
WendysSecret == [u \in TwoUsers |-> IF u = wendy THEN seeded ELSE None]

Symmetry3 == Permutations(TwoServers) \cup Permutations(ThreeRequests)
=============================================================================
