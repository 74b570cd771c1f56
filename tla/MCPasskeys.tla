----------------------------- MODULE MCPasskeys -----------------------------
(* Passkeys with two users, for TLC. *)
EXTENDS Passkeys, TLC

CONSTANTS a, b, k1, k2, c1, c2, login1, login2, register1

TwoUsers == {a, b}
TwoKeys == {k1, k2}
TwoChallenges == {c1, c2}
TwoLogins == {login1, login2}

Symmetry == Permutations(TwoUsers) \cup Permutations(TwoKeys)
               \cup Permutations(TwoChallenges) \cup Permutations(TwoLogins)
=============================================================================
