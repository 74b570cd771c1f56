------------------------------ MODULE MCSignIn ------------------------------
(* Instances of SignIn for TLC. *)
EXTENDS SignIn, TLC

CONSTANTS r1, r2, r3, r4, t1, t2, old, new

TwoRequests == {r1, r2}
ThreeRequests == {r1, r2, r3}
FourRequests == {r1, r2, r3, r4}
OneToken == {t1}
TwoTokens == {t1, t2}
OnePassword == {old}
TwoPasswords == {old, new}

\* Which handlers the browsers use.
SecondFactor == {"login", "totp_page", "totp", "cancel", "recover"}
Recovery == {"login", "totp", "recover", "page", "confirm", "disable"}
Reset == {"login", "totp", "logout", "reset"}
RecoveryAndReset == Recovery \cup Reset
Enrolling == {"login", "confirm"}
Resetting == {"login", "reset"}

\* The account at the start.
WithTOTP == {[enrolled |-> TRUE, pending |-> FALSE, legacy |-> FALSE]}
OldFormat == [enrolled : BOOLEAN, pending : {FALSE}, legacy : {TRUE}]
OldWithTOTP == {[enrolled |-> TRUE, pending |-> FALSE, legacy |-> TRUE]}
SettingUp == {[enrolled |-> FALSE, pending |-> TRUE, legacy |-> FALSE]}
AnyAccount == SettingUp \cup OldWithTOTP

\* Requests, reset tokens and passwords are interchangeable.
Symmetry4 == Permutations(FourRequests)
Symmetry3 == Permutations(ThreeRequests) \cup Permutations(TwoTokens)
             \cup Permutations(TwoPasswords)
=============================================================================
