---------------------------- MODULE SignInProofs ----------------------------
(***************************************************************************)
(* Proofs about module SignIn, for every value of its constants.           *)
(***************************************************************************)
EXTENDS SignIn, FiniteSetTheorems, TLAPS

-----------------------------------------------------------------------------
(* The inductive invariant *)

\* A sign-in or a recovery shows a second factor, unless it is a login that
\* read the account without one.
FactorShown(r) == (kind[r] = "login" => row[r].hasTOTP) => evidence[r] # None

\* What is known of a request from the place its handler has reached.
Located(r) ==
    /\ pc[r] # "done" => reply[r] = "none"
    /\ sent[r] \in Requests => reply[sent[r]] = "totp_page"
    /\ pc[r] \in {"idle", "rehash", "secret", "verify", "consume",
                  "count", "code"} => evidence[r] = None
    /\ pc[r] = "rehash" =>
          /\ kind[r] \in {"login", "recover"}
          /\ typed[r] \in Passwords
          /\ row[r].legacy
    /\ pc[r] \in {"peek", "discard"} =>
          kind[r] \in {"totp_page", "totp"} /\ sent[r] \in Requests
    /\ pc[r] \in {"secret", "verify", "consume", "mistake"} =>
          kind[r] = "totp" /\ sent[r] \in Requests
    /\ pc[r] \in {"count", "deny", "code", "record"} => kind[r] = "recover"
    /\ pc[r] = "drop" =>
          /\ kind[r] \in {"login", "totp", "recover", "logout"}
          /\ kind[r] = "totp" => sent[r] \in Requests
          /\ kind[r] \in {"totp", "recover"} => evidence[r] # None
    /\ pc[r] = "challenge" => kind[r] = "login"
    /\ pc[r] = "start" =>
          /\ kind[r] \in {"login", "totp", "recover"}
          /\ kind[r] = "totp" =>
                sent[r] \in Requests /\ attempts[sent[r]] = 0
          /\ FactorShown(r)
    /\ pc[r] = "clear" =>
          /\ kind[r] \in {"recover", "disable"}
          /\ kind[r] = "recover" => evidence[r] # None
    /\ pc[r] = "disable" => kind[r] = "disable"
    /\ pc[r] = "reset" => kind[r] = "reset" /\ sent[r] \in Tokens
    /\ pc[r] = "record" \/ reply[r] = "signed_in" => session[r] # "none"
    /\ session[r] # "none" =>
          /\ pc[r] \in {"record", "done"}
          /\ FactorShown(r)
          /\ kind[r] = "totp" =>
                sent[r] \in Requests /\ attempts[sent[r]] = 0

Control == \A r \in Requests : Located(r)

-----------------------------------------------------------------------------
(* Type correctness *)

\* The tables and the requests start with the right types.
LEMMA TypeInit == Init => TypeOK
  BY NobodyIsNoName, AccountsAreUsers
     DEF Init, TypeOK, CodesOf, Places, Kinds, Replies, UserRows, None

\* Every action keeps them; one step per action.
LEMMA TypeStep == TypeOK /\ Control /\ [Next]_vars => TypeOK'
  <1> SUFFICES ASSUME TypeOK, Control, [Next]_vars PROVE TypeOK'
    OBVIOUS
  <1> USE DEF TypeOK, Arrives, Goes, Answers, vars, user, secret,
              credentials, world, local, history

  <1>1. ASSUME NEW r \in Requests, NEW c \in Cookies, NEW p \in Passwords,
               LoginRead(r, c, p)
        PROVE  TypeOK'
    <2>1. sent' \in [Requests -> Requests \cup Tokens \cup {Nobody}]
            /\ kind' \in [Requests -> Kinds]
      BY <1>1 DEF LoginRead, UserRow, NeedsRehash, Verify, Cookies,
         HeldChallenges, Kinds
    <2>2. UserRow \in UserRows
      BY DEF UserRow, UserRows
    <2>3. CASE p = password
      <3>1. /\ typed' = [typed EXCEPT ![r] = p]
            /\ row' = [row EXCEPT ![r] = UserRow]
            /\ readAt' = [readAt EXCEPT ![r] = resets]
            /\ pc' = [pc EXCEPT ![r] = IF legacy THEN "rehash" ELSE "drop"]
            /\ UNCHANGED <<world, secretRead, step, resets, born, evidence,
                           usedIn, reply>>
        BY <1>1, <2>3 DEF LoginRead, UserRow, NeedsRehash, Verify
      <3> QED
        BY <2>1, <2>2, <3>1 DEF Places
    <2>4. CASE p # password
      BY <1>1, <2>1, <2>4 DEF LoginRead, UserRow, NeedsRehash, Verify, Places,
         Replies
    <2> QED
      BY <2>3, <2>4
  <1>2. ASSUME NEW r \in Requests, Rehash(r) PROVE TypeOK'
    <2>1. typed[r] \in Passwords
      BY <1>2 DEF Rehash, UpdateUserPasswordHash, Control, Located
    <2> QED
      BY <1>2, <2>1 DEF Rehash, UpdateUserPasswordHash, Places
  <1>3. ASSUME NEW r \in Requests, DropChallenge(r) PROVE TypeOK'
    <2>1. attempts' \in [Requests -> Nat]
      BY <1>3 DEF DropChallenge, WithoutChallenge
    <2>2. kind[r] \in {"login", "totp", "recover", "logout"}
      BY <1>3 DEF DropChallenge, Control, Located
    <2>3. kind[r] # "logout" => AfterDrop(r) \in Places
      BY <2>2 DEF AfterDrop, Places
    <2>4. pc' \in [Requests -> Places] /\ reply' \in [Requests -> Replies]
      BY <1>3, <2>3 DEF DropChallenge, Places, Replies
    <2> QED
      BY <1>3, <2>1, <2>4 DEF DropChallenge
  <1>4. ASSUME NEW r \in Requests, CreateChallenge(r) PROVE TypeOK'
    BY <1>4, AttemptsArePositive DEF CreateChallenge,
       CreateTOTPLoginChallenge, Places, Replies
  <1>5. ASSUME NEW r \in Requests, StartSession(r) PROVE TypeOK'
    BY <1>5 DEF StartSession, CreateSession, Places, Replies
  <1>6. ASSUME NEW r \in Requests, NEW c \in Cookies,
               CodePageRead(r, c)
        PROVE  TypeOK'
    BY <1>6
       DEF CodePageRead, Cookies, HeldChallenges, HeldSessions, Kinds, Places,
           Replies
  <1>7. ASSUME NEW r \in Requests, NEW c \in Cookies,
               TOTPRead(r, c)
        PROVE  TypeOK'
    BY <1>7
       DEF TOTPRead, Cookies, HeldChallenges, HeldSessions, Kinds, Places,
           Replies
  <1>8. ASSUME NEW r \in Requests, NEW c \in Cookies,
               CancelTOTPLogin(r, c)
        PROVE  TypeOK'
    BY <1>8
       DEF CancelTOTPLogin, Cookies, HeldChallenges, HeldSessions, Kinds,
           WithoutChallenge, Places, Replies
  <1>9. ASSUME NEW r \in Requests, CodePage(r) PROVE TypeOK'
    BY <1>9 DEF CodePage, Places, Replies
  <1>10. ASSUME NEW r \in Requests, ReadSecret(r) PROVE TypeOK'
    BY <1>10 DEF ReadSecret, Places, Replies
  <1>11. ASSUME NEW r \in Requests, Discard(r) PROVE TypeOK'
    BY <1>11 DEF Discard, WithoutChallenge, Places, Replies
  <1>12. ASSUME NEW r \in Requests, VerifyCode(r) PROVE TypeOK'
    <2>1. step' \in [Requests -> Nat] /\ pc' \in [Requests -> Places]
      BY <1>12 DEF VerifyCode, Places
    <2> QED
      BY <1>12, <2>1 DEF VerifyCode
  <1>13. ASSUME NEW r \in Requests, ConsumeStep(r) PROVE TypeOK'
    <2>1. pc' \in [Requests -> Places] /\ lastStep' \in Nat
      BY <1>13 DEF ConsumeStep, ConsumeTOTPStep, Accepts, Refuses, Places
    <2>2. <<"step", secretRead[r], step[r]>> \in Steps
      BY DEF Steps
    <2>3. /\ evidence' \in [Requests -> Steps \cup Codes \cup {None}]
          /\ usedIn' \in [Requests -> Nat]
      BY <1>13, <2>2 DEF ConsumeStep, Accepts, Refuses
    <2>4. UNCHANGED <<user, secret, codes, failures, credentials, clock, local,
                      reply, resets, readAt, born>>
      BY <1>13 DEF ConsumeStep, Accepts, Refuses
    <2> QED
      BY <2>1, <2>3, <2>4
  <1>14. ASSUME NEW r \in Requests, RecordFailure(r) PROVE TypeOK'
    <2>1. sent[r] \in Requests
      BY <1>14 DEF RecordFailure, WithFailure, Control, Located
    <2>2. attempts' \in [Requests -> Nat]
      BY <1>14, <2>1 DEF RecordFailure, WithFailure
    <2> QED
      BY <1>14, <2>2 DEF RecordFailure, WithFailure, Places, Replies
  <1>15. ASSUME NEW r \in Requests, NEW c \in Cookies, NEW p \in Passwords,
               RecoverRead(r, c, p)
        PROVE  TypeOK'
    BY <1>15
       DEF RecoverRead, Verify, Cookies, HeldChallenges, HeldSessions, Kinds,
           UserRow, UserRows, Places, Replies
  <1>16. ASSUME NEW r \in Requests, RecoverCount(r) PROVE TypeOK'
    BY <1>16 DEF RecoverCount, NeedsRehash, Places, Replies
  <1>17. ASSUME NEW r \in Requests, Deny(r) PROVE TypeOK'
    BY <1>17 DEF Deny, Places, Replies
  <1>18. ASSUME NEW r \in Requests, ConsumeBackupCode(r) PROVE TypeOK'
    BY <1>18 DEF ConsumeBackupCode, ConsumeTOTPBackupCode, Steps, Codes,
       Places, Replies
  <1>19. ASSUME NEW r \in Requests, Clear(r) PROVE TypeOK'
    <2>1. pc' \in [Requests -> Places] /\ reply' \in [Requests -> Replies]
      BY <1>19 DEF Clear, DeleteTOTPLoginChallengesForUser,
         DeleteTOTPBackupCodesForUser, ClearTOTPSecrets, Places, Replies
    <2>2. attempts' \in [Requests -> Nat] /\ codes' \subseteq Nat \X Nat
      BY <1>19 DEF Clear, DeleteTOTPLoginChallengesForUser,
         DeleteTOTPBackupCodesForUser, ClearTOTPSecrets
    <2>3. enrolled' \in BOOLEAN /\ pending' \in BOOLEAN
      BY <1>19 DEF Clear, DeleteTOTPLoginChallengesForUser,
         DeleteTOTPBackupCodesForUser, ClearTOTPSecrets
    <2>4. lastStep' \in Nat /\ epoch' \in Nat
      BY <1>19 DEF Clear, DeleteTOTPLoginChallengesForUser,
         DeleteTOTPBackupCodesForUser, ClearTOTPSecrets
    <2>5. UNCHANGED <<user, failures, session, tokens, clock, local, history>>
      BY <1>19 DEF Clear, DeleteTOTPLoginChallengesForUser,
         DeleteTOTPBackupCodesForUser, ClearTOTPSecrets
    <2> QED
      BY <2>1, <2>2, <2>3, <2>4, <2>5
  <1>20. ASSUME NEW r \in Requests, RecordSuccess(r) PROVE TypeOK'
    BY <1>20 DEF RecordSuccess, Places, Replies
  <1>21. ASSUME NEW r \in Requests, NEW t \in Tokens,
               ResetRead(r, t)
        PROVE  TypeOK'
    BY <1>21
       DEF ResetRead, Cookies, HeldChallenges, HeldSessions, Kinds, Places,
           Replies
  <1>22. ASSUME NEW r \in Requests, NEW p \in Passwords,
               ResetPassword(r, p)
        PROVE  TypeOK'
    <2>1. /\ tokens' \in [Tokens -> {"none", "issued", "spent"}]
          /\ session' \in [Requests -> {"none", "active", "stale", "ended"}]
      BY <1>22 DEF ResetPassword, DeleteTOTPLoginChallengesForUser,
         RevokeUserSessions, UpdateUserPasswordHash,
         ConsumePasswordResetTokens
    <2>2. pc' \in [Requests -> Places] /\ reply' \in [Requests -> Replies]
      BY <1>22 DEF ResetPassword, DeleteTOTPLoginChallengesForUser,
         RevokeUserSessions, UpdateUserPasswordHash,
         ConsumePasswordResetTokens, Places, Replies
    <2>3. /\ password' \in Passwords /\ legacy' = FALSE /\ resets' \in Nat
          /\ attempts' \in [Requests -> Nat]
          /\ UNCHANGED <<secret, lastStep, codes, failures, clock, local,
                         readAt, born, evidence, usedIn>>
      BY <1>22 DEF ResetPassword, DeleteTOTPLoginChallengesForUser,
         RevokeUserSessions, UpdateUserPasswordHash,
         ConsumePasswordResetTokens
    <2> QED
      BY <2>1, <2>2, <2>3
  <1>23. ASSUME NEW r \in Requests, ResetRefused(r) PROVE TypeOK'
    BY <1>23 DEF ResetRefused, Places, Replies
  <1>24. ASSUME NEW r \in Requests, NEW s \in HeldSessions, NEW k \in Kinds,
               Authenticate(r, s, k)
        PROVE  TypeOK'
    <2>1. pc' \in [Requests -> Places] /\ reply' \in [Requests -> Replies]
      BY <1>24 DEF Authenticate, HasRecentAuthentication, Places, Replies
    <2>2. /\ kind' \in [Requests -> Kinds]
          /\ sent' \in [Requests -> Requests \cup Tokens \cup {Nobody}]
          /\ UNCHANGED <<world, typed, row, secretRead, step, history>>
      BY <1>24 DEF Authenticate, HasRecentAuthentication
    <2> QED
      BY <2>1, <2>2
  <1>25. ASSUME NEW r \in Requests, OpenPage(r) PROVE TypeOK'
    BY <1>25 DEF OpenPage, Places, Replies
  <1>26. ASSUME NEW r \in Requests, OpenPending(r) PROVE TypeOK'
    BY <1>26 DEF OpenPending, Places, Replies
  <1>27. ASSUME NEW r \in Requests, StartEnrollment(r) PROVE TypeOK'
    BY <1>27 DEF StartEnrollment, Places, Replies
  <1>28. ASSUME NEW r \in Requests, ConfirmRead(r) PROVE TypeOK'
    BY <1>28 DEF ConfirmRead, Places, Replies
  <1>29. ASSUME NEW r \in Requests, ConfirmEnrollment(r) PROVE TypeOK'
    <2>1. codes' \subseteq Nat \X Nat
      BY <1>29, CountsAreNatural DEF ConfirmEnrollment, ConfirmTOTPSecret,
         CodesOf
    <2>2. pc' \in [Requests -> Places] /\ reply' \in [Requests -> Replies]
      BY <1>29 DEF ConfirmEnrollment, ConfirmTOTPSecret, Places, Replies
    <2>3. enrolled' \in BOOLEAN /\ pending' \in BOOLEAN
      BY <1>29 DEF ConfirmEnrollment, ConfirmTOTPSecret
    <2>4. lastStep' \in Nat /\ epoch' \in Nat
      BY <1>29 DEF ConfirmEnrollment, ConfirmTOTPSecret
    <2>5. UNCHANGED <<user, failures, credentials, clock, local, history>>
      BY <1>29 DEF ConfirmEnrollment, ConfirmTOTPSecret
    <2> QED
      BY <2>1, <2>2, <2>3, <2>4, <2>5
  <1>30. ASSUME NEW r \in Requests, DisableRead(r) PROVE TypeOK'
    BY <1>30 DEF DisableRead, Places, Replies
  <1>31. ASSUME NEW r \in Requests, NEW s \in HeldSessions, NEW c \in Cookies,
               Logout(r, s, c)
        PROVE  TypeOK'
    BY <1>31
       DEF Logout, RevokeSession, Cookies, HeldChallenges, HeldSessions,
           Kinds, Places, Replies
  <1>32. ASSUME NEW r \in Requests, Fail(r) PROVE TypeOK'
    BY <1>32 DEF Fail, Places, Replies
  <1>33. ASSUME NEW r \in Requests, SessionAges(r) PROVE TypeOK'
    BY <1>33 DEF SessionAges
  <1>34. ASSUME NEW r \in Requests, ChallengeExpires(r) PROVE TypeOK'
    BY <1>34 DEF ChallengeExpires, WithoutChallenge
  <1>35. ASSUME NEW t \in Tokens, IssueToken(t) PROVE TypeOK'
    BY <1>35 DEF IssueToken, CreatePasswordResetToken
  <1>36. ASSUME NEW t \in Tokens, TokenExpires(t) PROVE TypeOK'
    BY <1>36 DEF TokenExpires
  <1>37. ASSUME FailureExpires PROVE TypeOK'
    BY <1>37 DEF FailureExpires
  <1>38. ASSUME Tick PROVE TypeOK'
    BY <1>38 DEF Tick
  <1>39. ASSUME UNCHANGED vars PROVE TypeOK'
    BY <1>39
  <1> HIDE DEF TypeOK, Arrives, Goes, Answers
  <1> QED
    <2>1. ASSUME NEW r \in Requests, SignsIn(r) PROVE TypeOK'
      BY <2>1, <1>1, <1>2, <1>3, <1>4, <1>5 DEF SignsIn
    <2>2. ASSUME NEW r \in Requests, Verifies(r) PROVE TypeOK'
      BY <2>2, <1>6, <1>7, <1>8, <1>9, <1>10, <1>11, <1>12, <1>13, <1>14
         DEF Verifies
    <2>3. ASSUME NEW r \in Requests, Recovers(r) PROVE TypeOK'
      BY <2>3, <1>15, <1>16, <1>17, <1>18, <1>19, <1>20 DEF Recovers
    <2>4. ASSUME NEW r \in Requests, Resets(r) PROVE TypeOK'
      BY <2>4, <1>21, <1>22, <1>23 DEF Resets
    <2>5. ASSUME NEW r \in Requests, Administers(r) PROVE TypeOK'
      BY <2>5, <1>24, <1>25, <1>26, <1>27, <1>28, <1>29, <1>30, <1>31
         DEF Administers
    <2>6. ASSUME TimePasses PROVE TypeOK'
      BY <2>6, <1>33, <1>34, <1>36, <1>37, <1>38 DEF TimePasses
    <2> QED
      BY <2>1, <2>2, <2>3, <2>4, <2>5, <2>6, <1>32, <1>35, <1>39 DEF Next

-----------------------------------------------------------------------------
(* Control *)

\* What a request has consumed is not nothing.
LEMMA EvidenceIsSome == \A k, e, n : <<k, e, n>> # None
  BY DEF None

\* Every action leaves each request where its handler would be.
LEMMA ControlStep == TypeOK /\ Control /\ [Next]_vars => Control'
  <1> SUFFICES ASSUME TypeOK, Control, [Next]_vars,
                      NEW x \in Requests
               PROVE  Located(x)'
    BY DEF Control
  <1> USE NobodyIsNoName
      DEF TypeOK, Control, Located, FactorShown, Arrives, Goes, Answers,
          vars, user, secret, credentials, world, local, history

  <1>1. ASSUME NEW r \in Requests, NEW c \in Cookies, NEW p \in Passwords,
               LoginRead(r, c, p)
        PROVE  Located(x)'
    BY <1>1
       DEF LoginRead, NeedsRehash, Verify, Cookies, HeldChallenges,
           HeldSessions, Kinds, UserRow, UserRows
  <1>2. ASSUME NEW r \in Requests, Rehash(r) PROVE Located(x)'
    BY <1>2 DEF Rehash, UpdateUserPasswordHash
  <1>3. ASSUME NEW r \in Requests, DropChallenge(r) PROVE Located(x)'
    BY <1>3 DEF DropChallenge, WithoutChallenge, AfterDrop
  <1>4. ASSUME NEW r \in Requests, CreateChallenge(r) PROVE Located(x)'
    BY <1>4, AttemptsArePositive DEF CreateChallenge, CreateTOTPLoginChallenge
  <1>5. ASSUME NEW r \in Requests, StartSession(r) PROVE Located(x)'
    BY <1>5 DEF StartSession, CreateSession
  <1>6. ASSUME NEW r \in Requests, NEW c \in Cookies,
               CodePageRead(r, c)
        PROVE  Located(x)'
    BY <1>6 DEF CodePageRead, Cookies, HeldChallenges, HeldSessions, Kinds
  <1>7. ASSUME NEW r \in Requests, NEW c \in Cookies,
               TOTPRead(r, c)
        PROVE  Located(x)'
    BY <1>7 DEF TOTPRead, Cookies, HeldChallenges, HeldSessions, Kinds
  <1>8. ASSUME NEW r \in Requests, NEW c \in Cookies,
               CancelTOTPLogin(r, c)
        PROVE  Located(x)'
    BY <1>8
       DEF CancelTOTPLogin, Cookies, HeldChallenges, HeldSessions, Kinds,
           WithoutChallenge
  <1>9. ASSUME NEW r \in Requests, CodePage(r) PROVE Located(x)'
    BY <1>9 DEF CodePage
  <1>10. ASSUME NEW r \in Requests, ReadSecret(r) PROVE Located(x)'
    BY <1>10 DEF ReadSecret
  <1>11. ASSUME NEW r \in Requests, Discard(r) PROVE Located(x)'
    BY <1>11 DEF Discard, WithoutChallenge
  <1>12. ASSUME NEW r \in Requests, VerifyCode(r) PROVE Located(x)'
    BY <1>12 DEF VerifyCode
  <1>13. ASSUME NEW r \in Requests, ConsumeStep(r) PROVE Located(x)'
    BY <1>13, EvidenceIsSome DEF ConsumeStep, ConsumeTOTPStep, Accepts, Refuses
  <1>14. ASSUME NEW r \in Requests, RecordFailure(r) PROVE Located(x)'
    BY <1>14 DEF RecordFailure, WithFailure
  <1>15. ASSUME NEW r \in Requests, NEW c \in Cookies, NEW p \in Passwords,
               RecoverRead(r, c, p)
        PROVE  Located(x)'
    BY <1>15
       DEF RecoverRead, Verify, Cookies, HeldChallenges, HeldSessions, Kinds,
           UserRow, UserRows
  <1>16. ASSUME NEW r \in Requests, RecoverCount(r) PROVE Located(x)'
    BY <1>16 DEF RecoverCount, NeedsRehash
  <1>17. ASSUME NEW r \in Requests, Deny(r) PROVE Located(x)'
    BY <1>17 DEF Deny
  <1>18. ASSUME NEW r \in Requests, ConsumeBackupCode(r) PROVE Located(x)'
    BY <1>18, EvidenceIsSome DEF ConsumeBackupCode, ConsumeTOTPBackupCode
  <1>19. ASSUME NEW r \in Requests, Clear(r) PROVE Located(x)'
    BY <1>19 DEF Clear, DeleteTOTPLoginChallengesForUser,
       DeleteTOTPBackupCodesForUser, ClearTOTPSecrets
  <1>20. ASSUME NEW r \in Requests, RecordSuccess(r) PROVE Located(x)'
    BY <1>20 DEF RecordSuccess
  <1>21. ASSUME NEW r \in Requests, NEW t \in Tokens,
               ResetRead(r, t)
        PROVE  Located(x)'
    BY <1>21 DEF ResetRead, Cookies, HeldChallenges, HeldSessions, Kinds
  <1>22. ASSUME NEW r \in Requests, NEW p \in Passwords,
               ResetPassword(r, p)
        PROVE  Located(x)'
    BY <1>22 DEF ResetPassword, DeleteTOTPLoginChallengesForUser,
       RevokeUserSessions, UpdateUserPasswordHash, ConsumePasswordResetTokens
  <1>23. ASSUME NEW r \in Requests, ResetRefused(r) PROVE Located(x)'
    BY <1>23 DEF ResetRefused
  <1>24. ASSUME NEW r \in Requests, NEW s \in HeldSessions, NEW k \in Kinds,
               Authenticate(r, s, k)
        PROVE  Located(x)'
    BY <1>24 DEF Authenticate, HasRecentAuthentication
  <1>25. ASSUME NEW r \in Requests, OpenPage(r) PROVE Located(x)'
    BY <1>25 DEF OpenPage
  <1>26. ASSUME NEW r \in Requests, OpenPending(r) PROVE Located(x)'
    BY <1>26 DEF OpenPending
  <1>27. ASSUME NEW r \in Requests, StartEnrollment(r) PROVE Located(x)'
    BY <1>27 DEF StartEnrollment
  <1>28. ASSUME NEW r \in Requests, ConfirmRead(r) PROVE Located(x)'
    BY <1>28 DEF ConfirmRead
  <1>29. ASSUME NEW r \in Requests, ConfirmEnrollment(r) PROVE Located(x)'
    BY <1>29 DEF ConfirmEnrollment, ConfirmTOTPSecret
  <1>30. ASSUME NEW r \in Requests, DisableRead(r) PROVE Located(x)'
    BY <1>30 DEF DisableRead
  <1>31. ASSUME NEW r \in Requests, NEW s \in HeldSessions, NEW c \in Cookies,
               Logout(r, s, c)
        PROVE  Located(x)'
    BY <1>31 DEF Logout, RevokeSession, Cookies, HeldChallenges, HeldSessions,
       Kinds
  <1>32. ASSUME NEW r \in Requests, Fail(r) PROVE Located(x)'
    BY <1>32 DEF Fail, InFlight
  <1>33. ASSUME NEW r \in Requests, SessionAges(r) PROVE Located(x)'
    BY <1>33 DEF SessionAges
  <1>34. ASSUME NEW r \in Requests, ChallengeExpires(r) PROVE Located(x)'
    BY <1>34 DEF ChallengeExpires, WithoutChallenge
  <1>35. ASSUME NEW t \in Tokens, IssueToken(t) PROVE Located(x)'
    BY <1>35 DEF IssueToken, CreatePasswordResetToken
  <1>36. ASSUME NEW t \in Tokens, TokenExpires(t) PROVE Located(x)'
    BY <1>36 DEF TokenExpires
  <1>37. ASSUME FailureExpires PROVE Located(x)'
    BY <1>37 DEF FailureExpires
  <1>38. ASSUME Tick PROVE Located(x)'
    BY <1>38 DEF Tick
  <1>39. ASSUME UNCHANGED vars PROVE Located(x)'
    BY <1>39
  <1> HIDE DEF TypeOK, Control, Located, Arrives, Goes, Answers
  <1> QED
    <2>1. ASSUME NEW r \in Requests, SignsIn(r) PROVE Located(x)'
      BY <2>1, <1>1, <1>2, <1>3, <1>4, <1>5 DEF SignsIn
    <2>2. ASSUME NEW r \in Requests, Verifies(r) PROVE Located(x)'
      BY <2>2, <1>6, <1>7, <1>8, <1>9, <1>10, <1>11, <1>12, <1>13, <1>14
         DEF Verifies
    <2>3. ASSUME NEW r \in Requests, Recovers(r) PROVE Located(x)'
      BY <2>3, <1>15, <1>16, <1>17, <1>18, <1>19, <1>20 DEF Recovers
    <2>4. ASSUME NEW r \in Requests, Resets(r) PROVE Located(x)'
      BY <2>4, <1>21, <1>22, <1>23 DEF Resets
    <2>5. ASSUME NEW r \in Requests, Administers(r) PROVE Located(x)'
      BY <2>5, <1>24, <1>25, <1>26, <1>27, <1>28, <1>29, <1>30, <1>31
         DEF Administers
    <2>6. ASSUME TimePasses PROVE Located(x)'
      BY <2>6, <1>33, <1>34, <1>36, <1>37, <1>38 DEF TimePasses
    <2> QED
      BY <2>1, <2>2, <2>3, <2>4, <2>5, <2>6, <1>32, <1>35, <1>39 DEF Next

-----------------------------------------------------------------------------
(* Steps and backup codes are consumed once *)

\* What has been consumed lies behind: the steps consumed in the present epoch,
\* of whichever secret, are at most lastStep, and used backup codes are no longer
\* in the table.
ConsumedBehind ==
    /\ \A r \in Requests, e, n \in Nat :
          evidence[r] = <<"step", e, n>> =>
              usedIn[r] <= epoch /\ (usedIn[r] = epoch => n <= lastStep)
    /\ \A r \in Requests, e, i \in Nat :
          evidence[r] = <<"code", e, i>> => e <= epoch /\ <<e, i>> \notin codes

Consumption ==
    ConsumedBehind /\ StepAcceptedOnce /\ OneRecoveryPerCode
    /\ UnusedCodesArePresent

\* The only actions that touch secrets, last steps, backup codes and evidence.
Consumer(r) ==
    ConsumeStep(r) \/ ConsumeBackupCode(r) \/ Clear(r) \/ ConfirmEnrollment(r)

\* Every step is a stutter for them or one of these actions.
LEMMA WhoConsumes ==
    ASSUME [Next]_vars
    PROVE  \/ UNCHANGED <<enrolled, epoch, lastStep, codes, evidence, usedIn>>
           \/ \E r \in Requests : Consumer(r)
  <1> DEFINE Same ==
        UNCHANGED <<enrolled, epoch, lastStep, codes, evidence, usedIn>>
  <1> USE DEF vars, world, user, secret, credentials, history
  <1>1. ASSUME NEW r \in Requests, SignsIn(r) PROVE Same
    BY <1>1
       DEF SignsIn, LoginRead, UserRow, NeedsRehash, Verify, Rehash,
           UpdateUserPasswordHash, DropChallenge, CreateChallenge,
           CreateTOTPLoginChallenge, StartSession, CreateSession
  <1>2. ASSUME NEW r \in Requests, Verifies(r) PROVE Same \/ Consumer(r)
    BY <1>2
       DEF Verifies, CodePageRead, TOTPRead, CancelTOTPLogin, CodePage,
           ReadSecret, Discard, VerifyCode, RecordFailure, WithFailure,
           Consumer
  <1>3. ASSUME NEW r \in Requests, Recovers(r) PROVE Same \/ Consumer(r)
    BY <1>3
       DEF Recovers, RecoverRead, Verify, RecoverCount, NeedsRehash, Deny,
           RecordSuccess, Consumer
  <1>4. ASSUME NEW r \in Requests, Resets(r) PROVE Same
    BY <1>4 DEF Resets, ResetRead, ResetPassword,
       DeleteTOTPLoginChallengesForUser, RevokeUserSessions,
       UpdateUserPasswordHash, ConsumePasswordResetTokens, ResetRefused
  <1>5. ASSUME NEW r \in Requests, Administers(r) PROVE Same \/ Consumer(r)
    BY <1>5
       DEF Administers, Authenticate, HasRecentAuthentication, OpenPage,
           OpenPending, StartEnrollment, ConfirmRead, DisableRead, Logout,
           RevokeSession, Consumer
  <1>6. ASSUME TimePasses PROVE Same
    BY <1>6
       DEF TimePasses, SessionAges, ChallengeExpires, TokenExpires,
           FailureExpires, Tick
  <1> QED
    BY <1>1, <1>2, <1>3, <1>4, <1>5, <1>6 DEF Next, Fail, IssueToken,
       CreatePasswordResetToken

\* Nothing is consumed at the start.
LEMMA ConsumptionInit == Init => Consumption
  BY CountsAreNatural
     DEF Init, Consumption, ConsumedBehind, StepAcceptedOnce,
         OneRecoveryPerCode, UnusedCodesArePresent, CodesOf, None, Steps, Codes

\* Consuming a step or a code consumes a new one; a new secret starts afresh.
LEMMA ConsumptionStep ==
    TypeOK /\ Control /\ Consumption /\ [Next]_vars => Consumption'
  <1> SUFFICES ASSUME TypeOK, Control, Consumption, [Next]_vars
               PROVE  Consumption'
    OBVIOUS
  <1> USE DEF Consumption
  <1>1. ASSUME UNCHANGED <<enrolled, epoch, lastStep, codes, evidence, usedIn>>
        PROVE  Consumption'
    BY <1>1
       DEF ConsumedBehind, StepAcceptedOnce, OneRecoveryPerCode,
           UnusedCodesArePresent, CodesOf
  <1>2. ASSUME NEW r \in Requests, ConsumeStep(r) PROVE Consumption'
    <2>1. CASE lastStep >= step[r]
      BY <1>1, <1>2, <2>1 DEF ConsumeStep, ConsumeTOTPStep, Refuses, TypeOK,
         secret
    <2>2. CASE lastStep < step[r]
      <3>1. /\ lastStep' = step[r]
            /\ evidence' = [evidence EXCEPT
                              ![r] = <<"step", secretRead[r], step[r]>>]
            /\ usedIn' = [usedIn EXCEPT ![r] = epoch]
            /\ UNCHANGED <<codes, epoch, enrolled>>
            /\ evidence[r] = None
        BY <1>2, <2>2 DEF ConsumeStep, ConsumeTOTPStep, Accepts, Refuses, TypeOK,
           Control, Located, secret
      <3>a. /\ evidence'[r] = <<"step", secretRead[r], step[r]>>
            /\ usedIn'[r] = epoch
            /\ \A s \in Requests \ {r} :
                  evidence'[s] = evidence[s] /\ usedIn'[s] = usedIn[s]
            /\ epoch \in Nat /\ secretRead[r] \in Nat
            /\ step[r] \in Nat /\ lastStep \in Nat
        BY <3>1 DEF TypeOK
      <3>2. ConsumedBehind'
        <4> SUFFICES ASSUME NEW s \in Requests, NEW e \in Nat, NEW n \in Nat
                     PROVE  /\ evidence'[s] = <<"step", e, n>> =>
                                  /\ usedIn'[s] <= epoch
                                  /\ usedIn'[s] = epoch => n <= step[r]
                            /\ evidence'[s] = <<"code", e, n>> =>
                                  e <= epoch /\ <<e, n>> \notin codes
          BY <3>1 DEF ConsumedBehind
        <4>1. CASE s = r
          BY <3>a, <4>1
        <4>2. CASE s # r
          BY <2>2, <3>a, <4>2 DEF ConsumedBehind
        <4> QED
          BY <4>1, <4>2
      <3>3. StepAcceptedOnce'
        <4>1. ASSUME NEW s \in Requests \ {r}, evidence'[s] = evidence'[r]
              PROVE  usedIn'[s] # usedIn'[r]
          BY <2>2, <3>a, <4>1 DEF ConsumedBehind
        <4> QED
          BY <3>a, <4>1 DEF StepAcceptedOnce
      <3>4. OneRecoveryPerCode'
        BY <3>1 DEF OneRecoveryPerCode, TypeOK, Codes
      <3>5. UnusedCodesArePresent'
        <4>1. \A c : \A s \in Requests :
                evidence'[s] = <<"code", c[1], c[2]>>
                  <=> evidence[s] = <<"code", c[1], c[2]>>
          BY <3>1, <3>a, EvidenceIsSome
        <4> QED
          BY <3>1, <4>1 DEF UnusedCodesArePresent, CodesOf
      <3> QED
        BY <3>2, <3>3, <3>4, <3>5
    <2> QED
      BY <2>1, <2>2 DEF TypeOK
  <1>3. ASSUME NEW r \in Requests, ConsumeBackupCode(r) PROVE Consumption'
    <2>1. CASE UNCHANGED <<codes, evidence>>
      BY <1>1, <1>3, <2>1 DEF ConsumeBackupCode, ConsumeTOTPBackupCode, secret
    <2>2. ASSUME NEW c \in codes, codes' = codes \ {c},
                 evidence' = [evidence EXCEPT ![r] = <<"code", c[1], c[2]>>]
          PROVE  Consumption'
      <3>1. /\ UNCHANGED <<lastStep, epoch, enrolled, usedIn>>
            /\ evidence[r] = None
        BY <1>3 DEF ConsumeBackupCode, ConsumeTOTPBackupCode, TypeOK, Control,
           Located, secret
      <3>2. PICK i \in 1..BackupCodeCount : c = <<epoch, i>>
        BY DEF UnusedCodesArePresent, CodesOf
      <3>3. evidence' = [evidence EXCEPT ![r] = <<"code", epoch, i>>]
        BY <2>2, <3>2
      <3>4. i \in Nat /\ epoch \in Nat
        BY CountsAreNatural DEF TypeOK
      <3>a. /\ evidence'[r] = <<"code", epoch, i>>
            /\ \A s \in Requests \ {r} : evidence'[s] = evidence[s]
        BY <3>3 DEF TypeOK
      <3>5. ConsumedBehind'
        <4> SUFFICES ASSUME NEW s \in Requests, NEW e \in Nat, NEW n \in Nat
                     PROVE  /\ evidence'[s] = <<"step", e, n>> =>
                                  /\ usedIn[s] <= epoch
                                  /\ usedIn[s] = epoch => n <= lastStep
                            /\ evidence'[s] = <<"code", e, n>> =>
                                  e <= epoch /\ <<e, n>> \notin codes'
          BY <3>1 DEF ConsumedBehind
        <4>1. CASE s = r
          BY <2>2, <3>2, <3>4, <3>a, <4>1
        <4>2. CASE s # r
          BY <2>2, <3>a, <4>2 DEF ConsumedBehind
        <4> QED
          BY <4>1, <4>2
      <3>6. StepAcceptedOnce'
        <4>1. evidence'[r] \notin Steps
          BY <3>a DEF Steps
        <4> QED
          BY <3>1, <3>a, <4>1 DEF StepAcceptedOnce
      <3>7. OneRecoveryPerCode'
        BY <3>2, <3>3, <3>4
           DEF ConsumedBehind, OneRecoveryPerCode, TypeOK, Codes
      <3>8. UnusedCodesArePresent'
        <4>1. ASSUME NEW d \in CodesOf(epoch)
              PROVE  (\E s \in Requests : evidence'[s] = <<"code", d[1], d[2]>>)
                       <=> \/ d = c
                           \/ \E s \in Requests :
                                 evidence[s] = <<"code", d[1], d[2]>>
          <5>1. d = c <=> <<"code", d[1], d[2]>> = <<"code", epoch, i>>
            BY <3>2 DEF CodesOf
          <5>2. evidence[r] # <<"code", d[1], d[2]>>
            BY <3>1, EvidenceIsSome
          <5> QED
            BY <3>a, <5>1, <5>2
        <4> QED
          BY <2>2, <3>1, <4>1 DEF UnusedCodesArePresent, CodesOf
      <3> QED
        BY <3>5, <3>6, <3>7, <3>8
    <2> QED
      BY <1>3, <2>1, <2>2 DEF ConsumeBackupCode, ConsumeTOTPBackupCode
  <1>4. ASSUME NEW r \in Requests, Clear(r) \/ ConfirmEnrollment(r)
        PROVE  Consumption'
    <2>1. /\ epoch' = epoch + 1 /\ lastStep' = 0
          /\ UNCHANGED <<evidence, usedIn>>
          /\ \/ codes' = {} /\ enrolled' = FALSE
             \/ codes' = CodesOf(epoch + 1)
      BY <1>4 DEF Clear, DeleteTOTPLoginChallengesForUser,
         DeleteTOTPBackupCodesForUser, ClearTOTPSecrets, ConfirmEnrollment,
         ConfirmTOTPSecret, history
    <2>2. StepAcceptedOnce' /\ OneRecoveryPerCode'
      BY <2>1 DEF StepAcceptedOnce, OneRecoveryPerCode
    <2>a. ConsumedBehind'
      <3>1. ASSUME NEW s \in Requests, NEW e \in Nat, NEW n \in Nat,
                   evidence[s] = <<"step", e, n>>
            PROVE  usedIn[s] <= epoch + 1 /\ usedIn[s] # epoch + 1
        <4>1. usedIn[s] \in Nat /\ epoch \in Nat
          BY DEF TypeOK
        <4>2. usedIn[s] <= epoch
          BY <3>1, Zenon DEF ConsumedBehind
        <4> QED
          BY <4>1, <4>2
      <3>2. ASSUME NEW s \in Requests, NEW e \in Nat, NEW n \in Nat,
                   evidence[s] = <<"code", e, n>>
            PROVE  e <= epoch + 1 /\ <<e, n>> \notin codes'
        BY <2>1, <3>2 DEF ConsumedBehind, CodesOf, TypeOK
      <3> QED
        BY <2>1, <3>1, <3>2 DEF ConsumedBehind
    <2>3. ASSUME NEW c \in CodesOf(epoch + 1), NEW s \in Requests
          PROVE  evidence[s] # <<"code", c[1], c[2]>>
      BY CountsAreNatural DEF CodesOf, ConsumedBehind, TypeOK
    <2>4. UnusedCodesArePresent'
      BY <2>1, <2>3 DEF UnusedCodesArePresent, CodesOf
    <2> QED
      BY <2>2, <2>a, <2>4
  <1> QED
    BY <1>1, <1>2, <1>3, <1>4, WhoConsumes DEF Consumer

-----------------------------------------------------------------------------
(* A challenge accounts for its attempts *)

RetriesCounted == \A c \in Requests : IsFiniteSet(Retried(c))

\* Every other action leaves the retries as they are and adds no attempts.
Uncounted ==
    /\ \A r \in Requests : reply'[r] = "retry" <=> reply[r] = "retry"
    /\ \A r \in Requests : reply[r] = "retry" => sent'[r] = sent[r]
    /\ \A c \in Requests : attempts'[c] \in Nat /\ attempts'[c] <= attempts[c]

\* Only a new challenge and a recorded mistake count.
LEMMA WhoCounts ==
    ASSUME TypeOK, Control, [Next]_vars
    PROVE  \/ Uncounted
           \/ \E r \in Requests : CreateChallenge(r) \/ RecordFailure(r)
  <1> USE DEF Uncounted, vars, world, user, secret, credentials, local, history,
              Arrives, Goes, Answers, WithoutChallenge, TypeOK, Control, Located
  <1>1. ASSUME NEW r \in Requests, SignsIn(r)
        PROVE  Uncounted \/ CreateChallenge(r)
    BY <1>1 DEF SignsIn, LoginRead, UserRow, NeedsRehash, Verify, Rehash,
       UpdateUserPasswordHash, DropChallenge, StartSession, CreateSession
  <1>2. ASSUME NEW r \in Requests, Verifies(r)
        PROVE  Uncounted \/ RecordFailure(r)
    BY <1>2
       DEF Verifies, CodePageRead, TOTPRead, CancelTOTPLogin, CodePage,
           ReadSecret, Discard, VerifyCode, ConsumeStep, ConsumeTOTPStep,
           Accepts, Refuses
  <1>3. ASSUME NEW r \in Requests, Recovers(r) PROVE Uncounted
    BY <1>3
       DEF Recovers, RecoverRead, Verify, RecoverCount, NeedsRehash, Deny,
           ConsumeBackupCode, ConsumeTOTPBackupCode, Clear,
           DeleteTOTPLoginChallengesForUser, DeleteTOTPBackupCodesForUser,
           ClearTOTPSecrets, RecordSuccess
  <1>4. ASSUME NEW r \in Requests, Resets(r) PROVE Uncounted
    BY <1>4 DEF Resets, ResetRead, ResetPassword,
       DeleteTOTPLoginChallengesForUser, RevokeUserSessions,
       UpdateUserPasswordHash, ConsumePasswordResetTokens, ResetRefused
  <1>5. ASSUME NEW r \in Requests, Administers(r) PROVE Uncounted
    BY <1>5
       DEF Administers, Authenticate, HasRecentAuthentication, OpenPage,
           OpenPending, StartEnrollment, ConfirmRead, ConfirmEnrollment,
           ConfirmTOTPSecret, DisableRead, Logout, RevokeSession
  <1>6. ASSUME TimePasses PROVE Uncounted
    BY <1>6
       DEF TimePasses, SessionAges, ChallengeExpires, TokenExpires,
           FailureExpires, Tick
  <1>7. ASSUME NEW r \in Requests, Fail(r) PROVE Uncounted
    BY <1>7 DEF Fail, InFlight
  <1> QED
    BY <1>1, <1>2, <1>3, <1>4, <1>5, <1>6, <1>7 DEF Next, IssueToken,
       CreatePasswordResetToken

\* There are no challenges at the start.
LEMMA AttemptsInit == Init => RetriesCounted /\ AttemptsAccounted
  <1> SUFFICES ASSUME Init, NEW c \in Requests
               PROVE  /\ IsFiniteSet(Retried(c))
                      /\ Cardinality(Retried(c)) + attempts[c]
                           <= ChallengeAttempts
                      /\ Cardinality(Retried(c)) < ChallengeAttempts
    BY DEF RetriesCounted, AttemptsAccounted
  <1>1. Retried(c) = {} /\ attempts[c] = 0
    BY DEF Init, Retried
  <1> QED
    BY <1>1, FS_EmptySet, AttemptsArePositive

\* A mistake turns an attempt into a retry, or ends the challenge.
LEMMA AttemptsStep ==
    TypeOK /\ Control /\ RetriesCounted /\ AttemptsAccounted /\ [Next]_vars
      => RetriesCounted' /\ AttemptsAccounted'
  <1> SUFFICES ASSUME TypeOK, Control, RetriesCounted, AttemptsAccounted,
                      [Next]_vars, NEW c \in Requests
               PROVE  /\ IsFiniteSet(Retried(c)')
                      /\ Cardinality(Retried(c)') + attempts'[c]
                           <= ChallengeAttempts
                      /\ Cardinality(Retried(c)') < ChallengeAttempts
    BY DEF RetriesCounted, AttemptsAccounted
  <1>1. /\ IsFiniteSet(Retried(c))
        /\ Cardinality(Retried(c)) \in Nat
        /\ Cardinality(Retried(c)) + attempts[c] <= ChallengeAttempts
        /\ Cardinality(Retried(c)) < ChallengeAttempts
        /\ attempts[c] \in Nat
        /\ ChallengeAttempts \in Nat
    BY FS_CardinalityType, AttemptsArePositive
       DEF RetriesCounted, AttemptsAccounted, TypeOK
  <1>2. CASE Uncounted
    <2>1. Retried(c)' = Retried(c)
      BY <1>2 DEF Retried, Uncounted
    <2>2. attempts'[c] \in Nat /\ attempts'[c] <= attempts[c]
      BY <1>2 DEF Uncounted
    <2> QED
      BY <1>1, <2>1, <2>2
  <1>3. ASSUME NEW r \in Requests, CreateChallenge(r)
        PROVE  /\ Retried(c)' = Retried(c)
               /\ \/ attempts'[c] = attempts[c]
                  \/ attempts'[c] = ChallengeAttempts /\ Retried(c) = {}
    <2>1. /\ reply[r] = "none" /\ UNCHANGED sent
          /\ reply' = [reply EXCEPT ![r] = "totp_page"]
          /\ attempts' = [attempts EXCEPT ![r] = ChallengeAttempts]
      BY <1>3 DEF CreateChallenge, CreateTOTPLoginChallenge, Answers, Control,
         Located, local
    <2>2. Retried(c)' = Retried(c)
      BY <2>1 DEF Retried, TypeOK
    <2>3. c = r => Retried(c) = {}
      BY <2>1 DEF Retried, Control, Located
    <2> QED
      BY <2>1, <2>2, <2>3 DEF TypeOK
  <1>4. ASSUME NEW r \in Requests, RecordFailure(r)
        PROVE  \/ Retried(c)' = Retried(c) /\ attempts'[c] \in Nat
                  /\ attempts'[c] <= attempts[c]
               \/ /\ Retried(c)' = Retried(c) \cup {r} /\ r \notin Retried(c)
                  /\ attempts[c] > 1 /\ attempts'[c] = attempts[c] - 1
    <2>1. /\ sent[r] \in Requests /\ reply[r] = "none" /\ UNCHANGED sent
          /\ attempts' = [attempts EXCEPT
                            ![sent[r]] = IF @ > 0 THEN @ - 1 ELSE 0]
          /\ reply' = IF attempts[sent[r]] > 1
                      THEN [reply EXCEPT ![r] = "retry"] ELSE reply
      BY <1>4 DEF RecordFailure, WithFailure, Answers, Goes, Control, Located,
         local
    <2>2. CASE sent[r] = c /\ attempts[c] > 1
      BY <2>1, <2>2 DEF Retried, TypeOK
    <2>3. CASE ~(sent[r] = c /\ attempts[c] > 1)
      <3>1. Retried(c)' = Retried(c)
        BY <2>1, <2>3 DEF Retried, TypeOK
      <3>2. attempts'[c] \in Nat /\ attempts'[c] <= attempts[c]
        BY <2>1, <1>1 DEF TypeOK
      <3> QED
        BY <3>1, <3>2
    <2> QED
      BY <2>2, <2>3
  <1>5. ASSUME NEW r \in Requests, Retried(c)' = Retried(c) \cup {r},
               r \notin Retried(c), attempts[c] > 1,
               attempts'[c] = attempts[c] - 1
        PROVE  /\ IsFiniteSet(Retried(c)')
               /\ Cardinality(Retried(c)') + attempts'[c] <= ChallengeAttempts
               /\ Cardinality(Retried(c)') < ChallengeAttempts
    <2>1. /\ IsFiniteSet(Retried(c)')
          /\ Cardinality(Retried(c)') = Cardinality(Retried(c)) + 1
      BY <1>1, <1>5, FS_AddElement
    <2> QED
      BY <1>1, <1>5, <2>1
  <1>6. ASSUME NEW r \in Requests, CreateChallenge(r) \/ RecordFailure(r)
        PROVE  /\ IsFiniteSet(Retried(c)')
               /\ Cardinality(Retried(c)') + attempts'[c] <= ChallengeAttempts
               /\ Cardinality(Retried(c)') < ChallengeAttempts
    <2>1. CASE CreateChallenge(r)
      BY <1>1, <1>3, <2>1, FS_EmptySet
    <2>2. CASE RecordFailure(r)
      BY <1>1, <1>4, <1>5, <2>2
    <2> QED
      BY <1>6, <2>1, <2>2
  <1> QED
    BY <1>2, <1>6, WhoCounts

-----------------------------------------------------------------------------
(* A reset retires what is older *)

\* Every other action creates nothing and counts no reset.
Lapsing ==
    /\ UNCHANGED <<born, resets>>
    /\ \A r \in Requests :
          /\ session'[r] \in {"active", "stale"} =>
                session[r] \in {"active", "stale"}
          /\ attempts'[r] > 0 => attempts[r] > 0
    /\ \A t \in Tokens : tokens'[t] = "issued" => tokens[t] = "issued"

Creator(r) ==
    \/ CreateChallenge(r) \/ StartSession(r)
    \/ \E p \in Passwords : ResetPassword(r, p)

\* Only these actions create, or reset.
LEMMA WhoCreates ==
    ASSUME TypeOK, Control, [Next]_vars
    PROVE  \/ Lapsing
           \/ \E r \in Requests : Creator(r)
           \/ \E t \in Tokens : IssueToken(t)
  <1> USE DEF Lapsing, vars, world, user, secret, credentials, local, history,
              WithoutChallenge, TypeOK
  <1>1. ASSUME NEW r \in Requests, SignsIn(r) PROVE Lapsing \/ Creator(r)
    BY <1>1 DEF SignsIn, LoginRead, UserRow, NeedsRehash, Verify, Rehash,
       UpdateUserPasswordHash, DropChallenge, Creator
  <1>2. ASSUME NEW r \in Requests, Verifies(r) PROVE Lapsing
    BY <1>2
       DEF Verifies, CodePageRead, TOTPRead, CancelTOTPLogin, CodePage,
           ReadSecret, Discard, VerifyCode, ConsumeStep, ConsumeTOTPStep,
           Accepts, Refuses, RecordFailure, WithFailure, Control, Located
  <1>3. ASSUME NEW r \in Requests, Recovers(r) PROVE Lapsing
    BY <1>3
       DEF Recovers, RecoverRead, Verify, RecoverCount, NeedsRehash, Deny,
           ConsumeBackupCode, ConsumeTOTPBackupCode, Clear,
           DeleteTOTPLoginChallengesForUser, DeleteTOTPBackupCodesForUser,
           ClearTOTPSecrets, RecordSuccess
  <1>4. ASSUME NEW r \in Requests, Resets(r) PROVE Lapsing \/ Creator(r)
    BY <1>4 DEF Resets, ResetRead, ResetRefused, Creator
  <1>5. ASSUME NEW r \in Requests, Administers(r) PROVE Lapsing
    BY <1>5
       DEF Administers, Authenticate, HasRecentAuthentication, OpenPage,
           OpenPending, StartEnrollment, ConfirmRead, ConfirmEnrollment,
           ConfirmTOTPSecret, DisableRead, Logout, RevokeSession
  <1>6. ASSUME TimePasses PROVE Lapsing
    BY <1>6
       DEF TimePasses, SessionAges, ChallengeExpires, TokenExpires,
           FailureExpires, Tick
  <1> QED
    BY <1>1, <1>2, <1>3, <1>4, <1>5, <1>6 DEF Next, Fail

\* What is created carries the present number of resets.
LEMMA RetirementStep ==
    TypeOK /\ Control /\ ResetRetiresAll /\ [Next]_vars => ResetRetiresAll'
  <1> SUFFICES ASSUME TypeOK, Control, ResetRetiresAll, [Next]_vars
               PROVE  ResetRetiresAll'
    OBVIOUS
  <1> USE DEF TypeOK, ResetRetiresAll
  <1>1. CASE Lapsing
    BY <1>1 DEF Lapsing
  <1>2. ASSUME NEW r \in Requests, CreateChallenge(r) PROVE ResetRetiresAll'
    BY <1>2, NobodyIsNoName DEF CreateChallenge, CreateTOTPLoginChallenge
  <1>3. ASSUME NEW r \in Requests, StartSession(r) PROVE ResetRetiresAll'
    BY <1>3, NobodyIsNoName DEF StartSession, CreateSession
  <1>4. ASSUME NEW r \in Requests, NEW p \in Passwords, ResetPassword(r, p)
        PROVE  ResetRetiresAll'
    BY <1>4 DEF ResetPassword, DeleteTOTPLoginChallengesForUser,
       RevokeUserSessions, UpdateUserPasswordHash, ConsumePasswordResetTokens
  <1>5. ASSUME NEW t \in Tokens, IssueToken(t) PROVE ResetRetiresAll'
    BY <1>5, NobodyIsNoName DEF IssueToken, CreatePasswordResetToken
  <1> QED
    BY <1>1, <1>2, <1>3, <1>4, <1>5, WhoCreates DEF Creator

-----------------------------------------------------------------------------
(* A rehash puts back what was verified *)

\* Only before the first reset is the hash in the old format, so a rehash
\* stores the present password or overlaps a reset.
Rehashes ==
    /\ resets > 0 => ~legacy
    /\ \A r \in Requests :
          /\ readAt[r] <= resets
          /\ row[r].legacy => readAt[r] = 0
          /\ pc[r] \in {"count", "rehash"} /\ typed[r] # Wrong /\ row[r].legacy
                => typed[r] = password \/ resets > 0

\* Every other action leaves the row alone, and what requests read of it.
Unread ==
    /\ UNCHANGED <<password, legacy, resets, readAt, row, typed>>
    /\ \A r \in Requests :
          pc'[r] \in {"count", "rehash"} => pc[r] \in {"count", "rehash"}

Reader(r) ==
    \/ \E c \in Cookies, p \in Passwords :
          LoginRead(r, c, p) \/ RecoverRead(r, c, p)
    \/ Rehash(r)
    \/ \E p \in Passwords : ResetPassword(r, p)

\* Only these actions change the password or what is read of it.
LEMMA WhoReads ==
    ASSUME TypeOK, Control, [Next]_vars
    PROVE  Unread \/ \E r \in Requests : Reader(r)
  <1> USE DEF Unread, vars, world, user, secret, credentials, local, history,
              Goes, Answers, TypeOK
  <1>1. ASSUME NEW r \in Requests, SignsIn(r) PROVE Unread \/ Reader(r)
    BY <1>1
       DEF SignsIn, DropChallenge, CreateChallenge, CreateTOTPLoginChallenge,
           StartSession, CreateSession, AfterDrop, Control, Located, Reader
  <1>2. ASSUME NEW r \in Requests, Verifies(r) PROVE Unread
    BY <1>2
       DEF Verifies, CodePageRead, TOTPRead, CancelTOTPLogin, CodePage,
           ReadSecret, Discard, VerifyCode, ConsumeStep, ConsumeTOTPStep,
           Accepts, Refuses, RecordFailure, WithFailure
  <1>3. ASSUME NEW r \in Requests, Recovers(r) PROVE Unread \/ Reader(r)
    BY <1>3
       DEF Recovers, RecoverCount, NeedsRehash, Deny, ConsumeBackupCode,
           ConsumeTOTPBackupCode, Clear, DeleteTOTPLoginChallengesForUser,
           DeleteTOTPBackupCodesForUser, ClearTOTPSecrets, RecordSuccess,
           Reader
  <1>4. ASSUME NEW r \in Requests, Resets(r) PROVE Unread \/ Reader(r)
    BY <1>4 DEF Resets, ResetRead, ResetRefused, Reader
  <1>5. ASSUME NEW r \in Requests, Administers(r) PROVE Unread
    BY <1>5
       DEF Administers, Authenticate, HasRecentAuthentication, OpenPage,
           OpenPending, StartEnrollment, ConfirmRead, ConfirmEnrollment,
           ConfirmTOTPSecret, DisableRead, Logout, RevokeSession
  <1>6. ASSUME TimePasses PROVE Unread
    BY <1>6
       DEF TimePasses, SessionAges, ChallengeExpires, TokenExpires,
           FailureExpires, Tick
  <1> QED
    BY <1>1, <1>2, <1>3, <1>4, <1>5, <1>6 DEF Next, Fail, IssueToken,
       CreatePasswordResetToken

\* A rehash that changes the password overlaps a reset.
LEMMA RehashesStep ==
    TypeOK /\ Control /\ Rehashes /\ [Next]_vars => Rehashes'
  <1> SUFFICES ASSUME TypeOK, Control, Rehashes, [Next]_vars
               PROVE  Rehashes'
    OBVIOUS
  <1> USE DEF TypeOK, Rehashes, UserRow
  <1>1. CASE Unread
    BY <1>1 DEF Unread
  <1>2. ASSUME NEW r \in Requests, NEW c \in Cookies, NEW p \in Passwords,
               LoginRead(r, c, p)
        PROVE  Rehashes'
    BY <1>2 DEF LoginRead, UserRow, NeedsRehash, Verify, Goes, Answers, world,
       user
  <1>3. ASSUME NEW r \in Requests, NEW c \in Cookies, NEW p \in Passwords,
               RecoverRead(r, c, p)
        PROVE  Rehashes'
    BY <1>3 DEF RecoverRead, Verify, Goes, world, user
  <1>4. ASSUME NEW r \in Requests, Rehash(r) PROVE Rehashes'
    <2>1. /\ typed[r] # Wrong /\ row[r].legacy
          /\ password' = typed[r] /\ legacy' = FALSE
          /\ UNCHANGED <<resets, readAt, row, typed>>
      BY <1>4, WrongIsNoPassword DEF Rehash, UpdateUserPasswordHash, Control,
         Located, local, history
    <2>2. \A s \in Requests :
             pc'[s] \in {"count", "rehash"} => pc'[s] = pc[s]
      BY <1>4 DEF Rehash, UpdateUserPasswordHash, Goes
    <2>3. password' = password \/ resets > 0
      BY <1>4, <2>1 DEF Rehash, UpdateUserPasswordHash
    <2> QED
      BY <2>1, <2>2, <2>3
  <1>5. ASSUME NEW r \in Requests, NEW p \in Passwords, ResetPassword(r, p)
        PROVE  Rehashes'
    BY <1>5 DEF ResetPassword, DeleteTOTPLoginChallengesForUser,
       RevokeUserSessions, UpdateUserPasswordHash, ConsumePasswordResetTokens,
       Answers, local
  <1> QED
    BY <1>1, <1>2, <1>3, <1>4, <1>5, WhoReads DEF Reader

\* A step that changes the password is a reset, or such a rehash.
LEMMA RehashKeeps ==
    ASSUME TypeOK, Control, Rehashes, [Next]_vars, password' # password
    PROVE  \/ resets' = resets + 1
           \/ \E r \in Requests :
                 pc[r] = "rehash" /\ pc'[r] # "rehash" /\ readAt[r] < resets
  <1>1. ASSUME NEW r \in Requests, Rehash(r)
        PROVE  pc[r] = "rehash" /\ pc'[r] # "rehash" /\ readAt[r] < resets
    <2>1. pc[r] = "rehash" /\ pc'[r] # "rehash" /\ password' = typed[r]
      BY <1>1 DEF Rehash, UpdateUserPasswordHash, Goes, TypeOK
    <2>2. typed[r] # Wrong /\ row[r].legacy
      BY <2>1, WrongIsNoPassword DEF Control, Located
    <2> QED
      BY <2>1, <2>2 DEF Rehashes, TypeOK
  <1>2. ~Unread
    BY DEF Unread
  <1>3. ASSUME NEW r \in Requests, NEW c \in Cookies, NEW p \in Passwords,
               LoginRead(r, c, p) \/ RecoverRead(r, c, p)
        PROVE  FALSE
    BY <1>3 DEF LoginRead, UserRow, NeedsRehash, Verify, RecoverRead, world,
       user
  <1>4. ASSUME NEW r \in Requests, NEW p \in Passwords, ResetPassword(r, p)
        PROVE  resets' = resets + 1
    BY <1>4 DEF ResetPassword, DeleteTOTPLoginChallengesForUser,
       RevokeUserSessions, UpdateUserPasswordHash, ConsumePasswordResetTokens
  <1> QED
    BY <1>1, <1>2, <1>3, <1>4, WhoReads DEF Reader

-----------------------------------------------------------------------------
(* The inductive invariant, and what follows from it *)

IInv ==
    /\ TypeOK
    /\ Control
    /\ Consumption
    /\ RetriesCounted
    /\ AttemptsAccounted
    /\ ResetRetiresAll
    /\ Rehashes

\* Every reachable state satisfies the inductive invariant.
THEOREM Invariance == Spec => []IInv
  <1>1. Init => IInv
    <2> SUFFICES ASSUME Init PROVE IInv
      OBVIOUS
    <2>1. TypeOK
      BY TypeInit
    <2>2. Control
      BY NobodyIsNoName DEF Init, Control, Located, FactorShown, None
    <2>3. ResetRetiresAll
      BY NobodyIsNoName DEF Init, ResetRetiresAll
    <2>4. Rehashes
      BY DEF Init, Rehashes
    <2> QED
      BY <2>1, <2>2, <2>3, <2>4, ConsumptionInit, AttemptsInit DEF IInv
  <1>2. IInv /\ [Next]_vars => IInv'
    BY TypeStep, ControlStep, ConsumptionStep, AttemptsStep, RetirementStep,
       RehashesStep
       DEF IInv
  <1> QED
    BY <1>1, <1>2, PTL DEF Spec

\* Every variable keeps its type, whatever the sizes and limits.
THEOREM TypeCorrect == Spec => []TypeOK
  BY Invariance, PTL DEF IInv

\* A code of the authenticator is accepted once in an epoch, of however many
\* requests, and whichever secrets they have read.
THEOREM StepsOnce == Spec => []StepAcceptedOnce
  <1>1. IInv => StepAcceptedOnce
    BY DEF IInv, Consumption
  <1> QED
    BY <1>1, Invariance, PTL

\* A backup code is used once, and the codes in the table are the unused ones of
\* the present secret.
THEOREM BackupCodesMatch == Spec => []BackupCodesAccounted
  <1>1. IInv => BackupCodesAccounted
    BY DEF IInv, Consumption, BackupCodesAccounted
  <1> QED
    BY <1>1, Invariance, PTL

\* A challenge is answered with another try less often than it has attempts.
THEOREM AttemptsBounded == Spec => []AttemptsAccounted
  BY Invariance, PTL DEF IInv

\* A session rests on a second factor, or on a login that read none, and the
\* challenge that led to it is gone.
THEOREM SessionsEarned == Spec => []SessionsAreEarned
  <1>1. IInv => SessionsAreEarned
    BY DEF IInv, Control, Located, FactorShown, SessionsAreEarned
  <1> QED
    BY <1>1, Invariance, PTL

\* Nothing created before the last reset still works.
THEOREM ResetsRetire == Spec => []ResetRetiresAll
  BY Invariance, PTL DEF IInv

\* Only a reset, or a login that overlaps one, changes the password.
THEOREM RehashesKeep == Spec => RehashKeepsPassword
  <1>1. IInv /\ [Next]_vars =>
          [ password' # password =>
              \/ resets' = resets + 1
              \/ \E r \in Requests :
                    pc[r] = "rehash" /\ pc'[r] # "rehash"
                      /\ readAt[r] < resets ]_vars
    BY RehashKeeps DEF IInv
  <1> QED
    BY <1>1, Invariance, PTL DEF Spec, RehashKeepsPassword

-----------------------------------------------------------------------------
(* Steps, backup codes and reset links are vouchers *)

\* Every other action gives nobody a session or a new password, and lets no
\* time pass for steps or tokens.
Untraded ==
    /\ UNCHANGED <<tokens, clock>>
    /\ \A r \in Requests :
          /\ session'[r] = "none" <=> session[r] = "none"
          /\ kind'[r] = "reset" /\ reply'[r] = "password_changed"
                <=> kind[r] = "reset" /\ reply[r] = "password_changed"
          /\ kind[r] = "reset" /\ reply[r] = "password_changed" =>
                sent'[r] = sent[r]

Trader(r) == StartSession(r) \/ \E p \in Passwords : ResetPassword(r, p)

\* Only these actions give somebody a session or a new password.
LEMMA WhoTrades ==
    ASSUME TypeOK, Control, [Next]_vars
    PROVE  \/ Untraded
           \/ \E r \in Requests : Trader(r)
           \/ \E t \in Tokens : IssueToken(t) \/ TokenExpires(t)
           \/ Tick
  <1> USE DEF Untraded, vars, world, user, secret, credentials, local, history,
              Goes, Answers, Arrives, TypeOK, Control, Located
  <1>1. ASSUME NEW r \in Requests, SignsIn(r) PROVE Untraded \/ Trader(r)
    BY <1>1
       DEF SignsIn, LoginRead, Rehash, DropChallenge, CreateChallenge, Trader
  <1>2. ASSUME NEW r \in Requests, Verifies(r) PROVE Untraded
    BY <1>2
       DEF Verifies, CodePageRead, TOTPRead, CancelTOTPLogin, CodePage,
           ReadSecret, Discard, VerifyCode, ConsumeStep, Accepts, Refuses,
           RecordFailure
  <1>3. ASSUME NEW r \in Requests, Recovers(r) PROVE Untraded
    BY <1>3
       DEF Recovers, RecoverRead, RecoverCount, Deny, ConsumeBackupCode,
           Clear, RecordSuccess
  <1>4. ASSUME NEW r \in Requests, Resets(r) PROVE Untraded \/ Trader(r)
    BY <1>4 DEF Resets, ResetRead, ResetRefused, Trader
  <1>5. ASSUME NEW r \in Requests, Administers(r) PROVE Untraded
    BY <1>5
       DEF Administers, Authenticate, OpenPage, OpenPending, StartEnrollment,
           ConfirmRead, ConfirmEnrollment, DisableRead, Logout, RevokeSession,
           HeldSessions
  <1>6. ASSUME NEW r \in Requests, Fail(r) PROVE Untraded
    BY <1>6 DEF Fail, InFlight
  <1>7. ASSUME TimePasses
        PROVE  Untraded \/ Tick \/ \E t \in Tokens : TokenExpires(t)
    BY <1>7 DEF TimePasses, SessionAges, ChallengeExpires, FailureExpires
  <1> QED
    BY <1>1, <1>2, <1>3, <1>4, <1>5, <1>6, <1>7 DEF Next

\* A code is checked in a step whose time has come.
StepsHavePassed == \A r \in Requests : step[r] <= clock

\* VerifyCode picks such a step, and the clock never goes back.
LEMMA StepsHavePassedStep ==
    TypeOK /\ StepsHavePassed /\ [Next]_vars => StepsHavePassed'
  <1> SUFFICES ASSUME TypeOK, StepsHavePassed, [Next]_vars PROVE StepsHavePassed'
    OBVIOUS
  <1> USE DEF StepsHavePassed, vars, world, user, secret, credentials, local,
              history, TypeOK
  <1>1. ASSUME NEW r \in Requests, SignsIn(r) PROVE UNCHANGED <<step, clock>>
    BY <1>1 DEF SignsIn, LoginRead, Rehash, DropChallenge, CreateChallenge,
       StartSession
  <1>2. ASSUME NEW r \in Requests, VerifyCode(r) PROVE StepsHavePassed'
    BY <1>2 DEF VerifyCode
  <1>3. ASSUME NEW r \in Requests, Verifies(r)
        PROVE  UNCHANGED <<step, clock>> \/ VerifyCode(r)
    BY <1>3
       DEF Verifies, CodePageRead, TOTPRead, CancelTOTPLogin, CodePage,
           ReadSecret, Discard, ConsumeStep, Accepts, Refuses, RecordFailure
  <1>4. ASSUME NEW r \in Requests, Recovers(r) PROVE UNCHANGED <<step, clock>>
    BY <1>4
       DEF Recovers, RecoverRead, RecoverCount, Deny, ConsumeBackupCode,
           Clear, RecordSuccess
  <1>5. ASSUME NEW r \in Requests, Resets(r) PROVE UNCHANGED <<step, clock>>
    BY <1>5 DEF Resets, ResetRead, ResetPassword, ResetRefused
  <1>6. ASSUME NEW r \in Requests, Administers(r) PROVE UNCHANGED <<step, clock>>
    BY <1>6
       DEF Administers, Authenticate, OpenPage, OpenPending, StartEnrollment,
           ConfirmRead, ConfirmEnrollment, DisableRead, Logout
  <1>7. ASSUME TimePasses PROVE UNCHANGED <<step, clock>> \/ Tick
    BY <1>7
       DEF TimePasses, SessionAges, ChallengeExpires, TokenExpires, FailureExpires
  <1>8. ASSUME Tick PROVE StepsHavePassed'
    BY <1>8 DEF Tick
  <1> QED
    BY <1>1, <1>2, <1>3, <1>4, <1>5, <1>6, <1>7, <1>8 DEF Next, Fail, IssueToken

\* It holds in every state.
LEMMA StepsInvariance == Spec => []StepsHavePassed
  <1>1. Init => StepsHavePassed
    BY DEF Init, StepsHavePassed
  <1>2. IInv => TypeOK
    BY DEF IInv
  <1> QED
    BY <1>1, <1>2, StepsHavePassedStep, Invariance, PTL DEF Spec

\* What is given out, and what can be used, kind by kind.
IsStep(v, e, ns) == \E n \in ns : v = <<"step", e, n>>
IsCode(v, cs) == \E c \in cs : v = <<"code", c[1], c[2]>>
IsToken(v, ts) == \E t \in ts : v = <<"token", t>>

Given(ts) == {t \in Tokens : ts[t] # "none"}
Good(ts) == {t \in Tokens : ts[t] = "issued"}

\* Membership in a product, for the provers.
LEMMA Triples ==
    ASSUME NEW k, NEW es, NEW ns
    PROVE  \A v : v \in {k} \X es \X ns <=> \E e \in es, n \in ns : v = <<k, e, n>>
  OBVIOUS

\* The same for pairs.
LEMMA Pairs ==
    ASSUME NEW k, NEW ts
    PROVE  \A v : v \in {k} \X ts <=> \E t \in ts : v = <<k, t>>
  OBVIOUS

\* The same in the words of a step, a code and a link.
LEMMA StepsAndCodes ==
    ASSUME NEW es, NEW ns, NEW ts, NEW v
    PROVE  /\ v \in {"step"} \X es \X ns <=> \E e \in es : IsStep(v, e, ns)
           /\ v \in {"code"} \X es \X ns <=> IsCode(v, es \X ns)
           /\ v \in {"token"} \X ts <=> IsToken(v, ts)
  <1>1. v \in {"step"} \X es \X ns <=> \E e \in es, n \in ns : v = <<"step", e, n>>
    BY Triples
  <1>2. IsCode(v, es \X ns) => \E e \in es, n \in ns : v = <<"code", e, n>>
    BY DEF IsCode
  <1>3. ASSUME NEW e \in es, NEW n \in ns, v = <<"code", e, n>>
        PROVE  IsCode(v, es \X ns)
    <2>1. <<e, n>> \in es \X ns /\ <<e, n>>[1] = e /\ <<e, n>>[2] = n
      OBVIOUS
    <2> QED BY <1>3, <2>1 DEF IsCode
  <1>4. v \in {"code"} \X es \X ns <=> \E e \in es, n \in ns : v = <<"code", e, n>>
    BY Triples
  <1>5. v \in {"token"} \X ts <=> \E t \in ts : v = <<"token", t>>
    BY Pairs
  <1>6. v \in {"step"} \X es \X ns <=> \E e \in es : IsStep(v, e, ns)
    BY <1>1, Zenon DEF IsStep
  <1>7. v \in {"token"} \X ts <=> IsToken(v, ts)
    BY <1>5, Zenon DEF IsToken
  <1> QED BY <1>2, <1>3, <1>4, <1>6, <1>7

IssuedByKind ==
    \A v : v \in Issued <=>
              \/ \E e \in 0..epoch : IsStep(v, e, 1..clock)
              \/ IsCode(v, (0..epoch) \X (1..BackupCodeCount))
              \/ IsToken(v, Given(tokens))

UsableByKind ==
    \A v : v \in Usable <=>
              \/ IsStep(v, epoch, (lastStep + 1)..clock)
              \/ IsCode(v, codes)
              \/ IsToken(v, Good(tokens))

\* What was given out is a step that has begun, a code of this or an earlier
\* secret, or a token that was created.
LEMMA IssuedThings == IssuedByKind
  <1> DEFINE a == {"step"} \X (0..epoch) \X (1..clock)
             b == {"code"} \X (0..epoch) \X (1..BackupCodeCount)
             c == {"token"} \X Given(tokens)
  <1>1. Issued = a \cup b \cup c
    BY DEF Issued, Given
  <1>2. \A v : /\ v \in a <=> \E e \in 0..epoch : IsStep(v, e, 1..clock)
               /\ v \in b <=> IsCode(v, (0..epoch) \X (1..BackupCodeCount))
               /\ v \in c <=> IsToken(v, Given(tokens))
    BY StepsAndCodes
  <1> HIDE DEF a, b, c
  <1> QED BY <1>1, <1>2, Zenon DEF IssuedByKind

\* What still works is a later step than the last, an unused code, or a token
\* that was not spent.
LEMMA UsableThings == UsableByKind
  BY DEF UsableByKind, Usable, IsStep, IsCode, IsToken, Good

\* Both hold after a step as well.
LEMMA ThingsAfter ==
    \A v : /\ v \in Issued' <=>
                 \/ \E e \in 0..epoch' : IsStep(v, e, 1..clock')
                 \/ IsCode(v, (0..epoch') \X (1..BackupCodeCount))
                 \/ IsToken(v, Given(tokens'))
           /\ v \in Usable' <=>
                 \/ IsStep(v, epoch', (lastStep' + 1)..clock')
                 \/ IsCode(v, codes')
                 \/ IsToken(v, Good(tokens'))
  <1>1. IssuedByKind' /\ UsableByKind'
    BY IssuedThings, UsableThings, PTL
  <1> QED BY <1>1 DEF IssuedByKind, UsableByKind

\* Things of different kinds are different.
LEMMA KindsDiffer ==
    ASSUME NEW v, NEW e, NEW ns, NEW cs, NEW ts
    PROVE  /\ IsStep(v, e, ns) => ~IsCode(v, cs) /\ ~IsToken(v, ts)
           /\ IsCode(v, cs) => ~IsToken(v, ts)
  <1>1. IsStep(v, e, ns) => v[1] = "step"
    BY DEF IsStep
  <1>2. IsCode(v, cs) => v[1] = "code"
    BY DEF IsCode
  <1>3. IsToken(v, ts) => v[1] = "token"
    BY DEF IsToken
  <1> QED BY <1>1, <1>2, <1>3

\* A step that consumes nothing and gives nobody anything leaves all claims.
LEMMA ClaimsStay ==
    ASSUME UNCHANGED <<evidence, usedIn>>, Untraded
    PROVE  UNCHANGED <<Verified, SignedIn, HasReset,
                       {<<evidence[r], r>> : r \in Verified \ SignedIn},
                       {<<evidence[r], r>> : r \in SignedIn}
                         \cup {<<<<"token", sent[r]>>, r>> : r \in HasReset}>>
  <1>1. UNCHANGED <<Verified, SignedIn, HasReset>>
    BY DEF Untraded, Late, Verified, SignedIn, HasReset
  <1>2. \A r \in HasReset : sent'[r] = sent[r]
    BY DEF Untraded, HasReset
  <1>3. {<<<<"token", sent'[r]>>, r>> : r \in HasReset'}
          = {<<<<"token", sent[r]>>, r>> : r \in HasReset}
    BY <1>1, <1>2
  <1>4. /\ {<<evidence'[r], r>> : r \in (Verified \ SignedIn)'}
             = {<<evidence[r], r>> : r \in Verified \ SignedIn}
        /\ {<<evidence'[r], r>> : r \in SignedIn'}
             = {<<evidence[r], r>> : r \in SignedIn}
    BY <1>1
  <1> QED BY <1>1, <1>3, <1>4

\* A request that has consumed nothing is not late.
LEMMA NothingIsNotLate == \A r \in Requests : evidence[r] = None => r \notin Late
  <1>1. None \notin Steps
    BY DEF None, Steps
  <1> QED BY <1>1 DEF Late

\* ConsumeStep, in time, and ConsumeBackupCode claim what nobody else can claim
\* after.
LEMMA ClaimsStep ==
    ASSUME TypeOK, Control, Untraded, NEW r \in Requests, NEW v \in Usable,
           evidence[r] = None, v # None, session[r] = "none",
           evidence' = [evidence EXCEPT ![r] = v], r \notin Late',
           \A s \in Requests \ {r} : usedIn'[s] = usedIn[s],
           Usable' \subseteq Usable \ {v}, Issued' = Issued
    PROVE  Voucher!Claim(v, r)
  <1>1. evidence'[r] = v /\ \A s \in Requests \ {r} : evidence'[s] = evidence[s]
    BY DEF TypeOK
  <1>a. r \notin Late /\ Late' = Late
    BY <1>1, NothingIsNotLate DEF Late
  <1>2. SignedIn' = SignedIn /\ HasReset' = HasReset
    BY <1>1, <1>a DEF Untraded, SignedIn, Verified, HasReset
  <1>3. Verified' \ SignedIn' = (Verified \ SignedIn) \cup {r} /\ r \notin Verified
    BY <1>1, <1>a, <1>2 DEF Verified, SignedIn
  <1>4. {<<evidence'[s], s>> : s \in Verified' \ SignedIn'}
          = {<<evidence[s], s>> : s \in Verified \ SignedIn} \cup {<<v, r>>}
    BY <1>1, <1>3 DEF Verified
  <1>5. \A s \in HasReset : sent'[s] = sent[s]
    BY DEF Untraded, HasReset
  <1>6. {<<evidence'[s], s>> : s \in SignedIn'}
             = {<<evidence[s], s>> : s \in SignedIn}
    BY <1>1, <1>2, <1>3 DEF SignedIn, Verified
  <1>7. {<<<<"token", sent'[s]>>, s>> : s \in HasReset'}
          = {<<<<"token", sent[s]>>, s>> : s \in HasReset}
    BY <1>2, <1>5
  <1> QED BY <1>4, <1>6, <1>7 DEF Voucher!Claim, Voucher!Withdraw

\* A late request claims nothing, and only takes something out of circulation.
LEMMA LateStep ==
    ASSUME TypeOK, Untraded, NEW r \in Requests, NEW v,
           evidence[r] = None, evidence' = [evidence EXCEPT ![r] = v], r \in Late',
           \A s \in Requests \ {r} : usedIn'[s] = usedIn[s],
           Usable' \subseteq Usable, Issued' = Issued
    PROVE  Voucher!Circulate
  <1>1. \A s \in Requests \ {r} : evidence'[s] = evidence[s]
    BY DEF TypeOK
  <1>2. r \notin Verified /\ Verified' = Verified
    BY <1>1 DEF Verified, Late
  <1>3. SignedIn' = SignedIn /\ HasReset' = HasReset
    BY <1>2 DEF Untraded, SignedIn, Verified, HasReset
  <1>4. \A s \in Verified : evidence'[s] = evidence[s]
    BY <1>1, <1>2 DEF Verified
  <1>5. /\ {<<evidence'[s], s>> : s \in Verified' \ SignedIn'}
             = {<<evidence[s], s>> : s \in Verified \ SignedIn}
        /\ {<<evidence'[s], s>> : s \in SignedIn'}
             = {<<evidence[s], s>> : s \in SignedIn}
    BY <1>2, <1>3, <1>4 DEF SignedIn
  <1>6. {<<<<"token", sent'[s]>>, s>> : s \in HasReset'}
          = {<<<<"token", sent[s]>>, s>> : s \in HasReset}
    <2>1. \A s \in HasReset : sent'[s] = sent[s]
      BY DEF Untraded, HasReset
    <2> QED BY <1>3, <2>1
  <1> QED BY <1>5, <1>6 DEF Voucher!Circulate

\* Whoever consumes something does not trade in the same step.
LEMMA ConsumersOnlyClaim ==
    ASSUME TypeOK, Control, NEW r \in Requests, Consumer(r)
    PROVE  Untraded
  BY DEF Consumer, ConsumeStep, Accepts, Refuses, ConsumeBackupCode, Clear,
     ConfirmEnrollment, Untraded, Goes, Answers, user, secret, credentials, local, history, TypeOK,
     Control, Located

\* Every step of the handlers is a step of the vouchers.
LEMMA VoucherStep ==
    ASSUME IInv, StepsHavePassed, [Next]_vars
    PROVE  [Voucher!Next]_(Voucher!voucherVars)
  <1> SUFFICES Voucher!Next \/ UNCHANGED Voucher!voucherVars
    OBVIOUS
  <1> USE DEF IssuedByKind, UsableByKind
  <1>a. /\ TypeOK /\ Control /\ UnusedCodesArePresent
        /\ epoch \in Nat /\ lastStep \in Nat /\ clock \in Nat
        /\ \A r \in Requests : step[r] \in Nat /\ step[r] <= clock
        /\ BackupCodeCount \in Nat
    BY CountsAreNatural DEF IInv, Consumption, TypeOK, StepsHavePassed
  <1>b. ASSUME UNCHANGED <<evidence, usedIn>>, Untraded,
               Issued \subseteq Issued', Usable' \subseteq Usable \cup (Issued' \ Issued)
        PROVE  Voucher!Next
    BY <1>b, ClaimsStay DEF Voucher!Next, Voucher!Circulate
  <1>1. ASSUME NEW r \in Requests, ConsumeStep(r), Untraded
        PROVE  Voucher!Next \/ UNCHANGED Voucher!voucherVars
    <2>1. UNCHANGED <<epoch, codes, tokens, clock>>
      BY <1>1 DEF ConsumeStep, secret, credentials, Untraded
    <2>2. CASE Refuses(r)
      BY <1>1, <2>1, <2>2, ClaimsStay DEF Voucher!voucherVars, Issued, Usable,
         Refuses
    <2>a. ASSUME NEW u \in Usable', lastStep < step[r], lastStep' = step[r]
          PROVE  u \in Usable /\ ~IsStep(u, epoch, {step[r]})
      <3>1. CASE IsStep(u, epoch, (step[r] + 1)..clock)
        BY <3>1, <2>a, <1>a, UsableThings DEF IsStep
      <3>2. CASE IsCode(u, codes) \/ IsToken(u, Good(tokens))
        BY <3>2, KindsDiffer, UsableThings
      <3> QED BY <3>1, <3>2, <2>1, <2>a, ThingsAfter
    <2>3. CASE lastStep < step[r] /\ lastStep' = step[r] /\ Accepts(r)
      <3>1. PICK v : v = <<"step", secretRead[r], step[r]>>
        OBVIOUS
      <3>2. /\ evidence' = [evidence EXCEPT ![r] = v]
            /\ usedIn' = [usedIn EXCEPT ![r] = epoch]
        BY <2>3, <3>1 DEF Accepts
      <3>3. /\ evidence'[r] = v /\ usedIn'[r] = epoch
            /\ \A s \in Requests \ {r} : usedIn'[s] = usedIn[s]
        BY <3>2, <1>a DEF TypeOK
      <3>4. evidence[r] = None /\ session[r] = "none" /\ v # None
        BY <1>1, <3>1, <1>a, EvidenceIsSome DEF ConsumeStep, Control, Located
      <3>5. Issued' = Issued
        BY <2>1 DEF Issued
      <3>6. v \in Steps /\ v[2] = secretRead[r]
        BY <3>1, <1>a DEF Steps, TypeOK
      <3>7. CASE secretRead[r] = epoch
        <4>1. v \in Usable /\ IsStep(v, epoch, {step[r]})
          BY <3>1, <3>7, <2>3, <1>a, UsableThings DEF IsStep
        <4>2. Usable' \subseteq Usable \ {v}
          BY <2>3, <2>a, <4>1
        <4>3. r \notin Late'
          BY <3>3, <3>6, <3>7 DEF Late
        <4>4. Voucher!Claim(v, r)
          BY <1>1, <1>a, <3>2, <3>3, <3>4, <3>5, <4>1, <4>2, <4>3, ClaimsStep
        <4> QED BY <4>1, <4>4 DEF Voucher!Next
      <3>8. CASE secretRead[r] # epoch
        <4>1. r \in Late'
          BY <3>3, <3>6, <3>8 DEF Late
        <4>2. Usable' \subseteq Usable
          BY <2>3, <2>a
        <4>3. Voucher!Circulate
          BY <1>1, <1>a, <3>2, <3>3, <3>4, <3>5, <4>1, <4>2, LateStep
        <4> QED BY <4>3 DEF Voucher!Next
      <3> QED BY <3>7, <3>8
    <2> QED BY <1>1, <2>2, <2>3 DEF ConsumeStep, ConsumeTOTPStep
  <1>2. ASSUME NEW r \in Requests, ConsumeBackupCode(r), Untraded
        PROVE  Voucher!Next \/ UNCHANGED Voucher!voucherVars
    <2>1. UNCHANGED <<epoch, lastStep, tokens, clock, usedIn>>
      BY <1>2 DEF ConsumeBackupCode, secret, credentials
    <2>2. CASE UNCHANGED <<codes, evidence>>
      BY <1>2, <2>1, <2>2, ClaimsStay DEF Voucher!voucherVars, Issued, Usable
    <2>3. ASSUME NEW c \in codes, codes' = codes \ {c},
                 evidence' = [evidence EXCEPT ![r] = <<"code", c[1], c[2]>>]
          PROVE  Voucher!Next
      <3>1. PICK v : v = <<"code", c[1], c[2]>>
        OBVIOUS
      <3>2. v \in Usable /\ IsCode(v, {c})
        BY <3>1, UsableThings DEF IsCode
      <3>3. ASSUME NEW d \in codes, d # c PROVE <<"code", d[1], d[2]>> # v
        BY <3>1, <3>3, <1>a DEF UnusedCodesArePresent, CodesOf
      <3>a. ASSUME NEW u \in Usable' PROVE u \in Usable /\ u # v
        <4>1. CASE IsCode(u, codes \ {c})
          BY <4>1, <3>3, UsableThings DEF IsCode
        <4>2. CASE IsStep(u, epoch, (lastStep + 1)..clock) \/ IsToken(u, Good(tokens))
          BY <4>2, <3>2, KindsDiffer, UsableThings
        <4> QED BY <4>1, <4>2, <2>1, <2>3, ThingsAfter
      <3>4. Usable' \subseteq Usable \ {v} /\ Issued' = Issued
        BY <3>a, <2>1 DEF Issued
      <3>5. evidence[r] = None /\ session[r] = "none" /\ v # None
        BY <1>2, <3>1, <1>a, EvidenceIsSome DEF ConsumeBackupCode, Control, Located
      <3>b. r \notin Late'
        <4>1. evidence'[r] = v /\ v \notin Steps
          BY <2>3, <3>1, <1>a DEF TypeOK, Steps
        <4> QED BY <4>1 DEF Late
      <3>6. Voucher!Claim(v, r)
        BY <1>2, <1>a, <2>1, <2>3, <3>1, <3>2, <3>4, <3>5, <3>b, ClaimsStep
      <3> QED BY <3>2, <3>6 DEF Voucher!Next
    <2> QED BY <1>2, <2>2, <2>3 DEF ConsumeBackupCode, ConsumeTOTPBackupCode
  <1>3. ASSUME NEW r \in Requests, Clear(r) \/ ConfirmEnrollment(r), Untraded
        PROVE  Voucher!Next
    <2>1. /\ epoch' = epoch + 1 /\ lastStep' = 0
          /\ UNCHANGED <<evidence, usedIn, tokens, clock>>
          /\ codes' = {} \/ codes' = CodesOf(epoch + 1)
      BY <1>3 DEF Clear, DeleteTOTPBackupCodesForUser, ClearTOTPSecrets,
         ConfirmEnrollment, ConfirmTOTPSecret, history, Untraded
    <2>2. Issued \subseteq Issued'
      BY <2>1, <1>a DEF Issued
    <2>3. ASSUME NEW u, IsStep(u, epoch + 1, 1..clock) PROVE u \in Issued' \ Issued
      <3>1. u \in Issued'
        BY <2>3, <2>1, <1>a, ThingsAfter
      <3>2. \A e \in 0..epoch : ~IsStep(u, e, 1..clock)
        BY <2>3, <1>a DEF IsStep
      <3> QED BY <2>3, <3>1, <3>2, KindsDiffer, IssuedThings
    <2>4. ASSUME NEW u, IsCode(u, CodesOf(epoch + 1)) PROVE u \in Issued' \ Issued
      <3>1. IsCode(u, (0..(epoch + 1)) \X (1..BackupCodeCount))
        BY <2>4, <1>a DEF IsCode, CodesOf
      <3>2. ~IsCode(u, (0..epoch) \X (1..BackupCodeCount))
        BY <2>4, <1>a DEF IsCode, CodesOf
      <3>3. u \in Issued'
        BY <3>1, <2>1, ThingsAfter
      <3> QED BY <2>4, <3>2, <3>3, KindsDiffer, IssuedThings
    <2>5. ASSUME NEW u, IsToken(u, Good(tokens)) PROVE u \in Usable
      BY <2>5, UsableThings
    <2>6. \A u \in Usable' : \/ IsStep(u, epoch + 1, 1..clock)
                             \/ IsCode(u, CodesOf(epoch + 1))
                             \/ IsToken(u, Good(tokens))
      <3>1. \A u : ~IsCode(u, {})
        BY DEF IsCode
      <3>2. epoch' = epoch + 1 /\ lastStep' + 1 = 1 /\ clock' = clock
              /\ tokens' = tokens
        BY <2>1
      <3>3. \A u \in Usable' : \/ IsStep(u, epoch', (lastStep' + 1)..clock')
                               \/ IsCode(u, codes')
                               \/ IsToken(u, Good(tokens'))
        BY ThingsAfter
      <3>4. CASE codes' = {}
        BY <3>1, <3>2, <3>3, <3>4, Zenon
      <3>5. CASE codes' = CodesOf(epoch + 1)
        BY <3>2, <3>3, <3>5, Zenon
      <3> QED BY <2>1, <3>4, <3>5
    <2>7. Usable' \subseteq Usable \cup (Issued' \ Issued)
      BY <2>3, <2>4, <2>5, <2>6
    <2> QED BY <1>3, <1>b, <2>1, <2>2, <2>7
  <1>4. ASSUME NEW r \in Requests, StartSession(r),
               UNCHANGED <<epoch, lastStep, codes, evidence, usedIn>>
        PROVE  Voucher!Next \/ UNCHANGED Voucher!voucherVars
    <2>1. /\ session[r] = "none" /\ session'[r] = "active"
          /\ \A s \in Requests \ {r} : session'[s] = session[s]
          /\ UNCHANGED <<tokens, clock, kind, sent>>
          /\ reply[r] = "none" /\ reply'[r] # "password_changed"
          /\ \A s \in Requests \ {r} : reply'[s] = reply[s]
      BY <1>4, <1>a DEF StartSession, CreateSession, Goes, Answers, local,
         TypeOK, Control, Located
    <2>2. UNCHANGED <<Issued, Usable, Verified, HasReset>>
      BY <1>4, <2>1 DEF Issued, Usable, Late, Verified, HasReset
    <2>3. {<<<<"token", sent'[s]>>, s>> : s \in HasReset'}
            = {<<<<"token", sent[s]>>, s>> : s \in HasReset}
      BY <2>1, <2>2
    <2>a. Verified \subseteq Requests
      BY DEF Verified
    <2>4. CASE r \notin Verified
      <3>1. UNCHANGED SignedIn
        BY <2>1, <2>2, <2>4, <2>a DEF SignedIn
      <3> QED BY <1>4, <2>2, <2>3, <3>1 DEF Voucher!voucherVars
    <2>5. CASE r \in Verified
      <3>1. r \in Verified \ SignedIn /\ SignedIn' = SignedIn \cup {r}
        BY <2>1, <2>2, <2>5, <2>a DEF SignedIn
      <3>2. PICK claim \in {<<evidence[s], s>> : s \in Verified \ SignedIn} :
               claim = <<evidence[r], r>>
        BY <3>1
      <3>3. {<<evidence'[s], s>> : s \in Verified' \ SignedIn'}
              = {<<evidence[s], s>> : s \in Verified \ SignedIn} \ {claim}
        BY <1>4, <2>2, <3>1, <3>2
      <3>4. {<<evidence'[s], s>> : s \in SignedIn'}
              = {<<evidence[s], s>> : s \in SignedIn} \cup {claim}
        BY <1>4, <3>1, <3>2
      <3>5. Voucher!Redeem(claim)
        BY <2>2, <2>3, <3>3, <3>4 DEF Voucher!Redeem
      <3> QED BY <3>2, <3>5 DEF Voucher!Next
    <2> QED BY <2>4, <2>5
  <1>5. ASSUME NEW r \in Requests, NEW p \in Passwords, ResetPassword(r, p),
               UNCHANGED <<epoch, lastStep, codes, evidence, usedIn>>
        PROVE  Voucher!Next
    <2>1. /\ tokens[sent[r]] = "issued" /\ kind[r] = "reset" /\ reply[r] = "none"
          /\ \A t \in Tokens : tokens'[t] = IF tokens[t] = "issued"
                                            THEN "spent" ELSE tokens[t]
          /\ \A s \in Requests : session'[s] = "none" <=> session[s] = "none"
          /\ UNCHANGED <<clock, kind, sent>>
          /\ reply'[r] = "password_changed"
          /\ \A s \in Requests \ {r} : reply'[s] = reply[s]
      BY <1>5, <1>a DEF ResetPassword, ConsumePasswordResetTokens,
         RevokeUserSessions, Answers, local, TypeOK, Control, Located
    <2>2. sent[r] \in Tokens
      BY <1>5, <1>a DEF ResetPassword, Control, Located
    <2>3. UNCHANGED <<Verified, SignedIn>> /\ HasReset' = HasReset \cup {r}
      BY <1>5, <2>1 DEF Late, Verified, SignedIn, HasReset
    <2>4. PICK v : v = <<"token", sent[r]>>
      OBVIOUS
    <2>5. Given(tokens') = Given(tokens) /\ Good(tokens') = {}
      BY <2>1 DEF Given, Good
    <2>6. Issued' = Issued
      BY <1>5, <2>1, <2>5 DEF Issued, Given
    <2>7. v \in Usable /\ IsToken(v, Tokens)
      BY <2>1, <2>2, <2>4, UsableThings DEF IsToken, Good
    <2>8. \A u \in Usable' : IsStep(u, epoch, (lastStep + 1)..clock)
                               \/ IsCode(u, codes)
      <3>1. \A u : ~IsToken(u, {})
        BY DEF IsToken
      <3> QED BY <1>5, <2>1, <2>5, <3>1, ThingsAfter, Zenon
    <2>9. Usable' \subseteq Usable \ {v}
      BY <2>7, <2>8, UsableThings, KindsDiffer
    <2>10. {<<<<"token", sent'[s]>>, s>> : s \in HasReset'}
             = {<<<<"token", sent[s]>>, s>> : s \in HasReset} \cup {<<v, r>>}
      BY <2>1, <2>3, <2>4
    <2>11. /\ {<<evidence'[s], s>> : s \in Verified' \ SignedIn'}
                = {<<evidence[s], s>> : s \in Verified \ SignedIn}
           /\ {<<evidence'[s], s>> : s \in SignedIn'}
                = {<<evidence[s], s>> : s \in SignedIn}
      BY <1>5, <2>3
    <2>12. Voucher!RedeemAtOnce(v, r)
      BY <2>6, <2>7, <2>9, <2>10, <2>11 DEF Voucher!RedeemAtOnce, Voucher!Withdraw
    <2> QED BY <2>7, <2>12 DEF Voucher!Next
  <1>6. ASSUME UNCHANGED <<epoch, lastStep, codes, evidence, usedIn>>,
               Tick \/ \E t \in Tokens : IssueToken(t) \/ TokenExpires(t)
        PROVE  Voucher!Next
    <2>1. /\ UNCHANGED <<session, kind, reply, sent>>
          /\ clock' \in Nat /\ clock <= clock'
          /\ \A t \in Tokens : /\ tokens[t] # "none" => tokens'[t] # "none"
                               /\ tokens'[t] = "issued" =>
                                    tokens[t] \in {"none", "issued"}
      BY <1>6, <1>a DEF Tick, IssueToken, TokenExpires,
         CreatePasswordResetToken, credentials, local, TypeOK
    <2>2. Issued \subseteq Issued'
      BY <1>6, <2>1, <1>a DEF Issued
    <2>3. ASSUME NEW u, IsStep(u, epoch, (lastStep + 1)..clock')
          PROVE  u \in Usable \cup (Issued' \ Issued)
      <3>1. PICK n \in (lastStep + 1)..clock' : u = <<"step", epoch, n>>
        BY <2>3 DEF IsStep
      <3>2. CASE n <= clock
        BY <3>1, <3>2, <1>a, <2>1, UsableThings DEF IsStep
      <3>3. CASE n > clock
        <4>1. \A e \in 0..epoch : ~IsStep(u, e, 1..clock)
          BY <3>1, <3>3, <1>a, <2>1 DEF IsStep
        <4>2. IsStep(u, epoch', 1..clock') /\ epoch' \in 0..epoch'
          BY <1>6, <3>1, <3>3, <1>a, <2>1 DEF IsStep
        <4> QED BY <2>3, <4>1, <4>2, IssuedThings, ThingsAfter, KindsDiffer
      <3> QED BY <3>2, <3>3, <1>a, <2>1
    <2>4. ASSUME NEW u, IsCode(u, codes) PROVE u \in Usable
      BY <2>4, UsableThings
    <2>5. ASSUME NEW u, IsToken(u, Good(tokens'))
          PROVE  u \in Usable \cup (Issued' \ Issued)
      <3>1. PICK t \in Tokens : u = <<"token", t>> /\ tokens'[t] = "issued"
        BY <2>5 DEF IsToken, Good
      <3>2. CASE tokens[t] = "issued"
        BY <3>1, <3>2, UsableThings DEF IsToken, Good
      <3>3. CASE tokens[t] = "none"
        <4>1. ~IsToken(u, Given(tokens)) /\ IsToken(u, Given(tokens'))
          BY <3>1, <3>3 DEF IsToken, Given
        <4> QED BY <2>5, <4>1, IssuedThings, ThingsAfter, KindsDiffer
      <3> QED BY <2>1, <3>1, <3>2, <3>3
    <2>6. \A u \in Usable' : \/ IsStep(u, epoch, (lastStep + 1)..clock')
                             \/ IsCode(u, codes)
                             \/ IsToken(u, Good(tokens'))
      BY <1>6, ThingsAfter, Zenon
    <2>7. Usable' \subseteq Usable \cup (Issued' \ Issued)
      BY <2>3, <2>4, <2>5, <2>6
    <2>8. UNCHANGED <<Verified, SignedIn, HasReset>>
      BY <1>6, <2>1 DEF Late, Verified, SignedIn, HasReset
    <2>9. /\ {<<evidence'[s], s>> : s \in Verified' \ SignedIn'}
               = {<<evidence[s], s>> : s \in Verified \ SignedIn}
          /\ {<<evidence'[s], s>> : s \in SignedIn'}
               = {<<evidence[s], s>> : s \in SignedIn}
          /\ {<<<<"token", sent'[s]>>, s>> : s \in HasReset'}
               = {<<<<"token", sent[s]>>, s>> : s \in HasReset}
      BY <1>6, <2>1, <2>8
    <2> QED BY <2>2, <2>7, <2>9 DEF Voucher!Next, Voucher!Circulate
  <1>7. ASSUME Untraded, UNCHANGED <<epoch, lastStep, codes, evidence, usedIn>>
        PROVE  UNCHANGED Voucher!voucherVars
    <2>1. UNCHANGED <<Issued, Usable>>
      BY <1>7 DEF Issued, Usable, Untraded
    <2> QED BY <1>7, <2>1, ClaimsStay DEF Voucher!voucherVars
  <1>8. ASSUME NEW r \in Requests, Consumer(r)
        PROVE  Voucher!Next \/ UNCHANGED Voucher!voucherVars
    BY <1>1, <1>2, <1>3, <1>8, <1>a, ConsumersOnlyClaim DEF Consumer
  <1>9. ASSUME UNCHANGED <<epoch, lastStep, codes, evidence, usedIn>>
        PROVE  Voucher!Next \/ UNCHANGED Voucher!voucherVars
    BY <1>4, <1>5, <1>6, <1>7, <1>9, <1>a, WhoTrades DEF Trader
  <1> QED BY <1>8, <1>9, WhoConsumes

\* Signing in and resetting, with everything that races and fails around them,
\* implement things that are used once: backup codes, reset links, and the
\* steps of a secret that are consumed while it stands.
THEOREM Refinement == Spec => ImplementsVouchers
  <1>1. ASSUME Init PROVE Voucher!Init
    <2>1. Verified = {} /\ SignedIn = {} /\ HasReset = {}
      BY <1>1 DEF Init, Verified, SignedIn, HasReset
    <2>2. ASSUME NEW v \in Usable PROVE v \in Issued
      <3>1. CASE IsStep(v, epoch, (lastStep + 1)..clock)
        BY <1>1, <3>1, IssuedThings DEF IssuedByKind, Init
      <3>2. CASE IsCode(v, codes)
        <4>1. \A c \in codes : c \in (0..epoch) \X (1..BackupCodeCount)
          BY <1>1, CountsAreNatural DEF Init, CodesOf
        <4> QED BY <3>2, <4>1, IssuedThings DEF IssuedByKind, IsCode
      <3>3. CASE IsToken(v, Good(tokens))
        BY <3>3, IssuedThings DEF IssuedByKind, IsToken, Given, Good
      <3> QED BY <3>1, <3>2, <3>3, UsableThings DEF UsableByKind
    <2> QED BY <2>1, <2>2 DEF Voucher!Init
  <1>2. IInv /\ StepsHavePassed /\ [Next]_vars
          => [Voucher!Next]_(Voucher!voucherVars)
    BY VoucherStep
  <1> QED
    BY <1>1, <1>2, Invariance, StepsInvariance, PTL
       DEF Spec, ImplementsVouchers, Voucher!Spec

Claims == INSTANCE VouchersProofs WITH
    Holders <- Requests,
    issued <- Issued,
    live <- Usable,
    held <- {<<evidence[r], r>> : r \in Verified \ SignedIn},
    redeemed <- {<<evidence[r], r>> : r \in SignedIn}
                \cup {<<<<"token", sent[r]>>, r>> : r \in HasReset}

\* What is proved of vouchers holds of steps, backup codes and links: no two
\* sessions come from the same backup code, nor from the same step of a secret
\* that stood when each of them consumed it, and no two new passwords from the
\* same link.  A step consumed after its secret was replaced or cleared is
\* outside of this; StepsOnce bounds those.
THEOREM FactorsRedeemOnce == Spec => []Claims!RedeemedOnce
  <1>1. Voucher!Init => Claims!Init
    BY DEF Voucher!Init, Claims!Init
  <1>2. [Voucher!Next]_(Voucher!voucherVars) => [Claims!Next]_(Claims!voucherVars)
    BY DEF Voucher!Next, Claims!Next, Voucher!voucherVars, Claims!voucherVars,
       Voucher!Circulate, Claims!Circulate, Voucher!Claim, Claims!Claim,
       Voucher!Redeem, Claims!Redeem, Voucher!RedeemAtOnce, Claims!RedeemAtOnce,
       Voucher!Withdraw, Claims!Withdraw
  <1> QED
    BY <1>1, <1>2, Refinement, Claims!OneRedemption, PTL
       DEF ImplementsVouchers, Voucher!Spec, Claims!Spec
=============================================================================
