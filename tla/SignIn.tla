------------------------------- MODULE SignIn -------------------------------
(***************************************************************************)
(* Signing in to one account of src/: the password form, two-step          *)
(* verification with its challenges, single-use steps and backup codes,    *)
(* recovery, password resets, sessions, and the account pages that turn    *)
(* two-step verification on and off.                                       *)
(*                                                                         *)
(* A handler runs in a goroutine of its own and is split at every          *)
(* statement it sends to the database, so that handlers interleave between *)
(* any two.  The three transactions here (ConfirmEnrollment, Clear and     *)
(* ResetPassword) begin with a write, own SQLite's write lock from there   *)
(* to their end and are one action each; one that fails is rolled back.    *)
(*                                                                         *)
(* A request creates at most one challenge or session, so those created by *)
(* request r are called r.  Whether a typed code is the right one is left  *)
(* open; a secret is told apart from the next one by its epoch.            *)
(***************************************************************************)
EXTENDS Naturals, FiniteSets

CONSTANTS
    Requests,         \* requests to the handlers of this module
    Tokens,           \* password reset tokens
    Passwords,        \* passwords the user may choose
    Handlers,         \* kinds of request an instance sends
    InitialAccounts,  \* two-step verification and hash format at the start
    ChallengeAttempts,\* challengeAttempts (5)
    BackupCodeCount,  \* defaultBackupCodeCount (8)
    RecoveryLimit,    \* recent failures at which RecoverMFA refuses (5)
    MaxStep           \* bound: 30-second steps that pass in a behaviour

Nobody == "nobody"
Wrong == "wrong"
None == <<>>

Kinds == {"login", "totp_page", "totp", "cancel", "recover", "logout",
          "reset", "page", "confirm", "disable"}

ASSUME NobodyIsNoName ==
    Nobody \notin Requests \cup Tokens /\ Requests \cap Tokens = {}
ASSUME WrongIsNoPassword == Wrong \notin Passwords
ASSUME HandlersAreKinds == Handlers \subseteq Kinds
ASSUME AttemptsArePositive == ChallengeAttempts \in Nat \ {0}
ASSUME CountsAreNatural ==
    BackupCodeCount \in Nat /\ RecoveryLimit \in Nat /\ MaxStep \in Nat
ASSUME AccountsAreUsers ==
    InitialAccounts \subseteq
        [enrolled : BOOLEAN, pending : BOOLEAN, legacy : BOOLEAN]

VARIABLES
    \* users: the row of the account
    password,  \* the password whose hash is stored
    legacy,    \* passwords.NeedsRehash of that hash
    enrolled,  \* totp_secret_encrypted IS NOT NULL
    pending,   \* pending_totp_secret_encrypted IS NOT NULL
    lastStep,  \* last_totp_step, 0 for NULL
    \* the other tables
    codes,     \* unused totp_backup_codes, as <<epoch, number>>
    failures,  \* failed mfa_recovery_attempts of the last 15 minutes
    attempts,  \* [Requests -> Nat]: attempts_remaining of a challenge; 0 when
               \* it has no row, or one that is exhausted or expired
    session,   \* [Requests -> status]: "stale" after recentAuthenticationWindow
    tokens,    \* [Tokens -> status]: "spent" when used or expired
    clock,     \* the current 30-second step
    \* requests
    pc,        \* [Requests -> where the handler is]
    kind,      \* [Requests -> Kinds]
    sent,      \* [Requests -> the challenge or reset token the browser sent]
    typed,     \* [Requests -> the password that matched the row, or Wrong]
    row,       \* [Requests -> the user's row as the request read it]
    secretRead,\* [Requests -> the secret the request read, as its epoch]
    step,      \* [Requests -> the step a right code was checked in]
    reply,     \* [Requests -> the answer sent to the browser]
    \* bookkeeping
    epoch,     \* how often the secret was replaced or cleared
    resets,    \* password resets committed
    readAt,    \* [Requests -> Nat]: resets when the request read the user
    born,      \* [Requests \cup Tokens -> Nat]: resets at the creation
    evidence,  \* [Requests -> the step or backup code it consumed, or None]
    usedIn     \* [Requests -> Nat]: the epoch in which it consumed a step

user == <<password, legacy>>
secret == <<enrolled, pending, epoch>>
local == <<kind, sent, typed, row, secretRead, step>>
credentials == <<attempts, session, tokens>>
world == <<user, secret, lastStep, codes, failures, credentials, clock>>
history == <<resets, readAt, born, evidence, usedIn>>
vars == <<world, pc, local, reply, history>>

-----------------------------------------------------------------------------
(* Data *)

Places == {"idle", "rehash", "drop", "challenge", "start", "record", "peek",
           "secret", "verify", "consume", "mistake", "discard", "count", "deny",
           "code", "clear", "reset", "page", "pending", "enroll", "confirm",
           "commit", "disable", "done"}

Replies == {"none", "error", "denied", "totp_page", "signed_in", "restart",
            "retry", "too_many", "not_found", "password_changed", "logged_out",
            "cancelled", "code_page", "login_page", "setup_page",
            "enabled_page", "backup_codes", "account_page"}

Steps == {"step"} \X Nat \X Nat
Codes == {"code"} \X Nat \X Nat

\* What browsers hold: challenge cookies, and session cookies.
HeldChallenges == {c \in Requests : reply[c] = "totp_page"}
HeldSessions == {s \in Requests : reply[s] = "signed_in"}
Cookies == HeldChallenges \cup {Nobody}

CodesOf(e) == {e} \X (1..BackupCodeCount)

\* The columns of the user's row that a sign-in acts on later.
UserRow == [hasTOTP |-> enrolled, legacy |-> legacy]
UserRows == [hasTOTP : BOOLEAN, legacy : BOOLEAN]

NeedsRehash(u) == u.legacy

\* passwords.Verify: whether the typed password is the one whose hash is stored.
Verify(p) == p = password

\* DeleteChallenge: nothing happens for an empty or an unknown token.
WithoutChallenge(c) == [d \in Requests |-> IF d = c THEN 0 ELSE attempts[d]]

Arrives(r, k, s) ==
    /\ k \in Handlers
    /\ pc[r] = "idle"
    /\ kind' = [kind EXCEPT ![r] = k]
    /\ sent' = [sent EXCEPT ![r] = s]

Goes(r, place) == pc' = [pc EXCEPT ![r] = place] /\ UNCHANGED reply

Answers(r, answer) ==
    /\ pc' = [pc EXCEPT ![r] = "done"]
    /\ reply' = [reply EXCEPT ![r] = answer]

InFlight(r) == pc[r] \notin {"idle", "done"}

-----------------------------------------------------------------------------
(* Statements: the columns each writes *)

UpdateUserPasswordHash(p) == password' = p /\ legacy' = FALSE

\* The UPDATEs that a guard in their WHERE makes single-use: no row, no change.
ConsumeTOTPStep(n) == lastStep < n /\ lastStep' = n
ConsumeTOTPBackupCode(c) == c \in codes /\ codes' = codes \ {c}

CreateTOTPLoginChallenge(c) ==
    /\ attempts' = [attempts EXCEPT ![c] = ChallengeAttempts]
    /\ born' = [born EXCEPT ![c] = resets]

\* The attempts after one more wrong code; a row without attempts is deleted.
WithFailure(c) == [attempts EXCEPT ![c] = IF @ > 0 THEN @ - 1 ELSE 0]

DeleteTOTPLoginChallengesForUser == attempts' = [c \in Requests |-> 0]

CreateSession(r) ==
    /\ session' = [session EXCEPT ![r] = "active"]
    /\ born' = [born EXCEPT ![r] = resets]

RevokeSession(s) == session' = [session EXCEPT ![s] = "ended"]
RevokeUserSessions ==
    session' = [s \in Requests |-> IF session[s] = "none" THEN "none" ELSE "ended"]

\* The pending secret, whatever it is by now, becomes the secret.
ConfirmTOTPSecret ==
    /\ enrolled' = pending
    /\ pending' = FALSE
    /\ lastStep' = 0
    /\ epoch' = epoch + 1

ClearTOTPSecrets ==
    /\ enrolled' = FALSE
    /\ pending' = FALSE
    /\ lastStep' = 0
    /\ epoch' = epoch + 1

DeleteTOTPBackupCodesForUser == codes' = {}

CreatePasswordResetToken(t) ==
    /\ tokens' = [tokens EXCEPT ![t] = "issued"]
    /\ born' = [born EXCEPT ![t] = resets]

\* ConsumePasswordResetToken and ConsumeRemainingPasswordResetTokens: the token
\* must still be good, and the user's others go with it.
ConsumePasswordResetTokens(t) ==
    /\ tokens[t] = "issued"
    /\ tokens' = [u \in Tokens |->
                    IF tokens[u] = "issued" THEN "spent" ELSE tokens[u]]

-----------------------------------------------------------------------------
(* POST /login *)

\* Fault: the user is found but the password is not verified.
LoginReadUnverified(r, c, p) ==
    /\ Arrives(r, "login", c)
    /\ typed' = [typed EXCEPT ![r] = p]
    /\ row' = [row EXCEPT ![r] = UserRow]
    /\ readAt' = [readAt EXCEPT ![r] = resets]
    /\ Goes(r, IF NeedsRehash(UserRow) THEN "rehash" ELSE "drop")
    /\ UNCHANGED <<world, secretRead, step, resets, born, evidence, usedIn>>

\* FindUserByEmail and passwords.Verify: the handler goes on with this copy of
\* the user's row.
LoginRead(r, c, p) ==
    /\ Arrives(r, "login", c)
    /\ \/ /\ ~Verify(p)
          /\ Answers(r, "denied")
          /\ UNCHANGED <<typed, row, readAt>>
       \/ /\ Verify(p)
          /\ typed' = [typed EXCEPT ![r] = p]
          /\ row' = [row EXCEPT ![r] = UserRow]
          /\ readAt' = [readAt EXCEPT ![r] = resets]
          /\ Goes(r, IF NeedsRehash(UserRow) THEN "rehash" ELSE "drop")
    /\ UNCHANGED <<world, secretRead, step, resets, born, evidence, usedIn>>

\* UpdatePasswordHash: the password verified, in the current format.
Rehash(r) ==
    /\ pc[r] = "rehash"
    /\ UpdateUserPasswordHash(typed[r])
    /\ Goes(r, IF kind[r] = "login" THEN "drop" ELSE "code")
    /\ UNCHANGED <<secret, lastStep, codes, failures, credentials, clock,
                   local, history>>

AfterDrop(r) ==
    CASE kind[r] = "login" -> IF row[r].hasTOTP THEN "challenge" ELSE "start"
      [] kind[r] = "totp" -> "start"
      [] kind[r] = "recover" -> "clear"

\* Fault: the challenge is left in its table.
DropChallengeForgotten(r) ==
    /\ pc[r] = "drop"
    /\ IF kind[r] = "logout" THEN Answers(r, "logged_out") ELSE Goes(r, AfterDrop(r))
    /\ UNCHANGED <<world, local, history>>

\* DeleteChallenge of the cookie's challenge, before the request's own outcome.
DropChallenge(r) ==
    /\ pc[r] = "drop"
    /\ attempts' = WithoutChallenge(sent[r])
    /\ IF kind[r] = "logout" THEN Answers(r, "logged_out") ELSE Goes(r, AfterDrop(r))
    /\ UNCHANGED <<user, secret, lastStep, codes, failures, session, tokens,
                   clock, local, history>>

CreateChallenge(r) ==
    /\ pc[r] = "challenge"
    /\ CreateTOTPLoginChallenge(r)
    /\ Answers(r, "totp_page")
    /\ UNCHANGED <<user, secret, lastStep, codes, failures, session, tokens,
                   clock, local, resets, readAt, evidence,
                   usedIn>>

\* CreateSession: the last statement of a sign-in, but for a recovery, which
\* still records its success.
StartSession(r) ==
    /\ pc[r] = "start"
    /\ CreateSession(r)
    /\ IF kind[r] = "recover" THEN Goes(r, "record") ELSE Answers(r, "signed_in")
    /\ UNCHANGED <<user, secret, lastStep, codes, failures, attempts, tokens,
                   clock, local, resets, readAt, evidence,
                   usedIn>>

-----------------------------------------------------------------------------
(* GET and POST /login/totp *)

\* TOTPLoginPage, Challenge.
CodePageRead(r, c) ==
    /\ Arrives(r, "totp_page", c)
    /\ IF c # Nobody /\ attempts[c] > 0
       THEN Goes(r, "peek") ELSE Answers(r, "restart")
    /\ UNCHANGED <<world, typed, row, secretRead, step, history>>

\* TOTPLoginPage, user.HasTOTP.
CodePage(r) ==
    /\ pc[r] = "peek"
    /\ IF enrolled THEN Answers(r, "code_page") ELSE Goes(r, "discard")
    /\ UNCHANGED <<world, local, history>>

\* Challenge: found, not exhausted and not expired.
TOTPRead(r, c) ==
    /\ Arrives(r, "totp", c)
    /\ IF c # Nobody /\ attempts[c] > 0
       THEN Goes(r, "secret") ELSE Answers(r, "restart")
    /\ UNCHANGED <<world, typed, row, secretRead, step, history>>

\* Secret: the handler goes on with this copy of it.
ReadSecret(r) ==
    /\ pc[r] = "secret"
    /\ \/ /\ enrolled
          /\ secretRead' = [secretRead EXCEPT ![r] = epoch]
          /\ Goes(r, "verify")
       \/ ~enrolled /\ Goes(r, "discard") /\ UNCHANGED secretRead
    /\ UNCHANGED <<world, kind, sent, typed, row, step, history>>

\* DeleteChallenge of a challenge that is exhausted, or whose account has no
\* secret any more.
Discard(r) ==
    /\ pc[r] = "discard"
    /\ attempts' = WithoutChallenge(sent[r])
    /\ Answers(r, "restart")
    /\ UNCHANGED <<user, secret, lastStep, codes, failures, session, tokens,
                   clock, local, history>>

\* verifyAt, with the time read once before it and the secret read before that.
VerifyCode(r) ==
    /\ pc[r] = "verify"
    /\ \/ /\ step' = [step EXCEPT ![r] = clock]
          /\ Goes(r, "consume")
       \/ Goes(r, "mistake") /\ UNCHANGED step
    /\ UNCHANGED <<world, kind, sent, typed, row, secretRead, history>>

\* A code is a step of the secret it was checked against, which may have been
\* replaced or cleared since.
Accepts(r) ==
    /\ evidence' = [evidence EXCEPT ![r] = <<"step", secretRead[r], step[r]>>]
    /\ usedIn' = [usedIn EXCEPT ![r] = epoch]
    /\ Goes(r, "drop")

Refuses(r) == Goes(r, "mistake") /\ UNCHANGED <<lastStep, evidence, usedIn>>

\* Fault: the update compares with <= where the code has <.
ConsumeStepTwice(r) ==
    /\ pc[r] = "consume"
    /\ \/ lastStep <= step[r] /\ lastStep' = step[r] /\ Accepts(r)
       \/ lastStep > step[r] /\ Refuses(r)
    /\ UNCHANGED <<user, secret, codes, failures, credentials, clock, local,
                   resets, readAt, born>>

\* ConsumeTOTPStep: one update that checks and sets last_totp_step, and asks
\* neither for the secret nor whether there is one.
ConsumeStep(r) ==
    /\ pc[r] = "consume"
    /\ \/ ConsumeTOTPStep(step[r]) /\ Accepts(r)
       \/ lastStep >= step[r] /\ Refuses(r)
    /\ UNCHANGED <<user, secret, codes, failures, credentials, clock, local,
                   resets, readAt, born>>

\* Fault: the challenge is exhausted one mistake too late.
RecordFailureLate(r) ==
    /\ pc[r] = "mistake"
    /\ attempts' = WithFailure(sent[r])
    /\ IF attempts[sent[r]] > 0 THEN Answers(r, "retry") ELSE Goes(r, "discard")
    /\ UNCHANGED <<user, secret, lastStep, codes, failures, session, tokens,
                   clock, local, history>>

\* Fault: the update without attempts_remaining > 0.
RecordFailureUnguarded(r) ==
    /\ pc[r] = "mistake"
    /\ attempts' = [attempts EXCEPT ![sent[r]] = @ - 1]
    /\ IF attempts[sent[r]] > 1 THEN Answers(r, "retry") ELSE Goes(r, "discard")
    /\ UNCHANGED <<user, secret, lastStep, codes, failures, session, tokens,
                   clock, local, history>>

\* RecordChallengeFailure: one attempt fewer; at none the row is deleted next.
RecordFailure(r) ==
    /\ pc[r] = "mistake"
    /\ attempts' = WithFailure(sent[r])
    /\ IF attempts[sent[r]] > 1 THEN Answers(r, "retry") ELSE Goes(r, "discard")
    /\ UNCHANGED <<user, secret, lastStep, codes, failures, session, tokens,
                   clock, local, history>>

CancelTOTPLogin(r, c) ==
    /\ Arrives(r, "cancel", c)
    /\ attempts' = WithoutChallenge(c)
    /\ Answers(r, "cancelled")
    /\ UNCHANGED <<user, secret, lastStep, codes, failures, session, tokens,
                   clock, typed, row, secretRead, step, history>>

-----------------------------------------------------------------------------
(* POST /login/recover *)

\* FindUserByEmail; whether the password matches this copy is looked at later.
RecoverRead(r, c, p) ==
    /\ Arrives(r, "recover", c)
    /\ typed' = [typed EXCEPT ![r] = IF Verify(p) THEN p ELSE Wrong]
    /\ row' = [row EXCEPT ![r] = UserRow]
    /\ readAt' = [readAt EXCEPT ![r] = resets]
    /\ Goes(r, "count")
    /\ UNCHANGED <<world, secretRead, step, resets, born, evidence, usedIn>>

\* CountRecentRecoveryFailures, then what the handler makes of it.
RecoverCount(r) ==
    /\ pc[r] = "count"
    /\ IF failures >= RecoveryLimit THEN Answers(r, "too_many")
       ELSE Goes(r, IF typed[r] = Wrong THEN "deny"
                    ELSE IF NeedsRehash(row[r]) THEN "rehash" ELSE "code")
    /\ UNCHANGED <<world, local, history>>

\* RecordRecoveryAttempt of a failure.
Deny(r) ==
    /\ pc[r] = "deny"
    /\ failures' = failures + 1
    /\ Answers(r, "denied")
    /\ UNCHANGED <<user, secret, lastStep, codes, credentials, clock, local,
                   history>>

\* Fault: a code counts as used because it is found.
ConsumeBackupCodeByCounting(r) ==
    /\ pc[r] = "code"
    /\ \/ \E c \in codes :
             /\ evidence' = [evidence EXCEPT ![r] = <<"code", c[1], c[2]>>]
             /\ Goes(r, "drop")
       \/ Goes(r, "deny") /\ UNCHANGED evidence
    /\ UNCHANGED <<world, local, resets, readAt, born, usedIn>>

\* ConsumeTOTPBackupCode: one update marks the typed code used, if it is an
\* unused code of the user.
ConsumeBackupCode(r) ==
    /\ pc[r] = "code"
    /\ \/ \E c \in codes :
             /\ ConsumeTOTPBackupCode(c)
             /\ evidence' = [evidence EXCEPT ![r] = <<"code", c[1], c[2]>>]
             /\ Goes(r, "drop")
       \/ Goes(r, "deny") /\ UNCHANGED <<codes, evidence>>
    /\ UNCHANGED <<user, secret, lastStep, failures, credentials, clock,
                   local, resets, readAt, born, usedIn>>

\* Clear: two-step verification off, with all that belongs to it.
Clear(r) ==
    /\ pc[r] = "clear"
    /\ ClearTOTPSecrets
    /\ DeleteTOTPBackupCodesForUser
    /\ DeleteTOTPLoginChallengesForUser
    /\ IF kind[r] = "recover" THEN Goes(r, "start") ELSE Answers(r, "account_page")
    /\ UNCHANGED <<user, failures, session, tokens, clock, local, history>>

\* RecordRecoveryAttempt of the success, and the answer that sets the cookie.
RecordSuccess(r) ==
    /\ pc[r] = "record"
    /\ Answers(r, "signed_in")
    /\ UNCHANGED <<world, local, history>>

-----------------------------------------------------------------------------
(* Password resets *)

\* RequestPasswordReset, for the account's email address.
IssueToken(t) ==
    /\ "reset" \in Handlers
    /\ tokens[t] = "none"
    /\ CreatePasswordResetToken(t)
    /\ UNCHANGED <<user, secret, lastStep, codes, failures, attempts, session,
                   clock, pc, local, reply, resets, readAt, evidence,
                   usedIn>>

\* Validate.
ResetRead(r, t) ==
    /\ Arrives(r, "reset", t)
    /\ IF tokens[t] = "issued" THEN Goes(r, "reset") ELSE Answers(r, "not_found")
    /\ UNCHANGED <<world, typed, row, secretRead, step, history>>

\* Fault: the sessions are left as they are.
ResetPasswordOnly(r, p) ==
    /\ pc[r] = "reset"
    /\ ConsumePasswordResetTokens(sent[r])
    /\ UpdateUserPasswordHash(p)
    /\ DeleteTOTPLoginChallengesForUser
    /\ resets' = resets + 1
    /\ Answers(r, "password_changed")
    /\ UNCHANGED <<secret, lastStep, codes, failures, session, clock, local,
                   readAt, born, evidence, usedIn>>

\* Fault: nobody asks whether the update of the token found it unused.
ResetPasswordUnchecked(r, p) ==
    /\ pc[r] = "reset"
    /\ tokens' = [t \in Tokens |-> IF tokens[t] = "issued" THEN "spent" ELSE tokens[t]]
    /\ UpdateUserPasswordHash(p)
    /\ RevokeUserSessions
    /\ DeleteTOTPLoginChallengesForUser
    /\ resets' = resets + 1
    /\ Answers(r, "password_changed")
    /\ UNCHANGED <<secret, lastStep, codes, failures, clock, local, readAt,
                   born, evidence, usedIn>>

\* ResetPassword: consume the token and change the password; the user's other
\* tokens, sessions and challenges go with it.
ResetPassword(r, p) ==
    /\ pc[r] = "reset"
    /\ ConsumePasswordResetTokens(sent[r])
    /\ UpdateUserPasswordHash(p)
    /\ RevokeUserSessions
    /\ DeleteTOTPLoginChallengesForUser
    /\ resets' = resets + 1
    /\ Answers(r, "password_changed")
    /\ UNCHANGED <<secret, lastStep, codes, failures, clock, local, readAt,
                   born, evidence, usedIn>>

\* The token was used, or expired, since it was validated.
ResetRefused(r) ==
    /\ pc[r] = "reset"
    /\ tokens[sent[r]] # "issued"
    /\ Answers(r, "not_found")
    /\ UNCHANGED <<world, local, history>>

-----------------------------------------------------------------------------
(* GET and POST /account/totp, POST /logout *)

HasRecentAuthentication(s) == session[s] = "active"

\* requireRecentAuth: an unrevoked, unexpired session opened less than ten
\* minutes ago.
Authenticate(r, s, k) ==
    /\ k \in {"page", "confirm", "disable"}
    /\ Arrives(r, k, Nobody)
    /\ IF HasRecentAuthentication(s) THEN Goes(r, k) ELSE Answers(r, "login_page")
    /\ UNCHANGED <<world, typed, row, secretRead, step, history>>

\* TOTPPage, current.User.HasTOTP.
OpenPage(r) ==
    /\ pc[r] = "page"
    /\ IF enrolled THEN Answers(r, "enabled_page") ELSE Goes(r, "pending")
    /\ UNCHANGED <<world, local, history>>

\* TOTPPage, PendingEnrollment.
OpenPending(r) ==
    /\ pc[r] = "pending"
    /\ IF pending THEN Answers(r, "setup_page") ELSE Goes(r, "enroll")
    /\ UNCHANGED <<world, local, history>>

\* StartEnrollment replaces whatever secret is pending.
StartEnrollment(r) ==
    /\ pc[r] = "enroll"
    /\ pending' = TRUE
    /\ Answers(r, "setup_page")
    /\ UNCHANGED <<user, enrolled, epoch, lastStep, codes, failures,
                   credentials, clock, local, history>>

\* ConfirmTOTP, PendingEnrollment and Verify: without a pending secret, or with
\* a wrong code, the set-up page is shown again.
ConfirmRead(r) ==
    /\ pc[r] = "confirm"
    /\ \/ pending /\ Goes(r, "commit")
       \/ Answers(r, "setup_page")
    /\ UNCHANGED <<world, local, history>>

\* ConfirmEnrollment: the pending secret is confirmed and the backup codes are
\* replaced.
ConfirmEnrollment(r) ==
    /\ pc[r] = "commit"
    /\ ConfirmTOTPSecret
    /\ codes' = CodesOf(epoch + 1)
    /\ Answers(r, "backup_codes")
    /\ UNCHANGED <<user, failures, credentials, clock, local, history>>

\* DisableTOTP, current.User.HasTOTP.
DisableRead(r) ==
    /\ pc[r] = "disable"
    /\ IF enrolled THEN Goes(r, "clear") ELSE Answers(r, "account_page")
    /\ UNCHANGED <<world, local, history>>

\* Logout revokes the session of the cookie, then drops the challenge.
Logout(r, s, c) ==
    /\ Arrives(r, "logout", c)
    /\ RevokeSession(s)
    /\ Goes(r, "drop")
    /\ UNCHANGED <<user, secret, lastStep, codes, failures, attempts, tokens,
                   clock, typed, row, secretRead, step, history>>

-----------------------------------------------------------------------------
(* Failures and time *)

\* A statement fails or the client goes away: a transaction is rolled back, the
\* handler answers 500, and what it did before stays done.
Fail(r) ==
    /\ InFlight(r)
    /\ Answers(r, "error")
    /\ UNCHANGED <<world, local, history>>

\* The first use after the window or the lifetime of a thing has passed.
SessionAges(s) ==
    /\ \/ session[s] = "active" /\ session' = [session EXCEPT ![s] = "stale"]
       \/ session[s] = "stale" /\ session' = [session EXCEPT ![s] = "ended"]
    /\ UNCHANGED <<user, secret, lastStep, codes, failures, attempts, tokens,
                   clock, pc, local, reply, history>>

ChallengeExpires(c) ==
    /\ attempts[c] > 0
    /\ attempts' = WithoutChallenge(c)
    /\ UNCHANGED <<user, secret, lastStep, codes, failures, session, tokens,
                   clock, pc, local, reply, history>>

TokenExpires(t) ==
    /\ tokens[t] = "issued"
    /\ tokens' = [tokens EXCEPT ![t] = "spent"]
    /\ UNCHANGED <<user, secret, lastStep, codes, failures, attempts, session,
                   clock, pc, local, reply, history>>

\* recoveryAttemptWindow has passed for the oldest failure.
FailureExpires ==
    /\ failures > 0
    /\ failures' = failures - 1
    /\ UNCHANGED <<user, secret, lastStep, codes, credentials, clock, pc,
                   local, reply, history>>

Tick ==
    /\ clock < MaxStep
    /\ clock' = clock + 1
    /\ UNCHANGED <<user, secret, lastStep, codes, failures, credentials, pc,
                   local, reply, history>>

-----------------------------------------------------------------------------
(* Specification *)

Init ==
    /\ password \in Passwords
    /\ \E a \in InitialAccounts :
          /\ enrolled = a.enrolled /\ pending = a.pending /\ legacy = a.legacy
          /\ codes = IF a.enrolled THEN CodesOf(0) ELSE {}
    /\ lastStep = 0 /\ failures = 0 /\ clock = 1 /\ epoch = 0 /\ resets = 0
    /\ attempts = [r \in Requests |-> 0]
    /\ session = [r \in Requests |-> "none"]
    /\ tokens = [t \in Tokens |-> "none"]
    /\ pc = [r \in Requests |-> "idle"]
    /\ kind = [r \in Requests |-> "login"]
    /\ sent = [r \in Requests |-> Nobody]
    /\ typed = [r \in Requests |-> Wrong]
    /\ row = [r \in Requests |-> [hasTOTP |-> FALSE, legacy |-> FALSE]]
    /\ secretRead = [r \in Requests |-> 0]
    /\ step = [r \in Requests |-> 0]
    /\ reply = [r \in Requests |-> "none"]
    /\ readAt = [r \in Requests |-> 0]
    /\ born = [x \in Requests \cup Tokens |-> 0]
    /\ evidence = [r \in Requests |-> None]
    /\ usedIn = [r \in Requests |-> 0]

SignsIn(r) ==
    \/ \E c \in Cookies, p \in Passwords : LoginRead(r, c, p)
    \/ Rehash(r) \/ DropChallenge(r) \/ CreateChallenge(r) \/ StartSession(r)

Verifies(r) ==
    \/ \E c \in Cookies :
          CodePageRead(r, c) \/ TOTPRead(r, c) \/ CancelTOTPLogin(r, c)
    \/ CodePage(r) \/ ReadSecret(r) \/ Discard(r) \/ VerifyCode(r) \/ ConsumeStep(r)
    \/ RecordFailure(r)

Recovers(r) ==
    \/ \E c \in Cookies, p \in Passwords : RecoverRead(r, c, p)
    \/ RecoverCount(r) \/ Deny(r) \/ ConsumeBackupCode(r) \/ Clear(r)
    \/ RecordSuccess(r)

Resets(r) ==
    \/ \E t \in Tokens : ResetRead(r, t)
    \/ \E p \in Passwords : ResetPassword(r, p)
    \/ ResetRefused(r)

Administers(r) ==
    \/ \E s \in HeldSessions, k \in Kinds : Authenticate(r, s, k)
    \/ OpenPage(r) \/ OpenPending(r) \/ StartEnrollment(r)
    \/ ConfirmRead(r) \/ ConfirmEnrollment(r) \/ DisableRead(r)
    \/ \E s \in HeldSessions, c \in Cookies : Logout(r, s, c)

TimePasses ==
    \/ \E r \in Requests : SessionAges(r) \/ ChallengeExpires(r)
    \/ \E t \in Tokens : TokenExpires(t)
    \/ FailureExpires \/ Tick

Next ==
    \/ \E r \in Requests :
          \/ SignsIn(r) \/ Verifies(r) \/ Recovers(r) \/ Resets(r)
          \/ Administers(r) \/ Fail(r)
    \/ \E t \in Tokens : IssueToken(t)
    \/ TimePasses

Spec == Init /\ [][Next]_vars

-----------------------------------------------------------------------------
(* Properties *)

\* Every variable stays in its type; a challenge never has fewer than no
\* attempts left (the CHECK of totp_login_challenges).
TypeOK ==
    /\ password \in Passwords /\ legacy \in BOOLEAN
    /\ enrolled \in BOOLEAN /\ pending \in BOOLEAN
    /\ lastStep \in Nat /\ failures \in Nat /\ clock \in Nat
    /\ epoch \in Nat /\ resets \in Nat
    /\ codes \subseteq Nat \X Nat
    /\ attempts \in [Requests -> Nat]
    /\ session \in [Requests -> {"none", "active", "stale", "ended"}]
    /\ tokens \in [Tokens -> {"none", "issued", "spent"}]
    /\ pc \in [Requests -> Places]
    /\ kind \in [Requests -> Kinds]
    /\ sent \in [Requests -> Requests \cup Tokens \cup {Nobody}]
    /\ typed \in [Requests -> Passwords \cup {Wrong}]
    /\ row \in [Requests -> UserRows]
    /\ secretRead \in [Requests -> Nat]
    /\ step \in [Requests -> Nat]
    /\ reply \in [Requests -> Replies]
    /\ readAt \in [Requests -> Nat]
    /\ born \in [Requests \cup Tokens -> Nat]
    /\ evidence \in [Requests -> Steps \cup Codes \cup {None}]
    /\ usedIn \in [Requests -> Nat]

\* Of the requests that verified the same code of the authenticator at the same
\* time, one consumes its step: as long as the secret stands, and again each
\* time it is replaced or cleared, which forgets the last step under requests
\* that go on with the old secret.
StepAcceptedOnce ==
    \A r, s \in Requests :
        r # s /\ evidence[r] \in Steps /\ evidence[r] = evidence[s]
            => usedIn[r] # usedIn[s]

OneRecoveryPerCode ==
    \A r, s \in Requests :
        r # s /\ evidence[r] \in Codes => evidence[r] # evidence[s]

UnusedCodesArePresent ==
    /\ codes \subseteq CodesOf(epoch)
    /\ \A c \in CodesOf(epoch) :
          LET used == \E r \in Requests : evidence[r] = <<"code", c[1], c[2]>>
          IN (c \in codes => ~used) /\ (enrolled /\ c \notin codes => used)

\* A backup code recovers the account once, however many requests bring it; the
\* unused codes are those of the present secret, none of them has been used, and
\* while two-step verification is on none is missing unused.
BackupCodesAccounted == OneRecoveryPerCode /\ UnusedCodesArePresent

\* The wrong codes a challenge answered with another try, and the tries it has
\* left, never add up to more than it was given; the last try is never followed
\* by another.
Retried(c) == {r \in Requests : reply[r] = "retry" /\ sent[r] = c}
AttemptsAccounted ==
    \A c \in Requests :
        /\ Cardinality(Retried(c)) + attempts[c] <= ChallengeAttempts
        /\ Cardinality(Retried(c)) < ChallengeAttempts

\* A session rests on a second factor, unless its login read the account
\* without one; and the challenge that led to it can not be continued, even when
\* a statement failed between the two.
SessionsAreEarned ==
    \A r \in Requests :
        session[r] # "none" =>
            /\ (kind[r] = "login" => row[r].hasTOTP) => evidence[r] # None
            /\ kind[r] = "totp" => attempts[sent[r]] = 0

\* Nothing created before the last password reset still works: no session, no
\* reset link, no challenge.
ResetRetiresAll ==
    /\ \A r \in Requests :
          session[r] \in {"active", "stale"} \/ attempts[r] > 0 => born[r] = resets
    /\ \A t \in Tokens : tokens[t] = "issued" => born[t] = resets

\* The password changes by a reset, or is put back by a login that verified it
\* before a reset; a rehash alone never changes what the user must type.
RehashKeepsPassword ==
    [][ password' # password =>
          \/ resets' = resets + 1
          \/ \E r \in Requests :
                pc[r] = "rehash" /\ pc'[r] # "rehash" /\ readAt[r] < resets ]_vars

\* What the page after a reset says: the password has been changed, and the new
\* one is the one to log in with.  Nothing but another reset changes it.
ResetPasswordHolds ==
    [][ password' # password => resets' = resets + 1 ]_vars

\* What the page after a confirmation says: two-step verification is enabled.
EnabledPageIsTrue ==
    [][ \A r \in Requests :
          reply[r] # "backup_codes" /\ reply'[r] = "backup_codes" => enrolled' ]_vars

\* The steps of the authenticator whose time has come, with the secret of every
\* epoch, and the backup codes and reset tokens that were given out.
Issued ==
    ({"step"} \X (0..epoch) \X (1..clock))
    \cup ({"code"} \X (0..epoch) \X (1..BackupCodeCount))
    \cup ({"token"} \X {t \in Tokens : tokens[t] # "none"})
Usable ==
    ({"step"} \X {epoch} \X ((lastStep + 1)..clock))
    \cup {<<"code", c[1], c[2]>> : c \in codes}
    \cup ({"token"} \X {t \in Tokens : tokens[t] = "issued"})

\* Requests whose step was consumed when its secret no longer stood.
Late == {r \in Requests : evidence[r] \in Steps /\ usedIn[r] # evidence[r][2]}
Verified == {r \in Requests : evidence[r] # None} \ Late
SignedIn == {r \in Verified : session[r] # "none"}
HasReset == {r \in Requests : kind[r] = "reset" /\ reply[r] = "password_changed"}

Voucher == INSTANCE Vouchers WITH
    Holders <- Requests,
    issued <- Issued,
    live <- Usable,
    held <- {<<evidence[r], r>> : r \in Verified \ SignedIn},
    redeemed <- {<<evidence[r], r>> : r \in SignedIn}
                \cup {<<<<"token", sent[r]>>, r>> : r \in HasReset}

\* Backup codes, reset links, and the steps of a secret while it stands are used
\* once: of the requests that bring the same one at the same time, one gets a
\* session or a new password.  A step that is consumed late is no claim: it only
\* takes steps of the present secret out of circulation.
ImplementsVouchers == Voucher!Spec
=============================================================================
