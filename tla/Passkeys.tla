------------------------------ MODULE Passkeys ------------------------------
(***************************************************************************)
(* Passkeys: internal/auth/passkeys and the queries it runs.               *)
(*                                                                         *)
(* POST /auth/passkey and POST /account/passkey/verify consume a challenge *)
(* in one statement, read the credentials in others, let the WebAuthn      *)
(* library judge in memory, and write the outcome; deletions and other     *)
(* requests run between any two of these.  A client may post a response    *)
(* again (a retry), and may present any credential it has.                 *)
(*                                                                         *)
(* The library is modelled from how the handler uses it: it accepts a      *)
(* signature over the consumed challenge by a credential in the list it    *)
(* was given, and returns the counter to be stored.  Its clone warning is  *)
(* not read, so a counter decides nothing.                                 *)
(***************************************************************************)
EXTENDS Naturals, FiniteSets

CONSTANTS
    Users,
    Keys,           \* credentials that authenticators hold
    Challenges,     \* challenge ids, each created once
    Logins,         \* POST /auth/passkey
    Registrations,  \* POST /account/passkey/verify
    MaxSigns        \* bound: signatures of one authenticator

Nobody == "nobody"
Requests == Logins \cup Registrations

ASSUME PasskeysAssumption ==
    /\ Nobody \notin Users
    /\ Logins \cap Registrations = {}
    /\ MaxSigns \in Nat

VARIABLES
    \* passkey_challenges and passkey_credentials
    challenge,  \* [Challenges -> "new", "live", "expired" or "gone"]
    purpose,    \* [Challenges -> their user_id, Nobody for logins]
    holder,     \* [Keys -> the user_id of their row, or Nobody]
    counter,    \* [Keys -> the counter of their row]
    \* clients
    signs,      \* [Keys -> signatures made so far]
    \* requests
    at,         \* [Requests -> where the handler is]
    asked,      \* [Requests -> the response that was posted]
    account,    \* [Requests -> the account that the handler works for]
    seen,       \* [Logins -> the stored counter that it read]
    session,    \* logins that have created a session
    \* history
    overtaken,  \* logins whose credential went after it was judged
    spent       \* [Challenges -> sessions and credentials they led to]

rows == <<challenge, purpose, holder, counter>>
login == <<seen, session>>
vars == <<rows, signs, at, asked, account, login, overtaken, spent>>

Places == {"idle", "posted", "consumed", "found", "judged", "counted",
           "created", "done", "failed"}
Responses == [id : Challenges, key : Keys, signed : Challenges,
              count : 0..MaxSigns]
NoResponse == [id |-> Nobody, key |-> Nobody, signed |-> Nobody, count |-> 0]
Past == {"judged", "counted"}

Goes(r, place) == at' = [at EXCEPT ![r] = place]

-----------------------------------------------------------------------------
(* Challenges *)

\* Fault: a challenge is looked up, and deleted with the expired ones later.
ConsumeKeeping(r) ==
    /\ at[r] = "posted" /\ challenge[asked[r].id] = "live"
    /\ Goes(r, "consumed")
    /\ UNCHANGED <<rows, signs, asked, account, login, overtaken, spent>>

\* What DeleteExpiredPasskeyChallenges leaves of the table.
Unexpired ==
    [d \in Challenges |->
        IF challenge[d] = "expired" THEN "gone" ELSE challenge[d]]

\* CreatePasskeyChallenge: a fresh id every time.
CreatePasskeyChallenge(c, u) ==
    /\ challenge[c] = "new"
    /\ challenge' = [Unexpired EXCEPT ![c] = "live"]
    /\ purpose' = [purpose EXCEPT ![c] = u]

\* CreateChallenge deletes the expired challenges first.
Begin(c, u) ==
    /\ CreatePasskeyChallenge(c, u)
    /\ UNCHANGED <<holder, counter, signs, at, asked, account, login,
                   overtaken, spent>>

\* user_id stays NULL for a login.
BeginLogin(c) == Begin(c, Nobody)
BeginRegistration(c, u) == Begin(c, u)

Expire(c) ==
    /\ challenge[c] = "live"
    /\ challenge' = [challenge EXCEPT ![c] = "expired"]
    /\ UNCHANGED <<purpose, holder, counter, signs, at, asked, account, login,
                   overtaken, spent>>

\* DELETE ... RETURNING.
ConsumePasskeyChallenge(c) == challenge' = [challenge EXCEPT ![c] = "gone"]

\* ConsumeChallenge: the row goes, then its time is looked at.
Consume(r) ==
    /\ at[r] = "posted" /\ challenge[asked[r].id] = "live"
    /\ ConsumePasskeyChallenge(asked[r].id)
    /\ Goes(r, "consumed")
    /\ UNCHANGED <<purpose, holder, counter, signs, asked, account, login,
                   overtaken, spent>>

ConsumeLate(r) ==
    /\ at[r] = "posted" /\ challenge[asked[r].id] # "live"
    /\ ConsumePasskeyChallenge(asked[r].id)
    /\ Goes(r, "failed")
    /\ UNCHANGED <<purpose, holder, counter, signs, asked, account, login,
                   overtaken, spent>>

\* A read or a write fails, or the response is not what it should be.
Fail(r) ==
    /\ at[r] \notin {"idle", "done", "failed"}
    /\ Goes(r, "failed")
    /\ UNCHANGED <<rows, signs, asked, account, login, overtaken, spent>>

-----------------------------------------------------------------------------
(* POST /auth/passkey *)

Begun == {c \in Challenges : challenge[c] # "new"}

\* An authenticator signs a challenge, and the browser posts the response.
PostLogin(r) ==
    /\ at[r] = "idle"
    /\ \E k \in Keys, c \in Begun :
          /\ signs[k] < MaxSigns
          /\ signs' = [signs EXCEPT ![k] = @ + 1]
          /\ asked' = [asked EXCEPT ![r] =
                [id |-> c, key |-> k, signed |-> c, count |-> signs[k] + 1]]
    /\ Goes(r, "posted")
    /\ UNCHANGED <<rows, account, login, overtaken, spent>>

\* The browser posts a response again, for the same or another challenge id.
PostAgain(r) ==
    /\ at[r] = "idle"
    /\ \E other \in Logins \ {r}, c \in Begun :
          /\ at[other] # "idle"
          /\ asked' = [asked EXCEPT ![r] = [asked[other] EXCEPT !.id = c]]
    /\ Goes(r, "posted")
    /\ UNCHANGED <<rows, signs, account, login, overtaken, spent>>

\* CredentialAccountID.
FindAccount(r) ==
    /\ at[r] = "consumed" /\ holder[asked[r].key] # Nobody
    /\ account' = [account EXCEPT ![r] = holder[asked[r].key]]
    /\ Goes(r, "found")
    /\ UNCHANGED <<rows, signs, asked, login, overtaken, spent>>

\* Fault: the credential found by its id is judged, without the account's list.
JudgeFound(r) ==
    /\ at[r] = "found" /\ asked[r].signed = asked[r].id
    /\ seen' = [seen EXCEPT ![r] = counter[asked[r].key]]
    /\ Goes(r, "judged")
    /\ UNCHANGED <<rows, signs, asked, account, session, overtaken, spent>>

\* ListPasskeyCredentials.
CredentialsOf(u) == {k \in Keys : holder[k] = u}

\* User lists the account's credentials, and ValidateLogin judges by them.
Judge(r) ==
    /\ at[r] = "found"
    /\ asked[r].key \in CredentialsOf(account[r])
    /\ asked[r].signed = asked[r].id
    /\ seen' = [seen EXCEPT ![r] = counter[asked[r].key]]
    /\ Goes(r, "judged")
    /\ UNCHANGED <<rows, signs, asked, account, session, overtaken, spent>>

\* Fault: the counter of the response is stored whatever it is.
SignCountAsSent(r) == asked[r].count

\* Authenticator.UpdateCounter: a counter that did not grow is a warning, and
\* the stored one stands.
SignCount(r) ==
    IF asked[r].count > seen[r] THEN asked[r].count ELSE seen[r]

\* Fault: a row that is gone is written again.
WriteCounterUpsert(r) ==
    /\ at[r] = "judged"
    /\ counter' = [counter EXCEPT ![asked[r].key] = SignCount(r)]
    /\ Goes(r, "counted")
    /\ UNCHANGED <<challenge, purpose, holder, signs, asked, account, login,
                   overtaken, spent>>

\* UPDATE ... WHERE credential_id = ?: the row may be gone, or another's.
UpdatePasskeyCredentialCounter(k, n) ==
    counter' = [counter EXCEPT ![k] = IF holder[k] = Nobody THEN @ ELSE n]

\* UpdateCounter writes without looking.
WriteCounter(r) ==
    /\ at[r] = "judged"
    /\ UpdatePasskeyCredentialCounter(asked[r].key, SignCount(r))
    /\ Goes(r, "counted")
    /\ UNCHANGED <<challenge, purpose, holder, signs, asked, account, login,
                   overtaken, spent>>

CreateSession(r) ==
    /\ at[r] = "counted"
    /\ session' = session \cup {r}
    /\ spent' = [spent EXCEPT ![asked[r].id] = @ + 1]
    /\ Goes(r, "created")
    /\ UNCHANGED <<rows, signs, asked, account, seen, overtaken>>

\* DeleteChallenge of the browser's pending TOTP login, a row of another table
\* that nothing here reads, and the answer with the cookie.
Finish(r) ==
    /\ at[r] = "created"
    /\ Goes(r, "done")
    /\ UNCHANGED <<rows, signs, asked, account, login, overtaken, spent>>

-----------------------------------------------------------------------------
(* POST /account/passkey/verify and .../{id}/delete *)

\* sessions.Current found a recent session of u.
PostRegistration(r, u) ==
    /\ at[r] = "idle"
    /\ \E k \in Keys, c \in Begun :
          asked' = [asked EXCEPT ![r] =
                      [id |-> c, key |-> k, signed |-> c, count |-> signs[k]]]
    /\ account' = [account EXCEPT ![r] = u]
    /\ Goes(r, "posted")
    /\ UNCHANGED <<rows, signs, login, overtaken, spent>>

\* The challenge is the user's own, and FinishRegistration accepts.
Accept(r) ==
    /\ at[r] = "consumed" /\ purpose[asked[r].id] = account[r]
    /\ Goes(r, "judged")
    /\ UNCHANGED <<rows, signs, asked, account, login, overtaken, spent>>

\* credential_id is UNIQUE.
CreatePasskeyCredential(k, u, n) ==
    /\ holder[k] = Nobody
    /\ holder' = [holder EXCEPT ![k] = u]
    /\ counter' = [counter EXCEPT ![k] = n]

\* StoreCredential.
Store(r) ==
    /\ at[r] = "judged"
    /\ CreatePasskeyCredential(asked[r].key, account[r], asked[r].count)
    /\ spent' = [spent EXCEPT ![asked[r].id] = @ + 1]
    /\ Goes(r, "done")
    /\ UNCHANGED <<challenge, purpose, signs, asked, account, login,
                   overtaken>>

\* DELETE ... WHERE id = ? AND user_id = ?.
DeletePasskeyCredential(k) ==
    /\ holder[k] # Nobody
    /\ holder' = [holder EXCEPT ![k] = Nobody]
    /\ counter' = [counter EXCEPT ![k] = 0]

\* DeleteCredential, by a recent session of the holder.
DeleteCredential(k) ==
    /\ DeletePasskeyCredential(k)
    /\ overtaken' = overtaken \cup
          {r \in Logins : at[r] \in Past /\ asked[r].key = k}
    /\ UNCHANGED <<challenge, purpose, signs, at, asked, account, login,
                   spent>>

-----------------------------------------------------------------------------
Init ==
    /\ challenge = [c \in Challenges |-> "new"]
    /\ purpose = [c \in Challenges |-> Nobody]
    /\ holder \in [Keys -> Users \cup {Nobody}]
    /\ counter = [k \in Keys |-> 0]
    /\ signs = [k \in Keys |-> 0]
    /\ at = [r \in Requests |-> "idle"]
    /\ asked = [r \in Requests |-> NoResponse]
    /\ account = [r \in Requests |-> Nobody]
    /\ seen = [r \in Logins |-> 0]
    /\ session = {}
    /\ overtaken = {}
    /\ spent = [c \in Challenges |-> 0]

LoginStep(r) ==
    \/ PostLogin(r) \/ PostAgain(r) \/ FindAccount(r) \/ Judge(r)
    \/ WriteCounter(r) \/ CreateSession(r) \/ Finish(r)

RegistrationStep(r) ==
    (\E u \in Users : PostRegistration(r, u)) \/ Accept(r) \/ Store(r)

Next ==
    \/ \E c \in Challenges :
          \/ Expire(c) \/ BeginLogin(c)
          \/ \E u \in Users : BeginRegistration(c, u)
    \/ \E r \in Requests : Consume(r) \/ ConsumeLate(r) \/ Fail(r)
    \/ \E r \in Logins : LoginStep(r)
    \/ \E r \in Registrations : RegistrationStep(r)
    \/ \E k \in Keys : DeleteCredential(k)

Spec == Init /\ [][Next]_vars

-----------------------------------------------------------------------------
(* What passkeys promise *)

\* Every variable keeps its type; UpdateCounter leaves no counter behind where
\* the row is gone, nor one ahead of the authenticator that counts.
TypeOK ==
    /\ challenge \in [Challenges -> {"new", "live", "expired", "gone"}]
    /\ purpose \in [Challenges -> Users \cup {Nobody}]
    /\ holder \in [Keys -> Users \cup {Nobody}]
    /\ counter \in [Keys -> Nat] /\ signs \in [Keys -> 0..MaxSigns]
    /\ \A k \in Keys :
          counter[k] <= IF holder[k] = Nobody THEN 0 ELSE signs[k]
    /\ at \in [Requests -> Places]
    /\ asked \in [Requests -> Responses \cup {NoResponse}]
    /\ \A r \in Requests : at[r] # "idle" => asked[r] \in Responses
    /\ account \in [Requests -> Users \cup {Nobody}]
    /\ seen \in [Logins -> Nat]
    /\ session \subseteq Logins /\ overtaken \subseteq Logins
    /\ spent \in [Challenges -> Nat]

\* ConsumeChallenge: however responses are posted again and requests race, a
\* challenge leads to one session or one credential at most.
ChallengeUsedOnce == \A c \in Challenges : spent[c] <= 1

Claimants == {r \in Requests : at[r] \in {"consumed", "found", "judged", "counted"}}
Winners == session \cup {r \in Registrations : at[r] = "done"}

Voucher == INSTANCE Vouchers WITH
    Holders <- Requests,
    issued <- Begun,
    live <- {c \in Challenges : challenge[c] = "live"},
    held <- {<<asked[r].id, r>> : r \in Claimants},
    redeemed <- {<<asked[r].id, r>> : r \in Winners}

\* ConsumeChallenge makes a challenge a thing that is used once: the request
\* that deletes its row holds it, and a session or a credential redeems it.
ImplementsVouchers == Voucher!Spec

\* CompleteLogin: a passkey that has been deleted opens no session, but for a
\* login that the library had judged before the deletion.
DeletionStopsLogins ==
    [][\A r \in session' \ session :
          holder[asked[r].key] = account[r] \/ r \in overtaken]_vars

\* UpdateCounter: the counter of a row falls only when a login writes what it
\* has judged by an older one, another login having written in between.
CountersFallOnlyBehind ==
    [][\A k \in Keys :
          holder[k] # Nobody /\ holder'[k] = holder[k]
                /\ counter'[k] < counter[k] =>
             \E r \in Logins : /\ at[r] = "judged" /\ asked[r].key = k
                               /\ seen[r] < counter[k]]_vars
=============================================================================
