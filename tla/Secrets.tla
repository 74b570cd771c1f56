------------------------------ MODULE Secrets ------------------------------
(***************************************************************************)
(* TOTP secrets at rest: the columns of users that hold them, the keyring  *)
(* that encrypts them, and their migration when a server starts.           *)
(*                                                                         *)
(* cmd/seed writes the secret of the starter data in plaintext, and a      *)
(* starting server encrypts what it finds: it lists the rows in a          *)
(* statement of its own, and writes them back, whole, in a transaction     *)
(* after it.  Another process may be serving, or draining, meanwhile.      *)
(*                                                                         *)
(* SignIn has the handlers step by step; here each is one read and one     *)
(* write.  Configured key versions are numbers: a rotation adds the next   *)
(* one, makes it active, and keeps the earlier ones.                       *)
(***************************************************************************)
EXTENDS Servers

CONSTANTS
    StarterSecrets, \* [Users -> the secret of the starter data, or None]
    MaxVersion      \* bound: key versions

None == "none"
NoPayload == [version |-> 0, secret |-> None]
NoRow == [legacy |-> None, stored |-> NoPayload, pending |-> NoPayload]

VARIABLES
    legacy,     \* [Users -> totp_secret]
    stored,     \* [Users -> totp_secret_encrypted]
    pending,    \* [Users -> pending_totp_secret_encrypted]
    active,     \* the active key version of the configuration
    keyring,    \* [Servers -> the active version it was started with]
    listed,     \* [Servers -> [Users -> the row it listed, or NoRow]]
    \* history
    seeds,      \* times that the starter data has been restored
    knew,       \* [Servers -> seeds when it listed]
    truth,      \* [Users -> the secret of their second factor, or None]
    disturbed   \* users who changed it while a plaintext was still to migrate

secretVars == <<legacy, stored, pending, active, keyring, listed, seeds, knew,
                truth, disturbed>>
columns == <<legacy, stored, pending>>
processes == <<active, keyring, listed, knew>>

\* The encrypted columns of users that have just been inserted.
Unencrypted == [u \in Users |-> NoPayload]

Encrypt(s, secret) == [version |-> keyring[s], secret |-> secret]
Decrypts(s, payload) == payload # NoPayload /\ payload.version <= keyring[s]

-----------------------------------------------------------------------------
(* The migration of a starting server *)

\* Fault: every row that has a secret is listed.
ListingEach(u) ==
    [legacy |-> legacy[u], stored |-> stored[u], pending |-> pending[u]]

\* ListLegacyTOTPSecrets: WHERE totp_secret IS NOT NULL.
Listing(u) ==
    IF legacy[u] = None THEN NoRow
    ELSE [legacy |-> legacy[u], stored |-> stored[u], pending |-> pending[u]]

\* The configuration is read, and the rows are listed.
Start(s) ==
    /\ up[s] = "off"
    /\ up' = [up EXCEPT ![s] = "listed"]
    /\ keyring' = [keyring EXCEPT ![s] = active]
    /\ listed' = [listed EXCEPT ![s] = [u \in Users |-> Listing(u)]]
    /\ knew' = [knew EXCEPT ![s] = seeds]
    /\ UNCHANGED <<at, by, who, columns, active, seeds, truth, disturbed>>

\* Fault: the plaintext moves to the other column as it is.
MigratedAsIs(s, row) == IF row.legacy = None THEN row.stored ELSE row.legacy

\* encryptMigratedSecret: a NULL plaintext leaves what was encrypted.
Migrated(s, row) ==
    IF row.legacy = None THEN row.stored ELSE Encrypt(s, row.legacy)

\* Fault: the plaintext stays.
MigrateKeeping(s) ==
    /\ up[s] = "listed"
    /\ up' = [up EXCEPT ![s] = "ready"]
    /\ stored' = [u \in Users |->
          IF listed[s][u] = NoRow THEN stored[u] ELSE Migrated(s, listed[s][u])]
    /\ pending' = [u \in Users |->
          IF listed[s][u] = NoRow THEN pending[u] ELSE listed[s][u].pending]
    /\ listed' = [listed EXCEPT ![s] = [u \in Users |-> NoRow]]
    /\ UNCHANGED <<at, by, who, legacy, active, keyring, knew, seeds, truth,
                   disturbed>>

\* UPDATE users SET totp_secret = NULL, ... for each row that was listed: the
\* encrypted columns are written as they were listed, whatever they hold now.
MigrateTOTPSecrets(s) ==
    /\ legacy' = [u \in Users |->
          IF listed[s][u] = NoRow THEN legacy[u] ELSE None]
    /\ stored' = [u \in Users |->
          IF listed[s][u] = NoRow THEN stored[u] ELSE Migrated(s, listed[s][u])]
    /\ pending' = [u \in Users |->
          IF listed[s][u] = NoRow THEN pending[u] ELSE listed[s][u].pending]

\* All rows in one transaction; what fails in it ends the process and changes
\* nothing.
Migrate(s) ==
    /\ up[s] = "listed"
    /\ up' = [up EXCEPT ![s] = "ready"]
    /\ MigrateTOTPSecrets(s)
    /\ listed' = [listed EXCEPT ![s] = [u \in Users |-> NoRow]]
    /\ UNCHANGED <<at, by, who, active, keyring, knew, seeds, truth,
                   disturbed>>

\* The operator adds a key version and makes it the active one.
Rotate ==
    /\ active < MaxVersion
    /\ active' = active + 1
    /\ UNCHANGED <<serverVars, columns, keyring, listed, seeds, knew, truth,
                   disturbed>>

-----------------------------------------------------------------------------
(* The handlers of a serving process *)

\* has_totp of GetUserByID.
HasTOTP(u) == legacy[u] # None \/ stored[u] # NoPayload

\* A server has listed a plaintext of u's, and has not written yet.
Outstanding(u) == \E s \in Servers : up[s] = "listed" /\ listed[s][u].legacy # None

\* The page reads the row and no pending secret is found.
OpenSetup(r, s, u) ==
    /\ Arrive(r, s, u, "setup")
    /\ ~HasTOTP(u) /\ pending[u] = NoPayload
    /\ UNCHANGED secretVars

\* StartEnrollment; the request stands for the secret that it generates.
StartEnrollment(r) ==
    /\ at[r] = "setup"
    /\ pending' = [pending EXCEPT ![who[r]] = Encrypt(by[r], r)]
    /\ Answer(r)
    /\ UNCHANGED <<legacy, stored, processes, seeds, truth, disturbed>>

\* The code is right for the pending secret, which this process can decrypt.
OpenConfirm(r, s, u) ==
    /\ Arrive(r, s, u, "confirm")
    /\ Decrypts(s, pending[u])
    /\ UNCHANGED secretVars

\* ConfirmTOTPSecret copies what is pending by now; totp_secret stays.
ConfirmEnrollment(r) ==
    /\ at[r] = "confirm"
    /\ stored' = [stored EXCEPT ![who[r]] = pending[who[r]]]
    /\ pending' = [pending EXCEPT ![who[r]] = NoPayload]
    /\ truth' = [truth EXCEPT ![who[r]] = pending[who[r]].secret]
    /\ disturbed' = disturbed \cup
          {u \in {who[r]} : legacy[u] # None \/ Outstanding(u)}
    /\ Answer(r)
    /\ UNCHANGED <<legacy, processes, seeds>>

\* Turning two-step verification off, and recovery with a backup code.
OpenDisable(r, s, u) ==
    /\ Arrive(r, s, u, "disable")
    /\ HasTOTP(u)
    /\ UNCHANGED secretVars

\* ClearTOTPSecrets: all the columns.
Clear(r) ==
    /\ at[r] = "disable"
    /\ legacy' = [legacy EXCEPT ![who[r]] = None]
    /\ stored' = [stored EXCEPT ![who[r]] = NoPayload]
    /\ pending' = [pending EXCEPT ![who[r]] = NoPayload]
    /\ truth' = [truth EXCEPT ![who[r]] = None]
    /\ disturbed' = disturbed \cup {u \in {who[r]} : Outstanding(u)}
    /\ Answer(r)
    /\ UNCHANGED <<processes, seeds>>

-----------------------------------------------------------------------------
\* Reset: the users are deleted and inserted again, and SetUserTOTPSecret
\* writes plaintext.
RestoreSecrets ==
    /\ legacy' = StarterSecrets
    /\ stored' = Unencrypted /\ pending' = Unencrypted
    /\ truth' = StarterSecrets
    /\ disturbed' = {}
    /\ seeds' = seeds + 1
    /\ UNCHANGED processes

SecretsInit ==
    /\ legacy = StarterSecrets /\ truth = StarterSecrets
    /\ stored = Unencrypted /\ pending = Unencrypted
    /\ active = 1
    /\ keyring = [s \in Servers |-> 0]
    /\ listed = [s \in Servers |-> [u \in Users |-> NoRow]]
    /\ seeds = 0
    /\ knew = [s \in Servers |-> 0]
    /\ disturbed = {}

SecretStep ==
    \/ \E s \in Servers : Start(s) \/ Migrate(s)
    \/ Rotate
    \/ \E r \in Requests, s \in Servers, u \in Users :
          OpenSetup(r, s, u) \/ OpenConfirm(r, s, u) \/ OpenDisable(r, s, u)
    \/ \E r \in Requests :
          StartEnrollment(r) \/ ConfirmEnrollment(r) \/ Clear(r)
=============================================================================
