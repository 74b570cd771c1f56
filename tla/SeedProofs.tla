----------------------------- MODULE SeedProofs -----------------------------
(***************************************************************************)
(* What Reviews, Secrets and Seed promise, for any number of users,        *)
(* processes, requests, key versions and seedings.                         *)
(***************************************************************************)
EXTENDS Seed, TLAPS

\* Payloads that are on their way to a column are under configured versions.
Configured ==
    /\ \A s \in Servers : up[s] # "off" => keyring[s] >= 1
    /\ \A u \in Users : pending[u].version <= active
    /\ \A s \in Servers, u \in Users :
          /\ listed[s][u].stored.version <= active
          /\ listed[s][u].pending.version <= active

\* A request that has read a review knows the row, or an earlier one.
Known ==
    \A r \in Requests : at[r] \in {"edit", "remove"} =>
       /\ known[r] <= given[target[r]]
       /\ known[r] = given[target[r]] /\ review[target[r]] # NoReview
             => review[target[r]].user = who[r]

\* A review changes by a request that knows the row, or an earlier one.
ByAuthors ==
    \A i \in Ids :
       review[i] # NoReview /\ review'[i] # review[i] /\ seeds' = seeds =>
          \E r \in Requests :
             /\ at[r] \in {"edit", "remove"} /\ at'[r] # at[r]
             /\ target[r] = i
             /\ review[i].user = who[r] \/ known[r] < given[i]

\* Plaintext is the starter data's, where it is and where it was listed.
FromStarter ==
    /\ \A u \in Users : legacy[u] \in {None, StarterSecrets[u]}
    /\ \A s \in Servers, u \in Users :
          \/ listed[s][u] = NoRow
          \/ listed[s][u].legacy # None
                /\ listed[s][u].legacy = StarterSecrets[u]

\* An undisturbed user's plaintext, listed or not, is the present secret.
Undisturbed ==
    \A u \in Users \ disturbed :
       /\ legacy[u] # None => legacy[u] = truth[u]
       /\ \A s \in Servers :
             up[s] = "listed" /\ listed[s][u] # NoRow =>
                listed[s][u].legacy = truth[u]

\* A server that has listed knows of every plaintext but those restored since.
Lists ==
    \A s \in Servers :
       /\ knew[s] <= seeds
       /\ \A u \in Users : up[s] = "listed" /\ legacy[u] # None =>
             listed[s][u] # NoRow \/ knew[s] < seeds

\* A handler lives in a process that lives.
LEMMA NextKeepsLiveHandlers ==
    ASSUME TypeOK, [Next]_vars
    PROVE  LiveHandlers'
<1>1. ASSUME NEW s \in Servers, Serve(s) \/ Stop(s) \/ Exit(s)
      PROVE  LiveHandlers'
    BY <1>1, SeedAssumption, TypeOK
       DEF Serve, Stop, Exit, Held, TypeOK, LiveHandlers, Phases
<1>2. ASSUME NEW r \in Requests, NEW s \in Servers, NEW u \in Users, NEW place
             \in {"review", "edit", "remove", "setup", "confirm", "disable"},
             Arrive(r, s, u, place)
      PROVE  LiveHandlers'
    BY <1>2, SeedAssumption, TypeOK DEF Arrive, TypeOK, LiveHandlers, Phases
<1>3. ASSUME NEW r \in Requests, Answer(r)
      PROVE  LiveHandlers'
    BY <1>3, SeedAssumption, TypeOK DEF Answer, TypeOK, LiveHandlers, Phases
<1>4. ASSUME NEW s \in Servers, Start(s) \/ Migrate(s)
      PROVE  LiveHandlers'
    BY <1>4, SeedAssumption, TypeOK
       DEF Start, Migrate, MigrateTOTPSecrets, TypeOK, LiveHandlers, Phases
<1>5. CASE UNCHANGED serverVars
    BY <1>5, TypeOK DEF serverVars, TypeOK, LiveHandlers, Phases
<1>q. QED
    BY <1>1, <1>2, <1>3, <1>4, <1>5
       DEF Next, ServerStep, ReviewStep, SecretStep, vars, serverVars,
           reviewVars, secretVars, columns, processes, Fail, OpenReview,
           Require, CreateReview, UpdateReview, DeleteReview, Start, Migrate,
           MigrateTOTPSecrets, Rotate, OpenSetup, OpenConfirm, OpenDisable,
           StartEnrollment, ConfirmEnrollment, Clear, Reset

\* The reviews keep their columns.
LEMMA NextKeepsReviewRows ==
    ASSUME TypeOK, [Next]_vars
    PROVE  ReviewRows'
<1>1. ASSUME NEW r \in Requests, NEW s \in Servers, NEW u \in Users, NEW place
             \in {"edit", "remove"}, Require(r, s, u, place)
      PROVE  ReviewRows'
    BY <1>1, SeedAssumption, TypeOK
       DEF Require, Arrive, Owns, InUse, TypeOK, LiveHandlers, ReviewRows,
           Ids, NoReview
<1>2. ASSUME NEW r \in Requests, CreateReview(r)
      PROVE  ReviewRows'
  <2>1. [user |-> who[r], text |-> who[r]] \in [user : Users, text : Users]
      BY <1>2, TypeOK DEF TypeOK, LiveHandlers, CreateReview
  <2>2. PICK i \in Ids :
           /\ review' = [review EXCEPT ![i] =
                            [user |-> who[r], text |-> who[r]]]
           /\ given' = [given EXCEPT ![i] = @ + 1]
      BY <1>2 DEF CreateReview
  <2>q. QED
      BY <1>2, <2>1, <2>2, TypeOK DEF TypeOK, ReviewRows, CreateReview
<1>3. ASSUME NEW r \in Requests, UpdateReview(r)
      PROVE  ReviewRows'
    BY <1>3, SeedAssumption, TypeOK
       DEF UpdateReview, Reworded, Answer, TypeOK, LiveHandlers, ReviewRows,
           Ids, NoReview
<1>4. ASSUME NEW r \in Requests, DeleteReview(r)
      PROVE  ReviewRows'
    BY <1>4, SeedAssumption, TypeOK
       DEF DeleteReview, Answer, TypeOK, LiveHandlers, ReviewRows, Ids,
           NoReview
<1>5. ASSUME Reset
      PROVE  ReviewRows'
    BY <1>5, SeedAssumption, TypeOK
       DEF Reset, RestoreReviews, RestoreSecrets, Unencrypted, Starter,
           RestoreReviews, Starter, TypeOK, LiveHandlers, ReviewRows, Ids,
           NoReview
<1>6. CASE UNCHANGED reviewVars
    BY <1>6, TypeOK
       DEF reviewVars, TypeOK, LiveHandlers, ReviewRows, Ids, NoReview
<1>q. QED
    BY <1>1, <1>2, <1>3, <1>4, <1>5, <1>6
       DEF Next, ServerStep, ReviewStep, SecretStep, vars, serverVars,
           reviewVars, secretVars, columns, processes, Serve, Stop, Exit,
           Fail, OpenReview, Start, Migrate, MigrateTOTPSecrets, Rotate,
           OpenSetup, OpenConfirm, OpenDisable, StartEnrollment,
           ConfirmEnrollment, Clear, Answer, Arrive

\* No secret, and no payload, are among the secrets and the payloads.
LEMMA Blanks == /\ None \in Texts /\ NoPayload \in Payloads
                /\ NoRow \in Rows /\ StarterSecrets \in [Users -> Texts]
                /\ \A r \in Requests : r \in Texts \ {None}
<1>1. None \in Texts /\ NoPayload \in Payloads
    BY DEF Texts, Payloads
<1>2. NoRow \in Rows
    BY <1>1 DEF NoRow, Rows
<1>3. StarterSecrets \in [Users -> Texts]
    BY SeedAssumption DEF Texts
<1>4. \A r \in Requests : r \in Texts \ {None}
    BY SeedAssumption DEF Texts
<1>q. QED
    BY <1>1, <1>2, <1>3, <1>4

\* A process that has started encrypts under a configured version.
LEMMA EncryptPays ==
    ASSUME TypeOK, Configured, NEW s \in Servers, up[s] # "off",
           NEW secret \in Texts, secret # None
    PROVE  /\ Encrypt(s, secret) \in Payloads
           /\ Encrypt(s, secret) # NoPayload
           /\ Encrypt(s, secret).version <= active
           /\ Encrypt(s, secret).secret = secret
<1>1. keyring[s] \in 1..MaxVersion /\ keyring[s] <= active
    BY SeedAssumption DEF TypeOK, Versions, Configured
<1>q. QED
    BY <1>1, SeedAssumption DEF Encrypt, Payloads, NoPayload

\* What a process makes of a row it listed.
LEMMA MigratedPays ==
    ASSUME TypeOK, Configured, NEW s \in Servers, up[s] # "off",
           NEW u \in Users
    PROVE  /\ Migrated(s, listed[s][u]) \in Payloads
           /\ Migrated(s, listed[s][u]).version <= active
           /\ listed[s][u].pending \in Payloads
           /\ listed[s][u].pending.version <= active
<1>1. /\ listed[s][u].legacy \in Texts
      /\ listed[s][u].stored \in Payloads /\ listed[s][u].pending \in Payloads
    BY DEF TypeOK, SecretColumns, Rows
<1>2. /\ listed[s][u].stored.version <= active
      /\ listed[s][u].pending.version <= active
    BY DEF Configured
<1>q. QED
    BY <1>1, <1>2, EncryptPays DEF Migrated

\* The encrypted columns hold payloads.
LEMMA NextKeepsSecretColumns ==
    ASSUME TypeOK, Configured, [Next]_vars
    PROVE  SecretColumns'
<1>1. ASSUME NEW s \in Servers, Start(s)
      PROVE  SecretColumns'
  <2>1. \A u \in Users : Listing(u) \in Rows
      BY TypeOK, Blanks DEF TypeOK, SecretColumns, Listing, Rows
  <2>q. QED
      BY <1>1, <2>1, TypeOK DEF Start, columns, TypeOK, SecretColumns
<1>2. ASSUME NEW s \in Servers, Migrate(s)
      PROVE  SecretColumns'
  <2>1. \A u \in Users :
           /\ Migrated(s, listed[s][u]) \in Payloads
           /\ Migrated(s, listed[s][u]).version <= active
           /\ listed[s][u].pending \in Payloads
      BY <1>2, TypeOK, Configured, MigratedPays DEF Migrate,
         MigrateTOTPSecrets
  <2>q. QED
      BY <1>2, <2>1, TypeOK, Blanks DEF TypeOK, SecretColumns, Migrate,
         MigrateTOTPSecrets
<1>3. ASSUME Rotate
      PROVE  SecretColumns'
  <2>1. /\ \A u \in Users : stored[u].version \in Nat
        /\ active \in Nat /\ active' = active + 1
      BY <1>3, TypeOK
         DEF TypeOK, SecretColumns, Payloads, NoPayload, Versions, Rotate
  <2>2. \A u \in Users : stored[u].version <= active'
      BY <2>1, TypeOK DEF TypeOK, SecretColumns
  <2>q. QED
      BY <1>3, <2>2, TypeOK DEF Rotate, columns, TypeOK, SecretColumns
<1>4. ASSUME NEW r \in Requests, StartEnrollment(r)
      PROVE  SecretColumns'
  <2>1. who[r] \in Users /\ by[r] \in Servers /\ up[by[r]] # "off"
      BY <1>4, TypeOK DEF TypeOK, LiveHandlers, StartEnrollment
  <2>2. Encrypt(by[r], r) \in Payloads
      BY <2>1, TypeOK, Configured, Blanks, EncryptPays
  <2>q. QED
      BY <1>4, <2>2, TypeOK
         DEF TypeOK, SecretColumns, StartEnrollment, processes
<1>5. ASSUME NEW r \in Requests, ConfirmEnrollment(r)
      PROVE  SecretColumns'
  <2>1. who[r] \in Users
      BY <1>5, TypeOK DEF TypeOK, LiveHandlers, ConfirmEnrollment
  <2>2. /\ pending[who[r]] \in Payloads /\ pending[who[r]].version <= active
        /\ pending[who[r]].secret \in Texts
      BY <2>1, TypeOK, Configured
         DEF TypeOK, SecretColumns, Configured, Payloads, NoPayload, Texts
  <2>q. QED
      BY <1>5, <2>1, <2>2, TypeOK, Blanks
         DEF TypeOK, SecretColumns, ConfirmEnrollment, processes
<1>6. ASSUME NEW r \in Requests, Clear(r)
      PROVE  SecretColumns'
  <2>1. NoPayload.version <= active
      BY TypeOK DEF TypeOK, Versions, NoPayload
  <2>q. QED
      BY <1>6, <2>1, TypeOK, Blanks DEF TypeOK, SecretColumns, Clear, processes
<1>7. ASSUME Reset
      PROVE  SecretColumns'
  <2>1. NoPayload.version <= active
      BY TypeOK DEF TypeOK, Versions, NoPayload
  <2>q. QED
      BY <1>7, <2>1, TypeOK, Blanks
         DEF TypeOK, SecretColumns, Reset, RestoreSecrets, Unencrypted,
             processes
<1>8. CASE UNCHANGED <<columns, active, listed, truth>>
    BY <1>8, TypeOK, Configured, Blanks
       DEF columns, TypeOK, SecretColumns, Versions, Rows
<1>q. QED
    BY <1>1, <1>2, <1>3, <1>4, <1>5, <1>6, <1>7, <1>8
       DEF Next, ServerStep, ReviewStep, SecretStep, vars, serverVars,
           reviewVars, secretVars, columns, processes, Serve, Stop, Exit,
           Fail, OpenReview, Require, CreateReview, UpdateReview,
           DeleteReview, OpenSetup, OpenConfirm, OpenDisable, Answer, Arrive

\* Rotate leaves every process a version that is configured.
LEMMA NextKeepsVersions ==
    ASSUME TypeOK, [Next]_vars
    PROVE  Versions'
<1>1. ASSUME NEW s \in Servers, Start(s)
      PROVE  Versions'
    BY <1>1, SeedAssumption, TypeOK
       DEF Start, Listing, TypeOK, LiveHandlers, Versions
<1>2. ASSUME Rotate
      PROVE  Versions'
    BY <1>2, SeedAssumption, TypeOK DEF Rotate, TypeOK, LiveHandlers, Versions
<1>3. ASSUME NEW r \in Requests, ConfirmEnrollment(r)
      PROVE  Versions'
    BY <1>3, SeedAssumption, TypeOK
       DEF ConfirmEnrollment, Outstanding, Answer, processes, TypeOK,
           LiveHandlers, Versions
<1>4. ASSUME NEW r \in Requests, Clear(r)
      PROVE  Versions'
    BY <1>4, SeedAssumption, TypeOK
       DEF Clear, Outstanding, Answer, processes, TypeOK, LiveHandlers,
           Versions
<1>5. ASSUME Reset
      PROVE  Versions'
    BY <1>5, SeedAssumption, TypeOK
       DEF Reset, RestoreReviews, RestoreSecrets, Unencrypted, Starter,
           processes, TypeOK, LiveHandlers, Versions
<1>6. CASE UNCHANGED <<active, keyring, seeds, knew, disturbed>>
    BY <1>6, TypeOK DEF TypeOK, LiveHandlers, Versions
<1>q. QED
    BY <1>1, <1>2, <1>3, <1>4, <1>5, <1>6
       DEF Next, ServerStep, ReviewStep, SecretStep, vars, serverVars,
           reviewVars, secretVars, columns, processes, Serve, Stop, Exit,
           Fail, OpenReview, Require, CreateReview, UpdateReview,
           DeleteReview, Migrate, MigrateTOTPSecrets, OpenSetup, OpenConfirm,
           OpenDisable, StartEnrollment, Answer, Arrive

\* Every step keeps to the configured versions.
LEMMA NextKeepsConfigured ==
    ASSUME TypeOK, Configured, [Next]_vars
    PROVE  Configured'
<1>1. ASSUME NEW s \in Servers, Serve(s) \/ Stop(s) \/ Exit(s),
             UNCHANGED secretVars
      PROVE  Configured'
    BY <1>1, SeedAssumption, TypeOK, Configured
       DEF secretVars, Serve, Stop, Exit, Held, TypeOK, LiveHandlers,
           SecretColumns, Versions, Configured
<1>2. ASSUME NEW s \in Servers, Start(s)
      PROVE  Configured'
    BY <1>2, SeedAssumption, TypeOK, Configured
       DEF Start, Listing, NoRow, NoPayload, columns, TypeOK, LiveHandlers,
           SecretColumns, Versions, Configured
<1>3. ASSUME NEW s \in Servers, Migrate(s)
      PROVE  Configured'
  <2>1. \A u \in Users : listed[s][u].pending.version <= active
      BY Configured DEF Configured
  <2>q. QED
      BY <1>3, <2>1, TypeOK, Configured
         DEF TypeOK, SecretColumns, Versions, LiveHandlers, Configured,
             Migrate, MigrateTOTPSecrets, NoRow, NoPayload
<1>4. ASSUME Rotate
      PROVE  Configured'
  <2>1. active' = active + 1 /\ active \in Nat
      BY <1>4, TypeOK DEF TypeOK, Versions, Rotate
  <2>2. \A payload \in Payloads : payload.version <= active
           => payload.version <= active'
    <3>1. \A payload \in Payloads : payload.version \in Nat
        BY DEF Payloads, NoPayload
    <3>q. QED
        BY <2>1, <3>1
  <2>q. QED
      BY <1>4, <2>2, TypeOK, Configured
         DEF TypeOK, SecretColumns, Rows, Configured, Rotate, columns,
             serverVars
<1>5. ASSUME NEW r \in Requests, StartEnrollment(r)
      PROVE  Configured'
  <2>1. who[r] \in Users /\ by[r] \in Servers /\ up[by[r]] # "off"
      BY <1>5, TypeOK DEF TypeOK, LiveHandlers, StartEnrollment
  <2>2. Encrypt(by[r], r).version <= active
      BY <2>1, TypeOK, Configured, Blanks, EncryptPays
  <2>q. QED
      BY <1>5, <2>2, TypeOK, Configured
         DEF TypeOK, SecretColumns, Configured, StartEnrollment, Answer,
             processes
<1>6. ASSUME NEW r \in Requests, ConfirmEnrollment(r)
      PROVE  Configured'
    BY <1>6, SeedAssumption, TypeOK, Configured
       DEF ConfirmEnrollment, Outstanding, Answer, NoPayload, processes,
           TypeOK, LiveHandlers, SecretColumns, Versions, Configured
<1>7. ASSUME NEW r \in Requests, Clear(r)
      PROVE  Configured'
    BY <1>7, SeedAssumption, TypeOK, Configured
       DEF Clear, Outstanding, Answer, NoPayload, processes, TypeOK,
           LiveHandlers, SecretColumns, Versions, Configured
<1>8. ASSUME Reset
      PROVE  Configured'
    BY <1>8, SeedAssumption, TypeOK, Configured
       DEF Reset, RestoreReviews, RestoreSecrets, Unencrypted, Starter,
           NoPayload, processes, serverVars, TypeOK, LiveHandlers,
           SecretColumns, Versions, Configured
<1>9. CASE UNCHANGED <<up, keyring, pending, active, listed>>
    BY <1>9, TypeOK, Configured
       DEF TypeOK, LiveHandlers, SecretColumns, Versions, Configured
<1>q. QED
    BY <1>1, <1>2, <1>3, <1>4, <1>5, <1>6, <1>7, <1>8, <1>9
       DEF Next, ServerStep, ReviewStep, SecretStep, vars, serverVars,
           reviewVars, secretVars, columns, processes, Fail, OpenReview,
           Require, CreateReview, UpdateReview, DeleteReview, OpenSetup,
           OpenConfirm, OpenDisable, Answer, Arrive

\* An id that comes back counts one more row.
LEMMA NextKeepsKnown ==
    ASSUME TypeOK, Known, [Next]_vars
    PROVE  Known'
<1>1. ASSUME NEW s \in Servers, Exit(s), UNCHANGED reviewVars
      PROVE  Known'
    BY <1>1, SeedAssumption, TypeOK, Known
       DEF Exit, Held, reviewVars, TypeOK, LiveHandlers, ReviewRows, Known
<1>2. ASSUME NEW r \in Requests, NEW s \in Servers, NEW u \in Users, NEW place
             \in {"review", "setup", "confirm", "disable"}, Arrive(r, s, u,
             place), UNCHANGED reviewVars
      PROVE  Known'
    BY <1>2, SeedAssumption, TypeOK, Known
       DEF Arrive, reviewVars, TypeOK, LiveHandlers, ReviewRows, Known
<1>3. ASSUME NEW r \in Requests, Answer(r), UNCHANGED reviewVars
      PROVE  Known'
    BY <1>3, SeedAssumption, TypeOK, Known
       DEF Answer, reviewVars, TypeOK, LiveHandlers, ReviewRows, Known
<1>4. ASSUME NEW s \in Servers, Start(s) \/ Migrate(s), UNCHANGED reviewVars
      PROVE  Known'
    BY <1>4, SeedAssumption, TypeOK, Known
       DEF Start, Migrate, MigrateTOTPSecrets, reviewVars, TypeOK,
           LiveHandlers, ReviewRows, Known
<1>5. ASSUME NEW r \in Requests, NEW s \in Servers, NEW u \in Users, NEW place
             \in {"edit", "remove"}, Require(r, s, u, place)
      PROVE  Known'
  <2>1. PICK i \in Ids :
           /\ review[i].user = u
           /\ target' = [target EXCEPT ![r] = i]
           /\ known' = [known EXCEPT ![r] = given[i]]
      BY <1>5 DEF Require, InUse, Owns
  <2>2. /\ at' = [at EXCEPT ![r] = place] /\ who' = [who EXCEPT ![r] = u]
        /\ review' = review /\ given' = given
      BY <1>5 DEF Require, Arrive
  <2>3. given[i] \in Nat
      BY TypeOK DEF TypeOK, ReviewRows
  <2>q. QED
      BY <2>1, <2>2, <2>3, TypeOK, Known
         DEF TypeOK, LiveHandlers, ReviewRows, Known
<1>6. ASSUME NEW r \in Requests, CreateReview(r)
      PROVE  Known'
  <2>1. PICK i \in Ids :
           /\ review' = [review EXCEPT ![i] =
                            [user |-> who[r], text |-> who[r]]]
           /\ given' = [given EXCEPT ![i] = @ + 1]
      BY <1>6 DEF CreateReview
  <2>2. /\ at' = [at EXCEPT ![r] = "over"] /\ who' = [who EXCEPT ![r] = Nobody]
        /\ target' = target /\ known' = known
      BY <1>6 DEF CreateReview, Answer
  <2>3. SUFFICES ASSUME NEW q \in Requests, at'[q] \in {"edit", "remove"}
                 PROVE  /\ known'[q] <= given'[target'[q]]
                        /\ known'[q] = given'[target'[q]]
                              /\ review'[target'[q]] # NoReview
                           => review'[target'[q]].user = who'[q]
      BY DEF Known
  <2>4. q # r /\ at[q] \in {"edit", "remove"} /\ who'[q] = who[q]
      BY <2>2, <2>3, TypeOK DEF TypeOK, LiveHandlers
  <2>5. target[q] \in Ids /\ known[q] \in Nat /\ given[target[q]] \in Nat
      BY TypeOK DEF TypeOK, ReviewRows
  <2>6. CASE target[q] = i
    <3>1. given'[target'[q]] = given[target[q]] + 1 /\ known'[q] = known[q]
        BY <2>1, <2>2, <2>6, TypeOK DEF TypeOK, ReviewRows
    <3>2. known[q] <= given[target[q]]
        BY <2>4, Known DEF Known
    <3>q. QED
        BY <2>5, <3>1, <3>2
  <2>7. CASE target[q] # i
      BY <2>1, <2>2, <2>4, <2>5, <2>7, TypeOK, Known
         DEF TypeOK, ReviewRows, Known
  <2>q. QED
      BY <2>6, <2>7
<1>7. ASSUME NEW r \in Requests, UpdateReview(r)
      PROVE  Known'
    BY <1>7, SeedAssumption, TypeOK, Known
       DEF UpdateReview, Reworded, Answer, Reworded, NoReview, TypeOK,
           LiveHandlers, ReviewRows, Known
<1>8. ASSUME NEW r \in Requests, DeleteReview(r)
      PROVE  Known'
    BY <1>8, SeedAssumption, TypeOK, Known
       DEF DeleteReview, Answer, TypeOK, LiveHandlers, ReviewRows, Known
<1>9. ASSUME Reset
      PROVE  Known'
    BY <1>9, SeedAssumption, TypeOK, Known
       DEF Reset, RestoreReviews, RestoreSecrets, Unencrypted, Starter, Ids,
           serverVars, TypeOK, LiveHandlers, ReviewRows, Known
<1>10. CASE UNCHANGED <<at, who, reviewVars>>
    BY <1>10, TypeOK, Known
       DEF reviewVars, TypeOK, LiveHandlers, ReviewRows, Known
<1>q. QED
    BY <1>1, <1>2, <1>3, <1>4, <1>5, <1>6, <1>7, <1>8, <1>9, <1>10
       DEF Next, ServerStep, ReviewStep, SecretStep, vars, serverVars,
           reviewVars, secretVars, columns, processes, Serve, Stop, Fail,
           OpenReview, Start, Migrate, MigrateTOTPSecrets, Rotate, OpenSetup,
           OpenConfirm, OpenDisable, StartEnrollment, ConfirmEnrollment, Clear

\* UpdateReview and DeleteReview write where Require has read.
LEMMA NextLetsAuthorsWrite ==
    ASSUME TypeOK, Known, [Next]_vars
    PROVE  ByAuthors
<1>1. ASSUME NEW r \in Requests, CreateReview(r)
      PROVE  ByAuthors
  <2>1. PICK i \in Ids :
           /\ \A j \in InUse : j < i
           /\ review' = [review EXCEPT ![i] =
                            [user |-> who[r], text |-> who[r]]]
      BY <1>1 DEF CreateReview
  <2>2. i \notin InUse
      BY <2>1 DEF Ids
  <2>3. \A j \in Ids : review[j] # NoReview => review'[j] = review[j]
      BY <2>1, <2>2, TypeOK DEF TypeOK, ReviewRows, InUse
  <2>q. QED
      BY <2>3 DEF ByAuthors
<1>2. ASSUME NEW r \in Requests, UpdateReview(r)
      PROVE  ByAuthors
  <2> SUFFICES ASSUME NEW i \in Ids, review[i] # NoReview,
                      review'[i] # review[i]
               PROVE  /\ at[r] \in {"edit", "remove"} /\ at'[r] # at[r]
                      /\ target[r] = i
                      /\ review[i].user = who[r] \/ known[r] < given[i]
      BY DEF ByAuthors
  <2>1. at[r] = "edit" /\ at'[r] = "over"
      BY <1>2, TypeOK DEF TypeOK, LiveHandlers, UpdateReview, Answer
  <2>2. target[r] = i
      BY <1>2, TypeOK DEF TypeOK, ReviewRows, UpdateReview
  <2>3. known[r] \in Nat /\ given[i] \in Nat
      BY TypeOK DEF TypeOK, ReviewRows
  <2>q. QED
      BY <2>1, <2>2, <2>3, Known DEF Known
<1>3. ASSUME NEW r \in Requests, DeleteReview(r)
      PROVE  ByAuthors
  <2> SUFFICES ASSUME NEW i \in Ids, review[i] # NoReview,
                      review'[i] # review[i]
               PROVE  /\ at[r] \in {"edit", "remove"} /\ at'[r] # at[r]
                      /\ target[r] = i
                      /\ review[i].user = who[r] \/ known[r] < given[i]
      BY DEF ByAuthors
  <2>1. at[r] = "remove" /\ at'[r] = "over"
      BY <1>3, TypeOK DEF TypeOK, LiveHandlers, DeleteReview, Answer
  <2>2. target[r] = i
      BY <1>3, TypeOK DEF TypeOK, ReviewRows, DeleteReview
  <2>3. known[r] \in Nat /\ given[i] \in Nat
      BY TypeOK DEF TypeOK, ReviewRows
  <2>q. QED
      BY <2>1, <2>2, <2>3, Known DEF Known
<1>4. ASSUME Reset
      PROVE  ByAuthors
    BY <1>4, TypeOK DEF Reset, RestoreSecrets, Unencrypted, ByAuthors, TypeOK,
       Versions
<1>5. CASE UNCHANGED review
    BY <1>5, TypeOK DEF TypeOK, LiveHandlers, ReviewRows, ByAuthors
<1>q. QED
    BY <1>1, <1>2, <1>3, <1>4, <1>5
       DEF Next, ServerStep, ReviewStep, SecretStep, vars, serverVars,
           reviewVars, secretVars, columns, processes, Serve, Stop, Exit,
           Fail, OpenReview, Require, Start, Migrate, MigrateTOTPSecrets,
           Rotate, OpenSetup, OpenConfirm, OpenDisable, StartEnrollment,
           ConfirmEnrollment, Clear, Answer, Arrive

\* No step writes another plaintext.
LEMMA NextKeepsStarter ==
    ASSUME TypeOK, FromStarter, [Next]_vars
    PROVE  FromStarter'
<1>1. ASSUME NEW s \in Servers, Start(s)
      PROVE  FromStarter'
    BY <1>1, SeedAssumption, TypeOK, FromStarter
       DEF Start, Listing, NoRow, columns, TypeOK, LiveHandlers,
           SecretColumns, FromStarter
<1>2. ASSUME NEW s \in Servers, Migrate(s)
      PROVE  FromStarter'
    BY <1>2, SeedAssumption, TypeOK, FromStarter
       DEF Migrate, MigrateTOTPSecrets, Migrated, Encrypt, TypeOK,
           LiveHandlers, SecretColumns, FromStarter
<1>3. ASSUME NEW r \in Requests, Clear(r)
      PROVE  FromStarter'
    BY <1>3, SeedAssumption, TypeOK, FromStarter
       DEF Clear, Outstanding, Answer, processes, TypeOK, LiveHandlers,
           SecretColumns, FromStarter
<1>4. ASSUME Reset
      PROVE  FromStarter'
    BY <1>4, SeedAssumption, TypeOK, FromStarter
       DEF Reset, RestoreReviews, RestoreSecrets, Unencrypted, Starter,
           processes, TypeOK, LiveHandlers, SecretColumns, FromStarter
<1>5. CASE UNCHANGED <<legacy, listed>>
    BY <1>5, TypeOK, FromStarter
       DEF TypeOK, LiveHandlers, SecretColumns, FromStarter
<1>q. QED
    BY <1>1, <1>2, <1>3, <1>4, <1>5
       DEF Next, ServerStep, ReviewStep, SecretStep, vars, serverVars,
           reviewVars, secretVars, columns, processes, Serve, Stop, Exit,
           Fail, OpenReview, Require, CreateReview, UpdateReview,
           DeleteReview, Rotate, OpenSetup, OpenConfirm, OpenDisable,
           StartEnrollment, ConfirmEnrollment, Answer, Arrive

\* What was listed stays true of users who are left alone.
LEMMA NextKeepsUndisturbed ==
    ASSUME TypeOK, FromStarter, Undisturbed, [Next]_vars
    PROVE  Undisturbed'
<1>1. ASSUME NEW s \in Servers, Serve(s) \/ Stop(s) \/ Exit(s),
             UNCHANGED secretVars
      PROVE  Undisturbed'
    BY <1>1, SeedAssumption, TypeOK, FromStarter, Undisturbed
       DEF secretVars, Serve, Stop, Exit, Held, TypeOK, LiveHandlers,
           SecretColumns, Versions, FromStarter, Undisturbed
<1>2. ASSUME NEW s \in Servers, Start(s)
      PROVE  Undisturbed'
    BY <1>2, SeedAssumption, TypeOK, FromStarter, Undisturbed
       DEF Start, Listing, NoRow, columns, TypeOK, LiveHandlers,
           SecretColumns, Versions, FromStarter, Undisturbed
<1>3. ASSUME NEW s \in Servers, Migrate(s)
      PROVE  Undisturbed'
    BY <1>3, SeedAssumption, TypeOK, FromStarter, Undisturbed
       DEF Migrate, MigrateTOTPSecrets, Migrated, Encrypt, NoRow, TypeOK,
           LiveHandlers, SecretColumns, Versions, FromStarter, Undisturbed
<1>4. ASSUME NEW r \in Requests, ConfirmEnrollment(r)
      PROVE  Undisturbed'
    BY <1>4, SeedAssumption, TypeOK, FromStarter, Undisturbed
       DEF ConfirmEnrollment, Outstanding, Answer, processes, TypeOK,
           LiveHandlers, SecretColumns, Versions, FromStarter, Undisturbed
<1>5. ASSUME NEW r \in Requests, Clear(r)
      PROVE  Undisturbed'
    BY <1>5, SeedAssumption, TypeOK, FromStarter, Undisturbed
       DEF Clear, Outstanding, Answer, processes, TypeOK, LiveHandlers,
           SecretColumns, Versions, FromStarter, Undisturbed
<1>6. ASSUME Reset
      PROVE  Undisturbed'
    BY <1>6, SeedAssumption, TypeOK, FromStarter, Undisturbed
       DEF Reset, RestoreReviews, RestoreSecrets, Unencrypted, Starter,
           processes, serverVars, TypeOK, LiveHandlers, SecretColumns,
           Versions, FromStarter, Undisturbed
<1>7. CASE UNCHANGED <<up, legacy, listed, truth, disturbed>>
    BY <1>7, TypeOK, FromStarter, Undisturbed
       DEF TypeOK, LiveHandlers, SecretColumns, Versions, FromStarter,
           Undisturbed
<1>q. QED
    BY <1>1, <1>2, <1>3, <1>4, <1>5, <1>6, <1>7
       DEF Next, ServerStep, ReviewStep, SecretStep, vars, serverVars,
           reviewVars, secretVars, columns, processes, Fail, OpenReview,
           Require, CreateReview, UpdateReview, DeleteReview, Rotate,
           OpenSetup, OpenConfirm, OpenDisable, StartEnrollment, Answer,
           Arrive

\* MigrateTOTPSecrets encrypts the present secret of such users.
LEMMA NextKeepsSecrets ==
    ASSUME TypeOK, Configured, FromStarter, Undisturbed, SecretsAreKept,
           [Next]_vars
    PROVE  SecretsAreKept'
<1>1. ASSUME NEW s \in Servers, Migrate(s)
      PROVE  SecretsAreKept'
  <2> SUFFICES ASSUME NEW u \in Users \ disturbed
               PROVE  truth[u] = IF stored'[u] = NoPayload THEN legacy'[u]
                                 ELSE stored'[u].secret
      BY <1>1 DEF Migrate, MigrateTOTPSecrets, SecretsAreKept
  <2>1. CASE listed[s][u] = NoRow
      BY <1>1, <2>1, SecretsAreKept DEF Migrate, MigrateTOTPSecrets,
         SecretsAreKept
  <2>2. CASE listed[s][u] # NoRow
    <3>1. /\ listed[s][u].legacy # None /\ listed[s][u].legacy = truth[u]
          /\ listed[s][u].legacy \in Texts /\ up[s] = "listed"
        BY <1>1, <2>2, TypeOK, FromStarter, Undisturbed
           DEF TypeOK, SecretColumns, Rows, FromStarter, Undisturbed, Migrate,
               MigrateTOTPSecrets
    <3>2. stored'[u] = Encrypt(s, truth[u])
        BY <1>1, <2>2, <3>1 DEF Migrate, MigrateTOTPSecrets, Migrated
    <3>3. Encrypt(s, truth[u]) # NoPayload
             /\ Encrypt(s, truth[u]).secret = truth[u]
        BY <3>1, TypeOK, Configured, EncryptPays
    <3>q. QED
        BY <3>2, <3>3
  <2>q. QED
      BY <2>1, <2>2
<1>2. ASSUME NEW r \in Requests, ConfirmEnrollment(r)
      PROVE  SecretsAreKept'
    BY <1>2, SeedAssumption, TypeOK, FromStarter, Undisturbed, SecretsAreKept
       DEF ConfirmEnrollment, Outstanding, Answer, NoPayload, TypeOK,
           LiveHandlers, SecretColumns, FromStarter, Undisturbed,
           SecretsAreKept
<1>3. ASSUME NEW r \in Requests, Clear(r)
      PROVE  SecretsAreKept'
    BY <1>3, SeedAssumption, TypeOK, FromStarter, Undisturbed, SecretsAreKept
       DEF Clear, Outstanding, Answer, TypeOK, LiveHandlers, SecretColumns,
           FromStarter, Undisturbed, SecretsAreKept
<1>4. ASSUME Reset
      PROVE  SecretsAreKept'
    BY <1>4, SeedAssumption, TypeOK, FromStarter, Undisturbed, SecretsAreKept
       DEF Reset, RestoreReviews, RestoreSecrets, Unencrypted, Starter,
           TypeOK, LiveHandlers, SecretColumns, FromStarter, Undisturbed,
           SecretsAreKept
<1>5. CASE UNCHANGED <<legacy, stored, truth, disturbed>>
    BY <1>5, TypeOK, FromStarter, Undisturbed, SecretsAreKept
       DEF TypeOK, LiveHandlers, SecretColumns, FromStarter, Undisturbed,
           SecretsAreKept
<1>q. QED
    BY <1>1, <1>2, <1>3, <1>4, <1>5
       DEF Next, ServerStep, ReviewStep, SecretStep, vars, serverVars,
           reviewVars, secretVars, columns, processes, Serve, Stop, Exit,
           Fail, OpenReview, Require, CreateReview, UpdateReview,
           DeleteReview, Start, Rotate, OpenSetup, OpenConfirm, OpenDisable,
           StartEnrollment, Answer, Arrive

\* Only Reset adds a plaintext.
LEMMA NextKeepsLists ==
    ASSUME TypeOK, FromStarter, Lists, [Next]_vars
    PROVE  Lists'
<1>1. ASSUME NEW s \in Servers, Serve(s) \/ Stop(s) \/ Exit(s),
             UNCHANGED secretVars
      PROVE  Lists'
    BY <1>1, SeedAssumption, TypeOK, FromStarter, Lists
       DEF secretVars, Serve, Stop, Exit, Held, TypeOK, LiveHandlers,
           SecretColumns, Versions, FromStarter, Lists
<1>2. ASSUME NEW s \in Servers, Start(s)
      PROVE  Lists'
    BY <1>2, SeedAssumption, TypeOK, FromStarter, Lists
       DEF Start, Listing, NoRow, columns, TypeOK, LiveHandlers,
           SecretColumns, Versions, FromStarter, Lists
<1>3. ASSUME NEW s \in Servers, Migrate(s)
      PROVE  Lists'
    BY <1>3, SeedAssumption, TypeOK, FromStarter, Lists
       DEF Migrate, MigrateTOTPSecrets, Migrated, Encrypt, TypeOK,
           LiveHandlers, SecretColumns, Versions, FromStarter, Lists
<1>4. ASSUME NEW r \in Requests, Clear(r)
      PROVE  Lists'
    BY <1>4, SeedAssumption, TypeOK, FromStarter, Lists
       DEF Clear, Outstanding, Answer, processes, TypeOK, LiveHandlers,
           SecretColumns, Versions, FromStarter, Lists
<1>5. ASSUME Reset
      PROVE  Lists'
    BY <1>5, SeedAssumption, TypeOK, FromStarter, Lists
       DEF Reset, RestoreReviews, RestoreSecrets, Unencrypted, Starter,
           processes, serverVars, TypeOK, LiveHandlers, SecretColumns,
           Versions, FromStarter, Lists
<1>6. CASE UNCHANGED <<up, legacy, listed, seeds, knew>>
    BY <1>6, TypeOK, FromStarter, Lists
       DEF TypeOK, LiveHandlers, SecretColumns, Versions, FromStarter, Lists
<1>q. QED
    BY <1>1, <1>2, <1>3, <1>4, <1>5, <1>6
       DEF Next, ServerStep, ReviewStep, SecretStep, vars, serverVars,
           reviewVars, secretVars, columns, processes, Fail, OpenReview,
           Require, CreateReview, UpdateReview, DeleteReview, Rotate,
           OpenSetup, OpenConfirm, OpenDisable, StartEnrollment,
           ConfirmEnrollment, Answer, Arrive

\* Migrate leaves none of what was listed.
LEMMA NextMigratesFirst ==
    ASSUME TypeOK, Lists, PlaintextIsNewer, [Next]_vars
    PROVE  PlaintextIsNewer'
<1>1. ASSUME NEW s \in Servers, Serve(s) \/ Stop(s) \/ Exit(s),
             UNCHANGED secretVars
      PROVE  PlaintextIsNewer'
    BY <1>1, SeedAssumption, TypeOK, Lists, PlaintextIsNewer
       DEF secretVars, Serve, Stop, Exit, Held, TypeOK, LiveHandlers,
           SecretColumns, Versions, Lists, PlaintextIsNewer
<1>2. ASSUME NEW s \in Servers, Start(s)
      PROVE  PlaintextIsNewer'
    BY <1>2, SeedAssumption, TypeOK, Lists, PlaintextIsNewer
       DEF Start, Listing, columns, TypeOK, LiveHandlers, SecretColumns,
           Versions, Lists, PlaintextIsNewer
<1>3. ASSUME NEW s \in Servers, Migrate(s)
      PROVE  PlaintextIsNewer'
    BY <1>3, SeedAssumption, TypeOK, Lists, PlaintextIsNewer
       DEF Migrate, MigrateTOTPSecrets, Migrated, Encrypt, TypeOK,
           LiveHandlers, SecretColumns, Versions, Lists, PlaintextIsNewer
<1>4. ASSUME NEW r \in Requests, Clear(r)
      PROVE  PlaintextIsNewer'
    BY <1>4, SeedAssumption, TypeOK, Lists, PlaintextIsNewer
       DEF Clear, Outstanding, Answer, processes, TypeOK, LiveHandlers,
           SecretColumns, Versions, Lists, PlaintextIsNewer
<1>5. ASSUME Reset
      PROVE  PlaintextIsNewer'
    BY <1>5, SeedAssumption, TypeOK, Lists, PlaintextIsNewer
       DEF Reset, RestoreReviews, RestoreSecrets, Unencrypted, Starter,
           processes, serverVars, TypeOK, LiveHandlers, SecretColumns,
           Versions, Lists, PlaintextIsNewer
<1>6. CASE UNCHANGED <<up, legacy, seeds, knew>>
    BY <1>6, TypeOK, Lists, PlaintextIsNewer
       DEF TypeOK, LiveHandlers, SecretColumns, Versions, Lists,
           PlaintextIsNewer
<1>q. QED
    BY <1>1, <1>2, <1>3, <1>4, <1>5, <1>6
       DEF Next, ServerStep, ReviewStep, SecretStep, vars, serverVars,
           reviewVars, secretVars, columns, processes, Fail, OpenReview,
           Require, CreateReview, UpdateReview, DeleteReview, Rotate,
           OpenSetup, OpenConfirm, OpenDisable, StartEnrollment,
           ConfirmEnrollment, Answer, Arrive

\* All of these hold together.
Standing ==
    /\ TypeOK /\ Configured /\ Known /\ FromStarter /\ Undisturbed
    /\ SecretsAreKept /\ Lists /\ PlaintextIsNewer

\* They hold from a database that was just seeded.
THEOREM Invariance == Spec => []Standing
<1>1. ASSUME Init PROVE Standing
  <2> USE <1>1, SeedAssumption
          DEF Init, ServersInit, ReviewsInit, SecretsInit, Unencrypted,
              Phases, Ids, NoReview, Texts, Payloads, Rows, NoPayload, NoRow,
              Starter
  <2>1. TypeOK
      BY DEF TypeOK, LiveHandlers, ReviewRows, SecretColumns, Versions
  <2>2. Configured /\ Known /\ FromStarter
      BY DEF Configured, Known, FromStarter
  <2>3. Undisturbed /\ SecretsAreKept /\ Lists /\ PlaintextIsNewer
      BY DEF Undisturbed, SecretsAreKept, Lists, PlaintextIsNewer
  <2>q. QED
      BY <2>1, <2>2, <2>3 DEF Standing
<1>2. Standing /\ [Next]_vars => Standing'
    BY NextKeepsLiveHandlers, NextKeepsReviewRows, NextKeepsSecretColumns,
       NextKeepsVersions, NextKeepsConfigured, NextKeepsKnown,
       NextKeepsStarter, NextKeepsUndisturbed, NextKeepsSecrets,
       NextKeepsLists, NextMigratesFirst
       DEF Standing, TypeOK
<1>q. QED
    BY <1>1, <1>2, PTL DEF Spec

\* TypeOK: what MigrateTOTPSecrets and the handlers leave in the encrypted
\* columns are payloads under configured versions, and only live processes
\* have handlers.
THEOREM TypeCorrect == Spec => []TypeOK
<1>1. Standing => TypeOK
    BY DEF Standing
<1>q. QED
    BY <1>1, Invariance, PTL

\* SecretsAreKept: however processes start, stop, overlap and rotate keys, an
\* undisturbed user's second factor is the one last confirmed or restored.
THEOREM MigrationKeepsSecrets == Spec => []SecretsAreKept
<1>1. Standing => SecretsAreKept
    BY DEF Standing
<1>q. QED
    BY <1>1, Invariance, PTL

\* PlaintextIsNewer: past MigrateSensitiveDataAtRest, plaintext comes from a
\* seeding after the listing.
THEOREM MigrationLeavesNoPlaintext == Spec => []PlaintextIsNewer
<1>1. Standing => PlaintextIsNewer
    BY DEF Standing
<1>q. QED
    BY <1>1, Invariance, PTL

\* AuthorsWrite: a review changes by its author's request only, or by one that
\* read the id when an earlier row had it.
THEOREM OnlyAuthorsWrite == Spec => AuthorsWrite
<1>1. Standing /\ [Next]_vars => [ByAuthors]_vars
    BY NextLetsAuthorsWrite DEF Standing
<1>q. QED
    BY <1>1, Invariance, PTL DEF Spec, AuthorsWrite, ByAuthors
=============================================================================
