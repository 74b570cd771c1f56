-------------------------------- MODULE Seed --------------------------------
(***************************************************************************)
(* Restoring the starter data while servers run: cmd/seed,                 *)
(* internal/database/seed.go, and the two components whose rows a request  *)
(* or a starting server may be holding.                                    *)
(*                                                                         *)
(* Reset is one transaction, so it comes between any two steps of the      *)
(* servers and never inside one.  The users are those of the starter data, *)
(* inserted in the same order and so with the same ids each time.          *)
(***************************************************************************)
EXTENDS Reviews, Secrets, Sequences

CONSTANT
    MaxSeeds    \* bound: runs of cmd/seed

ASSUME SeedAssumption ==
    /\ Servers # {} /\ Nobody \notin Users /\ None \notin Requests
    /\ {MaxReviews, MaxVersion} \subseteq Nat \ {0} /\ MaxSeeds \in Nat
    /\ StarterAuthors \in Seq(Users) /\ Len(StarterAuthors) <= MaxReviews
    /\ StarterSecrets = [u \in Users |-> StarterSecrets[u]]

vars == <<serverVars, reviewVars, secretVars>>

Reset ==
    /\ seeds < MaxSeeds
    /\ RestoreReviews /\ RestoreSecrets
    /\ UNCHANGED serverVars

Init == ServersInit /\ ReviewsInit /\ SecretsInit

Next ==
    \/ ServerStep /\ UNCHANGED <<reviewVars, secretVars>>
    \/ ReviewStep /\ UNCHANGED secretVars
    \/ SecretStep /\ UNCHANGED reviewVars
    \/ Reset

Spec == Init /\ [][Next]_vars

-----------------------------------------------------------------------------
(* What the starter data and the rows promise *)

Texts == {None} \cup Requests \cup {StarterSecrets[u] : u \in Users}
Payloads == {NoPayload}
            \cup [version : 1..MaxVersion, secret : Texts \ {None}]
Rows == [legacy : Texts, stored : Payloads, pending : Payloads]

LiveHandlers ==
    /\ up \in [Servers -> Phases]
    /\ at \in [Requests -> {"idle", "review", "edit", "remove", "setup",
                            "confirm", "disable", "over"}]
    /\ by \in [Requests -> Servers]
    /\ who \in [Requests -> Users \cup {Nobody}]
    /\ \A r \in Requests : at[r] \notin {"idle", "over"} =>
          who[r] \in Users /\ up[by[r]] \in {"serving", "draining"}

ReviewRows ==
    /\ review \in [Ids -> {NoReview} \cup [user : Users, text : Users]]
    /\ target \in [Requests -> Ids]
    /\ given \in [Ids -> Nat] /\ known \in [Requests -> Nat]

SecretColumns ==
    /\ legacy \in [Users -> Texts] /\ truth \in [Users -> Texts]
    /\ stored \in [Users -> Payloads] /\ pending \in [Users -> Payloads]
    /\ \A u \in Users : stored[u].version <= active
    /\ listed \in [Servers -> [Users -> Rows]]

Versions ==
    /\ active \in 1..MaxVersion /\ keyring \in [Servers -> Nat]
    /\ \A s \in Servers : keyring[s] <= active
    /\ seeds \in Nat /\ knew \in [Servers -> Nat]
    /\ disturbed \subseteq Users

\* Every variable keeps its type: the encrypted columns hold payloads, under a
\* version that is configured, and only live processes have handlers.
TypeOK == LiveHandlers /\ ReviewRows /\ SecretColumns /\ Versions

\* Update and Delete: only its author's request changes or deletes a review, but
\* for one that read the id when an earlier row of the author's had it.
AuthorsWrite ==
    [][\A i \in Ids :
          review[i] # NoReview /\ review'[i] # review[i] /\ seeds' = seeds =>
             \E r \in Requests :
                /\ at[r] \in {"edit", "remove"} /\ at'[r] # at[r]
                /\ target[r] = i
                /\ review[i].user = who[r] \/ known[r] < given[i]]_vars

\* MigrateTOTPSecrets: whatever starts, stops and overlaps, a user's second
\* factor stays the one last confirmed, restored or removed, but for changes
\* made while a plaintext of theirs was still to be migrated.
SecretsAreKept ==
    \A u \in Users \ disturbed :
       truth[u] = IF stored[u] = NoPayload THEN legacy[u] ELSE stored[u].secret

\* MigrateSensitiveDataAtRest: a server that is past it finds a plaintext only
\* if the starter data has been restored since it listed the rows.
PlaintextIsNewer ==
    \A s \in Servers, u \in Users :
       up[s] \in {"ready", "serving", "draining"} /\ legacy[u] # None =>
          knew[s] < seeds
=============================================================================
