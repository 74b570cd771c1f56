------------------------------ MODULE Servers ------------------------------
(***************************************************************************)
(* Server processes and the requests they handle: cmd/server.              *)
(*                                                                         *)
(* A process starts, prepares the database, and takes the port if no other *)
(* process has it.  It stops taking requests when it is told to, and has   *)
(* five seconds for those in flight; it may die at any time.  A process    *)
(* that drains has given the port up, so the next one overlaps with it.    *)
(***************************************************************************)
EXTENDS Naturals, FiniteSets

CONSTANTS
    Servers,    \* processes, each started once: a restart is another one
    Requests,
    Users

Nobody == "nobody"

VARIABLES
    up,     \* [Servers -> how far the process is]
    at,     \* [Requests -> where its handler is]
    by,     \* [Requests -> the process that handles it]
    who     \* [Requests -> the user_id of its session, or Nobody]

serverVars == <<up, at, by, who>>

Phases == {"off", "listed", "ready", "serving", "draining", "gone"}

\* A process takes the port; a second one's ListenAndServe returns an error.
Serve(s) ==
    /\ up[s] = "ready" /\ \A t \in Servers : up[t] # "serving"
    /\ up' = [up EXCEPT ![s] = "serving"]
    /\ UNCHANGED <<at, by, who>>

\* shutdownServer: the listener closes first.
Stop(s) ==
    /\ up[s] = "serving"
    /\ up' = [up EXCEPT ![s] = "draining"]
    /\ UNCHANGED <<at, by, who>>

Held(s) == {r \in Requests : at[r] # "idle" /\ by[r] = s}

\* run returns, for whatever reason, or the process dies; the handlers that
\* have not returned by then do nothing more.
Exit(s) ==
    /\ up[s] \notin {"off", "gone"}
    /\ up' = [up EXCEPT ![s] = "gone"]
    /\ at' = [r \in Requests |-> IF r \in Held(s) THEN "over" ELSE at[r]]
    /\ who' = [r \in Requests |-> IF r \in Held(s) THEN Nobody ELSE who[r]]
    /\ UNCHANGED by

\* A handler of s found u's session, and all that it reads first was right.
Arrive(r, s, u, place) ==
    /\ at[r] = "idle" /\ up[s] = "serving"
    /\ at' = [at EXCEPT ![r] = place]
    /\ by' = [by EXCEPT ![r] = s]
    /\ who' = [who EXCEPT ![r] = u]
    /\ UNCHANGED up

\* It has written, or found nothing to write, and answers.
Answer(r) ==
    /\ at' = [at EXCEPT ![r] = "over"]
    /\ who' = [who EXCEPT ![r] = Nobody]
    /\ UNCHANGED <<up, by>>

\* A statement fails, or the form is not valid.
Fail(r) ==
    /\ at[r] \notin {"idle", "over"}
    /\ Answer(r)

ServersInit ==
    /\ up = [s \in Servers |-> "off"]
    /\ at = [r \in Requests |-> "idle"]
    /\ by \in [Requests -> Servers]
    /\ \A r, q \in Requests : by[r] = by[q]
    /\ who = [r \in Requests |-> Nobody]

ServerStep ==
    \/ \E s \in Servers : Serve(s) \/ Stop(s) \/ Exit(s)
    \/ \E r \in Requests : Fail(r)
=============================================================================
