------------------------------ MODULE Batches ------------------------------
(***************************************************************************)
(* What a rate limiter promises its clients, told without counters, keys,  *)
(* sweeps or clocks read too early: requests are admitted in batches of at *)
(* most Maximum, and a client's next batch opens no sooner than a window   *)
(* after the last one, less the slack the implementation may take.  Hence  *)
(* an interval of Window - Slack sees at most two batches of one client.   *)
(***************************************************************************)
EXTENDS Naturals

CONSTANTS
    Clients,   \* who is limited, each apart from the others
    Maximum,   \* Maximum[c]: the requests of one batch of c
    Window,    \* Window[c]: the length of a window of c
    Slack      \* by how much a window may be cut short

VARIABLES
    clock,     \* the time
    batch      \* batch[c]: when the last batch of c opened, what it admitted

vars == <<clock, batch>>

\* A client that has been admitted nowhere yet.
NoBatch == [openedAt |-> 0, admitted |-> 0]

Init == clock \in Nat /\ batch = [c \in Clients |-> NoBatch]

\* A client is admitted first, or again after its window.
Open(c) ==
    /\ \/ batch[c].admitted = 0
       \/ clock + Slack >= batch[c].openedAt + Window[c]
    /\ batch' = [batch EXCEPT ![c] = [openedAt |-> clock, admitted |-> 1]]
    /\ UNCHANGED clock

\* A client is admitted to the batch it has.
Admit(c) ==
    /\ batch[c].admitted \in 1..(Maximum[c] - 1)
    /\ batch' = [batch EXCEPT ![c].admitted = @ + 1]
    /\ UNCHANGED clock

Tick == clock' \in Nat /\ clock' > clock /\ UNCHANGED batch

\* The limiter lives in memory: a new process knows no batch.
Forget == batch' = [c \in Clients |-> NoBatch] /\ UNCHANGED clock

Next == (\E c \in Clients : Open(c) \/ Admit(c)) \/ Tick \/ Forget

Spec == Init /\ [][Next]_vars
=============================================================================
