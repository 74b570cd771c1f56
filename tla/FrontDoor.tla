----------------------------- MODULE FrontDoor -----------------------------
(***************************************************************************)
(* The way of a request into the server and out of it:                     *)
(* internal/httpserver/middleware.go in the chains that app.go builds, the *)
(* warehouse API's daily quota (internal/api) as the one handler with a    *)
(* budget of its own, and the process around them (cmd/server/main.go).    *)
(*                                                                         *)
(* Every route passes the global limiter, the load shedder and the origin  *)
(* check, then what app.go wraps around its handler.  A limiter reads the  *)
(* clock before it takes its mutex, so other requests run between the two: *)
(* ReadClock is a step, and Admit or Reject is another.  Health, static    *)
(* files and the payment webhook bypass all of this.                       *)
(***************************************************************************)
EXTENDS Naturals, Sequences, FiniteSets

CONSTANTS
    Requests,         \* requests in progress at one time
    Routes,           \* the routes that are called
    Clients,          \* network addresses of clients
    Forged,           \* X-Forwarded-For headers that clients send
    Emails,           \* what a form may hold in its email field
    Normal,           \* Normal[e]: e trimmed and in lower case
    TrustedProxyHops, \* proxies in front of the server
    Window,           \* Window[l]: length of a window of limiter l
    Maximum,          \* Maximum[l]: requests a window of l admits
    MaxConcurrent,    \* slots of the load shedder
    DailyQuota,       \* warehouse order lists of a day
    Days,             \* days of the calendar, in UTC
    DayOf,            \* DayOf[t]: the day of tick t
    DrainTime,        \* how long Shutdown waits for requests
    MaxLag,           \* bound: ticks between a clock read and its use; shorter
                      \* than every window, that of search (a second) too
    MaxTime           \* bound on the clock

Proxy == "proxy"
Blank == ""
Everyone == "everyone"

\* What stands before the handler of a route, and the handler's own steps.
Inner ==
    [page      |-> <<"handler">>,
     form      |-> <<"form", "handler">>,
     search    |-> <<"search", "handler">>,
     products  |-> <<"products", "handler">>,
     login     |-> <<"source", "form", "account", "handler">>,
     totp      |-> <<"source", "form", "handler">>,
     reset     |-> <<"resetSource", "form", "resetAccount", "handler">>,
     warehouse |-> <<"key", "quota", "list">>]

Path(route) == <<"global", "slot", "origin">> \o Inner[route]

BySource == {"global", "products", "source", "resetSource"}
ByAccount == {"account", "resetAccount"}
\* The limiters that routes in use pass.
Limiters == {l \in BySource \cup ByAccount \cup {"search"} :
                \E route \in Routes : \E i \in DOMAIN Path(route) :
                    Path(route)[i] = l}
Subjects == Clients \cup Emails \cup {Everyone}
Keys == Subjects \cup {Proxy}

ASSUME FrontDoorAssumption ==
    /\ Routes \subseteq DOMAIN Inner
    /\ {Proxy, Blank} \cap Clients = {}
    /\ Forged \subseteq Seq(Clients \cup {Blank})
    /\ Normal \in [Emails -> Emails]
    /\ TrustedProxyHops \in Nat
    /\ Window \in [Limiters -> Nat] /\ Maximum \in [Limiters -> Nat \ {0}]
    /\ MaxConcurrent \in Nat \ {0} /\ DailyQuota \in Nat
    /\ DayOf \in [0..MaxTime -> Days] /\ DrainTime \in Nat
    /\ MaxLag \in Nat /\ \A l \in Limiters : MaxLag < Window[l]
    /\ MaxTime \in Nat
ASSUME FiniteRequests == IsFiniteSet(Requests)

VARIABLES
    clock,        \* the time
    server,       \* "serving", "draining" or "down"
    drainBy,      \* when Shutdown stops waiting
    counters,     \* counters[l][k]: limiter l's counter of key k
    nextSweepAt,  \* nextSweepAt[l]: when l next drops expired counters
    inFlight,     \* tokens in the load shedder's channel
    usage,        \* usage[d]: api_key_usage.request_count of day d
    req,          \* req[r]: the request r is, and where it is
    batches,      \* history: what each limiter let each subject do
    listed        \* history: order lists answered on each day's quota

limits == <<counters, nextSweepAt, batches>>
quota == <<usage, listed>>
process == <<clock, server, drainBy>>
vars == <<process, limits, inFlight, quota, req>>

\* A key without a counter reads as one that has expired long ago.
NoCounter == [count |-> 0, resetAt |-> 0]
NoBatch == [openedAt |-> 0, admitted |-> 0]
Idle == [route |-> "none", step |-> 0, client |-> Proxy, forwarded |-> <<>>,
         email |-> Blank, timed |-> FALSE, now |-> 0]

Active(r) == req[r].step # 0
Stage(r) == IF Active(r) THEN Path(req[r].route)[req[r].step] ELSE "idle"
\* The slot of r is given back when its handler returns or panics.
Inside(r) == req[r].step > 2
HandlerStages == {"handler", "key", "quota", "list"}

-----------------------------------------------------------------------------
(* Who is limited *)

\* Each proxy appends the address it was called from.
Trail(client) ==
    [i \in 1..TrustedProxyHops |-> IF i = 1 THEN client ELSE Proxy]
RemoteAddr(client) == IF TrustedProxyHops = 0 THEN client ELSE Proxy

\* clientIPKeyWithTrustedProxies, whose index is counted from 0.  Header.Get
\* returns the first X-Forwarded-For line only: here a request has one line, as
\* when each proxy appends to the line it received.
ClientKey(forwarded, remote) ==
    LET i == Len(forwarded) + 1 - TrustedProxyHops IN
    IF /\ TrustedProxyHops > 0
       /\ TrustedProxyHops <= Len(forwarded)
       /\ forwarded[i] # Blank
    THEN forwarded[i] ELSE remote

AccountKey(email) == Normal[email]

Key(l, q) ==
    IF l \in BySource THEN ClientKey(q.forwarded, RemoteAddr(q.client))
    ELSE IF l \in ByAccount THEN AccountKey(q.email) ELSE Everyone

\* Whom the limiter is meant to limit.
Subject(l, q) ==
    IF l \in BySource THEN q.client
    ELSE IF l \in ByAccount THEN Normal[q.email] ELSE Everyone

-----------------------------------------------------------------------------
(* A request comes in, and goes on or leaves *)

Arrive(r) ==
    /\ server = "serving" /\ ~Active(r)
    /\ \E route \in Routes, client \in Clients, forged \in Forged,
          email \in Emails :
          req' = [req EXCEPT ![r] =
                    [route |-> route, step |-> 1, client |-> client,
                     forwarded |-> forged \o Trail(client),
                     email |-> email, timed |-> FALSE, now |-> 0]]
    /\ UNCHANGED <<process, limits, inFlight, quota>>

Proceed(r) ==
    req' = [req EXCEPT ![r].step = @ + 1, ![r].timed = FALSE, ![r].now = 0]

\* Fault: the slot is given back in the middleware's last line, not deferred.
PanicKeepingSlot(r) ==
    /\ Stage(r) \in HandlerStages
    /\ req' = [req EXCEPT ![r] = Idle]
    /\ UNCHANGED <<process, limits, inFlight, quota>>

\* Fault: the release is deferred before the slot is taken.
LeaveReleasing(r) ==
    req' = [req EXCEPT ![r] = Idle] /\ inFlight' = inFlight - 1

Leave(r) ==
    /\ req' = [req EXCEPT ![r] = Idle]
    /\ inFlight' = IF Inside(r) THEN inFlight - 1 ELSE inFlight

Done(r) == Leave(r) /\ UNCHANGED <<process, limits, quota>>

\* limiter.options.now(), and store.now() in ConsumeQuota.
ReadClock(r) ==
    /\ Stage(r) \in Limiters \cup {"quota"} /\ ~req[r].timed
    /\ req' = [req EXCEPT ![r].timed = TRUE, ![r].now = clock]
    /\ UNCHANGED <<process, limits, inFlight, quota>>

-----------------------------------------------------------------------------
(* fixedWindowLimiter.consume, under its mutex *)

AtLock(r) == Stage(r) \in Limiters /\ req[r].timed

\* Fault: the next sweep is scheduled, and nothing is swept.
SweptNothing(l, now) == counters[l]

\* Fault: a sweep drops counters whose window is still open.
SweptAll(l, now) ==
    IF now < nextSweepAt[l] THEN counters[l] ELSE [k \in Keys |-> NoCounter]

Swept(l, now) ==
    IF now < nextSweepAt[l] THEN counters[l]
    ELSE [k \in Keys |-> IF now >= counters[l][k].resetAt THEN NoCounter
                         ELSE counters[l][k]]

SweepAgainAt(l, now) ==
    IF now < nextSweepAt[l] THEN nextSweepAt[l] ELSE now + Window[l]

Counter(l, k, now) ==
    IF now >= Swept(l, now)[k].resetAt
    THEN [count |-> 0, resetAt |-> now + Window[l]] ELSE Swept(l, now)[k]

\* The batch b after an admission that found the counter c.
Joined(b, c) ==
    IF c.count = 0 THEN [openedAt |-> clock, admitted |-> 1]
    ELSE [b EXCEPT !.admitted = @ + 1]

\* The request counts; a counter at 0 is new, and begins a batch.
Admit(r) ==
    LET l == Stage(r)
        k == Key(l, req[r])
        c == Counter(l, k, req[r].now)
        s == <<l, Subject(l, req[r])>>
    IN  /\ AtLock(r) /\ c.count < Maximum[l]
        /\ counters' = [counters EXCEPT ![l] =
              [Swept(l, req[r].now) EXCEPT ![k] = [c EXCEPT !.count = @ + 1]]]
        /\ nextSweepAt' = [nextSweepAt EXCEPT
                              ![l] = SweepAgainAt(l, req[r].now)]
        /\ batches' = [batches EXCEPT ![s] = Joined(@, c)]
        /\ Proceed(r)
        /\ UNCHANGED <<process, inFlight, quota>>

\* Expired counters of other keys are dropped even so.
Reject(r) ==
    LET l == Stage(r)
        now == req[r].now
    IN  /\ AtLock(r)
        /\ Counter(l, Key(l, req[r]), now).count >= Maximum[l]
        /\ counters' = [counters EXCEPT ![l] = Swept(l, now)]
        /\ nextSweepAt' = [nextSweepAt EXCEPT ![l] = SweepAgainAt(l, now)]
        /\ Leave(r)
        /\ UNCHANGED <<process, batches, quota>>

-----------------------------------------------------------------------------
(* The other middleware, and the handlers *)

\* LoadShedder: select takes a slot if the channel has room.
EnterSlot(r) ==
    /\ Stage(r) = "slot" /\ inFlight < MaxConcurrent
    /\ inFlight' = inFlight + 1
    /\ Proceed(r)
    /\ UNCHANGED <<process, limits, quota>>

Shed(r) == Stage(r) = "slot" /\ inFlight >= MaxConcurrent /\ Done(r)

Passes(r) == Proceed(r) /\ UNCHANGED <<process, limits, inFlight, quota>>

\* preventCSRF lets a GET pass, and a POST of the application's own origin;
\* parseForm reads a form that is small enough; FindKey finds a live key with
\* the scope orders:read.
CheckOrigin(r) == Stage(r) = "origin" /\ Passes(r)
ParseForm(r) == Stage(r) = "form" /\ Passes(r)
FindKey(r) == Stage(r) = "key" /\ Passes(r)
Check(r) == CheckOrigin(r) \/ ParseForm(r) \/ FindKey(r)

Refuse(r) == Stage(r) \in {"origin", "form", "key"} /\ Done(r)

\* Fault: the upsert has no WHERE request_count < 5.
ConsumeQuotaAlways(r) ==
    /\ Stage(r) = "quota" /\ req[r].timed
    /\ usage' = [usage EXCEPT ![DayOf[req[r].now]] = @ + 1]
    /\ req' = [req EXCEPT ![r].step = @ + 1, ![r].timed = FALSE]
    /\ UNCHANGED <<process, limits, inFlight, listed>>

\* One statement counts the request, or returns no row.
ConsumeAPIKeyQuota(d) ==
    /\ usage[d] < DailyQuota
    /\ usage' = [usage EXCEPT ![d] = @ + 1]

\* The day charged stays with the request.
ConsumeQuota(r) ==
    /\ Stage(r) = "quota" /\ req[r].timed
    /\ ConsumeAPIKeyQuota(DayOf[req[r].now])
    /\ req' = [req EXCEPT ![r].step = @ + 1, ![r].timed = FALSE]
    /\ UNCHANGED <<process, limits, inFlight, listed>>

\* GetAPIKeyUsage, when no row was returned.
UsedUp(d) == usage[d] >= DailyQuota

\* The day's quota is used up, or the database fails: 429 both times.
DenyQuota(r) == Stage(r) = "quota" /\ req[r].timed /\ Done(r)

\* Fault: the middleware returns without receiving from its channel.
ListOrdersKeepingSlot(r) ==
    /\ Stage(r) = "list"
    /\ listed' = [listed EXCEPT ![DayOf[req[r].now]] = @ + 1]
    /\ req' = [req EXCEPT ![r] = Idle]
    /\ UNCHANGED <<process, limits, inFlight, usage>>

ListOrders(r) ==
    /\ Stage(r) = "list"
    /\ listed' = [listed EXCEPT ![DayOf[req[r].now]] = @ + 1]
    /\ Leave(r)
    /\ UNCHANGED <<process, limits, usage>>

Handle(r) == Stage(r) = "handler" /\ Done(r)

\* recoverPanics answers outside the shedder; a failing ListAll ends alike.
Panic(r) == Stage(r) \in HandlerStages /\ Done(r)

-----------------------------------------------------------------------------
(* The process *)

\* A request that has read the clock reaches its lock within MaxLag.
Tick ==
    /\ clock < MaxTime
    /\ \A r \in Requests : req[r].timed => clock < req[r].now + MaxLag
    /\ clock' = clock + 1
    /\ UNCHANGED <<server, drainBy, limits, inFlight, quota, req>>

\* SIGINT or SIGTERM: Shutdown accepts no more, and waits for the rest.
Signal ==
    /\ server = "serving"
    /\ server' = "draining" /\ drainBy' = clock + DrainTime
    /\ UNCHANGED <<clock, limits, inFlight, quota, req>>

Stop ==
    /\ server = "draining"
    /\ \/ \A r \in Requests : ~Active(r)
       \/ clock >= drainBy
    /\ server' = "down" /\ drainBy' = 0
    /\ req' = [r \in Requests |-> Idle]
    /\ UNCHANGED <<clock, limits, inFlight, quota>>

\* The process dies, or ListenAndServe returns an error.
Crash ==
    /\ server = "serving"
    /\ server' = "down" /\ drainBy' = 0
    /\ req' = [r \in Requests |-> Idle]
    /\ UNCHANGED <<clock, limits, inFlight, quota>>

NoCounters == [l \in Limiters |-> [k \in Keys |-> NoCounter]]
NoBatches == [p \in Limiters \X Subjects |-> NoBatch]

\* run and New: the limiters and the shedder are made anew, the rows stay.
Start ==
    /\ server = "down"
    /\ server' = "serving"
    /\ counters' = NoCounters /\ batches' = NoBatches
    /\ nextSweepAt' = [l \in Limiters |-> clock + Window[l]]
    /\ inFlight' = 0
    /\ UNCHANGED <<clock, drainBy, quota, req>>

-----------------------------------------------------------------------------
Init ==
    /\ clock = 0 /\ server = "serving" /\ drainBy = 0
    /\ counters = NoCounters /\ batches = NoBatches
    /\ nextSweepAt = Window
    /\ inFlight = 0
    /\ usage = [d \in Days |-> 0]
    /\ listed = [d \in Days |-> 0]
    /\ req = [r \in Requests |-> Idle]

\* What the handler goroutine does next when nothing goes wrong.
Continue(r) ==
    \/ ReadClock(r) \/ Admit(r) \/ Reject(r) \/ EnterSlot(r) \/ Shed(r)
    \/ Check(r) \/ ConsumeQuota(r) \/ ListOrders(r) \/ Handle(r)
    \/ UsedUp(DayOf[req[r].now]) /\ DenyQuota(r)

Serve(r) ==
    Arrive(r) \/ Continue(r) \/ Refuse(r) \/ DenyQuota(r) \/ Panic(r)

Next ==
    \/ \E r \in Requests : Serve(r)
    \/ Tick \/ Signal \/ Stop \/ Crash \/ Start

Spec == Init /\ [][Next]_vars

\* Inside the shedder goroutines run on: statements end, and the server's
\* ReadTimeout ends the wait for a form.
Fairness == \A r \in Requests : WF_vars(Inside(r) /\ Continue(r))

LiveSpec == Spec /\ Fairness

-----------------------------------------------------------------------------
(* What the front door promises *)

Request ==
    [route : Routes, step : 1..7, client : Clients,
     forwarded : Seq(Clients \cup {Blank, Proxy}), email : Emails,
     timed : BOOLEAN, now : 0..MaxTime]

\* Every variable keeps its type: a slot is never given back twice, and no
\* counter goes past its limiter's maximum.
TypeOK ==
    /\ clock \in 0..MaxTime
    /\ server \in {"serving", "draining", "down"}
    /\ drainBy \in Nat
    /\ nextSweepAt \in [Limiters -> Nat]
    /\ counters \in [Limiters -> [Keys -> [count : Nat, resetAt : Nat]]]
    /\ \A l \in Limiters, k \in Keys : counters[l][k].count <= Maximum[l]
    /\ inFlight \in Nat
    /\ usage \in [Days -> Nat]
    /\ listed \in [Days -> Nat]
    /\ req \in [Requests -> Request \cup {Idle}]
    /\ batches \in [Limiters \X Subjects -> [openedAt : Nat, admitted : Nat]]

\* LoadShedder: the tokens in the channel are the requests that are past it,
\* whether handlers return, panic or are refused further in; so at most
\* MaxConcurrent run, and no token is lost while the server runs.
SlotsAreAccounted ==
    server # "down" =>
        /\ inFlight = Cardinality({r \in Requests : Inside(r)})
        /\ inFlight <= MaxConcurrent

\* sweepExpiredCounters: a limiter's memory holds no counter that expired a
\* window or more before the next sweep is due, although requests come to
\* the lock with clocks read in another order.
SweepKeepsUp ==
    \A l \in Limiters, k \in Keys :
        counters[l][k] # NoCounter =>
            nextSweepAt[l] < counters[l][k].resetAt + Window[l]

\* ConsumeQuota: however requests race, around midnight and over restarts, a
\* day's quota answers for no more order lists than it allows.
QuotaHolds ==
    \A d \in DOMAIN listed :
        listed[d] + Cardinality({r \in Requests :
            Stage(r) = "list" /\ DayOf[req[r].now] = d}) <= DailyQuota

\* consume: every limiter keeps the promise of Batches to each client address
\* and each account, whatever headers they send, but for the time a request
\* may spend between its clock and the lock.
Promise == INSTANCE Batches WITH
    Clients <- Limiters \X Subjects,
    Maximum <- [p \in Limiters \X Subjects |-> Maximum[p[1]]],
    Window <- [p \in Limiters \X Subjects |-> Window[p[1]]],
    Slack <- MaxLag,
    batch <- batches
ImplementsBatches == Promise!Spec

\* The load shedder turns requests away for a while only: a full channel has
\* room again without a restart.
CapacityReturns ==
    inFlight >= MaxConcurrent ~> (inFlight < MaxConcurrent \/ server = "down")
=============================================================================
