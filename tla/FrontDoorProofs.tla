--------------------------- MODULE FrontDoorProofs ---------------------------
(***************************************************************************)
(* Theorems about FrontDoor, for any clients, headers, limits and clocks.  *)
(*                                                                         *)
(* The invariant has four parts.  InProgress speaks of requests only, and  *)
(* each other part of one budget and the requests that draw on it: Limits  *)
(* of the limiters, Slots of the load shedder, Quota of the API keys.      *)
(***************************************************************************)
EXTENDS FrontDoor, FiniteSetTheorems, TLAPS

-----------------------------------------------------------------------------
(* The invariant *)

Lengths ==
    /\ clock \in 0..MaxTime
    /\ server \in {"serving", "draining", "down"}
    /\ drainBy \in Nat

\* A request is on its route's path, its header ends with the proxies' trail,
\* and the clock it has read is not older than MaxLag.
OnItsWay(q) ==
    /\ q.step <= Len(Path(q.route))
    /\ \E forged \in Forged : q.forwarded = forged \o Trail(q.client)
    /\ q.timed => q.now <= clock /\ clock <= q.now + MaxLag

InProgress ==
    /\ Lengths
    /\ req \in [Requests -> Request \cup {Idle}]
    /\ \A r \in Requests : req[r] = Idle \/ OnItsWay(req[r])
    /\ server = "down" => \A r \in Requests : req[r] = Idle

\* What a counter says of its subject's batch; without one the last batch is
\* over.
Agrees(c, b, w) ==
    /\ c.count > 0 => /\ c.count = b.admitted
                      /\ b.openedAt + w <= c.resetAt + MaxLag
    /\ c.count = 0 => /\ c = NoCounter
                      /\ b.admitted = 0 \/ b.openedAt + w <= clock + MaxLag

LimitTypes ==
    /\ nextSweepAt \in [Limiters -> Nat]
    /\ counters \in [Limiters -> [Keys -> [count : Nat, resetAt : Nat]]]
    /\ batches \in [Limiters \X Subjects -> [openedAt : Nat, admitted : Nat]]

Limits ==
    /\ LimitTypes
    /\ \A l \in Limiters : nextSweepAt[l] <= clock + Window[l]
    /\ \A l \in Limiters, k \in Keys : counters[l][k].count <= Maximum[l]
    /\ \A l \in Limiters, s \in Subjects :
          Agrees(counters[l][s], batches[<<l, s>>], Window[l])
    /\ SweepKeepsUp

Slots == inFlight \in Nat /\ SlotsAreAccounted

\* Requests that have been charged and not answered.
Charged(d) == {r \in Requests : Stage(r) = "list" /\ DayOf[req[r].now] = d}

Quota ==
    /\ usage \in [Days -> Nat] /\ listed \in [Days -> Nat]
    /\ \A d \in Days :
          listed[d] + Cardinality(Charged(d)) <= usage[d]
    /\ \A d \in Days : usage[d] <= DailyQuota

IInv == InProgress /\ Limits /\ Slots /\ Quota

-----------------------------------------------------------------------------
(* The paths and the keys *)

\* Every path has its slot in the second place, and an end of its own kind.
LEMMA PathFacts ==
    ASSUME NEW route \in DOMAIN Inner
    PROVE  /\ Len(Path(route)) \in 4..7
           /\ Path(route)[1] = "global"
           /\ Path(route)[2] = "slot"
           /\ Path(route)[3] = "origin"
           /\ \A i \in 4..Len(Path(route)) : Path(route)[i] # "slot"
           /\ \A i \in 1..Len(Path(route)) :
                 Path(route)[i] \notin {"handler", "list"} =>
                    i + 1 <= Len(Path(route))
           /\ \A i \in 1..(Len(Path(route)) - 1) :
                 Path(route)[i + 1] = "list" <=> Path(route)[i] = "quota"
  <1> USE DEF Path, Inner
  <1>1. CASE route = "page"
    BY <1>1
  <1>2. CASE route = "form"
    BY <1>2
  <1>3. CASE route = "search"
    BY <1>3
  <1>4. CASE route = "products"
    BY <1>4
  <1>5. CASE route = "login"
    BY <1>5
  <1>6. CASE route = "totp"
    BY <1>6
  <1>7. CASE route = "reset"
    BY <1>7
  <1>8. CASE route = "warehouse"
    BY <1>8
  <1>9. QED
    BY <1>1, <1>2, <1>3, <1>4, <1>5, <1>6, <1>7, <1>8

\* clientIPKeyWithTrustedProxies: whatever X-Forwarded-For a client sends, the
\* address selected is the one the outermost proxy was called from, the
\* client's.
THEOREM SourceIsClient ==
    ASSUME NEW client \in Clients, NEW forged \in Forged
    PROVE  ClientKey(forged \o Trail(client), RemoteAddr(client)) = client
  <1> USE FrontDoorAssumption
  <1>1. CASE TrustedProxyHops = 0
    BY <1>1 DEF ClientKey, RemoteAddr
  <1>2. CASE TrustedProxyHops > 0
    <2> DEFINE whole == forged \o Trail(client)
    <2> DEFINE Address == Clients \cup {Blank, Proxy}
    <2>1. /\ forged \in Seq(Address)
          /\ Trail(client) \in Seq(Address)
          /\ Len(Trail(client)) = TrustedProxyHops
          /\ Trail(client)[1] = client
      BY <1>2 DEF Trail
    <2>2. Len(whole) = Len(forged) + TrustedProxyHops
      <3> HIDE FrontDoorAssumption DEF Address
      <3>1. QED
        BY <2>1
    <2>3. whole[Len(forged) + 1] = client
      <3> HIDE DEF Address
      <3>1. QED
        BY <1>2, <2>1
    <2>4. Len(whole) + 1 - TrustedProxyHops = Len(forged) + 1
      BY <2>1, <2>2
    <2>5. client # Blank
      OBVIOUS
    <2>6. QED
      BY <1>2, <2>1, <2>2, <2>3, <2>4, <2>5 DEF ClientKey
  <1>3. QED
    BY <1>1, <1>2

\* So a limiter counts a request for the subject it is meant to limit.
LEMMA KeyIsSubject ==
    ASSUME NEW q \in Request, OnItsWay(q), NEW l \in Limiters
    PROVE  Key(l, q) = Subject(l, q) /\ Subject(l, q) \in Subjects
  <1>1. PICK forged \in Forged : q.forwarded = forged \o Trail(q.client)
    BY DEF OnItsWay
  <1>2. q.client \in Clients /\ q.email \in Emails
    BY DEF Request
  <1>3. ClientKey(q.forwarded, RemoteAddr(q.client)) = q.client
    BY <1>1, <1>2, SourceIsClient
  <1>4. Normal[q.email] \in Emails
    BY <1>2, FrontDoorAssumption
  <1>5. QED
    BY <1>2, <1>3, <1>4 DEF Key, Subject, AccountKey, Subjects

\* Where a request in progress is.
LEMMA StageFacts ==
    ASSUME InProgress, NEW r \in Requests, Active(r)
    PROVE  /\ req[r] \in Request /\ OnItsWay(req[r])
           /\ server # "down"
           /\ Stage(r) = "slot" <=> req[r].step = 2
           /\ Stage(r) \notin {"handler", "list"} =>
                  req[r].step + 1 <= Len(Path(req[r].route))
           /\ req[r].step + 1 <= Len(Path(req[r].route)) =>
                  /\ req[r].step + 1 \in 1..7
                  /\ Path(req[r].route)[req[r].step + 1] = "list"
                        <=> Stage(r) = "quota"
  <1>1. req[r] # Idle
    BY DEF Active, Idle
  <1>2. req[r] \in Request /\ OnItsWay(req[r]) /\ server # "down"
    BY <1>1 DEF InProgress
  <1>3. /\ req[r].route \in DOMAIN Inner
        /\ req[r].step \in 1..7
        /\ req[r].step <= Len(Path(req[r].route))
    BY <1>2, FrontDoorAssumption DEF Request, OnItsWay
  <1>4. Stage(r) = Path(req[r].route)[req[r].step]
    BY DEF Stage
  <1> DEFINE path == Path(req[r].route)  step == req[r].step
  <1>5. /\ Len(path) \in 4..7
        /\ path[1] = "global" /\ path[2] = "slot" /\ path[3] = "origin"
        /\ \A i \in 4..Len(path) : path[i] # "slot"
        /\ \A i \in 1..Len(path) :
              path[i] \notin {"handler", "list"} => i + 1 <= Len(path)
        /\ \A i \in 1..(Len(path) - 1) :
              path[i + 1] = "list" <=> path[i] = "quota"
    BY <1>3, PathFacts
  <1>6. Stage(r) = path[step] /\ step \in 1..7 /\ step <= Len(path)
    BY <1>3, <1>4
  <1> HIDE DEF path, step
  <1>7. Stage(r) = "slot" <=> step = 2
    <2>1. step \in {1, 2, 3} \/ step \in 4..Len(path)
      BY <1>5, <1>6
    <2>2. QED
      BY <2>1, <1>5, <1>6
  <1>8. Stage(r) \notin {"handler", "list"} => step + 1 <= Len(path)
    BY <1>5, <1>6
  <1>9. step + 1 <= Len(path) =>
           step + 1 \in 1..7 /\ (path[step + 1] = "list" <=> Stage(r) = "quota")
    BY <1>5, <1>6
  <1>10. QED
    BY <1>2, <1>7, <1>8, <1>9 DEF path, step

-----------------------------------------------------------------------------
(* Requests in progress *)

\* A request may become any other that is on its way.
LEMMA UpdateKeepsInProgress ==
    ASSUME InProgress, NEW r \in Requests, NEW q \in Request, OnItsWay(q),
           req' = [req EXCEPT ![r] = q], server # "down", UNCHANGED process
    PROVE  InProgress'
  <1>1. \A p : OnItsWay(p)' <=> OnItsWay(p)
    BY DEF OnItsWay, process
  <1>2. req' \in [Requests -> Request \cup {Idle}]
    BY DEF InProgress
  <1>3. \A p \in Requests : req'[p] = Idle \/ OnItsWay(req'[p])
    BY DEF InProgress
  <1>4. QED
    BY <1>1, <1>2, <1>3 DEF InProgress, Lengths, process

\* Whoever may go on, goes on along its path.
LEMMA ProceedKeepsInProgress ==
    ASSUME InProgress, NEW r \in Requests, Active(r), UNCHANGED process,
           Stage(r) \notin {"handler", "list"}, NEW now \in 0..MaxTime,
           req' = [req EXCEPT ![r].step = @ + 1, ![r].timed = FALSE,
                              ![r].now = now]
    PROVE  InProgress'
  <1> DEFINE q == [req[r] EXCEPT !.step = @ + 1, !.timed = FALSE, !.now = now]
  <1>1. req[r] \in Request /\ OnItsWay(req[r]) /\ server # "down"
    BY StageFacts
  <1>2. req[r].step + 1 <= Len(Path(req[r].route)) /\ req[r].step + 1 \in 1..7
    BY StageFacts
  <1>3. req' = [req EXCEPT ![r] = q]
    BY DEF InProgress
  <1>4. q \in Request
    BY <1>1, <1>2 DEF Request
  <1>5. OnItsWay(q)
    <2>1. /\ q.route = req[r].route /\ q.client = req[r].client
          /\ q.step = req[r].step + 1 /\ q.timed = FALSE
          /\ q.forwarded = req[r].forwarded
      BY <1>1 DEF Request
    <2> HIDE DEF q
    <2>2. QED
      BY <1>1, <1>2, <2>1 DEF OnItsWay
  <1>6. QED
    BY <1>1, <1>3, <1>4, <1>5, UpdateKeepsInProgress

\* A request that leaves is nowhere, and the others stay where they are.
LEMMA LeaveKeepsInProgress ==
    ASSUME InProgress, NEW r \in Requests,
           req' = [req EXCEPT ![r] = Idle], UNCHANGED process
    PROVE  InProgress'
  BY DEF InProgress, Lengths, process, OnItsWay

\* Each step keeps requests on their paths.
LEMMA NextKeepsInProgress ==
    ASSUME InProgress, Next PROVE InProgress'
  <1>1. ASSUME NEW r \in Requests, Arrive(r) PROVE InProgress'
    <2>1. PICK route \in Routes, client \in Clients, forged \in Forged,
               email \in Emails :
            req' = [req EXCEPT ![r] =
                      [route |-> route, step |-> 1, client |-> client,
                       forwarded |-> forged \o Trail(client),
                       email |-> email, timed |-> FALSE, now |-> 0]]
      BY <1>1 DEF Arrive
    <2> DEFINE q == [route |-> route, step |-> 1, client |-> client,
                     forwarded |-> forged \o Trail(client),
                     email |-> email, timed |-> FALSE, now |-> 0]
    <2>2. forged \o Trail(client) \in Seq(Clients \cup {Blank, Proxy})
      <3>1. Trail(client) \in Seq(Clients \cup {Blank, Proxy})
        BY FrontDoorAssumption DEF Trail
      <3>2. forged \in Seq(Clients \cup {Blank, Proxy})
        BY FrontDoorAssumption
      <3>3. QED
        BY <3>1, <3>2
    <2>3. q \in Request
      BY <2>2, FrontDoorAssumption DEF Request
    <2>4. OnItsWay(q)
      <3>1. 1 <= Len(Path(route))
        <4>1. route \in DOMAIN Inner
          BY FrontDoorAssumption
        <4>2. QED
          BY <4>1, PathFacts
      <3>2. QED
        BY <3>1 DEF OnItsWay
    <2>5. QED
      BY <1>1, <2>1, <2>3, <2>4, UpdateKeepsInProgress DEF Arrive
  <1>2. ASSUME NEW r \in Requests, ReadClock(r) PROVE InProgress'
    <2>1. Active(r)
      BY <1>2 DEF ReadClock, Stage, Limiters, BySource, ByAccount
    <2>2. req[r] \in Request /\ OnItsWay(req[r]) /\ server # "down"
      BY <2>1, StageFacts
    <2> DEFINE q == [req[r] EXCEPT !.timed = TRUE, !.now = clock]
    <2>3. req' = [req EXCEPT ![r] = q]
      BY <1>2 DEF ReadClock, InProgress
    <2>4. q \in Request
      BY <2>2 DEF Request, InProgress, Lengths
    <2>5. OnItsWay(q)
      <3>1. /\ q.route = req[r].route /\ q.client = req[r].client
            /\ q.step = req[r].step /\ q.forwarded = req[r].forwarded
            /\ q.now = clock
        BY <2>2 DEF Request
      <3>2. clock \in Nat /\ MaxLag \in Nat
        BY FrontDoorAssumption DEF InProgress, Lengths
      <3> HIDE DEF q
      <3>3. q.now <= clock /\ clock <= q.now + MaxLag
        BY <3>1, <3>2
      <3>4. QED
        BY <2>2, <3>1, <3>3 DEF OnItsWay
    <2>6. QED
      BY <1>2, <2>2, <2>3, <2>4, <2>5, UpdateKeepsInProgress DEF ReadClock
  <1>3. ASSUME NEW r \in Requests,
               Admit(r) \/ EnterSlot(r) \/ Check(r)
        PROVE  InProgress'
    <2>1. Active(r) /\ Stage(r) \notin {"handler", "list"}
      BY <1>3 DEF Admit, EnterSlot, Check, Passes, FindKey, ParseForm,
         CheckOrigin, AtLock, Stage, Limiters, BySource, ByAccount
    <2>2. UNCHANGED process /\ Proceed(r)
      BY <1>3 DEF Admit, EnterSlot, Check, Passes, FindKey, ParseForm,
         CheckOrigin
    <2>3. 0 \in 0..MaxTime
      BY FrontDoorAssumption
    <2>4. req' = [req EXCEPT ![r].step = @ + 1, ![r].timed = FALSE,
                             ![r].now = 0]
      BY <2>2 DEF Proceed
    <2>5. QED
      BY <2>1, <2>2, <2>3, <2>4, ProceedKeepsInProgress
  <1>4. ASSUME NEW r \in Requests, ConsumeQuota(r) PROVE InProgress'
    <2>1. Active(r) /\ Stage(r) = "quota"
      BY <1>4 DEF ConsumeQuota, ConsumeAPIKeyQuota, Stage
    <2>2. req[r] \in Request
      BY <2>1, StageFacts
    <2>3. req[r].now \in 0..MaxTime
      BY <2>2 DEF Request
    <2>4. req' = [req EXCEPT ![r].step = @ + 1, ![r].timed = FALSE,
                             ![r].now = req[r].now]
      BY <1>4, <2>2 DEF ConsumeQuota, ConsumeAPIKeyQuota, InProgress, Request
    <2>5. QED
      BY <1>4, <2>1, <2>3, <2>4, ProceedKeepsInProgress DEF ConsumeQuota,
         ConsumeAPIKeyQuota
  <1>5. ASSUME NEW r \in Requests,
               \/ Reject(r) \/ Shed(r) \/ Refuse(r) \/ DenyQuota(r)
               \/ ListOrders(r) \/ Handle(r) \/ Panic(r)
        PROVE  InProgress'
    BY <1>5, LeaveKeepsInProgress
       DEF Reject, Shed, Refuse, DenyQuota, ListOrders, Handle, Panic, Done,
           Leave
  <1>6. CASE Tick
    <2>1. \A r \in Requests : OnItsWay(req[r]) /\ req[r] \in Request =>
              OnItsWay(req[r])'
      <3>1. MaxLag \in Nat /\ clock \in Nat
        BY FrontDoorAssumption DEF InProgress, Lengths
      <3>2. ASSUME NEW r \in Requests, req[r] \in Request, OnItsWay(req[r])
            PROVE  OnItsWay(req[r])'
        <4>1. req'[r] = req[r] /\ clock' = clock + 1
          BY <1>6 DEF Tick
        <4>2. req[r].timed => req[r].now <= clock /\ clock < req[r].now + MaxLag
          BY <1>6, <3>2 DEF Tick, OnItsWay
        <4>3. req[r].now \in Nat
          BY <3>2, FrontDoorAssumption DEF Request
        <4>4. QED
          BY <3>1, <3>2, <4>1, <4>2, <4>3 DEF OnItsWay
      <3>3. QED
        BY <3>2
    <2>2. QED
      BY <1>6, <2>1, FrontDoorAssumption DEF Tick, InProgress, Lengths
  <1>7. CASE Signal
    <2>1. drainBy' \in Nat
      BY <1>7, FrontDoorAssumption DEF Signal, InProgress, Lengths
    <2>2. QED
      BY <1>7, <2>1 DEF Signal, InProgress, Lengths, OnItsWay
  <1>8. CASE Stop \/ Crash
    BY <1>8 DEF Stop, Crash, InProgress, Lengths, OnItsWay
  <1>9. CASE Start
    BY <1>9 DEF Start, InProgress, Lengths, OnItsWay
  <1>10. QED
    BY <1>1, <1>2, <1>3, <1>4, <1>5, <1>6, <1>7, <1>8, <1>9
       DEF Next, Serve, Continue

-----------------------------------------------------------------------------
(* The limiters *)

CounterType == [count : Nat, resetAt : Nat]

\* A request at the lock: what it counts for, and how old its clock is.
LEMMA LockFacts ==
    ASSUME InProgress, NEW r \in Requests, AtLock(r)
    PROVE  /\ Stage(r) \in Limiters
           /\ Key(Stage(r), req[r]) = Subject(Stage(r), req[r])
           /\ Subject(Stage(r), req[r]) \in Subjects
           /\ req[r].now \in Nat /\ clock \in Nat
           /\ req[r].now <= clock /\ clock <= req[r].now + MaxLag
  <1>1. Stage(r) \in Limiters /\ req[r].timed
    BY DEF AtLock
  <1>2. Active(r)
    BY <1>1 DEF Stage, Limiters, BySource, ByAccount
  <1>3. req[r] \in Request /\ OnItsWay(req[r])
    BY <1>2, StageFacts
  <1>4. req[r].now \in Nat /\ clock \in Nat
    BY <1>3, FrontDoorAssumption DEF Request, InProgress, Lengths
  <1>5. req[r].now <= clock /\ clock <= req[r].now + MaxLag
    BY <1>1, <1>3 DEF OnItsWay
  <1>6. QED
    BY <1>1, <1>3, <1>4, <1>5, KeyIsSubject

\* What a sweep leaves agrees with the batches, and is swept again in time.
LEMMA SweepFacts ==
    ASSUME Limits, NEW l \in Limiters, NEW now \in Nat,
           clock \in Nat, now <= clock
    PROVE  /\ Swept(l, now) \in [Keys -> CounterType]
           /\ SweepAgainAt(l, now) \in Nat
           /\ SweepAgainAt(l, now) <= clock + Window[l]
           /\ \A k \in Keys : Swept(l, now)[k].count <= Maximum[l]
           /\ \A k \in Keys : Swept(l, now)[k] # NoCounter =>
                 SweepAgainAt(l, now) < Swept(l, now)[k].resetAt + Window[l]
           /\ \A s \in Subjects :
                 Agrees(Swept(l, now)[s], batches[<<l, s>>], Window[l])
  <1> DEFINE old == counters[l]
             new == Swept(l, now)
             again == SweepAgainAt(l, now)
  <1>1. /\ old \in [Keys -> CounterType] /\ nextSweepAt[l] \in Nat
        /\ NoCounter \in CounterType
        /\ NoCounter.count = 0 /\ NoCounter.resetAt = 0
    BY DEF Limits, LimitTypes, CounterType, NoCounter
  <1>2. /\ Window[l] \in Nat /\ Maximum[l] \in Nat /\ MaxLag \in Nat
        /\ Maximum[l] > 0
    BY FrontDoorAssumption
  <1>3. CASE now < nextSweepAt[l]
    <2>1. new = old /\ again = nextSweepAt[l]
      BY <1>3 DEF Swept, SweepAgainAt
    <2>2. QED
      BY <1>1, <2>1 DEF Limits, SweepKeepsUp, Keys
  <1>4. CASE ~(now < nextSweepAt[l])
    <2>1. /\ new = [k \in Keys |-> IF now >= old[k].resetAt THEN NoCounter
                                   ELSE old[k]]
          /\ again = now + Window[l]
      BY <1>4 DEF Swept, SweepAgainAt
    <2> HIDE DEF new, again
    <2>2. new \in [Keys -> CounterType] /\ again \in Nat
      BY <1>1, <1>2, <2>1
    <2>3. again <= clock + Window[l]
      BY <1>2, <2>1
    <2>4. \A k \in Keys : new[k].count <= Maximum[l]
      BY <1>1, <1>2, <2>1 DEF Limits
    <2>5. ASSUME NEW k \in Keys, new[k] # NoCounter
          PROVE  again < new[k].resetAt + Window[l]
      <3>1. new[k] = old[k] /\ now < old[k].resetAt
        BY <1>1, <2>1, <2>5 DEF CounterType
      <3>2. old[k].resetAt \in Nat
        BY <1>1 DEF CounterType
      <3>3. QED
        BY <1>2, <2>1, <3>1, <3>2
    <2>6. ASSUME NEW s \in Subjects
          PROVE  Agrees(new[s], batches[<<l, s>>], Window[l])
      <3> DEFINE b == batches[<<l, s>>]
      <3>1. s \in Keys /\ old[s] \in CounterType
        BY <1>1 DEF Keys
      <3>2. Agrees(old[s], b, Window[l])
        BY DEF Limits
      <3>3. b \in [openedAt : Nat, admitted : Nat]
        BY DEF Limits, LimitTypes
      <3> HIDE DEF b, old
      <3>4. CASE now < old[s].resetAt
        <4>1. new[s] = old[s]
          BY <2>1, <3>1, <3>4 DEF CounterType
        <4>2. QED
          BY <3>2, <4>1 DEF b
      <3>5. CASE ~(now < old[s].resetAt)
        <4>1. new[s] = NoCounter
          BY <2>1, <3>1, <3>5 DEF CounterType
        <4>2. b.admitted = 0 \/ b.openedAt + Window[l] <= clock + MaxLag
          BY <1>2, <3>1, <3>2, <3>3, <3>5 DEF Agrees, CounterType
        <4>3. QED
          BY <1>1, <4>1, <4>2 DEF Agrees, b
      <3>6. QED
        BY <3>4, <3>5 DEF b
    <2>7. QED
      BY <2>2, <2>3, <2>4, <2>5, <2>6 DEF new, again
  <1>5. QED
    BY <1>3, <1>4

\* Counters that are as a sweep leaves them are as they should be.
LEMMA RejectKeepsLimits ==
    ASSUME InProgress, Limits, NEW r \in Requests, Reject(r)
    PROVE  Limits'
  <1> DEFINE l == Stage(r)
             now == req[r].now
  <1>1. /\ l \in Limiters /\ now \in Nat /\ clock \in Nat /\ now <= clock
    BY LockFacts DEF Reject
  <1>2. /\ counters' = [counters EXCEPT ![l] = Swept(l, now)]
        /\ nextSweepAt' = [nextSweepAt EXCEPT ![l] = SweepAgainAt(l, now)]
        /\ batches' = batches /\ clock' = clock
    BY DEF Reject, process
  <1> HIDE DEF l, now
  <1>3. /\ Swept(l, now) \in [Keys -> CounterType]
        /\ SweepAgainAt(l, now) \in Nat
        /\ SweepAgainAt(l, now) <= clock + Window[l]
        /\ \A k \in Keys : Swept(l, now)[k].count <= Maximum[l]
        /\ \A k \in Keys : Swept(l, now)[k] # NoCounter =>
              SweepAgainAt(l, now) < Swept(l, now)[k].resetAt + Window[l]
        /\ \A s \in Subjects :
              Agrees(Swept(l, now)[s], batches[<<l, s>>], Window[l])
    BY <1>1, SweepFacts
  <1>4. LimitTypes'
    BY <1>2, <1>3 DEF Limits, LimitTypes, CounterType
  <1>5. \A j \in Limiters : nextSweepAt'[j] <= clock' + Window[j]
    BY <1>2, <1>3 DEF Limits, LimitTypes
  <1>6. \A j \in Limiters, k \in Keys : counters'[j][k].count <= Maximum[j]
    BY <1>2, <1>3 DEF Limits, LimitTypes
  <1>7. \A j \in Limiters, s \in Subjects :
            Agrees(counters'[j][s], batches[<<j, s>>], Window[j])
    BY <1>2, <1>3 DEF Limits, LimitTypes
  <1>8. SweepKeepsUp'
    BY <1>2, <1>3 DEF Limits, LimitTypes, SweepKeepsUp
  <1>9. QED
    BY <1>2, <1>4, <1>5, <1>6, <1>7, <1>8 DEF Limits, Agrees

\* The counter a request finds at the lock, as it reads it.
LEMMA CounterFacts ==
    ASSUME Limits, NEW l \in Limiters, NEW s \in Subjects, NEW now \in Nat,
           clock \in Nat, now <= clock, clock <= now + MaxLag,
           Counter(l, s, now).count < Maximum[l]
    PROVE  LET c == Counter(l, s, now)
               b == batches[<<l, s>>]
           IN  /\ c \in CounterType
               /\ c.count = 0 =>
                     /\ c.resetAt = now + Window[l]
                     /\ b.admitted = 0 \/ b.openedAt + Window[l] <= clock + MaxLag
               /\ c.count > 0 =>
                     /\ c = Swept(l, now)[s] /\ c # NoCounter
                     /\ c.count = b.admitted
                     /\ b.openedAt + Window[l] <= c.resetAt + MaxLag
  <1> DEFINE c == Counter(l, s, now)
             b == batches[<<l, s>>]
             old == Swept(l, now)[s]
             fresh == [count |-> 0, resetAt |-> now + Window[l]]
  <1>1. old \in CounterType /\ Agrees(old, b, Window[l])
    BY SweepFacts DEF Keys
  <1>2. Window[l] \in Nat /\ MaxLag \in Nat
    BY FrontDoorAssumption
  <1>3. b \in [openedAt : Nat, admitted : Nat]
    BY DEF Limits, LimitTypes
  <1>4. c = IF now >= old.resetAt THEN fresh ELSE old
    BY DEF Counter
  <1> HIDE DEF c, b, old
  <1>5. CASE now >= old.resetAt
    <2>1. c = fresh
      BY <1>4, <1>5
    <2>2. b.admitted = 0 \/ b.openedAt + Window[l] <= clock + MaxLag
      BY <1>1, <1>2, <1>3, <1>5 DEF Agrees, CounterType
    <2>3. QED
      BY <1>2, <2>1, <2>2 DEF CounterType, c, b, old
  <1>6. CASE ~(now >= old.resetAt)
    <2>1. c = old
      BY <1>4, <1>6
    <2>2. old.count > 0
      BY <1>1, <1>6 DEF Agrees, CounterType, NoCounter
    <2>3. old # NoCounter
      BY <2>2 DEF NoCounter
    <2>4. QED
      BY <1>1, <2>1, <2>2, <2>3 DEF Agrees, CounterType, c, b, old
  <1>7. QED
    BY <1>5, <1>6

\* Admission counts for the subject, and its batch goes on or begins anew.
LEMMA AdmitKeepsLimits ==
    ASSUME InProgress, Limits, NEW r \in Requests, Admit(r)
    PROVE  Limits'
  <1> DEFINE l == Stage(r)
             s == Subject(l, req[r])
             now == req[r].now
             c == Counter(l, s, now)
             d == [c EXCEPT !.count = @ + 1]
             b == batches[<<l, s>>]
             e == Joined(b, c)
             new == [Swept(l, now) EXCEPT ![s] = d]
             again == SweepAgainAt(l, now)
  <1>1. /\ l \in Limiters /\ s \in Subjects /\ now \in Nat /\ clock \in Nat
        /\ now <= clock /\ clock <= now + MaxLag /\ Key(l, req[r]) = s
    BY LockFacts DEF Admit
  <1>2. /\ c.count < Maximum[l]
        /\ counters' = [counters EXCEPT ![l] = new]
        /\ nextSweepAt' = [nextSweepAt EXCEPT ![l] = again]
        /\ batches' = [batches EXCEPT ![<<l, s>>] = e]
        /\ clock' = clock
    <2>1. c.count < Maximum[l] /\ clock' = clock
      BY <1>1 DEF Admit, process
    <2>2. nextSweepAt' = [nextSweepAt EXCEPT ![l] = again]
      BY DEF Admit
    <2>3. counters' = [counters EXCEPT ![l] = new]
      BY <1>1 DEF Admit
    <2>4. batches' = [batches EXCEPT ![<<l, s>>] = e]
      BY <1>1 DEF Admit
    <2>5. QED
      BY <2>1, <2>2, <2>3, <2>4
  <1>3. /\ c \in CounterType
        /\ c.count = 0 => c.resetAt = now + Window[l]
        /\ c.count > 0 =>
              /\ c = Swept(l, now)[s] /\ c # NoCounter
              /\ c.count = b.admitted
              /\ b.openedAt + Window[l] <= c.resetAt + MaxLag
    BY <1>1, <1>2, CounterFacts
  <1>4. /\ Swept(l, now) \in [Keys -> CounterType]
        /\ again \in Nat
        /\ again <= clock + Window[l]
        /\ \A k \in Keys : Swept(l, now)[k].count <= Maximum[l]
        /\ \A k \in Keys : Swept(l, now)[k] # NoCounter =>
              again < Swept(l, now)[k].resetAt + Window[l]
        /\ \A t \in Subjects :
              Agrees(Swept(l, now)[t], batches[<<l, t>>], Window[l])
    BY <1>1, SweepFacts
  <1>5. /\ b \in [openedAt : Nat, admitted : Nat]
        /\ Window[l] \in Nat /\ Maximum[l] \in Nat /\ MaxLag \in Nat
        /\ MaxLag < Window[l] /\ s \in Keys
    BY <1>1, FrontDoorAssumption DEF Limits, LimitTypes, Keys
  <1> HIDE DEF l, s, now, c, b, again
  <1>6. /\ d \in CounterType /\ d.count = c.count + 1
        /\ d.resetAt = c.resetAt
    BY <1>3 DEF CounterType
  <1>7. /\ e \in [openedAt : Nat, admitted : Nat]
        /\ d.count = e.admitted
        /\ e.openedAt + Window[l] <= d.resetAt + MaxLag
    <2>1. CASE c.count = 0
      BY <1>1, <1>3, <1>5, <1>6, <2>1 DEF Joined
    <2>2. CASE c.count # 0
      <3>1. c.count > 0
        BY <1>3, <2>2 DEF CounterType
      <3>2. e = [b EXCEPT !.admitted = @ + 1]
        BY <2>2 DEF Joined
      <3>3. e.openedAt = b.openedAt /\ e.admitted = b.admitted + 1
        BY <1>5, <3>2
      <3>4. QED
        BY <1>3, <1>5, <1>6, <3>1, <3>2, <3>3
    <2>3. QED
      BY <2>1, <2>2
  <1>8. again < d.resetAt + Window[l]
    <2>1. CASE c.count = 0
      BY <1>1, <1>3, <1>4, <1>5, <1>6, <2>1
    <2>2. CASE c.count # 0
      BY <1>3, <1>4, <1>5, <1>6, <2>2 DEF CounterType
    <2>3. QED
      BY <2>1, <2>2
  <1> HIDE DEF d, e
  <1>9. new \in [Keys -> CounterType]
    BY <1>4, <1>6
  <1>10. LimitTypes'
    BY <1>1, <1>2, <1>4, <1>7, <1>9 DEF Limits, LimitTypes, CounterType
  <1>11. \A j \in Limiters : nextSweepAt'[j] <= clock' + Window[j]
    BY <1>2, <1>4 DEF Limits, LimitTypes
  <1>12. \A k \in Keys : new[k].count <= Maximum[l]
    <2>1. d.count <= Maximum[l]
      BY <1>2, <1>3, <1>5, <1>6 DEF CounterType
    <2>2. QED
      BY <1>4, <2>1
  <1>13. \A k \in Keys : new[k] # NoCounter =>
             again < new[k].resetAt + Window[l]
    BY <1>4, <1>8
  <1>14. ASSUME NEW t \in Subjects
         PROVE  Agrees(new[t], batches'[<<l, t>>], Window[l])
    <2>1. t \in Keys
      BY DEF Keys
    <2>2. CASE t = s
      <3>1. new[t] = d /\ batches'[<<l, t>>] = e
        BY <1>1, <1>2, <1>4, <1>5, <2>2 DEF Limits, LimitTypes
      <3>2. d.count > 0
        BY <1>3, <1>6 DEF CounterType
      <3>3. QED
        BY <1>7, <3>1, <3>2 DEF Agrees
    <2>3. CASE t # s
      <3>1. new[t] = Swept(l, now)[t] /\ batches'[<<l, t>>] = batches[<<l, t>>]
        BY <1>1, <1>2, <1>4, <2>1, <2>3 DEF Limits, LimitTypes
      <3>2. QED
        BY <1>4, <3>1
    <2>4. QED
      BY <2>2, <2>3
  <1> HIDE DEF new
  <1>15. \A j \in Limiters, k \in Keys : counters'[j][k].count <= Maximum[j]
    BY <1>1, <1>2, <1>12 DEF Limits, LimitTypes
  <1>16. SweepKeepsUp'
    BY <1>1, <1>2, <1>13 DEF Limits, LimitTypes, SweepKeepsUp
  <1>17. ASSUME NEW j \in Limiters, NEW t \in Subjects
         PROVE  Agrees(counters'[j][t], batches'[<<j, t>>], Window[j])
    <2>1. CASE j = l
      BY <1>1, <1>2, <1>14, <2>1 DEF Limits, LimitTypes
    <2>2. CASE j # l
      <3>1. /\ counters'[j] = counters[j]
            /\ batches'[<<j, t>>] = batches[<<j, t>>]
        BY <1>1, <1>2, <2>2 DEF Limits, LimitTypes
      <3>2. QED
        BY <3>1 DEF Limits
    <2>3. QED
      BY <2>1, <2>2
  <1>18. \A x, y, w : Agrees(x, y, w)' <=> Agrees(x, y, w)
    BY <1>2 DEF Agrees
  <1>19. QED
    BY <1>10, <1>11, <1>15, <1>16, <1>17, <1>18 DEF Limits

\* Time only makes it later for a batch that is over.
LEMMA TickKeepsLimits ==
    ASSUME InProgress, Limits, Tick PROVE Limits'
  <1>1. clock \in Nat /\ clock' = clock + 1 /\ UNCHANGED limits
    BY FrontDoorAssumption DEF Tick, InProgress, Lengths
  <1>2. ASSUME NEW l \in Limiters, NEW s \in Subjects
        PROVE  Agrees(counters[l][s], batches[<<l, s>>], Window[l])'
    <2>1. /\ Agrees(counters[l][s], batches[<<l, s>>], Window[l])
          /\ batches[<<l, s>>] \in [openedAt : Nat, admitted : Nat]
      BY DEF Limits, LimitTypes
    <2>2. Window[l] \in Nat /\ MaxLag \in Nat
      BY FrontDoorAssumption
    <2>3. counters'[l][s] = counters[l][s]
          /\ batches'[<<l, s>>] = batches[<<l, s>>]
      BY <1>1 DEF limits
    <2>4. QED
      BY <1>1, <2>1, <2>2, <2>3 DEF Agrees
  <1>3. \A l \in Limiters : nextSweepAt[l] <= clock + 1 + Window[l]
    BY <1>1, FrontDoorAssumption DEF Limits, LimitTypes
  <1>4. QED
    BY <1>1, <1>2, <1>3 DEF Limits, LimitTypes, SweepKeepsUp, limits

\* A new process knows no counter and no batch.
LEMMA StartKeepsLimits ==
    ASSUME InProgress, Start PROVE Limits'
  <1>1. /\ counters' = NoCounters /\ batches' = NoBatches
        /\ nextSweepAt' = [l \in Limiters |-> clock + Window[l]]
        /\ clock' = clock /\ clock \in Nat
    BY FrontDoorAssumption DEF Start, InProgress, Lengths
  <1>2. \A l \in Limiters : Window[l] \in Nat /\ Maximum[l] \in Nat
    BY FrontDoorAssumption
  <1>3. LimitTypes'
    BY <1>1, <1>2 DEF LimitTypes, NoCounters, NoBatches, NoCounter, NoBatch
  <1>4. /\ \A l \in Limiters, k \in Keys : counters'[l][k] = NoCounter
        /\ \A l \in Limiters, s \in Subjects : batches'[<<l, s>>] = NoBatch
    BY <1>1 DEF NoCounters, NoBatches
  <1>5. \A l \in Limiters, s \in Subjects :
            Agrees(counters[l][s], batches[<<l, s>>], Window[l])'
    <2>1. \A w : Agrees(NoCounter, NoBatch, w)'
      BY DEF Agrees, NoCounter, NoBatch
    <2>2. QED
      BY <1>4, <2>1 DEF Keys
  <1>6. SweepKeepsUp'
    BY <1>4 DEF SweepKeepsUp
  <1>7. QED
    BY <1>1, <1>2, <1>3, <1>4, <1>5, <1>6 DEF Limits, NoCounter

\* Each step keeps the limiters in order.
LEMMA NextKeepsLimits ==
    ASSUME InProgress, Limits, Next PROVE Limits'
  <1>1. ASSUME UNCHANGED limits, clock' = clock PROVE Limits'
    BY <1>1 DEF Limits, LimitTypes, Agrees, SweepKeepsUp, limits
  <1>2. ASSUME NEW r \in Requests,
               \/ Arrive(r) \/ ReadClock(r) \/ EnterSlot(r) \/ Shed(r)
               \/ Check(r) \/ Refuse(r) \/ ConsumeQuota(r) \/ DenyQuota(r)
               \/ ListOrders(r) \/ Handle(r) \/ Panic(r)
        PROVE  Limits'
    BY <1>1, <1>2
       DEF Arrive, ReadClock, EnterSlot, Shed, Check, Passes, FindKey,
           ParseForm, CheckOrigin, Refuse, ConsumeQuota, ConsumeAPIKeyQuota,
           DenyQuota, ListOrders, Handle, Panic, Done, process
  <1>3. CASE Signal \/ Stop \/ Crash
    BY <1>1, <1>3 DEF Signal, Stop, Crash
  <1>4. QED
    BY <1>2, <1>3, AdmitKeepsLimits, RejectKeepsLimits, TickKeepsLimits,
       StartKeepsLimits
       DEF Next, Serve, Continue

-----------------------------------------------------------------------------
(* The load shedder and the quota *)

Running == {r \in Requests : Inside(r)}

\* A step of one request leaves the others where they are.
LEMMA OthersStay ==
    ASSUME InProgress, NEW r \in Requests, NEW x,
           req' = [req EXCEPT ![r] = x]
    PROVE  /\ req'[r] = x
           /\ \A q \in Requests \ {r} :
                 /\ req'[q] = req[q]
                 /\ Inside(q)' <=> Inside(q)
                 /\ Stage(q)' = Stage(q)
  BY DEF InProgress, Inside, Stage, Active

\* A request that has left holds no place, and no other one moves.
LEMMA IdleIsNowhere ==
    ASSUME InProgress, NEW r \in Requests, req' = [req EXCEPT ![r] = Idle]
    PROVE  /\ Stage(r)' = "idle"
           /\ \A q \in Requests \ {r} :
                 req'[q] = req[q] /\ Stage(q)' = Stage(q)
  <1>1. req'[r] = Idle
    BY DEF InProgress
  <1>2. Stage(r)' = "idle"
    BY <1>1 DEF Stage, Active, Idle
  <1>3. QED
    BY <1>2, OthersStay

\* A request that goes on comes behind the shedder by its slot only, and to the
\* order list by its quota only.
LEMMA ProceedFacts ==
    ASSUME InProgress, NEW r \in Requests, Active(r), NEW now \in 0..MaxTime,
           Stage(r) \notin {"handler", "list"},
           req' = [req EXCEPT ![r].step = @ + 1, ![r].timed = FALSE,
                              ![r].now = now]
    PROVE  /\ req'[r].now = now
           /\ Stage(r)' = "list" <=> Stage(r) = "quota"
           /\ Inside(r)' <=> Inside(r) \/ Stage(r) = "slot"
           /\ \A q \in Requests \ {r} :
                 /\ req'[q] = req[q]
                 /\ Inside(q)' <=> Inside(q)
                 /\ Stage(q)' = Stage(q)
  <1> DEFINE p == [req[r] EXCEPT !.step = @ + 1, !.timed = FALSE, !.now = now]
  <1>1. /\ req[r] \in Request
        /\ Stage(r) = "slot" <=> req[r].step = 2
        /\ req[r].step + 1 \in 1..7
        /\ Path(req[r].route)[req[r].step + 1] = "list" <=> Stage(r) = "quota"
    BY StageFacts
  <1>2. req' = [req EXCEPT ![r] = p]
    BY DEF InProgress
  <1>3. /\ p.step = req[r].step + 1 /\ p.now = now
        /\ p.route = req[r].route /\ req[r].step \in 1..7
    BY <1>1 DEF Request
  <1> HIDE DEF p
  <1>4. /\ req'[r] = p
        /\ \A q \in Requests \ {r} :
              /\ req'[q] = req[q]
              /\ Inside(q)' <=> Inside(q)
              /\ Stage(q)' = Stage(q)
    BY <1>2, OthersStay
  <1>5. Inside(r)' <=> Inside(r) \/ Stage(r) = "slot"
    BY <1>1, <1>3, <1>4 DEF Inside
  <1>6. Stage(r)' = Path(req[r].route)[req[r].step + 1]
    BY <1>1, <1>3, <1>4 DEF Stage, Active
  <1>7. QED
    BY <1>1, <1>3, <1>4, <1>5, <1>6

\* What keeps one set of requests running keeps the shedder in order.
LEMMA SameRunning ==
    ASSUME Slots, Running' = Running, UNCHANGED inFlight,
           server' # "down" => server # "down"
    PROVE  Slots'
  <1>1. Running = {r \in Requests : Inside(r)} /\ Running' = {r \in Requests : Inside(r)'}
    BY DEF Running
  <1>2. QED
    BY <1>1 DEF Slots, SlotsAreAccounted

\* Each step of a request keeps the shedder in order.
LEMMA LeaveKeepsSlots ==
    ASSUME InProgress, Slots, NEW r \in Requests, Active(r), Leave(r),
           UNCHANGED process
    PROVE  Slots'
  <1>1. ~Inside(r)'
    BY DEF Leave, InProgress, Inside, Idle
  <1>2. \A q \in Requests \ {r} : Inside(q)' <=> Inside(q)
    BY OthersStay DEF Leave
  <1>3. server # "down" /\ server' = server
    BY StageFacts DEF process
  <1>4. CASE Inside(r)
    <2>1. Running' = Running \ {r} /\ r \in Running
      BY <1>1, <1>2, <1>4 DEF Running
    <2>2. IsFiniteSet(Running)
      BY FS_Subset, FiniteRequests DEF Running
    <2>3. Cardinality(Running') = Cardinality(Running) - 1
      BY <2>1, <2>2, FS_RemoveElement
    <2>4. Cardinality(Running') \in Nat /\ Cardinality(Running) \in Nat
      BY <2>1, <2>2, FS_RemoveElement, FS_CardinalityType
    <2>5. /\ inFlight = Cardinality(Running) /\ inFlight <= MaxConcurrent
          /\ inFlight' = inFlight - 1
      BY <1>3, <1>4 DEF Slots, SlotsAreAccounted, Running, Leave
    <2>6. QED
      BY <2>3, <2>4, <2>5, FrontDoorAssumption
         DEF Slots, SlotsAreAccounted, Running
  <1>5. CASE ~Inside(r)
    BY <1>1, <1>2, <1>3, <1>5, SameRunning DEF Leave, Running
  <1>6. QED
    BY <1>4, <1>5

\* Each step keeps the tokens equal to the requests past the shedder.
LEMMA NextKeepsSlots ==
    ASSUME InProgress, Slots, Next PROVE Slots'
  <1>1. ASSUME NEW r \in Requests, Arrive(r) PROVE Slots'
    <2>1. PICK route \in Routes, client \in Clients, forged \in Forged,
               email \in Emails :
            req' = [req EXCEPT ![r] =
                      [route |-> route, step |-> 1, client |-> client,
                       forwarded |-> forged \o Trail(client),
                       email |-> email, timed |-> FALSE, now |-> 0]]
      BY <1>1 DEF Arrive
    <2>2. ~Inside(r) /\ ~Inside(r)'
      BY <1>1, <2>1 DEF Arrive, InProgress, Inside, Active
    <2>3. Running' = Running
      BY <2>1, <2>2, OthersStay DEF Running
    <2>4. QED
      BY <1>1, <2>3, SameRunning DEF Arrive, process
  <1>2. ASSUME NEW r \in Requests, ReadClock(r) PROVE Slots'
    <2>1. Active(r)
      BY <1>2 DEF ReadClock, Stage, Limiters, BySource, ByAccount
    <2>2. req' = [req EXCEPT ![r] = [req[r] EXCEPT !.timed = TRUE,
                                                   !.now = clock]]
      BY <1>2 DEF ReadClock, InProgress
    <2>3. req[r] \in Request
      BY <2>1, StageFacts
    <2>4. req'[r].step = req[r].step
      BY <2>2, <2>3, OthersStay DEF Request
    <2>5. Running' = Running
      BY <2>2, <2>4, OthersStay DEF Running, Inside
    <2>6. QED
      BY <1>2, <2>5, SameRunning DEF ReadClock, process
  <1>3. ASSUME NEW r \in Requests,
               Admit(r) \/ Check(r) \/ ConsumeQuota(r)
        PROVE  Slots'
    <2>1. PICK now \in 0..MaxTime :
            req' = [req EXCEPT ![r].step = @ + 1, ![r].timed = FALSE,
                               ![r].now = now]
      <3>1. CASE Admit(r) \/ Check(r)
        <4>1. 0 \in 0..MaxTime
          BY FrontDoorAssumption
        <4>2. QED
          BY <3>1, <4>1 DEF Admit, Check, Passes, FindKey, ParseForm,
             CheckOrigin, Proceed
      <3>2. CASE ConsumeQuota(r)
        <4>1. Active(r)
          BY <3>2 DEF ConsumeQuota, ConsumeAPIKeyQuota, Stage
        <4>2. req[r] \in Request
          BY <4>1, StageFacts
        <4>3. req[r].now \in 0..MaxTime
          BY <4>2 DEF Request
        <4>4. req' = [req EXCEPT ![r].step = @ + 1, ![r].timed = FALSE,
                                 ![r].now = req[r].now]
          BY <3>2, <4>2 DEF ConsumeQuota, ConsumeAPIKeyQuota, InProgress,
             Request
        <4>5. QED
          BY <4>3, <4>4
      <3>3. QED
        BY <1>3, <3>1, <3>2
    <2>2. Active(r) /\ Stage(r) \notin {"handler", "list", "slot"}
      BY <1>3 DEF Admit, Check, Passes, FindKey, ParseForm, CheckOrigin,
         ConsumeQuota, ConsumeAPIKeyQuota, AtLock, Stage, Limiters, BySource,
         ByAccount
    <2>3. Running' = Running
      BY <2>1, <2>2, ProceedFacts DEF Running
    <2>4. UNCHANGED inFlight /\ server' = server
      BY <1>3 DEF Admit, Check, Passes, FindKey, ParseForm, CheckOrigin,
         ConsumeQuota, ConsumeAPIKeyQuota, process
    <2>5. QED
      BY <2>3, <2>4, SameRunning
  <1>4. ASSUME NEW r \in Requests, EnterSlot(r) PROVE Slots'
    <2>1. Active(r) /\ Stage(r) = "slot" /\ server # "down"
      <3>1. Active(r) /\ Stage(r) = "slot"
        BY <1>4 DEF EnterSlot, Stage
      <3>2. QED
        BY <3>1, StageFacts
    <2>2. 0 \in 0..MaxTime
      BY FrontDoorAssumption
    <2>3. req' = [req EXCEPT ![r].step = @ + 1, ![r].timed = FALSE,
                             ![r].now = 0]
      BY <1>4 DEF EnterSlot, Proceed
    <2>4. ~Inside(r)
      BY <2>1, StageFacts DEF Inside
    <2>5. Running' = Running \cup {r} /\ r \notin Running
      BY <2>1, <2>2, <2>3, <2>4, ProceedFacts DEF Running
    <2>6. IsFiniteSet(Running)
      BY FS_Subset, FiniteRequests DEF Running
    <2>7. Cardinality(Running') = Cardinality(Running) + 1
      BY <2>5, <2>6, FS_AddElement
    <2>8. Cardinality(Running) \in Nat
      BY <2>6, FS_CardinalityType
    <2>9. /\ inFlight = Cardinality(Running) /\ inFlight < MaxConcurrent
          /\ inFlight' = inFlight + 1
      BY <1>4, <2>1 DEF Slots, SlotsAreAccounted, Running, EnterSlot
    <2>10. QED
      BY <2>7, <2>8, <2>9, FrontDoorAssumption
         DEF Slots, SlotsAreAccounted, Running
  <1>5. ASSUME NEW r \in Requests,
               \/ Reject(r) \/ Shed(r) \/ Refuse(r) \/ DenyQuota(r)
               \/ ListOrders(r) \/ Handle(r) \/ Panic(r)
        PROVE  Slots'
    <2>1. Active(r)
      BY <1>5 DEF Reject, Shed, Refuse, DenyQuota, ListOrders, Handle, Panic,
                  AtLock, Stage, Limiters, BySource, ByAccount, HandlerStages
    <2>2. Leave(r) /\ UNCHANGED process
      BY <1>5 DEF Reject, Shed, Refuse, DenyQuota, ListOrders, Handle, Panic,
                  Done
    <2>3. QED
      BY <2>1, <2>2, LeaveKeepsSlots
  <1>6. CASE Tick \/ Signal
    BY <1>6, SameRunning DEF Tick, Signal, Running, Inside
  <1>7. CASE Stop \/ Crash
    BY <1>7 DEF Stop, Crash, Slots, SlotsAreAccounted
  <1>8. CASE Start
    <2>1. Running' = {}
      BY <1>8 DEF Start, InProgress, Running, Inside, Idle
    <2>2. inFlight' = 0 /\ Cardinality({}) = 0 /\ MaxConcurrent \in Nat
      BY <1>8, FS_EmptySet, FrontDoorAssumption DEF Start
    <2>3. {r \in Requests : Inside(r)'} = {}
      BY <2>1 DEF Running
    <2>4. QED
      BY <2>2, <2>3 DEF Slots, SlotsAreAccounted
  <1>9. QED
    BY <1>1, <1>2, <1>3, <1>4, <1>5, <1>6, <1>7, <1>8
       DEF Next, Serve, Continue

\* Fewer requests that wait for their answer keep the quota in order.
LEMMA FewerCharged ==
    ASSUME Quota, UNCHANGED quota,
           \A d \in Days : Charged(d)' \subseteq Charged(d)
    PROVE  Quota'
  <1>1. ASSUME NEW d \in Days
        PROVE  listed[d] + Cardinality(Charged(d)') <= usage[d]
    <2>1. IsFiniteSet(Charged(d))
      BY FS_Subset, FiniteRequests DEF Charged
    <2>2. Cardinality(Charged(d)') <= Cardinality(Charged(d))
      BY <2>1, FS_Subset
    <2>3. Cardinality(Charged(d)') \in Nat /\ Cardinality(Charged(d)) \in Nat
      BY <2>1, FS_Subset, FS_CardinalityType
    <2>4. /\ listed[d] + Cardinality(Charged(d)) <= usage[d]
          /\ listed[d] \in Nat /\ usage[d] \in Nat
      BY DEF Quota
    <2>5. QED
      BY <2>2, <2>3, <2>4
  <1>2. QED
    BY <1>1 DEF Quota, quota

\* Who is charged waits for the list of the day that was charged.
LEMMA ConsumeKeepsQuota ==
    ASSUME InProgress, Quota, NEW r \in Requests, ConsumeQuota(r)
    PROVE  Quota'
  <1>1. Active(r) /\ Stage(r) = "quota"
    BY DEF ConsumeQuota, ConsumeAPIKeyQuota, Stage
  <1>2. req[r] \in Request
    BY <1>1, StageFacts
  <1>3. req[r].now \in 0..MaxTime
    BY <1>2 DEF Request
  <1>4. PICK e \in Days : e = DayOf[req[r].now]
    BY <1>3, FrontDoorAssumption
  <1>5. req' = [req EXCEPT ![r].step = @ + 1, ![r].timed = FALSE,
                           ![r].now = req[r].now]
    BY <1>2 DEF ConsumeQuota, ConsumeAPIKeyQuota, InProgress, Request
  <1>6. /\ usage' = [usage EXCEPT ![e] = @ + 1] /\ listed' = listed
        /\ usage[e] < DailyQuota
    BY <1>4 DEF ConsumeQuota, ConsumeAPIKeyQuota
  <1>7. /\ req'[r].now = req[r].now /\ Stage(r)' = "list"
        /\ \A q \in Requests \ {r} :
              req'[q] = req[q] /\ Stage(q)' = Stage(q)
    BY <1>1, <1>3, <1>5, ProceedFacts
  <1>8. Charged(e)' = Charged(e) \cup {r} /\ r \notin Charged(e)
    BY <1>1, <1>4, <1>7 DEF Charged
  <1>9. \A d \in Days \ {e} : Charged(d)' = Charged(d)
    BY <1>1, <1>4, <1>7 DEF Charged
  <1>10. ASSUME NEW d \in Days
        PROVE  /\ listed'[d] + Cardinality(Charged(d)') <= usage'[d]
               /\ usage'[d] <= DailyQuota
    <2>1. /\ listed[d] + Cardinality(Charged(d)) <= usage[d]
          /\ usage[d] <= DailyQuota
          /\ listed[d] \in Nat /\ usage[d] \in Nat
      BY DEF Quota
    <2>2. CASE d = e
      <3>1. IsFiniteSet(Charged(e))
        BY FS_Subset, FiniteRequests DEF Charged
      <3>2. /\ Cardinality(Charged(e)') = Cardinality(Charged(e)) + 1
            /\ Cardinality(Charged(e)) \in Nat
        BY <1>8, <3>1, FS_AddElement, FS_CardinalityType
      <3>3. usage'[d] = usage[d] + 1
        BY <1>6, <2>2 DEF Quota
      <3>4. QED
        BY <1>6, <2>1, <2>2, <3>2, <3>3, FrontDoorAssumption
    <2>3. CASE d # e
      BY <1>6, <1>9, <2>1, <2>3 DEF Quota
    <2>4. QED
      BY <2>2, <2>3
  <1>11. QED
    BY <1>6, <1>10 DEF Quota

\* An answered list moves from the charged to the answered.
LEMMA ListKeepsQuota ==
    ASSUME InProgress, Quota, NEW r \in Requests, ListOrders(r)
    PROVE  Quota'
  <1>1. Active(r) /\ Stage(r) = "list"
    BY DEF ListOrders, Stage
  <1>2. req[r] \in Request
    BY <1>1, StageFacts
  <1>3. PICK e \in Days : e = DayOf[req[r].now]
    BY <1>2, FrontDoorAssumption DEF Request
  <1>4. listed' = [listed EXCEPT ![e] = @ + 1] /\ usage' = usage
    BY <1>3 DEF ListOrders
  <1>5. req' = [req EXCEPT ![r] = Idle]
    BY DEF ListOrders, Leave
  <1>6. /\ Stage(r)' = "idle"
        /\ \A q \in Requests \ {r} :
              req'[q] = req[q] /\ Stage(q)' = Stage(q)
    BY <1>5, IdleIsNowhere
  <1>7. Charged(e)' = Charged(e) \ {r} /\ r \in Charged(e)
    BY <1>1, <1>3, <1>6 DEF Charged
  <1>8. \A d \in Days \ {e} : Charged(d)' = Charged(d)
    BY <1>1, <1>3, <1>6 DEF Charged
  <1>9. ASSUME NEW d \in Days
        PROVE  listed'[d] + Cardinality(Charged(d)') <= usage'[d]
    <2>1. /\ listed[d] + Cardinality(Charged(d)) <= usage[d]
          /\ listed[d] \in Nat /\ usage[d] \in Nat
      BY DEF Quota
    <2>2. CASE d = e
      <3>1. IsFiniteSet(Charged(e))
        BY FS_Subset, FiniteRequests DEF Charged
      <3>2. /\ Cardinality(Charged(e)') = Cardinality(Charged(e)) - 1
            /\ Cardinality(Charged(e)) \in Nat
        BY <1>7, <3>1, FS_RemoveElement, FS_CardinalityType
      <3>3. listed'[d] = listed[d] + 1
        BY <1>3, <1>4, <2>2 DEF Quota
      <3>4. QED
        BY <1>4, <2>1, <2>2, <3>2, <3>3
    <2>3. CASE d # e
      BY <1>4, <1>8, <2>1, <2>3 DEF Quota
    <2>4. QED
      BY <2>2, <2>3
  <1>10. QED
    BY <1>3, <1>4, <1>9 DEF Quota

\* Each step keeps the quota in order.
LEMMA NextKeepsQuota ==
    ASSUME InProgress, Quota, Next PROVE Quota'
  <1>1. ASSUME NEW r \in Requests, Stage(r)' # "list", UNCHANGED quota,
               \A q \in Requests \ {r} :
                  req'[q] = req[q] /\ Stage(q)' = Stage(q)
        PROVE  Quota'
    BY <1>1, FewerCharged DEF Charged
  <1>2. ASSUME NEW r \in Requests, Arrive(r) PROVE Quota'
    <2>1. PICK route \in Routes, client \in Clients, forged \in Forged,
               email \in Emails :
            req' = [req EXCEPT ![r] =
                      [route |-> route, step |-> 1, client |-> client,
                       forwarded |-> forged \o Trail(client),
                       email |-> email, timed |-> FALSE, now |-> 0]]
      BY <1>2 DEF Arrive
    <2>2. req'[r].step = 1 /\ req'[r].route = route
      BY <2>1 DEF InProgress
    <2>3. route \in DOMAIN Inner
      BY FrontDoorAssumption
    <2>4. Stage(r)' = Path(route)[1]
      BY <2>2 DEF Stage, Active
    <2>5. Stage(r)' # "list"
      BY <2>3, <2>4, PathFacts
    <2>6. QED
      BY <1>1, <1>2, <2>1, <2>5, OthersStay DEF Arrive
  <1>3. ASSUME NEW r \in Requests, ReadClock(r) PROVE Quota'
    <2>1. Active(r) /\ Stage(r) # "list"
      BY <1>3 DEF ReadClock, Stage, Limiters, BySource, ByAccount
    <2>2. req' = [req EXCEPT ![r] = [req[r] EXCEPT !.timed = TRUE,
                                                   !.now = clock]]
      BY <1>3 DEF ReadClock, InProgress
    <2>3. req[r] \in Request
      BY <2>1, StageFacts
    <2>4. Stage(r)' = Stage(r)
      BY <2>2, <2>3, OthersStay DEF Request, Stage, Active
    <2>5. QED
      BY <1>1, <1>3, <2>1, <2>2, <2>4, OthersStay DEF ReadClock
  <1>4. ASSUME NEW r \in Requests, Admit(r) \/ EnterSlot(r) \/ Check(r)
        PROVE  Quota'
    <2>1. Active(r) /\ Stage(r) \notin {"handler", "list", "quota"}
      BY <1>4 DEF Admit, EnterSlot, Check, Passes, FindKey, ParseForm,
         CheckOrigin, AtLock, Stage, Limiters, BySource, ByAccount
    <2>2. req' = [req EXCEPT ![r].step = @ + 1, ![r].timed = FALSE,
                             ![r].now = 0]
      BY <1>4 DEF Admit, EnterSlot, Check, Passes, FindKey, ParseForm,
         CheckOrigin, Proceed
    <2>3. 0 \in 0..MaxTime
      BY FrontDoorAssumption
    <2>4. /\ Stage(r)' # "list"
          /\ \A q \in Requests \ {r} :
                req'[q] = req[q] /\ Stage(q)' = Stage(q)
      BY <2>1, <2>2, <2>3, ProceedFacts
    <2>5. UNCHANGED quota
      BY <1>4 DEF Admit, EnterSlot, Check, Passes, FindKey, ParseForm,
         CheckOrigin
    <2>6. QED
      BY <1>1, <2>4, <2>5
  <1>5. ASSUME NEW r \in Requests,
               \/ Reject(r) \/ Shed(r) \/ Refuse(r) \/ DenyQuota(r)
               \/ Handle(r) \/ Panic(r)
        PROVE  Quota'
    <2>1. req' = [req EXCEPT ![r] = Idle] /\ UNCHANGED quota
      BY <1>5 DEF Reject, Shed, Refuse, DenyQuota, Handle, Panic, Done, Leave
    <2>2. QED
      BY <1>1, <2>1, IdleIsNowhere
  <1>6. CASE Tick \/ Signal
    BY <1>6, FewerCharged DEF Tick, Signal, Charged, Stage, Active
  <1>7. CASE Stop \/ Crash
    BY <1>7, FewerCharged DEF Stop, Crash, Charged, Stage, Active, Idle
  <1>8. CASE Start
    BY <1>8, FewerCharged DEF Start, Charged, Stage, Active
  <1>9. QED
    BY <1>2, <1>3, <1>4, <1>5, <1>6, <1>7, <1>8, ConsumeKeepsQuota,
       ListKeepsQuota
       DEF Next, Serve, Continue

-----------------------------------------------------------------------------
(* The theorems *)

\* The invariant holds at the start.
LEMMA InitHolds == ASSUME Init PROVE IInv
  <1>1. InProgress
    BY FrontDoorAssumption DEF Init, InProgress, Lengths
  <1>2. Limits
    <2>1. /\ \A l \in Limiters, k \in Keys : counters[l][k] = NoCounter
          /\ \A l \in Limiters, s \in Subjects : batches[<<l, s>>] = NoBatch
      BY DEF Init, NoCounters, NoBatches
    <2>2. LimitTypes
      BY FrontDoorAssumption
         DEF Init, LimitTypes, NoCounters, NoBatches, NoCounter, NoBatch
    <2>3. \A l \in Limiters, s \in Subjects :
              Agrees(counters[l][s], batches[<<l, s>>], Window[l])
      <3>1. \A w : Agrees(NoCounter, NoBatch, w)
        BY DEF Agrees, NoCounter, NoBatch
      <3>2. QED
        BY <2>1, <3>1 DEF Keys
    <2>4. SweepKeepsUp
      BY <2>1 DEF SweepKeepsUp
    <2>5. \A l \in Limiters : nextSweepAt[l] <= clock + Window[l]
      BY FrontDoorAssumption DEF Init
    <2>6. QED
      BY <2>1, <2>2, <2>3, <2>4, <2>5, FrontDoorAssumption
         DEF Limits, NoCounter
  <1>3. Slots
    <2>1. {r \in Requests : Inside(r)} = {}
      BY DEF Init, Inside, Idle
    <2>2. inFlight = 0 /\ Cardinality({}) = 0 /\ MaxConcurrent \in Nat
      BY FS_EmptySet, FrontDoorAssumption DEF Init
    <2>3. Cardinality({r \in Requests : Inside(r)}) = 0
      BY <2>1, FS_EmptySet
    <2>4. QED
      BY <2>2, <2>3 DEF Slots, SlotsAreAccounted
  <1>4. Quota
    <2>1. \A d \in Days : Charged(d) = {}
      BY DEF Init, Charged, Stage, Active, Idle
    <2>2. \A d \in Days : Cardinality(Charged(d)) = 0
      BY <2>1, FS_EmptySet
    <2>3. /\ usage = [d \in Days |-> 0] /\ listed = [d \in Days |-> 0]
          /\ DailyQuota \in Nat
      BY FrontDoorAssumption DEF Init
    <2>4. QED
      BY <2>2, <2>3 DEF Quota
  <1>5. QED
    BY <1>1, <1>2, <1>3, <1>4 DEF IInv

\* The inductive invariant that the theorems below follow from.
THEOREM Invariance == Spec => []IInv
  <1>1. Init => IInv
    BY InitHolds
  <1>2. IInv /\ [Next]_vars => IInv'
    <2>1. CASE Next
      BY <2>1, NextKeepsInProgress, NextKeepsLimits, NextKeepsSlots,
         NextKeepsQuota DEF IInv
    <2>2. CASE UNCHANGED vars
      <3>1. UNCHANGED <<process, limits, inFlight, quota, req>>
        BY <2>2 DEF vars
      <3>2. ASSUME InProgress PROVE InProgress'
        BY <3>1, <3>2 DEF InProgress, Lengths, process, OnItsWay
      <3>3. ASSUME Limits PROVE Limits'
        BY <3>1, <3>3
           DEF Limits, LimitTypes, Agrees, SweepKeepsUp, limits, process
      <3>4. ASSUME Slots PROVE Slots'
        BY <3>1, <3>4, SameRunning DEF Running, Inside, process
      <3>5. ASSUME Quota PROVE Quota'
        BY <3>1, <3>5, FewerCharged DEF Charged, Stage, Active
      <3>6. QED
        BY <3>2, <3>3, <3>4, <3>5 DEF IInv
    <2>3. QED
      BY <2>1, <2>2
  <1>3. QED
    BY <1>1, <1>2, PTL DEF Spec

\* Every variable keeps its type, however requests race for the counters.
THEOREM TypeCorrect == Spec => []TypeOK
  <1>1. IInv => TypeOK
    BY DEF IInv, InProgress, Lengths, Limits, LimitTypes, Slots, Quota, TypeOK
  <1>2. QED
    BY <1>1, Invariance, PTL

\* The tokens of the load shedder are the requests behind it.
THEOREM TokensAreRequests == Spec => []SlotsAreAccounted
  <1>1. IInv => SlotsAreAccounted
    BY DEF IInv, Slots
  <1>2. QED
    BY <1>1, Invariance, PTL

\* No counter outlives its window by more than another one.
THEOREM MemoryIsSwept == Spec => []SweepKeepsUp
  <1>1. IInv => SweepKeepsUp
    BY DEF IInv, Limits
  <1>2. QED
    BY <1>1, Invariance, PTL

\* A day's quota answers for no more order lists than it allows.
THEOREM QuotaIsKept == Spec => []QuotaHolds
  <1>1. ASSUME IInv PROVE QuotaHolds
    <2>1. DOMAIN listed = Days
      BY <1>1 DEF IInv, Quota
    <2>2. ASSUME NEW d \in Days
          PROVE  listed[d] + Cardinality(Charged(d)) <= DailyQuota
      <3>1. IsFiniteSet(Charged(d))
        BY FS_Subset, FiniteRequests DEF Charged
      <3>2. Cardinality(Charged(d)) \in Nat
        BY <3>1, FS_CardinalityType
      <3>3. /\ listed[d] + Cardinality(Charged(d)) <= usage[d]
            /\ usage[d] <= DailyQuota
            /\ listed[d] \in Nat /\ usage[d] \in Nat
        BY <1>1 DEF IInv, Quota
      <3>4. QED
        BY <3>2, <3>3, FrontDoorAssumption
    <2>3. QED
      BY <2>1, <2>2 DEF QuotaHolds, Charged
  <1>2. QED
    BY <1>1, Invariance, PTL

\* An admission opens a batch that is due, or goes on with one that has room.
LEMMA AdmitImplements ==
    ASSUME InProgress, Limits, NEW r \in Requests, Admit(r)
    PROVE  Promise!Next
  <1> DEFINE l == Stage(r)
             s == Subject(l, req[r])
             now == req[r].now
             c == Counter(l, s, now)
             b == batches[<<l, s>>]
  <1>1. /\ l \in Limiters /\ s \in Subjects /\ now \in Nat /\ clock \in Nat
        /\ now <= clock /\ clock <= now + MaxLag /\ Key(l, req[r]) = s
    BY LockFacts DEF Admit
  <1>2. c.count < Maximum[l] /\ clock' = clock
    BY <1>1 DEF Admit, process
  <1>3. batches' = [batches EXCEPT ![<<l, s>>] = Joined(b, c)]
    BY <1>1 DEF Admit
  <1>4. /\ c \in CounterType
        /\ c.count = 0 =>
              b.admitted = 0 \/ b.openedAt + Window[l] <= clock + MaxLag
        /\ c.count > 0 => c.count = b.admitted
    BY <1>1, <1>2, CounterFacts
  <1>5. /\ b \in [openedAt : Nat, admitted : Nat]
        /\ Window[l] \in Nat /\ Maximum[l] \in Nat /\ MaxLag \in Nat
        /\ <<l, s>> \in Limiters \X Subjects
    BY <1>1, FrontDoorAssumption DEF Limits, LimitTypes
  <1> HIDE DEF l, s, now, c, b
  <1>6. CASE c.count = 0
    <2>1. batches' = [batches EXCEPT ![<<l, s>>] =
                        [openedAt |-> clock, admitted |-> 1]]
      BY <1>3, <1>6 DEF Joined
    <2>2. b.admitted = 0 \/ clock + MaxLag >= b.openedAt + Window[l]
      BY <1>1, <1>4, <1>5, <1>6
    <2>3. Promise!Open(<<l, s>>)
      BY <1>2, <1>5, <2>1, <2>2 DEF Promise!Open, b
    <2>4. QED
      BY <1>5, <2>3 DEF Promise!Next
  <1>7. CASE c.count # 0
    <2>1. b.admitted \in 1..(Maximum[l] - 1)
      BY <1>2, <1>4, <1>5, <1>7 DEF CounterType
    <2>2. batches' = [batches EXCEPT ![<<l, s>>] =
                        [b EXCEPT !.admitted = @ + 1]]
      BY <1>3, <1>7 DEF Joined
    <2>3. batches' = [batches EXCEPT ![<<l, s>>].admitted = @ + 1]
      BY <1>5, <2>2 DEF b, Limits, LimitTypes
    <2>4. Promise!Admit(<<l, s>>)
      BY <1>2, <1>5, <2>1, <2>3 DEF Promise!Admit, b
    <2>5. QED
      BY <1>5, <2>4 DEF Promise!Next
  <1>8. QED
    BY <1>6, <1>7

\* Every limiter of the code is a limiter as Batches promises it, for each
\* client address and each account, whatever they send and however the
\* requests' clocks are overtaken before the lock.
THEOREM LimitersKeepTheirPromise == Spec => ImplementsBatches
  <1>1. Init => Promise!Init
    BY FrontDoorAssumption
       DEF Init, Promise!Init, Promise!NoBatch, NoBatches, NoBatch
  <1>2. IInv /\ [Next]_vars => [Promise!Next]_(Promise!vars)
    <2> SUFFICES ASSUME IInv, [Next]_vars
                 PROVE  [Promise!Next]_(Promise!vars)
      OBVIOUS
    <2>1. ASSUME UNCHANGED <<clock, batches>>
          PROVE  [Promise!Next]_(Promise!vars)
      BY <2>1 DEF Promise!vars
    <2>2. ASSUME NEW r \in Requests,
                 \/ Arrive(r) \/ ReadClock(r) \/ Reject(r) \/ EnterSlot(r)
                 \/ Shed(r) \/ Check(r) \/ Refuse(r) \/ ConsumeQuota(r)
                 \/ DenyQuota(r) \/ ListOrders(r) \/ Handle(r) \/ Panic(r)
          PROVE  UNCHANGED <<clock, batches>>
      BY <2>2
         DEF Arrive, ReadClock, Reject, EnterSlot, Shed, Check, Passes,
             FindKey, ParseForm, CheckOrigin, Refuse, ConsumeQuota,
             ConsumeAPIKeyQuota, DenyQuota, ListOrders, Handle, Panic, Done,
             process, limits
    <2>3. ASSUME NEW r \in Requests, Admit(r)
          PROVE  [Promise!Next]_(Promise!vars)
      BY <2>3, AdmitImplements DEF IInv
    <2>4. CASE Tick
      <3>1. clock \in Nat /\ clock' = clock + 1 /\ batches' = batches
        BY <2>4, FrontDoorAssumption
           DEF Tick, IInv, InProgress, Lengths, limits
      <3>2. Promise!Tick
        BY <3>1 DEF Promise!Tick
      <3>3. QED
        BY <3>2 DEF Promise!Next
    <2>5. CASE Signal \/ Stop \/ Crash
      BY <2>1, <2>5 DEF Signal, Stop, Crash, limits
    <2>6. CASE Start
      BY <2>6 DEF Start, Promise!Next, Promise!Forget, Promise!NoBatch,
                  NoBatches, NoBatch
    <2>7. CASE UNCHANGED vars
      BY <2>1, <2>7 DEF vars, process, limits
    <2>8. QED
      BY <2>1, <2>2, <2>3, <2>4, <2>5, <2>6, <2>7
         DEF Next, Serve, Continue
  <1>3. QED
    BY <1>1, <1>2, Invariance, PTL DEF Spec, ImplementsBatches, Promise!Spec
=============================================================================
