-------------------------- MODULE Readiness_proofs --------------------------
(***************************************************************************)
(* The front of the gateway for any number of clients, gateways and        *)
(* services, any limit, window and threshold of the probe.                 *)
(*                                                                         *)
(* Every gateway has failed at least as many probes in a row as the outage *)
(* of Redis has lasted ticks (OutageIsNoticed); an outage that has lasted  *)
(* is still going on.                                                      *)
(*                                                                         *)
(* The limiter's invariant (LimiterInv) splits what a client got through   *)
(* lately at the opening of its window.  What passed since then is what    *)
(* its key has counted, up to the limit.  What passed before is the tail   *)
(* of one other window, which opened with a request that is too old by     *)
(* now: at most the limit less one.  Ages before the last fault of Redis   *)
(* are left out.                                                           *)
(***************************************************************************)
EXTENDS Readiness, SumTheorems

OutageIsNoticed ==
    /\ outage > 0 => redis = "down"
    /\ \A g \in Gateways : outage <= failures[g]

Inv == ReadyTypeOK /\ OutageIsNoticed

------------------------------------------------------------------------------
(* The smaller of two numbers. *)
LEMMA AtMostBounds ==
    ASSUME NEW n \in Nat, NEW limit \in Nat
    PROVE  AtMost(n, limit) \in 0..limit /\ AtMost(n, limit) <= n
BY DEF AtMost

(* Counting leaves a counter one: it has an expiry exactly when it counts. *)
LEMMA IncrementedType ==
    ASSUME NEW k \in Counter, NEW times \in Nat \ {0}
    PROVE  Incremented(k, times) \in Counter
<1> DEFINE n == AtMost(k.count + times, MaxRequests + 1)
<1>1. k.count \in Nat /\ k.ttl \in 0..WindowSeconds /\ (k.count = 0 <=> k.ttl = 0)
  BY RateLimitAssumption DEF Counter
<1>2. n \in 1..(MaxRequests + 1)
  BY <1>1, RateLimitAssumption DEF AtMost
<1> HIDE DEF n
<1>3. Incremented(k, times) = [count |-> n, ttl |-> IF k.count = 0 THEN WindowSeconds ELSE k.ttl]
  BY DEF Incremented, n
<1> QED
  BY <1>1, <1>2, <1>3, RateLimitAssumption DEF Counter

LEMMA NoKeyType == NoKey \in Counter
BY RateLimitAssumption DEF NoKey, Counter

LEMMA LetThroughType ==
    ASSUME TypeOK, NEW c \in Clients, LetThrough(c)
    PROVE  passed' \in [Clients -> [Ages -> 0..Capped]]
<1>1. 0 \in Ages /\ Capped \in Nat
  BY RateLimitAssumption DEF Ages, Capped
<1>2. passed[c] \in [Ages -> 0..Capped] /\ passed[c][0] \in Nat
  BY <1>1 DEF TypeOK
<1>3. AtMost(passed[c][0] + 1, Capped) \in 0..Capped
  BY <1>1, <1>2 DEF AtMost
<1> QED
  BY <1>2, <1>3 DEF LetThrough, TypeOK

(* No role is known where the limiter stands, so every request is counted. *)
LEMMA NoneExempt == \A c \in Clients : ~Exempt(c)
BY DEF Exempt, RoleSeen

LEMMA CountType ==
    ASSUME TypeOK, NEW c \in Clients, NEW times \in 1..MaxAttempts, Count(c, times)
    PROVE  counter' \in [Clients -> Counter]
<1>1. Incremented(counter[c], times) \in Counter
  BY IncrementedType, RateLimitAssumption DEF TypeOK
<1> QED
  BY <1>1, NoneExempt DEF Count, TypeOK

(* A request, or an eviction, leaves the limiter well-typed. *)
LEMMA LimiterType ==
    ASSUME TypeOK, NEW c \in Clients,
           Pass(c) \/ Refuse(c) \/ FailOpen(c) \/ CountMore(c) \/ Evict(c)
    PROVE  TypeOK'
<1>1. /\ \A times \in 1..MaxAttempts : Count(c, times) => counter' \in [Clients -> Counter]
      /\ 1 \in 1..MaxAttempts /\ 2..MaxAttempts \subseteq 1..MaxAttempts
      /\ WindowSeconds \in Nat
  BY CountType, RateLimitAssumption
<1>2. LetThrough(c) => passed' \in [Clients -> [Ages -> 0..Capped]]
  BY LetThroughType
<1>3. CASE Pass(c)
  BY <1>1, <1>2, <1>3 DEF Pass, TypeOK
<1>4. CASE Refuse(c)
  BY <1>1, <1>4 DEF Refuse, TypeOK
<1>5. CASE FailOpen(c)
  BY <1>1, <1>2, <1>5 DEF FailOpen, TypeOK
<1>6. CASE CountMore(c)
  BY <1>1, <1>2, <1>6 DEF CountMore, TypeOK
<1>7. CASE Evict(c)
  BY <1>1, <1>7, NoKeyType DEF Evict, TypeOK
<1> QED
  BY <1>3, <1>4, <1>5, <1>6, <1>7

LEMMA TickType ==
    ASSUME TypeOK, Tick
    PROVE  TypeOK'
<1>1. ASSUME NEW k \in Counter
      PROVE  (IF k.ttl <= 1 THEN NoKey ELSE [k EXCEPT !.ttl = @ - 1]) \in Counter
  <2>1. /\ k \in [count : 0..(MaxRequests + 1), ttl : 0..WindowSeconds]
        /\ k.count = 0 <=> k.ttl = 0
    BY DEF Counter
  <2>2. CASE k.ttl > 1
    <3>1. k.ttl - 1 \in 0..WindowSeconds /\ k.ttl - 1 # 0
      BY <2>1, <2>2, RateLimitAssumption
    <3>2. [k EXCEPT !.ttl = k.ttl - 1] \in [count : 0..(MaxRequests + 1), ttl : 0..WindowSeconds]
      BY <2>1, <3>1
    <3>3. /\ [k EXCEPT !.ttl = k.ttl - 1].count = k.count
          /\ [k EXCEPT !.ttl = k.ttl - 1].ttl = k.ttl - 1
      BY <2>1
    <3>4. [k EXCEPT !.ttl = k.ttl - 1] \in Counter
      BY <2>1, <2>2, <3>1, <3>2, <3>3 DEF Counter
    <3> QED
      BY <2>1, <2>2, <3>4, RateLimitAssumption
  <2>3. CASE k.ttl <= 1
    BY <2>3, NoKeyType
  <2> QED
    BY <2>1, <2>2, <2>3, RateLimitAssumption
<1>2. counter' \in [Clients -> Counter]
  BY <1>1 DEF Tick, TypeOK
<1>3. passed' \in [Clients -> [Ages -> 0..Capped]]
  <2>1. Capped \in Nat
    BY RateLimitAssumption DEF Capped
  <2>2. ASSUME NEW c \in Clients, NEW age \in Ages
        PROVE  (IF age = 0 THEN 0 ELSE passed[c][age - 1]) \in 0..Capped
    <3>1. age # 0 => age - 1 \in Ages
      BY RateLimitAssumption DEF Ages
    <3> QED
      BY <2>1, <3>1 DEF TypeOK
  <2> QED
    BY <2>2 DEF Tick
<1>4. calm' \in 0..WindowSeconds
  BY RateLimitAssumption DEF Tick, TypeOK, AtMost
<1> QED
  BY <1>2, <1>3, <1>4 DEF Tick, TypeOK

LEMMA RedisType ==
    ASSUME TypeOK, RedisStops \/ RedisStarts
    PROVE  TypeOK'
<1>1. counter' \in [Clients -> Counter]
  BY NoKeyType DEF RedisStops, RedisStarts, TypeOK
<1> QED
  BY <1>1, RateLimitAssumption DEF RedisStops, RedisStarts, TypeOK

------------------------------------------------------------------------------
LEMMA InitInv == ReadyInit => Inv
<1> SUFFICES ASSUME ReadyInit PROVE Inv
  OBVIOUS
<1>1. TypeOK
  <2>1. Capped \in Nat
    BY RateLimitAssumption DEF Capped
  <2> QED
    BY <2>1, NoKeyType, RateLimitAssumption DEF ReadyInit, Init, TypeOK
<1>2. ReadyTypeOK
  BY <1>1, ReadinessAssumption DEF ReadyInit, ReadyTypeOK
<1>3. OutageIsNoticed
  BY ReadinessAssumption DEF ReadyInit, OutageIsNoticed
<1> QED
  BY <1>2, <1>3 DEF Inv

(* A step that is none of a probe. *)
LEMMA QuietInv ==
    ASSUME Inv, TypeOK', running' \subseteq Services,
           connection' \in [Gateways -> [Services -> {"idle", "ready", "failing"}]],
           UNCHANGED <<redis, failures, outage>>
    PROVE  Inv'
BY DEF Inv, ReadyTypeOK, OutageIsNoticed

LEMMA RequestInv ==
    ASSUME Inv, NEW c \in Clients, Request(c)
    PROVE  Inv'
<1>1. TypeOK'
  BY LimiterType DEF Inv, ReadyTypeOK, Request
<1>2. UNCHANGED redis
  BY DEF Request, Pass, Refuse, FailOpen, CountMore
<1> QED
  BY <1>1, <1>2, QuietInv DEF Request, Inv, ReadyTypeOK

LEMMA RedisEvictsInv ==
    ASSUME Inv, NEW c \in Clients, RedisEvicts(c)
    PROVE  Inv'
<1>1. TypeOK'
  BY LimiterType DEF Inv, ReadyTypeOK, RedisEvicts
<1>2. UNCHANGED redis
  BY DEF RedisEvicts, Evict
<1> QED
  BY <1>1, <1>2, QuietInv DEF RedisEvicts, Inv, ReadyTypeOK

LEMMA ForwardInv ==
    ASSUME Inv, NEW g \in Gateways, NEW s \in Services, Forward(g, s) \/ Reconnect(g, s)
    PROVE  Inv'
<1>1. TypeOK' /\ UNCHANGED <<redis, running, failures, outage>>
  BY DEF Forward, Reconnect, vars, Inv, ReadyTypeOK, TypeOK
<1>2. connection' \in [Gateways -> [Services -> {"idle", "ready", "failing"}]]
  BY DEF Forward, Reconnect, Inv, ReadyTypeOK
<1> QED
  BY <1>1, <1>2, QuietInv DEF Inv, ReadyTypeOK

LEMMA ServiceInv ==
    ASSUME Inv, NEW s \in Services, ServiceStops(s) \/ ServiceStarts(s)
    PROVE  Inv'
<1>1. TypeOK' /\ UNCHANGED <<redis, failures, outage>>
  BY DEF ServiceStops, ServiceStarts, vars, Inv, ReadyTypeOK, TypeOK
<1>2. connection' \in [Gateways -> [Services -> {"idle", "ready", "failing"}]]
  BY DEF ServiceStops, ServiceStarts, Inv, ReadyTypeOK
<1>3. running' \subseteq Services
  BY DEF ServiceStops, ServiceStarts, Inv, ReadyTypeOK
<1> QED
  BY <1>1, <1>2, <1>3, QuietInv

LEMMA RedisInv ==
    ASSUME Inv, RedisStopsOrStarts
    PROVE  Inv'
<1>1. TypeOK'
  BY RedisType DEF RedisStopsOrStarts, Inv, ReadyTypeOK
<1>2. outage' = 0 /\ UNCHANGED failures
  BY DEF RedisStopsOrStarts
<1>3. OutageIsNoticed'
  BY <1>2 DEF Inv, ReadyTypeOK, OutageIsNoticed
<1> QED
  BY <1>1, <1>3, ReadinessAssumption DEF RedisStopsOrStarts, Inv, ReadyTypeOK

LEMMA TickAndProbeInv ==
    ASSUME Inv, TickAndProbe
    PROVE  Inv'
<1>1. TypeOK'
  BY TickType DEF TickAndProbe, Inv, ReadyTypeOK
<1>2. UNCHANGED redis
  BY DEF TickAndProbe, Tick
<1>3. outage' \in 0..FailureThreshold
  BY AtMostBounds, ReadinessAssumption DEF TickAndProbe, Inv, ReadyTypeOK
<1>4. ASSUME NEW g \in Gateways
      PROVE  /\ failures'[g] = IF readinessCheck(g) THEN 0 ELSE AtMost(failures[g] + 1, FailureThreshold)
             /\ failures'[g] \in 0..FailureThreshold
  BY AtMostBounds, ReadinessAssumption DEF TickAndProbe, Inv, ReadyTypeOK
<1>5. ASSUME NEW g \in Gateways
      PROVE  outage' <= failures'[g]
  <2>1. CASE redis = "down"
    <3>1. ~readinessCheck(g)
      BY <2>1 DEF readinessCheck
    <3>2. outage <= failures[g] /\ outage \in Nat /\ failures[g] \in Nat
      BY DEF Inv, ReadyTypeOK, OutageIsNoticed
    <3> QED
      BY <1>4, <2>1, <3>1, <3>2, ReadinessAssumption DEF TickAndProbe, AtMost
  <2>2. CASE redis # "down"
    BY <1>4, <2>2 DEF TickAndProbe
  <2> QED
    BY <2>1, <2>2
<1>6. OutageIsNoticed'
  BY <1>2, <1>5 DEF TickAndProbe, OutageIsNoticed
<1>7. failures' \in [Gateways -> 0..FailureThreshold]
  BY <1>4 DEF TickAndProbe
<1> QED
  BY <1>1, <1>3, <1>6, <1>7 DEF TickAndProbe, Inv, ReadyTypeOK

LEMMA NextInv ==
    ASSUME Inv, [ReadyNext]_readyVars
    PROVE  Inv'
<1>1. ASSUME NEW c \in Clients, Request(c) \/ RedisEvicts(c) PROVE Inv'
  BY <1>1, RequestInv, RedisEvictsInv
<1>2. ASSUME NEW g \in Gateways, NEW s \in Services, Forward(g, s) \/ Reconnect(g, s) PROVE Inv'
  BY <1>2, ForwardInv
<1>3. ASSUME NEW s \in Services, ServiceStops(s) \/ ServiceStarts(s) PROVE Inv'
  BY <1>3, ServiceInv
<1>4. CASE RedisStopsOrStarts
  BY <1>4, RedisInv
<1>5. CASE TickAndProbe
  BY <1>5, TickAndProbeInv
<1>6. CASE UNCHANGED readyVars
  BY <1>6 DEF readyVars, vars, Inv, ReadyTypeOK, TypeOK, OutageIsNoticed
<1> QED
  BY <1>1, <1>2, <1>3, <1>4, <1>5, <1>6 DEF ReadyNext

LEMMA Invariance == ReadySpec => []Inv
BY InitInv, NextInv, PTL DEF ReadySpec

------------------------------------------------------------------------------
(* Counters, connections and probes stay well-typed; a counter never loses    *)
(* its expiry while it counts, for any window and limit.                      *)
THEOREM TypeCorrect == ReadySpec => []ReadyTypeOK
<1>1. Inv => ReadyTypeOK
  BY DEF Inv
<1> QED
  BY <1>1, Invariance, PTL

(* When Redis has been down for as many probes as the threshold asks for, no  *)
(* gateway is in rotation: the limiter fails open for that long at most.      *)
THEOREM OutagesClose == ReadySpec => []OutageClosesGateways
<1>1. Inv => OutageClosesGateways
  BY ReadinessAssumption DEF Inv, ReadyTypeOK, OutageIsNoticed, OutageClosesGateways, InRotation
<1> QED
  BY <1>1, Invariance, PTL
------------------------------------------------------------------------------
(* The limiter.  Its invariant adds requests up by their ages, so it is     *)
(* about sets of ages and the sums of SumTheorems over them.                *)

\* What client c got through at these ages.
PassedAt(c, ages) == SumFunctionOnSet(passed[c], ages)

\* The age of the window the key of c counts for.
WindowAge(c) == WindowSeconds - counter[c].ttl

\* The ages at which Redis has been calm, those of the window and those before
\* it.  Without a key there is no window and all count as one.
InWindow(c) == {age \in Ages : age < calm /\ age <= WindowAge(c)}
Earlier(c)  == {age \in Ages : age < calm /\ age > WindowAge(c)}

\* The tail of the window before: it opened with a request that is too old by
\* now to be among them.
EarlierFits(c) == PassedAt(c, Earlier(c)) <= MaxRequests - 1

NoKeyFits(c) ==
    counter[c].ttl = 0 => /\ PassedAt(c, InWindow(c)) <= MaxRequests - 1
                          /\ calm > 0 => passed[c][0] = 0

\* A window that opened in the calm: the key has counted what passed, and the
\* request that opened it is known.
CalmWindowFits(c) ==
    counter[c].ttl > 0 /\ WindowAge(c) < calm =>
        /\ PassedAt(c, InWindow(c)) = AtMost(counter[c].count, MaxRequests)
        /\ passed[c][WindowAge(c)] >= 1

\* A window that opened before: the key has counted at least one request more.
OldWindowFits(c) ==
    counter[c].ttl > 0 /\ WindowAge(c) >= calm =>
        PassedAt(c, InWindow(c)) <= AtMost(counter[c].count, MaxRequests) - 1

KeyFits(c) == EarlierFits(c) /\ NoKeyFits(c) /\ CalmWindowFits(c) /\ OldWindowFits(c)

LimiterInv == TypeOK /\ \A c \in Clients : KeyFits(c)

(* What the invariant says of numbers. *)
LEMMA KeyFields ==
    ASSUME TypeOK, NEW c \in Clients
    PROVE  /\ MaxRequests \in Nat /\ MaxRequests > 0
           /\ WindowSeconds \in Nat /\ WindowSeconds > 0
           /\ calm \in 0..WindowSeconds
           /\ counter[c].count \in 0..(MaxRequests + 1)
           /\ counter[c].ttl \in 0..WindowSeconds
           /\ counter[c].count = 0 <=> counter[c].ttl = 0
           /\ WindowAge(c) \in 0..WindowSeconds
           /\ counter[c].ttl > 0 => WindowAge(c) \in Ages
BY RateLimitAssumption DEF TypeOK, Counter, WindowAge, Ages

LEMMA AgesFinite ==
    /\ IsFiniteSet(Ages) /\ 0 \in Ages
    /\ \A A \in SUBSET Ages : IsFiniteSet(A)
<1>1. IsFiniteSet(Ages)
  BY FS_Interval, RateLimitAssumption DEF Ages
<1>2. 0 \in Ages
  BY RateLimitAssumption DEF Ages
<1> QED
  BY <1>1, <1>2, FS_Subset

LEMMA PassedIsNatural ==
    ASSUME TypeOK, NEW c \in Clients
    PROVE  /\ \A age \in Ages : passed[c][age] \in Nat
           /\ \A A \in SUBSET Ages : PassedAt(c, A) \in Nat
<1>1. \A age \in Ages : passed[c][age] \in Nat
  BY RateLimitAssumption DEF TypeOK, Capped
<1> QED
  BY <1>1, AgesFinite, SumInRange DEF PassedAt

LEMMA PassedIsMonotonic ==
    ASSUME TypeOK, NEW c \in Clients, NEW A \in SUBSET Ages, NEW B \in SUBSET A
    PROVE  PassedAt(c, B) <= PassedAt(c, A)
<1>1. IsFiniteSet(A) /\ \A age \in A : passed[c][age] \in Nat
  BY AgesFinite, PassedIsNatural
<1> QED
  BY <1>1, SumIsMonotonic DEF PassedAt

(* One age is at most the sum. *)
LEMMA PassedOnce ==
    ASSUME TypeOK, NEW c \in Clients, NEW A \in SUBSET Ages, NEW age \in A
    PROVE  PassedAt(c, A) = passed[c][age] + PassedAt(c, A \ {age})
<1>1. IsFiniteSet(A) /\ \A a \in A : passed[c][a] \in Int
  BY AgesFinite, PassedIsNatural
<1> QED
  BY <1>1, SumWithout DEF PassedAt

(* A request that passes is one more, up to the cap, among those of age 0. *)
LEMMA LetThroughPasses ==
    ASSUME TypeOK, TypeOK', NEW c \in Clients, LetThrough(c), NEW A \in SUBSET Ages
    PROVE  /\ passed'[c][0] = AtMost(passed[c][0] + 1, Capped)
           /\ \A age \in Ages \ {0} : passed'[c][age] = passed[c][age]
           /\ 0 \notin A => SumFunctionOnSet(passed'[c], A) = PassedAt(c, A)
           /\ 0 \in A => SumFunctionOnSet(passed'[c], A) = PassedAt(c, A) - passed[c][0] + passed'[c][0]
<1>1. passed'[c][0] = AtMost(passed[c][0] + 1, Capped)
  BY AgesFinite DEF LetThrough, TypeOK
<1>2. \A age \in Ages \ {0} : passed'[c][age] = passed[c][age]
  BY DEF LetThrough, TypeOK
<1>3. \A age \in Ages : passed[c][age] \in Int /\ passed'[c][age] \in Int
  BY RateLimitAssumption DEF TypeOK, Capped
<1>4. ASSUME 0 \notin A PROVE SumFunctionOnSet(passed'[c], A) = PassedAt(c, A)
  <2>1. \A age \in A : passed'[c][age] = passed[c][age]
    BY <1>2, <1>4
  <2>2. SumFunctionOnSet(passed'[c], A) = SumFunctionOnSet(passed[c], A)
    BY <2>1, AgesFinite, SumOfEquals
  <2> QED
    BY <2>2 DEF PassedAt
<1>5. ASSUME 0 \in A
      PROVE  SumFunctionOnSet(passed'[c], A) = PassedAt(c, A) - passed[c][0] + passed'[c][0]
  <2>1. /\ IsFiniteSet(A)
        /\ \A age \in A : passed[c][age] \in Int /\ passed'[c][age] \in Int
        /\ \A age \in A \ {0} : passed'[c][age] = passed[c][age]
    BY <1>2, <1>3, AgesFinite
  <2>2. SumFunctionOnSet(passed'[c], A) = SumFunctionOnSet(passed[c], A) - passed[c][0] + passed'[c][0]
    BY <1>5, <2>1, SumOfUpdate
  <2> QED
    BY <2>2 DEF PassedAt
<1> QED
  BY <1>1, <1>2, <1>4, <1>5

(* A tick makes every request a tick older. *)
LEMMA TickPasses ==
    ASSUME TypeOK, TypeOK', Tick, NEW c \in Clients, NEW A \in SUBSET Ages
    PROVE  SumFunctionOnSet(passed'[c], A) = PassedAt(c, {age \in Ages : age + 1 \in A})
<1> DEFINE B == {age \in Ages : age + 1 \in A}
           g == passed'[c]
           h == [age \in B |-> age + 1]
<1>1. \A age \in Ages : g[age] = IF age = 0 THEN 0 ELSE passed[c][age - 1]
  BY DEF Tick
<1>2. \A age \in Ages : g[age] \in Int /\ passed[c][age] \in Int
  BY RateLimitAssumption DEF TypeOK, Capped
<1>3. /\ IsFiniteSet(A) /\ IsFiniteSet(B) /\ IsFiniteSet(A \ {0})
      /\ A \ {0} \in SUBSET A
  BY AgesFinite
<1>4. SumFunctionOnSet(g, A) = SumFunctionOnSet(g, A \ {0})
  <2>1. \A age \in A : g[age] \in Int
    BY <1>2
  <2>2. \A age \in A \ (A \ {0}) : g[age] = 0
    BY <1>1
  <2> HIDE DEF g
  <2> QED
    BY <1>3, <2>1, <2>2, SumOfNonzero
<1>5. SumFunctionOnSet(g, A \ {0}) = SumFunctionOnSet(passed[c], B)
  <2>1. h \in [B -> A \ {0}]
    BY DEF Ages
  <2>2. \A y \in A \ {0} : \E x \in B : h[x] = y
    <3> SUFFICES ASSUME NEW y \in A \ {0} PROVE \E x \in B : h[x] = y
      OBVIOUS
    <3>1. y - 1 \in B /\ h[y - 1] = y
      BY RateLimitAssumption DEF Ages
    <3> QED
      BY <3>1
  <2>3. \A x, y \in B : h[x] = h[y] => x = y
    BY DEF Ages
  <2>4. \A x \in B : passed[c][x] \in Int /\ g[h[x]] = passed[c][x]
    BY <1>1, <1>2, RateLimitAssumption DEF Ages
  <2> HIDE DEF g, h, B
  <2> QED
    BY <1>3, <2>1, <2>2, <2>3, <2>4, SumOfRenamed
<1> QED
  BY <1>4, <1>5 DEF PassedAt

(* Sums over no age are 0. *)
LEMMA PassedAtNone ==
    ASSUME NEW c \in Clients
    PROVE  PassedAt(c, {}) = 0
BY SumOverNothing DEF PassedAt

(* A fault makes all counters fit: no age is calm. *)
LEMMA FaultFits == TypeOK /\ calm = 0 => \A c \in Clients : KeyFits(c)
<1> SUFFICES ASSUME TypeOK, calm = 0, NEW c \in Clients PROVE KeyFits(c)
  OBVIOUS
<1>1. InWindow(c) = {} /\ Earlier(c) = {}
  BY DEF InWindow, Earlier, Ages
<1>2. PassedAt(c, InWindow(c)) = 0 /\ PassedAt(c, Earlier(c)) = 0
  BY <1>1, PassedAtNone
<1>3. /\ counter[c].ttl > 0 => AtMost(counter[c].count, MaxRequests) - 1 >= 0
      /\ MaxRequests - 1 >= 0
      /\ ~ (WindowAge(c) < calm)
  BY KeyFields DEF AtMost
<1> QED
  BY <1>2, <1>3 DEF KeyFits, EarlierFits, NoKeyFits, CalmWindowFits, OldWindowFits

LEMMA FaultFitsNext == TypeOK' /\ calm' = 0 => \A c \in Clients : KeyFits(c)'
<1>1. (TypeOK /\ calm = 0 => \A c \in Clients : KeyFits(c))'
  BY FaultFits, PTL
<1> QED
  BY <1>1

(* What a request and a fault leave alone. *)
LEMMA UntouchedFits ==
    ASSUME NEW c \in Clients, KeyFits(c), counter'[c] = counter[c], passed'[c] = passed[c], calm' = calm
    PROVE  KeyFits(c)'
BY DEF KeyFits, EarlierFits, NoKeyFits, CalmWindowFits, OldWindowFits, InWindow, Earlier,
   PassedAt, WindowAge

(* A request that is counted and passes. *)
LEMMA PassFits ==
    ASSUME TypeOK, TypeOK', NEW c \in Clients, KeyFits(c), Pass(c)
    PROVE  KeyFits(c)'
<1> DEFINE n == counter[c].count
           p == passed[c][0]
<1>1. /\ counter'[c] = Incremented(counter[c], 1)
      /\ calm' = calm
      /\ LetThrough(c)
      /\ counter'[c].count <= MaxRequests
  BY NoneExempt DEF Pass, Count, Allowed, TypeOK
<1>2. /\ counter'[c].count = n + 1 /\ n < MaxRequests
      /\ counter'[c].ttl = IF n = 0 THEN WindowSeconds ELSE counter[c].ttl
  BY <1>1, KeyFields DEF Incremented, AtMost
<1>3. /\ p \in Nat
      /\ passed'[c][0] \in Nat /\ passed'[c][0] >= 1 /\ passed'[c][0] <= p + 1
      /\ p <= MaxRequests => passed'[c][0] = p + 1
  <2>1. p \in Nat /\ passed'[c][0] = AtMost(p + 1, Capped)
    BY <1>1, LetThroughPasses, PassedIsNatural, AgesFinite
  <2> QED
    BY <2>1, KeyFields DEF AtMost, Capped
<1>4. CASE counter[c].ttl > 0
  <2>1. WindowAge(c)' = WindowAge(c) /\ counter'[c].ttl > 0 /\ n > 0 /\ WindowAge(c) \in Ages
    BY <1>2, <1>4, KeyFields DEF WindowAge
  <2>2. InWindow(c)' = InWindow(c) /\ Earlier(c)' = Earlier(c)
    BY <1>1, <2>1 DEF InWindow, Earlier
  <2>3. EarlierFits(c)'
    <3>1. 0 \notin Earlier(c) /\ Earlier(c) \in SUBSET Ages
      BY <2>1, KeyFields DEF Earlier
    <3>2. PassedAt(c, Earlier(c))' = PassedAt(c, Earlier(c))
      BY <1>1, <2>2, <3>1, LetThroughPasses DEF PassedAt
    <3> QED
      BY <3>2 DEF KeyFits, EarlierFits
  <2>4. CASE calm = 0
    <3>1. EarlierFits(c)'
      BY <2>3
    <3> QED
      BY <1>1, <2>4, FaultFitsNext
  <2>5. CASE calm > 0
    <3>1. 0 \in InWindow(c) /\ InWindow(c) \in SUBSET Ages
      BY <2>1, <2>5, AgesFinite, KeyFields DEF InWindow
    <3>2. PassedAt(c, InWindow(c))' = PassedAt(c, InWindow(c)) - p + passed'[c][0]
      BY <1>1, <2>2, <3>1, LetThroughPasses DEF PassedAt
    <3>3. PassedAt(c, InWindow(c)) \in Nat /\ p <= PassedAt(c, InWindow(c))
      <4>1. /\ PassedAt(c, InWindow(c)) = p + PassedAt(c, InWindow(c) \ {0})
            /\ PassedAt(c, InWindow(c) \ {0}) \in Nat
            /\ PassedAt(c, InWindow(c)) \in Nat
        BY <3>1, PassedOnce, PassedIsNatural
      <4> QED
        BY <4>1, <1>3
    <3>4. CASE WindowAge(c) < calm
      <4>1. PassedAt(c, InWindow(c)) = n /\ passed[c][WindowAge(c)] >= 1
        BY <1>2, <1>4, <3>4, KeyFields DEF KeyFits, CalmWindowFits, AtMost
      <4>2. PassedAt(c, InWindow(c))' = n + 1
        BY <1>2, <1>3, <3>2, <3>3, <4>1, KeyFields
      <4>3. passed'[c][WindowAge(c)] >= 1
        BY <1>1, <1>3, <2>1, <4>1, LetThroughPasses
      <4>4. AtMost(n + 1, MaxRequests) = n + 1
        BY <1>2, KeyFields DEF AtMost
      <4> QED
        BY <1>1, <1>2, <2>1, <2>3, <3>4, <4>2, <4>3, <4>4, KeyFields
        DEF KeyFits, NoKeyFits, CalmWindowFits, OldWindowFits
    <3>5. CASE WindowAge(c) >= calm
      <4>1. PassedAt(c, InWindow(c)) <= n - 1
        BY <1>2, <1>4, <3>5, KeyFields DEF KeyFits, OldWindowFits, AtMost
      <4>2. PassedAt(c, InWindow(c))' <= (n + 1) - 1
        BY <1>2, <1>3, <3>2, <3>3, <4>1, KeyFields
      <4>4. AtMost(n + 1, MaxRequests) = n + 1
        BY <1>2, KeyFields DEF AtMost
      <4> QED
        BY <1>1, <1>2, <2>1, <2>3, <3>5, <4>2, <4>4, KeyFields
        DEF KeyFits, NoKeyFits, CalmWindowFits, OldWindowFits
    <3> QED
      BY <2>1, <3>4, <3>5, KeyFields
  <2> QED
    BY <2>4, <2>5, KeyFields
<1>5. CASE counter[c].ttl = 0
  <2>1. n = 0 /\ counter'[c].count = 1 /\ counter'[c].ttl = WindowSeconds
    BY <1>2, <1>5, KeyFields
  <2>2. WindowAge(c)' = 0 /\ WindowAge(c) = WindowSeconds
    BY <1>5, <2>1, KeyFields DEF WindowAge
  <2>3. CASE calm = 0
    BY <1>1, <2>3, FaultFitsNext
  <2>4. CASE calm > 0
    <3>1. /\ InWindow(c)' = {0} /\ Earlier(c)' = InWindow(c) \ {0}
          /\ InWindow(c) \in SUBSET Ages
      BY <1>1, <2>2, <2>4, AgesFinite, KeyFields DEF InWindow, Earlier, Ages
    <3>2. p = 0 /\ PassedAt(c, InWindow(c)) <= MaxRequests - 1
      BY <1>5, <2>4 DEF KeyFits, NoKeyFits
    <3>3. EarlierFits(c)'
      <4>1. SumFunctionOnSet(passed'[c], InWindow(c) \ {0}) = PassedAt(c, InWindow(c) \ {0})
        BY <1>1, <3>1, LetThroughPasses
      <4>2. PassedAt(c, InWindow(c) \ {0}) <= PassedAt(c, InWindow(c))
        BY <3>1, PassedIsMonotonic
      <4>3. PassedAt(c, InWindow(c) \ {0}) \in Nat /\ PassedAt(c, InWindow(c)) \in Nat
        BY <3>1, PassedIsNatural
      <4>4. PassedAt(c, Earlier(c))' = PassedAt(c, InWindow(c) \ {0})
        BY <3>1, <4>1 DEF PassedAt
      <4> QED
        BY <3>2, <4>2, <4>3, <4>4, KeyFields DEF EarlierFits
    <3>4. PassedAt(c, InWindow(c))' = 1
      <4>1. SumFunctionOnSet(passed'[c], {0}) = passed'[c][0] + SumFunctionOnSet(passed'[c], {0} \ {0})
        BY <1>3, AgesFinite, SumWithout
      <4>2. SumFunctionOnSet(passed'[c], {0} \ {0}) = 0
        BY SumOverNothing
      <4>3. passed'[c][0] = 1
        BY <1>3, <3>2, KeyFields
      <4> QED
        BY <3>1, <4>1, <4>2, <4>3 DEF PassedAt
    <3>5. AtMost(1, MaxRequests) = 1
      BY KeyFields DEF AtMost
    <3>6. passed'[c][0] >= 1
      BY <1>3
    <3> QED
      BY <1>1, <2>1, <2>2, <2>4, <3>3, <3>4, <3>5, <3>6, KeyFields
      DEF KeyFits, NoKeyFits, CalmWindowFits, OldWindowFits
  <2> QED
    BY <2>3, <2>4, KeyFields
<1> QED
  BY <1>4, <1>5, KeyFields

(* A request that is refused: the count has reached the limit and stays there. *)
LEMMA RefuseFits ==
    ASSUME TypeOK, NEW c \in Clients, KeyFits(c), Refuse(c)
    PROVE  KeyFits(c)'
<1>1. /\ counter'[c] = Incremented(counter[c], 1)
      /\ passed' = passed /\ calm' = calm
      /\ counter'[c].count > MaxRequests
  BY KeyFields, NoneExempt DEF Refuse, Count, Allowed, TypeOK, Incremented, AtMost
<1>2. /\ counter[c].count >= MaxRequests
      /\ counter'[c].ttl = counter[c].ttl /\ counter[c].ttl > 0
      /\ AtMost(counter'[c].count, MaxRequests) = AtMost(counter[c].count, MaxRequests)
  BY <1>1, KeyFields DEF Incremented, AtMost
<1>3. WindowAge(c)' = WindowAge(c)
  BY <1>2 DEF WindowAge
<1>4. InWindow(c)' = InWindow(c) /\ Earlier(c)' = Earlier(c)
  BY <1>1, <1>3 DEF InWindow, Earlier
<1>5. /\ PassedAt(c, InWindow(c))' = PassedAt(c, InWindow(c))
      /\ PassedAt(c, Earlier(c))' = PassedAt(c, Earlier(c))
  BY <1>1, <1>4 DEF PassedAt
<1> QED
  BY <1>1, <1>2, <1>3, <1>5
  DEF KeyFits, EarlierFits, NoKeyFits, CalmWindowFits, OldWindowFits

(* What was let through at the ages of a set is found at older ages a tick    *)
(* later.                                                                     *)
LEMMA TickAgesPassed ==
    ASSUME TypeOK, TypeOK', Tick, NEW c \in Clients, NEW A \in SUBSET Ages,
           NEW B \in SUBSET Ages, \A age \in Ages : age + 1 \in A => age \in B
    PROVE  /\ SumFunctionOnSet(passed'[c], A) \in Nat /\ PassedAt(c, B) \in Nat
           /\ SumFunctionOnSet(passed'[c], A) <= PassedAt(c, B)
           /\ (\A age \in B : age + 1 \in A) => SumFunctionOnSet(passed'[c], A) = PassedAt(c, B)
<1> DEFINE Younger == {age \in Ages : age + 1 \in A}
<1>1. SumFunctionOnSet(passed'[c], A) = PassedAt(c, Younger)
  BY TickPasses
<1>2. Younger \in SUBSET B
  OBVIOUS
<1>3. PassedAt(c, Younger) <= PassedAt(c, B)
  <2> HIDE DEF Younger
  <2> QED
    BY <1>2, PassedIsMonotonic
<1>4. (\A age \in B : age + 1 \in A) => Younger = B
  OBVIOUS
<1>5. PassedAt(c, Younger) \in Nat /\ PassedAt(c, B) \in Nat
  BY PassedIsNatural
<1> HIDE DEF Younger
<1> QED
  BY <1>1, <1>3, <1>4, <1>5

LEMMA TickFits ==
    ASSUME TypeOK, TypeOK', Tick, NEW c \in Clients, KeyFits(c)
    PROVE  KeyFits(c)'
<1> DEFINE n   == counter[c].count
           ttl == counter[c].ttl
           wa  == WindowAge(c)
<1>1. /\ counter'[c].ttl = IF ttl <= 1 THEN 0 ELSE ttl - 1
      /\ ttl > 1 => counter'[c].count = n
      /\ calm' = AtMost(calm + 1, WindowSeconds)
  BY KeyFields DEF Tick, NoKey, TypeOK, Counter
<1>2. /\ WindowAge(c)' = IF ttl <= 1 THEN WindowSeconds ELSE wa + 1
      /\ wa = WindowSeconds - ttl
  BY <1>1, KeyFields DEF WindowAge
<1>3. \A age \in Ages : passed'[c][age] = IF age = 0 THEN 0 ELSE passed[c][age - 1]
  BY DEF Tick
<1>4. /\ InWindow(c) \in SUBSET Ages /\ Earlier(c) \in SUBSET Ages
      /\ InWindow(c)' \in SUBSET Ages /\ Earlier(c)' \in SUBSET Ages
  BY DEF InWindow, Earlier
<1>5. CASE ttl <= 1
  <2>1. EarlierFits(c)'
    <3>1. Earlier(c)' = {}
      BY <1>2, <1>5, KeyFields DEF Earlier, Ages
    <3>2. PassedAt(c, Earlier(c))' = 0
      BY <3>1, SumOverNothing DEF PassedAt
    <3> QED
      BY <3>2, KeyFields DEF EarlierFits
  <2>2. passed'[c][0] = 0
    BY <1>3, AgesFinite
  <2>3. PassedAt(c, InWindow(c))' <= MaxRequests - 1
    <3>1. CASE ttl = 1 /\ wa < calm
      <4> DEFINE B == InWindow(c) \ {wa}
      <4>1. \A age \in Ages : age + 1 \in InWindow(c)' => age \in B
        BY <1>1, <1>2, <3>1, KeyFields DEF InWindow, Ages, AtMost
      <4>2. /\ SumFunctionOnSet(passed'[c], InWindow(c)') <= PassedAt(c, B)
            /\ SumFunctionOnSet(passed'[c], InWindow(c)') \in Nat
        BY <1>4, <4>1, TickAgesPassed
      <4>3. wa \in InWindow(c)
        BY <3>1, KeyFields DEF InWindow
      <4>4. PassedAt(c, InWindow(c)) = passed[c][wa] + PassedAt(c, B)
        BY <1>4, <4>3, PassedOnce
      <4>5. PassedAt(c, InWindow(c)) <= MaxRequests /\ passed[c][wa] >= 1
        BY <3>1, KeyFields DEF KeyFits, CalmWindowFits, AtMost
      <4>6. /\ PassedAt(c, InWindow(c)) \in Nat /\ PassedAt(c, B) \in Nat
            /\ passed[c][wa] \in Nat
        BY <1>4, <4>3, PassedIsNatural
      <4> HIDE DEF B
      <4> QED
        BY <4>2, <4>4, <4>5, <4>6, KeyFields DEF PassedAt
    <3>2. CASE ttl = 0 \/ wa >= calm
      <4>1. \A age \in Ages : age + 1 \in InWindow(c)' => age \in InWindow(c)
        BY <1>1, <1>2, <1>5, <3>2, KeyFields DEF InWindow, Ages, AtMost
      <4>2. /\ SumFunctionOnSet(passed'[c], InWindow(c)') <= PassedAt(c, InWindow(c))
            /\ SumFunctionOnSet(passed'[c], InWindow(c)') \in Nat
        BY <1>4, <4>1, TickAgesPassed
      <4>3. PassedAt(c, InWindow(c)) <= MaxRequests - 1
        BY <1>5, <3>2, <1>4, PassedIsNatural, KeyFields
        DEF KeyFits, NoKeyFits, OldWindowFits, AtMost
      <4>4. PassedAt(c, InWindow(c)) \in Nat
        BY <1>4, PassedIsNatural
      <4> QED
        BY <4>2, <4>3, <4>4, KeyFields DEF PassedAt
    <3> QED
      BY <1>5, <3>1, <3>2, KeyFields
  <2>4. counter'[c].ttl = 0
    BY <1>1, <1>5
  <2> QED
    BY <2>1, <2>2, <2>3, <2>4 DEF KeyFits, NoKeyFits, CalmWindowFits, OldWindowFits
<1>6. CASE ttl > 1
  <2>1. /\ counter'[c].ttl = ttl - 1 /\ counter'[c].ttl > 0 /\ counter'[c].count = n
        /\ WindowAge(c)' = wa + 1 /\ wa + 1 \in Ages /\ wa \in Ages
    BY <1>1, <1>2, <1>6, KeyFields DEF Ages
  <2>2. EarlierFits(c)'
    <3>1. \A age \in Ages : age + 1 \in Earlier(c)' => age \in Earlier(c)
      BY <1>1, <2>1, KeyFields DEF Earlier, Ages, AtMost
    <3>2. /\ SumFunctionOnSet(passed'[c], Earlier(c)') <= PassedAt(c, Earlier(c))
          /\ SumFunctionOnSet(passed'[c], Earlier(c)') \in Nat /\ PassedAt(c, Earlier(c)) \in Nat
      BY <1>4, <3>1, TickAgesPassed
    <3> QED
      BY <3>2, KeyFields DEF KeyFits, EarlierFits, PassedAt
  <2>3. \A age \in Ages : age + 1 \in InWindow(c)' => age \in InWindow(c)
    BY <1>1, <2>1, KeyFields DEF InWindow, Ages, AtMost
  <2>4. CASE wa < calm
    <3>1. \A age \in InWindow(c) : age + 1 \in InWindow(c)'
      BY <1>1, <2>1, <2>4, KeyFields DEF InWindow, Ages, AtMost
    <3>2. SumFunctionOnSet(passed'[c], InWindow(c)') = PassedAt(c, InWindow(c))
      BY <1>4, <2>3, <3>1, TickAgesPassed
    <3>3. WindowAge(c)' < calm'
      BY <1>1, <2>1, <2>4, KeyFields DEF AtMost, Ages
    <3>4. passed'[c][WindowAge(c)'] = passed[c][wa]
      BY <1>3, <2>1, KeyFields
    <3>5. /\ PassedAt(c, InWindow(c)) = AtMost(n, MaxRequests)
          /\ passed[c][wa] >= 1
      BY <1>6, <2>4, KeyFields DEF KeyFits, CalmWindowFits
    <3>6. PassedAt(c, InWindow(c))' = AtMost(n, MaxRequests)
      BY <3>2, <3>5 DEF PassedAt
    <3>7. CalmWindowFits(c)'
      BY <2>1, <3>4, <3>5, <3>6 DEF CalmWindowFits
    <3>8. NoKeyFits(c)' /\ OldWindowFits(c)'
      BY <1>1, <2>1, <3>3, KeyFields DEF NoKeyFits, OldWindowFits, Ages, AtMost
    <3> QED
      BY <2>2, <3>7, <3>8 DEF KeyFits
  <2>5. CASE wa >= calm
    <3>1. /\ SumFunctionOnSet(passed'[c], InWindow(c)') <= PassedAt(c, InWindow(c))
          /\ SumFunctionOnSet(passed'[c], InWindow(c)') \in Nat /\ PassedAt(c, InWindow(c)) \in Nat
      BY <1>4, <2>3, TickAgesPassed
    <3>2. WindowAge(c)' >= calm'
      BY <1>1, <2>1, <2>5, KeyFields DEF AtMost
    <3>3. PassedAt(c, InWindow(c)) <= AtMost(n, MaxRequests) - 1 /\ AtMost(n, MaxRequests) \in Nat
      BY <1>6, <2>5, KeyFields DEF KeyFits, OldWindowFits, AtMost
    <3>4. PassedAt(c, InWindow(c))' <= AtMost(n, MaxRequests) - 1
      BY <3>1, <3>3 DEF PassedAt
    <3>5. OldWindowFits(c)'
      BY <2>1, <3>4 DEF OldWindowFits
    <3>6. NoKeyFits(c)' /\ CalmWindowFits(c)'
      BY <1>1, <2>1, <3>2, KeyFields DEF NoKeyFits, CalmWindowFits, Ages, AtMost
    <3> QED
      BY <2>2, <3>5, <3>6 DEF KeyFits
  <2> QED
    BY <2>4, <2>5, KeyFields
<1> QED
  BY <1>5, <1>6, KeyFields

(* What a request of one client, or an eviction, leaves to the others. *)
LEMMA RequestFits ==
    ASSUME LimiterInv, TypeOK', NEW c \in Clients,
           Pass(c) \/ Refuse(c) \/ FailOpen(c) \/ CountMore(c) \/ Evict(c)
    PROVE  \A d \in Clients : KeyFits(d)'
<1> SUFFICES ASSUME NEW d \in Clients PROVE KeyFits(d)'
  OBVIOUS
<1>1. TypeOK /\ KeyFits(c) /\ KeyFits(d)
  BY DEF LimiterInv
<1>2. CASE FailOpen(c) \/ CountMore(c) \/ Evict(c)
  <2>1. calm' = 0
    BY <1>2 DEF FailOpen, CountMore, Evict
  <2> QED
    BY <2>1, FaultFitsNext
<1>3. CASE Pass(c) \/ Refuse(c)
  <2>1. CASE d = c
    BY <1>1, <1>3, <2>1, PassFits, RefuseFits
  <2>2. CASE d # c
    <3>1. counter'[d] = counter[d] /\ passed'[d] = passed[d] /\ calm' = calm
      BY <1>1, <1>3, <2>2 DEF Pass, Refuse, Count, LetThrough, TypeOK
    <3> QED
      BY <1>1, <3>1, UntouchedFits
  <2> QED
    BY <2>1, <2>2
<1> QED
  BY <1>2, <1>3

LEMMA LimiterNextInv ==
    ASSUME LimiterInv, TypeOK', [Next]_vars
    PROVE  LimiterInv'
<1>1. TypeOK /\ \A c \in Clients : KeyFits(c)
  BY DEF LimiterInv
<1>2. ASSUME NEW c \in Clients,
             Pass(c) \/ Refuse(c) \/ FailOpen(c) \/ CountMore(c) \/ Evict(c)
      PROVE  \A d \in Clients : KeyFits(d)'
  BY <1>2, RequestFits
<1>3. CASE RedisStops \/ RedisStarts
  <2>1. calm' = 0
    BY <1>3 DEF RedisStops, RedisStarts
  <2> QED
    BY <2>1, FaultFitsNext DEF LimiterInv
<1>4. CASE Tick
  BY <1>1, <1>4, TickFits DEF LimiterInv
<1>5. CASE UNCHANGED vars
  BY <1>1, <1>5, UntouchedFits DEF LimiterInv, vars
<1> QED
  BY <1>2, <1>3, <1>4, <1>5 DEF Next, LimiterInv

LEMMA LimiterInit == TypeOK /\ Init => LimiterInv
<1> SUFFICES ASSUME TypeOK, Init, NEW c \in Clients PROVE KeyFits(c)
  BY DEF LimiterInv
<1>1. counter[c].ttl = 0 /\ \A age \in Ages : passed[c][age] = 0
  BY DEF Init, NoKey
<1>2. ASSUME NEW A \in SUBSET Ages PROVE PassedAt(c, A) = 0
  <2>1. SumFunctionOnSet(passed[c], A) = SumFunctionOnSet(passed[c], {})
    BY <1>1, AgesFinite, SumOfNonzero
  <2> QED
    BY <2>1, SumOverNothing DEF PassedAt
<1>3. PassedAt(c, InWindow(c)) = 0 /\ PassedAt(c, Earlier(c)) = 0
  BY <1>2 DEF InWindow, Earlier
<1> QED
  BY <1>1, <1>3, AgesFinite, KeyFields
  DEF KeyFits, EarlierFits, NoKeyFits, CalmWindowFits, OldWindowFits

(* The front of the gateway is a rate limiter: whatever else happens there is *)
(* no step of the limiter; a request and an eviction are steps of it.         *)
LEMMA ReadyStepIsLimiterStep == [ReadyNext]_readyVars => [Next]_vars
BY DEF ReadyNext, readyVars, Request, RedisEvicts, Forward, Reconnect, ServiceStops, ServiceStarts,
   RedisStopsOrStarts, TickAndProbe, Next, vars

THEOREM FrontIsLimiter == ReadySpec => Spec
BY ReadyStepIsLimiterStep, PTL DEF ReadySpec, ReadyInit, Spec

THEOREM LimiterInvariance == ReadySpec => []LimiterInv
<1>1. ReadyInit /\ TypeOK => LimiterInv
  BY LimiterInit DEF ReadyInit
<1>2. LimiterInv /\ TypeOK' /\ [ReadyNext]_readyVars => LimiterInv'
  BY LimiterNextInv, ReadyStepIsLimiterStep
<1>3. Inv => TypeOK
  BY DEF Inv, ReadyTypeOK
<1> QED
  BY <1>1, <1>2, <1>3, Invariance, PTL DEF ReadySpec

(* What a client got through lately, in the calm, is what it got through in *)
(* its window and before.                                                   *)
LEMMA CalmPassedLately ==
    ASSUME TypeOK, calm = WindowSeconds, NEW c \in Clients
    PROVE  /\ PassedLately(c) = PassedAt(c, InWindow(c)) + PassedAt(c, Earlier(c))
           /\ PassedAt(c, InWindow(c)) \in Nat /\ PassedAt(c, Earlier(c)) \in Nat
<1>1. DOMAIN passed[c] = Ages
  BY DEF TypeOK
<1>2. PassedLately(c) = SumFunctionOnSet(passed[c], Ages)
  BY <1>1 DEF PassedLately, SumFunction, SumFunctionOnSet, FoldFunction
<1>3. InWindow(c) \in SUBSET Ages /\ Earlier(c) = Ages \ InWindow(c)
  BY KeyFields DEF InWindow, Earlier, Ages
<1>4. \A age \in Ages : passed[c][age] \in Int
  BY PassedIsNatural
<1>5. PassedAt(c, InWindow(c)) \in Nat /\ PassedAt(c, Earlier(c)) \in Nat
  BY <1>3, PassedIsNatural
<1> QED
  BY <1>2, <1>3, <1>4, <1>5, AgesFinite, SumOfParts DEF PassedAt

(* In the calm no client gets more than one less than twice the limit through *)
(* in any stretch of a window's length.                                       *)
THEOREM LimitIsKept == ReadySpec => []LimitHolds
<1>1. LimiterInv => LimitHolds
  <2> SUFFICES ASSUME LimiterInv, calm = WindowSeconds, NEW c \in Clients
               PROVE  PassedLately(c) <= 2 * MaxRequests - 1
    BY DEF LimitHolds
  <2>1. TypeOK /\ KeyFits(c)
    BY DEF LimiterInv
  <2>2. PassedAt(c, InWindow(c)) <= MaxRequests
    BY <2>1, KeyFields, CalmPassedLately
    DEF KeyFits, NoKeyFits, CalmWindowFits, OldWindowFits, AtMost
  <2>3. PassedAt(c, Earlier(c)) <= MaxRequests - 1
    BY <2>1 DEF KeyFits, EarlierFits
  <2> QED
    BY <2>1, <2>2, <2>3, CalmPassedLately, KeyFields
<1> QED
  BY <1>1, LimiterInvariance, PTL

(* In the calm only a client that got a full limit through lately is refused. *)
THEOREM OnlyExcessIsRefused == ReadySpec => OnlyExcessRefused
<1> DEFINE Excess == \A c \in Clients :
               Refuse(c) /\ calm = WindowSeconds => PassedLately(c) >= MaxRequests
<1>1. LimiterInv => Excess
  <2> SUFFICES ASSUME LimiterInv, NEW c \in Clients, Refuse(c), calm = WindowSeconds
               PROVE  PassedLately(c) >= MaxRequests
    OBVIOUS
  <2>1. TypeOK /\ KeyFits(c)
    BY DEF LimiterInv
  <2>2. counter[c].count >= MaxRequests /\ counter[c].ttl > 0 /\ WindowAge(c) < calm
    BY <2>1, KeyFields, NoneExempt DEF Refuse, Count, Allowed, TypeOK, Incremented, AtMost, Ages
  <2>3. PassedAt(c, InWindow(c)) = MaxRequests
    BY <2>1, <2>2, KeyFields DEF KeyFits, CalmWindowFits, AtMost
  <2> QED
    BY <2>1, <2>3, CalmPassedLately, KeyFields
<1>2. []LimiterInv => [][Excess]_vars
  BY <1>1, PTL
<1> QED
  BY <1>2, LimiterInvariance, PTL DEF OnlyExcessRefused
=============================================================================
