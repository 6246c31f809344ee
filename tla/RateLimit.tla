------------------------------ MODULE RateLimit ------------------------------
(***************************************************************************)
(* The rate limiter of the gateway: a counter per client in Redis, which   *)
(* every gateway replica increments with the same Lua script and which     *)
(* expires a window after it was created.                                  *)
(*                                                                         *)
(* Redis runs a script as one step, so a request is one action here, and   *)
(* what it decides is all that replicas share.  Time passes in ticks.      *)
(***************************************************************************)
EXTENDS Integers, Functions

CONSTANTS
    Clients,       \* the addresses requests come from
    MaxRequests,
    WindowSeconds, \* in ticks
    MaxAttempts    \* of the client library at one call: go-redis retries 3 times

ASSUME RateLimitAssumption ==
    /\ MaxRequests \in Nat \ {0}
    /\ WindowSeconds \in Nat \ {0}
    /\ MaxAttempts \in Nat \ {0}

VARIABLES
    counter,  \* the key of each client: its value and the ticks it has left
    redis,    \* Redis answers or it does not
    passed,   \* history: requests let through, by their age in ticks
    calm      \* history: ticks since Redis last failed or lost a counter

vars == <<counter, redis, passed, calm>>

Ages   == 0..(WindowSeconds - 1)
Capped == 2 * MaxRequests  \* bound: requests of one age that are told apart

\* The value of a key that does not exist is 0.  A value above the limit is as
\* good as any other.
Counter == {k \in [count : 0..(MaxRequests + 1), ttl : 0..WindowSeconds] :
               k.count = 0 <=> k.ttl = 0}
NoKey   == [count |-> 0, ttl |-> 0]

AtMost(n, limit) == IF n < limit THEN n ELSE limit

------------------------------------------------------------------------------
Init ==
    /\ counter = [c \in Clients |-> NoKey]
    /\ redis = "up"
    /\ passed = [c \in Clients |-> [age \in Ages |-> 0]]
    /\ calm = WindowSeconds

\* The limiter reads the role that the authentication leaves in the context of
\* the request, and is mounted before it: it sees none, and so exempts nobody.
RoleSeen(c) == ""

Exempt(c) == RoleSeen(c) = "ADMIN"

\* Mutation of Incremented: the expiry is set anew by every request.
IncrementedAndRenewed(k, times) ==
    [count |-> AtMost(k.count + times, MaxRequests + 1), ttl |-> WindowSeconds]

\* Mutation of Incremented: the key is left without an expiry.
IncrementedForever(k, times) ==
    [count |-> AtMost(k.count + times, MaxRequests + 1), ttl |-> k.ttl]

\* The script, run so many times: INCR, and EXPIRE for a key that INCR has just
\* created.
Incremented(k, times) ==
    [count |-> AtMost(k.count + times, MaxRequests + 1),
     ttl   |-> IF k.count = 0 THEN WindowSeconds ELSE k.ttl]

Count(c, times) ==
    counter' = [counter EXCEPT ![c] = IF Exempt(c) THEN @ ELSE Incremented(@, times)]

LetThrough(c) == passed' = [passed EXCEPT ![c][0] = AtMost(@ + 1, Capped)]

\* Mutation of Allowed: the request that reaches the limit is refused.
AllowedBelow(c) == Exempt(c) \/ counter'[c].count < MaxRequests

\* Mutation of Allowed: the count before this request decides.
AllowedByOldCount(c) == Exempt(c) \/ counter[c].count <= MaxRequests

Allowed(c) == Exempt(c) \/ counter'[c].count <= MaxRequests

Pass(c) ==
    /\ redis = "up"
    /\ Count(c, 1)
    /\ Allowed(c)
    /\ LetThrough(c)
    /\ UNCHANGED <<redis, calm>>

\* 429 Too Many Requests.  A refused request counts as well.
Refuse(c) ==
    /\ redis = "up"
    /\ Count(c, 1)
    /\ ~Allowed(c)
    /\ UNCHANGED <<redis, passed, calm>>

\* The last attempt fails and the request passes.  Where only the answer of an
\* attempt was lost the script has run all the same.
FailOpen(c) ==
    /\ \/ UNCHANGED counter
       \/ redis = "up" /\ \E times \in 1..MaxAttempts : Count(c, times)
    /\ LetThrough(c)
    /\ calm' = 0
    /\ UNCHANGED redis

\* The client library sends the script again after a lost answer: the request
\* is counted more than once and then decided as usual.
CountMore(c) ==
    /\ redis = "up"
    /\ \E times \in 2..MaxAttempts : Count(c, times)
    /\ IF Allowed(c) THEN LetThrough(c) ELSE UNCHANGED passed
    /\ calm' = 0
    /\ UNCHANGED redis

\* Redis runs out of its memory and evicts a key, whichever it likes (allkeys-lru
\* in k8s/base/redis/deployment.yaml).
Evict(c) ==
    /\ redis = "up"
    /\ counter[c] # NoKey
    /\ counter' = [counter EXCEPT ![c] = NoKey]
    /\ calm' = 0
    /\ UNCHANGED <<redis, passed>>

\* Redis goes away.  It has no volume in the cluster: it comes back empty, or
\* with its keys where it keeps them on disk.
RedisStops ==
    /\ redis = "up"
    /\ redis' = "down"
    /\ calm' = 0
    /\ UNCHANGED <<counter, passed>>

RedisStarts ==
    /\ redis = "down"
    /\ redis' = "up"
    /\ counter' \in {counter, [c \in Clients |-> NoKey]}
    /\ calm' = 0
    /\ UNCHANGED passed

\* Expiry is an absolute time: it also comes while Redis is away.
Tick ==
    /\ counter' = [c \in Clients |->
                      IF counter[c].ttl <= 1 THEN NoKey ELSE [counter[c] EXCEPT !.ttl = @ - 1]]
    /\ passed' = [c \in Clients |->
                     [age \in Ages |-> IF age = 0 THEN 0 ELSE passed[c][age - 1]]]
    /\ calm' = AtMost(calm + 1, WindowSeconds)
    /\ UNCHANGED redis

Next ==
    \/ \E c \in Clients : Pass(c) \/ Refuse(c) \/ FailOpen(c) \/ CountMore(c) \/ Evict(c)
    \/ RedisStops
    \/ RedisStarts
    \/ Tick

Spec == Init /\ [][Next]_vars

\* Time passes.
FairSpec == Spec /\ WF_vars(Tick)

------------------------------------------------------------------------------
TypeOK ==
    /\ counter \in [Clients -> Counter]
    /\ redis \in {"up", "down"}
    /\ passed \in [Clients -> [Ages -> 0..Capped]]
    /\ calm \in 0..WindowSeconds

\* What a client got through the limiter within the last window's length.
PassedLately(c) == SumFunction(passed[c])

\* However its requests are spread over time and replicas, a client gets at most
\* one less than twice the limit through in any stretch of a window's length:
\* the tail of one window and the head of the next.  Requests that passed while
\* Redis failed, and counters it lost, are the exception while they last.
LimitHolds ==
    calm = WindowSeconds =>
        \A c \in Clients : PassedLately(c) <= 2 * MaxRequests - 1

\* Only a client that got a full limit through lately is refused; a counter
\* never carries what it counted from one window into the next.
OnlyExcessRefused ==
    [][\A c \in Clients :
          Refuse(c) /\ calm = WindowSeconds => PassedLately(c) >= MaxRequests]_vars

\* A client over the limit is let in again, also when it never stops asking: no
\* counter outlives its window.
LimitLifts ==
    \A c \in Clients : counter[c].count > MaxRequests ~> counter[c] = NoKey
=============================================================================
