------------------------------ MODULE Readiness ------------------------------
(***************************************************************************)
(* The rate limiter behind the readiness probe.  A gateway replica gets    *)
(* requests while it is in rotation; it leaves the rotation after so many  *)
(* probes of /ready in a row have failed and is back after one that        *)
(* succeeds.  /ready asks Redis and looks at the state of the connections  *)
(* to the services; no call is made, so a connection that has never been   *)
(* tried, or was lost without anybody noticing, passes.                    *)
(*                                                                         *)
(* Each replica is probed once per tick.                                   *)
(***************************************************************************)
EXTENDS RateLimit

CONSTANTS
    Gateways, Services,
    FailureThreshold  \* of the probe

ASSUME ReadinessAssumption == FailureThreshold \in Nat \ {0}

VARIABLES
    running,     \* the services that answer
    connection,  \* of each gateway to each service
    failures,    \* the probes of each gateway that have failed in a row
    outage       \* history: ticks Redis has been down, at most FailureThreshold

readyVars == <<vars, running, connection, failures, outage>>

InRotation(g) == failures[g] < FailureThreshold

\* Mutation of CheckConnection: only an established connection will do.
CheckConnectionEstablished(g, s) == connection[g][s] = "ready"

CheckConnection(g, s) == connection[g][s] # "failing"

\* Mutation of readinessCheck: Redis is not asked.
readinessCheckWithoutRedis(g) == \A s \in Services : CheckConnection(g, s)

readinessCheck(g) == redis = "up" /\ \A s \in Services : CheckConnection(g, s)

\* A replica starts out of rotation, with connections it has not tried.
ReadyInit ==
    /\ Init
    /\ running = Services
    /\ connection = [g \in Gateways |-> [s \in Services |-> "idle"]]
    /\ failures = [g \in Gateways |-> FailureThreshold]
    /\ outage = 0

\* The limiter sees the requests of a gateway in rotation.
Request(c) ==
    /\ \E g \in Gateways : InRotation(g)
    /\ Pass(c) \/ Refuse(c) \/ FailOpen(c) \/ CountMore(c)
    /\ UNCHANGED <<running, connection, failures, outage>>

\* A request that has passed goes on to a service, which connects if need be.
Forward(g, s) ==
    /\ InRotation(g)
    /\ connection' = [connection EXCEPT ![g][s] = IF s \in running THEN "ready" ELSE "failing"]
    /\ UNCHANGED <<vars, running, failures, outage>>

\* grpc goes on trying once a connection has failed.
Reconnect(g, s) ==
    /\ connection[g][s] = "failing"
    /\ s \in running
    /\ connection' = [connection EXCEPT ![g][s] = "ready"]
    /\ UNCHANGED <<vars, running, failures, outage>>

\* A gateway notices a closed connection at once, or when it uses it next.
ServiceStops(s) ==
    /\ running' = running \ {s}
    /\ \E noticed \in SUBSET {g \in Gateways : connection[g][s] = "ready"} :
          connection' = [g \in Gateways |->
                            IF g \in noticed THEN [connection[g] EXCEPT ![s] = "idle"]
                            ELSE connection[g]]
    /\ UNCHANGED <<vars, failures, outage>>

ServiceStarts(s) ==
    /\ running' = running \cup {s}
    /\ UNCHANGED <<vars, connection, failures, outage>>

RedisEvicts(c) ==
    /\ Evict(c)
    /\ UNCHANGED <<running, connection, failures, outage>>

RedisStopsOrStarts ==
    /\ RedisStops \/ RedisStarts
    /\ outage' = 0
    /\ UNCHANGED <<running, connection, failures>>

\* Time passes, with a probe of each gateway.
TickAndProbe ==
    /\ Tick
    /\ failures' = [g \in Gateways |->
                       IF readinessCheck(g) THEN 0 ELSE AtMost(failures[g] + 1, FailureThreshold)]
    /\ outage' = IF redis = "down" THEN AtMost(outage + 1, FailureThreshold) ELSE 0
    /\ UNCHANGED <<running, connection>>

ReadyNext ==
    \/ \E c \in Clients : Request(c) \/ RedisEvicts(c)
    \/ \E g \in Gateways, s \in Services : Forward(g, s) \/ Reconnect(g, s)
    \/ \E s \in Services : ServiceStops(s) \/ ServiceStarts(s)
    \/ RedisStopsOrStarts
    \/ TickAndProbe

\* Time passes and grpc keeps reconnecting; nobody has to send a request.
ReadySpec ==
    /\ ReadyInit
    /\ [][ReadyNext]_readyVars
    /\ WF_readyVars(TickAndProbe)
    /\ \A g \in Gateways, s \in Services : WF_readyVars(Reconnect(g, s))

------------------------------------------------------------------------------
ReadyTypeOK ==
    /\ TypeOK
    /\ running \subseteq Services
    /\ connection \in [Gateways -> [Services -> {"idle", "ready", "failing"}]]
    /\ failures \in [Gateways -> 0..FailureThreshold]
    /\ outage \in 0..FailureThreshold

\* Without Redis the limiter lets everything through, but not for long: when
\* the probes of an outage have added up no gateway is in rotation any more.
OutageClosesGateways ==
    outage = FailureThreshold => \A g \in Gateways : ~InRotation(g)

\* Once Redis and the services are back for good, every gateway is in rotation
\* for good, also when nobody calls a service to wake its connection up.
GatewaysReturn ==
    <>[](redis = "up" /\ running = Services) => <>[](\A g \in Gateways : InRotation(g))
=============================================================================
