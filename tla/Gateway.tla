------------------------------- MODULE Gateway -------------------------------
(***************************************************************************)
(* A request on its way through the gateway: authentication, the sliding   *)
(* refresh of access tokens, the role checks of the routes, the handler    *)
(* with its binding and mapping, and the call of a service.                *)
(*                                                                         *)
(* An access token says who its owner is until it expires; no gateway asks *)
(* whether the account still exists.  Accounts are known here by whether   *)
(* they are stored (UserService says how they come and go); the accounts   *)
(* that Register adds are not among those followed.  What a service        *)
(* answers is taken from the tables of GatewayApi.  The limiter            *)
(* (RateLimit) may refuse any request on arrival, which then leaves no     *)
(* trace.                                                                  *)
(***************************************************************************)
EXTENDS GatewayApi

CONSTANTS
    Users,
    RoleOf,      \* the role each account was created with; it never changes
    AccessLife,  \* the lifetime of an access token, in ticks
    Slots,       \* the requests in progress at a time
    Sends,       \* bound: the operations each slot is used for
    Careful,     \* bound: the slots that hold well-formed requests only
    Guest, NoToken, Idle

ASSUME GatewayAssumption ==
    /\ RoleOf \in [Users -> Roles]
    /\ AccessLife \in Nat \ {0}
    /\ Sends \in [Slots -> SUBSET Ops]
    /\ Careful \subseteq Slots
    /\ Guest \notin Users

VARIABLES
    stored,      \* the users with an account
    access,      \* the access tokens in the hands of clients
    sinceProof,  \* history: ticks since each user last showed who they are, by a
                 \* login or a refresh token, at most AccessLife
    request      \* what each slot is doing

vars == <<stored, access, sinceProof, request>>

Token == [user : Users, left : 0..AccessLife]

\* The last fifth of the lifetime, rounded up to a tick.
SlidingWindow == (AccessLife + 4) \div 5

\* A request that has arrived, and what a handler makes of it.
Arrived(op, user, pc)       == [pc |-> pc, op |-> op, user |-> user]
Called(op, user, payload)   == [pc |-> "call", op |-> op, user |-> user, payload |-> payload]

At(s, pc) == request[s] # Idle /\ request[s].pc = pc

Goto(s, r) == request' = [request EXCEPT ![s] = r]
Answer(s)  == Goto(s, Idle)

------------------------------------------------------------------------------
Init ==
    /\ stored = Users
    /\ access = {}
    /\ sinceProof = [u \in Users |-> AccessLife]
    /\ request = [s \in Slots |-> Idle]

\* The public routes were grouped before the authentication was added.
Arrive(s, op) ==
    /\ request[s] = Idle
    /\ Goto(s, IF op \in Routes.public THEN Arrived(op, Guest, "handle")
               ELSE Arrived(op, Guest, "auth"))
    /\ UNCHANGED <<stored, access, sinceProof>>

------------------------------------------------------------------------------
(* Authentication *)

\* Mutation of validateToken: the expiry is not looked at.
validateTokenForever(token) == token # NoToken

\* Absent, malformed and foreign tokens are all NoToken.
validateToken(token) == token # NoToken /\ token.left > 0

isInSlidingWindow(token) == token.left > 0 /\ token.left <= SlidingWindow

\* 401, or on with the user of the token; in its last moments a token is
\* refreshed first if the request brings a refresh token along.
Authenticate(s, token) ==
    /\ At(s, "auth")
    /\ LET op == request[s].op
       IN  \/ ~validateToken(token) /\ Answer(s)
           \/ validateToken(token) /\ Goto(s, Arrived(op, token.user, "handle"))
           \/ /\ validateToken(token) /\ isInSlidingWindow(token)
              /\ Goto(s, Arrived(op, token.user, "refresh"))
    /\ UNCHANGED <<stored, access, sinceProof>>

\* The refresher sends the refresh token and nothing else.
JWTRefresher == [namesUser |-> FALSE]

\* user-service takes the user from the metadata by a type assertion, which
\* panics when there is none; the recovery makes that an Internal error.
RefreshTokenCodes(user) ==
    IF ~JWTRefresher.namesUser THEN {"Internal"}
    ELSE {"NotFound", "Unauthenticated", "Internal"} \cup (IF user \in stored THEN {"OK"} ELSE {})

\* New tokens go into the headers of the answer, and their owner has shown a
\* refresh token; without them the request goes on all the same.
Refresh(s) ==
    /\ At(s, "refresh")
    /\ LET user == request[s].user
       IN  \E code \in RefreshTokenCodes(user) \cup {"Unavailable"} :
              IF code = "OK"
              THEN /\ access' = access \cup {[user |-> user, left |-> AccessLife]}
                   /\ sinceProof' = [sinceProof EXCEPT ![user] = 0]
              ELSE UNCHANGED <<access, sinceProof>>
    /\ Goto(s, [request[s] EXCEPT !.pc = "handle"])
    /\ UNCHANGED stored

------------------------------------------------------------------------------
(* Handlers and services *)

RoleOfCaller(r) == IF r.user = Guest THEN "none" ELSE RoleOf[r.user]

\* 403 by the middlewares of the route.
Handle403(s) ==
    /\ At(s, "handle")
    /\ request[s].op \notin Routes.public
    /\ RoleOfCaller(request[s]) \notin LetIn(request[s].op)
    /\ Answer(s)
    /\ UNCHANGED <<stored, access, sinceProof>>

\* The handler binds the payload, and answers 400 (or 500) or calls the service.
Handle(s, payload) ==
    /\ At(s, "handle")
    /\ \/ request[s].op \in Routes.public
       \/ RoleOfCaller(request[s]) \in LetIn(request[s].op)
    /\ IF Refused(request[s].op, payload) \/ Panics(request[s].op, payload) THEN Answer(s)
       ELSE Goto(s, Called(request[s].op, request[s].user, payload))
    /\ UNCHANGED <<stored, access, sinceProof>>

\* The role the service sees: there is one in the metadata only if the handler
\* puts it there.
ForwardedRole(r) == IF Handlers[r.op].forwards THEN RoleOfCaller(r) ELSE "none"

\* What becomes of an accepted message, given the accounts there are.
Accepted(r) ==
    LET message == Message(r.op, r.payload)
        all     == IF r.op = "Login"
                   THEN {"NotFound", "Unauthenticated", "Internal"} \cup (IF stored = {} THEN {} ELSE {"OK"})
                   ELSE Outcomes(r.op, message)
    IN  IF r.op \in {"GetProfile", "UpdateProfile"} /\ r.user \notin stored
        THEN all \ {"OK"} ELSE all

\* The codes a call can come back with.
Codes(r) ==
    LET check == Checks[r.op]
        role  == ForwardedRole(r)
    IN  {"Unavailable"} \cup
        (IF check.asserts /\ role = "none" THEN {"Internal"}
         ELSE IF role \notin check.roles THEN {"PermissionDenied"}
         ELSE IF Incomplete(r.op, Message(r.op, r.payload)) THEN {"InvalidArgument"}
         ELSE Accepted(r))

Statuses(r) == {Status(r.op, code) : code \in Codes(r)}

\* Calls that change nothing here: all but Login and DeleteUsers, and those when
\* they fail.
ServeOther(s) ==
    /\ At(s, "call")
    /\ \E code \in Codes(request[s]) : code = "OK" => request[s].op \notin {"Login", "DeleteUsers"}
    /\ Answer(s)
    /\ UNCHANGED <<stored, access, sinceProof>>

\* The ids may be those of any accounts, known and unknown.
ServeDeleteUsers(s) ==
    /\ At(s, "call")
    /\ request[s].op = "DeleteUsers"
    /\ "OK" \in Codes(request[s])
    /\ stored' \in SUBSET stored
    /\ Answer(s)
    /\ UNCHANGED <<access, sinceProof>>

\* Login has found an account and its password right.
ServeLogin(s, user) ==
    /\ At(s, "call")
    /\ request[s].op = "Login"
    /\ "OK" \in Codes(request[s])
    /\ user \in stored
    /\ Goto(s, Arrived("Login", user, "issue"))
    /\ UNCHANGED <<stored, access, sinceProof>>

\* It signs the token later and looks at the account no more.
IssueToken(s) ==
    /\ At(s, "issue")
    /\ access' = access \cup {[user |-> request[s].user, left |-> AccessLife]}
    /\ sinceProof' = [sinceProof EXCEPT ![request[s].user] = 0]
    /\ Answer(s)
    /\ UNCHANGED stored

------------------------------------------------------------------------------
\* Mutation of Aged: the lifetime does not end at zero.
AgedBelowZero(token) == [token EXCEPT !.left = @ - 1]

Aged(token) == [token EXCEPT !.left = IF @ = 0 THEN 0 ELSE @ - 1]

Tick ==
    /\ access' = {Aged(token) : token \in access}
    /\ sinceProof' = [u \in Users |->
                         IF sinceProof[u] = AccessLife THEN AccessLife ELSE sinceProof[u] + 1]
    /\ UNCHANGED <<stored, request>>

Next ==
    \/ \E s \in Slots :
          \/ \E op \in Sends[s] : Arrive(s, op)
          \/ \E token \in access \cup {NoToken} : Authenticate(s, token)
          \/ Refresh(s)
          \/ Handle403(s)
          \/ At(s, "handle") /\
             \E payload \in IF s \in Careful THEN {Good(request[s].op)} ELSE Payloads(request[s].op) :
                 Handle(s, payload)
          \/ ServeOther(s)
          \/ ServeDeleteUsers(s)
          \/ \E user \in stored : ServeLogin(s, user)
          \/ IssueToken(s)
    \/ Tick

Spec == Init /\ [][Next]_vars

\* Time passes.
FairSpec == Spec /\ WF_vars(Tick)

------------------------------------------------------------------------------
Request ==
    UNION {{Arrived(op, user, pc) : user \in Users \cup {Guest},
                                    pc \in {"auth", "refresh", "handle", "issue"}} \cup
           {Called(op, user, payload) : user \in Users \cup {Guest}, payload \in Payloads(op)} :
              op \in Ops}

TypeOK ==
    /\ stored \subseteq Users
    /\ access \subseteq Token
    /\ sinceProof \in [Users -> 0..AccessLife]
    /\ request \in [Slots -> Request \cup {Idle}]

\* The calls in progress.
Calls == {request[s] : s \in {t \in Slots : At(t, "call")}}

\* The roles of the routes and those of the gRPC handlers agree: no call the
\* gateway lets through is denied by the service, for its role or for want of one.
RolesAgree ==
    \A r \in Calls : 403 \notin Statuses(r)

\* A well-formed request of a caller the gateway lets in can succeed: every field
\* the service demands is bound, mapped and sent, and so is the role it asks for.
\* Only the caller's own account may be gone by then.
RequestsCanSucceed ==
    \A r \in Calls :
        (r.payload = Good(r.op) /\ stored # {} /\ r.user \in stored \cup {Guest})
            => Handlers[r.op].ok \in Statuses(r)

\* What a service calls incomplete is there but empty or meaningless; a field
\* that is missing altogether never gets past the binding, except where the
\* handler puts up with a binding that fails: a cancellation whose body blanks
\* the id that the path names.
NothingMissingGetsThrough ==
    \A r \in Calls :
        "InvalidArgument" \in Codes(r)
            => \E f \in DOMAIN r.payload :
                  \/ r.payload[f] \in {"empty", "odd"}
                  \/ r.payload[f] = "absent" /\ f \in Handlers[r.op].ignores

\* Nobody is taken for a user who has neither logged in nor shown a refresh token
\* within the lifetime of an access token, whatever is refreshed meanwhile and
\* however long a login takes to sign its token.
AccessEnds ==
    [][\A s \in Slots :
          At(s, "auth") /\ request'[s] \notin {Idle, request[s]}
              => sinceProof[request'[s].user] < AccessLife]_vars

\* Once an account is gone for good, so are, in the end, the access tokens that
\* are taken for its owner.
DeletedUsersFade ==
    \A u \in Users :
        <>[](u \notin stored) => <>[](\A token \in access : token.user = u => ~validateToken(token))
=============================================================================
