--------------------------- MODULE Gateway_proofs ---------------------------
(***************************************************************************)
(* How long access lasts and how the layers of the gateway fit together,   *)
(* for any users, any number of requests in progress and any lifetime of a *)
(* token.                                                                  *)
(*                                                                         *)
(* A token and the time since its owner last logged in or had a token      *)
(* refreshed add up to the lifetime at most (TokensAge), whether the       *)
(* user-service makes tokens for the refresher or, as it does now, panics. *)
(*                                                                         *)
(* A call in progress has passed the middlewares and the binding of its    *)
(* operation (SlotsSound).  What is left is to compare the tables of the   *)
(* layers, operation by operation (TablesFit).                             *)
(***************************************************************************)
EXTENDS Gateway, TLAPS

TokensAge == \A token \in access : token.left + sinceProof[token.user] <= AccessLife

\* A token is only made for somebody.
Issuing     == {"issue", "refresh"}
IssuesSound == \A s \in Slots : request[s] # Idle /\ request[s].pc \in Issuing
                                   => request[s].user \in Users

Inv == TypeOK /\ TokensAge /\ IssuesSound

------------------------------------------------------------------------------
LEMMA ArrivedType ==
    ASSUME NEW op \in Ops, NEW user \in Users \cup {Guest},
           NEW pc \in {"auth", "refresh", "handle", "issue"}
    PROVE  Arrived(op, user, pc) \in Request
<1>1. Arrived(op, user, pc) \in {Arrived(op, u, p) : u \in Users \cup {Guest},
                                                     p \in {"auth", "refresh", "handle", "issue"}}
  OBVIOUS
<1> QED
  BY <1>1 DEF Request

LEMMA CalledType ==
    ASSUME NEW op \in Ops, NEW user \in Users \cup {Guest}, NEW payload \in Payloads(op)
    PROVE  Called(op, user, payload) \in Request
<1>1. Called(op, user, payload) \in {Called(op, u, p) : u \in Users \cup {Guest}, p \in Payloads(op)}
  OBVIOUS
<1> QED
  BY <1>1 DEF Request

(* What a request consists of; one that has not called anything is an arrival. *)
LEMMA RequestFields ==
    ASSUME NEW r \in Request
    PROVE  /\ r.op \in Ops
           /\ r.user \in Users \cup {Guest}
           /\ r.pc # "call" => r = Arrived(r.op, r.user, r.pc)
<1>1. PICK op \in Ops :
          r \in {Arrived(op, user, pc) : user \in Users \cup {Guest},
                                         pc \in {"auth", "refresh", "handle", "issue"}} \cup
                {Called(op, user, payload) : user \in Users \cup {Guest}, payload \in Payloads(op)}
  BY DEF Request
<1>2. CASE \E user \in Users \cup {Guest}, pc \in {"auth", "refresh", "handle", "issue"} :
               r = Arrived(op, user, pc)
  BY <1>2 DEF Arrived
<1>3. CASE \E user \in Users \cup {Guest}, payload \in Payloads(op) : r = Called(op, user, payload)
  BY <1>3 DEF Called
<1> QED
  BY <1>1, <1>2, <1>3

(* A request in some slot is well-formed. *)
LEMMA SlotFields ==
    ASSUME TypeOK, NEW s \in Slots, NEW pc, At(s, pc)
    PROVE  /\ request[s] \in Request /\ request[s].pc = pc
           /\ request[s].op \in Ops
           /\ request[s].user \in Users \cup {Guest}
BY RequestFields DEF TypeOK, At

------------------------------------------------------------------------------
LEMMA InitInv == Init => Inv
<1> SUFFICES ASSUME Init PROVE Inv
  OBVIOUS
<1>1. TypeOK
  BY GatewayAssumption DEF Init, TypeOK
<1>2. TokensAge /\ IssuesSound
  BY DEF Init, TokensAge, IssuesSound
<1> QED
  BY <1>1, <1>2 DEF Inv

(* One slot goes on, or is free again, and no token is made. *)
LEMMA GotoInv ==
    ASSUME Inv, NEW s \in Slots, NEW r \in Request \cup {Idle}, Goto(s, r),
           r # Idle /\ r.pc \in Issuing => r.user \in Users,
           stored' \subseteq stored, UNCHANGED <<access, sinceProof>>
    PROVE  Inv'
<1>1. \A t \in Slots : request'[t] = IF t = s THEN r ELSE request[t]
  BY DEF Goto, Inv, TypeOK
<1>2. TypeOK'
  BY DEF Goto, Inv, TypeOK
<1>3. TokensAge'
  BY DEF Inv, TokensAge
<1>4. IssuesSound'
  BY <1>1 DEF Inv, IssuesSound
<1> QED
  BY <1>2, <1>3, <1>4 DEF Inv

LEMMA AnswerInv ==
    ASSUME Inv, NEW s \in Slots, Answer(s),
           stored' \subseteq stored, UNCHANGED <<access, sinceProof>>
    PROVE  Inv'
BY GotoInv DEF Answer

LEMMA ArriveInv ==
    ASSUME Inv, NEW s \in Slots, NEW op \in Sends[s], Arrive(s, op)
    PROVE  Inv'
<1>1. op \in Ops
  BY GatewayAssumption
<1>2. ASSUME NEW pc \in {"handle", "auth"}
      PROVE  /\ Arrived(op, Guest, pc) \in Request
             /\ Arrived(op, Guest, pc).pc \notin Issuing
  BY <1>1, ArrivedType DEF Arrived, Issuing
<1> QED
  BY <1>2, GotoInv DEF Arrive

LEMMA AuthenticateInv ==
    ASSUME Inv, NEW s \in Slots, NEW token \in access \cup {NoToken}, Authenticate(s, token)
    PROVE  Inv'
<1>1. request[s].op \in Ops
  BY SlotFields DEF Authenticate, Inv
<1>2. CASE Answer(s)
  BY <1>2, AnswerInv DEF Authenticate
<1>3. CASE ~Answer(s)
  <2>1. token \in access
    BY <1>3 DEF Authenticate, validateToken
  <2>2. token.user \in Users
    BY <2>1 DEF Inv, TypeOK, Token
  <2>3. ASSUME NEW pc \in {"handle", "refresh"}
        PROVE  /\ Arrived(request[s].op, token.user, pc) \in Request
               /\ Arrived(request[s].op, token.user, pc).user \in Users
    BY <1>1, <2>2, ArrivedType DEF Arrived
  <2> QED
    BY <1>3, <2>3, GotoInv DEF Authenticate
<1> QED
  BY <1>2, <1>3

(* One slot goes on, or is free again, and a token is made for its user. *)
LEMMA TokenInv ==
    ASSUME Inv, NEW s \in Slots, NEW r \in Request \cup {Idle}, Goto(s, r),
           r # Idle => r.pc \notin Issuing, NEW u \in Users, UNCHANGED stored,
           access' = access \cup {[user |-> u, left |-> AccessLife]},
           sinceProof' = [sinceProof EXCEPT ![u] = 0]
    PROVE  Inv'
<1> DEFINE token == [user |-> u, left |-> AccessLife]
<1>1. token \in Token
  BY GatewayAssumption DEF Token
<1>2. \A t \in Slots : request'[t] = IF t = s THEN r ELSE request[t]
  BY DEF Goto, Inv, TypeOK
<1>3. \A v \in Users : sinceProof'[v] = IF v = u THEN 0 ELSE sinceProof[v]
  BY DEF Inv, TypeOK
<1>4. TypeOK'
  BY <1>1, GatewayAssumption DEF Goto, Inv, TypeOK
<1>5. TokensAge'
  <2> SUFFICES ASSUME NEW t \in access' PROVE t.left + sinceProof'[t.user] <= AccessLife
    BY DEF TokensAge
  <2>1. CASE t = token
    BY <1>3, <2>1, GatewayAssumption
  <2>2. CASE t \in access
    <3>1. /\ t.user \in Users /\ t.left \in Nat /\ sinceProof[t.user] \in Nat
          /\ t.left <= AccessLife
          /\ t.left + sinceProof[t.user] <= AccessLife
      BY <2>2 DEF Inv, TypeOK, Token, TokensAge
    <3> QED
      BY <1>3, <3>1, GatewayAssumption
  <2> QED
    BY <2>1, <2>2
<1>6. IssuesSound'
  BY <1>2 DEF Inv, IssuesSound
<1> QED
  BY <1>4, <1>5, <1>6 DEF Inv

LEMMA RefreshInv ==
    ASSUME Inv, NEW s \in Slots, Refresh(s)
    PROVE  Inv'
<1> DEFINE r == [request[s] EXCEPT !.pc = "handle"]
<1>1. request[s] \in Request /\ request[s].pc = "refresh" /\ request[s].user \in Users
  BY SlotFields DEF Refresh, Inv, IssuesSound, Issuing, At
<1>2. PICK op \in Ops, user \in Users \cup {Guest} : request[s] = Arrived(op, user, "refresh")
  BY <1>1, RequestFields
<1>3. r \in Request /\ r.pc \notin Issuing
  <2>1. [Arrived(op, user, "refresh") EXCEPT !.pc = "handle"] = Arrived(op, user, "handle")
    BY DEF Arrived
  <2>2. r = [Arrived(op, user, "refresh") EXCEPT !.pc = "handle"]
    BY <1>2
  <2> HIDE DEF r
  <2>3. r = Arrived(op, user, "handle")
    BY <2>1, <2>2
  <2>4. Arrived(op, user, "handle").pc = "handle"
    BY DEF Arrived
  <2> QED
    BY <2>3, <2>4, ArrivedType DEF Issuing
<1>4. Goto(s, r) /\ UNCHANGED stored
  BY DEF Refresh
<1> HIDE DEF r
<1>5. CASE UNCHANGED <<access, sinceProof>>
  BY <1>3, <1>4, <1>5, GotoInv
<1>6. CASE /\ access' = access \cup {[user |-> request[s].user, left |-> AccessLife]}
           /\ sinceProof' = [sinceProof EXCEPT ![request[s].user] = 0]
  BY <1>1, <1>3, <1>4, <1>6, TokenInv
<1> QED
  BY <1>5, <1>6 DEF Refresh

LEMMA HandleInv ==
    ASSUME Inv, NEW s \in Slots, At(s, "handle"),
           NEW payload \in Payloads(request[s].op), Handle(s, payload)
    PROVE  Inv'
<1> DEFINE r == Called(request[s].op, request[s].user, payload)
<1>1. r \in Request /\ r.pc \notin Issuing
  BY SlotFields, CalledType DEF Inv, Called, Issuing
<1>2. CASE Answer(s)
  BY <1>2, AnswerInv DEF Handle
<1>3. CASE Goto(s, r)
  BY <1>1, <1>3, GotoInv DEF Handle
<1> QED
  BY <1>2, <1>3 DEF Handle

LEMMA ServeLoginInv ==
    ASSUME Inv, NEW s \in Slots, NEW user \in stored, ServeLogin(s, user)
    PROVE  Inv'
<1>1. user \in Users
  BY DEF Inv, TypeOK
<1>2. request[s].op = "Login" /\ request[s].op \in Ops
  BY SlotFields DEF ServeLogin, Inv
<1>3. Arrived("Login", user, "issue") \in Request
  BY <1>1, <1>2, ArrivedType
<1>4. Arrived("Login", user, "issue").user \in Users
  BY <1>1 DEF Arrived
<1> QED
  BY <1>3, <1>4, GotoInv DEF ServeLogin

LEMMA IssueTokenInv ==
    ASSUME Inv, NEW s \in Slots, IssueToken(s)
    PROVE  Inv'
<1>1. request[s].user \in Users
  BY DEF IssueToken, At, Inv, IssuesSound, Issuing
<1> QED
  BY <1>1, TokenInv DEF IssueToken, Answer

LEMMA TickInv ==
    ASSUME Inv, Tick
    PROVE  Inv'
<1>1. ASSUME NEW t \in Token
      PROVE  /\ Aged(t) \in Token /\ Aged(t).user = t.user
             /\ Aged(t).left = IF t.left = 0 THEN 0 ELSE t.left - 1
  BY GatewayAssumption DEF Token, Aged
<1>2. \A u \in Users : sinceProof'[u] = IF sinceProof[u] = AccessLife THEN AccessLife ELSE sinceProof[u] + 1
  BY DEF Tick
<1>3. TypeOK'
  <2>1. access' \subseteq Token
    BY <1>1 DEF Tick, Inv, TypeOK
  <2>2. sinceProof' \in [Users -> 0..AccessLife]
    BY GatewayAssumption DEF Tick, Inv, TypeOK
  <2> QED
    BY <2>1, <2>2 DEF Tick, Inv, TypeOK
<1>4. TokensAge'
  <2> SUFFICES ASSUME NEW t \in access PROVE Aged(t).left + sinceProof'[Aged(t).user] <= AccessLife
    BY DEF Tick, TokensAge
  <2>1. /\ t \in Token /\ t.user \in Users /\ t.left \in Nat
        /\ sinceProof[t.user] \in 0..AccessLife
        /\ t.left + sinceProof[t.user] <= AccessLife
    BY DEF Inv, TypeOK, Token, TokensAge
  <2> QED
    BY <1>1, <1>2, <2>1, GatewayAssumption
<1>5. IssuesSound'
  BY DEF Tick, Inv, IssuesSound
<1> QED
  BY <1>3, <1>4, <1>5 DEF Inv

LEMMA NextInv ==
    ASSUME Inv, [Next]_vars
    PROVE  Inv'
<1>1. ASSUME NEW s \in Slots, NEW op \in Sends[s], Arrive(s, op)
      PROVE  Inv'
  BY <1>1, ArriveInv
<1>2. ASSUME NEW s \in Slots, NEW token \in access \cup {NoToken}, Authenticate(s, token)
      PROVE  Inv'
  BY <1>2, AuthenticateInv
<1>3. ASSUME NEW s \in Slots, Refresh(s) PROVE Inv'
  BY <1>3, RefreshInv
<1>4. ASSUME NEW s \in Slots, Handle403(s) PROVE Inv'
  BY <1>4, AnswerInv DEF Handle403
<1>5. ASSUME NEW s \in Slots, At(s, "handle"),
             NEW payload \in IF s \in Careful THEN {Good(request[s].op)} ELSE Payloads(request[s].op),
             Handle(s, payload)
      PROVE  Inv'
  <2>1. Good(request[s].op) \in Payloads(request[s].op)
    BY DEF Payloads
  <2>2. payload \in Payloads(request[s].op)
    BY <2>1
  <2> QED
    BY <1>5, <2>2, HandleInv
<1>6. ASSUME NEW s \in Slots, ServeOther(s) \/ ServeDeleteUsers(s) PROVE Inv'
  BY <1>6, AnswerInv DEF ServeOther, ServeDeleteUsers
<1>7. ASSUME NEW s \in Slots, NEW user \in stored, ServeLogin(s, user) PROVE Inv'
  BY <1>7, ServeLoginInv
<1>8. ASSUME NEW s \in Slots, IssueToken(s) PROVE Inv'
  BY <1>8, IssueTokenInv
<1>9. CASE Tick
  BY <1>9, TickInv
<1>10. CASE UNCHANGED vars
  BY <1>10 DEF vars, Inv, TypeOK, TokensAge, IssuesSound
<1> QED
  BY <1>1, <1>2, <1>3, <1>4, <1>5, <1>6, <1>7, <1>8, <1>9, <1>10 DEF Next

LEMMA Invariance == Spec => []Inv
BY InitInv, NextInv, PTL DEF Spec

------------------------------------------------------------------------------
(* Accounts, tokens and requests stay well-typed: a handler's payload is one  *)
(* of its operation, whatever slots were doing before.                        *)
THEOREM TypeCorrect == Spec => []TypeOK
<1>1. Inv => TypeOK
  BY DEF Inv
<1> QED
  BY <1>1, Invariance, PTL

(* Nobody passes the authentication as a user who has neither logged in nor    *)
(* shown a refresh token within the lifetime of an access token, for any users *)
(* and requests, and whatever the user-service answers to a refresh.           *)
THEOREM SessionsEnd == Spec => AccessEnds
<1> DEFINE Fresh ==
        \A s \in Slots :
            At(s, "auth") /\ request'[s] \notin {Idle, request[s]}
                => sinceProof[request'[s].user] < AccessLife
<1>1. Inv /\ [Next]_vars => [Fresh]_vars
  <2> SUFFICES ASSUME Inv, Next, NEW s \in Slots, At(s, "auth"), request'[s] \notin {Idle, request[s]}
               PROVE  sinceProof[request'[s].user] < AccessLife
    OBVIOUS
  <2>1. PICK token \in access \cup {NoToken} : Authenticate(s, token)
    <3>1. ASSUME NEW t \in Slots, NEW r, Goto(t, r), ~At(t, "auth")
          PROVE  FALSE
      BY <3>1 DEF Goto, Inv, TypeOK
    <3>2. ASSUME NEW t \in Slots, NEW token \in access \cup {NoToken}, Authenticate(t, token)
          PROVE  t = s
      BY <3>2 DEF Authenticate, Answer, Goto, Inv, TypeOK
    <3>3. ASSUME NEW t \in Slots, NEW op \in Sends[t], Arrive(t, op)
          PROVE  FALSE
      BY <3>1, <3>3 DEF Arrive, At
    <3>4. ASSUME NEW t \in Slots, Refresh(t) \/ Handle403(t) \/ ServeOther(t) \/ ServeDeleteUsers(t)
                                             \/ IssueToken(t)
          PROVE  FALSE
      BY <3>1, <3>4 DEF Refresh, Handle403, ServeOther, ServeDeleteUsers, IssueToken, Answer, At
    <3>5. ASSUME NEW t \in Slots, NEW payload, Handle(t, payload)
          PROVE  FALSE
      BY <3>1, <3>5 DEF Handle, Answer, At
    <3>6. ASSUME NEW t \in Slots, NEW user \in stored, ServeLogin(t, user)
          PROVE  FALSE
      BY <3>1, <3>6 DEF ServeLogin, At
    <3>7. ~Tick
      BY DEF Tick
    <3> QED
      BY <3>2, <3>3, <3>4, <3>5, <3>6, <3>7 DEF Next
  <2>2. request'[s] # Idle => token \in access /\ token.left > 0 /\ request'[s].user = token.user
    BY <2>1 DEF Authenticate, validateToken, Answer, Goto, Arrived, Inv, TypeOK
  <2>3. token \in access => /\ token.left \in Nat /\ sinceProof[token.user] \in Nat
                            /\ token.left + sinceProof[token.user] <= AccessLife
    BY DEF Inv, TypeOK, Token, TokensAge
  <2> QED
    BY <2>2, <2>3, GatewayAssumption
<1> QED
  BY <1>1, Invariance, PTL DEF Spec, AccessEnds
------------------------------------------------------------------------------
(* What a call relies on: it has passed the middlewares and the binding.      *)

CallSound(r) ==
    /\ r.payload \in Payloads(r.op)
    /\ ~Refused(r.op, r.payload)
    /\ IF r.op \in Routes.public THEN r.user = Guest
       ELSE r.user \in Users /\ RoleOf[r.user] \in LetIn(r.op)

RequestSound(r) ==
    /\ r.pc = "auth" => r.op \notin Routes.public
    /\ r.pc \in {"refresh", "handle"} =>
           IF r.op \in Routes.public THEN r.user = Guest ELSE r.user \in Users
    /\ r.pc = "call" => CallSound(r)

SlotsSound == \A s \in Slots : request[s] # Idle => RequestSound(request[s])

LEMMA GotoSound ==
    ASSUME TypeOK, SlotsSound, NEW s \in Slots, NEW r, Goto(s, r), r # Idle => RequestSound(r)
    PROVE  SlotsSound'
<1>1. \A t \in Slots : request'[t] = IF t = s THEN r ELSE request[t]
  BY DEF Goto, TypeOK
<1> QED
  BY <1>1 DEF SlotsSound, RequestSound, CallSound

LEMMA AnswerSound ==
    ASSUME TypeOK, SlotsSound, NEW s \in Slots, Answer(s)
    PROVE  SlotsSound'
BY GotoSound DEF Answer

LEMMA AuthenticateSound ==
    ASSUME Inv, SlotsSound, NEW s \in Slots, NEW token \in access \cup {NoToken},
           Authenticate(s, token)
    PROVE  SlotsSound'
<1>1. TypeOK /\ request[s].op \notin Routes.public
  BY DEF Inv, Authenticate, At, SlotsSound, RequestSound
<1>2. validateToken(token) => token.user \in Users
  BY DEF validateToken, Inv, TypeOK, Token
<1>3. ASSUME validateToken(token), NEW pc \in {"handle", "refresh"}
      PROVE  RequestSound(Arrived(request[s].op, token.user, pc))
  BY <1>1, <1>2, <1>3 DEF RequestSound, Arrived
<1> QED
  BY <1>1, <1>3, GotoSound, AnswerSound DEF Authenticate

LEMMA RefreshSound ==
    ASSUME Inv, SlotsSound, NEW s \in Slots, Refresh(s)
    PROVE  SlotsSound'
<1> DEFINE r == [request[s] EXCEPT !.pc = "handle"]
<1>1. TypeOK /\ request[s] \in Request /\ request[s].pc = "refresh" /\ RequestSound(request[s])
  BY SlotFields DEF Refresh, Inv, SlotsSound, At
<1>2. PICK op \in Ops, user \in Users \cup {Guest} : request[s] = Arrived(op, user, "refresh")
  BY <1>1, RequestFields
<1>3. r.op = op /\ r.user = user /\ r.pc = "handle"
  BY <1>2 DEF Arrived
<1>4. RequestSound(r)
  BY <1>1, <1>2, <1>3 DEF RequestSound, Arrived
<1> HIDE DEF r
<1>5. Goto(s, r)
  BY DEF Refresh, r
<1> QED
  BY <1>1, <1>4, <1>5, GotoSound

LEMMA HandleSound ==
    ASSUME Inv, SlotsSound, NEW s \in Slots, At(s, "handle"),
           NEW payload \in Payloads(request[s].op), Handle(s, payload)
    PROVE  SlotsSound'
<1> DEFINE r == Called(request[s].op, request[s].user, payload)
<1>1. TypeOK /\ request[s].op \in Ops /\ RequestSound(request[s]) /\ request[s].pc = "handle"
  BY SlotFields DEF Inv, SlotsSound, At
<1>2. CASE Answer(s)
  BY <1>1, <1>2, AnswerSound
<1>3. CASE ~Answer(s)
  <2>1. r.pc = "call" /\ r.op = request[s].op /\ r.user = request[s].user /\ r.payload = payload
    BY DEF Called
  <2>2. request[s].op \notin Routes.public => RoleOf[request[s].user] \in LetIn(request[s].op)
    BY <1>1, GatewayAssumption DEF Handle, RoleOfCaller, RequestSound
  <2> HIDE DEF r
  <2>3. ~Refused(request[s].op, payload)
    BY <1>3 DEF Handle
  <2>4. RequestSound(r)
    BY <1>1, <2>1, <2>2, <2>3 DEF RequestSound, CallSound
  <2>5. Goto(s, r)
    BY <1>3 DEF Handle, r
  <2> QED
    BY <1>1, <2>4, <2>5, GotoSound
<1> QED
  BY <1>2, <1>3

LEMMA NextSound ==
    ASSUME Inv, SlotsSound, [Next]_vars
    PROVE  SlotsSound'
<1>1. TypeOK
  BY DEF Inv
<1>2. ASSUME NEW s \in Slots, NEW op \in Sends[s], Arrive(s, op)
      PROVE  SlotsSound'
  <2>1. RequestSound(Arrived(op, Guest, IF op \in Routes.public THEN "handle" ELSE "auth"))
    BY DEF RequestSound, Arrived
  <2>2. Goto(s, Arrived(op, Guest, IF op \in Routes.public THEN "handle" ELSE "auth"))
    BY <1>2 DEF Arrive
  <2> QED
    BY <1>1, <2>1, <2>2, GotoSound
<1>3. ASSUME NEW s \in Slots, NEW token \in access \cup {NoToken}, Authenticate(s, token)
      PROVE  SlotsSound'
  BY <1>3, AuthenticateSound
<1>4. ASSUME NEW s \in Slots, Refresh(s) PROVE SlotsSound'
  BY <1>4, RefreshSound
<1>5. ASSUME NEW s \in Slots, At(s, "handle"),
             NEW payload \in IF s \in Careful THEN {Good(request[s].op)} ELSE Payloads(request[s].op),
             Handle(s, payload)
      PROVE  SlotsSound'
  <2>1. payload \in Payloads(request[s].op)
    BY DEF Payloads
  <2> QED
    BY <1>5, <2>1, HandleSound
<1>6. ASSUME NEW s \in Slots,
             Handle403(s) \/ ServeOther(s) \/ ServeDeleteUsers(s) \/ IssueToken(s)
      PROVE  SlotsSound'
  BY <1>1, <1>6, AnswerSound DEF Handle403, ServeOther, ServeDeleteUsers, IssueToken
<1>7. ASSUME NEW s \in Slots, NEW user \in stored, ServeLogin(s, user) PROVE SlotsSound'
  <2>1. RequestSound(Arrived("Login", user, "issue"))
    BY DEF RequestSound, Arrived
  <2> QED
    BY <1>1, <1>7, <2>1, GotoSound DEF ServeLogin
<1>8. CASE Tick \/ UNCHANGED vars
  BY <1>8 DEF Tick, vars, SlotsSound, RequestSound, CallSound
<1> QED
  BY <1>2, <1>3, <1>4, <1>5, <1>6, <1>7, <1>8 DEF Next

LEMMA SlotsSoundHolds == Spec => [](TypeOK /\ SlotsSound)
<1>1. Init => SlotsSound
  BY DEF Init, SlotsSound
<1>2. Inv => TypeOK
  BY DEF Inv
<1> QED
  BY <1>1, <1>2, NextSound, Invariance, PTL DEF Spec

(* So every call in progress is sound. *)
LEMMA CallsAreSound ==
    ASSUME TypeOK, SlotsSound, NEW r \in Calls
    PROVE  r.op \in Ops /\ CallSound(r)
BY SlotFields DEF Calls, At, SlotsSound, RequestSound

------------------------------------------------------------------------------
(* What the tables say of an operation, layer against layer.                  *)

\* The roles a route lets in are among those the service asks for, and where the
\* role is not sent the service does without.
RolesFit(op) ==
    /\ Handlers[op].forwards => op \notin Routes.public /\ LetIn(op) \subseteq Checks[op].roles
    /\ ~Handlers[op].forwards => "none" \in Checks[op].roles /\ ~Checks[op].asserts

\* A field that does not get past the binding when it is missing, unless the
\* handler ignores what the binding says of it.
Bound(op, field) ==
    /\ field \in DOMAIN DTOs[op]
    /\ field \in Handlers[op].ignores => DTOs[op][field] = "pathbody"
    /\ \/ "absent" \notin Sendable(DTOs[op][field])
       \/ "absent" \in Rejected(DTOs[op][field])
       \/ field \in Handlers[op].needs

\* What the message carries is there to be taken, and what the service demands
\* of it is the caller or was bound.
FieldsFit(op) ==
    /\ \A f \in DOMAIN Messages[op] : Messages[op][f] \in {"caller"} \cup DOMAIN DTOs[op]
    /\ Checks[op].demands \cup Checks[op].positive \subseteq DOMAIN Messages[op]
    /\ \A f \in Checks[op].demands : Messages[op][f] = "caller" \/ Bound(op, Messages[op][f])

\* What a service may answer once it has accepted a message.
Undenied == {"OK", "AlreadyExists", "NotFound", "FailedPrecondition", "Internal", "Unknown"}

\* The service denies nothing it has accepted, and a good message may succeed.
OutcomesFit(op) ==
    \A message :
        /\ Outcomes(op, message) \subseteq Undenied
        /\ /\ DOMAIN message = DOMAIN Messages[op]
           /\ \A f \in DOMAIN message : message[f] = "good"
           => "OK" \in Outcomes(op, message)

TablesFit(op) ==
    /\ RolesFit(op) /\ FieldsFit(op)
    /\ op # "Login" => OutcomesFit(op)
    /\ Handlers[op].ok \in {200, 201, 204}

\* The operations as the tables are divided.
AccountOps      == {"Register", "Login", "GetProfile", "UpdateProfile"}
AdminUserOps    == {"UpdateVIPAccount", "ListUsers", "DeleteUsers"}
PublicBookOps   == {"GetBook", "ListBooks"}
ManagedBookOps  == {"CreateBooks", "UpdateBook", "DeleteBook", "CheckBookAvailability",
                    "UpdateBookQuantity"}
OrderOps        == {"CreateOrder", "GetOrder", "ListMyOrders", "CancelOrder"}
ManagedOrderOps == {"ListAllOrders", "UpdateOrderStatus"}

LEMMA OpsDivided ==
    Ops = AccountOps \cup AdminUserOps \cup PublicBookOps \cup ManagedBookOps
          \cup OrderOps \cup ManagedOrderOps
BY DEF Ops, Routes, AccountOps, AdminUserOps, PublicBookOps, ManagedBookOps, OrderOps, ManagedOrderOps

LEMMA TableDomains ==
    /\ DOMAIN UserDTOs = AccountOps \cup AdminUserOps
    /\ DOMAIN UserMessages = AccountOps \cup AdminUserOps
    /\ DOMAIN UserHandlers = AccountOps /\ DOMAIN AdminUserHandlers = AdminUserOps
    /\ DOMAIN UserChecks = AccountOps /\ DOMAIN AdminUserChecks = AdminUserOps
    /\ DOMAIN BookDTOs = PublicBookOps \cup ManagedBookOps
    /\ DOMAIN BookMessages = PublicBookOps \cup ManagedBookOps
    /\ DOMAIN PublicBookHandlers = PublicBookOps /\ DOMAIN ManagedBookHandlers = ManagedBookOps
    /\ DOMAIN PublicBookChecks = PublicBookOps /\ DOMAIN ManagedBookChecks = ManagedBookOps
    /\ DOMAIN OrderDTOs = OrderOps \cup ManagedOrderOps
    /\ DOMAIN OrderMessages = OrderOps \cup ManagedOrderOps
    /\ DOMAIN OrderHandlers = OrderOps /\ DOMAIN ManagedOrderHandlers = ManagedOrderOps
    /\ DOMAIN OrderChecks = OrderOps \cup ManagedOrderOps
BY DEF UserDTOs, UserMessages, UserHandlers, AdminUserHandlers, UserChecks,
   AdminUserChecks, BookDTOs, BookMessages, PublicBookHandlers, ManagedBookHandlers,
   PublicBookChecks, ManagedBookChecks, OrderDTOs, OrderMessages, OrderHandlers,
   ManagedOrderHandlers, OrderChecks, AccountOps, AdminUserOps, PublicBookOps, ManagedBookOps,
   OrderOps, ManagedOrderOps

LEMMA GroupsDisjoint ==
    /\ (AccountOps \cup AdminUserOps) \cap (PublicBookOps \cup ManagedBookOps) = {}
    /\ (AccountOps \cup AdminUserOps) \cap (OrderOps \cup ManagedOrderOps) = {}
    /\ (PublicBookOps \cup ManagedBookOps) \cap (OrderOps \cup ManagedOrderOps) = {}
    /\ AccountOps \cap AdminUserOps = {} /\ PublicBookOps \cap ManagedBookOps = {}
    /\ OrderOps \cap ManagedOrderOps = {}
BY DEF AccountOps, AdminUserOps, PublicBookOps, ManagedBookOps, OrderOps, ManagedOrderOps

(* The rows of the joined tables. *)
LEMMA UserRows ==
    ASSUME NEW op \in AccountOps \cup AdminUserOps
    PROVE  /\ DTOs[op] = UserDTOs[op]
           /\ Messages[op] = UserMessages[op]
           /\ Handlers[op] = IF op \in AccountOps THEN UserHandlers[op] ELSE AdminUserHandlers[op]
           /\ Checks[op] = IF op \in AccountOps THEN UserChecks[op] ELSE AdminUserChecks[op]
<1>1. DTOs[op] = UserDTOs[op]
  BY TableDomains DEF DTOs, ++
<1>2. Messages[op] = UserMessages[op]
  BY TableDomains DEF Messages, ++
<1>3. Handlers[op] = IF op \in AccountOps THEN UserHandlers[op] ELSE AdminUserHandlers[op]
  BY TableDomains, GroupsDisjoint DEF Handlers, ++
<1>4. Checks[op] = IF op \in AccountOps THEN UserChecks[op] ELSE AdminUserChecks[op]
  BY TableDomains, GroupsDisjoint DEF Checks, ++
<1> QED
  BY <1>1, <1>2, <1>3, <1>4

LEMMA BookRows ==
    ASSUME NEW op \in PublicBookOps \cup ManagedBookOps
    PROVE  /\ DTOs[op] = BookDTOs[op]
           /\ Messages[op] = BookMessages[op]
           /\ Handlers[op] = IF op \in PublicBookOps THEN PublicBookHandlers[op]
                             ELSE ManagedBookHandlers[op]
           /\ Checks[op] = IF op \in PublicBookOps THEN PublicBookChecks[op]
                           ELSE ManagedBookChecks[op]
<1>1. DTOs[op] = BookDTOs[op]
  BY TableDomains, GroupsDisjoint DEF DTOs, ++
<1>2. Messages[op] = BookMessages[op]
  BY TableDomains, GroupsDisjoint DEF Messages, ++
<1>3. Handlers[op] = IF op \in PublicBookOps THEN PublicBookHandlers[op] ELSE ManagedBookHandlers[op]
  BY TableDomains, GroupsDisjoint DEF Handlers, ++
<1>4. Checks[op] = IF op \in PublicBookOps THEN PublicBookChecks[op] ELSE ManagedBookChecks[op]
  BY TableDomains, GroupsDisjoint DEF Checks, ++
<1> QED
  BY <1>1, <1>2, <1>3, <1>4

LEMMA OrderRows ==
    ASSUME NEW op \in OrderOps \cup ManagedOrderOps
    PROVE  /\ DTOs[op] = OrderDTOs[op]
           /\ Messages[op] = OrderMessages[op]
           /\ Handlers[op] = IF op \in OrderOps THEN OrderHandlers[op] ELSE ManagedOrderHandlers[op]
           /\ Checks[op] = OrderChecks[op]
<1>1. DTOs[op] = OrderDTOs[op]
  BY TableDomains, GroupsDisjoint DEF DTOs, ++
<1>2. Messages[op] = OrderMessages[op]
  BY TableDomains, GroupsDisjoint DEF Messages, ++
<1>3. Handlers[op] = IF op \in OrderOps THEN OrderHandlers[op] ELSE ManagedOrderHandlers[op]
  BY TableDomains, GroupsDisjoint DEF Handlers, ++
<1>4. Checks[op] = OrderChecks[op]
  BY TableDomains, GroupsDisjoint DEF Checks, ++
<1> QED
  BY <1>1, <1>2, <1>3, <1>4

(* What the services can answer. *)
LEMMA OutcomesByService ==
    ASSUME NEW message
    PROVE  /\ \A op \in AccountOps \cup AdminUserOps : Outcomes(op, message) = UserOutcomes(op, message)
           /\ \A op \in PublicBookOps \cup ManagedBookOps : Outcomes(op, message) = BookOutcomes(op, message)
           /\ \A op \in OrderOps \cup ManagedOrderOps : Outcomes(op, message) = OrderOutcomes(op, message)
<1>1. /\ UserServiceClient = AccountOps \cup AdminUserOps
      /\ BookServiceClient = PublicBookOps \cup ManagedBookOps
      /\ OrderServiceClient = OrderOps \cup ManagedOrderOps
  BY TableDomains DEF UserServiceClient, BookServiceClient, OrderServiceClient
<1> QED
  BY <1>1, GroupsDisjoint DEF Outcomes

LEMMA AnswersDenyNothing ==
    ASSUME NEW message
    PROVE  /\ \A op \in (AccountOps \cup AdminUserOps) \ {"Login"} : UserOutcomes(op, message) \subseteq Undenied
           /\ \A op \in PublicBookOps \cup ManagedBookOps : BookOutcomes(op, message) \subseteq Undenied
           /\ \A op \in OrderOps \cup ManagedOrderOps : OrderOutcomes(op, message) \subseteq Undenied
<1>1. \A op \in (AccountOps \cup AdminUserOps) \ {"Login"} : UserOutcomes(op, message) \subseteq Undenied
  BY DEF UserOutcomes, AccountOps, AdminUserOps, Undenied
<1>2. \A op \in PublicBookOps \cup ManagedBookOps : BookOutcomes(op, message) \subseteq Undenied
  BY DEF BookOutcomes, PublicBookOps, ManagedBookOps, Undenied
<1>3. \A op \in OrderOps \cup ManagedOrderOps : OrderOutcomes(op, message) \subseteq Undenied
  BY DEF OrderOutcomes, OrderOps, ManagedOrderOps, Undenied
<1> QED
  BY <1>1, <1>2, <1>3

LEMMA GoodMessagesMayDo ==
    ASSUME NEW message, \A f \in DOMAIN message : message[f] = "good"
    PROVE  /\ \A op \in (AccountOps \cup AdminUserOps) \ {"Login"} :
                 DOMAIN message = DOMAIN UserMessages[op] => "OK" \in UserOutcomes(op, message)
           /\ \A op \in PublicBookOps \cup ManagedBookOps : "OK" \in BookOutcomes(op, message)
           /\ \A op \in OrderOps \cup ManagedOrderOps :
                 DOMAIN message = DOMAIN OrderMessages[op] => "OK" \in OrderOutcomes(op, message)
<1>1. ~SortFails(message)
  BY DEF SortFails
<1>2. ASSUME NEW op \in (AccountOps \cup AdminUserOps) \ {"Login"},
             DOMAIN message = DOMAIN UserMessages[op]
      PROVE  "OK" \in UserOutcomes(op, message)
  <2>1. /\ op = "UpdateVIPAccount" => message.id = "good"
        /\ op = "DeleteUsers" => message.ids = "good"
    BY <1>2 DEF UserMessages
  <2> QED
    BY <1>1, <2>1 DEF UserOutcomes, AccountOps, AdminUserOps
<1>3. \A op \in PublicBookOps \cup ManagedBookOps : "OK" \in BookOutcomes(op, message)
  BY <1>1 DEF BookOutcomes, PublicBookOps, ManagedBookOps
<1>4. ASSUME NEW op \in OrderOps \cup ManagedOrderOps,
             DOMAIN message = DOMAIN OrderMessages[op]
      PROVE  "OK" \in OrderOutcomes(op, message)
  <2>1. /\ op = "CreateOrder" => message.book_ids = "good"
        /\ op \in {"GetOrder", "UpdateOrderStatus", "CancelOrder"} => message.order_id = "good"
        /\ op = "ListAllOrders" => message.search_user_id = "good"
    BY <1>4 DEF OrderMessages
  <2> QED
    BY <1>1, <2>1 DEF OrderOutcomes, OrderOps, ManagedOrderOps
<1> QED
  BY <1>2, <1>3, <1>4

LEMMA AllOutcomesFit == \A op \in Ops \ {"Login"} : OutcomesFit(op)
<1> SUFFICES ASSUME NEW op \in Ops \ {"Login"}, NEW message
             PROVE  /\ Outcomes(op, message) \subseteq Undenied
                    /\ /\ DOMAIN message = DOMAIN Messages[op]
                       /\ \A f \in DOMAIN message : message[f] = "good"
                       => "OK" \in Outcomes(op, message)
  BY DEF OutcomesFit
<1>1. CASE op \in AccountOps \cup AdminUserOps
  <2>1. Outcomes(op, message) = UserOutcomes(op, message)
    BY <1>1, OutcomesByService
  <2>2. UserOutcomes(op, message) \subseteq Undenied
    BY <1>1, AnswersDenyNothing
  <2>3. Messages[op] = UserMessages[op]
    BY <1>1, UserRows
  <2> QED
    BY <1>1, <2>1, <2>2, <2>3, GoodMessagesMayDo
<1>2. CASE op \in PublicBookOps \cup ManagedBookOps
  BY <1>2, OutcomesByService, AnswersDenyNothing, GoodMessagesMayDo
<1>3. CASE op \in OrderOps \cup ManagedOrderOps
  <2>1. Outcomes(op, message) = OrderOutcomes(op, message)
    BY <1>3, OutcomesByService
  <2>2. OrderOutcomes(op, message) \subseteq Undenied
    BY <1>3, AnswersDenyNothing
  <2>3. Messages[op] = OrderMessages[op]
    BY <1>3, OrderRows
  <2> QED
    BY <1>3, <2>1, <2>2, <2>3, GoodMessagesMayDo
<1> QED
  BY <1>1, <1>2, <1>3, OpsDivided

(* The handlers that forward the role, and what the services ask of them. *)
LEMMA AdminUserHandlerRows ==
    \A op \in AdminUserOps : /\ AdminUserHandlers[op].forwards = TRUE
                             /\ AdminUserHandlers[op].ignores = {}
                             /\ AdminUserHandlers[op].ok \in {200, 204}
BY DEF AdminUserHandlers, Forwarding, Plain, AdminUserOps

LEMMA ManagedBookHandlerRows ==
    \A op \in ManagedBookOps : /\ ManagedBookHandlers[op].forwards = TRUE
                               /\ ManagedBookHandlers[op].ignores = {}
                               /\ ManagedBookHandlers[op].ok \in {200, 201, 204}
<1> SUFFICES ASSUME NEW op \in ManagedBookOps
             PROVE  /\ ManagedBookHandlers[op].forwards = TRUE
                    /\ ManagedBookHandlers[op].ignores = {}
                    /\ ManagedBookHandlers[op].ok \in {200, 201, 204}
  OBVIOUS
<1>1. CASE op = "UpdateBookQuantity"
  BY <1>1 DEF ManagedBookHandlers, Forwarding, Plain
<1>2. CASE op # "UpdateBookQuantity"
  BY <1>2 DEF ManagedBookHandlers, Forwarding, Plain, ManagedBookOps
<1> QED
  BY <1>1, <1>2

LEMMA AdminUserCheckRows ==
    /\ AdminUserChecks["UpdateVIPAccount"] =
          [roles |-> {"ADMIN"}, asserts |-> TRUE, demands |-> {"id"}, positive |-> {}]
    /\ AdminUserChecks["ListUsers"] =
          [roles |-> {"ADMIN", "MANAGER"}, asserts |-> TRUE, demands |-> {}, positive |-> {}]
    /\ AdminUserChecks["DeleteUsers"] =
          [roles |-> {"ADMIN"}, asserts |-> TRUE, demands |-> {"ids"}, positive |-> {}]
BY DEF AdminUserChecks, Check

LEMMA ManagedBookCheckRows ==
    /\ ManagedBookChecks["CreateBooks"] =
          [roles |-> {"ADMIN", "MANAGER"}, asserts |-> FALSE, demands |-> {"books"}, positive |-> {}]
    /\ ManagedBookChecks["UpdateBook"] =
          [roles |-> {"ADMIN", "MANAGER"}, asserts |-> FALSE, demands |-> {"id"}, positive |-> {}]
    /\ ManagedBookChecks["DeleteBook"] =
          [roles |-> {"ADMIN", "MANAGER"}, asserts |-> FALSE, demands |-> {"ids"}, positive |-> {}]
    /\ ManagedBookChecks["CheckBookAvailability"] =
          [roles |-> {"ADMIN", "MANAGER", "SYSTEM"}, asserts |-> FALSE,
           demands |-> {"book_id"}, positive |-> {}]
    /\ ManagedBookChecks["UpdateBookQuantity"] =
          [roles |-> {"ADMIN", "MANAGER", "SYSTEM"}, asserts |-> FALSE,
           demands |-> {"book_id"}, positive |-> {}]
BY DEF ManagedBookChecks, Check

(* The operations group by group, table by table. *)
LEMMA AccountsFit == \A op \in AccountOps : TablesFit(op)
<1> SUFFICES ASSUME NEW op \in AccountOps PROVE TablesFit(op)
  OBVIOUS
<1>1. RolesFit(op) /\ Handlers[op].ok \in {200, 201, 204}
  BY UserRows DEF RolesFit, UserHandlers, Plain, UserChecks, Check, AccountOps
<1>2. FieldsFit(op)
  BY UserRows DEF FieldsFit, Bound, Sendable, Rejected, UserHandlers, Plain, UserChecks, Check,
     UserDTOs, UserMessages, Values, None, AccountOps
<1> QED
  BY <1>1, <1>2, OpsDivided, AllOutcomesFit DEF TablesFit

LEMMA AdminUsersFit == \A op \in AdminUserOps : TablesFit(op)
<1> SUFFICES ASSUME NEW op \in AdminUserOps PROVE TablesFit(op)
  OBVIOUS
<1>1. op \notin AccountOps
  BY GroupsDisjoint
<1>2. Handlers[op].forwards = TRUE /\ Handlers[op].ok \in {200, 201, 204}
  BY <1>1, UserRows, AdminUserHandlerRows
<1>3. RolesFit(op)
  <2>1. op \notin Routes.public
    BY DEF Routes, AdminUserOps
  <2>2. LetIn(op) = IF op = "ListUsers" THEN {"ADMIN", "MANAGER"} ELSE {"ADMIN"}
    BY DEF LetIn, Routes, RequireAdmin, RequireAdminOrManager, AdminUserOps
  <2>3. LetIn(op) \subseteq Checks[op].roles
    BY <1>1, <2>2, AdminUserCheckRows, UserRows DEF AdminUserOps
  <2> QED
    BY <1>2, <2>1, <2>3 DEF RolesFit
<1>4. FieldsFit(op)
  BY <1>1, UserRows, AdminUserHandlerRows, AdminUserCheckRows
  DEF FieldsFit, Bound, Sendable, Rejected, UserDTOs, UserMessages, AdminUserOps
<1> QED
  BY <1>2, <1>3, <1>4, OpsDivided, AllOutcomesFit DEF TablesFit

LEMMA PublicBooksFit == \A op \in PublicBookOps : TablesFit(op)
<1> SUFFICES ASSUME NEW op \in PublicBookOps PROVE TablesFit(op)
  OBVIOUS
<1>1. RolesFit(op) /\ Handlers[op].ok \in {200, 201, 204}
  BY BookRows DEF RolesFit, PublicBookHandlers, Plain, PublicBookChecks, Check, PublicBookOps
<1>2. FieldsFit(op)
  BY BookRows DEF FieldsFit, Bound, Sendable, Rejected, PublicBookHandlers, Plain,
     PublicBookChecks, Check, BookDTOs, BookMessages, PublicBookOps
<1> QED
  BY <1>1, <1>2, OpsDivided, AllOutcomesFit DEF TablesFit, PublicBookOps

LEMMA ManagedBooksFit == \A op \in ManagedBookOps : TablesFit(op)
<1> SUFFICES ASSUME NEW op \in ManagedBookOps PROVE TablesFit(op)
  OBVIOUS
<1>1. op \notin PublicBookOps
  BY GroupsDisjoint
<1>2. Handlers[op].forwards = TRUE /\ Handlers[op].ok \in {200, 201, 204}
  BY <1>1, BookRows, ManagedBookHandlerRows
<1>3. RolesFit(op)
  <2>1. op \notin Routes.public
    BY DEF Routes, ManagedBookOps
  <2>2. LetIn(op) = {"ADMIN", "MANAGER"}
    BY DEF LetIn, Routes, RequireAdminOrManager, ManagedBookOps
  <2>3. LetIn(op) \subseteq Checks[op].roles
    BY <1>1, <2>2, ManagedBookCheckRows, BookRows DEF ManagedBookOps
  <2> QED
    BY <1>2, <2>1, <2>3 DEF RolesFit
<1>4. FieldsFit(op)
  BY <1>1, BookRows, ManagedBookHandlerRows, ManagedBookCheckRows
  DEF FieldsFit, Bound, Sendable, Rejected, BookDTOs, BookMessages, ManagedBookOps
<1> QED
  BY <1>2, <1>3, <1>4, OpsDivided, AllOutcomesFit DEF TablesFit, ManagedBookOps

LEMMA OrdersFit == \A op \in OrderOps \cup ManagedOrderOps : TablesFit(op)
<1> SUFFICES ASSUME NEW op \in OrderOps \cup ManagedOrderOps PROVE TablesFit(op)
  OBVIOUS
<1>1. RolesFit(op) /\ Handlers[op].ok \in {200, 201, 204}
  BY OrderRows DEF RolesFit, OrderHandlers, ManagedOrderHandlers, Plain, Forwarding,
     OrderChecks, Check, LetIn, Routes, RequireAdmin,
     RequireAdminOrManager, Roles, OrderOps, ManagedOrderOps
<1>2. FieldsFit(op)
  BY OrderRows DEF FieldsFit, Bound, Sendable, Rejected, OrderHandlers, ManagedOrderHandlers,
     Plain, Forwarding, OrderChecks, Check, OrderDTOs, OrderMessages,
     Values, None, OrderOps, ManagedOrderOps
<1> QED
  BY <1>1, <1>2, OpsDivided, AllOutcomesFit DEF TablesFit, OrderOps, ManagedOrderOps

LEMMA AllTablesFit == \A op \in Ops : TablesFit(op)
BY OpsDivided, AccountsFit, AdminUsersFit, PublicBooksFit, ManagedBooksFit, OrdersFit

(* The fields of a payload are those of its DTO. *)
LEMMA PayloadFields ==
    ASSUME NEW op, NEW payload \in Payloads(op)
    PROVE  /\ DOMAIN payload = DOMAIN DTOs[op]
           /\ \A f \in DOMAIN payload : payload[f] \in Sendable(DTOs[op][f])
<1>1. \A rule : "good" \in Sendable(rule)
  BY DEF Sendable, Values
<1>2. CASE payload = Good(op)
  BY <1>1, <1>2 DEF Good
<1>3. ASSUME NEW f \in DOMAIN DTOs[op], NEW v \in Sendable(DTOs[op][f]),
             payload = [Good(op) EXCEPT ![f] = v]
      PROVE  /\ DOMAIN payload = DOMAIN DTOs[op]
             /\ \A g \in DOMAIN payload : payload[g] \in Sendable(DTOs[op][g])
  BY <1>1, <1>3 DEF Good
<1> QED
  BY <1>2, <1>3 DEF Payloads

(* The role the service sees is one it accepts. *)
LEMMA RoleAccepted ==
    ASSUME NEW r, r.op \in Ops, CallSound(r)
    PROVE  /\ ForwardedRole(r) \in Checks[r.op].roles
           /\ Checks[r.op].asserts => ForwardedRole(r) # "none"
<1>1. RolesFit(r.op)
  BY AllTablesFit DEF TablesFit
<1>2. CASE Handlers[r.op].forwards
  <2>1. r.user \in Users /\ RoleOf[r.user] \in LetIn(r.op)
    BY <1>1, <1>2 DEF RolesFit, CallSound
  <2>2. ForwardedRole(r) = RoleOf[r.user]
    BY <1>2, <2>1, GatewayAssumption DEF ForwardedRole, RoleOfCaller
  <2>3. RoleOf[r.user] # "none"
    BY <2>1, GatewayAssumption DEF Roles
  <2> QED
    BY <1>1, <1>2, <2>1, <2>2, <2>3 DEF RolesFit
<1>3. CASE ~Handlers[r.op].forwards
  BY <1>1, <1>3 DEF RolesFit, ForwardedRole
<1> QED
  BY <1>2, <1>3

LEMMA CodesOfCall ==
    ASSUME NEW r, r.op \in Ops, CallSound(r)
    PROVE  Codes(r) = {"Unavailable"} \cup
                      (IF Incomplete(r.op, Message(r.op, r.payload)) THEN {"InvalidArgument"}
                       ELSE Accepted(r))
BY RoleAccepted DEF Codes

LEMMA NothingAcceptedIsDenied ==
    ASSUME NEW r, r.op \in Ops
    PROVE  Accepted(r) \cap {"PermissionDenied", "InvalidArgument"} = {}
<1>1. CASE r.op = "Login"
  BY <1>1 DEF Accepted
<1>2. CASE r.op # "Login"
  BY <1>2, AllTablesFit DEF TablesFit, OutcomesFit, Undenied, Accepted
<1> QED
  BY <1>1, <1>2

------------------------------------------------------------------------------
(* For any accounts and any number of requests in progress, a call that the   *)
(* gateway lets through is never denied by the service.                       *)
THEOREM RolesDoAgree == Spec => []RolesAgree
<1>1. ASSUME TypeOK, SlotsSound PROVE RolesAgree
  <2> SUFFICES ASSUME NEW r \in Calls, NEW code \in Codes(r) PROVE Status(r.op, code) # 403
    BY DEF RolesAgree, Statuses
  <2>1. r.op \in Ops /\ CallSound(r)
    BY <1>1, CallsAreSound
  <2>2. code # "PermissionDenied"
    BY <2>1, CodesOfCall, NothingAcceptedIsDenied
  <2>3. Handlers[r.op].ok # 403
    BY <2>1, AllTablesFit DEF TablesFit
  <2> QED
    BY <2>2, <2>3 DEF Status, FromGRPCError
<1> QED
  BY <1>1, SlotsSoundHolds, PTL

(* A well-formed request of a caller who is let in can succeed.               *)
THEOREM GoodRequestsCanSucceed == Spec => []RequestsCanSucceed
<1>1. ASSUME TypeOK, SlotsSound PROVE RequestsCanSucceed
  <2> SUFFICES ASSUME NEW r \in Calls, r.payload = Good(r.op), stored # {},
                      r.user \in stored \cup {Guest}
               PROVE  Handlers[r.op].ok \in Statuses(r)
    BY DEF RequestsCanSucceed
  <2> DEFINE message == Message(r.op, r.payload)
  <2>1. r.op \in Ops /\ CallSound(r)
    BY <1>1, CallsAreSound
  <2>2. FieldsFit(r.op)
    BY <2>1, AllTablesFit DEF TablesFit
  <2>3. /\ DOMAIN message = DOMAIN Messages[r.op]
        /\ \A f \in DOMAIN message : message[f] = "good"
    BY <2>2 DEF FieldsFit, Message, Mapped, Good, toPbRole, toPbOrderStatus
  <2> HIDE DEF message
  <2>4. ~Incomplete(r.op, message)
    BY <2>2, <2>3 DEF FieldsFit, Incomplete
  <2>5. "OK" \in Accepted(r)
    <3>1. CASE r.op = "Login"
      BY <3>1 DEF Accepted
    <3>2. CASE r.op # "Login"
      <4>1. "OK" \in Outcomes(r.op, message)
        BY <2>1, <2>3, <3>2, AllTablesFit DEF TablesFit, OutcomesFit
      <4>2. r.op \in {"GetProfile", "UpdateProfile"} => r.user \in stored
        BY <2>1, GatewayAssumption DEF CallSound, Routes
      <4> QED
        BY <3>2, <4>1, <4>2 DEF Accepted, message
    <3> QED
      BY <3>1, <3>2
  <2>6. "OK" \in Codes(r)
    BY <2>1, <2>4, <2>5, CodesOfCall DEF message
  <2> QED
    BY <2>6 DEF Statuses, Status
<1> QED
  BY <1>1, SlotsSoundHolds, PTL

(* What a service misses was sent all the same, empty or without a meaning.   *)
THEOREM OnlyEmptyOrOddIsRefused == Spec => []NothingMissingGetsThrough
<1>1. ASSUME TypeOK, SlotsSound PROVE NothingMissingGetsThrough
  <2> SUFFICES ASSUME NEW r \in Calls, "InvalidArgument" \in Codes(r)
               PROVE  \E f \in DOMAIN r.payload :
                         \/ r.payload[f] \in {"empty", "odd"}
                         \/ r.payload[f] = "absent" /\ f \in Handlers[r.op].ignores
    BY DEF NothingMissingGetsThrough
  <2> DEFINE op == r.op
             payload == r.payload
  <2>1. op \in Ops /\ CallSound(r)
    BY <1>1, CallsAreSound
  <2>2. Incomplete(op, Message(op, payload))
    BY <2>1, CodesOfCall, NothingAcceptedIsDenied
  <2>3. FieldsFit(op)
    BY <2>1, AllTablesFit DEF TablesFit
  <2>4. /\ DOMAIN payload = DOMAIN DTOs[op]
        /\ \A f \in DOMAIN payload : payload[f] \in Sendable(DTOs[op][f])
    BY <2>1, PayloadFields DEF CallSound
  <2> HIDE DEF op, payload
  <2>5. ASSUME NEW f \in Checks[op].demands, Mapped(op, payload, f) \in {"absent", "empty"}
        PROVE  \E g \in DOMAIN payload : \/ payload[g] \in {"empty", "odd"}
                                         \/ payload[g] = "absent" /\ g \in Handlers[op].ignores
    <3> DEFINE from == Messages[op][f]
    <3>1. from # "caller"
      BY <2>5 DEF Mapped, toPbRole, toPbOrderStatus
    <3>2. Bound(op, from)
      BY <2>3, <3>1 DEF FieldsFit
    <3>3. payload[from] = "absent" => from \in Handlers[op].ignores
      BY <2>1, <2>4, <3>2 DEF Bound, CallSound, Refused, op, payload
    <3>4. from \in DOMAIN payload
      BY <2>4, <3>2 DEF Bound
    <3>5. from \in Handlers[op].ignores /\ payload[from] = "broken" => DTOs[op][from] = "pathbody"
      BY <3>2 DEF Bound
    <3> HIDE DEF from
    <3>6. payload[from] \in {"absent", "empty", "odd"}
      BY <2>5, <3>1, <3>4, <3>5 DEF Mapped, toPbRole, toPbOrderStatus, from
    <3> QED
      BY <3>3, <3>4, <3>6
  <2>6. ASSUME NEW f \in Checks[op].positive, Mapped(op, payload, f) = "odd"
        PROVE  \E g \in DOMAIN payload : \/ payload[g] \in {"empty", "odd"}
                                         \/ payload[g] = "absent" /\ g \in Handlers[op].ignores
    <3> DEFINE from == Messages[op][f]
    <3>1. from \in DOMAIN payload /\ payload[from] = "odd"
      BY <2>6 DEF Mapped, toPbRole, toPbOrderStatus
    <3> QED
      BY <3>1
  <2>7. Checks[op].demands \cup Checks[op].positive \subseteq DOMAIN Messages[op]
    BY <2>3 DEF FieldsFit
  <2> QED
    BY <2>2, <2>5, <2>6, <2>7 DEF Incomplete, Message, op, payload
<1> QED
  BY <1>1, SlotsSoundHolds, PTL
=============================================================================
