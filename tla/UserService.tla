----------------------------- MODULE UserService -----------------------------
(***************************************************************************)
(* The user-service: the tables "users" and "user_tokens", the gRPC        *)
(* handlers that change them, and the start of a replica, which creates    *)
(* the default accounts and gives up when it cannot.                       *)
(*                                                                         *)
(* A handler is cut at its SQL statements.  None of them runs in a         *)
(* transaction with another, so what a handler has read may be old by the  *)
(* time it writes.  Passwords, phone numbers and is_active (TRUE for every *)
(* account, no code changes it) are left out.                              *)
(***************************************************************************)
EXTENDS Integers, Sequences, FiniteSets

CONSTANTS
    Names, Emails,
    MaxUsers,    \* bound: accounts ever created
    MaxTokens,   \* bound: refresh tokens ever handed out
    Registrations, Profiles,  \* what Register and UpdateProfile are asked for
    Seeds,       \* the default accounts, in the order of seed.go
    MaxHandlers, \* bound: request handlers that run at the same time
    Replicas,
    JwtExpMins,  \* the configured JWT_EXP_MINS, a duration of so many minutes
    MaxRequests, \* bound: requests, and restarts of a replica, in all
    NoUser,      \* no row with this id
    Keep,        \* an empty field of an UpdateProfile request
    Idle         \* a handler that is not running

\* A uuid is as good as the next number.
UserIds  == 1..MaxUsers
Handlers == 1..MaxHandlers

Roles == {"REGISTERED_USER", "MANAGER", "ADMIN"}

Row == [name: Names, email: Emails, role: Roles, vip: BOOLEAN]

\* A handler in the middle of its work; pc is the statement it will send next:
\*   name, email - FindByUsername, FindByEmail      write - Create or Save
\*   user        - FindByID of RefreshToken         store - StoreRefreshToken
Registering == [op: {"register"}, pc: {"email", "write"}, form: Registrations]
Editing     == [op: {"edit"}, pc: {"name", "email", "write"}, form: Profiles,
                id: UserIds, seen: Row]
Issuing     == [op: {"login", "refresh"}, pc: {"user", "store"}, id: UserIds]
Handling    == Registering \cup Editing \cup Issuing

\* A replica: down, seeding account number next (found missing or not yet
\* looked for), or serving.
Replica == [state: {"down", "up"}] \cup
           [state: {"find", "create"}, next: DOMAIN Seeds]

ASSUME UserServiceAssumption ==
    /\ Registrations \subseteq [name: Names, email: Emails]
    /\ Profiles \subseteq [name: Names \cup {Keep}, email: Emails \cup {Keep}]
    /\ Seeds \in Seq([name: Names, email: Emails, role: Roles])
    /\ Len(Seeds) > 0
    /\ JwtExpMins \in Nat
    /\ MaxRequests \in Nat
    /\ NoUser \notin Row \cup Roles
    /\ MaxUsers \in Nat
    /\ MaxHandlers \in Nat
    /\ MaxTokens \in Nat
    /\ Keep \notin Names \cup Emails
    /\ Idle \notin Handling

VARIABLES
    users,       \* the table users
    tokens,      \* the table user_tokens: whose each token is, the oldest first
    handler,     \* what each handler is doing
    replica,     \* what each replica is doing
    born,        \* history: the role each account was created with
    decided,     \* history: the last VIP decision about each account
    gone,        \* history: accounts that were deleted
    overlapped,  \* history: accounts written while another handler held a copy
    requests     \* how many of them there were

vars == <<users, tokens, handler, replica, born, decided, gone, overlapped, requests>>
history == <<born, decided, gone, overlapped>>

------------------------------------------------------------------------------
(* The life of a refresh token.                                            *)

\* Numbers modulo 2^42, as three digits to the base 2^14: the product of two
\* durations does not fit the integers of the model checker.
Base == 16384

TimesMod(a, b) ==
    LET c0 == a[1] * b[1]
        c1 == a[1] * b[2] + a[2] * b[1] + c0 \div Base
        c2 == a[1] * b[3] + a[2] * b[2] + a[3] * b[1] + c1 \div Base
    IN  <<c0 % Base, c1 % Base, c2 % Base>>

\* time.Minute is 2^11 times this many nanoseconds.
OddMinute == <<29296875 % Base, 29296875 \div Base, 0>>

\* GenerateTokenPair multiplies the duration of JwtExpMins minutes by
\* time.Minute: in int64, m * 2^22 * OddMinute^2 ns, which wraps within 2^64.
\* The result is centuries from now, in the past when the top bit is set.
BornExpired ==
    TimesMod(<<JwtExpMins % Base, JwtExpMins \div Base, 0>>,
             TimesMod(OddMinute, OddMinute))[3] >= Base \div 2

------------------------------------------------------------------------------
(* Helpers *)

Stored(u)     == users[u] # NoUser
At(h, op, pc) == handler[h] # Idle /\ handler[h].op = op /\ handler[h].pc = pc
NameTaken(n)  == \E u \in UserIds : Stored(u) /\ users[u].name = n
EmailTaken(e) == \E u \in UserIds : Stored(u) /\ users[u].email = e

NewRow(form, role) == [name |-> form.name, email |-> form.email, role |-> role, vip |-> FALSE]

\* Mutation of Admitted: the email has an index, but not a unique one.
AdmittedByName(u, row) ==
    \A v \in UserIds \ {u} : Stored(v) => users[v].name # row.name

\* The two unique indexes let this row be written under id u.
Admitted(u, row) ==
    \A v \in UserIds \ {u} :
        Stored(v) => users[v].name # row.name /\ users[v].email # row.email

\* Handlers that hold a copy of the row of u, and those about to store a token.
EditorsOf(u) == {h \in Handlers : handler[h] # Idle /\ handler[h].op = "edit" /\ handler[h].id = u}
IssuersOf(u) == {h \in Handlers : (At(h, "login", "store") \/ At(h, "refresh", "store"))
                                  /\ handler[h].id = u}

\* FindRefreshToken: the row of the token, unless it has expired.
Found(t) == t \in DOMAIN tokens /\ ~BornExpired

\* The next statement of an UpdateProfile: a field left empty or unchanged is
\* not looked up.
LastCheck(row, form)  == IF form.email \notin {Keep, row.email} THEN "email" ELSE "write"
FirstCheck(row, form) == IF form.name \notin {Keep, row.name} THEN "name" ELSE LastCheck(row, form)

\* Mutation of Edited: the row is built anew, with the default of is_vip.
EditedFromScratch(e) ==
    [e.seen EXCEPT !.name  = IF e.form.name = Keep THEN @ ELSE e.form.name,
                   !.email = IF e.form.email = Keep THEN @ ELSE e.form.email,
                   !.vip   = FALSE]

\* The row an UpdateProfile saves: every column of the row it read, but the
\* fields of the request.
Edited(e) ==
    [e.seen EXCEPT !.name  = IF e.form.name = Keep THEN @ ELSE e.form.name,
                   !.email = IF e.form.email = Keep THEN @ ELSE e.form.email]

------------------------------------------------------------------------------
Init ==
    /\ users = [u \in UserIds |-> NoUser]
    /\ tokens = <<>>
    /\ handler = [h \in Handlers |-> Idle]
    /\ replica = [r \in Replicas |-> [state |-> "down"]]
    /\ born = [u \in UserIds |-> NoUser]
    /\ decided = [u \in UserIds |-> FALSE]
    /\ gone = {}
    /\ overlapped = {}
    /\ requests = 0

Counted == requests < MaxRequests /\ requests' = requests + 1

\* A request is taken up: some replica serves.  Handlers have no names, the
\* first idle one takes it.
Begin(h, work) ==
    /\ handler[h] = Idle
    /\ \A g \in 1..(h - 1) : handler[g] # Idle
    /\ \E r \in Replicas : replica[r].state = "up"
    /\ handler' = [handler EXCEPT ![h] = work]
    /\ Counted

Goto(h, pc) == handler' = [handler EXCEPT ![h].pc = pc]
Answer(h)   == handler' = [handler EXCEPT ![h] = Idle]

\* A new account under an id never used: uuid.New.
NextId(u) == u = Cardinality({v \in UserIds : born[v] # NoUser}) + 1

Create(u, row) ==
    /\ NextId(u)
    /\ Admitted(u, row)
    /\ users' = [users EXCEPT ![u] = row]
    /\ born' = [born EXCEPT ![u] = row.role]

\* Register: the username is free.
StartRegister(h, form) ==
    /\ ~NameTaken(form.name)
    /\ Begin(h, [op |-> "register", pc |-> "email", form |-> form])
    /\ UNCHANGED <<users, tokens, replica, history>>

\* Register: the email is free as well; the password is hashed.
CheckEmail(h) ==
    /\ At(h, "register", "email")
    /\ ~EmailTaken(handler[h].form.email)
    /\ Goto(h, "write")
    /\ UNCHANGED <<users, tokens, replica, history, requests>>

\* Mutation of Insert: the role of the request is taken over.
InsertAnyRole(h, u) ==
    /\ At(h, "register", "write")
    /\ \E role \in Roles :
          /\ Admitted(u, handler[h].form)
          /\ NextId(u)
          /\ users' = [users EXCEPT ![u] = NewRow(handler[h].form, role)]
          /\ born' = [born EXCEPT ![u] = "REGISTERED_USER"]
    /\ Answer(h)
    /\ UNCHANGED <<tokens, replica, decided, gone, overlapped, requests>>

\* Register: the INSERT.
Insert(h, u) ==
    /\ At(h, "register", "write")
    /\ Create(u, NewRow(handler[h].form, "REGISTERED_USER"))
    /\ Answer(h)
    /\ UNCHANGED <<tokens, replica, decided, gone, overlapped, requests>>

\* UpdateProfile: FindByID.
ReadProfile(h, u, form) ==
    /\ Stored(u)
    /\ Begin(h, [op |-> "edit", pc |-> FirstCheck(users[u], form), form |-> form,
                 id |-> u, seen |-> users[u]])
    /\ UNCHANGED <<users, tokens, replica, history>>

\* UpdateProfile: the new username is free, then the new email is.
CheckNewName(h) ==
    /\ At(h, "edit", "name")
    /\ ~NameTaken(handler[h].form.name)
    /\ Goto(h, LastCheck(handler[h].seen, handler[h].form))
    /\ UNCHANGED <<users, tokens, replica, history, requests>>

CheckNewEmail(h) ==
    /\ At(h, "edit", "email")
    /\ ~EmailTaken(handler[h].form.email)
    /\ Goto(h, "write")
    /\ UNCHANGED <<users, tokens, replica, history, requests>>

\* UpdateProfile: gorm's Save writes all columns, and inserts the row when it
\* is no longer there.
SaveProfile(h) ==
    /\ At(h, "edit", "write")
    /\ LET u == handler[h].id IN
       /\ Admitted(u, Edited(handler[h]))
       /\ users' = [users EXCEPT ![u] = Edited(handler[h])]
       /\ overlapped' = IF EditorsOf(u) # {h} THEN overlapped \cup {u} ELSE overlapped
    /\ Answer(h)
    /\ UNCHANGED <<tokens, replica, born, decided, gone, requests>>

\* UpdateVIPAccount: one UPDATE, which fails when no row has the id.
UpdateVIPStatus(u, vip) ==
    /\ Stored(u)
    /\ Counted
    /\ users' = [users EXCEPT ![u].vip = vip]
    /\ decided' = [decided EXCEPT ![u] = vip]
    /\ overlapped' = IF EditorsOf(u) # {} THEN overlapped \cup {u} ELSE overlapped
    /\ UNCHANGED <<tokens, handler, replica, born, gone>>

\* DeleteUsers: one DELETE.  The tokens stay.
DeleteUsers(ids) ==
    /\ Counted
    /\ \E u \in ids : Stored(u)
    /\ users' = [u \in UserIds |-> IF u \in ids THEN NoUser ELSE users[u]]
    /\ gone' = gone \cup {u \in ids : Stored(u)}
    /\ overlapped' = overlapped \cup
                       {u \in ids : Stored(u) /\ EditorsOf(u) \cup IssuersOf(u) # {}}
    /\ UNCHANGED <<tokens, handler, replica, born, decided>>

\* Login: the account is found and the password is right; the tokens are made.
StartLogin(h, u) ==
    /\ Stored(u)
    /\ Begin(h, [op |-> "login", pc |-> "store", id |-> u])
    /\ UNCHANGED <<users, tokens, replica, history>>

\* RefreshToken: the token is found, and is the caller's.
FindRefreshToken(h, t) ==
    /\ Found(t)
    /\ Begin(h, [op |-> "refresh", pc |-> "user", id |-> tokens[t]])
    /\ UNCHANGED <<users, tokens, replica, history>>

\* Mutation of FindOwner: the id of the token's row is trusted.
FindOwnerOfRow(h) ==
    /\ At(h, "refresh", "user")
    /\ Goto(h, "store")
    /\ UNCHANGED <<users, tokens, replica, history, requests>>

\* RefreshToken: FindByID finds the owner of the token.
FindOwner(h) ==
    /\ At(h, "refresh", "user")
    /\ Stored(handler[h].id)
    /\ Goto(h, "store")
    /\ UNCHANGED <<users, tokens, replica, history, requests>>

\* Login and RefreshToken store the new token and answer.  A refresh leaves
\* the old token where it is.
StoreRefreshToken(h) ==
    /\ At(h, "login", "store") \/ At(h, "refresh", "store")
    /\ Len(tokens) < MaxTokens
    /\ tokens' = Append(tokens, handler[h].id)
    /\ Answer(h)
    /\ UNCHANGED <<users, replica, history, requests>>

\* A handler ends before its write: nothing found, a name taken, a refused
\* row, an error of the database, a panic caught by RecoveryInterceptor.
HandlerFails(h) ==
    /\ handler[h] # Idle
    /\ Answer(h)
    /\ UNCHANGED <<users, tokens, replica, history, requests>>

------------------------------------------------------------------------------
(* A replica: main and SeedDefaultUsers.                                   *)

SeedOf(r) == Seeds[replica[r].next]

\* Mutation of NextSeed: one seed too many.
NextSeedPastEnd(r) ==
    replica' = [replica EXCEPT ![r] =
        IF replica[r].next <= Len(Seeds) THEN [state |-> "find", next |-> replica[r].next + 1]
        ELSE [state |-> "up"]]

\* The account of the replica's current seed is there: on to the next, or to serve.
NextSeed(r) ==
    replica' = [replica EXCEPT ![r] =
        IF replica[r].next < Len(Seeds) THEN [state |-> "find", next |-> replica[r].next + 1]
        ELSE [state |-> "up"]]

ReplicaStarts(r) ==
    /\ replica[r].state = "down"
    /\ replica' = [replica EXCEPT ![r] = [state |-> "find", next |-> 1]]
    /\ UNCHANGED <<users, tokens, handler, history, requests>>

\* Mutation of FindSeed: the account is created whether it is there or not.
FindSeedNever(r) ==
    /\ replica[r].state = "find"
    /\ replica' = [replica EXCEPT ![r].state = "create"]
    /\ UNCHANGED <<users, tokens, handler, history, requests>>

FindSeed(r) ==
    /\ replica[r].state = "find"
    /\ IF NameTaken(SeedOf(r).name)
       THEN NextSeed(r)
       ELSE replica' = [replica EXCEPT ![r].state = "create"]
    /\ UNCHANGED <<users, tokens, handler, history, requests>>

CreateSeed(r, u) ==
    /\ replica[r].state = "create"
    /\ Create(u, NewRow(SeedOf(r), SeedOf(r).role))
    /\ NextSeed(r)
    /\ UNCHANGED <<tokens, handler, decided, gone, overlapped, requests>>

\* An index refuses the account: main ends with Fatal.
SeedRefused(r) ==
    /\ replica[r].state = "create"
    /\ NameTaken(SeedOf(r).name) \/ EmailTaken(SeedOf(r).email)
    /\ replica' = [replica EXCEPT ![r] = [state |-> "down"]]
    /\ UNCHANGED <<users, tokens, handler, history, requests>>

\* A deployment or a crash takes the replica down.
ReplicaStops(r) ==
    /\ replica[r].state = "up"
    /\ Counted
    /\ replica' = [replica EXCEPT ![r] = [state |-> "down"]]
    /\ UNCHANGED <<users, tokens, handler, history>>

ReplicaStep(r) ==
    \/ ReplicaStarts(r)
    \/ FindSeed(r)
    \/ \E u \in UserIds : CreateSeed(r, u)
    \/ SeedRefused(r)

Next ==
    \/ \E h \in Handlers :
        \/ \E form \in Registrations : StartRegister(h, form)
        \/ CheckEmail(h)
        \/ \E u \in UserIds : Insert(h, u) \/ StartLogin(h, u)
        \/ \E u \in UserIds, form \in Profiles : ReadProfile(h, u, form)
        \/ CheckNewName(h)
        \/ CheckNewEmail(h)
        \/ SaveProfile(h)
        \/ \E t \in DOMAIN tokens : FindRefreshToken(h, t)
        \/ StoreRefreshToken(h)
        \/ FindOwner(h)
        \/ HandlerFails(h)
    \/ \E u \in UserIds, vip \in BOOLEAN : UpdateVIPStatus(u, vip)
    \/ \E ids \in SUBSET UserIds : DeleteUsers(ids)
    \/ \E r \in Replicas : ReplicaStep(r) \/ ReplicaStops(r)

Spec == Init /\ [][Next]_vars

\* Kubernetes starts a replica that is down, and its start is a straight run
\* through main; nothing else is promised.
FairSpec == Spec /\ \A r \in Replicas : WF_vars(ReplicaStep(r))

------------------------------------------------------------------------------
TypeOK ==
    /\ users \in [UserIds -> Row \cup {NoUser}]
    /\ tokens \in Seq(UserIds) /\ Len(tokens) <= MaxTokens
    /\ handler \in [Handlers -> Handling \cup {Idle}]
    /\ replica \in [Replicas -> Replica]
    /\ born \in [UserIds -> Roles \cup {NoUser}]
    /\ decided \in [UserIds -> BOOLEAN]
    /\ gone \subseteq UserIds
    /\ overlapped \subseteq UserIds
    /\ requests \in 0..MaxRequests

\* A username and an email each lead to one account, which is what Login relies
\* on: whatever registrations, profile edits, returning rows and starting
\* replicas have checked before they write, and however long ago.
OneAccountPerName ==
    \A u, v \in UserIds :
        Stored(u) /\ Stored(v) /\ u # v =>
            users[u].name # users[v].name /\ users[u].email # users[v].email

\* The decisions of administrators hold: an account has the VIP status last
\* decided for it and a deleted account stays deleted, unless a profile edit
\* (or a token being made) held a copy of the row while it was decided.
DecisionsHold ==
    \A u \in UserIds \ overlapped :
        Stored(u) => users[u].vip = decided[u] /\ u \notin gone

\* Nobody gains or loses a role: the whole-row writes of UpdateProfile and its
\* returning rows carry the role the account was created with, and MANAGER and
\* ADMIN are the default accounts'.
RolesNeverDrift ==
    \A u \in UserIds :
        Stored(u) => users[u].role = born[u]

\* No token is made for an account once it is deleted, though its refresh
\* tokens stay in the table and remain valid; a handler that had already looked
\* the account up is the exception, and it marks the account as overlapped.
NoTokensForDeleted ==
    [][\A t \in DOMAIN tokens' \ DOMAIN tokens : tokens'[t] \notin gone \ overlapped]_vars

\* The name of a default account is free while its email is in use: what is left
\* when an administrator renames the account and keeps the address.
SeedBlocked ==
    \E i \in DOMAIN Seeds : ~NameTaken(Seeds[i].name) /\ EmailTaken(Seeds[i].email)

\* No more default accounts can be made: a bound of the model, not of the code.
OutOfIds ==
    /\ \A u \in UserIds : born[u] # NoUser
    /\ \E i \in DOMAIN Seeds : ~NameTaken(Seeds[i].name)

\* A replica that is down serves in the end, also when replicas start at the
\* same time and one of them finds its account taken between SELECT and INSERT;
\* a renamed default account is the one thing that keeps every start failing.
ReplicasComeUp ==
    \A r \in Replicas :
        replica[r].state = "down" ~> replica[r].state = "up" \/ SeedBlocked \/ OutOfIds

\* services/user-service/README.md calls JWT_EXP_MINS the token expiry duration:
\* within it, a token that was handed out to an account that exists is found.
TokensLastAsConfigured ==
    \A t \in DOMAIN tokens : Stored(tokens[t]) => Found(t)
=============================================================================
