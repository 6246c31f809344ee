------------------------- MODULE UserService_proofs -------------------------
(***************************************************************************)
(* Properties of UserService for any accounts, any number of handlers,     *)
(* replicas, tokens and default accounts, and any length of a history.     *)
(*                                                                         *)
(* What a handler holds is what makes the invariants last: a profile edit  *)
(* carries a copy of a row that may be written long after it was read, and *)
(* a handler that is about to store a token has looked at the account and  *)
(* will not look again (HeldSound).  Ids are handed out in order (Dense),  *)
(* so no new account can get the id of one somebody still holds (Fresh).   *)
(***************************************************************************)
EXTENDS UserService, FiniteSetTheorems, TLAPS

\* Accounts have been created under the first ids.
Dense == \E n \in 0..MaxUsers : {v \in UserIds : born[v] # NoUser} = 1..n

\* Nothing has happened to an account that was never created.
Fresh ==
    \A u \in UserIds :
        born[u] = NoUser => ~Stored(u) /\ decided[u] = FALSE /\ u \notin gone

\* What a handler knows of its account: an edit has the role the account was
\* created with and, unless it is marked, the decisions about it.
EditSound(w) ==
    w # Idle /\ w.op = "edit" =>
        /\ born[w.id] # NoUser
        /\ w.seen.role = born[w.id]
        /\ w.id \notin overlapped => w.seen.vip = decided[w.id] /\ w.id \notin gone

IssueSound(w) ==
    w # Idle /\ w.op \in {"login", "refresh"} /\ w.pc = "store" => w.id \notin gone \ overlapped

HeldSound == \A h \in Handlers : EditSound(handler[h]) /\ IssueSound(handler[h])

Inv ==
    /\ TypeOK
    /\ Dense
    /\ Fresh
    /\ HeldSound
    /\ OneAccountPerName
    /\ RolesNeverDrift
    /\ DecisionsHold

------------------------------------------------------------------------------
(* The fields a handler has, by what it is doing. *)
LEMMA HandlerFields ==
    ASSUME NEW w \in Handling
    PROVE  /\ w.op = "register" => w \in Registering
           /\ w.op = "edit" => w \in Editing
           /\ w.op \in {"login", "refresh"} => w \in Issuing
BY DEF Handling, Registering, Editing, Issuing

LEMMA StoredIsRow ==
    ASSUME TypeOK, NEW u \in UserIds, Stored(u)
    PROVE  users[u] \in Row
BY DEF TypeOK, Stored

(* A profile edit writes a row, with the role and the VIP status it read. *)
LEMMA EditedIsRow ==
    ASSUME NEW e \in Editing
    PROVE  /\ Edited(e) \in Row
           /\ Edited(e).role = e.seen.role
           /\ Edited(e).vip = e.seen.vip
<1>1. e.seen \in Row /\ e.form \in [name : Names \cup {Keep}, email : Emails \cup {Keep}]
  BY UserServiceAssumption DEF Editing
<1> QED
  BY <1>1 DEF Edited, Row

LEMMA NewRowIsRow ==
    ASSUME NEW form, form.name \in Names, form.email \in Emails, NEW role \in Roles
    PROVE  /\ NewRow(form, role) \in Row
           /\ NewRow(form, role).role = role
           /\ NewRow(form, role).vip = FALSE
BY DEF NewRow, Row

(* The statements of an edit that may come next. *)
LEMMA ChecksOfEdit ==
    ASSUME NEW row, NEW form
    PROVE  /\ LastCheck(row, form) \in {"email", "write"}
           /\ FirstCheck(row, form) \in {"name", "email", "write"}
BY DEF LastCheck, FirstCheck

(* The next id has never been used. *)
LEMMA NextIdIsNew ==
    ASSUME Inv, NEW u \in UserIds, NextId(u)
    PROVE  /\ born[u] = NoUser
           /\ \E n \in 0..MaxUsers : /\ {v \in UserIds : born[v] # NoUser} = 1..n
                                     /\ u = n + 1
<1>1. PICK n \in 0..MaxUsers : {v \in UserIds : born[v] # NoUser} = 1..n
  BY DEF Inv, Dense
<1>2. Cardinality(1..n) = n
  BY FS_Interval, UserServiceAssumption
<1>3. u = n + 1
  BY <1>1, <1>2 DEF NextId
<1>4. u \notin 1..n
  BY <1>3
<1> QED
  BY <1>1, <1>3, <1>4

------------------------------------------------------------------------------
LEMMA InitInv == Init => Inv
<1> SUFFICES ASSUME Init PROVE Inv
  OBVIOUS
<1>1. TypeOK
  BY UserServiceAssumption DEF Init, TypeOK, Replica
<1>2. Dense
  <2>1. {v \in UserIds : born[v] # NoUser} = 1..0
    BY DEF Init
  <2>2. 0 \in 0..MaxUsers
    BY UserServiceAssumption
  <2> QED
    BY <2>1, <2>2 DEF Dense
<1>3. Fresh /\ OneAccountPerName /\ RolesNeverDrift /\ DecisionsHold
  BY DEF Init, Fresh, OneAccountPerName, RolesNeverDrift, DecisionsHold, Stored
<1>4. HeldSound
  BY DEF Init, HeldSound, EditSound, IssueSound
<1> QED
  BY <1>1, <1>2, <1>3, <1>4 DEF Inv

(* A step of one handler that leaves the accounts alone. *)
LEMMA HandlerStepInv ==
    ASSUME Inv, NEW h \in Handlers, NEW w \in Handling \cup {Idle},
           handler' = [handler EXCEPT ![h] = w],
           EditSound(w), IssueSound(w),
           UNCHANGED <<users, replica, history>>,
           tokens' \in Seq(UserIds), Len(tokens') <= MaxTokens,
           requests' \in 0..MaxRequests
    PROVE  Inv'
<1>1. TypeOK'
  BY DEF Inv, TypeOK, history
<1>2. Dense' /\ Fresh' /\ OneAccountPerName' /\ RolesNeverDrift' /\ DecisionsHold'
  BY DEF Inv, Dense, Fresh, OneAccountPerName, RolesNeverDrift, DecisionsHold, Stored, history
<1>3. HeldSound'
  <2>1. \A g \in Handlers : handler'[g] = IF g = h THEN w ELSE handler[g]
    BY DEF Inv, TypeOK
  <2> QED
    BY <2>1 DEF Inv, HeldSound, EditSound, IssueSound, history
<1> QED
  BY <1>1, <1>2, <1>3 DEF Inv

(* A request is taken up with well-typed work. *)
LEMMA BeginInv ==
    ASSUME Inv, NEW h \in Handlers, NEW w \in Handling, Begin(h, w),
           EditSound(w), IssueSound(w),
           UNCHANGED <<users, tokens, replica, history>>
    PROVE  Inv'
<1>1. requests' \in 0..MaxRequests
  BY UserServiceAssumption DEF Inv, TypeOK, Begin, Counted
<1>2. tokens' \in Seq(UserIds) /\ Len(tokens') <= MaxTokens
  BY DEF Inv, TypeOK
<1> QED
  BY <1>1, <1>2, HandlerStepInv DEF Begin

LEMMA StartRegisterInv ==
    ASSUME Inv, NEW h \in Handlers, NEW form \in Registrations, StartRegister(h, form)
    PROVE  Inv'
<1> DEFINE w == [op |-> "register", pc |-> "email", form |-> form]
<1>1. w \in Handling /\ EditSound(w) /\ IssueSound(w)
  BY DEF Handling, Registering, EditSound, IssueSound
<1> QED
  BY <1>1, BeginInv DEF StartRegister

LEMMA ReadProfileInv ==
    ASSUME Inv, NEW h \in Handlers, NEW u \in UserIds, NEW form \in Profiles,
           ReadProfile(h, u, form)
    PROVE  Inv'
<1> DEFINE w == [op |-> "edit", pc |-> FirstCheck(users[u], form), form |-> form,
                 id |-> u, seen |-> users[u]]
<1>1. users[u] \in Row /\ Stored(u)
  BY StoredIsRow DEF Inv, ReadProfile
<1>2. w \in Handling
  BY <1>1, ChecksOfEdit DEF Handling, Editing
<1>3. users[u].role = born[u] /\ users[u].role \in Roles
  BY <1>1 DEF Inv, RolesNeverDrift, Row
<1>4. born[u] # NoUser
  BY <1>3, UserServiceAssumption
<1>5. u \notin overlapped => users[u].vip = decided[u] /\ u \notin gone
  BY <1>1 DEF Inv, DecisionsHold
<1>6. EditSound(w) /\ IssueSound(w)
  BY <1>3, <1>4, <1>5 DEF EditSound, IssueSound
<1> QED
  BY <1>2, <1>6, BeginInv DEF ReadProfile

LEMMA StartLoginInv ==
    ASSUME Inv, NEW h \in Handlers, NEW u \in UserIds, StartLogin(h, u)
    PROVE  Inv'
<1> DEFINE w == [op |-> "login", pc |-> "store", id |-> u]
<1>1. w \in Handling
  BY DEF Handling, Issuing
<1>2. u \notin gone \ overlapped
  BY DEF StartLogin, Inv, DecisionsHold
<1>3. EditSound(w) /\ IssueSound(w)
  BY <1>2 DEF EditSound, IssueSound
<1> QED
  BY <1>1, <1>3, BeginInv DEF StartLogin

LEMMA FindRefreshTokenInv ==
    ASSUME Inv, NEW h \in Handlers, NEW t \in DOMAIN tokens, FindRefreshToken(h, t)
    PROVE  Inv'
<1> DEFINE w == [op |-> "refresh", pc |-> "user", id |-> tokens[t]]
<1>1. tokens[t] \in UserIds
  BY DEF Inv, TypeOK
<1>2. w \in Handling
  BY <1>1 DEF Handling, Issuing
<1>3. EditSound(w) /\ IssueSound(w)
  BY DEF EditSound, IssueSound
<1> QED
  BY <1>2, <1>3, BeginInv DEF FindRefreshToken

(* A handler goes on to its next statement. *)
LEMMA GotoInv ==
    ASSUME Inv, NEW h \in Handlers, NEW pc, Goto(h, pc), handler[h] # Idle,
           [handler[h] EXCEPT !.pc = pc] \in Handling,
           IssueSound([handler[h] EXCEPT !.pc = pc]),
           UNCHANGED <<users, tokens, replica, history, requests>>
    PROVE  Inv'
<1> DEFINE w == [handler[h] EXCEPT !.pc = pc]
<1>1. handler' = [handler EXCEPT ![h] = w]
  BY DEF Goto
<1>2. handler[h] \in Handling
  BY DEF Inv, TypeOK
<1>3. EditSound(w)
  <2>1. SUFFICES ASSUME w.op = "edit" PROVE EditSound(w)
    BY DEF EditSound
  <2>2. handler[h].op = "edit" /\ w.id = handler[h].id /\ w.seen = handler[h].seen
    BY <1>2, <2>1 DEF Handling, Registering, Editing, Issuing
  <2>3. EditSound(handler[h])
    BY DEF Inv, HeldSound
  <2> QED
    BY <2>2, <2>3 DEF EditSound
<1> QED
  BY <1>1, <1>3, HandlerStepInv DEF Inv, TypeOK

LEMMA CheckEmailInv ==
    ASSUME Inv, NEW h \in Handlers, CheckEmail(h)
    PROVE  Inv'
<1>1. handler[h] \in Registering
  BY HandlerFields DEF CheckEmail, At, Inv, TypeOK
<1>2. [handler[h] EXCEPT !.pc = "write"] \in Registering
  BY <1>1 DEF Registering
<1>3. IssueSound([handler[h] EXCEPT !.pc = "write"])
  BY <1>2 DEF Registering, IssueSound
<1> QED
  BY <1>2, <1>3, GotoInv DEF CheckEmail, At, Handling

LEMMA CheckNewNameInv ==
    ASSUME Inv, NEW h \in Handlers, CheckNewName(h)
    PROVE  Inv'
<1> DEFINE pc == LastCheck(handler[h].seen, handler[h].form)
<1>1. handler[h] \in Editing
  BY HandlerFields DEF CheckNewName, At, Inv, TypeOK
<1>2. [handler[h] EXCEPT !.pc = pc] \in Editing
  <2>1. pc \in {"email", "write"}
    BY ChecksOfEdit
  <2> HIDE DEF pc
  <2> QED
    BY <1>1, <2>1 DEF Editing
<1>3. IssueSound([handler[h] EXCEPT !.pc = pc])
  BY <1>2 DEF Editing, IssueSound
<1> QED
  BY <1>2, <1>3, GotoInv DEF CheckNewName, At, Handling

LEMMA CheckNewEmailInv ==
    ASSUME Inv, NEW h \in Handlers, CheckNewEmail(h)
    PROVE  Inv'
<1>1. handler[h] \in Editing
  BY HandlerFields DEF CheckNewEmail, At, Inv, TypeOK
<1>2. [handler[h] EXCEPT !.pc = "write"] \in Editing
  BY <1>1 DEF Editing
<1>3. IssueSound([handler[h] EXCEPT !.pc = "write"])
  BY <1>2 DEF Editing, IssueSound
<1> QED
  BY <1>2, <1>3, GotoInv DEF CheckNewEmail, At, Handling

LEMMA FindOwnerInv ==
    ASSUME Inv, NEW h \in Handlers, FindOwner(h)
    PROVE  Inv'
<1>1. handler[h] \in Issuing
  BY HandlerFields DEF FindOwner, At, Inv, TypeOK
<1>2. [handler[h] EXCEPT !.pc = "store"] \in Issuing
  BY <1>1 DEF Issuing
<1>3. handler[h].id \notin gone \ overlapped
  BY <1>1 DEF FindOwner, Inv, DecisionsHold, Issuing
<1>4. IssueSound([handler[h] EXCEPT !.pc = "store"])
  BY <1>1, <1>3 DEF Issuing, IssueSound
<1> QED
  BY <1>2, <1>4, GotoInv DEF FindOwner, At, Handling

(* A handler answers without having changed an account. *)
LEMMA StoreRefreshTokenInv ==
    ASSUME Inv, NEW h \in Handlers, StoreRefreshToken(h)
    PROVE  Inv'
<1>1. handler[h] \in Issuing
  BY HandlerFields DEF StoreRefreshToken, At, Inv, TypeOK
<1>2. tokens' \in Seq(UserIds) /\ Len(tokens') = Len(tokens) + 1
  BY <1>1 DEF StoreRefreshToken, Issuing, Inv, TypeOK
<1>3. Len(tokens') <= MaxTokens
  BY <1>2, UserServiceAssumption DEF StoreRefreshToken, Inv, TypeOK
<1>4. EditSound(Idle) /\ IssueSound(Idle)
  BY DEF EditSound, IssueSound
<1> QED
  BY <1>2, <1>3, <1>4, HandlerStepInv DEF StoreRefreshToken, Answer, Inv, TypeOK

LEMMA HandlerFailsInv ==
    ASSUME Inv, NEW h \in Handlers, HandlerFails(h)
    PROVE  Inv'
<1>1. EditSound(Idle) /\ IssueSound(Idle)
  BY DEF EditSound, IssueSound
<1> QED
  BY <1>1, HandlerStepInv DEF HandlerFails, Answer, Inv, TypeOK

------------------------------------------------------------------------------
(* Steps that change accounts. *)
LEMMA StoredIsBorn ==
    ASSUME Inv, NEW u \in UserIds, Stored(u)
    PROVE  born[u] # NoUser
<1>1. users[u].role = born[u] /\ users[u].role \in Roles
  BY StoredIsRow DEF Inv, RolesNeverDrift, Row
<1> QED
  BY <1>1, UserServiceAssumption

(* A row that the indexes admit leaves one account per name. *)
LEMMA AdmittedKeepsNames ==
    ASSUME Inv, NEW u \in UserIds, NEW row \in Row, Admitted(u, row),
           users' = [users EXCEPT ![u] = row]
    PROVE  OneAccountPerName'
<1>1. \A v \in UserIds : users'[v] = IF v = u THEN row ELSE users[v]
  BY DEF Inv, TypeOK
<1> QED
  BY <1>1 DEF Inv, OneAccountPerName, Admitted, Stored

LEMMA CreateInv ==
    ASSUME Inv, NEW u \in UserIds, NEW row \in Row, row.vip = FALSE, Create(u, row),
           handler' \in [Handlers -> Handling \cup {Idle}],
           \A h \in Handlers : handler'[h] \in {handler[h], Idle},
           replica' \in [Replicas -> Replica],
           UNCHANGED <<tokens, decided, gone, overlapped, requests>>
    PROVE  Inv'
<1>1. born[u] = NoUser
  BY NextIdIsNew DEF Create
<1>2. row.role \in Roles
  BY DEF Row
<1>3. \A v \in UserIds : /\ users'[v] = IF v = u THEN row ELSE users[v]
                         /\ born'[v] = IF v = u THEN row.role ELSE born[v]
  BY DEF Create, Inv, TypeOK
<1>4. TypeOK'
  BY <1>2 DEF Create, Inv, TypeOK
<1>5. Dense'
  <2>1. PICK n \in 0..MaxUsers : {v \in UserIds : born[v] # NoUser} = 1..n /\ u = n + 1
    BY NextIdIsNew DEF Create
  <2>2. row.role # NoUser
    BY <1>2, UserServiceAssumption
  <2>3. {v \in UserIds : born'[v] # NoUser} = {v \in UserIds : born[v] # NoUser} \cup {u}
    BY <1>3, <2>2
  <2>4. 1..n \cup {u} = 1..u
    BY <2>1
  <2>5. u \in 0..MaxUsers
    BY UserServiceAssumption DEF UserIds
  <2> QED
    BY <2>1, <2>3, <2>4, <2>5 DEF Dense
<1>6. Fresh'
  BY <1>2, <1>3, UserServiceAssumption DEF Inv, Fresh, Stored
<1>7. HeldSound'
  <2> SUFFICES ASSUME NEW h \in Handlers
               PROVE  EditSound(handler[h])' /\ IssueSound(handler[h])'
    BY DEF HeldSound
  <2>1. CASE handler'[h] = Idle
    BY <2>1 DEF EditSound, IssueSound
  <2>2. CASE handler'[h] = handler[h] /\ handler[h] # Idle
    <3>1. EditSound(handler[h]) /\ IssueSound(handler[h])
      BY DEF Inv, HeldSound
    <3>2. handler[h].op = "edit" => handler[h].id \in UserIds /\ handler[h].id # u
      BY <1>1, <2>2, <3>1, HandlerFields DEF Inv, TypeOK, EditSound, Editing
    <3>3. handler[h].op = "edit" => born'[handler[h].id] = born[handler[h].id]
      BY <1>3, <3>2
    <3> QED
      BY <2>2, <3>1, <3>3 DEF EditSound, IssueSound
  <2> QED
    BY <2>1, <2>2
<1>8. OneAccountPerName'
  BY AdmittedKeepsNames DEF Create
<1>9. RolesNeverDrift'
  BY <1>3 DEF Inv, RolesNeverDrift, Stored
<1>10. DecisionsHold'
  BY <1>1, <1>3 DEF Inv, DecisionsHold, Stored, Fresh
<1> QED
  BY <1>4, <1>5, <1>6, <1>7, <1>8, <1>9, <1>10 DEF Inv

LEMMA InsertInv ==
    ASSUME Inv, NEW h \in Handlers, NEW u \in UserIds, Insert(h, u)
    PROVE  Inv'
<1> DEFINE row == NewRow(handler[h].form, "REGISTERED_USER")
<1>1. handler[h] \in Registering
  BY HandlerFields DEF Insert, At, Inv, TypeOK
<1>2. handler[h].form.name \in Names /\ handler[h].form.email \in Emails
  BY <1>1, UserServiceAssumption DEF Registering
<1>3. row \in Row /\ row.vip = FALSE
  BY <1>2, NewRowIsRow DEF Roles
<1>4. handler' = [handler EXCEPT ![h] = Idle]
  BY DEF Insert, Answer
<1>5. /\ handler' \in [Handlers -> Handling \cup {Idle}]
      /\ \A g \in Handlers : handler'[g] \in {handler[g], Idle}
  BY <1>4 DEF Inv, TypeOK
<1>6. replica' \in [Replicas -> Replica]
  BY DEF Insert, Inv, TypeOK
<1> HIDE DEF row
<1> QED
  BY <1>3, <1>5, <1>6, CreateInv DEF Insert, row

(* Edits and decisions: one account, created earlier, gets a new row. *)
LEMMA RowChangeInv ==
    ASSUME Inv, NEW u \in UserIds, NEW row \in Row,
           users' = [users EXCEPT ![u] = row],
           row.role = born[u], born[u] # NoUser,
           OneAccountPerName',
           handler' \in [Handlers -> Handling \cup {Idle}],
           \A h \in Handlers : handler'[h] \in {handler[h], Idle},
           decided' \in [UserIds -> BOOLEAN],
           \A v \in UserIds \ {u} : decided'[v] = decided[v],
           overlapped' \in SUBSET UserIds,
           overlapped \subseteq overlapped',
           \A h \in Handlers : handler'[h] # Idle /\ handler'[h].op = "edit" /\ handler'[h].id = u
                                  => u \in overlapped',
           u \notin overlapped' => row.vip = decided'[u] /\ u \notin gone,
           requests' \in 0..MaxRequests,
           UNCHANGED <<tokens, replica, born, gone>>
    PROVE  Inv'
<1>1. \A v \in UserIds : users'[v] = IF v = u THEN row ELSE users[v]
  BY DEF Inv, TypeOK
<1>2. TypeOK'
  BY DEF Inv, TypeOK
<1>3. Dense'
  BY DEF Inv, Dense
<1>4. Fresh'
  BY <1>1 DEF Inv, Fresh, Stored
<1>5. HeldSound'
  <2> SUFFICES ASSUME NEW h \in Handlers, handler'[h] # Idle
               PROVE  EditSound(handler[h])' /\ IssueSound(handler[h])'
    BY DEF HeldSound, EditSound, IssueSound
  <2>1. handler'[h] = handler[h]
    OBVIOUS
  <2>2. EditSound(handler[h]) /\ IssueSound(handler[h])
    BY DEF Inv, HeldSound
  <2>3. handler[h].op = "edit" => handler[h].id \in UserIds
    BY <2>1, HandlerFields DEF Inv, TypeOK, Editing
  <2>4. EditSound(handler[h])'
    BY <2>1, <2>2, <2>3 DEF EditSound
  <2>5. IssueSound(handler[h])'
    BY <2>1, <2>2 DEF IssueSound
  <2> QED
    BY <2>4, <2>5
<1>6. RolesNeverDrift'
  BY <1>1 DEF Inv, RolesNeverDrift, Stored
<1>7. DecisionsHold'
  BY <1>1 DEF Inv, DecisionsHold, Stored
<1> QED
  BY <1>2, <1>3, <1>4, <1>5, <1>6, <1>7 DEF Inv

LEMMA SaveProfileInv ==
    ASSUME Inv, NEW h \in Handlers, SaveProfile(h)
    PROVE  Inv'
<1> DEFINE u   == handler[h].id
           row == Edited(handler[h])
<1>1. handler[h] \in Editing /\ handler[h] # Idle /\ handler[h].op = "edit"
  BY HandlerFields DEF SaveProfile, At, Inv, TypeOK
<1>2. u \in UserIds /\ row \in Row /\ row.role = handler[h].seen.role /\ row.vip = handler[h].seen.vip
  BY <1>1, EditedIsRow DEF Editing
<1>3. EditSound(handler[h])
  BY DEF Inv, HeldSound
<1>4. row.role = born[u] /\ born[u] # NoUser
  BY <1>1, <1>2, <1>3 DEF EditSound
<1>5. /\ users' = [users EXCEPT ![u] = row]
      /\ Admitted(u, row)
      /\ overlapped' = IF EditorsOf(u) # {h} THEN overlapped \cup {u} ELSE overlapped
      /\ handler' = [handler EXCEPT ![h] = Idle]
      /\ UNCHANGED <<tokens, replica, born, decided, gone, requests>>
  BY DEF SaveProfile, Answer
<1> HIDE DEF row
<1>6. OneAccountPerName'
  BY <1>2, <1>5, AdmittedKeepsNames
<1>7. /\ handler' \in [Handlers -> Handling \cup {Idle}]
      /\ \A g \in Handlers : handler'[g] = IF g = h THEN Idle ELSE handler[g]
  BY <1>5 DEF Inv, TypeOK
<1>8. overlapped' \in SUBSET UserIds /\ overlapped \subseteq overlapped'
  BY <1>2, <1>5 DEF Inv, TypeOK
<1>9. \A g \in Handlers : handler'[g] # Idle /\ handler'[g].op = "edit" /\ handler'[g].id = u
                             => u \in overlapped'
  BY <1>5, <1>7 DEF EditorsOf
<1>10. u \notin overlapped' => row.vip = decided'[u] /\ u \notin gone
  BY <1>1, <1>2, <1>3, <1>5 DEF EditSound
<1>11. decided' \in [UserIds -> BOOLEAN] /\ requests' \in 0..MaxRequests
  BY <1>5 DEF Inv, TypeOK
<1>12. \A g \in Handlers : handler'[g] \in {handler[g], Idle}
  BY <1>7
<1> HIDE DEF u
<1> QED
  BY <1>2, <1>4, <1>5, <1>6, <1>7, <1>8, <1>9, <1>10, <1>11, <1>12, RowChangeInv

LEMMA UpdateVIPStatusInv ==
    ASSUME Inv, NEW u \in UserIds, NEW vip \in BOOLEAN, UpdateVIPStatus(u, vip)
    PROVE  Inv'
<1> DEFINE row == [users[u] EXCEPT !.vip = vip]
<1>1. users[u] \in Row /\ born[u] # NoUser /\ users[u].role = born[u]
  BY StoredIsRow, StoredIsBorn DEF UpdateVIPStatus, Inv, RolesNeverDrift
<1>2. /\ row \in Row /\ row.role = users[u].role /\ row.vip = vip
      /\ row.name = users[u].name /\ row.email = users[u].email
  BY <1>1 DEF Row
<1>3. users' = [users EXCEPT ![u] = row]
  BY DEF UpdateVIPStatus
<1> HIDE DEF row
<1>4. OneAccountPerName'
  <2>1. Admitted(u, row)
    BY <1>2 DEF UpdateVIPStatus, Inv, OneAccountPerName, Admitted
  <2> QED
    BY <1>2, <1>3, <2>1, AdmittedKeepsNames
<1>5. /\ decided' \in [UserIds -> BOOLEAN] /\ decided'[u] = vip
      /\ \A v \in UserIds \ {u} : decided'[v] = decided[v]
  BY DEF UpdateVIPStatus, Inv, TypeOK
<1>6. overlapped' \in SUBSET UserIds /\ overlapped \subseteq overlapped'
  BY DEF UpdateVIPStatus, Inv, TypeOK
<1>7. \A h \in Handlers : handler'[h] # Idle /\ handler'[h].op = "edit" /\ handler'[h].id = u
                             => u \in overlapped'
  BY DEF UpdateVIPStatus, EditorsOf
<1>8. u \notin overlapped' => u \notin gone
  BY <1>6 DEF UpdateVIPStatus, Inv, DecisionsHold
<1>9. requests' \in 0..MaxRequests
  BY UserServiceAssumption DEF UpdateVIPStatus, Counted, Inv, TypeOK
<1>10. /\ handler' \in [Handlers -> Handling \cup {Idle}]
       /\ \A h \in Handlers : handler'[h] \in {handler[h], Idle}
       /\ UNCHANGED <<tokens, replica, born, gone>>
  BY DEF UpdateVIPStatus, Inv, TypeOK
<1>11. row.role = born[u] /\ row \in Row
  BY <1>1, <1>2
<1>12. u \notin overlapped' => row.vip = decided'[u] /\ u \notin gone
  BY <1>2, <1>5, <1>8
<1> QED
  BY <1>1, <1>3, <1>4, <1>5, <1>6, <1>7, <1>9, <1>10, <1>11, <1>12, RowChangeInv

LEMMA DeleteUsersInv ==
    ASSUME Inv, NEW ids \in SUBSET UserIds, DeleteUsers(ids)
    PROVE  Inv'
<1>1. \A u \in UserIds : users'[u] = IF u \in ids THEN NoUser ELSE users[u]
  BY DEF DeleteUsers
<1>2. requests' \in 0..MaxRequests
  BY UserServiceAssumption DEF DeleteUsers, Counted, Inv, TypeOK
<1>3. TypeOK'
  BY <1>2 DEF DeleteUsers, Inv, TypeOK
<1>4. Dense'
  BY DEF DeleteUsers, Inv, Dense
<1>5. Fresh'
  BY <1>1, StoredIsBorn DEF DeleteUsers, Inv, Fresh, Stored
<1>6. HeldSound'
  <2> SUFFICES ASSUME NEW h \in Handlers, handler[h] # Idle
               PROVE  EditSound(handler[h])' /\ IssueSound(handler[h])'
    BY DEF HeldSound, EditSound, IssueSound, DeleteUsers
  <2>1. EditSound(handler[h]) /\ IssueSound(handler[h])
    BY DEF Inv, HeldSound
  <2>2. EditSound(handler[h])'
    <3>1. SUFFICES ASSUME handler[h].op = "edit", handler[h].id \notin overlapped'
                   PROVE  handler[h].id \notin gone'
      BY <2>1 DEF EditSound, DeleteUsers
    <3>2. h \in EditorsOf(handler[h].id)
      BY <3>1 DEF EditorsOf
    <3> QED
      BY <2>1, <3>1, <3>2 DEF EditSound, DeleteUsers
  <2>3. IssueSound(handler[h])'
    <3>1. SUFFICES ASSUME handler[h].op \in {"login", "refresh"}, handler[h].pc = "store",
                          handler[h].id \notin overlapped'
                   PROVE  handler[h].id \notin gone'
      BY DEF IssueSound, DeleteUsers
    <3>2. h \in IssuersOf(handler[h].id)
      BY <3>1 DEF IssuersOf, At
    <3> QED
      BY <2>1, <3>1, <3>2 DEF IssueSound, DeleteUsers
  <2> QED
    BY <2>2, <2>3
<1>7. OneAccountPerName' /\ RolesNeverDrift'
  BY <1>1 DEF DeleteUsers, Inv, OneAccountPerName, RolesNeverDrift, Stored
<1>8. DecisionsHold'
  BY <1>1 DEF DeleteUsers, Inv, DecisionsHold, Stored
<1> QED
  BY <1>3, <1>4, <1>5, <1>6, <1>7, <1>8 DEF Inv

------------------------------------------------------------------------------
(* Steps of a replica. *)
LEMMA ReplicaFields ==
    ASSUME Inv, NEW r \in Replicas, replica[r].state \in {"find", "create"}
    PROVE  /\ replica[r] \in [state : {"find", "create"}, next : DOMAIN Seeds]
           /\ replica[r].next \in 1..Len(Seeds)
BY UserServiceAssumption DEF Inv, TypeOK, Replica

LEMMA SeedType ==
    ASSUME NEW i \in 1..Len(Seeds)
    PROVE  Seeds[i] \in [name : Names, email : Emails, role : Roles]
<1> DEFINE Account == [name : Names, email : Emails, role : Roles]
<1>1. Seeds \in Seq(Account)
  BY UserServiceAssumption
<1> HIDE DEF Account
<1>2. Seeds[i] \in Account
  BY <1>1
<1> QED
  BY <1>2 DEF Account

LEMMA NextSeedType ==
    ASSUME Inv, NEW r \in Replicas, replica[r].state \in {"find", "create"}, NextSeed(r)
    PROVE  replica' \in [Replicas -> Replica]
<1>1. replica[r].next \in 1..Len(Seeds)
  BY ReplicaFields
<1>2. replica[r].next < Len(Seeds) => replica[r].next + 1 \in DOMAIN Seeds
  BY <1>1, UserServiceAssumption
<1> QED
  BY <1>2 DEF NextSeed, Replica, Inv, TypeOK

LEMMA ReplicaQuietInv ==
    ASSUME Inv, replica' \in [Replicas -> Replica], requests' \in 0..MaxRequests,
           UNCHANGED <<users, tokens, handler, history>>
    PROVE  Inv'
<1>1. TypeOK'
  BY DEF Inv, TypeOK, history
<1>2. Dense' /\ Fresh' /\ HeldSound' /\ OneAccountPerName' /\ RolesNeverDrift' /\ DecisionsHold'
  BY DEF Inv, Dense, Fresh, HeldSound, EditSound, IssueSound, OneAccountPerName,
         RolesNeverDrift, DecisionsHold, Stored, history
<1> QED
  BY <1>1, <1>2 DEF Inv

LEMMA ReplicaStepInv ==
    ASSUME Inv, NEW r \in Replicas, ReplicaStep(r)
    PROVE  Inv'
<1>1. CASE ReplicaStarts(r)
  <2>1. [state |-> "find", next |-> 1] \in Replica
    BY UserServiceAssumption DEF Replica
  <2>2. replica' \in [Replicas -> Replica]
    BY <1>1, <2>1 DEF ReplicaStarts, Inv, TypeOK
  <2> QED
    BY <1>1, <2>2, ReplicaQuietInv DEF ReplicaStarts, Inv, TypeOK
<1>2. CASE FindSeed(r)
  <2>1. replica[r] \in [state : {"find", "create"}, next : DOMAIN Seeds]
    BY <1>2, ReplicaFields DEF FindSeed
  <2>2. [replica[r] EXCEPT !.state = "create"] \in Replica
    BY <2>1 DEF Replica
  <2>3. ~NextSeed(r) => replica' \in [Replicas -> Replica]
    BY <1>2, <2>2 DEF FindSeed, Inv, TypeOK
  <2>4. replica' \in [Replicas -> Replica]
    BY <1>2, <2>3, NextSeedType DEF FindSeed
  <2> QED
    BY <1>2, <2>4, ReplicaQuietInv DEF FindSeed, Inv, TypeOK
<1>3. ASSUME NEW u \in UserIds, CreateSeed(r, u)
      PROVE  Inv'
  <2> DEFINE row == NewRow(SeedOf(r), SeedOf(r).role)
  <2>1. replica[r].next \in 1..Len(Seeds)
    BY <1>3, ReplicaFields DEF CreateSeed
  <2>2. SeedOf(r) \in [name : Names, email : Emails, role : Roles]
    BY <2>1, SeedType DEF SeedOf
  <2>3. row \in Row /\ row.vip = FALSE
    BY <2>2, NewRowIsRow
  <2>4. replica' \in [Replicas -> Replica]
    BY <1>3, NextSeedType DEF CreateSeed
  <2> HIDE DEF row
  <2>5. Create(u, row) /\ UNCHANGED <<tokens, handler, decided, gone, overlapped, requests>>
    BY <1>3 DEF CreateSeed, row
  <2>6. /\ handler' \in [Handlers -> Handling \cup {Idle}]
        /\ \A h \in Handlers : handler'[h] \in {handler[h], Idle}
    BY <2>5 DEF Inv, TypeOK
  <2> QED
    BY <2>3, <2>4, <2>5, <2>6, CreateInv
<1>4. CASE SeedRefused(r)
  <2>1. replica' \in [Replicas -> Replica]
    BY <1>4 DEF SeedRefused, Replica, Inv, TypeOK
  <2> QED
    BY <1>4, <2>1, ReplicaQuietInv DEF SeedRefused, Inv, TypeOK
<1> QED
  BY <1>1, <1>2, <1>3, <1>4 DEF ReplicaStep

LEMMA ReplicaStopsInv ==
    ASSUME Inv, NEW r \in Replicas, ReplicaStops(r)
    PROVE  Inv'
<1>1. replica' \in [Replicas -> Replica]
  BY DEF ReplicaStops, Replica, Inv, TypeOK
<1>2. requests' \in 0..MaxRequests
  BY UserServiceAssumption DEF ReplicaStops, Counted, Inv, TypeOK
<1> QED
  BY <1>1, <1>2, ReplicaQuietInv DEF ReplicaStops

------------------------------------------------------------------------------
LEMMA NextInv ==
    ASSUME Inv, [Next]_vars
    PROVE  Inv'
<1>1. ASSUME NEW h \in Handlers, NEW form \in Registrations, StartRegister(h, form)
      PROVE  Inv'
  BY <1>1, StartRegisterInv
<1>2. ASSUME NEW h \in Handlers, CheckEmail(h)
      PROVE  Inv'
  BY <1>2, CheckEmailInv
<1>3. ASSUME NEW h \in Handlers, NEW u \in UserIds, Insert(h, u) \/ StartLogin(h, u)
      PROVE  Inv'
  BY <1>3, InsertInv, StartLoginInv
<1>4. ASSUME NEW h \in Handlers, NEW u \in UserIds, NEW form \in Profiles, ReadProfile(h, u, form)
      PROVE  Inv'
  BY <1>4, ReadProfileInv
<1>5. ASSUME NEW h \in Handlers, CheckNewName(h) \/ CheckNewEmail(h) \/ SaveProfile(h)
      PROVE  Inv'
  BY <1>5, CheckNewNameInv, CheckNewEmailInv, SaveProfileInv
<1>6. ASSUME NEW h \in Handlers, NEW t \in DOMAIN tokens, FindRefreshToken(h, t)
      PROVE  Inv'
  BY <1>6, FindRefreshTokenInv
<1>7. ASSUME NEW h \in Handlers, StoreRefreshToken(h) \/ FindOwner(h) \/ HandlerFails(h)
      PROVE  Inv'
  BY <1>7, StoreRefreshTokenInv, FindOwnerInv, HandlerFailsInv
<1>8. ASSUME NEW u \in UserIds, NEW vip \in BOOLEAN, UpdateVIPStatus(u, vip)
      PROVE  Inv'
  BY <1>8, UpdateVIPStatusInv
<1>9. ASSUME NEW ids \in SUBSET UserIds, DeleteUsers(ids)
      PROVE  Inv'
  BY <1>9, DeleteUsersInv
<1>10. ASSUME NEW r \in Replicas, ReplicaStep(r) \/ ReplicaStops(r)
       PROVE  Inv'
  BY <1>10, ReplicaStepInv, ReplicaStopsInv
<1>11. CASE UNCHANGED vars
  BY <1>11, ReplicaQuietInv DEF vars, history, Inv, TypeOK
<1> QED
  BY <1>1, <1>2, <1>3, <1>4, <1>5, <1>6, <1>7, <1>8, <1>9, <1>10, <1>11 DEF Next

LEMMA Invariance == Spec => []Inv
BY InitInv, NextInv, PTL DEF Spec

------------------------------------------------------------------------------
(* Accounts, handlers, tokens and replicas stay well-typed: what Save writes  *)
(* back is a row, and no replica looks for a default account there is none of.*)
THEOREM TypeCorrect == Spec => []TypeOK
<1>1. Inv => TypeOK
  BY DEF Inv
<1> QED
  BY <1>1, Invariance, PTL

(* A username and an email each lead to one account, for any number of       *)
(* registrations, edits and starting replicas that checked and now write.    *)
THEOREM NamesAreUnique == Spec => []OneAccountPerName
<1>1. Inv => OneAccountPerName
  BY DEF Inv
<1> QED
  BY <1>1, Invariance, PTL

(* No whole-row write of UpdateProfile, however old its copy and also when it *)
(* brings a deleted account back, changes the role of an account.             *)
THEOREM RolesAreKept == Spec => []RolesNeverDrift
<1>1. Inv => RolesNeverDrift
  BY DEF Inv
<1> QED
  BY <1>1, Invariance, PTL

(* The last VIP decision about an account, and its deletion, hold unless they *)
(* were made while a handler held a copy of the row.                          *)
THEOREM DecisionsAreKept == Spec => []DecisionsHold
<1>1. Inv => DecisionsHold
  BY DEF Inv
<1> QED
  BY <1>1, Invariance, PTL

(* Refresh tokens outlive their accounts, but none is made for an account     *)
(* that is gone: by a login or a refresh that has looked since.               *)
THEOREM DeletedGetNoTokens == Spec => NoTokensForDeleted
<1> DEFINE Allowed == \A t \in DOMAIN tokens' \ DOMAIN tokens : tokens'[t] \notin gone \ overlapped
<1>1. Inv /\ [Next]_vars => [Allowed]_vars
  <2> SUFFICES ASSUME Inv, Next PROVE Allowed
    BY DEF vars
  <2>1. ASSUME NEW h \in Handlers, StoreRefreshToken(h)
        PROVE  Allowed
    <3>1. handler[h].id \notin gone \ overlapped
      BY <2>1 DEF StoreRefreshToken, At, Inv, HeldSound, IssueSound
    <3>2. tokens \in Seq(UserIds)
      BY DEF Inv, TypeOK
    <3>3. handler[h] \in Issuing
      BY <2>1, HandlerFields DEF StoreRefreshToken, At, Inv, TypeOK
    <3>4. DOMAIN tokens' \ DOMAIN tokens = {Len(tokens) + 1} /\ tokens'[Len(tokens) + 1] = handler[h].id
      BY <2>1, <3>2, <3>3 DEF StoreRefreshToken, Issuing
    <3> QED
      BY <3>1, <3>4
  <2>2. CASE UNCHANGED tokens
    BY <2>2
  <2>3. (\A h \in Handlers : ~StoreRefreshToken(h)) => UNCHANGED tokens
    BY DEF Next, StartRegister, CheckEmail, Insert, StartLogin, ReadProfile, CheckNewName,
           CheckNewEmail, SaveProfile, FindRefreshToken, FindOwner, HandlerFails,
           UpdateVIPStatus, DeleteUsers, ReplicaStep, ReplicaStarts, FindSeed, CreateSeed,
           SeedRefused, ReplicaStops
  <2> QED
    BY <2>1, <2>2, <2>3
<1> QED
  BY <1>1, Invariance, PTL DEF Spec, NoTokensForDeleted
=============================================================================
