------------------------ MODULE OrderService_proofs ------------------------
(***************************************************************************)
(* Properties of OrderService for any number of orders, books, users and   *)
(* handlers, and for any length of a history.                              *)
(*                                                                         *)
(* A PENDING order has been canceled at most as often as it was reopened   *)
(* (TallySound): the conditional UPDATE of Cancel is what makes that last. *)
(* A return computes its penalty from a row read earlier; the due date in  *)
(* it is still the due date of the order, and the day it asked about is    *)
(* not later than the day it records (ReturningSound).                     *)
(*                                                                         *)
(* The second half is about what a handler starts in the background.       *)
(* Between its commit and its go statements a handler owes its calls and   *)
(* its event; the inductive invariant counts what is owed together with    *)
(* what was started (CallsSound, EventsSound).  A committed handler owes a *)
(* call for every book of one stored order or none at all (LoadsFit), and  *)
(* an order's books never change: one round of release calls is one step   *)
(* of OrderLedger.                                                         *)
(***************************************************************************)
EXTENDS OrderService, FiniteSetTheorems, TLAPS

TallySound ==
    \A o \in OrderIds :
        /\ ~Stored(o) => tally[o] = NoTransitions
        /\ Stored(o) /\ orders[o].status = "PENDING" => tally[o].cancels <= tally[o].reopenings
        /\ tally[o].cancels <= 1 + tally[o].reopenings

ReturningSound ==
    \A h \in Handlers :
        At(h, "returning") =>
            /\ Stored(handler[h].order)
            /\ orders[handler[h].order].due = handler[h].seen.due

Inv ==
    /\ TypeOK
    /\ TallySound
    /\ ReturningSound
    /\ NeverOvercharged

------------------------------------------------------------------------------
(* The calls of an order are calls. *)
LEMMA CallsForType ==
    ASSUME NEW o \in OrderIds, NEW bs \in SUBSET BookIds, NEW change \in {-1, 1}
    PROVE  CallsFor(o, bs, change) \in SUBSET Calls
BY DEF CallsFor, Calls

(* A committed handler is well-typed when its calls and its event are. *)
LEMMA CommitType ==
    ASSUME NEW h \in Handlers, NEW calls \in SUBSET Calls, NEW event \in Events,
           TypeOK, Commit(h, calls, event)
    PROVE  /\ handler' \in [Handlers -> Handling \cup {Idle}]
           /\ handler'[h].pc = "committed"
           /\ \A g \in Handlers \ {h} : handler'[g] = handler[g]
<1>1. [pc |-> "committed", calls |-> calls, event |-> event] \in Committed
  BY DEF Committed
<1> QED
  BY <1>1 DEF Commit, TypeOK, Handling

(* A handler in the middle of its work has the fields its step promises. *)
LEMMA HandlerFields ==
    ASSUME TypeOK, NEW h \in Handlers
    PROVE  /\ At(h, "checking") => handler[h] \in Checking
           /\ At(h, "returning") => handler[h] \in Returning
           /\ At(h, "committed") => handler[h] \in Committed
BY DEF TypeOK, At, Handling, Checking, Returning, Committed

(* A penalty is a natural number, and is at most the days over the due date. *)
LEMMA PenaltyBounded ==
    ASSUME NEW row \in Order, NEW d \in Nat
    PROVE  /\ Penalty(row, d) \in Nat
           /\ Penalty(row, d) > 0 => /\ d > row.due
                                     /\ Penalty(row, d) = (d - row.due) * DailyPenalty
<1>1. row.due \in Nat /\ DailyPenalty \in Nat
  BY OrderServiceAssumption DEF Order
<1>2. CASE row.returned = NoDate /\ d > row.due
  <2>1. d - row.due \in Nat
    BY <1>1, <1>2
  <2>2. (d - row.due) * DailyPenalty \in Nat
    BY <1>1, <2>1
  <2> QED
    BY <1>2, <2>2 DEF Penalty
<1>3. CASE ~(row.returned = NoDate /\ d > row.due)
  BY <1>3 DEF Penalty
<1> QED
  BY <1>2, <1>3

(* More days cost more. *)
LEMMA ChargeGrows ==
    ASSUME NEW a \in Int, NEW b \in Int, NEW c \in Nat, a <= b
    PROVE  a * c <= b * c
<1>1. PICK k \in Nat : b = a + k
  <2>1. b - a \in Nat /\ b = a + (b - a)
    OBVIOUS
  <2> QED
    BY <2>1
<1>2. b * c = a * c + k * c
  BY <1>1
<1>3. k * c \in Nat
  OBVIOUS
<1> QED
  BY <1>2, <1>3

(* Counting a return, or another decision, leaves a tally. *)
LEMMA ReturnCounted ==
    ASSUME NEW t \in Tally, NEW d \in Nat, NEW n \in Nat
    PROVE  [t EXCEPT !.decisions = d, !.returns = n] \in Tally
BY DEF Tally

LEMMA DecisionCounted ==
    ASSUME NEW t \in Tally, NEW d \in Nat, NEW n \in Nat
    PROVE  [t EXCEPT !.decisions = d, !.reopenings = n] \in Tally
BY DEF Tally

(* A row that is stored is an order; every change of a row leaves one. *)
LEMMA StoredIsOrder ==
    ASSUME TypeOK, NEW o \in OrderIds, Stored(o)
    PROVE  orders[o] \in Order
BY DEF TypeOK, Stored

------------------------------------------------------------------------------
LEMMA InitInv == Init => Inv
<1> SUFFICES ASSUME Init PROVE Inv
  OBVIOUS
<1>1. NoTransitions \in Tally
  BY DEF NoTransitions, Tally
<1>2. TypeOK
  BY <1>1, OrderServiceAssumption DEF Init, TypeOK
<1>3. TallySound
  BY DEF Init, TallySound, Stored, NoTransitions
<1>4. ReturningSound
  BY DEF Init, ReturningSound, At
<1>5. NeverOvercharged
  BY DEF Init, NeverOvercharged, Stored
<1> QED
  BY <1>2, <1>3, <1>4, <1>5 DEF Inv

(* Steps that leave the tables alone. *)
LEMMA QuietStepInv ==
    ASSUME Inv,
           UNCHANGED <<orders, tally>>,
           handler' \in [Handlers -> Handling \cup {Idle}],
           \A h \in Handlers : At(h, "returning")' => handler'[h] = handler[h],
           day' \in 0..MaxDay,
           spawned' \in [Calls -> Nat],
           emitted' \in [Events -> Nat]
    PROVE  Inv'
<1>1. TypeOK'
  BY DEF Inv, TypeOK
<1>2. TallySound'
  BY DEF Inv, TallySound, Stored, NoTransitions
<1>3. ReturningSound'
  BY DEF Inv, ReturningSound, At, Stored
<1>4. NeverOvercharged'
  BY DEF Inv, NeverOvercharged, Stored
<1> QED
  BY <1>1, <1>2, <1>3, <1>4 DEF Inv

LEMMA StartCreateInv ==
    ASSUME Inv, NEW h \in Handlers, NEW user \in Users, NEW ids \in BookLists,
           NEW days \in BorrowDays, StartCreate(h, user, ids, days)
    PROVE  Inv'
<1> DEFINE new == [pc |-> "checking", user |-> user, ids |-> ids, days |-> days, checked |-> {}]
<1>1. new \in Handling
  BY DEF Handling, Checking
<1>2. handler' = [handler EXCEPT ![h] = new]
  BY DEF StartCreate
<1>3. handler' \in [Handlers -> Handling \cup {Idle}]
  BY <1>1, <1>2 DEF Inv, TypeOK
<1>4. \A g \in Handlers : At(g, "returning")' => handler'[g] = handler[g]
  BY <1>2 DEF At, Inv, TypeOK
<1> QED
  BY <1>3, <1>4, QuietStepInv DEF StartCreate, Inv, TypeOK

LEMMA BookCheckedInv ==
    ASSUME Inv, NEW h \in Handlers, NEW b \in BookIds, BookChecked(h, b)
    PROVE  Inv'
<1>1. handler[h] \in Checking
  BY HandlerFields DEF BookChecked, Inv
<1>2. handler' = [handler EXCEPT ![h].checked = handler[h].checked \cup {b}]
  BY DEF BookChecked
<1>3. handler'[h] = [handler[h] EXCEPT !.checked = handler[h].checked \cup {b}]
  BY <1>2 DEF Inv, TypeOK
<1>4. handler'[h] \in Checking
  BY <1>1, <1>3 DEF Checking
<1>5. handler' \in [Handlers -> Handling \cup {Idle}]
  BY <1>2, <1>4 DEF Handling, Inv, TypeOK
<1>6. \A g \in Handlers : At(g, "returning")' => handler'[g] = handler[g]
  BY <1>2, <1>4 DEF At, Checking, Inv, TypeOK
<1> QED
  BY <1>5, <1>6, QuietStepInv DEF BookChecked, Inv, TypeOK

(* Steps that end with a commit on order o: what must be shown of the new row *)
(* and of the new tally of o is local.                                        *)
LEMMA CommitStepInv ==
    ASSUME Inv, NEW h \in Handlers, NEW o \in OrderIds, NEW row \in Order, NEW t \in Tally,
           NEW calls \in SUBSET Calls, NEW event \in Events,
           orders' = [orders EXCEPT ![o] = row],
           tally' = [tally EXCEPT ![o] = t],
           Commit(h, calls, event),
           UNCHANGED <<day, spawned, emitted>>,
           Stored(o) => row.due = orders[o].due,
           row.status = "PENDING" => t.cancels <= t.reopenings,
           t.cancels <= 1 + t.reopenings,
           row.penalty > 0 => /\ row.returned # NoDate
                              /\ row.penalty <= (row.returned - row.due) * DailyPenalty
    PROVE  Inv'
<1>1. orders'[o] = row /\ \A p \in OrderIds \ {o} : orders'[p] = orders[p]
  BY DEF Inv, TypeOK
<1>2. tally'[o] = t /\ \A p \in OrderIds \ {o} : tally'[p] = tally[p]
  BY DEF Inv, TypeOK
<1>3. row # NoOrder
  BY OrderServiceAssumption
<1>4. /\ handler' \in [Handlers -> Handling \cup {Idle}]
      /\ handler'[h].pc = "committed"
      /\ \A g \in Handlers \ {h} : handler'[g] = handler[g]
  BY CommitType DEF Inv
<1>5. TypeOK'
  BY <1>4 DEF Inv, TypeOK
<1>6. TallySound'
  BY <1>1, <1>2, <1>3 DEF Inv, TallySound, Stored, NoTransitions
<1>7. ReturningSound'
  <2> SUFFICES ASSUME NEW g \in Handlers, At(g, "returning")'
               PROVE  /\ orders'[handler'[g].order] # NoOrder
                      /\ orders'[handler'[g].order].due = handler'[g].seen.due
    BY DEF ReturningSound, Stored
  <2>1. g # h /\ handler'[g] = handler[g]
    BY <1>4 DEF At
  <2>2. At(g, "returning")
    BY <2>1 DEF At
  <2>3. handler[g].order \in OrderIds
    BY <2>2, HandlerFields DEF Inv, Returning
  <2>4. Stored(handler[g].order) /\ orders[handler[g].order].due = handler[g].seen.due
    BY <2>2 DEF Inv, ReturningSound
  <2> QED
    BY <2>1, <2>3, <2>4, <1>1, <1>3 DEF Stored
<1>8. NeverOvercharged'
  BY <1>1 DEF Inv, NeverOvercharged, Stored
<1> QED
  BY <1>5, <1>6, <1>7, <1>8 DEF Inv

LEMMA PlaceOrderInv ==
    ASSUME Inv, NEW h \in Handlers, NEW o \in OrderIds, PlaceOrder(h, o)
    PROVE  Inv'
<1> DEFINE user == handler[h].user
           ids == handler[h].ids
           row == [user |-> user, books |-> Range(ids), status |-> "PENDING",
                   due |-> day + handler[h].days, returned |-> NoDate, penalty |-> 0]
           event == [type |-> "order.created", order |-> o, user |-> user]
<1>1. handler[h] \in Checking
  BY HandlerFields DEF PlaceOrder, Inv
<1>2. user \in Users /\ ids \in BookLists /\ handler[h].days \in Nat
  BY <1>1, OrderServiceAssumption DEF Checking
<1>3. Range(ids) \in SUBSET BookIds
  BY <1>2, OrderServiceAssumption
<1>4. day \in Nat
  BY OrderServiceAssumption DEF Inv, TypeOK
<1>5. row \in Order
  BY <1>2, <1>3, <1>4 DEF Order, Statuses
<1>6. CallsFor(o, Range(ids), -1) \in SUBSET Calls
  BY <1>3, CallsForType
<1>7. event \in Events
  BY <1>2 DEF Events, CreatedEvent
<1>8. ~Stored(o) /\ tally[o] = NoTransitions
  BY DEF PlaceOrder, Inv, TallySound
<1>9. tally' = [tally EXCEPT ![o] = NoTransitions]
  BY <1>8 DEF PlaceOrder, Inv, TypeOK
<1>10. NoTransitions \in Tally /\ NoTransitions.cancels = 0 /\ NoTransitions.reopenings = 0
  BY DEF NoTransitions, Tally
<1>11. orders' = [orders EXCEPT ![o] = row] /\ Commit(h, CallsFor(o, Range(ids), -1), event)
  BY DEF PlaceOrder
<1>12. UNCHANGED <<day, spawned, emitted>>
  BY DEF PlaceOrder
<1>13. /\ NoTransitions.cancels <= NoTransitions.reopenings
       /\ NoTransitions.cancels <= 1 + NoTransitions.reopenings
  BY <1>10
<1>14. row.penalty > 0 => /\ row.returned # NoDate
                          /\ row.penalty <= (row.returned - row.due) * DailyPenalty
  OBVIOUS
<1>15. Stored(o) => row.due = orders[o].due
  BY <1>8
<1> HIDE DEF row, event
<1> QED
  BY <1>14, <1>15, <1>5, <1>6, <1>7, <1>8, <1>9, <1>10, <1>11, <1>12, <1>13, CommitStepInv

LEMMA CancelOrderInv ==
    ASSUME Inv, NEW h \in Handlers, NEW o \in OrderIds, NEW user \in Users,
           CancelOrder(h, o, user)
    PROVE  Inv'
<1> DEFINE row == [orders[o] EXCEPT !.status = "CANCELED"]
           t == [tally[o] EXCEPT !.cancels = tally[o].cancels + 1]
           event == [type |-> "order.canceled", order |-> o, user |-> user]
           calls == CallsFor(o, orders[o].books, 1)
<1>1. Stored(o) /\ orders[o] \in Order /\ tally[o] \in Tally
  BY StoredIsOrder DEF CancelOrder, Inv, TypeOK
<1>2. /\ row \in Order
      /\ row.status = "CANCELED"
      /\ row.due = orders[o].due
      /\ row.penalty = orders[o].penalty
      /\ row.returned = orders[o].returned
  BY <1>1 DEF Order, Statuses
<1>3. /\ t \in Tally
      /\ t.cancels = tally[o].cancels + 1
      /\ t.reopenings = tally[o].reopenings
      /\ t.cancels \in Nat /\ t.reopenings \in Nat /\ tally[o].cancels \in Nat
  BY <1>1 DEF Tally
<1>4. tally[o].cancels <= tally[o].reopenings
  BY <1>1 DEF CancelOrder, Inv, TallySound
<1>5. calls \in SUBSET Calls
  BY <1>1, CallsForType DEF Order
<1>6. event \in Events
  BY DEF Events, CanceledEvent
<1>7. /\ orders' = [orders EXCEPT ![o] = row]
      /\ tally' = [tally EXCEPT ![o] = t]
      /\ Commit(h, calls, event)
      /\ UNCHANGED <<day, spawned, emitted>>
  BY DEF CancelOrder
<1>8. row.penalty > 0 => /\ row.returned # NoDate
                         /\ row.penalty <= (row.returned - row.due) * DailyPenalty
  BY <1>1, <1>2 DEF Inv, NeverOvercharged
<1>9. row.status # "PENDING" /\ t.cancels <= 1 + t.reopenings
  BY <1>2, <1>3, <1>4
<1> HIDE DEF row, t, event, calls
<1> QED
  BY <1>2, <1>3, <1>5, <1>6, <1>7, <1>8, <1>9, CommitStepInv

LEMMA UpdateStatusInv ==
    ASSUME Inv, NEW h \in Handlers, NEW o \in OrderIds, NEW status \in Decisions,
           UpdateStatus(h, o, status)
    PROVE  Inv'
<1> DEFINE row == [orders[o] EXCEPT !.status = status]
           reopened == IF status = "PENDING" THEN tally[o].reopenings + 1 ELSE tally[o].reopenings
           t == [tally[o] EXCEPT !.decisions = tally[o].decisions + 1, !.reopenings = reopened]
           event == [type |-> "order.status_updated", order |-> o, status |-> status]
<1>1. Stored(o) /\ orders[o] \in Order /\ tally[o] \in Tally /\ status \in Statuses
  BY StoredIsOrder, OrderServiceAssumption DEF UpdateStatus, Inv, TypeOK
<1>2. /\ row \in Order
      /\ row.status = status
      /\ row.due = orders[o].due
      /\ row.penalty = orders[o].penalty
      /\ row.returned = orders[o].returned
  BY <1>1 DEF Order
<1>3. /\ t \in Tally
      /\ t.cancels = tally[o].cancels
      /\ t.reopenings = reopened
      /\ tally[o].cancels \in Nat /\ tally[o].reopenings \in Nat
  <2>1. /\ tally[o].cancels \in Nat
        /\ tally[o].reopenings \in Nat
        /\ tally[o].decisions + 1 \in Nat
        /\ reopened \in Nat
    BY <1>1 DEF Tally
  <2> HIDE DEF reopened
  <2>2. t \in Tally
    BY <1>1, <2>1, DecisionCounted
  <2>3. t.cancels = tally[o].cancels /\ t.reopenings = reopened
    BY <1>1, <2>1 DEF Tally
  <2> QED
    BY <2>1, <2>2, <2>3
<1>4. tally[o].cancels <= 1 + tally[o].reopenings
  BY DEF Inv, TallySound
<1>5. {} \in SUBSET Calls /\ event \in Events
  BY <1>1 DEF Events, UpdatedEvent
<1>6. /\ orders' = [orders EXCEPT ![o] = row]
      /\ tally' = [tally EXCEPT ![o] = t]
      /\ Commit(h, {}, event)
      /\ UNCHANGED <<day, spawned, emitted>>
  BY DEF UpdateStatus
<1>7. row.penalty > 0 => /\ row.returned # NoDate
                         /\ row.penalty <= (row.returned - row.due) * DailyPenalty
  BY <1>1, <1>2 DEF Inv, NeverOvercharged
<1>8. /\ row.status = "PENDING" => t.cancels <= t.reopenings
      /\ t.cancels <= 1 + t.reopenings
  BY <1>2, <1>3, <1>4
<1> HIDE DEF row, t, event
<1> QED
  BY <1>2, <1>3, <1>5, <1>6, <1>7, <1>8, CommitStepInv

LEMMA StartReturnInv ==
    ASSUME Inv, NEW h \in Handlers, NEW o \in OrderIds, StartReturn(h, o)
    PROVE  Inv'
<1> DEFINE new == [pc |-> "returning", order |-> o, seen |-> orders[o], since |-> day]
<1>1. Stored(o) /\ orders[o] \in Order /\ day \in Nat
  BY StoredIsOrder, OrderServiceAssumption DEF StartReturn, Inv, TypeOK
<1>2. new \in Returning
  BY <1>1 DEF Returning
<1>3. handler' = [handler EXCEPT ![h] = new]
  BY DEF StartReturn
<1>4. UNCHANGED <<orders, day, spawned, emitted, tally>>
  BY DEF StartReturn
<1>5. TypeOK'
  BY <1>2, <1>3, <1>4 DEF Handling, Inv, TypeOK
<1>6. TallySound' /\ NeverOvercharged'
  BY <1>4 DEF Inv, TallySound, NeverOvercharged, Stored, NoTransitions
<1>7. handler'[h] = new /\ \A g \in Handlers \ {h} : handler'[g] = handler[g]
  BY <1>3 DEF Inv, TypeOK
<1>8. ReturningSound'
  BY <1>1, <1>4, <1>7 DEF Inv, ReturningSound, At, Stored
<1> QED
  BY <1>5, <1>6, <1>8 DEF Inv

(* The penalty was asked for on a day not later than the recorded return, of a *)
(* row with the due date the order still has.                                  *)
LEMMA FinishReturnInv ==
    ASSUME Inv, NEW h \in Handlers, NEW asked \in 0..MaxDay, FinishReturn(h, asked)
    PROVE  Inv'
<1> DEFINE o == handler[h].order
           seen == handler[h].seen
           row == [orders[o] EXCEPT !.status = "RETURNED", !.returned = day,
                                    !.penalty = Penalty(seen, asked)]
           t == [tally[o] EXCEPT !.decisions = tally[o].decisions + 1,
                                 !.returns = tally[o].returns + 1]
           event == [type |-> "order.status_updated", order |-> o, status |-> "RETURNED"]
           calls == CallsFor(o, seen.books, 1)
<1>1. At(h, "returning") /\ asked \in handler[h].since..day
  BY DEF FinishReturn
<1>2. o \in OrderIds /\ seen \in Order /\ handler[h].since \in Nat
  BY <1>1, HandlerFields DEF Inv, Returning
<1>3. Stored(o) /\ orders[o].due = seen.due
  BY <1>1 DEF Inv, ReturningSound
<1>4. orders[o] \in Order /\ tally[o] \in Tally /\ day \in Nat /\ asked \in Nat
  BY <1>2, <1>3, StoredIsOrder, OrderServiceAssumption DEF Inv, TypeOK
<1>5. Penalty(seen, asked) \in Nat
  BY <1>2, <1>4, PenaltyBounded
<1>6. /\ row \in Order
      /\ row.status = "RETURNED"
      /\ row.due = seen.due
      /\ row.penalty = Penalty(seen, asked)
      /\ row.returned = day
  BY <1>3, <1>4, <1>5 DEF Order, Statuses
<1>7. /\ t \in Tally
      /\ t.cancels = tally[o].cancels
      /\ t.reopenings = tally[o].reopenings
  <2>1. tally[o].decisions + 1 \in Nat /\ tally[o].returns + 1 \in Nat
    BY <1>4 DEF Tally
  <2>2. t \in Tally
    BY <1>4, <2>1, ReturnCounted
  <2>3. t.cancels = tally[o].cancels /\ t.reopenings = tally[o].reopenings
    BY <1>4 DEF Tally
  <2> QED
    BY <2>2, <2>3
<1>8. t.cancels <= 1 + t.reopenings
  BY <1>2, <1>7 DEF Inv, TallySound
<1>9. calls \in SUBSET Calls
  BY <1>2, CallsForType DEF Order
<1>10. event \in Events
  BY <1>2 DEF Events, UpdatedEvent, Statuses
<1>11. /\ orders' = [orders EXCEPT ![o] = row]
       /\ tally' = [tally EXCEPT ![o] = t]
       /\ Commit(h, calls, event)
       /\ UNCHANGED <<day, spawned, emitted>>
  BY DEF FinishReturn
<1>12. row.penalty > 0 => /\ row.returned # NoDate
                          /\ row.penalty <= (row.returned - row.due) * DailyPenalty
  <2> SUFFICES ASSUME Penalty(seen, asked) > 0
               PROVE  day # NoDate /\ Penalty(seen, asked) <= (day - seen.due) * DailyPenalty
    BY <1>6
  <2>1. Penalty(seen, asked) = (asked - seen.due) * DailyPenalty
    BY <1>2, <1>4, PenaltyBounded
  <2>2. asked - seen.due \in Int /\ day - seen.due \in Int /\ asked - seen.due <= day - seen.due
    BY <1>1, <1>2, <1>4 DEF Order
  <2>3. (asked - seen.due) * DailyPenalty <= (day - seen.due) * DailyPenalty
    BY <2>2, ChargeGrows, OrderServiceAssumption
  <2>4. day # NoDate
    BY <1>4, OrderServiceAssumption
  <2> QED
    BY <2>1, <2>3, <2>4
<1>13. row.status # "PENDING"
  BY <1>6
<1> HIDE DEF row, t, event, calls
<1> QED
  BY <1>2, <1>3, <1>6, <1>7, <1>8, <1>9, <1>10, <1>11, <1>12, <1>13, CommitStepInv

LEMMA StartEffectsInv ==
    ASSUME Inv, NEW h \in Handlers, StartEffects(h)
    PROVE  Inv'
<1>1. handler[h] \in Committed
  BY HandlerFields DEF StartEffects, Inv
<1>2. spawned' \in [Calls -> Nat]
  BY DEF StartEffects, Inv, TypeOK
<1>3. emitted' \in [Events -> Nat]
  <2>1. emitted' = [emitted EXCEPT ![handler[h].event] = emitted[handler[h].event] + 1]
    BY DEF StartEffects
  <2>2. emitted \in [Events -> Nat]
    BY DEF Inv, TypeOK
  <2>3. handler[h].event \in Events
    BY <1>1 DEF Committed
  <2>4. emitted[handler[h].event] + 1 \in Nat
    BY <2>2, <2>3
  <2> QED
    BY <2>1, <2>2, <2>4
<1>4. handler' = [handler EXCEPT ![h] = Idle] /\ UNCHANGED <<orders, day, tally>>
  BY DEF StartEffects
<1>5. handler' \in [Handlers -> Handling \cup {Idle}]
  BY <1>4 DEF Inv, TypeOK
<1>6. \A g \in Handlers : At(g, "returning")' => handler'[g] = handler[g]
  BY <1>4 DEF At, Inv, TypeOK
<1> QED
  BY <1>2, <1>3, <1>4, <1>5, <1>6, QuietStepInv DEF Inv, TypeOK

LEMMA HandlerDiesInv ==
    ASSUME Inv, NEW h \in Handlers, HandlerDies(h)
    PROVE  Inv'
<1>1. handler' = [handler EXCEPT ![h] = Idle] /\ UNCHANGED <<orders, day, spawned, emitted, tally>>
  BY DEF HandlerDies
<1>2. handler' \in [Handlers -> Handling \cup {Idle}]
  BY <1>1 DEF Inv, TypeOK
<1>3. \A g \in Handlers : At(g, "returning")' => handler'[g] = handler[g]
  BY <1>1 DEF At, Inv, TypeOK
<1> QED
  BY <1>1, <1>2, <1>3, QuietStepInv DEF Inv, TypeOK

LEMMA DayPassesInv ==
    ASSUME Inv, DayPasses
    PROVE  Inv'
<1>1. day' \in 0..MaxDay
  BY OrderServiceAssumption DEF DayPasses, Inv, TypeOK
<1> QED
  BY <1>1, QuietStepInv DEF DayPasses, Inv, TypeOK

LEMMA NextInv == Inv /\ [Next]_vars => Inv'
<1> SUFFICES ASSUME Inv, [Next]_vars PROVE Inv'
  OBVIOUS
<1>1. CASE UNCHANGED vars
  BY <1>1, QuietStepInv DEF vars, Inv, TypeOK
<1>2. ASSUME NEW h \in Handlers, NEW user \in Users, NEW ids \in BookLists,
             NEW days \in BorrowDays, StartCreate(h, user, ids, days)
      PROVE  Inv'
  BY <1>2, StartCreateInv
<1>3. ASSUME NEW h \in Handlers, NEW b \in BookIds, BookChecked(h, b)
      PROVE  Inv'
  BY <1>3, BookCheckedInv
<1>4. ASSUME NEW h \in Handlers, NEW o \in OrderIds, PlaceOrder(h, o) \/ StartReturn(h, o)
      PROVE  Inv'
  BY <1>4, PlaceOrderInv, StartReturnInv
<1>5. ASSUME NEW h \in Handlers, NEW o \in OrderIds, NEW user \in Users, CancelOrder(h, o, user)
      PROVE  Inv'
  BY <1>5, CancelOrderInv
<1>6. ASSUME NEW h \in Handlers, NEW o \in OrderIds, NEW status \in Decisions,
             UpdateStatus(h, o, status)
      PROVE  Inv'
  BY <1>6, UpdateStatusInv
<1>7. ASSUME NEW h \in Handlers, NEW asked \in 0..MaxDay, FinishReturn(h, asked)
      PROVE  Inv'
  BY <1>7, FinishReturnInv
<1>8. ASSUME NEW h \in Handlers, StartEffects(h) \/ HandlerDies(h)
      PROVE  Inv'
  BY <1>8, StartEffectsInv, HandlerDiesInv
<1>9. CASE DayPasses
  BY <1>9, DayPassesInv
<1> QED
  BY <1>1, <1>2, <1>3, <1>4, <1>5, <1>6, <1>7, <1>8, <1>9 DEF Next

(* Inv holds in every reachable state; the theorems below are parts of it. *)
THEOREM InvHolds == Spec => []Inv
<1> QED
  BY InitInv, NextInv, PTL DEF Spec

(* Orders, handlers and the counts of background work stay well-typed. *)
THEOREM TypeCorrect == Spec => []TypeOK
<1>1. Inv => TypeOK
  BY DEF Inv
<1> QED
  BY <1>1, InvHolds, PTL

(* However many borrowers' cancellations and managers' decisions race, an order *)
(* is canceled by its borrower once per time it was open.                       *)
THEOREM CancelsAreEarned == Spec => []CanceledOncePerOpening
<1>1. Inv => CanceledOncePerOpening
  BY DEF Inv, TallySound, CanceledOncePerOpening
<1> QED
  BY <1>1, InvHolds, PTL

(* Returns that race, and days that pass in the middle of one, never charge a *)
(* borrower for more days than the order was late.                            *)
THEOREM ChargesAreBounded == Spec => []NeverOvercharged
<1>1. Inv => NeverOvercharged
  BY DEF Inv
<1> QED
  BY <1>1, InvHolds, PTL
------------------------------------------------------------------------------
\* Handlers that owe the call c, the event e, a round of release calls for o.
Owing(c)      == {h \in Handlers : At(h, "committed") /\ c \in handler[h].calls}
Announcing(e) == {h \in Handlers : At(h, "committed") /\ handler[h].event = e}
Releasers(o)  == {h \in Handlers : Releasing(h, o)}

CallBound(c) ==
    IF c.change = 1 THEN tally[c.order].cancels + tally[c.order].returns
    ELSE IF Stored(c.order) /\ c.book \in orders[c.order].books THEN 1 ELSE 0

Named(e) == Stored(e.order) /\ orders[e.order].user = e.user

EventBound(e) ==
    IF e.type = "order.status_updated" THEN tally[e.order].decisions
    ELSE IF ~Named(e) THEN 0
    ELSE IF e.type = "order.created" THEN 1 ELSE tally[e.order].cancels

CallsSound  == \A c \in Calls : spawned[c] + Cardinality(Owing(c)) <= CallBound(c)
EventsSound == \A e \in Events : emitted[e] + Cardinality(Announcing(e)) <= EventBound(e)

\* The calls a handler may owe: none, or one for each book of a stored order.
Load(calls) ==
    \/ calls = {}
    \/ \E o \in OrderIds, change \in {-1, 1} :
          Stored(o) /\ calls = CallsFor(o, orders[o].books, change)

LoadsFit ==
    /\ \A o \in OrderIds : Stored(o) => orders[o].books # {}
    /\ \A h \in Handlers :
        /\ At(h, "returning") => handler[h].seen.books = orders[handler[h].order].books
        /\ At(h, "committed") => Load(handler[h].calls)

\* The counters and their bounds are natural numbers.
CountsNatural ==
    /\ \A c \in Calls : /\ spawned[c] \in Nat
                        /\ CallBound(c) \in Nat
                        /\ Cardinality(Owing(c)) \in Nat
    /\ \A e \in Events : /\ emitted[e] \in Nat
                         /\ EventBound(e) \in Nat
                         /\ Cardinality(Announcing(e)) \in Nat

EffectsInv ==
    /\ Inv
    /\ CallsSound
    /\ EventsSound
    /\ LoadsFit

------------------------------------------------------------------------------
(* One handler joins a set of handlers or leaves it. *)
LEMMA OneJoins ==
    ASSUME NEW S \in SUBSET Handlers, NEW h \in Handlers, h \notin S
    PROVE  /\ Cardinality(S) \in Nat
           /\ Cardinality(S \cup {h}) = Cardinality(S) + 1
<1>1. IsFiniteSet(S)
  BY FS_Subset, OrderServiceAssumption
<1> QED
  BY <1>1, FS_AddElement, FS_CardinalityType

LEMMA OneLeaves ==
    ASSUME NEW S \in SUBSET Handlers, NEW h \in Handlers
    PROVE  /\ Cardinality(S) \in Nat
           /\ Cardinality(S \ {h}) \in Nat
           /\ Cardinality(S \ {h}) = IF h \in S THEN Cardinality(S) - 1 ELSE Cardinality(S)
<1>1. IsFiniteSet(S)
  BY FS_Subset, OrderServiceAssumption
<1> QED
  BY <1>1, FS_RemoveElement, FS_CardinalityType

LEMMA NoneOwes == Cardinality({}) = 0
BY FS_EmptySet

(* Well-typed tables give counts of their type. *)
LEMMA CountsAreNaturals == TypeOK => CountsNatural
<1> SUFFICES ASSUME TypeOK PROVE CountsNatural
  OBVIOUS
<1>1. ASSUME NEW c \in Calls
      PROVE  /\ spawned[c] \in Nat
             /\ CallBound(c) \in Nat
             /\ Cardinality(Owing(c)) \in Nat
  <2>1. c.order \in OrderIds
    BY DEF Calls
  <2>2. tally[c.order].cancels \in Nat /\ tally[c.order].returns \in Nat
    BY <2>1 DEF TypeOK, Tally
  <2>3. Owing(c) \in SUBSET Handlers
    BY DEF Owing
  <2>4. Cardinality(Owing(c)) \in Nat
    BY <2>3, FS_Subset, FS_CardinalityType, OrderServiceAssumption
  <2> QED
    BY <2>2, <2>4 DEF CallBound, TypeOK
<1>2. ASSUME NEW e \in Events
      PROVE  /\ emitted[e] \in Nat
             /\ EventBound(e) \in Nat
             /\ Cardinality(Announcing(e)) \in Nat
  <2>1. e.order \in OrderIds
    BY DEF Events, CreatedEvent, CanceledEvent, UpdatedEvent
  <2>2. tally[e.order].cancels \in Nat /\ tally[e.order].decisions \in Nat
    BY <2>1 DEF TypeOK, Tally
  <2>3. EventBound(e) \in Nat
    BY <2>2 DEF EventBound
  <2>4. Announcing(e) \in SUBSET Handlers
    BY DEF Announcing
  <2>5. Cardinality(Announcing(e)) \in Nat
    BY <2>4, FS_Subset, FS_CardinalityType, OrderServiceAssumption
  <2> QED
    BY <2>3, <2>5 DEF TypeOK
<1> QED
  BY <1>1, <1>2 DEF CountsNatural

(* What CallBound and EventBound rest on does not change where the tables do not. *)
LEMMA QuietEffects ==
    ASSUME EffectsInv, Inv',
           UNCHANGED <<orders, tally, spawned, emitted>>,
           \A g \in Handlers : At(g, "committed")' => handler'[g] = handler[g],
           \A g \in Handlers : At(g, "returning")' =>
               handler'[g].seen.books = orders[handler'[g].order].books
    PROVE  EffectsInv'
<1>1. CallsSound'
  <2> SUFFICES ASSUME NEW c \in Calls
               PROVE  spawned'[c] + Cardinality(Owing(c)') <= CallBound(c)'
    BY DEF CallsSound
  <2>1. CallBound(c)' = CallBound(c)
    BY DEF CallBound, Stored
  <2>2. Owing(c)' = Owing(c) \ {h \in Handlers : ~At(h, "committed")'}
    BY DEF Owing, At
  <2>3. Owing(c)' \in SUBSET Owing(c) /\ Owing(c) \in SUBSET Handlers
    BY <2>2 DEF Owing
  <2>4. IsFiniteSet(Owing(c))
    BY <2>3, FS_Subset, OrderServiceAssumption
  <2>5. Cardinality(Owing(c)') <= Cardinality(Owing(c))
    BY <2>3, <2>4, FS_Subset
  <2>6. Cardinality(Owing(c)') \in Nat /\ Cardinality(Owing(c)) \in Nat /\ spawned[c] \in Nat
    BY <2>3, <2>4, FS_Subset, FS_CardinalityType, CountsAreNaturals DEF EffectsInv, Inv, CountsNatural
  <2>7. CallBound(c) \in Nat /\ spawned[c] + Cardinality(Owing(c)) <= CallBound(c)
    BY CountsAreNaturals DEF EffectsInv, Inv, CountsNatural, CallsSound
  <2> QED
    BY <2>1, <2>5, <2>6, <2>7
<1>2. EventsSound'
  <2> SUFFICES ASSUME NEW e \in Events
               PROVE  emitted'[e] + Cardinality(Announcing(e)') <= EventBound(e)'
    BY DEF EventsSound
  <2>1. EventBound(e)' = EventBound(e)
    BY DEF EventBound, Named, Stored
  <2>2. Announcing(e)' \in SUBSET Announcing(e) /\ Announcing(e) \in SUBSET Handlers
    BY DEF Announcing, At
  <2>3. IsFiniteSet(Announcing(e))
    BY <2>2, FS_Subset, OrderServiceAssumption
  <2>4. Cardinality(Announcing(e)') <= Cardinality(Announcing(e))
    BY <2>2, <2>3, FS_Subset
  <2>5. /\ Cardinality(Announcing(e)') \in Nat
        /\ Cardinality(Announcing(e)) \in Nat
        /\ emitted[e] \in Nat
    BY <2>2, <2>3, FS_Subset, FS_CardinalityType, CountsAreNaturals DEF EffectsInv, Inv, CountsNatural
  <2>6. EventBound(e) \in Nat /\ emitted[e] + Cardinality(Announcing(e)) <= EventBound(e)
    BY CountsAreNaturals DEF EffectsInv, Inv, CountsNatural, EventsSound
  <2> QED
    BY <2>1, <2>4, <2>5, <2>6
<1>3. LoadsFit'
  BY DEF EffectsInv, LoadsFit, Load, Stored, At
<1> QED
  BY <1>1, <1>2, <1>3 DEF EffectsInv

(* A commit: the handler owes its calls and its event from here on, and the *)
(* bounds of just these have grown.                                         *)
LEMMA CommitEffects ==
    ASSUME EffectsInv, Inv', NEW h \in Handlers,
           NEW calls \in SUBSET Calls, NEW event \in Events,
           ~At(h, "committed"), Commit(h, calls, event),
           UNCHANGED <<spawned, emitted>>,
           \A c \in Calls : CallBound(c)' >= CallBound(c) /\
               (c \in calls => CallBound(c)' >= CallBound(c) + 1),
           \A e \in Events : EventBound(e)' >= EventBound(e),
           EventBound(event)' >= EventBound(event) + 1,
           \A p \in OrderIds : Stored(p) =>
               Stored(p)' /\ orders'[p].books = orders[p].books,
           \A p \in OrderIds : Stored(p)' => orders'[p].books # {},
           Load(calls)'
    PROVE  EffectsInv'
<1>1. TypeOK /\ TypeOK'
  BY DEF EffectsInv, Inv
<1>2. CountsNatural /\ CountsNatural'
  BY <1>1, CountsAreNaturals, PTL
<1>3. /\ handler'[h].pc = "committed" /\ handler'[h].calls = calls /\ handler'[h].event = event
      /\ handler'[h] # Idle
      /\ \A g \in Handlers \ {h} : handler'[g] = handler[g]
  <2>1. [pc |-> "committed", calls |-> calls, event |-> event] \in Handling
    BY DEF Handling, Committed
  <2> QED
    BY <2>1, OrderServiceAssumption DEF Commit, EffectsInv, Inv, TypeOK
<1>4. CallsSound'
  <2> SUFFICES ASSUME NEW c \in Calls
               PROVE  spawned[c] + Cardinality(Owing(c)') <= CallBound(c)'
    BY DEF CallsSound
  <2>1. Owing(c)' = IF c \in calls THEN Owing(c) \cup {h} ELSE Owing(c)
    BY <1>3 DEF Owing, At
  <2>2. h \notin Owing(c) /\ Owing(c) \in SUBSET Handlers
    BY DEF Owing
  <2>3. /\ Cardinality(Owing(c)) \in Nat
        /\ Cardinality(Owing(c) \cup {h}) = Cardinality(Owing(c)) + 1
    BY <2>2, OneJoins
  <2>4. spawned[c] \in Nat /\ CallBound(c) \in Nat /\ CallBound(c)' \in Nat
    BY <1>2 DEF CountsNatural
  <2>5. spawned[c] + Cardinality(Owing(c)) <= CallBound(c)
    BY DEF EffectsInv, CallsSound
  <2>6. CASE c \in calls
    <3>1. CallBound(c)' >= CallBound(c) + 1 /\ Owing(c)' = Owing(c) \cup {h}
      BY <2>1, <2>6
    <3> QED
      BY <3>1, <2>3, <2>4, <2>5
  <2>7. CASE c \notin calls
    <3>1. CallBound(c)' >= CallBound(c) /\ Owing(c)' = Owing(c)
      BY <2>1, <2>7
    <3> QED
      BY <3>1, <2>3, <2>4, <2>5
  <2> QED
    BY <2>6, <2>7
<1>5. EventsSound'
  <2> SUFFICES ASSUME NEW e \in Events
               PROVE  emitted[e] + Cardinality(Announcing(e)') <= EventBound(e)'
    BY DEF EventsSound
  <2>1. Announcing(e)' = IF e = event THEN Announcing(e) \cup {h} ELSE Announcing(e)
    BY <1>3 DEF Announcing, At
  <2>2. h \notin Announcing(e) /\ Announcing(e) \in SUBSET Handlers
    BY DEF Announcing
  <2>3. /\ Cardinality(Announcing(e)) \in Nat
        /\ Cardinality(Announcing(e) \cup {h}) = Cardinality(Announcing(e)) + 1
    BY <2>2, OneJoins
  <2>4. emitted[e] \in Nat /\ EventBound(e) \in Nat /\ EventBound(e)' \in Nat
    BY <1>2 DEF CountsNatural
  <2>5. emitted[e] + Cardinality(Announcing(e)) <= EventBound(e)
    BY DEF EffectsInv, EventsSound
  <2>6. CASE e = event
    <3>1. EventBound(e)' >= EventBound(e) + 1 /\ Announcing(e)' = Announcing(e) \cup {h}
      BY <2>1, <2>6
    <3> QED
      BY <3>1, <2>3, <2>4, <2>5
  <2>7. CASE e # event
    <3>1. EventBound(e)' >= EventBound(e) /\ Announcing(e)' = Announcing(e)
      BY <2>1, <2>7
    <3> QED
      BY <3>1, <2>3, <2>4, <2>5
  <2> QED
    BY <2>6, <2>7
<1>6. LoadsFit'
  <2>1. ASSUME NEW g \in Handlers, At(g, "returning")'
        PROVE  handler'[g].seen.books = orders'[handler'[g].order].books
    <3>1. g # h /\ handler'[g] = handler[g] /\ At(g, "returning")
      BY <1>3, <2>1 DEF At
    <3>2. handler[g].order \in OrderIds /\ Stored(handler[g].order)
      BY <3>1, HandlerFields DEF EffectsInv, Inv, ReturningSound, Returning
    <3>3. handler[g].seen.books = orders[handler[g].order].books
      BY <3>1 DEF EffectsInv, LoadsFit
    <3> QED
      BY <3>1, <3>2, <3>3
  <2>2. ASSUME NEW g \in Handlers, At(g, "committed")'
        PROVE  Load(handler[g].calls)'
    <3>1. CASE g = h
      BY <3>1, <1>3
    <3>2. CASE g # h
      <4>1. handler'[g] = handler[g] /\ At(g, "committed")
        BY <3>2, <1>3, <2>2 DEF At
      <4>2. Load(handler[g].calls)
        BY <4>1 DEF EffectsInv, LoadsFit
      <4>3. CASE handler[g].calls = {}
        BY <4>1, <4>3 DEF Load
      <4>4. CASE handler[g].calls # {}
        <5>1. PICK o \in OrderIds, change \in {-1, 1} :
                 Stored(o) /\ handler[g].calls = CallsFor(o, orders[o].books, change)
          BY <4>2, <4>4 DEF Load
        <5>2. Stored(o)' /\ orders'[o].books = orders[o].books
          BY <5>1
        <5>3. handler'[g].calls = CallsFor(o, orders'[o].books, change)
          BY <4>1, <5>1, <5>2
        <5> QED
          BY <5>2, <5>3 DEF Load
      <4> QED
        BY <4>3, <4>4
    <3> QED
      BY <3>1, <3>2
  <2> QED
    BY <2>1, <2>2 DEF LoadsFit
<1> QED
  BY <1>4, <1>5, <1>6 DEF EffectsInv

(* A commit on order o: what must be shown of the bounds is local to o. *)
LEMMA CommitOnOrder ==
    ASSUME EffectsInv, Inv', NEW h \in Handlers, NEW o \in OrderIds,
           NEW row \in Order, NEW t \in Tally,
           NEW calls \in SUBSET Calls, NEW event \in Events,
           ~At(h, "committed"), Commit(h, calls, event),
           UNCHANGED <<spawned, emitted>>,
           orders' = [orders EXCEPT ![o] = row],
           tally' = [tally EXCEPT ![o] = t],
           row.books # {},
           Stored(o) => row.books = orders[o].books,
           event.order = o,
           \A c \in calls : c.order = o,
           \A c \in Calls : c.order = o =>
               /\ CallBound(c)' >= CallBound(c)
               /\ c \in calls => CallBound(c)' >= CallBound(c) + 1,
           \A e \in Events : e.order = o => EventBound(e)' >= EventBound(e),
           EventBound(event)' >= EventBound(event) + 1,
           Load(calls)'
    PROVE  EffectsInv'
<1>1. /\ orders'[o] = row
      /\ row # NoOrder
      /\ \A p \in OrderIds \ {o} : orders'[p] = orders[p] /\ tally'[p] = tally[p]
  BY OrderServiceAssumption DEF EffectsInv, Inv, TypeOK
<1>2. CountsNatural
  BY CountsAreNaturals DEF EffectsInv, Inv
<1>3. ASSUME NEW c \in Calls
      PROVE  CallBound(c)' >= CallBound(c) /\ (c \in calls => CallBound(c)' >= CallBound(c) + 1)
  <2>1. CASE c.order = o
    BY <2>1
  <2>2. CASE c.order # o
    <3>1. c.order \in OrderIds /\ c \notin calls
      BY <2>2 DEF Calls
    <3>2. CallBound(c)' = CallBound(c)
      BY <1>1, <2>2, <3>1 DEF CallBound, Stored
    <3> QED
      BY <1>2, <3>1, <3>2 DEF CountsNatural
  <2> QED
    BY <2>1, <2>2
<1>4. ASSUME NEW e \in Events
      PROVE  EventBound(e)' >= EventBound(e)
  <2>1. CASE e.order = o
    BY <2>1
  <2>2. CASE e.order # o
    <3>1. e.order \in OrderIds
      BY DEF Events, CreatedEvent, CanceledEvent, UpdatedEvent
    <3>2. EventBound(e)' = EventBound(e)
      BY <1>1, <2>2, <3>1 DEF EventBound, Named, Stored
    <3> QED
      BY <1>2, <3>2 DEF CountsNatural
  <2> QED
    BY <2>1, <2>2
<1>5. \A p \in OrderIds : Stored(p) => Stored(p)' /\ orders'[p].books = orders[p].books
  BY <1>1 DEF Stored
<1>6. \A p \in OrderIds : Stored(p)' => orders'[p].books # {}
  BY <1>1 DEF Stored, EffectsInv, LoadsFit
<1> QED
  BY <1>3, <1>4, <1>5, <1>6, CommitEffects

(* What a create request says. *)
LEMMA RequestFields ==
    ASSUME TypeOK, NEW h \in Handlers, At(h, "checking")
    PROVE  \E user \in Users, bs \in SUBSET BookIds, due \in Nat :
             /\ user = handler[h].user
             /\ bs = Range(handler[h].ids)
             /\ bs # {}
             /\ due = day + handler[h].days
<1>1. handler[h] \in Checking
  BY HandlerFields
<1>2. handler[h].ids \in BookLists /\ handler[h].user \in Users
  BY <1>1 DEF Checking
<1>3. handler[h].days \in Nat
  BY <1>1, OrderServiceAssumption DEF Checking
<1>4. day \in Nat
  BY OrderServiceAssumption DEF TypeOK
<1>5. Range(handler[h].ids) \in SUBSET BookIds /\ Range(handler[h].ids) # {}
  BY <1>2, OrderServiceAssumption
<1>6. day + handler[h].days \in Nat
  BY <1>3, <1>4
<1> QED
  BY <1>2, <1>5, <1>6

(* Orders are stored with the books of the request, which are not none. *)
LEMMA PlaceOrderEffects ==
    ASSUME EffectsInv, Inv', NEW h \in Handlers, NEW o \in OrderIds, PlaceOrder(h, o)
    PROVE  EffectsInv'
<1>1. ~At(h, "committed")
  BY DEF PlaceOrder, At
<1>2. PICK user \in Users, bs \in SUBSET BookIds, due \in Nat :
        /\ user = handler[h].user
        /\ bs = Range(handler[h].ids)
        /\ bs # {}
        /\ due = day + handler[h].days
  BY RequestFields DEF PlaceOrder, EffectsInv, Inv
<1> DEFINE row == [user |-> user, books |-> bs, status |-> "PENDING",
                   due |-> due, returned |-> NoDate, penalty |-> 0]
           calls == CallsFor(o, bs, -1)
           event == [type |-> "order.created", order |-> o, user |-> user]
<1>3. calls \in SUBSET Calls /\ event \in Events /\ row \in Order
  BY <1>2, CallsForType DEF Events, CreatedEvent, Order, Statuses
<1>4. ~Stored(o) /\ tally[o] = NoTransitions
  BY DEF PlaceOrder, EffectsInv, Inv, TallySound
<1>5. /\ orders' = [orders EXCEPT ![o] = row]
      /\ Commit(h, calls, event)
      /\ UNCHANGED <<spawned, emitted, tally>>
  BY <1>2 DEF PlaceOrder
<1>6. tally' = [tally EXCEPT ![o] = NoTransitions] /\ NoTransitions \in Tally
  BY <1>4, <1>5 DEF EffectsInv, Inv, TypeOK, NoTransitions, Tally
<1>7. orders'[o] = row /\ row.user = user /\ row.books = bs
  BY <1>5 DEF EffectsInv, Inv, TypeOK
<1>8. Stored(o)'
  BY <1>3, <1>7, OrderServiceAssumption DEF Stored
<1>9. ASSUME NEW c \in Calls, c.order = o
      PROVE  CallBound(c)' >= CallBound(c) /\ (c \in calls => CallBound(c)' >= CallBound(c) + 1)
  <2>1. CASE c.change = 1
    <3>1. c \notin calls
      BY <2>1 DEF CallsFor
    <3>2. CallBound(c) = 0 /\ CallBound(c)' = 0
      BY <1>4, <1>5, <1>9, <2>1 DEF CallBound, NoTransitions
    <3> QED
      BY <3>1, <3>2
  <2>2. CASE c.change # 1
    <3>1. CallBound(c) = 0
      BY <1>4, <1>9, <2>2 DEF CallBound
    <3>2. CallBound(c)' = IF c.book \in bs THEN 1 ELSE 0
      BY <1>7, <1>8, <1>9, <2>2 DEF CallBound
    <3>3. c \in calls => c.book \in bs
      BY DEF CallsFor
    <3> QED
      BY <3>1, <3>2, <3>3
  <2> QED
    BY <2>1, <2>2
<1>10. ASSUME NEW e \in Events, e.order = o
       PROVE  EventBound(e) = 0 /\ EventBound(e)' \in {0, 1}
  <2>1. EventBound(e) = 0
    BY <1>4, <1>10 DEF EventBound, Named, NoTransitions
  <2>2. tally'[o].cancels = 0 /\ tally'[o].decisions = 0
    BY <1>4, <1>5 DEF NoTransitions
  <2>3. EventBound(e)' \in {0, 1}
    BY <1>10, <2>2 DEF EventBound
  <2> QED
    BY <2>1, <2>3
<1>11. EventBound(event)' = 1
  BY <1>7, <1>8 DEF EventBound, Named
<1>12. Load(calls)'
  BY <1>7, <1>8 DEF Load
<1>13. event.order = o /\ \A c \in calls : c.order = o
  BY DEF CallsFor
<1> HIDE DEF row, calls, event
<1>14. EventBound(event)' >= EventBound(event) + 1
  BY <1>3, <1>10, <1>11, <1>13
<1>15. \A e \in Events : e.order = o => EventBound(e)' >= EventBound(e)
  BY <1>10
<1>16. row.books # {} /\ (Stored(o) => row.books = orders[o].books)
  BY <1>2, <1>4, <1>7
<1>17. \A c \in Calls : c.order = o =>
          /\ CallBound(c)' >= CallBound(c)
          /\ c \in calls => CallBound(c)' >= CallBound(c) + 1
  BY <1>9
<1> QED
  BY <1>1, <1>3, <1>5, <1>6, <1>12, <1>13, <1>14, <1>15, <1>16, <1>17, CommitOnOrder

(* A cancellation earns one more release of every book and one more event. *)
LEMMA CancelOrderEffects ==
    ASSUME EffectsInv, Inv', NEW h \in Handlers, NEW o \in OrderIds, NEW user \in Users,
           CancelOrder(h, o, user)
    PROVE  EffectsInv'
<1>1. Stored(o) /\ orders[o] \in Order /\ tally[o] \in Tally /\ orders[o].user = user
  BY StoredIsOrder DEF CancelOrder, EffectsInv, Inv, TypeOK
<1>2. PICK bs \in SUBSET BookIds : bs = orders[o].books /\ bs # {}
  BY <1>1 DEF Order, EffectsInv, LoadsFit
<1> DEFINE row == [orders[o] EXCEPT !.status = "CANCELED"]
           t == [tally[o] EXCEPT !.cancels = tally[o].cancels + 1]
           calls == CallsFor(o, bs, 1)
           event == [type |-> "order.canceled", order |-> o, user |-> user]
<1>3. calls \in SUBSET Calls /\ event \in Events
  BY CallsForType DEF Events, CanceledEvent
<1>4. row \in Order /\ row.books = bs /\ row.user = user
  BY <1>1, <1>2 DEF Order, Statuses
<1>5. /\ t \in Tally
      /\ t.cancels = tally[o].cancels + 1
      /\ t.returns = tally[o].returns
      /\ t.decisions = tally[o].decisions
      /\ tally[o].cancels \in Nat /\ tally[o].returns \in Nat /\ tally[o].decisions \in Nat
  BY <1>1 DEF Tally
<1>6. /\ orders' = [orders EXCEPT ![o] = row]
      /\ tally' = [tally EXCEPT ![o] = t]
      /\ Commit(h, calls, event)
      /\ UNCHANGED <<spawned, emitted>>
      /\ ~At(h, "committed")
  BY <1>2 DEF CancelOrder, At
<1>7. orders'[o] = row /\ tally'[o] = t
  BY <1>6 DEF EffectsInv, Inv, TypeOK
<1>8. Stored(o)'
  BY <1>4, <1>7, OrderServiceAssumption DEF Stored
<1> HIDE DEF row, t
<1>9. \A c \in Calls : c.order = o =>
          /\ CallBound(c)' >= CallBound(c)
          /\ c \in calls => CallBound(c)' >= CallBound(c) + 1
  <2> SUFFICES ASSUME NEW c \in Calls, c.order = o
               PROVE  CallBound(c)' >= CallBound(c) /\ (c \in calls => CallBound(c)' >= CallBound(c) + 1)
    OBVIOUS
  <2>1. CASE c.change = 1
    BY <1>5, <1>7, <2>1 DEF CallBound
  <2>2. CASE c.change # 1
    <3>1. c \notin calls
      BY <2>2 DEF CallsFor
    <3>2. CallBound(c) \in Nat /\ CallBound(c)' = CallBound(c)
      BY <1>1, <1>2, <1>4, <1>7, <1>8, <2>2 DEF CallBound
    <3> QED
      BY <3>1, <3>2
  <2> QED
    BY <2>1, <2>2
<1>10. \A e \in Events : e.order = o => EventBound(e)' >= EventBound(e)
  <2> SUFFICES ASSUME NEW e \in Events, e.order = o
               PROVE  EventBound(e)' >= EventBound(e)
    OBVIOUS
  <2>1. Named(e)' = Named(e)
    BY <1>1, <1>4, <1>7, <1>8 DEF Named
  <2> QED
    BY <1>5, <1>7, <2>1 DEF EventBound
<1>11. EventBound(event)' >= EventBound(event) + 1
  BY <1>1, <1>4, <1>5, <1>7, <1>8 DEF EventBound, Named
<1>12. Load(calls)'
  BY <1>4, <1>7, <1>8 DEF Load
<1>13. event.order = o /\ \A c \in calls : c.order = o
  BY DEF CallsFor
<1>14. row.books # {} /\ (Stored(o) => row.books = orders[o].books)
  BY <1>2, <1>4
<1> HIDE DEF calls, event
<1> QED
  BY <1>3, <1>4, <1>5, <1>6, <1>9, <1>10, <1>11, <1>12, <1>13, <1>14, CommitOnOrder

(* A manager's decision starts no call; its event is one more decision's. *)
LEMMA UpdateStatusEffects ==
    ASSUME EffectsInv, Inv', NEW h \in Handlers, NEW o \in OrderIds, NEW status \in Decisions,
           UpdateStatus(h, o, status)
    PROVE  EffectsInv'
<1>1. Stored(o) /\ orders[o] \in Order /\ tally[o] \in Tally /\ status \in Statuses
  BY StoredIsOrder, OrderServiceAssumption DEF UpdateStatus, EffectsInv, Inv, TypeOK
<1> DEFINE row == [orders[o] EXCEPT !.status = status]
           reopened == IF status = "PENDING" THEN tally[o].reopenings + 1 ELSE tally[o].reopenings
           t == [tally[o] EXCEPT !.decisions = tally[o].decisions + 1, !.reopenings = reopened]
           event == [type |-> "order.status_updated", order |-> o, status |-> status]
<1>2. row \in Order /\ row.books = orders[o].books /\ row.user = orders[o].user
  BY <1>1 DEF Order
<1>3. /\ tally[o].cancels \in Nat
      /\ tally[o].returns \in Nat
      /\ tally[o].decisions \in Nat
      /\ tally[o].decisions + 1 \in Nat
      /\ reopened \in Nat
  BY <1>1 DEF Tally
<1> HIDE DEF reopened
<1>4. /\ t \in Tally
      /\ t.cancels = tally[o].cancels
      /\ t.returns = tally[o].returns
      /\ t.decisions = tally[o].decisions + 1
  BY <1>1, <1>3, DecisionCounted DEF Tally
<1>5. {} \in SUBSET Calls /\ event \in Events
  BY <1>1 DEF Events, UpdatedEvent
<1>6. /\ orders' = [orders EXCEPT ![o] = row]
      /\ tally' = [tally EXCEPT ![o] = t]
      /\ Commit(h, {}, event)
      /\ UNCHANGED <<spawned, emitted>>
      /\ ~At(h, "committed")
  BY DEF UpdateStatus, At, reopened
<1>7. orders'[o] = row /\ tally'[o] = t
  BY <1>6 DEF EffectsInv, Inv, TypeOK
<1>8. Stored(o)'
  BY <1>2, <1>7, OrderServiceAssumption DEF Stored
<1> HIDE DEF row, t
<1>9. \A c \in Calls : c.order = o =>
          /\ CallBound(c)' >= CallBound(c)
          /\ c \in {} => CallBound(c)' >= CallBound(c) + 1
  BY <1>1, <1>2, <1>3, <1>4, <1>7, <1>8 DEF CallBound
<1>10. \A e \in Events : e.order = o => EventBound(e)' >= EventBound(e)
  <2> SUFFICES ASSUME NEW e \in Events, e.order = o
               PROVE  EventBound(e)' >= EventBound(e)
    OBVIOUS
  <2>1. Named(e)' = Named(e)
    BY <1>1, <1>2, <1>7, <1>8 DEF Named
  <2> QED
    BY <1>3, <1>4, <1>7, <2>1 DEF EventBound
<1>11. EventBound(event)' >= EventBound(event) + 1
  BY <1>3, <1>4, <1>7 DEF EventBound
<1>12. Load({})'
  BY DEF Load
<1>13. event.order = o
  OBVIOUS
<1>14. row.books # {} /\ (Stored(o) => row.books = orders[o].books)
  BY <1>1, <1>2 DEF EffectsInv, LoadsFit
<1> HIDE DEF event
<1> QED
  BY <1>2, <1>4, <1>5, <1>6, <1>9, <1>10, <1>11, <1>12, <1>13, <1>14, CommitOnOrder

(* A return earns one more release of every book, those of the row as it was *)
(* read, and its event is one more decision's.                               *)
LEMMA FinishReturnEffects ==
    ASSUME EffectsInv, Inv', NEW h \in Handlers, NEW asked \in 0..MaxDay, FinishReturn(h, asked)
    PROVE  EffectsInv'
<1>1. PICK o \in OrderIds, seen \in Order :
         o = handler[h].order /\ seen = handler[h].seen /\ seen.books = orders[o].books
  BY HandlerFields DEF FinishReturn, EffectsInv, Inv, Returning, LoadsFit
<1>2. At(h, "returning") /\ ~At(h, "committed")
  BY DEF FinishReturn, At
<1>3. Stored(o) /\ orders[o] \in Order /\ tally[o] \in Tally
  BY <1>1, <1>2, StoredIsOrder DEF EffectsInv, Inv, ReturningSound, TypeOK
<1>4. PICK bs \in SUBSET BookIds : bs = orders[o].books /\ bs # {}
  BY <1>1, <1>3 DEF Order, EffectsInv, LoadsFit
<1>5. asked \in Nat /\ day \in Nat
  BY OrderServiceAssumption DEF EffectsInv, Inv, TypeOK
<1> DEFINE row == [orders[o] EXCEPT !.status = "RETURNED", !.returned = day,
                                    !.penalty = Penalty(seen, asked)]
           t == [tally[o] EXCEPT !.decisions = tally[o].decisions + 1,
                                 !.returns = tally[o].returns + 1]
           calls == CallsFor(o, bs, 1)
           event == [type |-> "order.status_updated", order |-> o, status |-> "RETURNED"]
<1>6. calls \in SUBSET Calls /\ event \in Events
  BY CallsForType DEF Events, UpdatedEvent, Statuses
<1>7. row \in Order /\ row.books = bs /\ row.user = orders[o].user
  <2>1. Penalty(seen, asked) \in Nat
    BY <1>5, PenaltyBounded
  <2> QED
    BY <1>3, <1>4, <1>5, <2>1 DEF Order, Statuses
<1>8. /\ tally[o].cancels \in Nat
      /\ tally[o].returns \in Nat
      /\ tally[o].decisions \in Nat
  BY <1>3 DEF Tally
<1>9. /\ t \in Tally
      /\ t.cancels = tally[o].cancels
      /\ t.returns = tally[o].returns + 1
      /\ t.decisions = tally[o].decisions + 1
  <2>1. tally[o].decisions + 1 \in Nat /\ tally[o].returns + 1 \in Nat
    BY <1>8
  <2>2. t \in Tally
    BY <1>3, <2>1, ReturnCounted
  <2> QED
    BY <1>3, <2>2 DEF Tally
<1>10. /\ orders' = [orders EXCEPT ![o] = row]
       /\ tally' = [tally EXCEPT ![o] = t]
       /\ Commit(h, calls, event)
       /\ UNCHANGED <<spawned, emitted>>
  BY <1>1, <1>4 DEF FinishReturn
<1>11. orders'[o] = row /\ tally'[o] = t
  BY <1>10 DEF EffectsInv, Inv, TypeOK
<1>12. Stored(o)'
  BY <1>7, <1>11, OrderServiceAssumption DEF Stored
<1> HIDE DEF row, t
<1>13. \A c \in Calls : c.order = o =>
          /\ CallBound(c)' >= CallBound(c)
          /\ c \in calls => CallBound(c)' >= CallBound(c) + 1
  <2> SUFFICES ASSUME NEW c \in Calls, c.order = o
               PROVE  CallBound(c)' >= CallBound(c) /\ (c \in calls => CallBound(c)' >= CallBound(c) + 1)
    OBVIOUS
  <2>1. CASE c.change = 1
    BY <1>8, <1>9, <1>11, <2>1 DEF CallBound
  <2>2. CASE c.change # 1
    <3>1. c \notin calls
      BY <2>2 DEF CallsFor
    <3>2. CallBound(c) \in Nat /\ CallBound(c)' = CallBound(c)
      BY <1>3, <1>4, <1>7, <1>11, <1>12, <2>2 DEF CallBound
    <3> QED
      BY <3>1, <3>2
  <2> QED
    BY <2>1, <2>2
<1>14. \A e \in Events : e.order = o => EventBound(e)' >= EventBound(e)
  <2> SUFFICES ASSUME NEW e \in Events, e.order = o
               PROVE  EventBound(e)' >= EventBound(e)
    OBVIOUS
  <2>1. Named(e)' = Named(e)
    BY <1>3, <1>7, <1>11, <1>12 DEF Named
  <2> QED
    BY <1>8, <1>9, <1>11, <2>1 DEF EventBound
<1>15. EventBound(event)' >= EventBound(event) + 1
  BY <1>8, <1>9, <1>11 DEF EventBound
<1>16. Load(calls)'
  BY <1>7, <1>11, <1>12 DEF Load
<1>17. event.order = o /\ \A c \in calls : c.order = o
  BY DEF CallsFor
<1>18. row.books # {} /\ (Stored(o) => row.books = orders[o].books)
  BY <1>4, <1>7
<1> HIDE DEF calls, event
<1> QED
  BY <1>2, <1>6, <1>7, <1>9, <1>10, <1>13, <1>14, <1>15, <1>16, <1>17, <1>18, CommitOnOrder

(* Starting what is owed moves it from one side of the sum to the other. *)
LEMMA StartEffectsEffects ==
    ASSUME EffectsInv, Inv', NEW h \in Handlers, StartEffects(h)
    PROVE  EffectsInv'
<1>1. At(h, "committed") /\ handler[h] \in Committed
  BY HandlerFields DEF StartEffects, EffectsInv, Inv
<1>2. /\ handler'[h] = Idle
      /\ \A g \in Handlers \ {h} : handler'[g] = handler[g]
      /\ UNCHANGED <<orders, tally>>
  BY DEF StartEffects, EffectsInv, Inv, TypeOK
<1>3. CountsNatural
  BY CountsAreNaturals DEF EffectsInv, Inv
<1>4. CallsSound'
  <2> SUFFICES ASSUME NEW c \in Calls
               PROVE  spawned'[c] + Cardinality(Owing(c)') <= CallBound(c)'
    BY DEF CallsSound
  <2>1. CallBound(c)' = CallBound(c)
    BY <1>2 DEF CallBound, Stored
  <2>2. Owing(c)' = Owing(c) \ {h} /\ Owing(c) \in SUBSET Handlers
    BY <1>2 DEF Owing, At
  <2>3. h \in Owing(c) <=> c \in handler[h].calls
    BY <1>1 DEF Owing
  <2>4. spawned'[c] = IF c \in handler[h].calls THEN spawned[c] + 1 ELSE spawned[c]
    BY DEF StartEffects
  <2>5. /\ Cardinality(Owing(c)) \in Nat
        /\ Cardinality(Owing(c)') = IF h \in Owing(c) THEN Cardinality(Owing(c)) - 1
                                    ELSE Cardinality(Owing(c))
    BY <2>2, OneLeaves
  <2>6. spawned[c] \in Nat /\ spawned[c] + Cardinality(Owing(c)) <= CallBound(c)
    BY <1>3 DEF CountsNatural, EffectsInv, CallsSound
  <2> QED
    BY <2>1, <2>3, <2>4, <2>5, <2>6
<1>5. EventsSound'
  <2> SUFFICES ASSUME NEW e \in Events
               PROVE  emitted'[e] + Cardinality(Announcing(e)') <= EventBound(e)'
    BY DEF EventsSound
  <2>1. EventBound(e)' = EventBound(e)
    BY <1>2 DEF EventBound, Named, Stored
  <2>2. Announcing(e)' = Announcing(e) \ {h} /\ Announcing(e) \in SUBSET Handlers
    BY <1>2 DEF Announcing, At
  <2>3. h \in Announcing(e) <=> e = handler[h].event
    BY <1>1 DEF Announcing
  <2>4. emitted'[e] = IF e = handler[h].event THEN emitted[e] + 1 ELSE emitted[e]
    BY <1>1 DEF StartEffects, EffectsInv, Inv, TypeOK, Committed
  <2>5. /\ Cardinality(Announcing(e)) \in Nat
        /\ Cardinality(Announcing(e)') = IF h \in Announcing(e)
                                         THEN Cardinality(Announcing(e)) - 1
                                         ELSE Cardinality(Announcing(e))
    BY <2>2, OneLeaves
  <2>6. emitted[e] \in Nat /\ emitted[e] + Cardinality(Announcing(e)) <= EventBound(e)
    BY <1>3 DEF CountsNatural, EffectsInv, EventsSound
  <2> QED
    BY <2>1, <2>3, <2>4, <2>5, <2>6
<1>6. LoadsFit'
  BY <1>2 DEF EffectsInv, LoadsFit, Load, Stored, At
<1> QED
  BY <1>4, <1>5, <1>6 DEF EffectsInv

LEMMA InitEffects == Init => EffectsInv
<1> SUFFICES ASSUME Init PROVE EffectsInv
  OBVIOUS
<1>1. Inv
  BY InitInv
<1>2. \A h \in Handlers : ~At(h, "committed") /\ ~At(h, "returning")
  BY DEF Init, At
<1>3. CountsNatural
  BY <1>1, CountsAreNaturals DEF Inv
<1>4. CallsSound
  <2> SUFFICES ASSUME NEW c \in Calls
               PROVE  spawned[c] + Cardinality(Owing(c)) <= CallBound(c)
    BY DEF CallsSound
  <2>1. Owing(c) = {} /\ spawned[c] = 0
    BY <1>2 DEF Owing, Init
  <2> QED
    BY <2>1, <1>3, NoneOwes DEF CountsNatural
<1>5. EventsSound
  <2> SUFFICES ASSUME NEW e \in Events
               PROVE  emitted[e] + Cardinality(Announcing(e)) <= EventBound(e)
    BY DEF EventsSound
  <2>1. Announcing(e) = {} /\ emitted[e] = 0
    BY <1>2 DEF Announcing, Init
  <2> QED
    BY <2>1, <1>3, NoneOwes DEF CountsNatural
<1>6. LoadsFit
  BY <1>2 DEF LoadsFit, Init, Stored
<1> QED
  BY <1>1, <1>4, <1>5, <1>6 DEF EffectsInv

LEMMA NextEffects == EffectsInv /\ [Next]_vars => EffectsInv'
<1> SUFFICES ASSUME EffectsInv, [Next]_vars PROVE EffectsInv'
  OBVIOUS
<1>1. Inv'
  BY NextInv DEF EffectsInv
<1>2. /\ \A g \in Handlers : At(g, "returning") =>
             handler[g].seen.books = orders[handler[g].order].books
      /\ handler \in [Handlers -> Handling \cup {Idle}]
  BY DEF EffectsInv, LoadsFit, Inv, TypeOK
<1>3. CASE UNCHANGED vars
  BY <1>1, <1>2, <1>3, QuietEffects DEF vars, At
<1>4. ASSUME NEW h \in Handlers, NEW user \in Users, NEW ids \in BookLists,
             NEW days \in BorrowDays, StartCreate(h, user, ids, days)
      PROVE  EffectsInv'
  <2>1. /\ handler'[h].pc = "checking"
        /\ \A g \in Handlers \ {h} : handler'[g] = handler[g]
        /\ UNCHANGED <<orders, tally, spawned, emitted>>
    BY <1>2, <1>4 DEF StartCreate
  <2> QED
    BY <1>1, <1>2, <2>1, QuietEffects DEF At
<1>5. ASSUME NEW h \in Handlers, NEW b \in BookIds, BookChecked(h, b)
      PROVE  EffectsInv'
  <2>1. handler[h] \in Checking
    BY <1>5, HandlerFields DEF BookChecked, EffectsInv, Inv
  <2>2. /\ handler'[h].pc = "checking"
        /\ \A g \in Handlers \ {h} : handler'[g] = handler[g]
        /\ UNCHANGED <<orders, tally, spawned, emitted>>
    BY <1>2, <1>5, <2>1 DEF BookChecked, Checking
  <2> QED
    BY <1>1, <1>2, <2>2, QuietEffects DEF At
<1>6. ASSUME NEW h \in Handlers, NEW o \in OrderIds, StartReturn(h, o)
      PROVE  EffectsInv'
  <2>1. /\ handler'[h].pc = "returning"
        /\ handler'[h].seen.books = orders[handler'[h].order].books
        /\ \A g \in Handlers \ {h} : handler'[g] = handler[g]
        /\ UNCHANGED <<orders, tally, spawned, emitted>>
    BY <1>2, <1>6 DEF StartReturn
  <2> QED
    BY <1>1, <1>2, <2>1, QuietEffects DEF At
<1>7. ASSUME NEW h \in Handlers, HandlerDies(h)
      PROVE  EffectsInv'
  <2>1. /\ handler'[h] = Idle
        /\ \A g \in Handlers \ {h} : handler'[g] = handler[g]
        /\ UNCHANGED <<orders, tally, spawned, emitted>>
    BY <1>2, <1>7 DEF HandlerDies
  <2> QED
    BY <1>1, <1>2, <2>1, QuietEffects DEF At
<1>8. CASE DayPasses
  BY <1>1, <1>2, <1>8, QuietEffects DEF DayPasses, At
<1> QED
  BY <1>1, <1>3, <1>4, <1>5, <1>6, <1>7, <1>8, PlaceOrderEffects, CancelOrderEffects,
     UpdateStatusEffects, FinishReturnEffects, StartEffectsEffects DEF Next

LEMMA EffectsInvHolds == Spec => []EffectsInv
<1> QED
  BY InitEffects, NextEffects, PTL DEF Spec

------------------------------------------------------------------------------
(* Where no handler dies between its commit and its go statements, nothing   *)
(* that was earned is missing either: the bounds of CallsSound are reached.  *)

Earned(c) ==
    IF ~Stored(c.order) \/ c.book \notin orders[c.order].books THEN 0
    ELSE IF c.change = 1 THEN tally[c.order].cancels + tally[c.order].returns ELSE 1

AllStarted(c) == spawned[c] + Cardinality(Owing(c)) = Earned(c)

\* Next, but for the deaths.
Working ==
    \/ \E h \in Handlers :
        \/ \E user \in Users, ids \in BookLists, days \in BorrowDays :
              StartCreate(h, user, ids, days)
        \/ \E b \in BookIds : BookChecked(h, b)
        \/ \E o \in OrderIds : PlaceOrder(h, o) \/ StartReturn(h, o)
        \/ \E o \in OrderIds, user \in Users : CancelOrder(h, o, user)
        \/ \E o \in OrderIds, status \in Decisions : UpdateStatus(h, o, status)
        \/ \E asked \in 0..MaxDay : FinishReturn(h, asked)
        \/ StartEffects(h)
    \/ DayPasses

LEMMA DeathApart == Working \/ (\E h \in Handlers : HandlerDies(h)) => Next
BY DEF Working, Next

(* What a commit adds to the handlers that owe a call. *)
LEMMA CommitOwes ==
    ASSUME TypeOK, NEW h \in Handlers, NEW calls \in SUBSET Calls, NEW event \in Events,
           ~At(h, "committed"), Commit(h, calls, event), NEW c \in Calls
    PROVE  /\ Cardinality(Owing(c)) \in Nat
           /\ Cardinality(Owing(c)') = IF c \in calls THEN Cardinality(Owing(c)) + 1
                                       ELSE Cardinality(Owing(c))
<1>1. /\ handler'[h].pc = "committed" /\ handler'[h].calls = calls
      /\ handler'[h] # Idle
      /\ \A g \in Handlers \ {h} : handler'[g] = handler[g]
  <2>1. [pc |-> "committed", calls |-> calls, event |-> event] \in Handling
    BY DEF Handling, Committed
  <2> QED
    BY <2>1, OrderServiceAssumption DEF Commit, TypeOK
<1>2. Owing(c)' = IF c \in calls THEN Owing(c) \cup {h} ELSE Owing(c)
  BY <1>1 DEF Owing, At
<1>3. h \notin Owing(c) /\ Owing(c) \in SUBSET Handlers
  BY DEF Owing
<1>4. /\ Cardinality(Owing(c)) \in Nat
      /\ Cardinality(Owing(c) \cup {h}) = Cardinality(Owing(c)) + 1
  BY <1>3, OneJoins
<1> QED
  BY <1>2, <1>4

(* A commit on order o: what must be shown is local to o, as in CommitOnOrder. *)
LEMMA CommitEarnsWhatItOwes ==
    ASSUME TypeOK, NEW h \in Handlers, NEW o \in OrderIds,
           NEW calls \in SUBSET Calls, NEW event \in Events,
           ~At(h, "committed"), Commit(h, calls, event), UNCHANGED spawned,
           \A p \in OrderIds \ {o} : orders'[p] = orders[p] /\ tally'[p] = tally[p],
           NEW c \in Calls, AllStarted(c),
           \A d \in calls : d.order = o,
           Earned(c) \in Nat,
           c.order = o => Earned(c)' = IF c \in calls THEN Earned(c) + 1 ELSE Earned(c)
    PROVE  AllStarted(c)'
<1>1. Earned(c)' = IF c \in calls THEN Earned(c) + 1 ELSE Earned(c)
  <2>1. CASE c.order = o
    BY <2>1
  <2>2. CASE c.order # o
    <3>1. c.order \in OrderIds \ {o} /\ c \notin calls
      BY <2>2 DEF Calls
    <3> QED
      BY <3>1 DEF Earned, Stored
  <2> QED
    BY <2>1, <2>2
<1>2. /\ Cardinality(Owing(c)) \in Nat
      /\ Cardinality(Owing(c)') = IF c \in calls THEN Cardinality(Owing(c)) + 1
                                  ELSE Cardinality(Owing(c))
  BY CommitOwes
<1>3. spawned[c] \in Nat
  BY DEF TypeOK
<1> QED
  BY <1>1, <1>2, <1>3 DEF AllStarted

LEMMA EarnedType ==
    ASSUME TypeOK, NEW c \in Calls
    PROVE  Earned(c) \in Nat
<1>1. c.order \in OrderIds
  BY DEF Calls
<1>2. tally[c.order].cancels \in Nat /\ tally[c.order].returns \in Nat
  BY <1>1 DEF TypeOK, Tally
<1> QED
  BY <1>2 DEF Earned

LEMMA AllStartedAtFirst ==
    ASSUME Init, NEW c \in Calls
    PROVE  AllStarted(c)
<1>1. c.order \in OrderIds
  BY DEF Calls
<1>2. Earned(c) = 0 /\ spawned[c] = 0
  BY <1>1 DEF Init, Earned, Stored
<1>3. Owing(c) = {}
  BY DEF Init, Owing, At
<1> QED
  BY <1>2, <1>3, NoneOwes DEF AllStarted

LEMMA PlacedIsStarted ==
    ASSUME EffectsInv, NEW h \in Handlers, NEW o \in OrderIds, PlaceOrder(h, o),
           NEW c \in Calls, AllStarted(c)
    PROVE  AllStarted(c)'
<1>1. ~At(h, "committed")
  BY DEF PlaceOrder, At
<1>2. PICK user \in Users, bs \in SUBSET BookIds, due \in Nat :
        /\ user = handler[h].user
        /\ bs = Range(handler[h].ids)
        /\ bs # {}
        /\ due = day + handler[h].days
  BY RequestFields DEF PlaceOrder, EffectsInv, Inv
<1> DEFINE row == [user |-> user, books |-> bs, status |-> "PENDING",
                   due |-> due, returned |-> NoDate, penalty |-> 0]
           calls == CallsFor(o, bs, -1)
           event == [type |-> "order.created", order |-> o, user |-> user]
<1>3. calls \in SUBSET Calls /\ event \in Events /\ row \in Order
  BY <1>2, CallsForType DEF Events, CreatedEvent, Order, Statuses
<1>4. ~Stored(o) /\ tally[o] = NoTransitions
  BY DEF PlaceOrder, EffectsInv, Inv, TallySound
<1>5. /\ orders' = [orders EXCEPT ![o] = row]
      /\ Commit(h, calls, event)
      /\ UNCHANGED <<spawned, tally>>
  BY <1>2 DEF PlaceOrder
<1>6. /\ orders'[o] = row /\ row.books = bs /\ row # NoOrder
      /\ \A p \in OrderIds \ {o} : orders'[p] = orders[p] /\ tally'[p] = tally[p]
  BY <1>3, <1>5, OrderServiceAssumption DEF EffectsInv, Inv, TypeOK
<1>7. c.order = o => Earned(c)' = IF c \in calls THEN Earned(c) + 1 ELSE Earned(c)
  <2> SUFFICES ASSUME c.order = o
               PROVE  Earned(c)' = IF c \in calls THEN Earned(c) + 1 ELSE Earned(c)
    OBVIOUS
  <2>1. Earned(c) = 0
    BY <1>4 DEF Earned
  <2>2. Earned(c)' = IF c.book \in bs /\ c.change # 1 THEN 1 ELSE 0
    BY <1>4, <1>5, <1>6 DEF Earned, Stored, NoTransitions
  <2>3. c \in calls <=> c.book \in bs /\ c.change # 1
    BY DEF Calls, CallsFor
  <2> QED
    BY <2>1, <2>2, <2>3
<1>8. \A d \in calls : d.order = o
  BY DEF CallsFor
<1>9. TypeOK /\ Earned(c) \in Nat
  BY EarnedType DEF EffectsInv, Inv
<1> HIDE DEF calls, event
<1> QED
  BY <1>1, <1>3, <1>5, <1>6, <1>7, <1>8, <1>9, CommitEarnsWhatItOwes

LEMMA CanceledIsStarted ==
    ASSUME EffectsInv, NEW h \in Handlers, NEW o \in OrderIds, NEW user \in Users,
           CancelOrder(h, o, user), NEW c \in Calls, AllStarted(c)
    PROVE  AllStarted(c)'
<1>1. Stored(o) /\ orders[o] \in Order /\ tally[o] \in Tally /\ orders[o].user = user
  BY StoredIsOrder DEF CancelOrder, EffectsInv, Inv, TypeOK
<1> DEFINE calls == CallsFor(o, orders[o].books, 1)
           event == [type |-> "order.canceled", order |-> o, user |-> user]
<1>2. calls \in SUBSET Calls /\ event \in Events
  BY <1>1, CallsForType DEF Events, CanceledEvent, Order
<1>3. /\ Commit(h, calls, event) /\ ~At(h, "committed")
      /\ UNCHANGED spawned
  BY DEF CancelOrder, At
<1>4. /\ orders'[o] = [orders[o] EXCEPT !.status = "CANCELED"]
      /\ tally'[o] = [tally[o] EXCEPT !.cancels = @ + 1]
      /\ \A p \in OrderIds \ {o} : orders'[p] = orders[p] /\ tally'[p] = tally[p]
  BY DEF CancelOrder, EffectsInv, Inv, TypeOK
<1>5. orders'[o].books = orders[o].books /\ orders'[o] \in Order /\ orders'[o] # NoOrder
  BY <1>1, <1>4, OrderServiceAssumption DEF Order, Statuses
<1>6. /\ tally'[o].cancels = tally[o].cancels + 1 /\ tally'[o].returns = tally[o].returns
      /\ tally[o].cancels \in Nat /\ tally[o].returns \in Nat
  BY <1>1, <1>4 DEF Tally
<1>7. c \in calls <=> c.order = o /\ c.book \in orders[o].books /\ c.change = 1
  BY DEF Calls, CallsFor
<1>8. c.order = o => Earned(c)' = IF c \in calls THEN Earned(c) + 1 ELSE Earned(c)
  BY <1>1, <1>5, <1>6, <1>7 DEF Earned, Stored
<1>9. \A d \in calls : d.order = o
  BY DEF CallsFor
<1>10. TypeOK /\ Earned(c) \in Nat
  BY EarnedType DEF EffectsInv, Inv
<1> HIDE DEF calls, event
<1> QED
  BY <1>2, <1>3, <1>4, <1>8, <1>9, <1>10, CommitEarnsWhatItOwes

LEMMA DecidedIsStarted ==
    ASSUME EffectsInv, NEW h \in Handlers, NEW o \in OrderIds, NEW status \in Decisions,
           UpdateStatus(h, o, status), NEW c \in Calls, AllStarted(c)
    PROVE  AllStarted(c)'
<1>1. Stored(o) /\ orders[o] \in Order /\ tally[o] \in Tally /\ status \in Statuses
  BY StoredIsOrder, OrderServiceAssumption DEF UpdateStatus, EffectsInv, Inv, TypeOK
<1> DEFINE event == [type |-> "order.status_updated", order |-> o, status |-> status]
           reopened == IF status = "PENDING" THEN tally[o].reopenings + 1 ELSE tally[o].reopenings
<1>2. {} \in SUBSET Calls /\ event \in Events
  BY <1>1 DEF Events, UpdatedEvent
<1>3. /\ Commit(h, {}, event) /\ ~At(h, "committed")
      /\ UNCHANGED spawned
  BY DEF UpdateStatus, At
<1>4. /\ orders'[o] = [orders[o] EXCEPT !.status = status]
      /\ tally'[o] = [tally[o] EXCEPT !.decisions = @ + 1, !.reopenings = reopened]
      /\ \A p \in OrderIds \ {o} : orders'[p] = orders[p] /\ tally'[p] = tally[p]
  BY DEF UpdateStatus, EffectsInv, Inv, TypeOK
<1> HIDE DEF reopened
<1>5. orders'[o].books = orders[o].books /\ orders'[o] \in Order /\ orders'[o] # NoOrder
  BY <1>1, <1>4, OrderServiceAssumption DEF Order
<1>6. tally'[o].cancels = tally[o].cancels /\ tally'[o].returns = tally[o].returns
  BY <1>1, <1>4 DEF Tally
<1>7. c.order = o => Earned(c)' = Earned(c)
  BY <1>1, <1>5, <1>6 DEF Earned, Stored
<1>8. TypeOK /\ Earned(c) \in Nat
  BY EarnedType DEF EffectsInv, Inv
<1> HIDE DEF event
<1> QED
  BY <1>2, <1>3, <1>4, <1>7, <1>8, CommitEarnsWhatItOwes

LEMMA ReturnedIsStarted ==
    ASSUME EffectsInv, NEW h \in Handlers, NEW asked \in 0..MaxDay, FinishReturn(h, asked),
           NEW c \in Calls, AllStarted(c)
    PROVE  AllStarted(c)'
<1>1. PICK o \in OrderIds, seen \in Order :
         o = handler[h].order /\ seen = handler[h].seen /\ seen.books = orders[o].books
  BY HandlerFields DEF FinishReturn, EffectsInv, Inv, Returning, LoadsFit
<1>2. At(h, "returning") /\ ~At(h, "committed")
  BY DEF FinishReturn, At
<1>3. Stored(o) /\ orders[o] \in Order /\ tally[o] \in Tally
  BY <1>1, <1>2, StoredIsOrder DEF EffectsInv, Inv, ReturningSound, TypeOK
<1>4. asked \in Nat /\ day \in Nat
  BY OrderServiceAssumption DEF EffectsInv, Inv, TypeOK
<1> DEFINE calls == CallsFor(o, orders[o].books, 1)
           event == [type |-> "order.status_updated", order |-> o, status |-> "RETURNED"]
           penalty == Penalty(seen, asked)
<1>5. calls \in SUBSET Calls /\ event \in Events
  BY <1>3, CallsForType DEF Events, UpdatedEvent, Statuses, Order
<1>6. Commit(h, calls, event) /\ UNCHANGED spawned
  BY <1>1 DEF FinishReturn
<1>7. penalty \in Nat
  BY <1>4, PenaltyBounded
<1>8. /\ orders'[o] = [orders[o] EXCEPT !.status = "RETURNED", !.returned = day,
                                        !.penalty = penalty]
      /\ tally'[o] = [tally[o] EXCEPT !.decisions = @ + 1, !.returns = @ + 1]
      /\ \A p \in OrderIds \ {o} : orders'[p] = orders[p] /\ tally'[p] = tally[p]
  BY <1>1 DEF FinishReturn, EffectsInv, Inv, TypeOK
<1> HIDE DEF penalty
<1>9. orders'[o].books = orders[o].books /\ orders'[o] \in Order /\ orders'[o] # NoOrder
  <2>1. orders'[o].books = orders[o].books
    BY <1>3, <1>8 DEF Order
  <2>2. orders'[o] \in Order
    BY <1>3, <1>4, <1>7, <1>8 DEF Order, Statuses
  <2> QED
    BY <2>1, <2>2, OrderServiceAssumption
<1>10. /\ tally'[o].cancels = tally[o].cancels /\ tally'[o].returns = tally[o].returns + 1
       /\ tally[o].cancels \in Nat /\ tally[o].returns \in Nat
  BY <1>3, <1>8 DEF Tally
<1>11. c \in calls <=> c.order = o /\ c.book \in orders[o].books /\ c.change = 1
  BY DEF Calls, CallsFor
<1>12. c.order = o => Earned(c)' = IF c \in calls THEN Earned(c) + 1 ELSE Earned(c)
  BY <1>3, <1>9, <1>10, <1>11 DEF Earned, Stored
<1>13. \A d \in calls : d.order = o
  BY DEF CallsFor
<1>14. TypeOK /\ Earned(c) \in Nat
  BY EarnedType DEF EffectsInv, Inv
<1> HIDE DEF calls, event
<1> QED
  BY <1>2, <1>5, <1>6, <1>8, <1>12, <1>13, <1>14, CommitEarnsWhatItOwes

LEMMA StartedIsStarted ==
    ASSUME EffectsInv, NEW h \in Handlers, StartEffects(h), NEW c \in Calls, AllStarted(c)
    PROVE  AllStarted(c)'
<1>1. At(h, "committed")
  BY DEF StartEffects
<1>2. /\ handler'[h] = Idle
      /\ \A g \in Handlers \ {h} : handler'[g] = handler[g]
      /\ UNCHANGED <<orders, tally>>
  BY DEF StartEffects, EffectsInv, Inv, TypeOK
<1>3. Earned(c)' = Earned(c)
  BY <1>2 DEF Earned, Stored
<1>4. Owing(c)' = Owing(c) \ {h} /\ Owing(c) \in SUBSET Handlers
  BY <1>2 DEF Owing, At
<1>5. h \in Owing(c) <=> c \in handler[h].calls
  BY <1>1 DEF Owing
<1>6. spawned'[c] = IF c \in handler[h].calls THEN spawned[c] + 1 ELSE spawned[c]
  BY DEF StartEffects
<1>7. /\ Cardinality(Owing(c)) \in Nat
      /\ Cardinality(Owing(c)') = IF h \in Owing(c) THEN Cardinality(Owing(c)) - 1
                                  ELSE Cardinality(Owing(c))
  BY <1>4, OneLeaves
<1>8. spawned[c] \in Nat
  BY DEF EffectsInv, Inv, TypeOK
<1> QED
  BY <1>3, <1>5, <1>6, <1>7, <1>8 DEF AllStarted

(* Nothing moves where no handler commits, starts its calls or dies owing. *)
LEMMA QuietIsStarted ==
    ASSUME UNCHANGED <<orders, tally, spawned>>, NEW c \in Calls, AllStarted(c),
           Owing(c)' = Owing(c)
    PROVE  AllStarted(c)'
BY DEF AllStarted, Earned, Stored

LEMMA NothingIsForgotten ==
    ASSUME EffectsInv, NEW c \in Calls, AllStarted(c),
           \/ Working
           \/ \E h \in Handlers \ Owing(c) : HandlerDies(h)
           \/ UNCHANGED vars
    PROVE  AllStarted(c)'
<1>1. handler \in [Handlers -> Handling \cup {Idle}]
  BY DEF EffectsInv, Inv, TypeOK
<1>2. CASE UNCHANGED vars
  <2>1. Owing(c)' = Owing(c)
    BY <1>2 DEF vars, Owing, At
  <2> QED
    BY <1>2, <2>1, QuietIsStarted DEF vars
<1>3. ASSUME NEW h \in Handlers, ~At(h, "committed"), ~At(h, "committed")',
             \A g \in Handlers \ {h} : handler'[g] = handler[g],
             UNCHANGED <<orders, tally, spawned>>
      PROVE  AllStarted(c)'
  <2>1. Owing(c)' = Owing(c)
    BY <1>3 DEF Owing, At
  <2> QED
    BY <1>3, <2>1, QuietIsStarted
<1>4. ASSUME NEW h \in Handlers, NEW user \in Users, NEW ids \in BookLists,
             NEW days \in BorrowDays, StartCreate(h, user, ids, days)
      PROVE  AllStarted(c)'
  <2>1. handler[h] = Idle /\ handler'[h].pc = "checking"
    BY <1>1, <1>4 DEF StartCreate
  <2> QED
    BY <1>1, <1>3, <1>4, <2>1 DEF StartCreate, At
<1>5. ASSUME NEW h \in Handlers, NEW b \in BookIds, BookChecked(h, b)
      PROVE  AllStarted(c)'
  <2>1. handler[h] \in Checking
    BY <1>5, HandlerFields DEF BookChecked, EffectsInv, Inv
  <2>2. handler[h].pc = "checking" /\ handler'[h].pc = "checking"
    BY <1>1, <1>5, <2>1 DEF BookChecked, Checking
  <2> QED
    BY <1>1, <1>3, <1>5, <2>2 DEF BookChecked, At
<1>6. ASSUME NEW h \in Handlers, NEW o \in OrderIds, StartReturn(h, o)
      PROVE  AllStarted(c)'
  <2>1. handler[h] = Idle /\ handler'[h].pc = "returning"
    BY <1>1, <1>6 DEF StartReturn
  <2> QED
    BY <1>1, <1>3, <1>6, <2>1 DEF StartReturn, At
<1>7. ASSUME NEW h \in Handlers \ Owing(c), HandlerDies(h)
      PROVE  AllStarted(c)'
  <2>1. /\ handler'[h] = Idle
        /\ \A g \in Handlers \ {h} : handler'[g] = handler[g]
        /\ UNCHANGED <<orders, tally, spawned>>
    BY <1>1, <1>7 DEF HandlerDies
  <2>2. Owing(c)' = Owing(c)
    BY <2>1 DEF Owing, At
  <2> QED
    BY <2>1, <2>2, QuietIsStarted
<1>8. CASE DayPasses
  <2>1. Owing(c)' = Owing(c)
    BY <1>8 DEF DayPasses, Owing, At
  <2> QED
    BY <1>8, <2>1, QuietIsStarted DEF DayPasses
<1> QED
  BY <1>2, <1>4, <1>5, <1>6, <1>7, <1>8, PlacedIsStarted, CanceledIsStarted, DecidedIsStarted,
     ReturnedIsStarted, StartedIsStarted DEF Working

------------------------------------------------------------------------------
(* For any number of orders, books and racing handlers: a book of an order is   *)
(* reserved at most once, and released at most once per cancellation and return. *)
THEOREM CallsAreEarned == Spec => []StockCallsAreEarned
<1>1. EffectsInv => StockCallsAreEarned
  BY DEF EffectsInv, CallsSound, StockCallsAreEarned, Underway, Owing, CallBound
<1> QED
  BY <1>1, EffectsInvHolds, PTL

(* For any number of orders and racing handlers: an event is emitted at most once *)
(* per committed transition, and under the name of the order's borrower.          *)
THEOREM EmittedEventsAreEarned == Spec => []EventsAreEarned
<1>1. ASSUME EffectsInv PROVE EventsAreEarned
  <2>1. ASSUME NEW e \in Events PROVE emitted[e] <= EventBound(e) /\ emitted[e] \in Nat
    <3>1. CountsNatural
      BY <1>1, CountsAreNaturals DEF EffectsInv, Inv
    <3> QED
      BY <1>1, <3>1 DEF EffectsInv, EventsSound, CountsNatural
  <2>2. \A e \in CreatedEvent : e \in Events /\ e.type = "order.created"
    BY DEF Events, CreatedEvent
  <2>3. \A e \in CanceledEvent : e \in Events /\ e.type = "order.canceled"
    BY DEF Events, CanceledEvent
  <2>4. \A e \in UpdatedEvent : e \in Events /\ e.type = "order.status_updated"
    BY DEF Events, UpdatedEvent
  <2>5. ASSUME NEW e \in CreatedEvent
        PROVE  emitted[e] <= 1 /\ (emitted[e] > 0 => Named(e))
    BY <2>1, <2>2 DEF EventBound
  <2>6. ASSUME NEW e \in CanceledEvent
        PROVE  /\ emitted[e] > 0 => Named(e)
               /\ emitted[e] <= tally[e.order].cancels
    <3>1. e.order \in OrderIds
      BY DEF CanceledEvent
    <3>2. tally[e.order].cancels \in Nat
      BY <1>1, <3>1 DEF EffectsInv, Inv, TypeOK, Tally
    <3> QED
      BY <2>1, <2>3, <3>2 DEF EventBound
  <2>7. ASSUME NEW e \in UpdatedEvent
        PROVE  emitted[e] <= tally[e.order].decisions
    BY <2>1, <2>4 DEF EventBound
  <2> QED
    BY <2>5, <2>6, <2>7 DEF EventsAreEarned, Named
<1> QED
  BY <1>1, EffectsInvHolds, PTL

------------------------------------------------------------------------------
(* The refinement of OrderLedger. *)

\* The call that Rounds counts for o.
RoundCall(o) == [order |-> o, book |-> AnyOf(orders[o].books), change |-> 1]

LedgerStatus    == [o \in OrderIds |-> IF Stored(o) THEN orders[o].status ELSE NoOrder]
LedgerEarned    == [o \in OrderIds |-> Cardinality(Releasers(o))]
LedgerRestocked == [o \in OrderIds |-> Rounds(o)]

\* The order o goes to status s and no round is started; o earns a round.
Moves(o, s) ==
    /\ LedgerStatus' = [LedgerStatus EXCEPT ![o] = s]
    /\ LedgerRestocked' = LedgerRestocked
Earns(o) == LedgerEarned' = [LedgerEarned EXCEPT ![o] = @ + 1]

(* The call of a round is a release call for a book of the order. *)
LEMMA RoundCallType ==
    ASSUME EffectsInv, NEW o \in OrderIds, Stored(o)
    PROVE  /\ RoundCall(o) \in Calls
           /\ RoundCall(o).order = o /\ RoundCall(o).change = 1
           /\ RoundCall(o) \in CallsFor(o, orders[o].books, 1)
           /\ Rounds(o) = spawned[RoundCall(o)]
           /\ Rounds(o) \in Nat
<1>1. orders[o].books \in SUBSET BookIds /\ orders[o].books # {}
  BY StoredIsOrder DEF EffectsInv, Inv, LoadsFit, Order
<1>2. AnyOf(orders[o].books) \in orders[o].books
  BY <1>1 DEF AnyOf
<1>3. RoundCall(o) \in Calls /\ RoundCall(o) \in CallsFor(o, orders[o].books, 1)
  BY <1>1, <1>2 DEF RoundCall, Calls, CallsFor
<1>4. Rounds(o) = spawned[RoundCall(o)]
  BY DEF Rounds, RoundCall
<1> QED
  BY <1>3, <1>4 DEF RoundCall, EffectsInv, Inv, TypeOK

(* A commit adds its handler to the releasers of the order it releases. *)
LEMMA CommitEarns ==
    ASSUME TypeOK, NEW h \in Handlers, NEW calls \in SUBSET Calls, NEW event \in Events,
           ~At(h, "committed"), Commit(h, calls, event), NEW o \in OrderIds
    PROVE  /\ Cardinality(Releasers(o)) \in Nat
           /\ Cardinality(Releasers(o)') =
                IF \E c \in calls : c.order = o /\ c.change = 1
                THEN Cardinality(Releasers(o)) + 1 ELSE Cardinality(Releasers(o))
<1>1. /\ handler'[h].pc = "committed" /\ handler'[h].calls = calls /\ handler'[h] # Idle
      /\ \A g \in Handlers \ {h} : handler'[g] = handler[g]
  <2>1. [pc |-> "committed", calls |-> calls, event |-> event] \in Handling
    BY DEF Handling, Committed
  <2> QED
    BY <2>1, OrderServiceAssumption DEF Commit, TypeOK
<1>2. Releasers(o)' = IF \E c \in calls : c.order = o /\ c.change = 1
                      THEN Releasers(o) \cup {h} ELSE Releasers(o)
  BY <1>1 DEF Releasers, Releasing, At
<1>3. Releasers(o) \in SUBSET Handlers /\ h \notin Releasers(o)
  BY DEF Releasers, Releasing
<1> QED
  BY <1>2, <1>3, OneJoins

LEMMA LedgerInit == Init => Ledger!Init
<1> SUFFICES ASSUME Init PROVE Ledger!Init
  OBVIOUS
<1>1. \A o \in OrderIds : ~Stored(o)
  BY DEF Init, Stored
<1>2. \A o \in OrderIds : {h \in Handlers : Releasing(h, o)} = {}
  BY DEF Init, Releasing, At
<1>3. \A o \in OrderIds : Rounds(o) = 0
  BY <1>1 DEF Rounds
<1> QED
  BY <1>1, <1>2, <1>3, NoneOwes DEF Ledger!Init

(* The state of the ledger is the same where its three functions are. *)
LEMMA LedgerVars ==
    ASSUME LedgerStatus' = LedgerStatus,
           LedgerEarned' = LedgerEarned,
           LedgerRestocked' = LedgerRestocked
    PROVE  UNCHANGED Ledger!vars
BY DEF Ledger!vars, LedgerStatus, LedgerEarned, LedgerRestocked, Releasers

(* A commit on o as the ledger sees it. *)
LEMMA LedgerCommit ==
    ASSUME EffectsInv, EffectsInv', NEW h \in Handlers, NEW o \in OrderIds, NEW row \in Order,
           NEW calls \in SUBSET Calls, NEW event \in Events,
           ~At(h, "committed"), Commit(h, calls, event), UNCHANGED spawned,
           orders' = [orders EXCEPT ![o] = row],
           \A c \in calls : c.order = o,
           Stored(o) => row.books = orders[o].books,
           Stored(o) \/ tally'[o] = NoTransitions
    PROVE  /\ Moves(o, row.status)
           /\ (\E c \in calls : c.change = 1) => Earns(o)
           /\ ~(\E c \in calls : c.change = 1) => LedgerEarned' = LedgerEarned
<1>1. orders'[o] = row /\ row # NoOrder /\ \A p \in OrderIds \ {o} : orders'[p] = orders[p]
  BY OrderServiceAssumption DEF EffectsInv, Inv, TypeOK
<1>2. LedgerStatus' = [LedgerStatus EXCEPT ![o] = row.status]
  <2> DEFINE StatusOf(p) == IF Stored(p) THEN orders[p].status ELSE NoOrder
  <2>1. StatusOf(o)' = row.status
    BY <1>1 DEF Stored
  <2>2. \A p \in OrderIds \ {o} : StatusOf(p)' = StatusOf(p)
    BY <1>1 DEF Stored
  <2>3. LedgerStatus = [p \in OrderIds |-> StatusOf(p)]
    BY DEF LedgerStatus
  <2>4. LedgerStatus' = [p \in OrderIds |-> StatusOf(p)']
    BY DEF LedgerStatus
  <2> HIDE DEF StatusOf
  <2> QED
    BY <2>1, <2>2, <2>3, <2>4
<1>3. \A p \in OrderIds :
         /\ Cardinality(Releasers(p)) \in Nat
         /\ Cardinality(Releasers(p)') =
              IF \E c \in calls : c.order = p /\ c.change = 1
              THEN Cardinality(Releasers(p)) + 1 ELSE Cardinality(Releasers(p))
  BY CommitEarns DEF EffectsInv, Inv
<1>4. ASSUME \E c \in calls : c.change = 1
      PROVE  Earns(o)
  BY <1>3, <1>4 DEF LedgerEarned, Earns
<1>5. ASSUME ~(\E c \in calls : c.change = 1)
      PROVE  LedgerEarned' = LedgerEarned
  BY <1>3, <1>5 DEF LedgerEarned
<1>6. ASSUME Stored(o) PROVE LedgerRestocked' = LedgerRestocked
  <2>1. orders'[o].books = orders[o].books /\ Stored(o)'
    BY <1>1, <1>6 DEF Stored
  <2>2. Rounds(o)' = Rounds(o)
    BY <2>1, <1>6 DEF Rounds
  <2>3. \A p \in OrderIds \ {o} : Rounds(p)' = Rounds(p)
    BY <1>1 DEF Rounds, Stored
  <2> QED
    BY <2>2, <2>3 DEF LedgerRestocked
<1>7. ASSUME ~Stored(o), tally'[o] = NoTransitions
      PROVE  LedgerRestocked' = LedgerRestocked
  <2>1. Rounds(o) = 0
    BY <1>7 DEF Rounds
  <2>2. Rounds(o)' = 0
    <3>1. PICK b \in BookIds : b = AnyOf(row.books)
      BY <1>1 DEF EffectsInv, LoadsFit, Stored, Order, AnyOf
    <3> DEFINE c == [order |-> o, book |-> b, change |-> 1]
    <3>2. Rounds(o)' = spawned'[c]
      BY <1>1, <3>1 DEF Rounds, Stored
    <3>3. c \in Calls
      BY DEF Calls
    <3>4. CallBound(c)' = 0
      BY <1>7 DEF CallBound, NoTransitions
    <3>5. CountsNatural'
      BY CountsAreNaturals, PTL DEF EffectsInv, Inv
    <3>6. spawned'[c] + Cardinality(Owing(c)') <= CallBound(c)'
      BY <3>3 DEF EffectsInv, CallsSound
    <3> QED
      BY <3>2, <3>3, <3>4, <3>5, <3>6 DEF CountsNatural
  <2>3. \A p \in OrderIds \ {o} : Rounds(p)' = Rounds(p)
    BY <1>1 DEF Rounds, Stored
  <2> QED
    BY <2>1, <2>2, <2>3 DEF LedgerRestocked
<1>8. Moves(o, row.status)
  BY <1>2, <1>6, <1>7 DEF Moves
<1> QED
  BY <1>4, <1>5, <1>8

LEMMA PlaceIsPlace ==
    ASSUME EffectsInv, EffectsInv', NEW h \in Handlers, NEW o \in OrderIds, PlaceOrder(h, o)
    PROVE  Ledger!Place(o)
<1>1. ~At(h, "committed")
  BY DEF PlaceOrder, At
<1>2. PICK user \in Users, bs \in SUBSET BookIds, due \in Nat :
        /\ user = handler[h].user
        /\ bs = Range(handler[h].ids)
        /\ bs # {}
        /\ due = day + handler[h].days
  BY RequestFields DEF PlaceOrder, EffectsInv, Inv
<1> DEFINE row == [user |-> user, books |-> bs, status |-> "PENDING",
                   due |-> due, returned |-> NoDate, penalty |-> 0]
           calls == CallsFor(o, bs, -1)
           event == [type |-> "order.created", order |-> o, user |-> user]
<1>3. calls \in SUBSET Calls /\ event \in Events /\ row \in Order
  BY <1>2, CallsForType DEF Events, CreatedEvent, Order, Statuses
<1>4. ~Stored(o) /\ tally'[o] = NoTransitions
  BY DEF PlaceOrder, EffectsInv, Inv, TallySound
<1>5. /\ orders' = [orders EXCEPT ![o] = row]
      /\ Commit(h, calls, event)
      /\ UNCHANGED spawned
  BY <1>2 DEF PlaceOrder
<1>6. (\A c \in calls : c.order = o) /\ ~(\E c \in calls : c.change = 1)
  BY DEF CallsFor
<1>7. row.status = "PENDING"
  OBVIOUS
<1> HIDE DEF row, calls, event
<1>8. Moves(o, "PENDING") /\ LedgerEarned' = LedgerEarned
  BY <1>1, <1>3, <1>4, <1>5, <1>6, <1>7, LedgerCommit
<1>9. LedgerStatus[o] = NoOrder
  BY <1>4 DEF LedgerStatus
<1> QED
  BY <1>8, <1>9 DEF Ledger!Place, Moves, Earns, LedgerStatus, LedgerEarned,
                     LedgerRestocked, Releasers

LEMMA CancelIsCancel ==
    ASSUME EffectsInv, EffectsInv', NEW h \in Handlers, NEW o \in OrderIds, NEW user \in Users,
           CancelOrder(h, o, user)
    PROVE  Ledger!Cancel(o)
<1>1. Stored(o) /\ orders[o] \in Order /\ orders[o].status = "PENDING" /\ ~At(h, "committed")
  BY StoredIsOrder DEF CancelOrder, EffectsInv, Inv, At
<1>2. PICK bs \in SUBSET BookIds : bs = orders[o].books /\ bs # {}
  BY <1>1 DEF Order, EffectsInv, LoadsFit
<1> DEFINE row == [orders[o] EXCEPT !.status = "CANCELED"]
           calls == CallsFor(o, bs, 1)
           event == [type |-> "order.canceled", order |-> o, user |-> user]
<1>3. calls \in SUBSET Calls /\ event \in Events
  BY CallsForType DEF Events, CanceledEvent
<1>4. row \in Order /\ row.books = orders[o].books /\ row.status = "CANCELED"
  BY <1>1 DEF Order, Statuses
<1>5. /\ orders' = [orders EXCEPT ![o] = row]
      /\ Commit(h, calls, event)
      /\ UNCHANGED spawned
  BY <1>2 DEF CancelOrder
<1>6. (\A c \in calls : c.order = o) /\ (\E c \in calls : c.change = 1)
  <2>1. PICK b \in bs : TRUE
    BY <1>2
  <2>2. [order |-> o, book |-> b, change |-> 1] \in calls
    BY DEF CallsFor
  <2> QED
    BY <2>2 DEF CallsFor
<1> HIDE DEF row, calls, event
<1>7. Moves(o, "CANCELED") /\ Earns(o)
  BY <1>1, <1>3, <1>4, <1>5, <1>6, LedgerCommit
<1>8. LedgerStatus[o] = "PENDING"
  BY <1>1 DEF LedgerStatus
<1> QED
  BY <1>7, <1>8 DEF Ledger!Cancel, Moves, Earns, LedgerStatus, LedgerEarned,
                     LedgerRestocked, Releasers

LEMMA DecisionIsDecision ==
    ASSUME EffectsInv, EffectsInv', NEW h \in Handlers, NEW o \in OrderIds,
           NEW status \in Decisions, UpdateStatus(h, o, status)
    PROVE  status \in Statuses /\ Ledger!Decide(o, status)
<1>1. /\ Stored(o) /\ orders[o] \in Order /\ ~At(h, "committed")
      /\ status \in Statuses /\ status # "RETURNED"
  BY StoredIsOrder, OrderServiceAssumption DEF UpdateStatus, EffectsInv, Inv, At
<1> DEFINE row == [orders[o] EXCEPT !.status = status]
           event == [type |-> "order.status_updated", order |-> o, status |-> status]
<1>2. {} \in SUBSET Calls /\ event \in Events
  BY <1>1 DEF Events, UpdatedEvent
<1>3. row \in Order /\ row.books = orders[o].books /\ row.status = status
  BY <1>1 DEF Order
<1>4. /\ orders' = [orders EXCEPT ![o] = row]
      /\ Commit(h, {}, event)
      /\ UNCHANGED spawned
  BY DEF UpdateStatus
<1>5. (\A c \in {} : c.order = o) /\ ~(\E c \in {} : c.change = 1)
  OBVIOUS
<1> HIDE DEF row, event
<1>6. Moves(o, status) /\ LedgerEarned' = LedgerEarned
  BY <1>1, <1>2, <1>3, <1>4, <1>5, LedgerCommit
<1>7. LedgerStatus[o] # NoOrder
  BY <1>1, OrderServiceAssumption DEF LedgerStatus, Order
<1> QED
  BY <1>1, <1>6, <1>7 DEF Ledger!Decide, Moves, Earns, LedgerStatus, LedgerEarned,
                     LedgerRestocked, Releasers

LEMMA ReturnIsReturn ==
    ASSUME EffectsInv, EffectsInv', NEW h \in Handlers, NEW asked \in 0..MaxDay,
           FinishReturn(h, asked)
    PROVE  \E o \in OrderIds : Ledger!Return(o)
<1>1. PICK o \in OrderIds, seen \in Order :
         o = handler[h].order /\ seen = handler[h].seen /\ seen.books = orders[o].books
  BY HandlerFields DEF FinishReturn, EffectsInv, Inv, Returning, LoadsFit
<1>2. At(h, "returning") /\ ~At(h, "committed")
  BY DEF FinishReturn, At
<1>3. Stored(o) /\ orders[o] \in Order
  BY <1>1, <1>2, StoredIsOrder DEF EffectsInv, Inv, ReturningSound
<1>4. PICK bs \in SUBSET BookIds : bs = orders[o].books /\ bs # {}
  BY <1>3 DEF Order, EffectsInv, LoadsFit
<1>5. asked \in Nat /\ day \in Nat
  BY OrderServiceAssumption DEF EffectsInv, Inv, TypeOK
<1> DEFINE row == [orders[o] EXCEPT !.status = "RETURNED", !.returned = day,
                                    !.penalty = Penalty(seen, asked)]
           calls == CallsFor(o, bs, 1)
           event == [type |-> "order.status_updated", order |-> o, status |-> "RETURNED"]
<1>6. calls \in SUBSET Calls /\ event \in Events
  BY CallsForType DEF Events, UpdatedEvent, Statuses
<1>7. row \in Order /\ row.books = orders[o].books /\ row.status = "RETURNED"
  <2>1. Penalty(seen, asked) \in Nat
    BY <1>5, PenaltyBounded
  <2> QED
    BY <1>3, <1>5, <2>1 DEF Order, Statuses
<1>8. /\ orders' = [orders EXCEPT ![o] = row]
      /\ Commit(h, calls, event)
      /\ UNCHANGED spawned
  BY <1>1, <1>4 DEF FinishReturn
<1>9. (\A c \in calls : c.order = o) /\ (\E c \in calls : c.change = 1)
  <2>1. PICK b \in bs : TRUE
    BY <1>4
  <2>2. [order |-> o, book |-> b, change |-> 1] \in calls
    BY DEF CallsFor
  <2> QED
    BY <2>2 DEF CallsFor
<1> HIDE DEF row, calls, event
<1>10. Moves(o, "RETURNED") /\ Earns(o)
  BY <1>2, <1>3, <1>6, <1>7, <1>8, <1>9, LedgerCommit
<1>11. LedgerStatus[o] # NoOrder
  BY <1>3, OrderServiceAssumption DEF LedgerStatus, Order
<1> QED
  BY <1>10, <1>11 DEF Ledger!Return, Moves, Earns, LedgerStatus, LedgerEarned,
                     LedgerRestocked, Releasers

(* A handler releases the books of one order, all of them. *)
LEMMA OneRound ==
    ASSUME EffectsInv, NEW h \in Handlers, NEW o \in OrderIds, Releasing(h, o)
    PROVE  /\ Stored(o)
           /\ handler[h].calls = CallsFor(o, orders[o].books, 1)
           /\ \A p \in OrderIds \ {o} : ~Releasing(h, p)
<1>1. PICK c \in handler[h].calls : c.order = o /\ c.change = 1
  BY DEF Releasing
<1>2. Load(handler[h].calls) /\ handler[h].calls # {}
  BY <1>1 DEF Releasing, EffectsInv, LoadsFit
<1>3. PICK p \in OrderIds, change \in {-1, 1} :
         Stored(p) /\ handler[h].calls = CallsFor(p, orders[p].books, change)
  BY <1>2 DEF Load
<1>4. p = o /\ change = 1
  BY <1>1, <1>3 DEF CallsFor
<1> QED
  BY <1>3, <1>4 DEF Releasing, CallsFor

(* A handler that ends is no releaser any more. *)
LEMMA OneReleaserLess ==
    ASSUME NEW h \in Handlers, handler'[h] = Idle,
           \A g \in Handlers \ {h} : handler'[g] = handler[g],
           NEW o \in OrderIds
    PROVE  /\ Cardinality(Releasers(o)) \in Nat
           /\ Releasing(h, o) => /\ Cardinality(Releasers(o)) > 0
                                 /\ Cardinality(Releasers(o)') = Cardinality(Releasers(o)) - 1
           /\ ~Releasing(h, o) => Cardinality(Releasers(o)') = Cardinality(Releasers(o))
<1>1. Releasers(o)' = Releasers(o) \ {h} /\ Releasers(o) \in SUBSET Handlers
  BY DEF Releasers, Releasing, At
<1>2. h \in Releasers(o) <=> Releasing(h, o)
  BY DEF Releasers
<1>3. /\ Cardinality(Releasers(o)) \in Nat
      /\ Cardinality(Releasers(o) \ {h}) \in Nat
      /\ Cardinality(Releasers(o) \ {h}) = IF h \in Releasers(o) THEN Cardinality(Releasers(o)) - 1
                                           ELSE Cardinality(Releasers(o))
  BY <1>1, OneLeaves
<1> QED
  BY <1>1, <1>2, <1>3

LEMMA StartIsRestock ==
    ASSUME EffectsInv, NEW h \in Handlers, StartEffects(h)
    PROVE  (\E o \in OrderIds : Ledger!Restock(o)) \/ UNCHANGED Ledger!vars
<1>1. /\ handler'[h] = Idle
      /\ \A g \in Handlers \ {h} : handler'[g] = handler[g]
      /\ orders' = orders
      /\ At(h, "committed")
  BY DEF StartEffects, EffectsInv, Inv, TypeOK
<1>2. LedgerStatus' = LedgerStatus
  BY <1>1 DEF LedgerStatus, Stored
<1>3. ASSUME NEW o \in OrderIds
      PROVE  Rounds(o)' = IF Stored(o) /\ RoundCall(o) \in handler[h].calls
                          THEN Rounds(o) + 1 ELSE Rounds(o)
  <2>1. CASE Stored(o)
    <3>1. RoundCall(o) \in Calls /\ Rounds(o) = spawned[RoundCall(o)]
      BY <2>1, RoundCallType
    <3>2. Rounds(o)' = spawned'[RoundCall(o)]
      BY <1>1, <2>1 DEF Rounds, RoundCall, Stored
    <3> QED
      BY <2>1, <3>1, <3>2 DEF StartEffects
  <2>2. CASE ~Stored(o)
    BY <1>1, <2>2 DEF Rounds, Stored
  <2> QED
    BY <2>1, <2>2
<1>4. ASSUME NEW o \in OrderIds, Releasing(h, o) PROVE Ledger!Restock(o)
  <2>1. /\ Stored(o)
        /\ handler[h].calls = CallsFor(o, orders[o].books, 1)
        /\ \A p \in OrderIds \ {o} : ~Releasing(h, p)
    BY <1>4, OneRound
  <2>2. \A p \in OrderIds :
           /\ Cardinality(Releasers(p)) \in Nat
           /\ Releasing(h, p) => /\ Cardinality(Releasers(p)) > 0
                                 /\ Cardinality(Releasers(p)') = Cardinality(Releasers(p)) - 1
           /\ ~Releasing(h, p) => Cardinality(Releasers(p)') = Cardinality(Releasers(p))
    BY <1>1, OneReleaserLess
  <2>3. LedgerEarned' = [LedgerEarned EXCEPT ![o] = @ - 1] /\ LedgerEarned[o] > 0
    BY <1>4, <2>1, <2>2 DEF LedgerEarned
  <2>4. Rounds(o)' = Rounds(o) + 1
    BY <1>3, <2>1, RoundCallType
  <2>5. \A p \in OrderIds \ {o} : Rounds(p)' = Rounds(p)
    <3> SUFFICES ASSUME NEW p \in OrderIds \ {o} PROVE Rounds(p)' = Rounds(p)
      OBVIOUS
    <3>1. RoundCall(p) \notin handler[h].calls
      BY <2>1 DEF RoundCall, CallsFor
    <3> QED
      BY <1>3, <3>1
  <2>6. LedgerRestocked' = [LedgerRestocked EXCEPT ![o] = @ + 1]
    BY <2>4, <2>5 DEF LedgerRestocked
  <2> QED
    BY <1>2, <2>3, <2>6 DEF Ledger!Restock, LedgerStatus, LedgerEarned, LedgerRestocked, Releasers
<1>5. ASSUME \A o \in OrderIds : ~Releasing(h, o) PROVE UNCHANGED Ledger!vars
  <2>1. \A o \in OrderIds : Cardinality(Releasers(o)') = Cardinality(Releasers(o))
    BY <1>1, <1>5, OneReleaserLess
  <2>2. LedgerEarned' = LedgerEarned
    BY <2>1 DEF LedgerEarned
  <2>3. ASSUME NEW o \in OrderIds, Stored(o) PROVE RoundCall(o) \notin handler[h].calls
    BY <1>1, <1>5, <2>3, RoundCallType DEF Releasing
  <2>4. \A o \in OrderIds : Rounds(o)' = Rounds(o)
    BY <1>3, <2>3
  <2>5. LedgerRestocked' = LedgerRestocked
    BY <2>4 DEF LedgerRestocked
  <2> QED
    BY <1>2, <2>2, <2>5, LedgerVars
<1> QED
  BY <1>4, <1>5

LEMMA DeathIsForfeit ==
    ASSUME EffectsInv, NEW h \in Handlers, HandlerDies(h)
    PROVE  (\E o \in OrderIds : Ledger!Forfeit(o)) \/ UNCHANGED Ledger!vars
<1>1. /\ handler'[h] = Idle
      /\ \A g \in Handlers \ {h} : handler'[g] = handler[g]
      /\ UNCHANGED <<orders, spawned>>
  BY DEF HandlerDies, EffectsInv, Inv, TypeOK
<1>2. LedgerStatus' = LedgerStatus /\ LedgerRestocked' = LedgerRestocked
  BY <1>1 DEF LedgerStatus, LedgerRestocked, Rounds, Stored
<1>3. \A p \in OrderIds :
         /\ Cardinality(Releasers(p)) \in Nat
         /\ Releasing(h, p) => /\ Cardinality(Releasers(p)) > 0
                               /\ Cardinality(Releasers(p)') = Cardinality(Releasers(p)) - 1
         /\ ~Releasing(h, p) => Cardinality(Releasers(p)') = Cardinality(Releasers(p))
  BY <1>1, OneReleaserLess
<1>4. ASSUME NEW o \in OrderIds, Releasing(h, o) PROVE Ledger!Forfeit(o)
  <2>1. \A p \in OrderIds \ {o} : ~Releasing(h, p)
    BY <1>4, OneRound
  <2>2. LedgerEarned' = [LedgerEarned EXCEPT ![o] = @ - 1] /\ LedgerEarned[o] > 0
    BY <1>3, <1>4, <2>1 DEF LedgerEarned
  <2> QED
    BY <1>2, <2>2 DEF Ledger!Forfeit, LedgerStatus, LedgerEarned, LedgerRestocked, Releasers
<1>5. ASSUME \A o \in OrderIds : ~Releasing(h, o) PROVE UNCHANGED Ledger!vars
  <2>1. LedgerEarned' = LedgerEarned
    BY <1>3, <1>5 DEF LedgerEarned
  <2> QED
    BY <1>2, <2>1, LedgerVars
<1> QED
  BY <1>4, <1>5

(* Steps between two commits, which the ledger does not see. *)
LEMMA QuietIsStutter ==
    ASSUME UNCHANGED <<orders, spawned>>,
           \A g \in Handlers : At(g, "committed")' <=> At(g, "committed"),
           \A g \in Handlers : At(g, "committed")' => handler'[g] = handler[g]
    PROVE  UNCHANGED Ledger!vars
<1>1. \A o \in OrderIds : Releasers(o)' = Releasers(o)
  BY DEF Releasers, Releasing
<1>2. LedgerEarned' = LedgerEarned
  BY <1>1 DEF LedgerEarned
<1>3. LedgerStatus' = LedgerStatus /\ LedgerRestocked' = LedgerRestocked
  BY DEF LedgerStatus, LedgerRestocked, Rounds, Stored
<1> QED
  BY <1>2, <1>3, LedgerVars

LEMMA LedgerNext == EffectsInv /\ [Next]_vars => [Ledger!Next]_(Ledger!vars)
<1> SUFFICES ASSUME EffectsInv, [Next]_vars PROVE [Ledger!Next]_(Ledger!vars)
  OBVIOUS
<1>1. EffectsInv'
  BY NextEffects
<1>2. handler \in [Handlers -> Handling \cup {Idle}]
  BY DEF EffectsInv, Inv, TypeOK
<1>3. CASE UNCHANGED vars
  BY <1>3, QuietIsStutter DEF vars, At
<1>4. ASSUME NEW h \in Handlers, NEW user \in Users, NEW ids \in BookLists,
             NEW days \in BorrowDays, StartCreate(h, user, ids, days)
      PROVE  UNCHANGED Ledger!vars
  <2>1. /\ ~At(h, "committed") /\ ~At(h, "committed")'
        /\ \A g \in Handlers \ {h} : handler'[g] = handler[g]
        /\ UNCHANGED <<orders, spawned>>
    BY <1>2, <1>4 DEF StartCreate, At
  <2> QED
    BY <2>1, QuietIsStutter DEF At
<1>5. ASSUME NEW h \in Handlers, NEW b \in BookIds, BookChecked(h, b)
      PROVE  UNCHANGED Ledger!vars
  <2>1. handler[h] \in Checking
    BY <1>5, HandlerFields DEF BookChecked, EffectsInv, Inv
  <2>2. /\ ~At(h, "committed") /\ ~At(h, "committed")'
        /\ \A g \in Handlers \ {h} : handler'[g] = handler[g]
        /\ UNCHANGED <<orders, spawned>>
    BY <1>2, <1>5, <2>1 DEF BookChecked, Checking, At
  <2> QED
    BY <2>2, QuietIsStutter DEF At
<1>6. ASSUME NEW h \in Handlers, NEW o \in OrderIds, StartReturn(h, o)
      PROVE  UNCHANGED Ledger!vars
  <2>1. /\ ~At(h, "committed") /\ ~At(h, "committed")'
        /\ \A g \in Handlers \ {h} : handler'[g] = handler[g]
        /\ UNCHANGED <<orders, spawned>>
    BY <1>2, <1>6 DEF StartReturn, At
  <2> QED
    BY <2>1, QuietIsStutter DEF At
<1>7. ASSUME NEW h \in Handlers, NEW o \in OrderIds, PlaceOrder(h, o)
      PROVE  Ledger!Place(o)
  BY <1>1, <1>7, PlaceIsPlace
<1>8. ASSUME NEW h \in Handlers, NEW o \in OrderIds, NEW user \in Users, CancelOrder(h, o, user)
      PROVE  Ledger!Cancel(o)
  BY <1>1, <1>8, CancelIsCancel
<1>9. ASSUME NEW h \in Handlers, NEW o \in OrderIds, NEW status \in Decisions,
             UpdateStatus(h, o, status)
      PROVE  status \in Statuses /\ Ledger!Decide(o, status)
  BY <1>1, <1>9, DecisionIsDecision
<1>10. ASSUME NEW h \in Handlers, NEW asked \in 0..MaxDay, FinishReturn(h, asked)
       PROVE  \E o \in OrderIds : Ledger!Return(o)
  BY <1>1, <1>10, ReturnIsReturn
<1>11. ASSUME NEW h \in Handlers, StartEffects(h)
       PROVE  (\E o \in OrderIds : Ledger!Restock(o)) \/ UNCHANGED Ledger!vars
  BY <1>11, StartIsRestock
<1>12. ASSUME NEW h \in Handlers, HandlerDies(h)
       PROVE  (\E o \in OrderIds : Ledger!Forfeit(o)) \/ UNCHANGED Ledger!vars
  BY <1>12, DeathIsForfeit
<1>13. CASE DayPasses
  BY <1>13, QuietIsStutter DEF DayPasses, At
<1> QED
  BY <1>3, <1>4, <1>5, <1>6, <1>7, <1>8, <1>9, <1>10, <1>11, <1>12, <1>13
     DEF Next, Ledger!Next

(* For any number of orders and handlers the order-service implements OrderLedger: *)
(* books go back to the shelf once for each cancellation and each return, or never. *)
THEOREM LedgerIsImplemented == Spec => LedgerSpec
<1> QED
  BY LedgerInit, LedgerNext, EffectsInvHolds, PTL DEF Spec, LedgerSpec, Ledger!Spec
=============================================================================
