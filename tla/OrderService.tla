---------------------------- MODULE OrderService ----------------------------
(***************************************************************************)
(* The order-service: the tables "orders" and "order_books", the gRPC      *)
(* handlers that change them, and what a handler starts in the background  *)
(* before it answers: one UpdateBookQuantity call per book and one event.  *)
(*                                                                         *)
(* A handler is cut at its database statements, which is where handlers    *)
(* of the two replicas interleave, and between its commit and the go       *)
(* statements that follow it, which is where a crash or a panic hurts.     *)
(* What becomes of the background work is for the modules that compose     *)
(* this one: spawned and emitted only count what was started.              *)
(***************************************************************************)
EXTENDS Integers, FiniteSets, Functions

CONSTANTS
    OrderIds,      \* the uuids the service will hand out
    BookIds,
    Users,
    BookLists,     \* book_ids of create requests: sequences of book ids
    BorrowDays,    \* borrow_days of create requests
    Decisions,     \* statuses managers ask for, RETURNED apart
    Handlers,      \* request handlers that may run at the same time
    DailyPenalty,  \* 5 in the code
    MaxDay,        \* bound: the last day of the model
    MaxDecisions,  \* bound: updates of one order by managers
    NoOrder,       \* no row with this id
    NoDate,        \* return_date IS NULL
    Idle           \* a handler that is not running

Statuses == {"PENDING", "APPROVED", "BORROWED", "RETURNED", "CANCELED", "OVERDUE"}

Order == [user: Users, books: SUBSET BookIds, status: Statuses,
          due: Nat, returned: Nat \cup {NoDate}, penalty: Nat]

\* A background UpdateBookQuantity call: change -1 reserves, +1 releases.
Calls == [order: OrderIds, book: BookIds, change: {-1, 1}]

\* The payload of order.status_updated does not name the user.
CreatedEvent  == [type: {"order.created"},  order: OrderIds, user: Users]
CanceledEvent == [type: {"order.canceled"}, order: OrderIds, user: Users]
UpdatedEvent  == [type: {"order.status_updated"}, order: OrderIds, status: Statuses]
Events        == CreatedEvent \cup CanceledEvent \cup UpdatedEvent

\* A handler in the middle of its work:
\*   checking  - CreateOrder, waiting for the answers of book-service
\*   returning - UpdateOrderStatus(RETURNED), between FindByID and UpdateReturnInfo
\*   committed - between the commit and the go statements after it
Checking  == [pc: {"checking"}, user: Users, ids: BookLists, days: BorrowDays,
              checked: SUBSET BookIds]
Returning == [pc: {"returning"}, order: OrderIds, seen: Order, since: Nat]
Committed == [pc: {"committed"}, calls: SUBSET Calls, event: Events]

Handling  == Checking \cup Returning \cup Committed

ASSUME OrderServiceAssumption ==
    /\ BorrowDays \subseteq Nat \ {0}
    /\ Decisions \subseteq Statuses \ {"RETURNED"}
    /\ DailyPenalty \in Nat
    /\ MaxDay \in Nat
    /\ MaxDecisions \in Nat
    /\ \A ids \in BookLists : Range(ids) \subseteq BookIds /\ Range(ids) # {}
    /\ NoDate \notin Nat
    /\ NoOrder \notin Order \cup Statuses
    /\ Idle \notin Handling
    /\ IsFiniteSet(Handlers)

VARIABLES
    orders,    \* the tables
    handler,   \* what each handler is doing
    day,       \* the clock, in days
    spawned,   \* how often each background call was started
    emitted,   \* how often each event was handed to a publishing goroutine
    tally      \* history: committed transitions of each order

vars == <<orders, handler, day, spawned, emitted, tally>>

Tally == [cancels: Nat, returns: Nat, decisions: Nat, reopenings: Nat]

------------------------------------------------------------------------------
(* Helpers *)

Stored(o)     == orders[o] # NoOrder
At(h, pc)     == handler[h] # Idle /\ handler[h].pc = pc
CallsFor(o, booksOfO, change) ==
    {[order |-> o, book |-> b, change |-> change] : b \in booksOfO}

\* Mutation of Penalty: no question whether the due date has passed.
PenaltyBeforeDue(row, d) ==
    IF row.returned = NoDate THEN (d - row.due) * DailyPenalty ELSE 0

\* Mutation of Penalty: counts from the day of borrowing on.
PenaltyFromFirstDay(row, d) ==
    IF row.returned = NoDate /\ d > row.due THEN d * DailyPenalty ELSE 0

\* calculatePenalty, asked on day d about a row: whole days over the due date,
\* and nothing for an order that has a return date already.
Penalty(row, d) ==
    IF row.returned = NoDate /\ d > row.due THEN (d - row.due) * DailyPenalty ELSE 0

NoTransitions == [cancels |-> 0, returns |-> 0, decisions |-> 0, reopenings |-> 0]

\* The handler goes on to its go statements.
Commit(h, calls, event) ==
    handler' = [handler EXCEPT ![h] = [pc |-> "committed", calls |-> calls, event |-> event]]

------------------------------------------------------------------------------
Init ==
    /\ orders = [o \in OrderIds |-> NoOrder]
    /\ handler = [h \in Handlers |-> Idle]
    /\ day = 0
    /\ spawned = [c \in Calls |-> 0]
    /\ emitted = [e \in Events |-> 0]
    /\ tally = [o \in OrderIds |-> NoTransitions]

\* CreateOrder: the availability checks start, one goroutine per listed book.
StartCreate(h, user, ids, days) ==
    /\ handler[h] = Idle
    /\ handler' = [handler EXCEPT ![h] =
                    [pc |-> "checking", user |-> user, ids |-> ids, days |-> days,
                     checked |-> {}]]
    /\ UNCHANGED <<orders, day, spawned, emitted, tally>>

\* CheckAvailability answered for book b.  Only an error answer matters, and
\* ends the handler (HandlerDies): is_available is not looked at.
BookChecked(h, b) ==
    /\ At(h, "checking")
    /\ b \in Range(handler[h].ids) \ handler[h].checked
    /\ handler' = [handler EXCEPT ![h].checked = @ \cup {b}]
    /\ UNCHANGED <<orders, day, spawned, emitted, tally>>

\* Mutation of PlaceOrder: goes on when the transaction was rolled back.
PlaceOrderIgnoringRollback(h, o) ==
    /\ At(h, "checking")
    /\ handler[h].checked = Range(handler[h].ids)
    /\ ~Stored(o)
    /\ LET user == handler[h].user
           ids  == handler[h].ids
       IN /\ orders' = IF IsInjective(ids)
                       THEN [orders EXCEPT ![o] =
                              [user |-> user, books |-> Range(ids), status |-> "PENDING",
                               due |-> day + handler[h].days, returned |-> NoDate, penalty |-> 0]]
                       ELSE orders
          /\ Commit(h, CallsFor(o, Range(ids), -1),
                    [type |-> "order.created", order |-> o, user |-> user])
    /\ UNCHANGED <<day, spawned, emitted, tally>>

\* The transaction of orderRepo.Create.  A book listed twice violates the
\* primary key of order_books and rolls everything back.
PlaceOrder(h, o) ==
    /\ At(h, "checking")
    /\ handler[h].checked = Range(handler[h].ids)
    /\ IsInjective(handler[h].ids)
    /\ ~Stored(o)
    /\ LET user == handler[h].user
           ids  == handler[h].ids
       IN /\ orders' = [orders EXCEPT ![o] =
                [user |-> user, books |-> Range(ids), status |-> "PENDING",
                 due |-> day + handler[h].days, returned |-> NoDate, penalty |-> 0]]
          /\ Commit(h, CallsFor(o, Range(ids), -1),
                    [type |-> "order.created", order |-> o, user |-> user])
    /\ UNCHANGED <<day, spawned, emitted, tally>>

\* Mutation of CancelOrder: the status is not part of the WHERE clause.
CancelAnyStatus(h, o, user) ==
    /\ handler[h] = Idle
    /\ Stored(o)
    /\ orders[o].user = user
    /\ orders' = [orders EXCEPT ![o].status = "CANCELED"]
    /\ tally' = [tally EXCEPT ![o].cancels = @ + 1]
    /\ Commit(h, CallsFor(o, orders[o].books, 1),
              [type |-> "order.canceled", order |-> o, user |-> user])
    /\ UNCHANGED <<day, spawned, emitted>>

\* CancelOrder: one conditional UPDATE.  The FindByID after it only fetches the
\* books; when it fails the handler panics (HandlerDies).
CancelOrder(h, o, user) ==
    /\ handler[h] = Idle
    /\ Stored(o)
    /\ orders[o].user = user
    /\ orders[o].status = "PENDING"
    /\ orders' = [orders EXCEPT ![o].status = "CANCELED"]
    /\ tally' = [tally EXCEPT ![o].cancels = @ + 1]
    /\ Commit(h, CallsFor(o, orders[o].books, 1),
              [type |-> "order.canceled", order |-> o, user |-> user])
    /\ UNCHANGED <<day, spawned, emitted>>

\* Mutation of UpdateStatus: a manager's CANCELED releases the books.
UpdateStatusReleasing(h, o, status) ==
    /\ handler[h] = Idle
    /\ Stored(o)
    /\ tally[o].decisions < MaxDecisions
    /\ orders' = [orders EXCEPT ![o].status = status]
    /\ tally' = [tally EXCEPT ![o].decisions = @ + 1,
                              ![o].reopenings = IF status = "PENDING" THEN @ + 1 ELSE @]
    /\ Commit(h, IF status = "CANCELED" THEN CallsFor(o, orders[o].books, 1) ELSE {},
              [type |-> "order.status_updated", order |-> o, status |-> status])
    /\ UNCHANGED <<day, spawned, emitted>>

\* UpdateOrderStatus to anything but RETURNED: an UPDATE that looks at nothing
\* but the id, and no change of the stock.
UpdateStatus(h, o, status) ==
    /\ handler[h] = Idle
    /\ Stored(o)
    /\ tally[o].decisions < MaxDecisions
    /\ orders' = [orders EXCEPT ![o].status = status]
    /\ tally' = [tally EXCEPT ![o].decisions = @ + 1,
                              ![o].reopenings = IF status = "PENDING" THEN @ + 1 ELSE @]
    /\ Commit(h, {}, [type |-> "order.status_updated", order |-> o, status |-> status])
    /\ UNCHANGED <<day, spawned, emitted>>

\* UpdateOrderStatus to RETURNED: FindByID.
StartReturn(h, o) ==
    /\ handler[h] = Idle
    /\ Stored(o)
    /\ handler' = [handler EXCEPT ![h] =
                    [pc |-> "returning", order |-> o, seen |-> orders[o], since |-> day]]
    /\ UNCHANGED <<orders, day, spawned, emitted, tally>>

\* UpdateReturnInfo, with the penalty calculatePenalty found in the row as it
\* was read, on a day asked between the two statements.
FinishReturn(h, asked) ==
    /\ At(h, "returning")
    /\ asked \in handler[h].since..day
    /\ LET o == handler[h].order IN
       /\ tally[o].decisions < MaxDecisions
       /\ orders' = [orders EXCEPT ![o].status = "RETURNED",
                                   ![o].returned = day,
                                   ![o].penalty = Penalty(handler[h].seen, asked)]
       /\ tally' = [tally EXCEPT ![o].decisions = @ + 1, ![o].returns = @ + 1]
       /\ Commit(h, CallsFor(o, handler[h].seen.books, 1),
                 [type |-> "order.status_updated", order |-> o, status |-> "RETURNED"])
    /\ UNCHANGED <<day, spawned, emitted>>

\* Mutation of StartEffects: the background calls are started twice.
StartEffectsTwice(h) ==
    /\ At(h, "committed")
    /\ spawned' = [c \in Calls |-> IF c \in handler[h].calls THEN spawned[c] + 2 ELSE spawned[c]]
    /\ emitted' = [emitted EXCEPT ![handler[h].event] = @ + 1]
    /\ handler' = [handler EXCEPT ![h] = Idle]
    /\ UNCHANGED <<orders, day, tally>>

\* The go statements: a call per book, an event, and the answer.
StartEffects(h) ==
    /\ At(h, "committed")
    /\ spawned' = [c \in Calls |-> IF c \in handler[h].calls THEN spawned[c] + 1 ELSE spawned[c]]
    /\ emitted' = [emitted EXCEPT ![handler[h].event] = @ + 1]
    /\ handler' = [handler EXCEPT ![h] = Idle]
    /\ UNCHANGED <<orders, day, tally>>

\* A handler ends early: an error answer of book-service or of the database, a
\* canceled context, a panic caught by RecoveryInterceptor, a crash.
HandlerDies(h) ==
    /\ handler[h] # Idle
    /\ handler' = [handler EXCEPT ![h] = Idle]
    /\ UNCHANGED <<orders, day, spawned, emitted, tally>>

DayPasses ==
    /\ day < MaxDay
    /\ day' = day + 1
    /\ UNCHANGED <<orders, handler, spawned, emitted, tally>>

Next ==
    \/ \E h \in Handlers :
        \/ \E user \in Users, ids \in BookLists, days \in BorrowDays :
              StartCreate(h, user, ids, days)
        \/ \E b \in BookIds : BookChecked(h, b)
        \/ \E o \in OrderIds : PlaceOrder(h, o) \/ StartReturn(h, o)
        \/ \E o \in OrderIds, user \in Users : CancelOrder(h, o, user)
        \/ \E o \in OrderIds, status \in Decisions : UpdateStatus(h, o, status)
        \/ \E asked \in 0..MaxDay : FinishReturn(h, asked)
        \/ StartEffects(h)
        \/ HandlerDies(h)
    \/ DayPasses

Spec == Init /\ [][Next]_vars

------------------------------------------------------------------------------
TypeOK ==
    /\ orders \in [OrderIds -> Order \cup {NoOrder}]
    /\ handler \in [Handlers -> Handling \cup {Idle}]
    /\ day \in 0..MaxDay
    /\ spawned \in [Calls -> Nat]
    /\ emitted \in [Events -> Nat]
    /\ tally \in [OrderIds -> Tally]

\* A borrower cancels an order once, and once more for every time a manager
\* reopened it: two racing cancellations, or a cancellation racing an approval,
\* never both pass the conditional UPDATE.
CanceledOncePerOpening ==
    \A o \in OrderIds : tally[o].cancels <= 1 + tally[o].reopenings

\* Started, or about to be started by a handler that has committed.
Underway(c) ==
    spawned[c] + Cardinality({h \in Handlers : At(h, "committed") /\ c \in handler[h].calls})

\* The stock moves only for transitions that were committed: a book of a stored
\* order is reserved at most once, and released at most once for each
\* cancellation and each return, however handlers race, fail and are retried.
StockCallsAreEarned ==
    \A c \in Calls :
        Underway(c) <= IF c.change = 1 THEN tally[c.order].cancels + tally[c.order].returns
                       ELSE IF Stored(c.order) /\ c.book \in orders[c.order].books THEN 1
                       ELSE 0

\* An event is handed to the publisher only for a transition that was committed,
\* at most once for each, and under the name of the order's borrower.
EventsAreEarned ==
    /\ \A e \in CreatedEvent \cup CanceledEvent :
          emitted[e] > 0 => Stored(e.order) /\ orders[e.order].user = e.user
    /\ \A e \in CreatedEvent  : emitted[e] <= 1
    /\ \A e \in CanceledEvent : emitted[e] <= tally[e.order].cancels
    /\ \A e \in UpdatedEvent  : emitted[e] <= tally[e.order].decisions

\* A borrower is never charged for more days than lie between the due date and
\* the recorded return date, and never before a return: also when two returns
\* race and when days pass between reading the order and storing the return.
NeverOvercharged ==
    \A o \in OrderIds :
        Stored(o) /\ orders[o].penalty > 0 =>
            /\ orders[o].returned # NoDate
            /\ orders[o].penalty <= (orders[o].returned - orders[o].due) * DailyPenalty

\* The order-service implements the ledger: an earned round is a handler between
\* its commit and its go statements, a started round is a release call per book.
Releasing(h, o) ==
    /\ At(h, "committed")
    /\ \E c \in handler[h].calls : c.order = o /\ c.change = 1

AnyOf(S) == CHOOSE x \in S : TRUE

Rounds(o) ==
    IF Stored(o) THEN spawned[[order |-> o, book |-> AnyOf(orders[o].books), change |-> 1]]
    ELSE 0

Ledger == INSTANCE OrderLedger WITH
    Absent    <- NoOrder,
    status    <- [o \in OrderIds |-> IF Stored(o) THEN orders[o].status ELSE NoOrder],
    earned    <- [o \in OrderIds |-> Cardinality({h \in Handlers : Releasing(h, o)})],
    restocked <- [o \in OrderIds |-> Rounds(o)]

LedgerSpec == Ledger!Spec

\* The "Order States" diagram of services/order-service/README.md: no arrow
\* leaves CANCELLED.
CanceledIsFinal ==
    [][\A o \in OrderIds :
          Stored(o) /\ orders[o].status = "CANCELED" => orders'[o].status = "CANCELED"]_vars
=============================================================================
