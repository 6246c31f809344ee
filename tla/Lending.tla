------------------------------ MODULE Lending ------------------------------
(***************************************************************************)
(* Order-service and book-service together.  A background call that        *)
(* order-service started becomes a request of book-service, or is lost:    *)
(* the goroutine uses the context of the request it came from, and grpc    *)
(* cancels that context as soon as the order handler has answered.  Nobody *)
(* waits for these calls and nobody repeats them.                          *)
(*                                                                         *)
(* The clock stands still: days only matter to due dates and penalties.   *)
(* Deletions of books and manual stock corrections are left to BookStore;  *)
(* edits are here, since they write back the stock the orders' calls move. *)
(***************************************************************************)
EXTENDS Integers, FiniteSets, Functions

CONSTANTS
    \* of OrderService
    OrderIds, BookIds, Users, BookLists, BorrowDays, Decisions, Handlers, DailyPenalty,
    MaxDay, MaxDecisions, NoOrder, NoDate, Idle,
    \* of BookStore
    Requests, Fields, Texts, Blank, Totals, MaxInt, NoRow,
    NoCall      \* a request of book-service that is not a call of order-service

VARIABLES
    orders, handler, day, spawned, emitted, tally,   \* OrderService
    books, request, born, overlapped,                \* BookStore
    carries,    \* the background call each request of book-service carries out
    ended,      \* how often each background call has come to its end
    \* history, read by the properties only:
    applied,    \* how often each background call has changed the stock
    disturbed   \* books with a fault: a call lost, refused, or cut off at the total

Changes == {-1, 1}

Orders == INSTANCE OrderService
Shelf  == INSTANCE BookStore

orderVars == <<orders, handler, day, spawned, emitted, tally>>
shelfVars == <<books, request, born, overlapped>>
callVars  == <<carries, ended, applied, disturbed>>
vars      == <<orderVars, shelfVars, callVars>>

Calls == Orders!Calls

ASSUME LendingAssumption ==
    /\ Orders!OrderServiceAssumption
    /\ Shelf!BookStoreAssumption
    /\ NoCall \notin Calls
    /\ IsFiniteSet(Requests)
    /\ IsFiniteSet(OrderIds)

------------------------------------------------------------------------------
Outstanding(c) == spawned[c] - ended[c]

Carried(c) == {r \in Requests : carries[r] = c}

\* Calls started and not yet taken up by a request of book-service.
Waiting(c) == Outstanding(c) > Cardinality(Carried(c))

Init ==
    /\ Orders!Init
    /\ Shelf!Init
    /\ carries = [r \in Requests |-> NoCall]
    /\ ended = [c \in Calls |-> 0]
    /\ applied = [c \in Calls |-> 0]
    /\ disturbed = {}

\* A step of order-service; its availability checks ask the shelf.
OrderStep ==
    /\ \E h \in Handlers :
        \/ \E user \in Users, ids \in BookLists, days \in BorrowDays :
              Orders!StartCreate(h, user, ids, days)
        \/ \E b \in BookIds : Shelf!Checkable(b) /\ Orders!BookChecked(h, b)
        \/ \E o \in OrderIds : Orders!PlaceOrder(h, o) \/ Orders!StartReturn(h, o)
        \/ \E o \in OrderIds, user \in Users : Orders!CancelOrder(h, o, user)
        \/ \E o \in OrderIds, status \in Decisions : Orders!UpdateStatus(h, o, status)
        \/ \E asked \in 0..MaxDay : Orders!FinishReturn(h, asked)
        \/ Orders!StartEffects(h)
    /\ UNCHANGED <<shelfVars, callVars>>

\* A handler of order-service dies; between its commit and its go statements
\* the calls it would have made die with it.
OrderHandlerDies(h) ==
    /\ Orders!HandlerDies(h)
    /\ disturbed' = IF Orders!At(h, "committed")
                    THEN disturbed \cup {c.book : c \in handler[h].calls}
                    ELSE disturbed
    /\ UNCHANGED <<shelfVars, carries, ended, applied>>

\* Mutation of SendCall: a call that is under way is sent a second time.
SendCallAgain(r, c) ==
    /\ Outstanding(c) > 0
    /\ Shelf!ReadQuantity(r, c.book, c.change)
    /\ carries' = [carries EXCEPT ![r] = c]
    /\ UNCHANGED <<orderVars, ended, applied, disturbed>>

\* A background call reaches book-service, which reads the row.
SendCall(r, c) ==
    /\ Waiting(c)
    /\ Shelf!ReadQuantity(r, c.book, c.change)
    /\ carries' = [carries EXCEPT ![r] = c]
    /\ UNCHANGED <<orderVars, ended, applied, disturbed>>

\* Book-service refuses the call (NotFound, insufficient quantity), or the call
\* never gets there (canceled context, unreachable, crash).  The error is logged.
CallFails(c) ==
    /\ Waiting(c)
    /\ ended' = [ended EXCEPT ![c] = @ + 1]
    /\ disturbed' = disturbed \cup {c.book}
    /\ UNCHANGED <<orderVars, shelfVars, carries, applied>>

\* Mutation of CallApplied: the caller did not see the answer and calls again.
CallAppliedAndRepeated(r) ==
    /\ carries[r] # NoCall
    /\ Shelf!WriteQuantity(r)
    /\ applied' = [applied EXCEPT ![carries[r]] = @ + 1]
    /\ carries' = [carries EXCEPT ![r] = NoCall]
    /\ UNCHANGED <<orderVars, ended, disturbed>>

\* Book-service writes what the call asked for.  A sum above the total is cut off,
\* be it a sum that wrapped.
CallApplied(r) ==
    /\ carries[r] # NoCall
    /\ Shelf!WriteQuantity(r)
    /\ LET c   == carries[r]
           row == request[r].seen
       IN /\ ended' = [ended EXCEPT ![c] = @ + 1]
          /\ applied' = [applied EXCEPT ![c] = @ + 1]
          /\ disturbed' = IF Shelf!AddInt32(row.available, c.change) > row.total
                          THEN disturbed \cup {c.book} ELSE disturbed
    /\ carries' = [carries EXCEPT ![r] = NoCall]
    /\ UNCHANGED orderVars

\* The write of a call fails: the caller gets an error, logs it and forgets it.
CallAborted(r) ==
    /\ carries[r] # NoCall
    /\ Shelf!RequestFails(r)
    /\ ended' = [ended EXCEPT ![carries[r]] = @ + 1]
    /\ disturbed' = disturbed \cup {carries[r].book}
    /\ carries' = [carries EXCEPT ![r] = NoCall]
    /\ UNCHANGED <<orderVars, applied>>

\* A manager adds books, before or between the orders, or edits one.
CatalogStep ==
    /\ \/ \E new \in (SUBSET BookIds) \ {{}} :
             \E total \in [new -> Totals], text \in [new -> [Fields -> Texts]] :
                Shelf!CreateBooks(new, total, text)
       \/ \E r \in Requests, b \in BookIds, edit \in Shelf!Edit : Shelf!ReadBook(r, b, edit)
       \/ \E r \in Requests :
             /\ carries[r] = NoCall
             /\ Shelf!SaveBook(r) \/ Shelf!RequestFails(r)
    /\ UNCHANGED <<orderVars, callVars>>

Next ==
    \/ OrderStep
    \/ \E h \in Handlers : OrderHandlerDies(h)
    \/ \E r \in Requests, c \in Calls : SendCall(r, c)
    \/ \E c \in Calls : CallFails(c)
    \/ \E r \in Requests : CallApplied(r) \/ CallAborted(r)
    \/ CatalogStep

Spec == Init /\ [][Next]_vars

------------------------------------------------------------------------------
TypeOK ==
    /\ Orders!TypeOK
    /\ Shelf!TypeOK
    /\ carries \in [Requests -> Calls \cup {NoCall}]
    /\ ended \in [Calls -> Nat]
    /\ applied \in [Calls -> Nat]
    /\ disturbed \subseteq BookIds
    /\ \A c \in Calls : Cardinality(Carried(c)) <= Outstanding(c)

\* End to end: what reaches the shelf was earned by a committed transition of
\* the order.  A copy is taken at most once per order, and put back at most once
\* per cancellation and per return, however calls are lost, cut and reordered.
AppliedCallsAreEarned ==
    \A c \in Calls :
        applied[c] <= IF c.change = 1 THEN tally[c.order].cancels + tally[c.order].returns
                      ELSE IF orders[c.order] # NoOrder THEN 1 ELSE 0

CallsOn(b) == {c \in Calls : c.book = b}

\* No background work on b is left to be done.
Quiet(b) ==
    /\ \A c \in CallsOn(b) : Outstanding(c) = 0
    /\ \A h \in Handlers : Orders!At(h, "committed") =>
           \A c \in handler[h].calls : c.book # b

\* Copies of b that the committed transitions took from the shelf and did not
\* put back: one per order, less its cancellations by the borrower and returns.
TakenOut(b) ==
    LET placed == {o \in OrderIds : orders[o] # NoOrder /\ b \in orders[o].books}
    IN SumFunctionOnSet([o \in OrderIds |-> 1 - tally[o].cancels - tally[o].returns], placed)

\* The inventory balances.  When the background calls have settled, the shelf
\* shows the total less the copies taken out - unless one of its writes
\* overlapped with another, or a call was lost, refused or cut off at the total.
\* In particular the two services need nothing else to agree, and a manager who
\* sets CANCELED leaves the copy booked out for ever.
InventoryBalances ==
    \A b \in BookIds \ (overlapped \cup disturbed) :
        Shelf!Stored(b) /\ Quiet(b) => books[b].available = books[b].total - TakenOut(b)

\* test/integration/concurrency_order_test.go, "Enforcement happens when orders are
\* APPROVED": no more orders are approved for a book than it has copies.
ApprovedWithinStock ==
    \A b \in BookIds : Shelf!Stored(b) =>
        Cardinality({o \in OrderIds :
            /\ orders[o] # NoOrder
            /\ b \in orders[o].books
            /\ orders[o].status = "APPROVED"}) <= books[b].total
=============================================================================
