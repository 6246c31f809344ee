----------------------------- MODULE BookStore -----------------------------
(***************************************************************************)
(* The book-service: the table "books" and the gRPC handlers that read and *)
(* write it.  A handler is cut at its SQL statements, which is where the   *)
(* handlers of the service's replicas interleave: UpdateBookQuantity and   *)
(* UpdateBook are a SELECT and, later, a write computed from the row the   *)
(* SELECT returned.  The SELECT of UpdateBookQuantity says FOR UPDATE, but *)
(* no transaction surrounds it, so its lock is gone when it returns.       *)
(*                                                                         *)
(* Handlers that only read (GetBook, ListBooks, CheckAvailability) change  *)
(* nothing here; the answer of CheckAvailability is Checkable below.       *)
(***************************************************************************)
EXTENDS Integers

CONSTANTS
    BookIds,    \* the uuids the service will hand out
    Requests,   \* handlers that may be between their SELECT and their write
    Fields,     \* descriptive columns: title, author, isbn, ...
    Texts,      \* contents of a descriptive column
    Blank,      \* the empty string of an update request: "leave unchanged"
    Totals,     \* values of total_quantity in create requests
    Changes,    \* values of change_amount in quantity requests
    MaxInt,     \* 2^31 - 1 in the code
    NoRow,      \* no row with this id
    Idle        \* this handler is not between two statements

Int32 == -(MaxInt + 1)..MaxInt
Edit  == [Fields -> Texts \cup {Blank}]
Row   == [total: Int32, available: Int32, text: [Fields -> Texts]]

\* A handler between its SELECT and its write: its locals, seen being the row
\* the SELECT returned.
QuantityWrite == [op: {"quantity"}, book: BookIds, seen: Row, change: Changes]
EditWrite     == [op: {"edit"},     book: BookIds, seen: Row, edit: Edit]
Pending       == QuantityWrite \cup EditWrite

ASSUME BookStoreAssumption ==
    /\ MaxInt \in Nat
    /\ Totals \subseteq Int32
    /\ Changes \subseteq Int32
    /\ Blank \notin Texts
    /\ NoRow \notin Row \cup Int32
    /\ Idle \notin Pending

VARIABLES
    books,      \* the table
    request,    \* what each handler is about to write
    \* history, read by the properties only:
    born,       \* total_quantity each id was created with, NoRow before that
    overlapped  \* books that were read or deleted while another write was pending

vars == <<books, request, born, overlapped>>

------------------------------------------------------------------------------
(* Helpers *)

\* int32 addition, for two int32 operands.
AddInt32(a, b) ==
    LET sum == a + b IN
    IF sum > MaxInt THEN sum - 2 * (MaxInt + 1)
    ELSE IF sum < -(MaxInt + 1) THEN sum + 2 * (MaxInt + 1)
    ELSE sum

\* book_repo.go: newQty < 0 is refused with "insufficient available quantity".
Sufficient(row, change) == AddInt32(row.available, change) >= 0

\* Mutation of NewQuantity: without the cap at the total.
NewQuantityUncapped(row, change) == AddInt32(row.available, change)

\* The quantity UpdateAvailableQuantity writes: never more than the total.
NewQuantity(row, change) ==
    LET sum == AddInt32(row.available, change) IN
    IF sum > row.total THEN row.total ELSE sum

\* Mutation of Edited: blank columns of the request are stored too.
EditedWithBlanks(row, edit) == [row EXCEPT !.text = edit]

\* UpdateBook changes the columns the request names and keeps the others.
Edited(row, edit) ==
    [row EXCEPT !.text = [f \in Fields |-> IF edit[f] = Blank THEN row.text[f] ELSE edit[f]]]

Stored(b) == books[b] # NoRow

\* What order-service needs of CheckAvailability: the book is found.  The
\* handler also answers available > 0.
Checkable(b) == Stored(b)

WritesTo(b) == {r \in Requests : request[r] # Idle /\ request[r].book = b}

\* A read of b starts, or a delete of b happens: every write that is pending
\* on b, or will be, no longer has b to itself.
MarkOverlap(touched) ==
    overlapped' = overlapped \cup {b \in touched : WritesTo(b) # {}}

------------------------------------------------------------------------------
Init ==
    /\ books = [b \in BookIds |-> NoRow]
    /\ request = [r \in Requests |-> Idle]
    /\ born = [b \in BookIds |-> NoRow]
    /\ overlapped = {}

\* Mutation of CreateBooks: ids that were used before are accepted.
CreateBooksReusingIds(new, total, text) ==
    /\ \A b \in new : books[b] = NoRow
    /\ books' = [b \in BookIds |->
                    IF b \in new
                    THEN [total |-> total[b], available |-> total[b], text |-> text[b]]
                    ELSE books[b]]
    /\ born' = [b \in BookIds |-> IF b \in new THEN total[b] ELSE born[b]]
    /\ UNCHANGED <<request, overlapped>>

\* CreateBooks: one INSERT of all rows; every copy is available at first.  The
\* ids are new uuids.  Quantities are not validated: they may be negative.
CreateBooks(new, total, text) ==
    /\ \A b \in new : born[b] = NoRow
    /\ books' = [b \in BookIds |->
                    IF b \in new
                    THEN [total |-> total[b], available |-> total[b], text |-> text[b]]
                    ELSE books[b]]
    /\ born' = [b \in BookIds |-> IF b \in new THEN total[b] ELSE born[b]]
    /\ UNCHANGED <<request, overlapped>>

\* DeleteBooks: one DELETE; ids that are not there are ignored.
DeleteBooks(ids) ==
    /\ books' = [b \in BookIds |-> IF b \in ids THEN NoRow ELSE books[b]]
    /\ MarkOverlap(ids)
    /\ UNCHANGED <<request, born>>

\* UpdateBookQuantity up to its SELECT.  NotFound and "insufficient" answers
\* end the handler here and change nothing.
ReadQuantity(r, b, change) ==
    /\ request[r] = Idle
    /\ Stored(b)
    /\ Sufficient(books[b], change)
    /\ request' = [request EXCEPT ![r] =
                    [op |-> "quantity", book |-> b, seen |-> books[b], change |-> change]]
    /\ MarkOverlap({b})
    /\ UNCHANGED <<books, born>>

\* UpdateBookQuantity, its UPDATE of available_quantity.  The affected rows are
\* not counted: on a deleted book it changes nothing and answers success.
WriteQuantity(r) ==
    /\ request[r] # Idle
    /\ request[r].op = "quantity"
    /\ LET b == request[r].book IN
       books' = IF Stored(b)
                THEN [books EXCEPT ![b].available =
                        NewQuantity(request[r].seen, request[r].change)]
                ELSE books
    /\ request' = [request EXCEPT ![r] = Idle]
    /\ UNCHANGED <<born, overlapped>>

\* UpdateBook up to its SELECT.
ReadBook(r, b, edit) ==
    /\ request[r] = Idle
    /\ Stored(b)
    /\ request' = [request EXCEPT ![r] =
                    [op |-> "edit", book |-> b, seen |-> books[b], edit |-> edit]]
    /\ MarkOverlap({b})
    /\ UNCHANGED <<books, born>>

\* Mutation of SaveBook: the stock column gets the value it has at creation.
SaveBookResettingStock(r) ==
    /\ request[r] # Idle
    /\ request[r].op = "edit"
    /\ LET row == Edited(request[r].seen, request[r].edit) IN
       books' = [books EXCEPT ![request[r].book] = [row EXCEPT !.available = row.total]]
    /\ request' = [request EXCEPT ![r] = Idle]
    /\ UNCHANGED <<born, overlapped>>

\* UpdateBook, gorm's Save: writes every column of the row as it was read, and
\* inserts the row when the UPDATE finds none.
SaveBook(r) ==
    /\ request[r] # Idle
    /\ request[r].op = "edit"
    /\ books' = [books EXCEPT ![request[r].book] =
                    Edited(request[r].seen, request[r].edit)]
    /\ request' = [request EXCEPT ![r] = Idle]
    /\ UNCHANGED <<born, overlapped>>

\* The write fails, or never happens: database error, duplicate isbn, canceled
\* context, crash of the replica.
RequestFails(r) ==
    /\ request[r] # Idle
    /\ request' = [request EXCEPT ![r] = Idle]
    /\ UNCHANGED <<books, born, overlapped>>

Next ==
    \/ \E new \in (SUBSET BookIds) \ {{}} :
          \E total \in [new -> Totals], text \in [new -> [Fields -> Texts]] :
             CreateBooks(new, total, text)
    \/ \E ids \in (SUBSET BookIds) \ {{}} : DeleteBooks(ids)
    \/ \E r \in Requests, b \in BookIds, change \in Changes : ReadQuantity(r, b, change)
    \/ \E r \in Requests, b \in BookIds, edit \in Edit : ReadBook(r, b, edit)
    \/ \E r \in Requests : WriteQuantity(r) \/ SaveBook(r) \/ RequestFails(r)

Spec == Init /\ [][Next]_vars

------------------------------------------------------------------------------
TypeOK ==
    /\ books \in [BookIds -> Row \cup {NoRow}]
    /\ request \in [Requests -> Pending \cup {Idle}]
    /\ born \in [BookIds -> Int32 \cup {NoRow}]
    /\ overlapped \subseteq BookIds

\* No shelf ever shows more copies than the library owns, nor a negative
\* number of copies of a book it owns: whatever the interleaving of stale
\* writes, deletes and re-insertions, and although the addition may wrap.
WithinBounds(row) ==
    /\ row.available <= row.total
    /\ row.total >= 0 => row.available >= 0

StockWithinBounds == \A b \in BookIds : Stored(b) => WithinBounds(books[b])

\* total_quantity is decided when the book is created and survives every later
\* write, also when a Save re-inserts a deleted row from a stale copy.
TotalNeverDrifts == \A b \in BookIds : Stored(b) => books[b].total = born[b]

\* A step on the row of b that a single handler, alone on b, may take.
AtomicRowStep(b) ==
    \/ books'[b] = books[b]
    \/ born[b] = NoRow
    \/ books'[b] = NoRow
    \/ \E r \in WritesTo(b) :
          /\ request'[r] = Idle
          /\ books[b] # NoRow
          /\ \/ /\ request[r].op = "quantity"
                /\ books'[b] = [books[b] EXCEPT !.available =
                                  NewQuantity(books[b], request[r].change)]
             \/ /\ request[r].op = "edit"
                /\ books'[b] = Edited(books[b], request[r].edit)

\* As long as no two handlers overlapped on a book, each of its writes applies
\* to the row as it is: no quantity change is lost and no edit brings back an
\* older quantity.  Overlap is the only way the service miscounts.
AtomicWhenSerial == [][\A b \in BookIds \ overlapped' : AtomicRowStep(b)]_vars

\* test/integration/concurrency_order_test.go, "correctly enforces
\* available-quantity limits under concurrent load", and the FOR UPDATE of
\* book_repo.go: a quantity change is applied to the row as it is.
QuantityChangesAddUp ==
    [][\A r \in Requests :
          WriteQuantity(r) /\ Stored(request[r].book) =>
              books'[request[r].book].available =
                  NewQuantity(books[request[r].book], request[r].change)]_vars
=============================================================================
