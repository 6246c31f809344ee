-------------------------- MODULE BookStore_proofs --------------------------
(***************************************************************************)
(* The properties of BookStore for any number of books and handlers, any   *)
(* width of the integers and any interleaving.                             *)
(*                                                                         *)
(* What a handler is about to write was computed from a row that may be    *)
(* long out of date.  The bounds survive because everything a handler      *)
(* carries is sound by itself (PendingSound): the row it saw was within    *)
(* its bounds and had the total the book was created with, and a quantity  *)
(* change was checked against that row.  Serial handlers are atomic        *)
(* because the row a lone handler saw is still the row (Alone).            *)
(***************************************************************************)
EXTENDS BookStore, TLAPS

PendingSound ==
    \A r \in Requests :
        request[r] # Idle =>
            /\ WithinBounds(request[r].seen)
            /\ request[r].seen.total = born[request[r].book]
            /\ request[r].op = "quantity" => Sufficient(request[r].seen, request[r].change)

Inv ==
    /\ TypeOK
    /\ StockWithinBounds
    /\ TotalNeverDrifts
    /\ PendingSound

Alone ==
    \A r \in Requests :
        (request[r] # Idle /\ request[r].book \notin overlapped) =>
            /\ books[request[r].book] = request[r].seen
            /\ \A q \in Requests :
                  request[q] # Idle /\ request[q].book = request[r].book => q = r

------------------------------------------------------------------------------
(* int32 addition stays in int32, whatever wraps. *)
LEMMA AddInt32Type ==
    ASSUME NEW a \in Int32, NEW b \in Int32
    PROVE  AddInt32(a, b) \in Int32
BY BookStoreAssumption DEF AddInt32, Int32

(* The quantity UpdateAvailableQuantity writes is an int32 within the bounds *)
(* of the row it was computed from, once the row was found sufficient.       *)
LEMMA NewQuantityInBounds ==
    ASSUME NEW row \in Row, NEW change \in Changes, Sufficient(row, change)
    PROVE  /\ NewQuantity(row, change) \in Int32
           /\ NewQuantity(row, change) <= row.total
           /\ row.total >= 0 => NewQuantity(row, change) >= 0
<1>1. row.available \in Int32 /\ row.total \in Int32 /\ change \in Int32
  BY BookStoreAssumption DEF Row
<1>2. AddInt32(row.available, change) \in Int32
  BY <1>1, AddInt32Type
<1>3. AddInt32(row.available, change) >= 0
  BY DEF Sufficient
<1> QED
  BY <1>1, <1>2, <1>3, BookStoreAssumption DEF NewQuantity, Int32

(* A change that was sufficient and is not cut off at the total did not wrap. *)
LEMMA UncutChange ==
    ASSUME NEW row \in Row, NEW change \in Changes, Sufficient(row, change), WithinBounds(row),
           AddInt32(row.available, change) <= row.total
    PROVE  NewQuantity(row, change) = row.available + change
<1>1. row.available \in Int32 /\ row.total \in Int32 /\ change \in Int32
  BY BookStoreAssumption DEF Row
<1>2. AddInt32(row.available, change) >= 0
  BY DEF Sufficient
<1>3. row.total >= 0 /\ row.available >= 0
  <2>1. AddInt32(row.available, change) \in Int32
    BY <1>1, AddInt32Type
  <2> QED
    BY <1>1, <1>2, <2>1, BookStoreAssumption DEF Int32, WithinBounds
<1>4. AddInt32(row.available, change) = row.available + change
  BY <1>1, <1>2, <1>3, BookStoreAssumption DEF AddInt32, Int32
<1> QED
  BY <1>1, <1>4, BookStoreAssumption DEF NewQuantity, Int32

(* An edit changes the text only, and yields a row. *)
LEMMA EditedKeepsStock ==
    ASSUME NEW row \in Row, NEW edit \in Edit
    PROVE  /\ Edited(row, edit) \in Row
           /\ Edited(row, edit).total = row.total
           /\ Edited(row, edit).available = row.available
BY DEF Edited, Row, Edit

(* A pending write has the fields its kind promises. *)
LEMMA PendingFields ==
    ASSUME TypeOK, NEW r \in Requests, request[r] # Idle
    PROVE  /\ request[r] \in Pending
           /\ request[r].book \in BookIds
           /\ request[r].seen \in Row
           /\ request[r].seen.total \in Int32
           /\ request[r].op = "quantity" => request[r].change \in Changes
           /\ request[r].op = "edit" => request[r].edit \in Edit
BY DEF TypeOK, Pending, QuantityWrite, EditWrite, Row

(* A stored row is a row, and its book was created. *)
LEMMA StoredIsBorn ==
    ASSUME Inv, NEW b \in BookIds, Stored(b)
    PROVE  books[b] \in Row /\ born[b] # NoRow
BY BookStoreAssumption DEF Inv, TypeOK, TotalNeverDrifts, Stored, Row

(* The book of a pending write was created. *)
LEMMA PendingIsBorn ==
    ASSUME Inv, NEW r \in Requests, request[r] # Idle
    PROVE  born[request[r].book] # NoRow
<1>1. request[r].seen.total \in Int32
  BY PendingFields DEF Inv
<1> QED
  BY <1>1, BookStoreAssumption DEF Inv, PendingSound

------------------------------------------------------------------------------
LEMMA InitInv == Init => Inv
<1> SUFFICES ASSUME Init PROVE Inv
  OBVIOUS
<1>1. TypeOK
  BY DEF Init, TypeOK
<1> QED
  BY <1>1 DEF Init, Inv, StockWithinBounds, TotalNeverDrifts, PendingSound, Stored

(* CreateBooks writes only rows of ids that were never used. *)
LEMMA CreateBooksInv ==
    ASSUME Inv,
           NEW new \in (SUBSET BookIds) \ {{}},
           NEW total \in [new -> Totals],
           NEW text \in [new -> [Fields -> Texts]],
           CreateBooks(new, total, text)
    PROVE  Inv'
<1> USE DEF CreateBooks
<1>1. \A b \in new : /\ total[b] \in Int32
                     /\ text[b] \in [Fields -> Texts]
                     /\ b \in BookIds
  BY BookStoreAssumption
<1>2. TypeOK'
  <2>1. books' \in [BookIds -> Row \cup {NoRow}]
    BY <1>1 DEF Inv, TypeOK, Row
  <2>2. born' \in [BookIds -> Int32 \cup {NoRow}]
    BY <1>1 DEF Inv, TypeOK
  <2> QED
    BY <2>1, <2>2 DEF Inv, TypeOK
<1>3. \A b \in new : /\ books'[b] # NoRow
                     /\ books'[b].total = total[b]
                     /\ books'[b].available = total[b]
                     /\ born'[b] = total[b]
  BY <1>1, BookStoreAssumption DEF Row
<1>4. \A b \in BookIds \ new : books'[b] = books[b] /\ born'[b] = born[b]
  BY <1>1
<1>5. StockWithinBounds'
  BY <1>1, <1>3, <1>4, BookStoreAssumption
  DEF Inv, StockWithinBounds, WithinBounds, Stored, Int32
<1>6. TotalNeverDrifts'
  BY <1>3, <1>4 DEF Inv, TotalNeverDrifts, Stored
<1>7. PendingSound'
  <2> SUFFICES ASSUME NEW r \in Requests, request[r] # Idle
               PROVE  born'[request[r].book] = born[request[r].book]
    BY DEF Inv, PendingSound, WithinBounds, Sufficient, AddInt32
  <2>1. request[r].book \in BookIds \ new
    BY PendingFields, PendingIsBorn DEF Inv
  <2> QED
    BY <2>1, <1>4
<1> QED
  BY <1>2, <1>5, <1>6, <1>7 DEF Inv

LEMMA DeleteBooksInv ==
    ASSUME Inv, NEW ids \in (SUBSET BookIds) \ {{}}, DeleteBooks(ids)
    PROVE  Inv'
<1> USE DEF DeleteBooks
<1>1. TypeOK'
  BY DEF Inv, TypeOK, MarkOverlap
<1>2. \A b \in BookIds : books'[b] = books[b] \/ books'[b] = NoRow
  OBVIOUS
<1>3. StockWithinBounds' /\ TotalNeverDrifts'
  BY <1>2 DEF Inv, StockWithinBounds, TotalNeverDrifts, Stored, WithinBounds
<1>4. PendingSound'
  BY DEF Inv, PendingSound, WithinBounds, Sufficient, AddInt32
<1> QED
  BY <1>1, <1>3, <1>4 DEF Inv

(* The SELECT of a handler hands it a sound row. *)
LEMMA ReadQuantityInv ==
    ASSUME Inv, NEW r \in Requests, NEW b \in BookIds, NEW change \in Changes,
           ReadQuantity(r, b, change)
    PROVE  Inv'
<1> DEFINE new == [op |-> "quantity", book |-> b, seen |-> books[b], change |-> change]
<1> USE DEF ReadQuantity
<1>1. books[b] \in Row
  BY StoredIsBorn
<1>2. new \in Pending
  BY <1>1 DEF Pending, QuantityWrite
<1>3. TypeOK'
  BY <1>2 DEF Inv, TypeOK, MarkOverlap
<1>4. StockWithinBounds' /\ TotalNeverDrifts'
  BY DEF Inv, StockWithinBounds, TotalNeverDrifts, Stored, WithinBounds
<1>5. request'[r] = new /\ \A q \in Requests \ {r} : request'[q] = request[q]
  BY DEF Inv, TypeOK
<1>6. WithinBounds(books[b]) /\ books[b].total = born[b]
  BY DEF Inv, StockWithinBounds, TotalNeverDrifts
<1>7. PendingSound'
  BY <1>5, <1>6 DEF Inv, PendingSound, WithinBounds, Sufficient, AddInt32
<1> QED
  BY <1>3, <1>4, <1>7 DEF Inv

LEMMA ReadBookInv ==
    ASSUME Inv, NEW r \in Requests, NEW b \in BookIds, NEW edit \in Edit,
           ReadBook(r, b, edit)
    PROVE  Inv'
<1> DEFINE new == [op |-> "edit", book |-> b, seen |-> books[b], edit |-> edit]
<1> USE DEF ReadBook
<1>1. books[b] \in Row
  BY StoredIsBorn
<1>2. new \in Pending
  BY <1>1 DEF Pending, EditWrite
<1>3. TypeOK'
  BY <1>2 DEF Inv, TypeOK, MarkOverlap
<1>4. StockWithinBounds' /\ TotalNeverDrifts'
  BY DEF Inv, StockWithinBounds, TotalNeverDrifts, Stored, WithinBounds
<1>5. request'[r] = new /\ \A q \in Requests \ {r} : request'[q] = request[q]
  BY DEF Inv, TypeOK
<1>6. WithinBounds(books[b]) /\ books[b].total = born[b]
  BY DEF Inv, StockWithinBounds, TotalNeverDrifts
<1>7. PendingSound'
  BY <1>5, <1>6 DEF Inv, PendingSound, WithinBounds, Sufficient, AddInt32
<1> QED
  BY <1>3, <1>4, <1>7 DEF Inv

(* The UPDATE computes from a row that may be stale: NewQuantityInBounds holds *)
(* for the row as it was read, whose total is still the total of the book.     *)
LEMMA WriteQuantityInv ==
    ASSUME Inv, NEW r \in Requests, WriteQuantity(r)
    PROVE  Inv'
<1> DEFINE b == request[r].book
           seen == request[r].seen
           quantity == NewQuantity(seen, request[r].change)
<1> USE DEF WriteQuantity
<1>1. b \in BookIds /\ seen \in Row /\ request[r].change \in Changes
  BY PendingFields DEF Inv
<1>2. Sufficient(seen, request[r].change) /\ seen.total = born[b]
  BY DEF Inv, PendingSound
<1>3. /\ quantity \in Int32
      /\ quantity <= seen.total
      /\ seen.total >= 0 => quantity >= 0
  BY <1>1, <1>2, NewQuantityInBounds
<1>4. request' = [request EXCEPT ![r] = Idle] /\ UNCHANGED <<born, overlapped>>
  OBVIOUS
<1>5. PendingSound'
  BY <1>4 DEF Inv, TypeOK, PendingSound, WithinBounds, Sufficient, AddInt32
<1>6. request' \in [Requests -> Pending \cup {Idle}]
  BY <1>4 DEF Inv, TypeOK
<1>7. CASE ~Stored(b)
  <2>1. books' = books
    BY <1>7
  <2> QED
    BY <2>1, <1>4, <1>5, <1>6
    DEF Inv, TypeOK, StockWithinBounds, TotalNeverDrifts, Stored, WithinBounds
<1>8. CASE Stored(b)
  <2>1. books' = [books EXCEPT ![b].available = quantity]
    BY <1>8
  <2>2. books[b] \in Row
    BY <1>1, <1>8, StoredIsBorn
  <2>3. books'[b] = [books[b] EXCEPT !.available = quantity]
    BY <2>1, <1>1 DEF Inv, TypeOK
  <2>4. books'[b] \in Row /\ books'[b].total = books[b].total /\ books'[b].available = quantity
    BY <2>2, <2>3, <1>3 DEF Row
  <2>5. books[b].total = seen.total
    BY <1>1, <1>2, <1>8 DEF Inv, TotalNeverDrifts
  <2>6. \A c \in BookIds \ {b} : books'[c] = books[c]
    BY <2>1 DEF Inv, TypeOK
  <2>7. TypeOK'
    BY <2>1, <2>4, <1>4, <1>6 DEF Inv, TypeOK
  <2>8. StockWithinBounds'
    BY <2>4, <2>5, <2>6, <1>3 DEF Inv, StockWithinBounds, WithinBounds, Stored
  <2>9. TotalNeverDrifts'
    BY <2>4, <2>5, <2>6, <1>2, <1>4 DEF Inv, TotalNeverDrifts, Stored
  <2> QED
    BY <2>7, <2>8, <2>9, <1>5 DEF Inv
<1> QED
  BY <1>7, <1>8

(* Save writes the row as it was read, text apart, be it stale or deleted. *)
LEMMA SaveBookInv ==
    ASSUME Inv, NEW r \in Requests, SaveBook(r)
    PROVE  Inv'
<1> DEFINE b == request[r].book
           seen == request[r].seen
           row == Edited(seen, request[r].edit)
<1> USE DEF SaveBook
<1>1. b \in BookIds /\ seen \in Row /\ request[r].edit \in Edit
  BY PendingFields DEF Inv
<1>2. row \in Row /\ row.total = seen.total /\ row.available = seen.available
  BY <1>1, EditedKeepsStock
<1>3. WithinBounds(row) /\ row.total = born[b]
  BY <1>2 DEF Inv, PendingSound, WithinBounds
<1>4. books'[b] = row /\ \A c \in BookIds \ {b} : books'[c] = books[c]
  BY <1>1 DEF Inv, TypeOK
<1>5. TypeOK'
  BY <1>2 DEF Inv, TypeOK
<1>6. StockWithinBounds' /\ TotalNeverDrifts'
  BY <1>3, <1>4 DEF Inv, StockWithinBounds, TotalNeverDrifts, Stored, WithinBounds
<1>7. PendingSound'
  BY DEF Inv, TypeOK, PendingSound, WithinBounds, Sufficient, AddInt32
<1> QED
  BY <1>5, <1>6, <1>7 DEF Inv

LEMMA RequestFailsInv ==
    ASSUME Inv, NEW r \in Requests, RequestFails(r)
    PROVE  Inv'
BY DEF RequestFails, Inv, TypeOK, StockWithinBounds, TotalNeverDrifts, PendingSound,
       Stored, WithinBounds, Sufficient, AddInt32

LEMMA NextInv == Inv /\ [Next]_vars => Inv'
<1> SUFFICES ASSUME Inv, [Next]_vars PROVE Inv'
  OBVIOUS
<1>1. CASE UNCHANGED vars
  BY <1>1 DEF vars, Inv, TypeOK, StockWithinBounds, TotalNeverDrifts, PendingSound,
              Stored, WithinBounds, Sufficient, AddInt32
<1>2. ASSUME NEW new \in (SUBSET BookIds) \ {{}}, NEW total \in [new -> Totals],
             NEW text \in [new -> [Fields -> Texts]], CreateBooks(new, total, text)
      PROVE  Inv'
  BY <1>2, CreateBooksInv
<1>3. ASSUME NEW ids \in (SUBSET BookIds) \ {{}}, DeleteBooks(ids)
      PROVE  Inv'
  BY <1>3, DeleteBooksInv
<1>4. ASSUME NEW r \in Requests, NEW b \in BookIds, NEW change \in Changes,
             ReadQuantity(r, b, change)
      PROVE  Inv'
  BY <1>4, ReadQuantityInv
<1>5. ASSUME NEW r \in Requests, NEW b \in BookIds, NEW edit \in Edit, ReadBook(r, b, edit)
      PROVE  Inv'
  BY <1>5, ReadBookInv
<1>6. ASSUME NEW r \in Requests, WriteQuantity(r) \/ SaveBook(r) \/ RequestFails(r)
      PROVE  Inv'
  BY <1>6, WriteQuantityInv, SaveBookInv, RequestFailsInv
<1> QED
  BY <1>1, <1>2, <1>3, <1>4, <1>5, <1>6 DEF Next

(* Inv holds in every reachable state; the theorems below are parts of it. *)
THEOREM InvHolds == Spec => []Inv
<1> QED
  BY InitInv, NextInv, PTL DEF Spec

(* The table and the handlers stay well-typed: in particular every quantity *)
(* book-service stores is an int32.                                         *)
THEOREM TypeCorrect == Spec => []TypeOK
<1>1. Inv => TypeOK
  BY DEF Inv
<1> QED
  BY <1>1, InvHolds, PTL

(* No interleaving of stale writes, deletes and re-insertions, and no wrap of *)
(* the addition, takes the stock of a book below zero or above its total.     *)
THEOREM StockIsWithinBounds == Spec => []StockWithinBounds
<1>1. Inv => StockWithinBounds
  BY DEF Inv
<1> QED
  BY <1>1, InvHolds, PTL

(* A book keeps the total it was created with, also when the Save of an edit *)
(* brings back a row that was deleted meanwhile.                             *)
THEOREM TotalIsKept == Spec => []TotalNeverDrifts
<1>1. Inv => TotalNeverDrifts
  BY DEF Inv
<1> QED
  BY <1>1, InvHolds, PTL

------------------------------------------------------------------------------
(* A handler that has had its book to itself so far still sees the row as it *)
(* is: any write by another handler, any delete and any second read in the   *)
(* meantime would have marked the book.                                      *)
LEMMA InitAlone == Init => Alone
BY DEF Init, Alone

LEMMA NextAlone == Inv /\ Alone /\ [Next]_vars => Alone'
<1> SUFFICES ASSUME Inv, Alone, [Next]_vars PROVE Alone'
  OBVIOUS
<1>1. CASE UNCHANGED vars
  BY <1>1 DEF vars, Alone
<1>2. ASSUME NEW new \in (SUBSET BookIds) \ {{}}, NEW total \in [new -> Totals],
             NEW text \in [new -> [Fields -> Texts]], CreateBooks(new, total, text)
      PROVE  Alone'
  <2>1. \A r \in Requests : request[r] # Idle => books'[request[r].book] = books[request[r].book]
    BY <1>2, PendingFields, PendingIsBorn DEF CreateBooks, Inv
  <2> QED
    BY <1>2, <2>1 DEF CreateBooks, Alone
<1>3. ASSUME NEW ids \in (SUBSET BookIds) \ {{}}, DeleteBooks(ids)
      PROVE  Alone'
  <2>1. \A r \in Requests : (request[r] # Idle /\ request[r].book \notin overlapped') =>
            books'[request[r].book] = books[request[r].book]
    BY <1>3, PendingFields DEF DeleteBooks, MarkOverlap, WritesTo, Inv
  <2> QED
    BY <1>3, <2>1 DEF DeleteBooks, MarkOverlap, Alone
<1>4. ASSUME NEW r \in Requests, NEW b \in BookIds, NEW w,
             request[r] = Idle, w.book = b, w.seen = books[b],
             request' = [request EXCEPT ![r] = w], MarkOverlap({b}), UNCHANGED books
      PROVE  Alone'
  <2> USE <1>4
  <2>1. request'[r] = w /\ \A q \in Requests \ {r} : request'[q] = request[q]
    BY DEF Inv, TypeOK
  <2>2. b \notin overlapped' => \A q \in Requests : request[q] # Idle => request[q].book # b
    BY DEF MarkOverlap, WritesTo
  <2>3. overlapped \subseteq overlapped'
    BY DEF MarkOverlap
  <2> QED
    BY <2>1, <2>2, <2>3 DEF Alone
<1>5. ASSUME NEW r \in Requests, NEW b \in BookIds, NEW change \in Changes,
             ReadQuantity(r, b, change)
      PROVE  Alone'
  BY <1>4, <1>5 DEF ReadQuantity
<1>6. ASSUME NEW r \in Requests, NEW b \in BookIds, NEW edit \in Edit, ReadBook(r, b, edit)
      PROVE  Alone'
  BY <1>4, <1>6 DEF ReadBook
<1>7. ASSUME NEW r \in Requests, WriteQuantity(r) \/ SaveBook(r) \/ RequestFails(r)
      PROVE  Alone'
  <2> DEFINE b == request[r].book
  <2>1. request[r] # Idle /\ request' = [request EXCEPT ![r] = Idle] /\ overlapped' = overlapped
    BY <1>7 DEF WriteQuantity, SaveBook, RequestFails
  <2>2. b \in BookIds
    BY <2>1, PendingFields DEF Inv
  <2>3. \A c \in BookIds \ {b} : books'[c] = books[c]
    BY <1>7, <2>2 DEF WriteQuantity, SaveBook, RequestFails, Inv, TypeOK
  <2>4. request'[r] = Idle /\ \A q \in Requests \ {r} : request'[q] = request[q]
    BY <2>1 DEF Inv, TypeOK
  <2> SUFFICES ASSUME NEW q \in Requests, request'[q] # Idle, request'[q].book \notin overlapped'
               PROVE  /\ books'[request'[q].book] = request'[q].seen
                      /\ \A p \in Requests :
                            request'[p] # Idle /\ request'[p].book = request'[q].book => p = q
    BY DEF Alone
  <2>5. q # r /\ request'[q] = request[q]
    BY <2>4
  <2>6. request[q].book \in BookIds /\ request[q].book # b
    BY <2>1, <2>5, PendingFields DEF Alone, Inv
  <2> QED
    BY <2>1, <2>3, <2>4, <2>5, <2>6 DEF Alone
<1> QED
  BY <1>1, <1>2, <1>3, <1>5, <1>6, <1>7 DEF Next

(* One step on the row of a book nobody overlapped on. *)
LEMMA SerialStepIsAtomic ==
    Inv /\ Alone /\ [Next]_vars =>
        [\A b \in BookIds \ overlapped' : AtomicRowStep(b)]_vars
<1> SUFFICES ASSUME Inv, Alone, Next, NEW b \in BookIds, b \notin overlapped'
             PROVE  AtomicRowStep(b)
  OBVIOUS
<1>1. ASSUME NEW new \in (SUBSET BookIds) \ {{}}, NEW total \in [new -> Totals],
             NEW text \in [new -> [Fields -> Texts]], CreateBooks(new, total, text)
      PROVE  AtomicRowStep(b)
  BY <1>1 DEF CreateBooks, AtomicRowStep
<1>2. ASSUME NEW ids \in (SUBSET BookIds) \ {{}}, DeleteBooks(ids)
      PROVE  AtomicRowStep(b)
  BY <1>2 DEF DeleteBooks, AtomicRowStep
<1>3. CASE UNCHANGED books
  BY <1>3 DEF AtomicRowStep
<1>4. ASSUME NEW r \in Requests, WriteQuantity(r) \/ SaveBook(r)
      PROVE  AtomicRowStep(b)
  <2>1. /\ request[r] # Idle
        /\ request'[r] = Idle
        /\ overlapped' = overlapped
    BY <1>4 DEF WriteQuantity, SaveBook, Inv, TypeOK
  <2>2. /\ request[r].book \in BookIds
        /\ request[r].seen \in Row
    BY <2>1, PendingFields DEF Inv
  <2>3. CASE request[r].book # b
    BY <1>4, <2>2, <2>3 DEF WriteQuantity, SaveBook, AtomicRowStep, Inv, TypeOK
  <2>4. CASE request[r].book = b
    <3>1. books[b] = request[r].seen /\ books[b] # NoRow
      BY <2>1, <2>2, <2>4, BookStoreAssumption DEF Alone
    <3>2. r \in WritesTo(b)
      BY <2>1, <2>4 DEF WritesTo
    <3>3. CASE WriteQuantity(r)
      <4>1. books'[b] = [books[b] EXCEPT !.available = NewQuantity(books[b], request[r].change)]
        BY <3>1, <3>3, <2>4 DEF WriteQuantity, Stored, Inv, TypeOK
      <4>2. request[r].op = "quantity"
        BY <3>3 DEF WriteQuantity
      <4> QED
        BY <4>1, <4>2, <3>1, <3>2, <2>1 DEF AtomicRowStep
    <3>4. CASE SaveBook(r)
      <4>1. books'[b] = Edited(books[b], request[r].edit)
        BY <3>1, <3>4, <2>4 DEF SaveBook, Inv, TypeOK
      <4>2. request[r].op = "edit"
        BY <3>4 DEF SaveBook
      <4> QED
        BY <4>1, <4>2, <3>1, <3>2, <2>1 DEF AtomicRowStep
    <3> QED
      BY <1>4, <3>3, <3>4
  <2> QED
    BY <2>3, <2>4
<1> QED
  BY <1>1, <1>2, <1>3, <1>4 DEF Next, ReadQuantity, ReadBook, RequestFails

(* The service miscounts only where two handlers overlapped on a book: any   *)
(* other quantity change, and any other edit, is applied to the row as it is. *)
THEOREM SerialIsAtomic == Spec => AtomicWhenSerial
<1> QED
  BY InitInv, NextInv, InitAlone, NextAlone, SerialStepIsAtomic, PTL
  DEF Spec, AtomicWhenSerial
=============================================================================
