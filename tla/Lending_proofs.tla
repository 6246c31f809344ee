--------------------------- MODULE Lending_proofs ---------------------------
(***************************************************************************)
(* Order-service and book-service together, for any number of orders,      *)
(* books, handlers and requests.                                           *)
(*                                                                         *)
(* Every step of Lending is a step of order-service or leaves it alone,    *)
(* and a step of book-service or leaves it alone, so the inductive         *)
(* invariants of the two carry over.  What the composition adds is that a  *)
(* call is carried by as many requests as it is outstanding, and has been  *)
(* applied at most as often as it has ended: what reaches the shelf was    *)
(* started, and what was started was earned.                               *)
(*                                                                         *)
(* Of a book no fault has touched, every earned call was started and every *)
(* ended call was applied (BalanceInv): when its calls have settled, the   *)
(* shelf shows the total less the copies taken out.                        *)
(***************************************************************************)
EXTENDS Lending, SumTheorems

Effects == INSTANCE OrderService_proofs
Stock   == INSTANCE BookStore_proofs

CallsTyped ==
    /\ carries \in [Requests -> Calls \cup {NoCall}]
    /\ ended \in [Calls -> Nat]
    /\ applied \in [Calls -> Nat]
    /\ disturbed \subseteq BookIds

CallsCounted ==
    \A c \in Calls : /\ applied[c] <= ended[c]
                     /\ Cardinality(Carried(c)) <= Outstanding(c)

ShelfInv == Stock!Inv /\ Stock!Alone

LendingInv ==
    /\ Effects!EffectsInv
    /\ ShelfInv
    /\ CallsTyped
    /\ CallsCounted

------------------------------------------------------------------------------
(* The two instances of each module mean the same. *)
LEMMA SameSets ==
    /\ Effects!Statuses = Orders!Statuses
    /\ Effects!Order = Orders!Order
    /\ Effects!Calls = Calls
    /\ Effects!Events = Orders!Events
    /\ Effects!Handling = Orders!Handling
    /\ \A f : Effects!Range(f) = Orders!Range(f)
<1>1. Effects!Statuses = Orders!Statuses
  BY DEF Effects!Statuses, Orders!Statuses
<1>2. Effects!Order = Orders!Order
  BY <1>1 DEF Effects!Order, Orders!Order
<1>3. Effects!Calls = Orders!Calls
  BY DEF Effects!Calls, Orders!Calls
<1>4. Effects!Events = Orders!Events
  BY <1>1 DEF Effects!Events, Effects!CreatedEvent, Effects!CanceledEvent, Effects!UpdatedEvent,
     Orders!Events, Orders!CreatedEvent, Orders!CanceledEvent, Orders!UpdatedEvent
<1>5. Effects!Handling = Orders!Handling
  BY <1>2, <1>3, <1>4 DEF Effects!Handling, Effects!Checking, Effects!Returning,
     Effects!Committed, Orders!Handling, Orders!Checking, Orders!Returning, Orders!Committed
<1>6. \A f : Effects!Range(f) = Orders!Range(f)
  BY DEF Effects!Range, Orders!Range
<1> QED
  BY <1>1, <1>2, <1>3, <1>4, <1>5, <1>6 DEF Calls

LEMMA OrdersAssumed == Effects!OrderServiceAssumption
<1>1. Orders!OrderServiceAssumption
  BY LendingAssumption
<1>2. Effects!IsFiniteSet(Handlers) <=> Orders!IsFiniteSet(Handlers)
  BY DEF Effects!IsFiniteSet, Orders!IsFiniteSet
<1> QED
  BY <1>1, <1>2, SameSets DEF Effects!OrderServiceAssumption, Orders!OrderServiceAssumption

LEMMA ShelfAssumed == Stock!BookStoreAssumption
<1>1. Shelf!BookStoreAssumption
  BY LendingAssumption
<1>2. Stock!Int32 = Shelf!Int32
  BY DEF Stock!Int32, Shelf!Int32
<1>3. Stock!Row = Shelf!Row
  BY <1>2 DEF Stock!Row, Shelf!Row
<1>4. Stock!Edit = Shelf!Edit
  BY DEF Stock!Edit, Shelf!Edit
<1>5. Stock!Pending = Shelf!Pending
  BY <1>3, <1>4 DEF Stock!Pending, Stock!QuantityWrite, Stock!EditWrite,
     Shelf!Pending, Shelf!QuantityWrite, Shelf!EditWrite
<1> QED
  BY <1>1, <1>2, <1>3, <1>5 DEF Stock!BookStoreAssumption, Shelf!BookStoreAssumption

(* A step of order-service in Lending is a step of OrderService. *)
OrdersStep == [Effects!Next]_(Effects!vars)

LEMMA OrdersKept ==
    ASSUME Effects!EffectsInv, [Effects!Next]_(Effects!vars)
    PROVE  Effects!EffectsInv'
BY OrdersAssumed, Effects!NextEffects

LEMMA StartCreateIsStep ==
    ASSUME NEW h \in Handlers, NEW user \in Users, NEW ids \in BookLists,
           NEW days \in BorrowDays, Orders!StartCreate(h, user, ids, days)
    PROVE  Effects!Working /\ UNCHANGED spawned
<1>1. Effects!StartCreate(h, user, ids, days) /\ UNCHANGED spawned
  BY DEF Orders!StartCreate, Effects!StartCreate
<1> QED
  BY <1>1 DEF Effects!Working

LEMMA BookCheckedIsStep ==
    ASSUME NEW h \in Handlers, NEW b \in BookIds, Orders!BookChecked(h, b)
    PROVE  Effects!Working /\ UNCHANGED spawned
<1>1. Effects!BookChecked(h, b) /\ UNCHANGED spawned
  BY SameSets DEF Orders!BookChecked, Effects!BookChecked, Orders!At, Effects!At
<1> QED
  BY <1>1 DEF Effects!Working

LEMMA PlaceOrderIsStep ==
    ASSUME NEW h \in Handlers, NEW o \in OrderIds, Orders!PlaceOrder(h, o)
    PROVE  Effects!Working /\ UNCHANGED spawned
<1>1. Effects!IsInjective(handler[h].ids) <=> Orders!IsInjective(handler[h].ids)
  BY DEF Effects!IsInjective, Orders!IsInjective
<1>2. Effects!PlaceOrder(h, o) /\ UNCHANGED spawned
  BY <1>1, SameSets DEF Orders!PlaceOrder, Effects!PlaceOrder, Orders!At, Effects!At,
     Orders!Stored, Effects!Stored, Orders!Commit, Effects!Commit,
     Orders!CallsFor, Effects!CallsFor
<1> QED
  BY <1>2 DEF Effects!Working

LEMMA CancelOrderIsStep ==
    ASSUME NEW h \in Handlers, NEW o \in OrderIds, NEW user \in Users,
           Orders!CancelOrder(h, o, user)
    PROVE  Effects!Working /\ UNCHANGED spawned
<1>1. Effects!CancelOrder(h, o, user) /\ UNCHANGED spawned
  BY DEF Orders!CancelOrder, Effects!CancelOrder, Orders!Stored, Effects!Stored,
     Orders!Commit, Effects!Commit, Orders!CallsFor, Effects!CallsFor
<1> QED
  BY <1>1 DEF Effects!Working

LEMMA UpdateStatusIsStep ==
    ASSUME NEW h \in Handlers, NEW o \in OrderIds, NEW status \in Decisions,
           Orders!UpdateStatus(h, o, status)
    PROVE  Effects!Working /\ UNCHANGED spawned
<1>1. Effects!UpdateStatus(h, o, status) /\ UNCHANGED spawned
  BY DEF Orders!UpdateStatus, Effects!UpdateStatus, Orders!Stored, Effects!Stored,
     Orders!Commit, Effects!Commit
<1> QED
  BY <1>1 DEF Effects!Working

LEMMA StartReturnIsStep ==
    ASSUME NEW h \in Handlers, NEW o \in OrderIds, Orders!StartReturn(h, o)
    PROVE  Effects!Working /\ UNCHANGED spawned
<1>1. Effects!StartReturn(h, o) /\ UNCHANGED spawned
  BY DEF Orders!StartReturn, Effects!StartReturn, Orders!Stored, Effects!Stored
<1> QED
  BY <1>1 DEF Effects!Working

LEMMA FinishReturnIsStep ==
    ASSUME NEW h \in Handlers, NEW asked \in 0..MaxDay, Orders!FinishReturn(h, asked)
    PROVE  Effects!Working /\ UNCHANGED spawned
<1>1. \A row, d : Effects!Penalty(row, d) = Orders!Penalty(row, d)
  BY DEF Effects!Penalty, Orders!Penalty
<1>2. Effects!FinishReturn(h, asked) /\ UNCHANGED spawned
  BY <1>1 DEF Orders!FinishReturn, Effects!FinishReturn, Orders!At, Effects!At,
     Orders!Commit, Effects!Commit, Orders!CallsFor, Effects!CallsFor
<1> QED
  BY <1>2 DEF Effects!Working

LEMMA StartEffectsIsStep ==
    ASSUME NEW h \in Handlers, Orders!StartEffects(h)
    PROVE  /\ Effects!Working
           /\ spawned' = [c \in Calls |-> IF c \in handler[h].calls THEN spawned[c] + 1
                                          ELSE spawned[c]]
<1>1. /\ Effects!StartEffects(h)
      /\ spawned' = [c \in Calls |-> IF c \in handler[h].calls THEN spawned[c] + 1
                                     ELSE spawned[c]]
  BY SameSets DEF Orders!StartEffects, Effects!StartEffects, Orders!At, Effects!At, Calls
<1> QED
  BY <1>1 DEF Effects!Working

LEMMA HandlerDiesIsStep ==
    ASSUME NEW h \in Handlers, Orders!HandlerDies(h)
    PROVE  Effects!HandlerDies(h) /\ UNCHANGED spawned
BY DEF Orders!HandlerDies, Effects!HandlerDies

(* The steps of book-service, in the same way. *)
ShelfStep == [Stock!Next]_(Stock!vars)

LEMMA ShelfKept ==
    ASSUME ShelfInv, ShelfStep
    PROVE  ShelfInv'
BY ShelfAssumed, Stock!NextInv, Stock!NextAlone DEF ShelfInv, ShelfStep

LEMMA CreateBooksIsStep ==
    ASSUME NEW new \in (SUBSET BookIds) \ {{}},
           NEW total \in [new -> Totals], NEW text \in [new -> [Fields -> Texts]],
           Shelf!CreateBooks(new, total, text)
    PROVE  ShelfStep
<1>1. Stock!CreateBooks(new, total, text)
  BY DEF Shelf!CreateBooks, Stock!CreateBooks
<1>2. Stock!Next
  BY <1>1 DEF Stock!Next
<1> QED
  BY <1>2 DEF ShelfStep

LEMMA ReadQuantityIsStep ==
    ASSUME NEW r \in Requests, NEW b \in BookIds, NEW change \in Changes,
           Shelf!ReadQuantity(r, b, change)
    PROVE  ShelfStep
<1>1. Stock!ReadQuantity(r, b, change)
  BY DEF Shelf!ReadQuantity, Stock!ReadQuantity, Shelf!Stored, Stock!Stored,
     Shelf!Sufficient, Stock!Sufficient, Shelf!AddInt32, Stock!AddInt32,
     Shelf!MarkOverlap, Stock!MarkOverlap, Shelf!WritesTo, Stock!WritesTo
<1> QED
  BY <1>1 DEF ShelfStep, Stock!Next

LEMMA ReadBookIsStep ==
    ASSUME NEW r \in Requests, NEW b \in BookIds, NEW edit \in Shelf!Edit,
           Shelf!ReadBook(r, b, edit)
    PROVE  ShelfStep
<1>1. Stock!ReadBook(r, b, edit)
  BY DEF Shelf!ReadBook, Stock!ReadBook, Shelf!Stored, Stock!Stored,
     Shelf!MarkOverlap, Stock!MarkOverlap, Shelf!WritesTo, Stock!WritesTo
<1>2. edit \in Stock!Edit
  BY DEF Shelf!Edit, Stock!Edit
<1> QED
  BY <1>1, <1>2 DEF ShelfStep, Stock!Next

LEMMA WriteQuantityIsStep ==
    ASSUME NEW r \in Requests, Shelf!WriteQuantity(r)
    PROVE  ShelfStep
<1>1. \A row, change : Stock!NewQuantity(row, change) = Shelf!NewQuantity(row, change)
  BY DEF Shelf!NewQuantity, Stock!NewQuantity, Shelf!AddInt32, Stock!AddInt32
<1>2. Stock!WriteQuantity(r)
  BY <1>1 DEF Shelf!WriteQuantity, Stock!WriteQuantity, Shelf!Stored, Stock!Stored
<1> QED
  BY <1>2 DEF ShelfStep, Stock!Next

LEMMA SaveBookIsStep ==
    ASSUME NEW r \in Requests, Shelf!SaveBook(r)
    PROVE  ShelfStep
<1>1. \A row, edit : Stock!Edited(row, edit) = Shelf!Edited(row, edit)
  BY DEF Shelf!Edited, Stock!Edited
<1>2. Stock!SaveBook(r)
  BY <1>1 DEF Shelf!SaveBook, Stock!SaveBook
<1> QED
  BY <1>2 DEF ShelfStep, Stock!Next

LEMMA RequestFailsIsStep ==
    ASSUME NEW r \in Requests, Shelf!RequestFails(r)
    PROVE  ShelfStep
<1>1. Stock!RequestFails(r)
  BY DEF Shelf!RequestFails, Stock!RequestFails
<1> QED
  BY <1>1 DEF ShelfStep, Stock!Next

LEMMA ShelfUnmoved ==
    ASSUME ShelfInv, UNCHANGED shelfVars
    PROVE  ShelfInv'
<1>1. UNCHANGED Stock!vars
  BY DEF shelfVars, Stock!vars
<1> QED
  BY <1>1, ShelfKept DEF ShelfStep

LEMMA OrdersUnmoved ==
    ASSUME Effects!EffectsInv, UNCHANGED orderVars
    PROVE  Effects!EffectsInv'
<1>1. UNCHANGED Effects!vars
  BY DEF orderVars, Effects!vars
<1> QED
  BY <1>1, OrdersKept

(* The counts of the calls are natural numbers. *)
LEMMA CountsAreNaturals ==
    ASSUME Effects!EffectsInv, CallsTyped, NEW c \in Calls
    PROVE  /\ spawned[c] \in Nat /\ ended[c] \in Nat /\ applied[c] \in Nat
           /\ Carried(c) \in SUBSET Requests
           /\ IsFiniteSet(Carried(c))
           /\ Cardinality(Carried(c)) \in Nat
<1>1. spawned[c] \in Nat
  BY SameSets DEF Effects!EffectsInv, Effects!Inv, Effects!TypeOK
<1>2. Carried(c) \in SUBSET Requests
  BY DEF Carried
<1>3. IsFiniteSet(Carried(c))
  BY <1>2, FS_Subset, LendingAssumption
<1> QED
  BY <1>1, <1>2, <1>3, FS_CardinalityType DEF CallsTyped

(* A step of order-service: calls are started, none is undone. *)
LEMMA OrderStepInv ==
    ASSUME LendingInv, OrdersStep, UNCHANGED shelfVars,
           UNCHANGED <<carries, ended, applied>>, disturbed' \subseteq BookIds,
           \A c \in Calls : spawned[c] <= spawned'[c]
    PROVE  LendingInv'
<1>1. Effects!EffectsInv'
  BY OrdersKept DEF OrdersStep, LendingInv
<1>2. ShelfInv'
  BY ShelfUnmoved DEF LendingInv
<1>3. CallsTyped'
  BY DEF LendingInv, CallsTyped
<1>4. CallsCounted'
  <2> SUFFICES ASSUME NEW c \in Calls
               PROVE  applied'[c] <= ended'[c] /\ Cardinality(Carried(c)') <= Outstanding(c)'
    BY DEF CallsCounted
  <2>1. Carried(c)' = Carried(c)
    BY DEF Carried
  <2>2. /\ spawned[c] \in Nat /\ ended[c] \in Nat
        /\ Cardinality(Carried(c)) \in Nat
    BY CountsAreNaturals DEF LendingInv
  <2>3. spawned'[c] \in Nat
    BY <1>1, SameSets DEF Effects!EffectsInv, Effects!Inv, Effects!TypeOK
  <2>4. applied[c] <= ended[c] /\ Cardinality(Carried(c)) <= spawned[c] - ended[c]
    BY DEF LendingInv, CallsCounted, Outstanding
  <2> QED
    BY <2>1, <2>2, <2>3, <2>4 DEF Outstanding
<1> QED
  BY <1>1, <1>2, <1>3, <1>4 DEF LendingInv

(* A request takes up a call that waits. *)
LEMMA SendCallInv ==
    ASSUME LendingInv, NEW r \in Requests, NEW c \in Calls, SendCall(r, c)
    PROVE  LendingInv'
<1>1. c.book \in BookIds /\ c.change \in Changes
  BY DEF Calls, Orders!Calls, Changes
<1>2. Effects!EffectsInv' /\ ShelfInv'
  BY <1>1, OrdersUnmoved, ReadQuantityIsStep, ShelfKept DEF SendCall, LendingInv
<1>3. CallsTyped'
  BY DEF SendCall, LendingInv, CallsTyped
<1>4. CallsCounted'
  <2> SUFFICES ASSUME NEW d \in Calls
               PROVE  applied'[d] <= ended'[d] /\ Cardinality(Carried(d)') <= Outstanding(d)'
    BY DEF CallsCounted
  <2>1. UNCHANGED <<spawned, ended, applied>> /\ Outstanding(d)' = Outstanding(d)
    BY DEF SendCall, orderVars, Outstanding
  <2>2. /\ spawned[d] \in Nat /\ ended[d] \in Nat /\ applied[d] \in Nat
        /\ IsFiniteSet(Carried(d)) /\ Cardinality(Carried(d)) \in Nat
    BY CountsAreNaturals DEF LendingInv
  <2>3. applied[d] <= ended[d] /\ Cardinality(Carried(d)) <= Outstanding(d)
    BY DEF LendingInv, CallsCounted
  <2>4. CASE d = c
    <3>1. Carried(d)' \in SUBSET (Carried(d) \cup {r})
      BY DEF SendCall, Carried, LendingInv, CallsTyped
    <3>2. /\ IsFiniteSet(Carried(d) \cup {r})
          /\ Cardinality(Carried(d) \cup {r}) <= Cardinality(Carried(d)) + 1
      <4>1. /\ IsFiniteSet(Carried(d) \cup {r})
            /\ Cardinality(Carried(d) \cup {r}) =
                 IF r \in Carried(d) THEN Cardinality(Carried(d)) ELSE Cardinality(Carried(d)) + 1
        BY <2>2, FS_AddElement
      <4> QED
        BY <2>2, <4>1
    <3>3. IsFiniteSet(Carried(d)') /\ Cardinality(Carried(d)') <= Cardinality(Carried(d) \cup {r})
      BY <3>1, <3>2, FS_Subset
    <3>4. Outstanding(d) > Cardinality(Carried(d)) /\ Outstanding(d) \in Int
      BY <2>2, <2>4 DEF SendCall, Waiting, Outstanding
    <3>5. Cardinality(Carried(d)') \in Nat /\ Cardinality(Carried(d) \cup {r}) \in Nat
      BY <3>2, <3>3, FS_CardinalityType
    <3> QED
      BY <2>1, <2>2, <2>3, <3>2, <3>3, <3>4, <3>5
  <2>5. CASE d # c
    <3>1. Carried(d)' \in SUBSET Carried(d)
      BY <2>5 DEF SendCall, Carried, LendingInv, CallsTyped
    <3>2. IsFiniteSet(Carried(d)') /\ Cardinality(Carried(d)') <= Cardinality(Carried(d))
      BY <2>2, <3>1, FS_Subset
    <3>3. Cardinality(Carried(d)') \in Nat /\ Outstanding(d) \in Int
      BY <2>2, <3>2, FS_CardinalityType DEF Outstanding
    <3> QED
      BY <2>1, <2>2, <2>3, <3>2, <3>3
  <2> QED
    BY <2>4, <2>5
<1> QED
  BY <1>2, <1>3, <1>4 DEF LendingInv

(* A call ends: with its request, or without one. *)
LEMMA CallFailsInv ==
    ASSUME LendingInv, NEW c \in Calls, CallFails(c)
    PROVE  LendingInv'
<1>1. Effects!EffectsInv' /\ ShelfInv'
  BY OrdersUnmoved, ShelfUnmoved DEF CallFails, LendingInv
<1>2. ended' = [ended EXCEPT ![c] = ended[c] + 1] /\ UNCHANGED <<spawned, carries, applied>>
  BY DEF CallFails, orderVars
<1>3. CallsTyped'
  <2>1. c.book \in BookIds
    BY DEF Calls, Orders!Calls
  <2>2. ended \in [Calls -> Nat] /\ ended' \in [Calls -> Nat]
    BY <1>2 DEF LendingInv, CallsTyped
  <2>3. disturbed' \subseteq BookIds
    BY <2>1 DEF CallFails, LendingInv, CallsTyped
  <2> QED
    BY <1>2, <2>2, <2>3 DEF LendingInv, CallsTyped
<1>4. CallsCounted'
  <2> SUFFICES ASSUME NEW d \in Calls
               PROVE  applied'[d] <= ended'[d] /\ Cardinality(Carried(d)') <= spawned'[d] - ended'[d]
    BY DEF CallsCounted, Outstanding
  <2>1. Carried(d)' = Carried(d)
    BY <1>2 DEF Carried
  <2>2. /\ spawned[d] \in Nat /\ ended[d] \in Nat /\ applied[d] \in Nat
        /\ Cardinality(Carried(d)) \in Nat
    BY CountsAreNaturals DEF LendingInv
  <2>3. applied[d] <= ended[d] /\ Cardinality(Carried(d)) <= spawned[d] - ended[d]
    BY DEF LendingInv, CallsCounted, Outstanding
  <2>4. d = c => spawned[d] - ended[d] > Cardinality(Carried(d))
    BY DEF CallFails, Waiting, Outstanding
  <2>5. ended'[d] = IF d = c THEN ended[d] + 1 ELSE ended[d]
    BY <1>2 DEF LendingInv, CallsTyped
  <2> QED
    BY <1>2, <2>1, <2>2, <2>3, <2>4, <2>5
<1> QED
  BY <1>1, <1>3, <1>4 DEF LendingInv

LEMMA CallEndsInv ==
    ASSUME LendingInv, NEW r \in Requests, NEW c \in Calls, carries[r] = c,
           ShelfInv', UNCHANGED orderVars,
           ended' = [ended EXCEPT ![c] = @ + 1],
           applied' = applied \/ applied' = [applied EXCEPT ![c] = @ + 1],
           carries' = [carries EXCEPT ![r] = NoCall],
           disturbed' \subseteq BookIds
    PROVE  LendingInv'
<1>1. Effects!EffectsInv' /\ UNCHANGED spawned
  BY OrdersUnmoved DEF LendingInv, orderVars
<1>2. CallsTyped'
  BY DEF LendingInv, CallsTyped
<1>3. CallsCounted'
  <2> SUFFICES ASSUME NEW d \in Calls
               PROVE  applied'[d] <= ended'[d] /\ Cardinality(Carried(d)') <= spawned'[d] - ended'[d]
    BY DEF CallsCounted, Outstanding
  <2>1. Carried(d)' = IF d = c THEN Carried(d) \ {r} ELSE Carried(d)
    BY LendingAssumption DEF Carried, LendingInv, CallsTyped
  <2>2. /\ spawned[d] \in Nat /\ ended[d] \in Nat /\ applied[d] \in Nat
        /\ IsFiniteSet(Carried(d)) /\ Cardinality(Carried(d)) \in Nat
    BY CountsAreNaturals DEF LendingInv
  <2>3. applied[d] <= ended[d] /\ Cardinality(Carried(d)) <= spawned[d] - ended[d]
    BY DEF LendingInv, CallsCounted, Outstanding
  <2>4. ended'[d] = IF d = c THEN ended[d] + 1 ELSE ended[d]
    BY DEF LendingInv, CallsTyped
  <2>5. applied'[d] = applied[d] \/ (d = c /\ applied'[d] = applied[d] + 1)
    BY DEF LendingInv, CallsTyped
  <2>6. d = c => Cardinality(Carried(d) \ {r}) = Cardinality(Carried(d)) - 1
    BY <2>2, FS_RemoveElement DEF Carried
  <2> QED
    BY <1>1, <2>1, <2>2, <2>3, <2>4, <2>5, <2>6
<1> QED
  BY <1>1, <1>2, <1>3 DEF LendingInv

LEMMA CallAppliedInv ==
    ASSUME LendingInv, NEW r \in Requests, CallApplied(r)
    PROVE  LendingInv'
<1>1. PICK c \in Calls : c = carries[r] /\ c.book \in BookIds
  BY DEF CallApplied, LendingInv, CallsTyped, Calls, Orders!Calls
<1>2. ShelfInv'
  BY WriteQuantityIsStep, ShelfKept DEF CallApplied, LendingInv
<1>3. /\ UNCHANGED orderVars
      /\ ended' = [ended EXCEPT ![c] = @ + 1]
      /\ applied' = [applied EXCEPT ![c] = @ + 1]
      /\ carries' = [carries EXCEPT ![r] = NoCall]
      /\ disturbed' \subseteq BookIds
  BY <1>1 DEF CallApplied, LendingInv, CallsTyped
<1> QED
  BY <1>1, <1>2, <1>3, CallEndsInv

LEMMA CallAbortedInv ==
    ASSUME LendingInv, NEW r \in Requests, CallAborted(r)
    PROVE  LendingInv'
<1>1. PICK c \in Calls : c = carries[r] /\ c.book \in BookIds
  BY DEF CallAborted, LendingInv, CallsTyped, Calls, Orders!Calls
<1>2. ShelfInv'
  BY RequestFailsIsStep, ShelfKept DEF CallAborted, LendingInv
<1>3. /\ UNCHANGED <<orderVars, applied>>
      /\ ended' = [ended EXCEPT ![c] = @ + 1]
      /\ carries' = [carries EXCEPT ![r] = NoCall]
      /\ disturbed' \subseteq BookIds
  BY <1>1 DEF CallAborted, LendingInv, CallsTyped
<1> QED
  BY <1>1, <1>2, <1>3, CallEndsInv

LEMMA CatalogStepInv ==
    ASSUME LendingInv, CatalogStep
    PROVE  LendingInv'
<1>1. UNCHANGED <<orderVars, callVars>>
  BY DEF CatalogStep
<1>2. ShelfInv'
  BY CreateBooksIsStep, ReadBookIsStep, SaveBookIsStep, RequestFailsIsStep, ShelfKept
  DEF CatalogStep, LendingInv
<1>3. Effects!EffectsInv'
  BY <1>1, OrdersUnmoved DEF LendingInv
<1>4. CallsTyped' /\ CallsCounted'
  BY <1>1 DEF LendingInv, CallsTyped, CallsCounted, Carried, Outstanding, callVars, orderVars
<1> QED
  BY <1>2, <1>3, <1>4 DEF LendingInv

LEMMA InitLending == Init => LendingInv
<1> SUFFICES ASSUME Init PROVE LendingInv
  OBVIOUS
<1>1. Effects!EffectsInv
  <2>1. Effects!Init
    BY SameSets DEF Init, Orders!Init, Effects!Init, Orders!NoTransitions,
       Effects!NoTransitions, Calls
  <2> QED
    BY <2>1, OrdersAssumed, Effects!InitEffects
<1>2. ShelfInv
  <2>1. Stock!Init
    BY DEF Init, Shelf!Init, Stock!Init
  <2> QED
    BY <2>1, ShelfAssumed, Stock!InitInv, Stock!InitAlone DEF ShelfInv
<1>3. CallsTyped
  BY DEF Init, CallsTyped
<1>4. CallsCounted
  <2> SUFFICES ASSUME NEW c \in Calls
               PROVE  applied[c] <= ended[c] /\ Cardinality(Carried(c)) <= spawned[c] - ended[c]
    BY DEF CallsCounted, Outstanding
  <2>1. applied[c] = 0 /\ ended[c] = 0 /\ spawned[c] = 0
    BY DEF Init, Orders!Init, Calls
  <2>2. Carried(c) = {}
    BY LendingAssumption DEF Init, Carried
  <2> QED
    BY <2>1, <2>2, FS_EmptySet
<1> QED
  BY <1>1, <1>2, <1>3, <1>4 DEF LendingInv

LEMMA NextLending == LendingInv /\ [Next]_vars => LendingInv'
<1> SUFFICES ASSUME LendingInv, [Next]_vars PROVE LendingInv'
  OBVIOUS
<1>1. ASSUME Effects!Working \/ \E h \in Handlers : Effects!HandlerDies(h),
             UNCHANGED spawned, UNCHANGED shelfVars,
             UNCHANGED <<carries, ended, applied>>, disturbed' \subseteq BookIds
      PROVE  LendingInv'
  <2>1. OrdersStep
    BY <1>1, OrdersAssumed, Effects!DeathApart DEF OrdersStep
  <2>2. \A c \in Calls : spawned[c] <= spawned'[c]
    BY <1>1, CountsAreNaturals DEF LendingInv
  <2> QED
    BY <1>1, <2>1, <2>2, OrderStepInv
<1>2. disturbed \subseteq BookIds
  BY DEF LendingInv, CallsTyped
<1>3. CASE OrderStep
  <2>1. /\ UNCHANGED shelfVars
        /\ UNCHANGED <<carries, ended, applied>>
        /\ disturbed' \subseteq BookIds
    BY <1>2, <1>3 DEF OrderStep, callVars
  <2>2. ASSUME NEW h \in Handlers, Orders!StartEffects(h) PROVE LendingInv'
    <3>1. OrdersStep
      BY <2>2, StartEffectsIsStep, OrdersAssumed, Effects!DeathApart DEF OrdersStep
    <3>2. \A c \in Calls : spawned[c] <= spawned'[c]
      BY <2>2, StartEffectsIsStep, CountsAreNaturals DEF LendingInv
    <3> QED
      BY <2>1, <3>1, <3>2, OrderStepInv
  <2>3. CASE Effects!Working /\ UNCHANGED spawned
    BY <1>1, <2>1, <2>3
  <2> QED
    BY <1>3, <2>2, <2>3, StartCreateIsStep, BookCheckedIsStep, PlaceOrderIsStep,
       CancelOrderIsStep, UpdateStatusIsStep, StartReturnIsStep, FinishReturnIsStep
    DEF OrderStep
<1>4. ASSUME NEW h \in Handlers, OrderHandlerDies(h) PROVE LendingInv'
  <2>1. Effects!HandlerDies(h) /\ UNCHANGED spawned
    BY <1>4, HandlerDiesIsStep DEF OrderHandlerDies
  <2>2. disturbed' \subseteq BookIds
    <3>1. CASE Orders!At(h, "committed")
      <4>1. handler[h] \in Effects!Committed
        BY <3>1, OrdersAssumed, Effects!HandlerFields
        DEF LendingInv, Effects!EffectsInv, Effects!Inv, Effects!At, Orders!At
      <4>2. \A c \in handler[h].calls : c.book \in BookIds
        BY <4>1 DEF Effects!Committed, Effects!Calls
      <4> QED
        BY <1>2, <1>4, <3>1, <4>2 DEF OrderHandlerDies
    <3>2. CASE ~Orders!At(h, "committed")
      BY <1>2, <1>4, <3>2 DEF OrderHandlerDies
    <3> QED
      BY <3>1, <3>2
  <2> QED
    BY <1>1, <1>4, <2>1, <2>2 DEF OrderHandlerDies
<1>5. CASE UNCHANGED vars
  <2>1. OrdersStep /\ UNCHANGED <<shelfVars, carries, ended, applied, spawned, disturbed>>
    BY <1>5 DEF vars, OrdersStep, orderVars, callVars, Effects!vars
  <2>2. \A c \in Calls : spawned[c] <= spawned'[c]
    BY <2>1, CountsAreNaturals DEF LendingInv
  <2> QED
    BY <1>2, <2>1, <2>2, OrderStepInv
<1> QED
  BY <1>3, <1>4, <1>5, SendCallInv, CallFailsInv, CallAppliedInv, CallAbortedInv, CatalogStepInv
  DEF Next

LEMMA LendingInvHolds == Spec => []LendingInv
<1> QED
  BY InitLending, NextLending, PTL DEF Spec

(* Both services, the calls between them and what carries them stay well-typed, and *)
(* no more requests carry a call than it was started and has not ended.             *)
THEOREM TypeCorrect == Spec => []TypeOK
<1>1. ASSUME LendingInv PROVE TypeOK
  <2>1. Orders!TypeOK
    <3>1. Effects!TypeOK
      BY <1>1 DEF LendingInv, Effects!EffectsInv, Effects!Inv
    <3>2. Effects!Tally = Orders!Tally
      BY DEF Effects!Tally, Orders!Tally
    <3> QED
      BY <3>1, <3>2, SameSets DEF Effects!TypeOK, Orders!TypeOK, Calls
  <2>2. Shelf!TypeOK
    <3>1. Stock!TypeOK
      BY <1>1 DEF LendingInv, ShelfInv, Stock!Inv
    <3>2. Stock!Int32 = Shelf!Int32
      BY DEF Stock!Int32, Shelf!Int32
    <3>3. Stock!Row = Shelf!Row
      BY <3>2 DEF Stock!Row, Shelf!Row
    <3>4. Stock!Edit = Shelf!Edit
      BY DEF Stock!Edit, Shelf!Edit
    <3>5. Stock!Pending = Shelf!Pending
      BY <3>3, <3>4 DEF Stock!Pending, Stock!QuantityWrite, Stock!EditWrite,
         Shelf!Pending, Shelf!QuantityWrite, Shelf!EditWrite
    <3> QED
      BY <3>1, <3>2, <3>3, <3>5 DEF Stock!TypeOK, Shelf!TypeOK
  <2> QED
    BY <1>1, <2>1, <2>2 DEF TypeOK, LendingInv, CallsTyped, CallsCounted
<1> QED
  BY <1>1, LendingInvHolds, PTL

(* End to end, for any number of orders, books, handlers and requests: a copy is *)
(* taken from the shelf at most once per order, and put back at most once per     *)
(* cancellation and per return, however calls are lost, cut and reordered.        *)
THEOREM ShelfCallsAreEarned == Spec => []AppliedCallsAreEarned
<1>1. ASSUME LendingInv PROVE AppliedCallsAreEarned
  <2> SUFFICES ASSUME NEW c \in Calls
               PROVE  applied[c] <=
                        IF c.change = 1 THEN tally[c.order].cancels + tally[c.order].returns
                        ELSE IF orders[c.order] # NoOrder THEN 1 ELSE 0
    BY DEF AppliedCallsAreEarned
  <2>1. /\ spawned[c] \in Nat /\ ended[c] \in Nat /\ applied[c] \in Nat
        /\ Cardinality(Carried(c)) \in Nat
    BY <1>1, CountsAreNaturals DEF LendingInv
  <2>2. applied[c] <= ended[c] /\ Cardinality(Carried(c)) <= spawned[c] - ended[c]
    BY <1>1 DEF LendingInv, CallsCounted, Outstanding
  <2>3. c \in Effects!Calls
    BY SameSets
  <2>4. /\ Effects!CallBound(c) \in Nat
        /\ Effects!Cardinality(Effects!Owing(c)) \in Nat
        /\ spawned[c] + Effects!Cardinality(Effects!Owing(c)) <= Effects!CallBound(c)
    <3>1. Effects!CountsNatural
      BY <1>1, OrdersAssumed, Effects!CountsAreNaturals
      DEF LendingInv, Effects!EffectsInv, Effects!Inv
    <3> QED
      BY <1>1, <2>3, <3>1 DEF LendingInv, Effects!EffectsInv, Effects!CallsSound,
         Effects!CountsNatural
  <2>5. Effects!CallBound(c) <=
          IF c.change = 1 THEN tally[c.order].cancels + tally[c.order].returns
          ELSE IF orders[c.order] # NoOrder THEN 1 ELSE 0
    BY <2>4 DEF Effects!CallBound, Effects!Stored
  <2>6. applied[c] <= Effects!CallBound(c)
    BY <2>1, <2>2, <2>4
  <2> QED
    BY <2>1, <2>4, <2>5, <2>6 DEF Effects!CallBound, Effects!Stored
<1> QED
  BY <1>1, LendingInvHolds, PTL
------------------------------------------------------------------------------
(* The inventory.  A request that carries a call is about to make just that  *)
(* change, to a row that is still the row unless the book is marked          *)
(* overlapped.  So the shelf of a book with no mark shows its total less     *)
(* what the applied calls took and did not put back (ShelfCounts); and where *)
(* no call was lost, the applied calls are the ones the orders have earned.  *)

Take(o, b) == [order |-> o, book |-> b, change |-> -1]
Put(o, b)  == [order |-> o, book |-> b, change |-> 1]

\* By order, the copies of b that are away from the shelf.
Away(b) == [o \in OrderIds |-> applied[Take(o, b)] - applied[Put(o, b)]]

CarriesMatch ==
    \A r \in Requests :
        IF carries[r] = NoCall THEN request[r] # Idle => request[r].op = "edit"
        ELSE /\ request[r] # Idle
             /\ request[r].op = "quantity"
             /\ request[r].book = carries[r].book
             /\ request[r].change = carries[r].change

UntouchedUntilBorn == \A c \in Calls : born[c.book] = NoRow => applied[c] = 0

NothingLost ==
    \A c \in Calls : c.book \notin disturbed => ended[c] = applied[c] /\ Effects!AllStarted(c)

BalanceOf(b) == books[b].available = books[b].total - SumFunctionOnSet(Away(b), OrderIds)

ShelfCounts == \A b \in BookIds \ (overlapped \cup disturbed) : Shelf!Stored(b) => BalanceOf(b)

BalanceInv ==
    /\ CarriesMatch
    /\ UntouchedUntilBorn
    /\ NothingLost
    /\ ShelfCounts

LEMMA CallsOfOrders ==
    /\ \A c \in Calls : c.order \in OrderIds /\ c.book \in BookIds /\ c.change \in Changes
    /\ \A o \in OrderIds, b \in BookIds : Take(o, b) \in Calls /\ Put(o, b) \in Calls
    /\ \A c \in Calls : c = IF c.change = 1 THEN Put(c.order, c.book) ELSE Take(c.order, c.book)
BY DEF Calls, Orders!Calls, Changes, Take, Put

LEMMA AwayType ==
    ASSUME CallsTyped, NEW b \in BookIds, NEW o \in OrderIds
    PROVE  Away(b)[o] \in Int
<1>1. applied[Take(o, b)] \in Nat /\ applied[Put(o, b)] \in Nat
  BY CallsOfOrders DEF CallsTyped
<1> QED
  BY <1>1 DEF Away

LEMMA StartedUnmoved ==
    ASSUME UNCHANGED orderVars, NEW c \in Calls
    PROVE  Effects!AllStarted(c)' <=> Effects!AllStarted(c)
BY DEF orderVars, Effects!AllStarted, Effects!Earned, Effects!Stored, Effects!Owing, Effects!At

(* A step that applies no call and leaves the stock of unmarked books alone. *)
LEMMA CountsKept ==
    ASSUME ShelfCounts, UNCHANGED applied,
           overlapped \subseteq overlapped', disturbed \subseteq disturbed',
           \A b \in BookIds \ (overlapped' \cup disturbed') : Shelf!Stored(b)' =>
               /\ Shelf!Stored(b)
               /\ books'[b].available = books[b].available
               /\ books'[b].total = books[b].total
    PROVE  ShelfCounts'
<1> SUFFICES ASSUME NEW b \in BookIds \ (overlapped' \cup disturbed'), Shelf!Stored(b)'
             PROVE  BalanceOf(b)'
  BY DEF ShelfCounts
<1>1. Away(b)' = Away(b)
  BY DEF Away
<1>2. BalanceOf(b)
  BY DEF ShelfCounts
<1> QED
  BY <1>1, <1>2 DEF BalanceOf

(* A step of order-service. *)
LEMMA OrderStepBalance ==
    ASSUME LendingInv, BalanceInv, UNCHANGED shelfVars, UNCHANGED <<carries, ended, applied>>,
           disturbed \subseteq disturbed',
           \A c \in Calls : c.book \notin disturbed' =>
               \/ Effects!Working
               \/ \E h \in Handlers \ Effects!Owing(c) : Effects!HandlerDies(h)
               \/ UNCHANGED Effects!vars
    PROVE  BalanceInv'
<1>1. CarriesMatch' /\ UntouchedUntilBorn'
  BY DEF BalanceInv, CarriesMatch, UntouchedUntilBorn, shelfVars
<1>2. NothingLost'
  <2> SUFFICES ASSUME NEW c \in Calls, c.book \notin disturbed'
               PROVE  ended'[c] = applied'[c] /\ Effects!AllStarted(c)'
    BY DEF NothingLost
  <2>1. ended[c] = applied[c] /\ Effects!AllStarted(c)
    BY DEF BalanceInv, NothingLost
  <2>2. c \in Effects!Calls
    BY SameSets
  <2>3. Effects!AllStarted(c)'
    BY <2>1, <2>2, OrdersAssumed, Effects!NothingIsForgotten DEF LendingInv
  <2> QED
    BY <2>1, <2>3
<1>3. ShelfCounts'
  BY CountsKept DEF BalanceInv, shelfVars, Shelf!Stored
<1> QED
  BY <1>1, <1>2, <1>3 DEF BalanceInv

LEMMA SendCallBalance ==
    ASSUME LendingInv, BalanceInv, NEW r \in Requests, NEW c \in Calls, SendCall(r, c)
    PROVE  BalanceInv'
<1> DEFINE new == [op |-> "quantity", book |-> c.book, seen |-> books[c.book], change |-> c.change]
<1>1. /\ request' = [request EXCEPT ![r] = new]
      /\ carries' = [carries EXCEPT ![r] = c]
      /\ UNCHANGED <<orderVars, books, born, ended, applied, disturbed>>
      /\ overlapped \subseteq overlapped'
  BY DEF SendCall, Shelf!ReadQuantity, Shelf!MarkOverlap
<1>2. /\ request'[r] = new /\ carries'[r] = c
      /\ \A q \in Requests \ {r} : request'[q] = request[q] /\ carries'[q] = carries[q]
  BY <1>1 DEF LendingInv, ShelfInv, Stock!Inv, Stock!TypeOK, CallsTyped
<1>3. request'[r] # Idle
  <2>1. ShelfInv'
    BY CallsOfOrders, ReadQuantityIsStep, ShelfKept DEF SendCall, LendingInv
  <2>2. request'[r] \in Stock!Pending
    <3>1. books[c.book] \in Stock!Row
      BY CallsOfOrders, ShelfAssumed, Stock!StoredIsBorn
      DEF SendCall, Shelf!ReadQuantity, Shelf!Stored, Stock!Stored, LendingInv, ShelfInv
    <3> QED
      BY <1>2, <3>1, CallsOfOrders DEF Stock!Pending, Stock!QuantityWrite
  <2> QED
    BY <2>2, ShelfAssumed DEF Stock!BookStoreAssumption
<1>4. CarriesMatch'
  BY <1>2, <1>3, LendingAssumption DEF BalanceInv, CarriesMatch
<1>5. UntouchedUntilBorn' /\ NothingLost'
  BY <1>1, StartedUnmoved DEF BalanceInv, UntouchedUntilBorn, NothingLost
<1>6. ShelfCounts'
  BY <1>1, CountsKept DEF BalanceInv, Shelf!Stored
<1> QED
  BY <1>4, <1>5, <1>6 DEF BalanceInv

LEMMA CallFailsBalance ==
    ASSUME LendingInv, BalanceInv, NEW c \in Calls, CallFails(c)
    PROVE  BalanceInv'
<1>1. /\ UNCHANGED <<orderVars, shelfVars, carries, applied>>
      /\ disturbed' = disturbed \cup {c.book}
      /\ \A d \in Calls \ {c} : ended'[d] = ended[d]
  BY DEF CallFails, LendingInv, CallsTyped
<1>2. CarriesMatch' /\ UntouchedUntilBorn'
  BY <1>1 DEF BalanceInv, CarriesMatch, UntouchedUntilBorn, shelfVars
<1>3. NothingLost'
  BY <1>1, StartedUnmoved DEF BalanceInv, NothingLost
<1>4. ShelfCounts'
  BY <1>1, CountsKept DEF BalanceInv, shelfVars, Shelf!Stored
<1> QED
  BY <1>2, <1>3, <1>4 DEF BalanceInv

(* A request that ends takes the call it carries with it. *)
LEMMA CarrierGone ==
    ASSUME LendingInv, CarriesMatch, NEW r \in Requests,
           request' = [request EXCEPT ![r] = Idle], carries' = [carries EXCEPT ![r] = NoCall]
    PROVE  CarriesMatch'
<1>1. /\ request'[r] = Idle /\ carries'[r] = NoCall
      /\ \A q \in Requests \ {r} : request'[q] = request[q] /\ carries'[q] = carries[q]
  BY DEF LendingInv, ShelfInv, Stock!Inv, Stock!TypeOK, CallsTyped
<1> QED
  BY <1>1 DEF CarriesMatch

LEMMA CallAbortedBalance ==
    ASSUME LendingInv, BalanceInv, NEW r \in Requests, CallAborted(r)
    PROVE  BalanceInv'
<1>1. PICK c \in Calls : c = carries[r]
  BY DEF CallAborted, LendingInv, CallsTyped
<1>2. /\ UNCHANGED <<orderVars, books, born, overlapped, applied>>
      /\ request' = [request EXCEPT ![r] = Idle]
      /\ carries' = [carries EXCEPT ![r] = NoCall]
      /\ disturbed' = disturbed \cup {c.book}
      /\ \A d \in Calls \ {c} : ended'[d] = ended[d]
  BY <1>1 DEF CallAborted, Shelf!RequestFails, LendingInv, CallsTyped
<1>3. CarriesMatch'
  BY <1>2, CarrierGone DEF BalanceInv
<1>4. UntouchedUntilBorn'
  BY <1>2 DEF BalanceInv, UntouchedUntilBorn
<1>5. NothingLost'
  BY <1>2, StartedUnmoved DEF BalanceInv, NothingLost
<1>6. ShelfCounts'
  BY <1>2, CountsKept DEF BalanceInv, Shelf!Stored
<1> QED
  BY <1>3, <1>4, <1>5, <1>6 DEF BalanceInv

(* One more application of c moves one summand of one book by one. *)
LEMMA OneMoreAway ==
    ASSUME CallsTyped, NEW c \in Calls, applied' = [applied EXCEPT ![c] = @ + 1]
    PROVE  /\ SumFunctionOnSet(Away(c.book), OrderIds) \in Int
           /\ SumFunctionOnSet(Away(c.book)', OrderIds)
                = SumFunctionOnSet(Away(c.book), OrderIds) - c.change
           /\ \A b \in BookIds \ {c.book} : Away(b)' = Away(b)
<1> DEFINE o == c.order
           b == c.book
           f == Away(b)
           g == Away(b)'
<1>1. o \in OrderIds /\ b \in BookIds /\ c.change \in {-1, 1}
  BY CallsOfOrders DEF Changes
<1>2. \A d \in Calls : applied'[d] = IF d = c THEN applied[d] + 1 ELSE applied[d]
  BY DEF CallsTyped
<1>3. \A p \in OrderIds, a \in BookIds :
        /\ Take(p, a) = c <=> p = o /\ a = b /\ c.change = -1
        /\ Put(p, a) = c <=> p = o /\ a = b /\ c.change = 1
  BY <1>1, CallsOfOrders DEF Take, Put
<1>4. \A p \in OrderIds : f[p] = applied[Take(p, b)] - applied[Put(p, b)]
                       /\ g[p] = applied'[Take(p, b)] - applied'[Put(p, b)]
  BY DEF Away
<1>5. \A p \in OrderIds : applied[Take(p, b)] \in Nat /\ applied[Put(p, b)] \in Nat
  BY <1>1, CallsOfOrders DEF CallsTyped
<1>6. \A p \in OrderIds \ {o} : g[p] = f[p]
  BY <1>1, <1>2, <1>3, <1>4, CallsOfOrders
<1>7. g[o] = f[o] - c.change
  <2>1. CASE c.change = 1
    <3>1. applied'[Put(o, b)] = applied[Put(o, b)] + 1 /\ applied'[Take(o, b)] = applied[Take(o, b)]
      BY <1>1, <1>2, <1>3, <2>1, CallsOfOrders
    <3> QED
      BY <1>1, <1>4, <1>5, <2>1, <3>1
  <2>2. CASE c.change = -1
    <3>1. applied'[Take(o, b)] = applied[Take(o, b)] + 1 /\ applied'[Put(o, b)] = applied[Put(o, b)]
      BY <1>1, <1>2, <1>3, <2>2, CallsOfOrders
    <3> QED
      BY <1>1, <1>4, <1>5, <2>2, <3>1
  <2> QED
    BY <1>1, <2>1, <2>2
<1>8. \A p \in OrderIds : f[p] \in Int /\ g[p] \in Int
  <2>1. \A p \in OrderIds : f[p] \in Int
    BY <1>4, <1>5
  <2> QED
    BY <1>1, <1>6, <1>7, <2>1
<1>9. \A a \in BookIds \ {b} : Away(a)' = Away(a)
  BY <1>2, <1>3, CallsOfOrders DEF Away
<1> HIDE DEF f, g
<1>10. SumFunctionOnSet(g, OrderIds) = SumFunctionOnSet(f, OrderIds) - f[o] + g[o]
  BY <1>1, <1>6, <1>8, SumOfUpdate, LendingAssumption
<1>11. SumFunctionOnSet(f, OrderIds) \in Int
  BY <1>8, SumInRange, LendingAssumption
<1>12. SumFunctionOnSet(g, OrderIds) = SumFunctionOnSet(f, OrderIds) - c.change
  BY <1>1, <1>7, <1>8, <1>10, <1>11
<1> QED
  BY <1>9, <1>11, <1>12 DEF f, g

(* The write of a call that had the book to itself and was not cut off. *)
LEMMA CallAppliedExactly ==
    ASSUME LendingInv, BalanceInv, NEW r \in Requests, NEW c \in Calls, c = carries[r],
           CallApplied(r), c.book \notin overlapped' \cup disturbed'
    PROVE  /\ Shelf!Stored(c.book)
           /\ books'[c.book].available = books[c.book].available + c.change
           /\ books'[c.book].total = books[c.book].total
           /\ books[c.book].available \in Int /\ books[c.book].total \in Int
<1> DEFINE b == c.book
           row == request[r].seen
<1>1. b \in BookIds /\ c.change \in Changes /\ c # NoCall
  BY CallsOfOrders, LendingAssumption
<1>2. /\ request[r] # Idle /\ request[r].op = "quantity"
      /\ request[r].book = b /\ request[r].change = c.change
  BY <1>1 DEF BalanceInv, CarriesMatch
<1>3. /\ books' = IF Shelf!Stored(b)
                  THEN [books EXCEPT ![b].available = Shelf!NewQuantity(row, c.change)] ELSE books
      /\ overlapped' = overlapped
      /\ ~(Shelf!AddInt32(row.available, c.change) > row.total)
  BY <1>2 DEF CallApplied, Shelf!WriteQuantity
<1>4. books[b] = row
  BY <1>2, <1>3 DEF LendingInv, ShelfInv, Stock!Alone
<1>5. row \in Stock!Row
  BY <1>2, ShelfAssumed, Stock!PendingFields DEF LendingInv, ShelfInv, Stock!Inv
<1>6. Stock!Sufficient(row, c.change) /\ Stock!WithinBounds(row)
  BY <1>2 DEF LendingInv, ShelfInv, Stock!Inv, Stock!PendingSound
<1>7. /\ row.available \in Stock!Int32 /\ row.total \in Stock!Int32
      /\ c.change \in Stock!Int32
  BY <1>1, <1>5, ShelfAssumed DEF Stock!Row, Stock!BookStoreAssumption
<1>8. \A x \in Stock!Int32 : x \in Int
  BY ShelfAssumed DEF Stock!Int32, Stock!BookStoreAssumption
<1>9. Stock!AddInt32(row.available, c.change) \in Stock!Int32
  BY <1>7, ShelfAssumed, Stock!AddInt32Type
<1>10. Stock!AddInt32(row.available, c.change) <= row.total
  <2>1. Stock!AddInt32(row.available, c.change) = Shelf!AddInt32(row.available, c.change)
    BY DEF Stock!AddInt32, Shelf!AddInt32
  <2> QED
    BY <1>3, <1>7, <1>8, <1>9, <2>1
<1>11. Stock!NewQuantity(row, c.change) = row.available + c.change
  BY <1>1, <1>5, <1>6, <1>10, ShelfAssumed, Stock!UncutChange
<1>12. Shelf!NewQuantity(row, c.change) = row.available + c.change
  BY <1>11 DEF Stock!NewQuantity, Shelf!NewQuantity, Stock!AddInt32, Shelf!AddInt32
<1>13. Shelf!Stored(b)
  BY <1>4, <1>5, ShelfAssumed DEF Shelf!Stored, Stock!BookStoreAssumption
<1>14. books' = [books EXCEPT ![b].available = row.available + c.change]
  BY <1>3, <1>12, <1>13
<1>15. books'[b] = [row EXCEPT !.available = row.available + c.change]
  BY <1>1, <1>4, <1>14 DEF LendingInv, ShelfInv, Stock!Inv, Stock!TypeOK
<1>16. books'[b].available = row.available + c.change /\ books'[b].total = row.total
  BY <1>5, <1>15 DEF Stock!Row
<1> QED
  BY <1>4, <1>7, <1>8, <1>13, <1>16

LEMMA CallAppliedBalance ==
    ASSUME LendingInv, BalanceInv, NEW r \in Requests, CallApplied(r)
    PROVE  BalanceInv'
<1>1. PICK c \in Calls : c = carries[r]
  BY DEF CallApplied, LendingInv, CallsTyped
<1>2. c.book \in BookIds /\ c # NoCall
  BY CallsOfOrders, LendingAssumption
<1>3. request[r] # Idle /\ request[r].book = c.book
  BY <1>1, <1>2 DEF BalanceInv, CarriesMatch
<1>4. /\ UNCHANGED <<orderVars, born, overlapped>>
      /\ request' = [request EXCEPT ![r] = Idle]
      /\ carries' = [carries EXCEPT ![r] = NoCall]
      /\ ended' = [ended EXCEPT ![c] = @ + 1]
      /\ applied' = [applied EXCEPT ![c] = @ + 1]
      /\ disturbed \subseteq disturbed'
  BY <1>1 DEF CallApplied, Shelf!WriteQuantity
<1>5. /\ \A d \in Calls : applied'[d] = IF d = c THEN applied[d] + 1 ELSE applied[d]
      /\ \A d \in Calls : ended'[d] = IF d = c THEN ended[d] + 1 ELSE ended[d]
  BY <1>4 DEF LendingInv, CallsTyped
<1>6. CarriesMatch'
  BY <1>4, CarrierGone DEF BalanceInv
<1>7. UntouchedUntilBorn'
  <2>1. born[c.book] # NoRow
    BY <1>3, ShelfAssumed, Stock!PendingIsBorn DEF LendingInv, ShelfInv
  <2> QED
    BY <1>4, <1>5, <2>1 DEF BalanceInv, UntouchedUntilBorn
<1>8. NothingLost'
  BY <1>4, <1>5, StartedUnmoved DEF BalanceInv, NothingLost
<1>9. ShelfCounts'
  <2> SUFFICES ASSUME NEW b \in BookIds \ (overlapped' \cup disturbed'), Shelf!Stored(b)'
               PROVE  BalanceOf(b)'
    BY DEF ShelfCounts
  <2>1. b \notin overlapped \cup disturbed
    BY <1>4
  <2>2. /\ SumFunctionOnSet(Away(c.book), OrderIds) \in Int
        /\ SumFunctionOnSet(Away(c.book)', OrderIds)
             = SumFunctionOnSet(Away(c.book), OrderIds) - c.change
        /\ \A a \in BookIds \ {c.book} : Away(a)' = Away(a)
    BY <1>4, OneMoreAway DEF LendingInv
  <2>3. CASE b = c.book
    <3>1. /\ Shelf!Stored(b)
          /\ books'[b].available = books[b].available + c.change
          /\ books'[b].total = books[b].total
          /\ books[b].available \in Int /\ books[b].total \in Int
      BY <1>1, <2>3, CallAppliedExactly
    <3>2. books[b].available = books[b].total - SumFunctionOnSet(Away(b), OrderIds)
      BY <2>1, <3>1 DEF BalanceInv, ShelfCounts, BalanceOf
    <3>3. c.change \in Int
      BY CallsOfOrders DEF Changes
    <3>4. books'[b].available = books'[b].total - SumFunctionOnSet(Away(b)', OrderIds)
      BY <2>2, <2>3, <3>1, <3>2, <3>3
    <3> QED
      BY <3>4 DEF BalanceOf
  <2>4. CASE b # c.book
    <3>1. books'[b] = books[b]
      BY <1>2, <1>3, <2>4 DEF CallApplied, Shelf!WriteQuantity, LendingInv, ShelfInv, Stock!Inv,
         Stock!TypeOK
    <3>2. BalanceOf(b)
      BY <2>1, <3>1 DEF BalanceInv, ShelfCounts, Shelf!Stored
    <3> QED
      BY <2>2, <2>4, <3>1, <3>2 DEF BalanceOf
  <2> QED
    BY <2>3, <2>4
<1> QED
  BY <1>6, <1>7, <1>8, <1>9 DEF BalanceInv

(* New books are complete: no call has ever reached them.  The others stay. *)
LEMMA CreateBooksBalance ==
    ASSUME LendingInv, BalanceInv, UNCHANGED <<orderVars, callVars>>,
           NEW new \in (SUBSET BookIds) \ {{}},
           NEW total \in [new -> Totals], NEW text \in [new -> [Fields -> Texts]],
           Shelf!CreateBooks(new, total, text)
    PROVE  BalanceInv'
<1>1. /\ UNCHANGED <<request, overlapped, carries, ended, applied, disturbed>>
      /\ \A b \in new : /\ born[b] = NoRow
                        /\ books'[b] = [total |-> total[b], available |-> total[b],
                                        text |-> text[b]]
  BY DEF Shelf!CreateBooks, callVars
<1>2. \A b \in new : total[b] \in Int
  <2>1. Totals \subseteq Int
    BY ShelfAssumed DEF Stock!BookStoreAssumption, Stock!Int32
  <2> QED
    BY <2>1
<1>3. CarriesMatch'
  BY <1>1 DEF BalanceInv, CarriesMatch
<1>4. \A c \in Calls : c.book \in new => applied[c] = 0
  BY <1>1 DEF BalanceInv, UntouchedUntilBorn
<1>5. UntouchedUntilBorn'
  <2> SUFFICES ASSUME NEW c \in Calls, born'[c.book] = NoRow PROVE applied'[c] = 0
    BY DEF UntouchedUntilBorn
  <2>1. CASE c.book \in new
    BY <1>1, <1>4, <2>1
  <2>2. CASE c.book \notin new
    <3>1. born'[c.book] = born[c.book]
      BY <2>2, CallsOfOrders DEF Shelf!CreateBooks
    <3> QED
      BY <1>1, <3>1 DEF BalanceInv, UntouchedUntilBorn
  <2> QED
    BY <2>1, <2>2
<1>6. NothingLost'
  BY <1>1, StartedUnmoved DEF BalanceInv, NothingLost
<1>7. ShelfCounts'
  <2> SUFFICES ASSUME NEW b \in BookIds \ (overlapped \cup disturbed), Shelf!Stored(b)'
               PROVE  BalanceOf(b)'
    BY <1>1 DEF ShelfCounts
  <2>1. Away(b)' = Away(b)
    BY <1>1 DEF Away
  <2>2. CASE b \in new
    <3>1. \A o \in OrderIds : Away(b)[o] = 0
      BY <1>4, <2>2, CallsOfOrders DEF Away, Take, Put
    <3>2. SumFunctionOnSet(Away(b), OrderIds) = SumFunctionOnSet(Away(b), {})
      BY <3>1, SumOfNonzero, LendingAssumption
    <3>3. SumFunctionOnSet(Away(b), OrderIds) = 0
      BY <3>2, SumOverNothing
    <3>4. books'[b].total = total[b] /\ books'[b].available = total[b]
      <4>1. books'[b] = [total |-> total[b], available |-> total[b], text |-> text[b]]
        BY <1>1, <2>2
      <4> QED
        BY <4>1
    <3> QED
      BY <1>2, <2>1, <2>2, <3>3, <3>4 DEF BalanceOf
  <2>3. CASE b \notin new
    <3>1. books'[b] = books[b]
      BY <2>3 DEF Shelf!CreateBooks
    <3>2. BalanceOf(b)
      BY <3>1 DEF Shelf!Stored, BalanceInv, ShelfCounts
    <3> QED
      BY <2>1, <3>1, <3>2 DEF BalanceOf
  <2> QED
    BY <2>2, <2>3
<1> QED
  BY <1>3, <1>5, <1>6, <1>7 DEF BalanceInv

(* Reads and edits: an edit that had the book to itself writes the stock it found. *)
LEMMA ReadBookBalance ==
    ASSUME LendingInv, BalanceInv, UNCHANGED <<orderVars, callVars>>,
           NEW r \in Requests, NEW b \in BookIds, NEW edit \in Shelf!Edit,
           Shelf!ReadBook(r, b, edit)
    PROVE  BalanceInv'
<1> DEFINE new == [op |-> "edit", book |-> b, seen |-> books[b], edit |-> edit]
<1>1. /\ request[r] = Idle
      /\ request' = [request EXCEPT ![r] = new]
      /\ UNCHANGED <<books, born, carries, ended, applied, disturbed>>
      /\ overlapped \subseteq overlapped'
  BY DEF Shelf!ReadBook, Shelf!MarkOverlap, callVars
<1>2. /\ request'[r] = new
      /\ \A q \in Requests \ {r} : request'[q] = request[q]
  BY <1>1 DEF LendingInv, ShelfInv, Stock!Inv, Stock!TypeOK
<1>3. CarriesMatch'
  <2>1. carries[r] = NoCall
    BY <1>1 DEF BalanceInv, CarriesMatch
  <2> QED
    BY <1>1, <1>2, <2>1 DEF BalanceInv, CarriesMatch
<1>4. UntouchedUntilBorn' /\ NothingLost'
  BY <1>1, StartedUnmoved DEF BalanceInv, UntouchedUntilBorn, NothingLost
<1>5. ShelfCounts'
  BY <1>1, CountsKept DEF BalanceInv, Shelf!Stored
<1> QED
  BY <1>3, <1>4, <1>5 DEF BalanceInv

LEMMA EditEndsBalance ==
    ASSUME LendingInv, BalanceInv, UNCHANGED <<orderVars, callVars>>,
           NEW r \in Requests, carries[r] = NoCall, Shelf!SaveBook(r) \/ Shelf!RequestFails(r)
    PROVE  BalanceInv'
<1>1. /\ request[r] # Idle
      /\ request' = [request EXCEPT ![r] = Idle]
      /\ UNCHANGED <<born, overlapped, carries, ended, applied, disturbed>>
  BY DEF Shelf!SaveBook, Shelf!RequestFails, callVars
<1>2. CarriesMatch'
  BY <1>1 DEF BalanceInv, CarriesMatch, LendingInv, ShelfInv, Stock!Inv, Stock!TypeOK
<1>3. UntouchedUntilBorn' /\ NothingLost'
  BY <1>1, StartedUnmoved DEF BalanceInv, UntouchedUntilBorn, NothingLost
<1>4. CASE Shelf!RequestFails(r)
  <2>1. UNCHANGED books
    BY <1>4 DEF Shelf!RequestFails
  <2>2. ShelfCounts'
    BY <1>1, <2>1, CountsKept DEF BalanceInv, Shelf!Stored
  <2> QED
    BY <1>2, <1>3, <2>2 DEF BalanceInv
<1>5. CASE Shelf!SaveBook(r)
  <2> DEFINE b == request[r].book
             row == Stock!Edited(request[r].seen, request[r].edit)
  <2>1. b \in BookIds /\ request[r].seen \in Stock!Row /\ request[r].edit \in Stock!Edit
    BY <1>1, <1>5, ShelfAssumed, Stock!PendingFields
    DEF Shelf!SaveBook, LendingInv, ShelfInv, Stock!Inv
  <2>2. row.total = request[r].seen.total /\ row.available = request[r].seen.available
    BY <2>1, ShelfAssumed, Stock!EditedKeepsStock
  <2>3. books' = [books EXCEPT ![b] = row]
    BY <1>5 DEF Shelf!SaveBook, Shelf!Edited, Stock!Edited
  <2>4. books'[b] = row /\ \A a \in BookIds \ {b} : books'[a] = books[a]
    BY <2>1, <2>3 DEF LendingInv, ShelfInv, Stock!Inv, Stock!TypeOK
  <2>5. b \notin overlapped => books[b] = request[r].seen
    BY <1>1 DEF LendingInv, ShelfInv, Stock!Alone
  <2>6. request[r].seen # NoRow
    BY <2>1, ShelfAssumed DEF Stock!BookStoreAssumption
  <2> HIDE DEF row
  <2>7. ASSUME NEW a \in BookIds \ (overlapped' \cup disturbed'), Shelf!Stored(a)'
        PROVE  /\ Shelf!Stored(a)
               /\ books'[a].available = books[a].available
               /\ books'[a].total = books[a].total
    <3>1. CASE a = b
      BY <1>1, <2>2, <2>4, <2>5, <2>6, <2>7, <3>1 DEF Shelf!Stored
    <3>2. CASE a # b
      BY <2>4, <2>7, <3>2 DEF Shelf!Stored
    <3> QED
      BY <3>1, <3>2
  <2>8. ShelfCounts'
    BY <1>1, <2>7, CountsKept DEF BalanceInv
  <2> QED
    BY <1>2, <1>3, <2>8 DEF BalanceInv
<1> QED
  BY <1>4, <1>5

LEMMA InitBalance == Init => BalanceInv
<1> SUFFICES ASSUME Init PROVE BalanceInv
  OBVIOUS
<1>1. CarriesMatch
  BY DEF Init, Shelf!Init, CarriesMatch
<1>2. UntouchedUntilBorn
  BY DEF Init, UntouchedUntilBorn
<1>3. NothingLost
  <2>1. Effects!Init
    BY SameSets DEF Init, Orders!Init, Effects!Init, Orders!NoTransitions,
       Effects!NoTransitions, Calls
  <2>2. \A c \in Calls : Effects!AllStarted(c)
    BY <2>1, SameSets, OrdersAssumed, Effects!AllStartedAtFirst
  <2> QED
    BY <2>2 DEF Init, NothingLost
<1>4. ShelfCounts
  BY DEF Init, Shelf!Init, ShelfCounts, Shelf!Stored
<1> QED
  BY <1>1, <1>2, <1>3, <1>4 DEF BalanceInv

LEMMA NextBalance == LendingInv /\ BalanceInv /\ [Next]_vars => BalanceInv'
<1> SUFFICES ASSUME LendingInv, BalanceInv, [Next]_vars PROVE BalanceInv'
  OBVIOUS
<1>1. CASE OrderStep
  <2>1. /\ UNCHANGED shelfVars
        /\ UNCHANGED <<carries, ended, applied>>
        /\ disturbed \subseteq disturbed'
    BY <1>1 DEF OrderStep, callVars
  <2>2. Effects!Working
    BY <1>1, StartCreateIsStep, BookCheckedIsStep, PlaceOrderIsStep, CancelOrderIsStep,
       UpdateStatusIsStep, StartReturnIsStep, FinishReturnIsStep, StartEffectsIsStep
    DEF OrderStep
  <2> QED
    BY <2>1, <2>2, OrderStepBalance
<1>2. ASSUME NEW h \in Handlers, OrderHandlerDies(h) PROVE BalanceInv'
  <2>1. /\ UNCHANGED shelfVars
        /\ UNCHANGED <<carries, ended, applied>>
        /\ disturbed \subseteq disturbed'
    BY <1>2 DEF OrderHandlerDies
  <2>2. Effects!HandlerDies(h)
    BY <1>2, HandlerDiesIsStep DEF OrderHandlerDies
  <2>3. ASSUME NEW c \in Calls, c.book \notin disturbed' PROVE h \notin Effects!Owing(c)
    BY <1>2, <2>3 DEF OrderHandlerDies, Effects!Owing, Effects!At, Orders!At
  <2> QED
    BY <2>1, <2>2, <2>3, OrderStepBalance
<1>3. CASE CatalogStep
  <2>1. UNCHANGED <<orderVars, callVars>>
    BY <1>3 DEF CatalogStep
  <2> QED
    BY <1>3, <2>1, CreateBooksBalance, ReadBookBalance, EditEndsBalance DEF CatalogStep
<1>4. CASE UNCHANGED vars
  <2>1. UNCHANGED <<shelfVars, carries, ended, applied, disturbed>> /\ UNCHANGED Effects!vars
    BY <1>4 DEF vars, orderVars, callVars, Effects!vars
  <2> QED
    BY <2>1, OrderStepBalance
<1> QED
  BY <1>1, <1>2, <1>3, <1>4, SendCallBalance, CallFailsBalance, CallAppliedBalance,
     CallAbortedBalance DEF Next

(* With nothing under way, what was applied is what was earned. *)
LEMMA QuietIsEarned ==
    ASSUME LendingInv, BalanceInv, NEW b \in BookIds \ disturbed, Quiet(b),
           NEW c \in Calls, c.book = b
    PROVE  applied[c] = Effects!Earned(c)
<1>1. spawned[c] - ended[c] = 0 /\ ended[c] = applied[c] /\ Effects!AllStarted(c)
  BY DEF Quiet, CallsOn, Outstanding, BalanceInv, NothingLost
<1>2. Effects!Owing(c) = {}
  BY DEF Quiet, Effects!Owing, Effects!At, Orders!At
<1>3. Effects!Cardinality(Effects!Owing(c)) = 0
  BY <1>2, OrdersAssumed, Effects!NoneOwes
<1>4. spawned[c] \in Nat /\ ended[c] \in Nat
  BY CountsAreNaturals DEF LendingInv
<1> QED
  BY <1>1, <1>3, <1>4 DEF Effects!AllStarted

(* The inventory balances, for any number of orders, copies, handlers and requests: *)
(* a book without background work left, of which no call was lost, refused or cut   *)
(* off and no two writes overlapped, shows on the shelf what its orders have left.  *)
THEOREM InventoryIsBalanced == Spec => []InventoryBalances
<1>1. ASSUME LendingInv, BalanceInv PROVE InventoryBalances
  <2> SUFFICES ASSUME NEW b \in BookIds \ (overlapped \cup disturbed), Shelf!Stored(b), Quiet(b)
               PROVE  books[b].available = books[b].total - TakenOut(b)
    BY DEF InventoryBalances
  <2> DEFINE left == [o \in OrderIds |-> 1 - tally[o].cancels - tally[o].returns]
             placed == {o \in OrderIds : orders[o] # NoOrder /\ b \in orders[o].books}
  <2>1. books[b].available = books[b].total - SumFunctionOnSet(Away(b), OrderIds)
    BY <1>1 DEF BalanceInv, ShelfCounts, BalanceOf
  <2>2. ASSUME NEW o \in OrderIds
        PROVE  Away(b)[o] = IF o \in placed THEN left[o] ELSE 0
    <3>1. Take(o, b) \in Calls /\ Put(o, b) \in Calls
      BY CallsOfOrders
    <3>2. /\ applied[Take(o, b)] = Effects!Earned(Take(o, b))
          /\ applied[Put(o, b)] = Effects!Earned(Put(o, b))
      BY <1>1, <3>1, QuietIsEarned DEF Take, Put
    <3>3. tally[o].cancels \in Nat /\ tally[o].returns \in Nat
      BY <1>1 DEF LendingInv, Effects!EffectsInv, Effects!Inv, Effects!TypeOK, Effects!Tally
    <3>4. Away(b)[o] = applied[Take(o, b)] - applied[Put(o, b)]
      BY DEF Away
    <3> QED
      BY <3>2, <3>3, <3>4 DEF Effects!Earned, Effects!Stored, Take, Put
  <2>3. placed \in SUBSET OrderIds /\ IsFiniteSet(OrderIds) /\ IsFiniteSet(placed)
    BY LendingAssumption, FS_Subset
  <2>4. \A o \in OrderIds : Away(b)[o] \in Int
    BY <1>1, AwayType DEF LendingInv
  <2>5. TakenOut(b) = SumFunctionOnSet(left, placed)
    BY DEF TakenOut
  <2> HIDE DEF left, placed
  <2>6. SumFunctionOnSet(Away(b), OrderIds) = SumFunctionOnSet(Away(b), placed)
    BY <2>2, <2>3, <2>4, SumOfNonzero
  <2>7. SumFunctionOnSet(Away(b), placed) = SumFunctionOnSet(left, placed)
    BY <2>2, <2>3, SumOfEquals
  <2> QED
    BY <2>1, <2>5, <2>6, <2>7
<1>2. Spec => []BalanceInv
  BY LendingInvHolds, InitBalance, NextBalance, PTL DEF Spec
<1> QED
  BY <1>1, <1>2, LendingInvHolds, PTL
------------------------------------------------------------------------------
(* Neither service does in the composition what it would not do alone: what  *)
(* is proved of each holds for the two together.                             *)
LEMMA StepsOfTheServices == LendingInv /\ [Next]_vars => OrdersStep /\ ShelfStep
<1> SUFFICES ASSUME LendingInv, [Next]_vars PROVE OrdersStep /\ ShelfStep
  OBVIOUS
<1>1. UNCHANGED orderVars => OrdersStep
  BY DEF orderVars, OrdersStep, Effects!vars
<1>2. UNCHANGED shelfVars => ShelfStep
  BY DEF shelfVars, ShelfStep, Stock!vars
<1>3. CASE OrderStep
  <2>1. Effects!Working
    BY <1>3, StartCreateIsStep, BookCheckedIsStep, PlaceOrderIsStep, CancelOrderIsStep,
       UpdateStatusIsStep, StartReturnIsStep, FinishReturnIsStep, StartEffectsIsStep
    DEF OrderStep
  <2> QED
    BY <1>2, <1>3, <2>1, OrdersAssumed, Effects!DeathApart DEF OrderStep, OrdersStep
<1>4. ASSUME NEW h \in Handlers, OrderHandlerDies(h) PROVE OrdersStep /\ ShelfStep
  BY <1>2, <1>4, HandlerDiesIsStep, OrdersAssumed, Effects!DeathApart
  DEF OrderHandlerDies, OrdersStep
<1>5. ASSUME NEW r \in Requests, NEW c \in Calls, SendCall(r, c) PROVE OrdersStep /\ ShelfStep
  <2>1. c.book \in BookIds /\ c.change \in Changes
    BY CallsOfOrders
  <2> QED
    BY <1>1, <1>5, <2>1, ReadQuantityIsStep DEF SendCall
<1>6. ASSUME NEW c \in Calls, CallFails(c) PROVE OrdersStep /\ ShelfStep
  BY <1>1, <1>2, <1>6 DEF CallFails
<1>7. ASSUME NEW r \in Requests, CallApplied(r) \/ CallAborted(r) PROVE OrdersStep /\ ShelfStep
  BY <1>1, <1>7, WriteQuantityIsStep, RequestFailsIsStep DEF CallApplied, CallAborted
<1>8. CASE CatalogStep
  BY <1>1, <1>8, CreateBooksIsStep, ReadBookIsStep, SaveBookIsStep, RequestFailsIsStep
  DEF CatalogStep, LendingInv
<1>9. CASE UNCHANGED vars
  BY <1>1, <1>2, <1>9 DEF vars
<1> QED
  BY <1>3, <1>4, <1>5, <1>6, <1>7, <1>8, <1>9 DEF Next

(* Order-service and book-service, each with its variables, run within their own *)
(* specifications: the background calls add no behaviour to either.              *)
THEOREM ServicesKeepTheirSpecs == Spec => Effects!Spec /\ Stock!Spec
<1>1. Init => Effects!Init /\ Stock!Init
  BY SameSets DEF Init, Orders!Init, Effects!Init, Orders!NoTransitions,
     Effects!NoTransitions, Calls, Shelf!Init, Stock!Init
<1>2. LendingInv /\ [Next]_vars => [Effects!Next]_(Effects!vars) /\ [Stock!Next]_(Stock!vars)
  BY StepsOfTheServices DEF OrdersStep, ShelfStep
<1> QED
  BY <1>1, <1>2, LendingInvHolds, PTL DEF Spec, Effects!Spec, Stock!Spec

(* So a borrower's order moves as the abstract ledger says also with book-service *)
(* behind it, and a book nobody overlapped on is changed atomically also by the   *)
(* calls of order-service.                                                        *)
THEOREM PromisesCarryOver == Spec => Effects!LedgerSpec /\ Stock!AtomicWhenSerial
<1>1. Effects!Spec => Effects!LedgerSpec
  BY OrdersAssumed, Effects!LedgerIsImplemented
<1>2. Stock!Spec => Stock!AtomicWhenSerial
  BY ShelfAssumed, Stock!SerialIsAtomic
<1> QED
  BY <1>1, <1>2, ServicesKeepTheirSpecs, PTL

=============================================================================
