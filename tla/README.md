# Verification of the library management system

TLA+ models of the services in `src/services`, the TLC runs that check them and the
proofs that TLAPS checks. The implementation is a handful of small services, each correct
enough on its own for one request at a time; what is hard is what happens when requests
overlap, when a process dies between two steps, and when a call or a message that nobody
waits for is lost. The models are about that.

## The system

| Part | State | Operations that change it | Talks to |
|---|---|---|---|
| book-service (Go, gRPC, 2 replicas) | table `books` | CreateBooks, UpdateBook, DeleteBooks, UpdateBookQuantity | PostgreSQL |
| order-service (Go, gRPC, 2 replicas) | tables `orders`, `order_books` | CreateOrder, CancelOrder, UpdateOrderStatus | PostgreSQL; book-service (check before, stock calls in the background after); user-service (reads); event publisher |
| event publisher (in order-service) | an AMQP connection; none for SQS | Publish | RabbitMQ (development, test) or SQS (production) |
| notification-service (Python, 1 replica) | the messages it holds | two consumer loops, `process_message` | RabbitMQ or SQS, user-service, book-service, SES |
| user-service (Go, gRPC, 2 replicas) | tables `users`, `user_tokens` | Register, Login, UpdateProfile, UpdateVIPAccount, DeleteUsers, RefreshToken | PostgreSQL |
| gateway-service (Go, HTTP, 2 replicas) | rate-limit counters in Redis | middlewares, translation of HTTP to gRPC | all services |

What is hard about each, and the properties that make it correct:

* **book-service.** `UpdateBookQuantity` and `UpdateBook` read a row and later write values
  computed from it. The `FOR UPDATE` of the first is outside any transaction and holds
  nothing. Right: the stock stays between zero and the total, the total never changes,
  and a write of a handler that had the book to itself is applied to the row as it is.
  Wrong, and shown so: overlapping changes add up.
* **order-service.** Status changes are single statements, but what follows a commit
  (stock calls, event) is started by `go` and is lost with the process or with a panic.
  Managers may set any status at any time. Right: a cancellation passes once, books are
  released only for a committed cancellation or return, events tell only what was
  committed, and a return is never overcharged.
* **the two together.** The stock calls run under a context that grpc cancels when the
  order handler has answered. Right: what reaches the shelf was earned by an order; where
  nothing was lost and nothing overlapped, the inventory balances. Wrong: approvals stay
  within the stock.
* **publisher and notification-service.** Connections break with and without being
  noticed, holds on messages end early, the consumer is killed in mid-message, the production
  queue deletes what lay there for a day. Right: an event that reached the broker stays there
  until it is settled, over SQS until the retention period ends if that is sooner; the consumer
  settles it in the end unless it expires, nothing is acknowledged without its outcome, each
  fault costs at most one mail too many. Wrong: a status change is mailed.
* **user-service.** `UpdateProfile` saves a whole row it read earlier, `Register` inserts
  what it found free earlier, and two replicas that start together create the same default
  account. Right: a name and an address lead to one account, roles never change, a decision
  of an administrator holds unless an edit was under way, no token is made for an account
  that is gone, and every replica comes up in the end. Wrong: how long a refresh token lasts.
* **gateway-service: the front.** The limiter is a counter with an expiry that all replicas
  share, before anybody is authenticated; `/ready` takes replicas out of rotation and has to
  take them back without a request to wake a connection up. Right: nobody gets more than one
  less than twice the limit through in a window, only an excess is refused, refusals end, an
  outage of Redis closes the gateways before it lifts the limit for long, and they return.
* **gateway-service: a request.** A token is believed until it expires, roles are asked for
  at the gateway and again by the services, a field passes four layers that each have an idea
  of what may be missing. Right: the two role checks agree, what a caller is let in for can
  succeed, nothing that is missing gets past a binding whose errors count, access ends with the
  lifetime of a token unless it is proved anew, and a deleted user's access fades.

## Modules

| Module | Models | Composition |
|---|---|---|
| `BookStore` | book-service | |
| `OrderLedger` | what order-service promises about one order (abstract) | |
| `OrderService` | order-service | implements `OrderLedger` (`LedgerSpec`) |
| `Lending` | the background calls between the two | `INSTANCE OrderService`, `INSTANCE BookStore` |
| `Notification` | publishers, broker, notification-service | |
| `UserService` | user-service | |
| `RateLimit` | the gateway's limiter and Redis | |
| `Readiness` | rotation, `/ready` and the gateway's connections | `EXTENDS RateLimit` |
| `GatewayApi` | tables: routes, DTOs, mapper, checks, outcomes, status codes | |
| `Gateway` | a request from its arrival to its answer | `EXTENDS GatewayApi` |
| `SumTheorems` | nothing: theorems about the sums of the community module `Functions` | |
| `*_proofs` | theorems and proofs | each extends the module it is named after; `Lending_proofs` also instantiates `OrderService_proofs` and `BookStore_proofs`; it and `Readiness_proofs` extend `SumTheorems` |
| `MC*` | small instances for TLC | |

**BookStore.** `books` is the table. A handler between its SELECT and its write is in
`request`, with the row it saw: `ReadQuantity`/`WriteQuantity` are the two halves of
`UpdateAvailableQuantity` (`book_repo.go`), `ReadBook`/`SaveBook` those of `UpdateBook`
(`book_service.go`; gorm's `Save` writes all columns and inserts a missing row).
`CreateBooks` and `DeleteBooks` are one statement each. `RequestFails` is any way a handler
ends before its write. int32 addition wraps. `born` and `overlapped` are history.

**OrderService.** `orders` holds both tables. A handler is `checking` (CreateOrder waiting
for book-service), `returning` (between `FindByID` and `UpdateReturnInfo`) or `committed`
(between the commit and the `go` statements). `StartEffects` starts the stock calls
(`spawned`) and the event (`emitted`); `HandlerDies` is an error answer, a panic caught by
`RecoveryInterceptor`, a canceled context or a crash. The clock counts days: the penalty is
5 for each whole day over the due date. `tally` counts committed transitions (history).

**OrderLedger.** An order's status, the rounds of restocking it has earned and those that
were started. `OrderService` implements it: an earned round is a committed handler with
release calls, a started round one release call per book of the order.

**Lending.** A started call waits until a request of book-service takes it up (`SendCall`,
which is `ReadQuantity`), is applied (`CallApplied`), or ends otherwise (`CallFails`:
refused or never arrived; `CallAborted`: its write failed). `disturbed` remembers the books
where something went wrong; `applied` counts what reached the shelf. A call whose int32 sum
exceeds the total is cut off there, also when the sum exceeds it because it wrapped: a book
created with the least int32 as its quantity is the one case.

**Notification.** `channel` is the publisher's connection: `closed` when the publisher knows,
`silent` when it does not. At the broker a message is in `queue`, `inflight` or `settled`.
`consumer` is the process and its connection, `fetched` what it holds, `work` the message in
`process_message`. Actions with `Rabbit`/`Sqs` in their guard belong to one of the two
modes; `transport` is chosen once. The brokers, SES and user-service are external: they
are the answers the code has to expect. A RabbitMQ queue is durable and its messages
persistent, as declared by the code, and survive a restart of the broker. An SQS queue deletes
what is not settled within its retention period (`RetentionEnds`; 86400 s in
`docs/aws-managed-services.md`) and may hand out a settled message once more (`DeliveredAgain`,
which also stands for a SendMessage that was resent). Both count as faults.

**UserService.** `users` and `tokens` are the tables. A handler is at the statement it will
send next (`pc`): two look-ups and the write of `Register` (`StartRegister`, `CheckEmail`,
`Insert`) and of `UpdateProfile` (`ReadProfile` to `SaveProfile`, gorm's `Save` again), the
look-up and the store of `Login` and `RefreshToken`. `UpdateVIPStatus` and `DeleteUsers` are one
statement each. `Admitted` is the two unique indexes. A replica runs `SeedDefaultUsers` before it
serves; when an insert is refused `main` ends and Kubernetes starts it again. `BornExpired` is
the int64 product of the configured duration and `time.Minute`, computed in digits. `born`,
`decided`, `gone` and `overlapped` are history.

**RateLimit** and **Readiness.** `counter` is the key of each client in Redis; a request is one
action because Redis runs the script as one step. `FailOpen` is a script that failed, or whose
answer was lost after it ran; `CountMore` is the client library sending it again, at most
`MaxAttempts` times in all. `Exempt` is the code's test for administrators, of a role that nobody
has set yet (`RoleSeen`). Redis may evict a key (`Evict`), as its deployment configures. `connection`
is the state grpc reports for each connection of a gateway; `readinessCheck` refuses only
"failing". Probes come once per tick, and `FailureThreshold` failures take a gateway out.

**GatewayApi** and **Gateway.** The tables say per operation what each layer knows of it.
A field of a payload is absent, empty, broken, odd, null or good; `Refused` is the binding,
`Panics` the mapper's crash on a null in a list of books, `Message` the mapper, `Incomplete` the
check of the gRPC handler, `Outcomes` the service, `Status` the status of the answer. Tables are
joined with `++`, defined there because the prover has no definition of the `@@` of module TLC. A slot of `Gateway` is a request: `Arrive`,
`Authenticate`, `Refresh`, `Handle403` or `Handle`, and one of the `Serve` actions.
What a service does here is only what later requests can tell: accounts that come and go,
and tokens. The races inside the user-service are those of `UserService`.

## Runs

Passing runs:

| Run | Bounds | Distinct states | What it shows |
|---|---|---|---|
| `book_store` | 2 books, 2 handlers, int32 = -4..3, totals {-1, 2, 3}, changes {-1, 1, 2}, 2 texts | 323,250 | bounds, totals, atomicity of serial handlers |
| `order_service` | 1 order, 2 users, 2 handlers, 3 days, 2 manager decisions, a list of two books and one with a duplicate | 1,481,540 | the races on one order and the ledger |
| `lending` | 1 book of 1 copy or of the least int32, 2 orders, 1 order handler, 2 requests of book-service, 1 decision each | 1,558,199 | the inventory end to end |
| `notification` | 1 event of each type, both transports, 3 faults | 348,826 | delivery, duplicates, liveness |
| `user_service` | 3 accounts, 1 default account, 2 names, 2 handlers, 2 replicas, 2 tokens, 5 requests | 519,914 | races on accounts, starts of replicas, liveness |
| `gateway_front` | 2 clients, 1 gateway, 1 service, limit 2, window 2 ticks, 3 attempts, 2 probes | 655,476 | limiter, outage of Redis, rotation, liveness |
| `gateway` | an ADMIN and a MANAGER, tokens of 2 ticks, every operation with every payload beside Login and DeleteUsers | 521,207 | tokens, roles, the layers of a request, liveness |

Why the bounds are enough: two handlers are what a race needs, and the theorems remove the
bound where they apply. `MaxInt = 3` makes additions wrap (3 + 1, 3 + 2). In
`order_service` one order suffices because no operation looks at two orders; two decisions
allow reopening, a second return and a cancellation after it; three days let a day pass
before, in and after a return. `lending` has the two orders that compete for one copy, and
two requests that overlap, one of which may be an edit; `Decisions` is `{"CANCELED"}` there,
the one decision (RETURNED apart) with a consequence for the books. Its book may be created at
any time; books that come later than others are in the theorems only, since a second book puts
the run out of reach (`book_store` has two). `MaxFaults = 3` allows two faults while the
consequences of another are still open. In `user_service` two handlers and
five requests allow a delete or a VIP decision inside an edit of the same account, and two
replicas the race of their starts. In `gateway_front` a limit and a window of two are the
least for which a window has a first and a last request and a tail that meets the next
window; go-redis makes four attempts by default, and three already take a counter of limit two
from nothing past its limit. In `gateway` one slot is used for any operation while the other logs users in and
deletes them; a lifetime of two ticks has a last fifth and a time before it. Its two roles
are the two that routes tell apart; a REGISTERED_USER is refused by more routes and nothing else.

Runs that end in a violation, each a disagreement between the code and what the repository says:

| Run | The repository says | The trace |
|---|---|---|
| `lost_quantity_change` | quantity limits hold under concurrent load (`concurrency_order_test.go`) | two changes read the same row, the second write discards the first |
| `canceled_order_revived` | no arrow leaves CANCELLED (`order-service/README.md`) | cancel, then a manager's update |
| `approved_beyond_stock` | "Enforcement happens when orders are APPROVED" (`concurrency_order_test.go`) | two orders for one copy are placed and approved |
| `refresh_tokens_born_expired` | JWT_EXP_MINS is the token expiry duration (`user-service/README.md`) | with the 240 minutes of every deployment a token is handed out that has already expired |
| `status_update_not_mailed` | "every state transition dispatches the correct email" (`notification_order_flow_test.py`) | an `order.status_updated` event without `user_id` is acknowledged, no mail |

`notification` and `user_service` do not check deadlock: with all events settled and no faults
left, or all requests of the bound made, the system has nothing to do.

**Fairness** is assumed for four things. In `Notification!FairSpec` the consumer is a loop that
catches every exception and that Kubernetes restarts, so it never stops for good
(`WF(ConsumerStep)`); the broker comes back, and hands out again what nobody holds (its
redelivery and visibility timeout). Faults are finitely many (`MaxFaults`). The assumption
includes that user-service and SES answer, if only with an error: `get_profile` sets no
deadline, and a user-service that hangs would stop the only consumer. What is promised is that an
event is settled or expires: nothing makes the consumer faster than a day. The publisher gets no
fairness: nothing promises that an event is ever published. In `UserService!FairSpec` Kubernetes
starts a replica that is down and its start runs on (`WF(ReplicaStep)`); requests come as they
like. In `Readiness!ReadySpec` time passes, with its probes (`WF(TickAndProbe)`), and grpc tries
a failed connection again (`WF(Reconnect)`); no request has to come. In `Gateway!FairSpec` time
passes (`WF(Tick)`), which is all that ends a token.

## Proofs

Checked by `tlapm` for all values of the constants that satisfy the assumption the module
names. The assumptions give ranges (`BorrowDays` are positive, a token lives at least one tick),
say that the markers `NoRow`, `NoOrder`, `NoDate`, `NoUser`, `NoCall`, `Idle`, `Blank` are
none of the values they stand beside, and that the handlers of order-service, the requests of
book-service and the ids of orders (uuids) are finitely many. TLC evaluates each of them in the runs of its module.

| Theorem | States |
|---|---|
| `BookStore_proofs!TypeCorrect` | `Spec => []TypeOK` |
| `BookStore_proofs!StockIsWithinBounds` | `Spec => []StockWithinBounds` |
| `BookStore_proofs!TotalIsKept` | `Spec => []TotalNeverDrifts` |
| `BookStore_proofs!SerialIsAtomic` | `Spec => AtomicWhenSerial` |
| `OrderService_proofs!TypeCorrect` | `Spec => []TypeOK` |
| `OrderService_proofs!CancelsAreEarned` | `Spec => []CanceledOncePerOpening` |
| `OrderService_proofs!ChargesAreBounded` | `Spec => []NeverOvercharged` |
| `OrderService_proofs!CallsAreEarned` | `Spec => []StockCallsAreEarned` |
| `OrderService_proofs!EmittedEventsAreEarned` | `Spec => []EventsAreEarned` |
| `OrderService_proofs!LedgerIsImplemented` | `Spec => LedgerSpec` |
| `Lending_proofs!TypeCorrect` | `Spec => []TypeOK` |
| `Lending_proofs!ShelfCallsAreEarned` | `Spec => []AppliedCallsAreEarned` |
| `Lending_proofs!InventoryIsBalanced` | `Spec => []InventoryBalances` |
| `Lending_proofs!ServicesKeepTheirSpecs` | `Lending`'s `Spec` implies those of `OrderService` and `BookStore` |
| `Lending_proofs!PromisesCarryOver` | so it implies `LedgerSpec` and `AtomicWhenSerial` |
| `UserService_proofs!TypeCorrect` | `Spec => []TypeOK` |
| `UserService_proofs!NamesAreUnique` | `Spec => []OneAccountPerName` |
| `UserService_proofs!RolesAreKept` | `Spec => []RolesNeverDrift` |
| `UserService_proofs!DecisionsAreKept` | `Spec => []DecisionsHold` |
| `UserService_proofs!DeletedGetNoTokens` | `Spec => NoTokensForDeleted` |
| `Notification_proofs!TypeCorrect` | `Spec => []TypeOK` |
| `Notification_proofs!NothingIsLostOnTheWay` | `Spec => []NothingVanishes` |
| `Notification_proofs!SettledHaveAReason` | `Spec => []SettledForAReason` |
| `Notification_proofs!MailsAreBounded` | `Spec => []MailsNeedFaults` |
| `Notification_proofs!LossesAreExplained` | `Spec => LostOnlyWhenAway` |
| `Gateway_proofs!TypeCorrect` | `Spec => []TypeOK` |
| `Gateway_proofs!SessionsEnd` | `Spec => AccessEnds` |
| `Gateway_proofs!RolesDoAgree` | `Spec => []RolesAgree` |
| `Gateway_proofs!GoodRequestsCanSucceed` | `Spec => []RequestsCanSucceed` |
| `Gateway_proofs!OnlyEmptyOrOddIsRefused` | `Spec => []NothingMissingGetsThrough` |
| `Readiness_proofs!TypeCorrect` | `ReadySpec => []ReadyTypeOK` |
| `Readiness_proofs!OutagesClose` | `ReadySpec => []OutageClosesGateways` |
| `Readiness_proofs!FrontIsLimiter` | `ReadySpec` implies the `Spec` of `RateLimit` |
| `Readiness_proofs!LimitIsKept` | `ReadySpec => []LimitHolds` |
| `Readiness_proofs!OnlyExcessIsRefused` | `ReadySpec => []OnlyExcessRefused` |

*BookStore.* The bounds are not inductive: a write may come from a row read long ago. `Inv`
adds `PendingSound`: the row every pending handler saw was itself within its bounds and
had the total the book was created with, and a quantity change was sufficient for that
row. The lemmas `AddInt32Type`, `NewQuantityInBounds` and `EditedKeepsStock` say what
the write does with such a row. Ids are never reused, so `CreateBooks` cannot meet a pending
handler (`PendingIsBorn`). For atomicity, `Alone` says that a handler on a book not
marked `overlapped` is the only one and that the row it saw is still the row.

*OrderService.* `TallySound` strengthens `CanceledOncePerOpening`: a PENDING order was
canceled at most as often as it was reopened, which leaves room for the one cancellation
the conditional UPDATE lets through. `ReturningSound` says that the due date a return read
is the due date the order still has; the day it asks about lies before the day it records
(`FinishReturn`), and `ChargeGrows` does the rest. `CommitStepInv` shows once, for the new
row and tally, what the four committing actions have in common.

*What an order sets off* (second half of `OrderService_proofs`). `StockCallsAreEarned` counts what was started together with what committed
handlers still owe, and is inductive for that reason: a commit raises the bound of exactly the
calls and the event it owes, the go statements move them from one side of the sum to the other
(`OneLeaves`), a death drops them. The refinement of `OrderLedger` needs `LoadsFit`: what a handler
owes is a call for every book of one stored order, or nothing, and a stored order has at least
one book and never changes them. So an earned round is one handler (`OneRound`), and starting its
calls raises the count of whichever book `Rounds` looks at by one.

*Lending.* The invariants of the two services are taken over through instances of their proof
modules: `...IsStep` shows that a step of order-service in the composition is one of
`OrderService`, `...Keeps` that the steps of book-service keep the invariant of `BookStore`. New is
`CallsCounted`: a call was applied at most as often as it ended, and no more requests carry
it than it is outstanding. From there `applied <= ended <= spawned`, and `spawned` is earned. Since every
step is one of each service or leaves it alone, what is proved of a service alone holds for the two
together (`PromisesCarryOver`).

*The inventory.* `InventoryBalances` speaks of the quiet moments only; three invariants connect
them. `CarriesMatch`: a request that carries a call is about to make just that change, so with
`Alone` of `BookStore_proofs` to a row that is still the row. `ShelfCounts`: at every moment an
unmarked book shows its total less the sum over all orders of what their calls took and put back;
an applied call moves one summand (`OneMoreAway`), and `UncutChange` says that a sum that was
sufficient and is not cut off did not wrap. `NothingLost`: on an undisturbed book every ended call
was applied, and every call an order has earned was started or is owed by a living handler
(`NothingIsForgotten` of `OrderService_proofs`, the bounds of `StockCallsAreEarned` as equalities).
The proof found that the model took a wrapped sum for one that is not cut off; on a book of the
least int32 the inventory does not balance then, and the run `lending` has such a book now.

*UserService.* `HeldSound` is about the copies handlers hold: the row a profile edit will write
back has the role of the account, and is up to date unless the account is `overlapped`. Ids are
handed out in order (`Dense`), so a new account cannot get an id that is still held (`Fresh`).

*Notification.* `Placed` puts a message in one place, or says that it has expired, which only a
message of SQS can. `MailsSound` bounds the mails sent by the
faults, after adding the chances of one more mail: a copy in the consumer's hands that has not
reached SES, and a delivery still to come. A fault adds one chance; an answer that cannot be given
because SQS is away uses the chance its outage added.

*The sums.* A sum of the community modules is a recursive function that takes the indices out of
a finite set one by one. The library's induction theorems take an operator, so `SubsetInduction`
states induction over the subsets of a finite set with a set instead: the set of those subsets for
which the claim holds. From it follow that the order does not matter (`SumWithout`), and from that
what the invariants need: `SumOfUpdate`, `SumOfParts`, `SumOfNonzero`, `SumIsMonotonic`,
`SumOfRenamed`.

*Gateway.* `TokensAge`: what a token has left and the time since its user last logged in or had
a token refreshed add up to the lifetime at most. It does not look at what the user-service
answers to a refresh, so `AccessEnds` is as true of a service that has lost its panic (TLC agrees,
with `JWTRefresher` naming the user). `IssuesSound` says that tokens are made for users only. The
three properties of the layers are about what a slot holds: `SlotsSound` says that a call on its
way was let in with the role it forwards and with a payload the binding passed. What is left is a
statement about the tables, for every operation (`TablesFit`: `RolesFit`, `FieldsFit`,
`OutcomesFit`), which the prover goes through row by row.

*Readiness.* `OutageIsNoticed`: every gateway has failed at least as many probes in a row as
the outage has lasted.

*The limiter.* What a client got through is remembered by its age, and `LimitHolds` bounds the sum
over the ages of every stretch of a window's length. `LimiterInv` follows the key in Redis: as long
as it is there its window began `WindowAge` ago, and the requests let through since then add up to
the counter (`InWindow`), at most the limit; those let through earlier within reach had a window of
their own, whose last request is not the first of the next (`Earlier`, `EarlierFits`), hence one less
than twice the limit. There are three cases: the client has no key (`NoKeyFits`); its window opened
since the last fault of Redis, so that the counter is exact and the first request of the window is
known (`CalmWindowFits`); its window opened before that fault, and the counter holds at least one
request that is no longer looked at (`OldWindowFits`). A tick makes everything one older, which is `SumOfRenamed`.
The theorems are about `ReadySpec`, and hold for it because `FrontIsLimiter`.

Only model-checked:

* Everything temporal with fairness (`EveryEventSettles`, `DeletedUsersFade`, `GatewaysReturn` and
  the other liveness properties), which is out of the prover's reach.
* The disagreements shown by the runs that end in a violation; each is one trace.

Every invariant and every action property that a passing run checks is also a theorem.

## Not modelled

* Who an order belongs to is not checked when it is read: order-service asks for no role and
  no owner in GetOrder. `GatewayApi` has it as the code does.
* CORS, request ids and metrics: headers from a fixed table, without state. (The allowed
  headers lack `X-Refresh-Token`, so no browser of another origin can send one.)
* Configuration, logging and start-up other than the default accounts; manifests are used only
  for replicas, probes and restarts.
* Generated protocol code, passwords and their hashes, the wording of mails and errors.
* The arithmetic of pages (`page * limit` in `book_repo.go`) and the order of equal rows in a
  list: lists are read-only and no other part relies on them.
* `DeleteRefreshToken` of the user-service's repository: nothing calls it.
* In `Lending` days, deletions of books and manual stock corrections: `BookStore` and
  `OrderService` have them, and their theorems hold with them.
* The order of a borrower's mails: the code promises none.
* In `Readiness` each gateway is probed once per tick and in the same instant; the phase between
  the probes of two replicas changes no property, which are stated per gateway.
* What book-service answers: a quantity change of a book that was deleted since it was read
  affects no row and answers success all the same. The table is as it was, and that is what
  `BookStore` shows.
* The bodies of the gateway's successful answers, which nothing in the system reads.

Disagreements between the code and its documents that were met on the way and have no run of
their own:

* No session is ever prolonged. `auth_middleware_test.go:290` expects a new access token in the
  header after a request in the sliding window; the gateway's refresher sends no user id,
  `user_handler.go:220` asserts that it is a string, and the call panics. The run
  `refresh_tokens_born_expired` shows a second reason why a refresh fails.
* `ratelimit_test.go:96` has administrators pass the limiter. The test sets the role by hand; in
  `router.go:68` the limiter runs before anybody is authenticated, sees no role and exempts nobody.
* `order_service_dto.go:7-19` declares `books`, `cancel_reason` and `user_id` for orders. The mapper
  never fills the books or the reason, and order-service fills the borrower for GetOrder only.
* `service_outage_test.go` rules out status 500 for a client's mistake, and a status update of an
  order that does not exist answers 500, as does a null in a list of new books.
* `gateway-service/README.md` has `/ready` check all upstreams, and a connection that was never
  tried, or whose service went away unnoticed, passes.

## Plan

1. Done: all components that keep state, their compositions where one waits for the other.
2. Done: proofs of the safety properties of the passing runs, sums included, and of the refinements.
3. `Lending` with deletions of books and manual stock corrections.
4. `Lending` with `Notification`: a borrower is told of what happened to the order.
5. Abstract specifications of `Notification` and `UserService`, refined as `OrderLedger` is.
