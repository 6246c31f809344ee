----------------------------- MODULE GatewayApi -----------------------------
(***************************************************************************)
(* What the layers between an HTTP request and a service know of each      *)
(* operation, as tables: the routes and who they are for, the DTOs with    *)
(* their binding rules, the handlers, the mapper's messages, the checks of *)
(* the gRPC handlers, what the services may answer and the HTTP status the *)
(* answer becomes.                                                         *)
(*                                                                         *)
(* A field of a request has one of six values:                             *)
(*   absent - not sent, or the zero of its type (Go does not tell them     *)
(*            apart)          empty  - a list without elements             *)
(*   broken - of another type odd    - of its type, but meaningless: an    *)
(*            address without @, an id that is not a uuid, a negative      *)
(*            number, an unknown status, role or column, a list with an    *)
(*            incomplete element                                           *)
(*   null   - a list of objects with a null among them          good       *)
(***************************************************************************)
EXTENDS Integers

\* What both tables hold, the first where they differ.
f ++ g == [x \in DOMAIN f \cup DOMAIN g |-> IF x \in DOMAIN f THEN f[x] ELSE g[x]]

Values == {"absent", "empty", "broken", "odd", "good"}

------------------------------------------------------------------------------
(* The router. *)

Routes == [
    public     |-> {"Register", "Login", "ListBooks", "GetBook"},
    user       |-> {"GetProfile", "UpdateProfile",
                    "CreateOrder", "ListMyOrders", "GetOrder", "CancelOrder"},
    management |-> {"ListUsers", "CreateBooks", "DeleteBook", "UpdateBook",
                    "UpdateBookQuantity", "CheckBookAvailability",
                    "ListAllOrders", "UpdateOrderStatus"},
    admin      |-> {"UpdateVIPAccount", "DeleteUsers"}]

Ops == UNION {Routes[group] : group \in DOMAIN Routes}

Roles == {"REGISTERED_USER", "MANAGER", "ADMIN"}

\* Mutation of RequireAdmin: managers are let in as well.
RequireAdminLax == {"ADMIN", "MANAGER"}

RequireAdmin          == {"ADMIN"}
RequireAdminOrManager == {"ADMIN", "MANAGER"}

\* The roles the middlewares of a route let in.
LetIn(op) == CASE op \in Routes.admin      -> RequireAdmin
               [] op \in Routes.management -> RequireAdminOrManager
               [] OTHER                    -> Roles

------------------------------------------------------------------------------
(* The DTOs: the rule each field is bound with.                            *)
(*   path, query, page - from the URL: text of the path, text or a number  *)
(*                       of the query                                      *)
(*   pathbody          - from the path, unless the JSON body that is bound *)
(*                       to the same struct later has a field of that name *)
(*   the others        - from the JSON body, named after the binding tag   *)

None == [f \in {} |-> "good"]

UserDTOs == [
    Register         |-> [username |-> "required", password |-> "required",
                          email |-> "email", phone_number |-> "optional"],
    Login            |-> [identifier |-> "required", password |-> "required"],
    GetProfile       |-> None,
    UpdateProfile    |-> [username |-> "optional", email |-> "optional",
                          phone_number |-> "optional"],
    UpdateVIPAccount |-> [id |-> "pathbody", is_vip |-> "optional"],
    ListUsers        |-> [page |-> "page", sort_by |-> "query", role_filter |-> "query"],
    DeleteUsers      |-> [user_ids |-> "list"]]

BookDTOs == [
    GetBook               |-> [identifier |-> "path"],
    ListBooks             |-> [page |-> "page", sort_by |-> "query",
                               search_query |-> "query", category |-> "query"],
    CreateBooks           |-> [books_payload |-> "dive"],
    UpdateBook            |-> [id |-> "pathbody", title |-> "optional", isbn |-> "optional"],
    DeleteBook            |-> [id |-> "path"],
    CheckBookAvailability |-> [id |-> "path"],
    UpdateBookQuantity    |-> [id |-> "pathbody", change_amount |-> "optional"]]

OrderDTOs == [
    CreateOrder       |-> [book_ids |-> "nonempty", borrow_days |-> "required"],
    GetOrder          |-> [id |-> "path"],
    ListMyOrders      |-> [page |-> "page", sort_by |-> "query", filter_status |-> "query"],
    CancelOrder       |-> [id |-> "pathbody", cancel_reason |-> "optional"],
    ListAllOrders     |-> [page |-> "page", sort_by |-> "query", filter_status |-> "query",
                           search_user_id |-> "query"],
    UpdateOrderStatus |-> [id |-> "pathbody", new_status |-> "optional", note |-> "optional"]]

DTOs == UserDTOs ++ BookDTOs ++ OrderDTOs

\* What a client can send under a rule, and what the binding refuses of it.
Sendable(rule) ==
    CASE rule = "path"  -> {"odd", "good"}
      [] rule = "query" -> {"absent", "odd", "good"}
      [] rule = "dive"  -> Values \cup {"null"}
      [] rule \in {"list", "nonempty"} -> Values
      [] OTHER          -> Values \ {"empty"}

Rejected(rule) ==
    CASE rule \in {"path", "query"}      -> {}
      [] rule \in {"page", "optional"}   -> {"broken"}
      [] rule \in {"required", "list", "pathbody"} -> {"broken", "absent"}
      [] rule \in {"email", "dive"}      -> {"broken", "absent", "odd"}
      [] rule = "nonempty"               -> {"broken", "absent", "empty"}

\* The requests for an operation: one field at most is not as it should be.
Good(op)     == [f \in DOMAIN DTOs[op] |-> "good"]
Payloads(op) ==
    {Good(op)} \cup UNION {{[Good(op) EXCEPT ![f] = v] : v \in Sendable(DTOs[op][f])} :
                              f \in DOMAIN DTOs[op]}

------------------------------------------------------------------------------
(* The handlers of the gateway: what they refuse beyond the binding (here  *)
(* "needs", fields that must not be absent), what of it they put up with   *)
(* ("ignores"), whether they forward the caller's role, and their answer   *)
(* to a success.                                                           *)

Plain(ok)      == [needs |-> {}, ignores |-> {}, forwards |-> FALSE, ok |-> ok]
Forwarding(ok) == [Plain(ok) EXCEPT !.forwards = TRUE]

UserHandlers == [Register |-> Plain(201), Login |-> Plain(200),
                 GetProfile |-> Plain(200), UpdateProfile |-> Plain(200)]

\* Mutation of AdminUserHandlers: the metadata is forgotten.
AdminUserHandlersWithoutRole ==
    [UpdateVIPAccount |-> Plain(200), ListUsers |-> Plain(200), DeleteUsers |-> Plain(204)]

AdminUserHandlers == [UpdateVIPAccount |-> Forwarding(200), ListUsers |-> Forwarding(200),
                      DeleteUsers |-> Forwarding(204)]

PublicBookHandlers == [GetBook |-> Plain(200), ListBooks |-> Plain(200)]

ManagedBookHandlers == [
    CreateBooks           |-> Forwarding(201),
    UpdateBook            |-> Forwarding(200),
    DeleteBook            |-> Forwarding(204),
    CheckBookAvailability |-> Forwarding(200),
    UpdateBookQuantity    |-> [Forwarding(200) EXCEPT !.needs = {"change_amount"}]]

OrderHandlers == [
    CreateOrder  |-> Plain(201),
    GetOrder     |-> Plain(200),
    ListMyOrders |-> Plain(200),
    CancelOrder  |-> [Plain(200) EXCEPT !.ignores = {"id", "cancel_reason"}]]

\* Mutation of ManagedOrderHandlers: the check for an empty status is missing.
ManagedOrderHandlersWithoutCheck ==
    [ListAllOrders |-> Plain(200), UpdateOrderStatus |-> Plain(200)]

ManagedOrderHandlers == [
    ListAllOrders     |-> Plain(200),
    UpdateOrderStatus |-> [Plain(200) EXCEPT !.needs = {"new_status"}]]

Handlers == UserHandlers ++ AdminUserHandlers ++ PublicBookHandlers ++ ManagedBookHandlers
            ++ OrderHandlers ++ ManagedOrderHandlers

\* The handler answers 400 before it calls anything.
Refused(op, payload) ==
    \/ \E f \in DOMAIN payload \ Handlers[op].ignores : payload[f] \in Rejected(DTOs[op][f])
    \/ \E f \in Handlers[op].needs : payload[f] = "absent"

\* MapPbCreateBooksRequest reads the fields of every element, and a null passes
\* the binding: it panics, which gin.Recovery makes a 500.
Panics(op, payload) == op = "CreateBooks" /\ payload.books_payload = "null"

------------------------------------------------------------------------------
(* The mapper: the field of the request each field of the message is taken *)
(* from; "caller" is the user id that the authentication left.             *)

UserMessages == [
    Register         |-> [username |-> "username", password |-> "password",
                          email |-> "email", phone_number |-> "phone_number"],
    Login            |-> [identifier |-> "identifier", password |-> "password"],
    GetProfile       |-> [id |-> "caller"],
    UpdateProfile    |-> [id |-> "caller", username |-> "username", email |-> "email",
                          phone_number |-> "phone_number"],
    UpdateVIPAccount |-> [id |-> "id", is_vip |-> "is_vip"],
    ListUsers        |-> [page |-> "page", sort_by |-> "sort_by", role |-> "role_filter"],
    DeleteUsers      |-> [ids |-> "user_ids"]]

BookMessages == [
    GetBook               |-> [identifier |-> "identifier"],
    ListBooks             |-> [page |-> "page", sort_by |-> "sort_by",
                               search_query |-> "search_query", category |-> "category"],
    CreateBooks           |-> [books |-> "books_payload"],
    UpdateBook            |-> [id |-> "id", title |-> "title", isbn |-> "isbn"],
    DeleteBook            |-> [ids |-> "id"],
    CheckBookAvailability |-> [book_id |-> "id"],
    UpdateBookQuantity    |-> [book_id |-> "id", change_amount |-> "change_amount"]]

OrderMessages == [
    CreateOrder       |-> [user_id |-> "caller", book_ids |-> "book_ids",
                           borrow_days |-> "borrow_days"],
    GetOrder          |-> [order_id |-> "id"],
    ListMyOrders      |-> [user_id |-> "caller", page |-> "page", sort_by |-> "sort_by",
                           filter_status |-> "filter_status"],
    CancelOrder       |-> [order_id |-> "id", user_id |-> "caller",
                           cancel_reason |-> "cancel_reason"],
    ListAllOrders     |-> [page |-> "page", sort_by |-> "sort_by",
                           filter_status |-> "filter_status",
                           search_user_id |-> "search_user_id"],
    UpdateOrderStatus |-> [order_id |-> "id", new_status |-> "new_status", note |-> "note"]]

Messages == UserMessages ++ BookMessages ++ OrderMessages

\* An unknown name becomes the zero of the enumeration, which reads as absent.
toPbRole(v)        == IF v = "odd" THEN "absent" ELSE v
toPbOrderStatus(v) == IF v = "odd" THEN "absent" ELSE v

\* The value of field f of the message for this request.
Mapped(op, payload, f) ==
    LET from  == Messages[op][f]
        value == IF from = "caller" THEN "good"
                 ELSE IF from \in DOMAIN payload THEN payload[from] ELSE "absent"
    IN  CASE f = "role"                           -> toPbRole(value)
          [] f \in {"filter_status", "new_status"} -> toPbOrderStatus(value)
          \* What does not parse leaves the field at its zero, or as the path set it.
          [] from \in Handlers[op].ignores /\ value = "broken" ->
                IF DTOs[op][from] = "pathbody" THEN "good" ELSE "absent"
          [] OTHER                                -> value

Message(op, payload) == [f \in DOMAIN Messages[op] |-> Mapped(op, payload, f)]

------------------------------------------------------------------------------
(* The gRPC handlers of the services: the roles they ask for, whether they *)
(* panic without a role, the fields they refuse to miss and those that     *)
(* must make sense.                                                        *)

Check(demands) == [roles |-> Roles \cup {"none"}, asserts |-> FALSE, demands |-> demands, positive |-> {}]

UserChecks == [
    Register      |-> Check({"username", "password", "email"}),
    Login         |-> Check({"identifier", "password"}),
    GetProfile    |-> Check({"id"}),
    UpdateProfile |-> Check({"id"})]

AdminUserChecks == [
    UpdateVIPAccount |-> [Check({"id"}) EXCEPT !.roles = {"ADMIN"}, !.asserts = TRUE],
    ListUsers        |-> [Check({}) EXCEPT !.roles = {"ADMIN", "MANAGER"}, !.asserts = TRUE],
    DeleteUsers      |-> [Check({"ids"}) EXCEPT !.roles = {"ADMIN"}, !.asserts = TRUE]]

PublicBookChecks == [GetBook |-> Check({"identifier"}), ListBooks |-> Check({})]

\* CheckAvailability and UpdateBookQuantity are for SYSTEM as well, the role
\* order-service calls them with.
ManagedBookChecks ==
    LET Managed(demands, others) ==
            [Check(demands) EXCEPT !.roles = {"ADMIN", "MANAGER"} \cup others]
    IN  [CreateBooks           |-> Managed({"books"}, {}),
         UpdateBook            |-> Managed({"id"}, {}),
         DeleteBook            |-> Managed({"ids"}, {}),
         CheckBookAvailability |-> Managed({"book_id"}, {"SYSTEM"}),
         UpdateBookQuantity    |-> Managed({"book_id"}, {"SYSTEM"})]

\* order-service asks for no role.
OrderChecks == [
    CreateOrder       |-> [Check({"user_id", "book_ids", "borrow_days"})
                              EXCEPT !.positive = {"borrow_days"}],
    GetOrder          |-> Check({"order_id"}),
    ListMyOrders      |-> Check({"user_id"}),
    ListAllOrders     |-> Check({}),
    UpdateOrderStatus |-> Check({"order_id", "new_status"}),
    CancelOrder       |-> Check({"order_id", "user_id"})]

Checks == UserChecks ++ AdminUserChecks ++ PublicBookChecks ++ ManagedBookChecks ++ OrderChecks

Incomplete(op, message) ==
    \/ \E f \in Checks[op].demands  : message[f] \in {"absent", "empty"}
    \/ \E f \in Checks[op].positive : message[f] = "odd"

------------------------------------------------------------------------------
(* What a service can answer to a message it accepts.  Internal is what is *)
(* left when the database fails, and when it is handed an ill-formed uuid  *)
(* or the name of no column.                                               *)

SortFails(message) == "sort_by" \in DOMAIN message /\ message.sort_by = "odd"

\* The columns of the ids of users are uuids.  Login is looked up by the model
\* of the gateway.
UserOutcomes(op, message) ==
    CASE op = "Register"         -> {"OK", "AlreadyExists", "Internal"}
      [] op = "GetProfile"       -> {"OK", "NotFound", "Internal"}
      [] op = "UpdateProfile"    -> {"OK", "NotFound", "AlreadyExists", "Internal"}
      [] op = "UpdateVIPAccount" -> IF message.id = "odd" THEN {"Internal"}
                                    ELSE {"OK", "NotFound", "Internal"}
      [] op = "ListUsers"        -> IF SortFails(message) THEN {"Internal"} ELSE {"OK", "Internal"}
      [] op = "DeleteUsers"      -> IF message.ids = "odd" THEN {"Internal"} ELSE {"OK", "Internal"}

\* The id of a book is text: an ill-formed one is one that is not found.  Deleting
\* it deletes nothing.
BookOutcomes(op, message) ==
    CASE SortFails(message) -> {"Internal"}
      [] op \in {"ListBooks", "CreateBooks", "DeleteBook"} -> {"OK", "Internal"}
      [] op = "GetBook" -> {"OK", "NotFound", "Internal"}
      [] op \in {"UpdateBook", "CheckBookAvailability", "UpdateBookQuantity"} ->
            {"NotFound", "Internal"} \cup (IF "odd" \in {message[f] : f \in DOMAIN message \cap {"id", "book_id"}}
                                           THEN {} ELSE {"OK"})

\* FindByID of orders takes every error for a missing order; UpdateStatus
\* reports a missing order as Internal, unless the new status is RETURNED.
OrderOutcomes(op, message) ==
    CASE op = "CreateOrder"       -> {"FailedPrecondition", "Internal"} \cup
                                        (IF message.book_ids = "odd" THEN {} ELSE {"OK"})
      [] op = "GetOrder"          -> IF message.order_id = "odd" THEN {"NotFound"}
                                     ELSE {"OK", "NotFound", "Internal"}
      [] op = "ListMyOrders"      -> IF SortFails(message) THEN {"Internal"} ELSE {"OK", "Internal"}
      [] op = "ListAllOrders"     -> {"Unknown"} \cup
                                        (IF SortFails(message) \/ message.search_user_id = "odd"
                                         THEN {} ELSE {"OK"})
      [] op = "UpdateOrderStatus" -> {"NotFound", "Internal"} \cup
                                        (IF message.order_id = "odd" THEN {} ELSE {"OK"})
      [] op = "CancelOrder"       -> {"FailedPrecondition"} \cup
                                        (IF message.order_id = "odd" THEN {} ELSE {"OK", "Internal"})

------------------------------------------------------------------------------
(* The clients of the gateway pass a message on and keep the code of the   *)
(* status they get back when they wrap the error.                          *)

UserServiceClient  == DOMAIN UserMessages
BookServiceClient  == DOMAIN BookMessages
OrderServiceClient == DOMAIN OrderMessages

Outcomes(op, message) ==
    CASE op \in UserServiceClient  -> UserOutcomes(op, message)
      [] op \in BookServiceClient  -> BookOutcomes(op, message)
      [] op \in OrderServiceClient -> OrderOutcomes(op, message)

\* The HTTP status of an error of a service.
FromGRPCError(code) ==
    CASE code = "AlreadyExists"      -> 409
      [] code = "NotFound"           -> 404
      [] code = "InvalidArgument"    -> 400
      [] code = "Unauthenticated"    -> 401
      [] code = "PermissionDenied"   -> 403
      [] code = "DeadlineExceeded"   -> 504
      [] code = "Unavailable"        -> 503
      [] code = "ResourceExhausted"  -> 429
      [] code = "Aborted"            -> 409
      [] code = "FailedPrecondition" -> 400
      [] OTHER                       -> 500

Status(op, code) == IF code = "OK" THEN Handlers[op].ok ELSE FromGRPCError(code)
=============================================================================
