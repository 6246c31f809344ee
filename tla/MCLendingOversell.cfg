SPECIFICATION Spec
CONSTANTS
    b1 = b1
    BookIds = {b1}
    OrderIds = {o1, o2}
    Users = {ann}
    BookLists <- MCBookLists
    BorrowDays = {1}
    Decisions = {"APPROVED"}
    Handlers = {h1}
    DailyPenalty = 5
    MaxDay = 0
    MaxDecisions = 1
    NoOrder = NoOrder
    NoDate = NoDate
    Idle = Idle
    Requests = {r1, r2}
    Fields = {"title"}
    Texts = {"text"}
    Blank = ""
    Totals = {1}
    MaxInt = 3
    NoRow = NoRow
    NoCall = NoCall
SYMMETRY Symmetry
INVARIANT ApprovedWithinStock
