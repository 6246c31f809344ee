SPECIFICATION Spec
CONSTANTS
    b1 = b1
    b2 = b2
    BookIds = {b1, b2}
    OrderIds = {o1}
    Users = {ann, bob}
    BookLists <- MCBookLists
    BorrowDays = {1}
    Decisions = {"PENDING", "APPROVED", "BORROWED", "CANCELED", "OVERDUE"}
    Handlers = {h1, h2}
    DailyPenalty = 5
    MaxDay = 2
    MaxDecisions = 2
    NoOrder = NoOrder
    NoDate = NoDate
    Idle = Idle
SYMMETRY Symmetry
PROPERTY CanceledIsFinal
