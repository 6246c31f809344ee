SPECIFICATION Spec
CONSTANTS
    BookIds = {b1, b2}
    Requests = {r1, r2}
    Fields = {"title"}
    Texts = {"old", "new"}
    Blank = ""
    Totals <- MCTotals
    Changes <- MCChanges
    MaxInt = 3
    NoRow = NoRow
    Idle = Idle
SYMMETRY Symmetry
PROPERTY QuantityChangesAddUp
