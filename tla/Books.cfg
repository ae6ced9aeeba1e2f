CONSTANTS
    Requests = {r1, r2}
    Time = {t1}
    MaxDocs = 2
    MaxPays = 2
    MaxTotal = 2
    Today = 1
    MaxBalance = 2
SPECIFICATION Spec
SYMMETRY Symmetry
CONSTRAINT MoneyOrHours
INVARIANTS BooksAgree NumbersInSequence BilledOnce
PROPERTIES PeriodsHold IssuedStands
CHECK_DEADLOCK FALSE
