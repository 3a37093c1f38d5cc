SPECIFICATION RemindersSpec
CONSTANTS
    MonthLengths <- MCMonthLengths
    Starts <- MCStarts
    Bodies <- MCBodies
    Requests = {r1, r2}
    MaxPayments = 2
    None = None
SYMMETRY Symmetry
INVARIANTS RemindersTypeOK OnSchedule
PROPERTY PaymentsKept
