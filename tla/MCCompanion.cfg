SPECIFICATION Spec
CONSTANTS
    None = None
    me = me
    other = other
    Nobody = Nobody
    Calls = {c1, c2, c3}
    Old = {old}
    Amounts = {10000, 100000}
    Accounts <- MCAccounts
    Me <- MCMe
    Tokens = {phone}
    MaxTokens = 1
    Senders = {c1, c2, c3}
    Sentences <- MCSentences
    YearDays = 4
    LeapDay = 2
    LeapYears = {1}
    Today <- MCToday
    ModelDates <- MCModelDates
    Rest = {"reminders"}
SYMMETRY Symmetry
INVARIANTS
    WipeComplete
    TasksAhead
    TokenOnOneAccount
    SubscriptionFigures
CHECK_DEADLOCK FALSE
