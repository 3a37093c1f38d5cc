------------------------------- MODULE Advice -------------------------------
(***************************************************************************)
(* What a user is told they can spend.  Two advisers read the same         *)
(* records: the assistant (getFinancialSnapshot and its replies,           *)
(* src/src/modules/assistant/services/rule-based-assistant.service.ts) and *)
(* the purchase check beside every deal (getUserFinancialProfile and       *)
(* calculatePurchaseCheck, src/src/modules/deals/deals.service.ts).        *)
(*                                                                         *)
(* Each reads the transactions, then the budgets, then the bills: three    *)
(* awaited calls, between which the user records money, sets budgets, adds *)
(* and pays bills from another device.  Both read a bounded number of the  *)
(* newest transactions.                                                    *)
(*                                                                         *)
(* An amount is a small number, a question about affordability its price,  *)
(* a deal its price and the expense category its own is mapped to.         *)
(* Wording, the item of a question and its search button's label are left  *)
(* out.                                                                    *)
(***************************************************************************)
EXTENDS Undefined, Integers, Sequences, FiniteSetsExt

CONSTANTS
    Categories,           \* of expenses and budgets
    Prices,               \* of expenses, and asked about
    Incomes,              \* amounts of incomes
    Limits,               \* of budgets
    Dues,                 \* amounts of bills
    Bills,                \* bill reminders there can be
    SnapshotLimit,        \* ALL_TRANSACTIONS_LIMIT of the assistant
    ProfileLimit,         \* limit of the deals' profile
    FewExpenses,          \* below this many in the month, habits are taken from all
    LastMonth,            \* bound on the months that pass
    MaxTransactions       \* bound on the transactions kept

\* The category of an income is never read.
Transaction ==
    [type : {"income"}, category : {None}, amount : Incomes, month : 1..LastMonth]
    \cup [type : {"expense"}, category : Categories, amount : Prices, month : 1..LastMonth]

\* What has been read for it, for the chat of all categories together and for a deal of
\* its own: budget is None until it is read.
QuestionFrom(adviser, C) ==
    [from : {adviser}, price : Prices, category : C, net : Int, income : Nat, spent : Nat,
     budget : Nat \cup {None}, regular : BOOLEAN]

Question == QuestionFrom("chat", {None}) \cup QuestionFrom("deal", Categories)

Answer == [from : {"chat", "deal"}, price : Prices, category : Categories \cup {None},
           verdict : {"safe", "caution", "danger", "SAFE", "WAIT"},
           upTo : Nat, overBudget : BOOLEAN]

\* Amounts are not negative; there are months.
ASSUME AdviceAssumption ==
    /\ IsFiniteSet(Categories) /\ IsFiniteSet(Bills)
    /\ Prices \subseteq Nat /\ Incomes \subseteq Nat /\ Limits \subseteq Nat /\ Dues \subseteq Nat
    /\ SnapshotLimit \in Nat /\ ProfileLimit \in Nat /\ FewExpenses \in Nat
    /\ LastMonth \in Nat \ {0}
    /\ None \notin Nat \cup Question \cup Answer

VARIABLES
    txs,        \* the user's transactions in the order they were created
    budget,     \* limit of each category, 0 without a budget
    bills,      \* pending amount of each reminder, 0 if there is none or it is paid
    month,      \* the current month
    question,   \* the question being answered with what has been read for it
    answer,     \* history: the last answer, None once something happened that spoils it
    sound       \* history: nothing of the kind has happened since the question was asked

adviceVars == <<txs, budget, bills, month, question, answer, sound>>

AdviceTypeOK ==
    /\ txs \in Seq(Transaction)
    /\ budget \in [Categories -> Nat]
    /\ bills \in [Bills -> Nat]
    /\ month \in 1..LastMonth
    /\ question \in Question \cup {None}
    /\ answer \in Answer \cup {None}
    /\ sound \in BOOLEAN

----------------------------------------------------------------------------
\* The transactions as they are listed.
AtLeastZero(n) == IF n > 0 THEN n ELSE 0

\* Newest date first, of one date the one created last.
Newer(i, j) ==
    \/ txs[i].month > txs[j].month
    \/ txs[i].month = txs[j].month /\ i > j

Listed(limit) ==
    {i \in DOMAIN txs : Cardinality({j \in DOMAIN txs : Newer(j, i)}) < limit}

Total(I) == MapThenSumSet(LAMBDA i : txs[i].amount, I)

Of(I, type) == {i \in I : txs[i].type = type}

InMonth(I) == {i \in I : txs[i].month = month}

SumOver(f) == MapThenSumSet(LAMBDA c : f[c], DOMAIN f)

\* Mutant: in a month with few expenses those of all months are taken instead.
CategorySpendInstead(c) ==
    LET seen == Of(Listed(ProfileLimit), "expense")
        mine == {i \in seen : txs[i].category = c}
    IN IF Cardinality(InMonth(seen)) < FewExpenses THEN Total(mine \ InMonth(mine))
       ELSE Total(InMonth(mine))

\* Of the month, and of all time once more if there are few in the month.
CategorySpend(c) ==
    LET seen == Of(Listed(ProfileLimit), "expense")
        mine == {i \in seen : txs[i].category = c}
    IN Total(InMonth(mine))
       + (IF Cardinality(InMonth(seen)) < FewExpenses THEN Total(mine) ELSE 0)

NetOf(I) == Total(Of(I, "income")) - Total(Of(I, "expense"))

\* The first read of getFinancialSnapshot and of getUserFinancialProfile.
SnapshotQuestion(price) ==
    LET seen == Listed(SnapshotLimit)
    IN [from |-> "chat", price |-> price, category |-> None, net |-> NetOf(seen),
        income |-> Total(InMonth(Of(seen, "income"))),
        spent |-> Total(InMonth(Of(seen, "expense"))), budget |-> None, regular |-> TRUE]

ProfileQuestion(price, c) ==
    LET seen == Listed(ProfileLimit)
    IN [from |-> "deal", price |-> price, category |-> c, net |-> NetOf(seen),
        income |-> 0, spent |-> CategorySpend(c), budget |-> None,
        regular |-> Cardinality(InMonth(Of(seen, "expense"))) >= FewExpenses]

UpcomingBills == SumOver(bills)

----------------------------------------------------------------------------
\* getFinancialSnapshot, and what replyAffordability makes of it.
CurrentBalance(q) == AtLeastZero(q.net)

AfterBills(q) == AtLeastZero(CurrentBalance(q) - UpcomingBills)

EffectiveBudget(q) == IF q.budget > 0 THEN q.budget ELSE q.income

BudgetRemaining(q) == AtLeastZero(EffectiveBudget(q) - q.spent)

\* Mutant: with a budget the bills are forgotten.
SafeSpendingLimitByBudget(q) ==
    IF EffectiveBudget(q) > 0 THEN BudgetRemaining(q) ELSE AfterBills(q)

SafeSpendingLimit(q) ==
    IF EffectiveBudget(q) > 0 /\ BudgetRemaining(q) < AfterBills(q)
    THEN BudgetRemaining(q) ELSE AfterBills(q)

Verdict(q) ==
    IF CurrentBalance(q) = 0 THEN "caution"
    ELSE IF q.price > CurrentBalance(q) THEN "danger"
    ELSE IF q.price > SafeSpendingLimit(q) THEN "caution" ELSE "safe"

\* The price up to which the reply's button looks for deals, 0 without a button.
ButtonPrice(q) ==
    IF CurrentBalance(q) = 0 \/ SafeSpendingLimit(q) = 0 THEN 0
    ELSE IF Verdict(q) = "safe" THEN q.price ELSE SafeSpendingLimit(q)

ReplyAffordability(q) ==
    [from |-> "chat", price |-> q.price, category |-> None, verdict |-> Verdict(q),
     upTo |-> ButtonPrice(q), overBudget |-> FALSE]

\* calculatePurchaseCheck.  A budget is only looked at when the limit allows the price.
PurchaseCheck(q) ==
    LET affordable == q.price <= CurrentBalance(q) /\ q.price <= AfterBills(q)
        overBudget == affordable /\ q.budget > 0 /\ q.spent + q.price > q.budget
        safe       == affordable /\ ~ overBudget
    IN [from |-> "deal", price |-> q.price, category |-> q.category,
        verdict |-> IF safe THEN "SAFE" ELSE "WAIT",
        upTo |-> IF safe THEN q.price ELSE 0, overBudget |-> overBudget /\ q.regular]

----------------------------------------------------------------------------
AdviceInit ==
    /\ txs = << >>
    /\ budget = [c \in Categories |-> 0]
    /\ bills = [b \in Bills |-> 0]
    /\ month = 1
    /\ question = None
    /\ answer = None
    /\ sound = FALSE

\* What the user changes meanwhile.  Spoils: an answer does not hold beyond it.
Spoils ==
    /\ answer' = None
    /\ sound' = FALSE

Earn(a) ==
    /\ Len(txs) < MaxTransactions
    /\ txs' = Append(txs, [type |-> "income", category |-> None, amount |-> a,
                           month |-> month])
    /\ UNCHANGED <<budget, bills, month, question, answer, sound>>

Spend(c, a) ==
    /\ Len(txs) < MaxTransactions
    /\ txs' = Append(txs, [type |-> "expense", category |-> c, amount |-> a,
                           month |-> month])
    /\ Spoils
    /\ UNCHANGED <<budget, bills, month, question>>

\* A transaction leaves the list by deletion.
Delete(i) ==
    /\ txs' = SubSeq(txs, 1, i - 1) \o SubSeq(txs, i + 1, Len(txs))
    /\ Spoils
    /\ UNCHANGED <<budget, bills, month, question>>

SetBudget(c, limit) ==
    /\ budget[c] # limit
    /\ budget' = [budget EXCEPT ![c] = limit]
    /\ Spoils
    /\ UNCHANGED <<txs, bills, month, question>>

\* A bill that is added while a question is open is still read; after the answer it is not.
AddBill(b, a) ==
    /\ bills[b] = 0
    /\ bills' = [bills EXCEPT ![b] = a]
    /\ answer' = None
    /\ UNCHANGED <<txs, budget, month, question, sound>>

\* Paid or removed.
SettleBill(b) ==
    /\ bills[b] > 0
    /\ bills' = [bills EXCEPT ![b] = 0]
    /\ UNCHANGED <<txs, budget, month, question, answer, sound>>

NextMonth ==
    /\ month < LastMonth
    /\ month' = month + 1
    /\ Spoils
    /\ UNCHANGED <<txs, budget, bills, question>>

\* getFinancialSnapshot and getUserFinancialProfile, call by call.
Ask(q, limit) ==
    /\ question = None
    /\ question' = q
    /\ answer' = None
    /\ sound' = (Len(txs) <= limit)
    /\ UNCHANGED <<txs, budget, bills, month>>

ReadBudgets ==
    /\ question # None /\ question.budget = None
    /\ question' = [question EXCEPT !.budget = IF question.from = "chat" THEN SumOver(budget)
                                               ELSE budget[question.category]]
    /\ UNCHANGED <<txs, budget, bills, month, answer, sound>>

ReadBills ==
    /\ question # None /\ question.budget # None
    /\ answer' = IF ~ sound THEN None
                 ELSE IF question.from = "chat" THEN ReplyAffordability(question)
                 ELSE PurchaseCheck(question)
    /\ question' = None
    /\ sound' = FALSE
    /\ UNCHANGED <<txs, budget, bills, month>>

AdviceNext ==
    \/ \E a \in Incomes : Earn(a)
    \/ \E c \in Categories, a \in Prices : Spend(c, a)
    \/ \E i \in DOMAIN txs : Delete(i)
    \/ \E c \in Categories, limit \in Limits \cup {0} : SetBudget(c, limit)
    \/ \E b \in Bills, a \in Dues : AddBill(b, a)
    \/ \E b \in Bills : SettleBill(b)
    \/ NextMonth
    \/ \E price \in Prices : Ask(SnapshotQuestion(price), SnapshotLimit)
    \/ \E price \in Prices, c \in Categories : Ask(ProfileQuestion(price, c), ProfileLimit)
    \/ ReadBudgets
    \/ ReadBills

AdviceSpec == AdviceInit /\ [][AdviceNext]_adviceVars

----------------------------------------------------------------------------
\* What is true of the records, whatever an adviser has read.
Net == NetOf(DOMAIN txs)

SpentThisMonth(C) ==
    Total({i \in InMonth(Of(DOMAIN txs, "expense")) : txs[i].category \in C})

\* An amount that either adviser calls safe, or lets its button search for, leaves every
\* pending bill payable from the balance.  Bills are read last, so those added or paid
\* while the question is worked out count.  Income earned meanwhile does no harm; money
\* spent does, and so does a history longer than what is read.
BillsStayPayable ==
    answer # None /\ answer.upTo > 0 => Net - answer.upTo >= UpcomingBills

\* What the assistant calls safe keeps the month within all budgets together, and what
\* the purchase check calls SAFE within the budget of its category.  The check gives the
\* budget as its reason to wait only when the budget would be exceeded, in a month that
\* has enough expenses for habits not to be added to it.
BudgetAdviceRight ==
    answer # None =>
        /\ answer.from = "chat" /\ answer.upTo > 0 /\ SumOver(budget) > 0
              => SpentThisMonth(Categories) + answer.upTo <= SumOver(budget)
        /\ answer.from = "deal" /\ budget[answer.category] > 0 =>
              LET exceeded == SpentThisMonth({answer.category}) + answer.price
                                > budget[answer.category]
              IN (answer.verdict = "SAFE" => ~ exceeded) /\ (answer.overBudget => exceeded)
=============================================================================
