# TrackKaro backend: a TLA+ model

This directory holds a TLA+ model of the TrackKaro backend (NestJS over MongoDB through
Mongoose; the code is under `src/src/`), the TLC configurations that check it on small
instances, and TLAPS proofs of its most important properties for every instance.

The server keeps no state between requests that matters here; everything is in MongoDB
collections. A handler is a sequence of awaited database calls, each atomic on one document
(or one `updateMany`/`deleteMany`), and there are no transactions. So what is hard about this
code is what happens *between* the calls of a handler: other requests of the same user (two
devices, a double tap, a retry), requests of other members of a group, and, as the server runs
on serverless instances, being frozen or stopped. The models take every awaited call that
changes or reads shared state as a step of its own.

## Inventory

| Component (under `src/src/modules/`) | State | Operations | What makes it correct | Model |
|---|---|---|---|---|
| Groups: shared expenses (`groups/groups.service.ts`) | expense documents with splits, a link per confirmed split | addExpense, updateExpense, deleteExpense, confirmExpenseSplit, remove | a confirmed share has exactly one copy in its owner's spending, the copy follows the expense | `GroupShares` |
| Groups: ledger (same file) | payer, total, splits | addExpense, updateExpense, recordSettlement, deleteExpense | splits add up to the total | `GroupLedger` |
| Groups: balances (same file, `groups/services/debt-simplification.service.ts`) | none (computed) | getBalances, simplify, pairwise | both payment lists settle the same balances | `DebtSimplification`, `GroupBalances` |
| Groups: membership | members, invite code, links to users | create, joinGroup, update, healing of old groups, remove | a member with expenses is never removed, who is linked stays linked | `GroupMembership` |
| Transactions (`transactions/`) | transaction documents | create, update, remove, syncGroupShare, removeGroupShares | budget check and copies see a consistent spending | in `GroupShares`, `BudgetAlerts`, `Advice` |
| Budgets (`budgets/`) | limit, last alerted month and level | upsert, checkThreshold | one alert per level and month, none missed | `BudgetAlerts` |
| Bill reminders (`reminders/`) | due and alert date, frequency, status, payments | create, update (pay), undoPayment, remove | payments and due date in step, no drift, no payment lost | `Reminders` |
| Auth (`auth/`) | refresh tokens in families, reset codes | register, login, refresh, logout, logoutAll, forgot/resetPassword | a session has one valid token, what was signed out stays so, a reset ends the old sessions, a code is good for one reset and few attempts | `Sessions` |
| Notifications (`notifications/`, `users/`) | inbox, push tokens per user | create, register/removePushToken, dispatch, mark, clear | a device belongs to one account, tokens are bounded | `PushTokens` |
| Khata, Tasks, Subscriptions | one document per entry | create, update, toggle, settle all, redundancy analysis | what is removed stays removed, the annual cost fits amount and cycle | `Records` |
| Savings, reminder statistics | none (computed) | metrics | the saving promised is the same wherever it is shown, up to rounding | in `Records` |
| Account wipe (`account/`) | all collections | deleteAllData | an acknowledged wipe left nothing | `Companion` |
| Deals: the user's feed (`deals/deals.service.ts`) | deals per user, tracked or not, with a target price | list, discover, track, drop alert, crawler | no refresh loses a tracked deal, one batch per category, a drop is announced | `DealFeed` |
| Deals: search (`deals/engine/`, `deals/providers/`) | offers of all users, price history, search log | search, cache, ingestion, low labels | an answer is of the search asked, an offer has its latest price, a low is one | `DealSearch` |
| Assistant: advice (`assistant/services/rule-based-assistant.service.ts`), purchase check | none (computed) | affordability, purchase check | what is called safe leaves the bills payable and the budget kept | `Advice` |
| Assistant: chat and voice (`assistant/assistant.service.ts`, `task-parser.ts`) | none; writes through other services | reply, create task, process voice | a task is due where the user meant it, what is confirmed is stored | `Companion` |
| Providers, mail, health, config, common | - | HTTP and formatting | - | not modelled |

How they interact: `GroupsService` creates, updates and deletes documents of
`TransactionsService` (copies of shares); `TransactionsService.create` starts
`BudgetsService.checkThreshold` *without awaiting it*, which aggregates the transactions and
creates a notification; nearly every handler ends in `NotificationsService.create`, on the outcome
of which no handler depends (`Companion` and `DealFeed`, which are about it, have it as steps). The
assistant reads every collection and writes through the services of tasks, transactions and khata;
a marketplace search starts a refresh of the user's feed and does not wait for it; the wipe calls
one deletion per collection, all at once.

### Mongoose as the models take it

The versioning rules decide most of the races, so they are stated once here; the modules model
them by what they decide (a copy of a document is `stale` once the document's `__v` has moved).

- `save()` sends the modified paths only; a path set to the value it has is not modified.
- Assigning a whole array (`expense.splits = ...`) or `pop()` sends the whole array, makes the
  save conditional on `__v` and increments it. `push()` sends a `$push`, which increments `__v`
  and is *not* conditional. Scalar paths are written unconditionally.
- A save of a document that is gone throws. `updateOne`, `updateMany`, `deleteOne`, `deleteMany`
  are atomic per document and pass over what is not there.

## Modules

`Undefined` declares `None`, the absent value of the modules that have one; `Deals` what the two
modules about deals share (products, queries, providers). In modules that are proved about together
the specification has a name of its own (`FeedSpec`, `RemindersSpec`, `AdviceSpec`; `Spec` is that of
`DealSearch` and `Companion`).

### GroupShares (run `group_shares`, `group_shares_double`; proofs in GroupSharesProofs)

State: `expense` (documents with, per member, the amount `owed` and the `link`, the
`confirmedTransactionId`), `tx` (transactions that are copies of shares), `req` (what each
request in flight holds in memory). The handlers of `groups.service.ts` map to actions one per
awaited call: `confirmExpenseSplit` is ConfirmRead, ConfirmCreate, ConfirmSave; `updateExpense`
is UpdateRead, UpdateSave, UpdateSync (one `syncGroupShare` per confirmed member), UpdateRemove
(`removeGroupShares`); `deleteExpense` is DeleteRead, DeleteDoc, DeleteRemove. AddExpense and
WipeGroup are one step each, EditOwnTransaction and DeleteOwnTransaction are the owner's
changes to a copy. Abort cuts a request off at any call. Three history variables (`acked`,
`abandoned`, `undisturbed`) only serve the properties.

- *LinkIsOwnCopy*: a link points to the copy made from this very share by an acknowledged
  confirmation, never to one the server removed.
- *LinkStable* (action property): a confirmed split keeps its transaction through any edit.
- *AckedCopyTracked*: no acknowledged copy is forgotten while the expense exists.
- *ShareFollowsExpense*: where the requests on an expense ran one at a time, the copies show
  exactly its shares.
- *NeverDoubleCounted* (violated, see Findings).

Bounds: one expense, two members, two transactions, two requests, two amounts, two titles. Two
requests on one expense are what a lost update or a version conflict takes; two members what
dropping one of them takes; a third transaction id adds repetition only.
Deadlock is not checked: ids are never reused, so the instance stops when they are used up.

### DebtSimplification (run `debt_simplification`; proofs in DebtSimplificationProofs)

`DebtSimplificationService.simplify` as the loop it is: the sorted lists of debtors and
creditors, the two pointers, the remaining amounts. Members with equal amounts may come in any
order. `left` is a history variable, the balances once the payments listed so far are made. The
balances need not add up to zero: `getBalances` passes on what the split tolerance lets in.
Checked for all balances of four members from -3 to 3: *NothingOverpaid*, *OneSideSettled*,
*FewPayments*, and the liveness property *Terminates*. Its fairness (`FairSpec`, weak fairness of
the loop's steps) is justified by the call being synchronous: Node runs it to its end before
anything else.

### GroupLedger (checked in run `group_balances`; proofs in GroupBalancesProofs)

The same expense handlers seen for their figures: payer, total, splits, `isSettlement`. An update
is two steps, UpdateRead (checks and computes the modified paths) and UpdateSave; deletion,
addition and settlement are one database write each. *SplitsAddUp* says that where no two updates
of an expense overlapped its splits fit its total within the tolerance.

### GroupBalances (run `group_balances`; proofs in GroupBalancesProofs)

Extends GroupLedger and instantiates DebtSimplification for the call of `simplify`. Net balances
and pairwise debts are operators on the ledger. *SimplifiedLeavesDrift* and *PairwiseLeavesDrift*
say that paying either list leaves exactly what totals have over splits; *SettleUpReducesDebt*
that a recorded payment takes its amount off the pair's debt and the two balances and nothing
else. Bounds: three members, three expenses, so that a debt chain, a two-way pair and a
settlement meet; two updates in flight, so that they overlap; tolerance 1 with a correction that
uses it. The constraint `FewAtOnce` keeps requests that are in flight from meeting a full ledger;
the cfg names it, and without it the instance does not end in the time a run has.

### BudgetAlerts (run `budget_alerts`; proofs in BudgetAlertsProofs)

One user, one category. Creating a transaction and its check are two strands of a request: Insert
is the awaited insert, and ReadBudget, SumMonth, Notify, SaveBudget are the calls of the detached
`checkThreshold`, which interleave with it and with other requests. Upsert, DeleteBudget,
EditTransaction, DeleteTransaction and NewMonth happen in between. CheckFails is an error (which
`create` swallows) or a frozen instance. *NoRepeatedAlert*: as long as the checks of a budget did
not overlap and none was cut off between notification and save, a month sees at most "near" and
then "exceeded". *AlertRaised*: an undisturbed creation that takes the month to a level leaves
that level, or a higher one, on record, whichever of insert and sum came first.
Bounds: two transactions of 4 against limits 5 and 10, so that one is near (4/5), two are near
(8/10) or beyond (8/5) and one is nothing (4/10); two requests; two months.

### Reminders (run `reminders`; proofs in PlannerProofs)

One bill. `update` and `undoPayment` are a read step, which computes the modified paths, and Save;
Fails cuts them off. Dates are a month and a day over a sequence of month lengths; `addMonths`
with its anchor day and clamp, `addDays` and `daysBetween` are operators. *OnSchedule*: after any
number of payments and undos, one at a time, the bill is due exactly that many periods after the
first date, on the first date's day or the last of a shorter month, with the same lead, and the
payments are the periods left behind. *PaymentsKept* (action property): under any overlap the
payments only grow at the end by one or lose the last one to an undo that has seen it.
A period can be recorded twice by
overlapping payments (see Findings), which the property allows for. Bounds: January to June (31, 28, 31, 30, ... days), a monthly bill
at the 31st, a quarterly one whose alert lies after its due date, a single one; two requests;
payments are not begun on a bill with two (an overlap makes three).

### Sessions (run `sessions`; proofs in SessionsProofs)

One registered account: its refresh tokens, its password (by how often it was reset), its reset
codes, and the requests in flight. `login` is LoginRead, LoginIssue; `refresh` is RefreshRead,
then RefreshIssue (`issueTokenPair` stores the child), RefreshMark (the save of the presented
record, and the answer), or RefreshKill when the record was revoked before; `forgotPassword` is
ForgotDelete, ForgotCreate; `resetPassword` is ResetRead, then ResetDrop, ResetCount, or ResetSave
(password), ResetDelete (code), ResetRevoke (sessions). `logout` and `logoutAll` are one write
each. ExpireToken and ExpireCode stand for the TTL indexes; a record past its expiry that is not
removed yet is refused like one that is gone, so the two are not told apart. A token is named by
its record, a family by its first token; a guess at a code is right or wrong.

- *OneTokenPerSession*: where the refreshes of a family came one after the other and none was cut
  off before its RefreshMark, the family has one live token at most, whatever sign-outs,
  expiries and reuse detections came in between.
- *SignedOutStaysOut*: a family that was signed out has no live token again, unless a refresh
  had been accepted before and stored its child after. (Such a child is a gap in the code:
  `logoutAll` and the reuse detection do not reach it.)
- *ResetEndsSessions*: a session begun with an earlier password is left only until the reset
  comes to its sign-out (it is lost if the reset is cut off there) or by a login or refresh that
  straddled it.
- *CodeLimits*: where the attempts at a code came one after the other, at most
  `MAX_VERIFY_ATTEMPTS` were wrong and at most one changed the password. Overlapping attempts
  are counted once (`record.attempts += 1` is written as a value), which the condition leaves out.

Bounds: three tokens, so that a child has a child or two families stand side by side; two requests
(a race takes two); one code and two attempts (the code has five; what matters is the limit itself
and the attempt after it); passwords after the first reset are not told apart. Deadlock is not
checked: tokens and codes are never reused, so the instance stops when they are used up.

### DealFeed (run `deal_feed`; proofs in DealProofs)

The deals of one user. A refresh is Discover (or DiscoverLegacy, or the Sync a search starts),
Search (a provider answers, or the next one is asked), Clear (`deleteMany` of the untracked deals
it replaces) and Insert. A click is ReadDeal, then ToggleSave (`toggleTrack`) or DropSave
(`simulateDrop`). The crawler is CrawlRead, which lists the tracked deals that have reached their
target, and CrawlNotify for each. RefreshFails, ClickFails and CrawlFails cut them off; Wipe is the
user's deletion. A deal is named by the refresh that inserted it and its product; deals are only
ever written by paths, so a save keeps what other requests wrote to other fields (`Saved`).

- *AckedTrackingKept*: a deal whose tracking was confirmed is in the feed and tracked until a
  toggle ends it or the data is wiped.
- *OneBatchPerCategory*: where no two refreshes were between deletion and insertion at once, the
  untouched deals of a category come from one refresh.
- *DropAnnounced* (liveness): a tracked deal at or below its target is announced, or ceases to be
  one. Fairness: `CrawlRead` is weakly fair, as `onModuleInit` sets an interval and the host calls
  the same method by a daily cron; `CrawlNotify` is strongly fair for each deal, that is, a
  notification tried again and again is delivered once. Nothing is assumed of users and refreshes.

Bounds: one product listed in two categories, two refreshes, one click in flight, two prices; three
providers of which the first is not configured. Refresh ids are used once, so deadlock is not checked.

### DealSearch (run `deal_search`; proofs in DealProofs)

`MarketplaceDealsService.searchDeals` over the two marketplaces of the registry. A search takes a
turn with each provider until one has something: CacheRead (log entry and offers still fresh),
Search (the shop answers, with any of the `Listings`), IngestOffer and RecordPrice per offer,
LogSearch, and Present, which reads the price histories and labels lows. SearchThrows and
IngestFails are the errors the code catches; Tick lets offers grow stale. The offers, histories
and the log are shared by all users.

- *CacheServesOwnSearch* (action property): an answer from the cache holds what page 1 of a search
  for the same terms at the same provider found that ended no longer ago than the limit, at prices
  that some search has seen no longer ago. The two are apart: an offer that another search keeps
  fresh lives on in the answers of this one, with its new price.
- *LowIsEarned* (action property): no answer before showed a lower price of an offer labelled a low.
- *LatestListingKept*: once nobody is about to write an offer its price is the latest listed.

Bounds: two searches, one query and none, a shop that lists at two prices, next to a product
without a price and one the query does not match; which titles and offers match a query, for the
shops, for the cache (any title for a query without words) and for Cuelinks, is given by constants; staleness after the same tick. The properties also
hold for three searches at Amazon alone (4.1 million states, too many for a regular run).

### GroupMembership (run `group_membership`; proofs in GroupMembershipProofs)

One group and the requests on it, each a read and a save: ClaimRead/LinkSave and JoinRead/JoinSave
(`joinGroup` as a listed and as a new member), HealRead/LinkSave (`getMyMemberNames` links an owner
of an old group), EditRead/EditCheck/EditSave (`update` with its look at the expenses),
ExpenseRead/ExpenseSave, RemoveRead/RemoveGroup, DeleteExpense. The three kinds of save differ in
what they do with the version, which decides the races. `Written` are names as a request sends
them: `update` looks a member up by the name as sent, in lower case, and stores it trimmed, so `Edited`
uses both `Fold` and `Trim`. *SettledStaysLinked*: who is linked stays linked until the owner leaves
the name out, or sends it with white space around it (`Missed`), which that lookup never finds;
*ExpenseNamesKept*: a name in an expense is that of a member, in some case. Both state which overlaps
they except. Bounds: the owner and two guests, four requests, names of which two differ in case only,
a guest's and the owner's also with white space, edits that reorder, rename by case, add, take out
and pad. Requests are used up, so deadlock is not checked.

### Advice (run `advice`; proofs in PlannerProofs)

The two advisers: `getFinancialSnapshot` with `replyAffordability`, and `getUserFinancialProfile`
with `calculatePurchaseCheck`. A question is Ask (reads the transactions, a bounded number of the
newest), ReadBudgets and ReadBills (and answers); in between the user earns, spends, deletes, sets
budgets, adds and pays bills, and the month turns. *BillsStayPayable*: an amount called safe, or
offered as a search button, leaves every pending bill payable. *BudgetAdviceRight*: it keeps the
budgets too, and the budget is given as a reason to wait only if it would be exceeded. Bounds:
three transactions of amounts 1, 2 (4 for incomes), two categories, two months, one bill; the
limits of what is read are 2 and 3 instead of 1000 and 500, so that they are reached, and a history
of fewer expenses than `FewExpenses` has habits added.

### Records, PushTokens, Companion (run `companion`; proofs in PlannerProofs)

`Records` has khata entries, tasks and subscriptions: operations that read a document and write it
in a second call (ToggleRead/ToggleSave, TaskRead/TaskSave, SubRead/SubSave) and those of one call.
`PushTokens` has the tokens of devices: RegisterPull and RegisterPush, RemoveToken, ClearTokens,
SendRead and SendAnswer. `Companion` extends both with the assistant (ChatParse/ChatCreate for a
task, ChatReply for the order of all other answers, VoiceSaves and the notification after it) and
with the wipe, one deletion per collection in any order.

- *WipeComplete*: an acknowledged wipe leaves nothing of what there was when it began, not even
  what a request had read before and saves after.
- *TasksAhead*: a task the chat confirms is due today or later, unless the user named the year, a
  leap day that has passed, or the language model said yesterday.
- *TokenOnOneAccount*: a device's token is on the account that registered it last, once and on no
  other, unless two registrations of it overlapped since.
- *SubscriptionFigures*: the annual cost fits amount and cycle wherever updates did not overlap;
  then chat and savings page name the same saving, up to half a rupee a month that the page's
  rounding takes or adds, and what is kept is the cheapest.

Bounds: three requests, of which a wipe takes two, one entry of each kind from before, one device
and two accounts, two amounts (₹100 and ₹1000, which a page in whole rupees a month cannot show
exactly), years of four days of which the second is the leap day, so that a
date is past, today or ahead and may not exist. Requests are used up, so deadlock is not checked.

## Runs

| Run | Shows |
|---|---|
| `group_shares` | the consistency of links and copies under every interleaving and crash of the instance (2.1 million states) |
| `group_shares_double` | violation: a share can be counted twice |
| `debt_simplification` | the loop is correct and ends for all 2401 balances |
| `group_balances` | splits and totals fit unless updates overlap; both payment lists settle the balances, settlements reduce debts (190 thousand states) |
| `budget_alerts` | alerts are neither repeated nor missed where checks are undisturbed (2.1 million states) |
| `reminders` | schedule and payments stay in step (7 million states) |
| `sessions` | rotation, sign-out, resets and code limits hold wherever no overlap or crash breaks them (3.4 million states) |
| `deal_feed` | tracked deals survive refreshes, a category keeps one batch, drops are announced (163 thousand states) |
| `deal_search` | the cache answers its own search, offers keep the latest price, lows are lows (1.8 million states) |
| `group_membership` | links and names of members survive joins and edits (1.3 million states) |
| `advice` | neither adviser calls safe what the bills or the budget need (2.7 million states) |
| `companion` | a wipe is complete, tasks are ahead, a device has one account, subscription figures agree (910 thousand states) |

## Findings

One disagreement between a comment and the code is checked as a violation (run
`group_shares_double`): `confirmExpenseSplit` creates the copy first and marks the split after; a
second confirmation in between (or a crash and a retry) makes a second copy that nothing links or
removes, though the comment says a share is never double-counted.

The properties of the other runs carry conditions. Each stands for a deviation met while modelling:

- Ledger: a total-only update that overlaps one of the splits passes its check and leaves an
  expense that does not add up, as the two are saved by path (*SplitsAddUp* excepts overlaps).
- Balances: "fewest payments" is more than a greedy match gives; with two bills among five members
  the simplified list has four payments and the pairwise one three (*FewPayments* bounds it by
  the number of people instead). Balances do not sum to zero within the tolerance.
- Budgets: `create` does not await the check its comment says comes before the insert; the sum may
  have the new transaction, and adds it again (*AlertRaised* allows a higher level). The check adds
  a transaction dated in another month to this month's sum.
- Reminders: overlapping payments record one period twice; an edited due date keeps the old anchor.
- Membership: a link saved while an edit had read the list is lost (*SettledStaysLinked*), and an
  expense added after the check names a member who is gone (*ExpenseNamesKept*). An edit that sends
  a listed name with white space around it keeps the name but gives it a new id and no link
  (`groups.service.ts:332` looks up untrimmed, `:335` stores trimmed; the DTO does not trim). This
  holds for "You " as well: the owner is then listed without a link, and not put in front, as there
  is a "you" (*SettledStaysLinked* excepts both).
- Feed: overlapping refreshes leave two batches (*OneBatchPerCategory*). The price the crawler
  compares is the one the deal was stored with: nothing refreshes tracked deals, so only
  `simulateDrop` and a target at or above the price lead to an announcement. A toggle without a
  target sets the price itself as target, which the crawler announces at once.
- Search: the log has no page, so an entry of page 2 answers page 1 (*CacheServesOwnSearch*). The
  age of an offer is that of its last write by any search, so other terms can keep a find alive.
- Advice: an expense made between the reads, or a history longer than the limits of 1000 and 500,
  makes an amount unsafe; with few expenses in the month `getUserFinancialProfile` adds habits to
  what the month already has (*BudgetAdviceRight*).
- Subscriptions: redundancy compares amounts across billing cycles, so what is kept need not be the
  cheapest of the year (*SubscriptionFigures* asks for one cycle). The savings page multiplies whole
  rupees a month by twelve (`subscriptions.service.ts:119`, `savings.service.ts:85`), the chat adds
  up the year: of a redundant plan of ₹1000 a year one says 996, the other 1000. A reopened task keeps
  `completedAt`, as Mongoose takes undefined keys out of an update.
- Push: overlapping registrations leave a device on two accounts (*TokenOnOneAccount*).

## Proofs

What TLC checks on small instances is proved by TLAPS for all values of the constants in eight
modules (the only assumptions are the ASSUMEs of the modules, which TLC evaluates in the runs):

- **GroupSharesProofs**. `TypeInv` strengthens the type invariant with what each program counter
  says about a request's variables. `LinkInv` adds what is known of the copy of the document a
  request holds (`RequestInv`): until it is marked stale it is the stored one; its links are
  acknowledged copies of its own shares; what it is about to remove is linked no more. With it
  go `FreshCopiesDiffer` (the copy a confirmation has just made is nobody else's) and
  `AckedCreated`. The version conflict is exactly what makes this inductive: a stale request
  never saves splits. It yields *LinkIsOwnCopy*, *AckedCopyTracked* and, as an action property,
  *LinkStable*. `FollowInv` is for *ShareFollowsExpense*: of an expense whose requests never
  overlapped, it says what the one in flight has read and how each copy stands to it, at every
  place of every handler (`Expected`): unlinked, as the splits say, or still to be brought to what
  was saved. A step by another request or an owner leaves that alone (`MovesAt`, `CopyCalm`).
- **DebtSimplificationProofs**. The loop invariant `LoopInv`: everyone before a pointer has
  nothing left, everyone from it on has, the remaining amount is the distance of `left` from zero,
  and there are no more payments than the pointers have advanced. It yields *NothingOverpaid*,
  *OneSideSettled*, *FewPayments* without the assumption that balances add up to zero.
- **GroupBalancesProofs**, about GroupLedger and GroupBalances, in four parts.
  - Sums. `MapThenSumSet` is the library's fold, of which the provers know nothing. That it takes an
    element out of the set (`TotalStep`) is shown once; from it, by a least counterexample among the
    subsets, ordered by strict inclusion, which a finite set well-founds: sums are integers, add up,
    drop zeros, move along a bijection and may be exchanged (`TotalPlus`, `TotalWhere`,
    `TotalImage`, `TotalSwap`).
  - The ledger. `LedgerInv` adds to *SplitsAddUp* that the one update in flight on an expense,
    applied to the document as it is, gives figures that fit (`EditsFit`).
  - The lists. The balances of a ledger are the exchange of two sums (`NetSum`), what members owe
    each other cancels out (`EvenOut`), and what a member owes less what is owed to them is their
    balance less the drift (`PairwiseSum`): *PairwiseLeavesDrift* in any ledger. For
    *SimplifiedLeavesDrift* `BalancesInv` takes `LoopInv` of DebtSimplificationProofs over
    (its module is instantiated for the call) and adds that what is left sums to what the balances
    sum to; `OneSideSettled` then puts the drift on one side.
  - *SettleUpReducesDebt*, the action property, from what one more expense adds to each sum
    (`SettleUpAdds`). And the refinement: computing balances leaves the ledger to itself,
    `BalancesKeepLedger == Spec => LedgerSpec`, so what is proved of the ledger holds here.
- **SessionsProofs**. `TypeInv` strengthens the type invariant with what a request holds at its
  place in the handler; `Traced` says that what a record or a request refers to was issued. On
  these two rest four invariants, one per property:
  - `Sealed`, for *SignedOutStaysOut*: a family that is out was in use (so a login never takes
    it), and a refresh that was accepted before the family went out straddles the sign-out. Steps
    that neither issue a token nor sign a family out are one lemma (`GentleKeeps`), the sign-outs
    one (`SignOutKeeps`), the two that issue one (`IssueKeeps`).
  - `Rotating`, for *OneTokenPerSession*: in a family that is not forked one request at a time
    rotates a token, and the live tokens are then the one it replaces and the child it stored.
  - `Renewed`, for *ResetEndsSessions*: unless a reset is pending or was cut off, tokens, logins
    and refreshes in flight have the password of now, or straddled its sign-out.
  - `Counted`, for *CodeLimits*: while the attempts at a code come one after the other, the stored
    counter is not behind the wrong attempts that are over, and a reset by the code deletes it.

- **DealProofs**, about DealFeed. `FeedInv` adds to the two properties what they rest on: a tracked deal is a
  touched one (no refresh deletes it), a deal is there only once its refresh is at its insertion or
  past it, and, until two refreshes overlapped there, one refresh at a time is between deletion
  and insertion and nothing untouched is left in the categories it has cleared. It yields
  *AckedTrackingKept* and *OneBatchPerCategory*.
- **BudgetAlertsProofs**. `AlertInv`: as long as the checks run one at a time and to the end, the
  budget has the last alert on record, except between notification and save, where the check holds
  it (`OnRecord`, `Abreast`), and the alerts are in the order of the months. What a check decides
  it therefore decides on the last alert, which is all *NoRepeatedAlert* takes. Steps that neither
  send nor forget an alert are one lemma (`Calm`). *AlertRaised* needs the sums, of which it takes
  that an insertion adds its amount and leaves other months alone: `Raised` says, of an
  undisturbed creation, that its check counts at least what the month comes to with the
  transaction in (`Due`), whichever of sum and insert is first, and that the level it holds, sends
  or has put on record is that of `Due` or the higher one.
- **GroupMembershipProofs**. `LinkInv`: a settled user holds a name, that is, all members of that
  name are linked to the user and none is claimed by a request that can still be saved (`Holds`);
  and an edit that can still be saved was made of a list with the names of the present one in which
  that was so. `ExpenseInv`: the names of expenses, stored and to be stored, are members', but for
  the unchecked ones, and an edit that has looked keeps them. The version makes both inductive: a
  save by one request leaves the others behind (`NoneCurrent`). Names are
  trimmed and folded by any functions that agree as the assumption says.
- **DealProofs**, about DealSearch. `KeptInv`: an offer that is not doubtful is awaited by one search at most,
  which then has its latest listing. `LowInv`: every price that an offer has, that a search holds or
  that was shown is covered, that is, a price as low is in the offer's history, on its way there,
  or an observation was lost; with it go the places at which a search has nothing to store
  (`WellFormed`). `FoundInv`, for the action property *CacheServesOwnSearch*: each offer a log entry
  of page 1 names was found by that provider for that query when the entry was written or later.
  What a listing makes of a query is left open.

- **PlannerProofs**, about Companion with Records and PushTokens, Reminders, and Advice.
  - *Tokens.* `Pulled` is a recursive function of which the provers know nothing; that one exists,
    keeps the others and adds none is shown by induction over the numbers up to its length
    (`UpTo`, `PulledKeeps`). `TokenInv`: of a token no two registrations of which overlapped, at
    most one request is between its pull and its push, and it is on no account meanwhile (`Placed`).
  - *Tasks.* `PlannerTypeOK` has *TasksAhead* in the type of a chat's request. It is kept because a day
    is followed by a later one, leap days or not (`TomorrowNext`, `DaysAfterLater`), and a date
    without a year is put into the next one if it is past (`ParsedAhead`).
  - *Wipe.* `WipeInv` says that a document that a request may still make (`Coming`) is not there and
    was not when a wipe began, and that what a wipe found is left only in collections it has still
    to delete. A step is `Quiet` if it makes only what was coming; that all handlers but the wipe
    are is the proof that a save after a wipe brings nothing back.
  - *Subscriptions.* `SubInv`: an update nobody overlapped has computed its cost from the document
    as it is stored (`Computed`, `Only`). That the savings agree is a comparison of two sums over the
    same set (`SavingsTotal`), of which the page's is rounded (`RoundingBound`).
  - *Reminders.* `ReminderInv`: every date on record or on its way exists, a push has one payment,
    and an undo that is not stale takes off the last one there is (`TakesLast`), which the version
    conflict keeps true; with it the action property *PaymentsKept*. `ScheduleInv`, for
    *OnSchedule*: what the only request in flight is about to make of the bill is on its schedule
    too (`Arrives`), from lemmas on the calendar: `addMonths` of a date by n periods and one more,
    on the first date's day, is n + 1 of them, whatever month was too short between
    (`NextPeriod`), and `addDays` goes to the day of that number (`AddDaysNumber`), so the lead is kept.
  - *Advice.* `AdviceInv`: until something spoils a question, what it has read is true of the
    records or errs on the safe side (`Knows`): the balance was not more, the month's spending not
    less. An answer of such a question is right (`Right`), and stays so through income and bills paid.

  TLC checked `ScheduleInv` (7.0 million states) and `AdviceInv` (2.7 million) on the instances of
  their runs before they were proved.

The assumptions on constants are typings (amounts and limits are natural numbers; the dates and bodies
the requests bring exist in the calendar; a bill is created pending and unpaid), that None is no value,
that a year has a leap day before its last, and that the data are finite where they are summed or
counted: members and expenses of a group (`FiniteAssumption`, `MembersAssumption`), transactions
(`BudgetAlertsAssumption`), categories and bills (`AdviceAssumption`), records of a user
(`RecordsAssumption`). What `MapThenSumSet` computes is not taken from the library on trust but
derived from its definition.

Every invariant and every action property of the passing runs has a theorem. Only model-checked are
*Terminates* and *DropAnnounced*: both are liveness under fairness, which the prover does not reach.
*NeverDoubleCounted* is violated by the code.

## Not modelled

Access tokens (JWTs, which are not stored) and access checks (every request in the models is
one that passed them); validation of DTOs beyond what a handler checks itself; texts, notes and
pagination; prompts, model answers beyond what the code tells apart, parsing of sentences into
words, amounts and clock times; HTTP adapters of deal providers, Gemini, mail and OCR (the scan of a
bill writes nothing); scores, images and links of deals; alerts on offers and clicks, which nothing
reads but the answer's label; product replies of the assistant; figures of the savings and
subscription pages that relate to nothing else (sums over one query); rounding between rupees and
paise on the way in and out (amounts are whole minor units from the handler on; the rounding of the
savings page to whole rupees a month is in `Records`), and of floating-point sums. Duplicate member names within one split
list are left out: the app sends one line per member.

## Plan

What a next step would take, in this order:

1. Abstract specifications: a share's life (unconfirmed, confirmed, gone) that GroupShares
   implements where requests do not overlap; a bill as a list of periods that Reminders implements.
2. Alerts on offers and clicks beside DealSearch, once something in the code reads them.
