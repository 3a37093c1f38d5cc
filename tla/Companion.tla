----------------------------- MODULE Companion -----------------------------
(***************************************************************************)
(* What writes to the records of a user besides the screens that list      *)
(* them: the chat and the voice log (AssistantService,                     *)
(* src/src/modules/assistant/assistant.service.ts), the notifications      *)
(* these raise, and the wipe of all data (AccountService,                  *)
(* src/src/modules/account/account.service.ts), with the push tokens of    *)
(* the devices told.                                                       *)
(*                                                                         *)
(* A sentence is the set of subjects its words match and the date it       *)
(* names.  A date is <<year, day of the year>>; the leap day exists in     *)
(* leap years only.  What the language models answer is any of the answers *)
(* the code tells apart.  Titles, amounts, times of day and wording are    *)
(* left out.                                                               *)
(***************************************************************************)
EXTENDS PushTokens, Records

CONSTANTS
    Sentences,    \* what the user says: [topics, date]
    YearDays,     \* days of a leap year
    LeapDay,
    LeapYears,
    Today,        \* the user's date
    ModelDates,   \* dates the language model may answer, None if it has none
    Me,           \* the user's account
    Rest          \* collections wiped that nothing else here writes

VARIABLES
    transactions, \* made by the voice log, by request
    notifications,
    rest          \* collections of Rest that are not empty

vars == <<recordVars, tokenVars, transactions, notifications, rest>>

Own == {"transactions", "khata", "subscriptions", "tasks", "notifications"}

Collections == Own \cup Rest

CalendarDate == Int \X (1..YearDays)

IsValidDateKey(d) == d[2] # LeapDay \/ d[1] \in LeapYears

Replies ==
    {"affordability_check", "price_guide", "safe_spend", "spending_summary", "reminder_action",
     "subscription_action", "model", "rules", "reminder_set", "saved"}

\* asked: history, the user has named a date that may be past.
AssistantCall ==
    [op : {"chat"}, topics : SUBSET STRING, due : Int \X Int, asked : BOOLEAN]
    \cup [op : {"replied"}, reply : Replies]
    \cup [op : {"notify"}]

\* left: the collections still to be deleted; before: history, the documents there were.
WipeCall ==
    [op : {"wipe"}, left : SUBSET Collections, failed : BOOLEAN,
     before : SUBSET (Collections \X (Ids \cup {None}))]

ASSUME CompanionAssumption ==
    /\ Calls \subseteq Senders /\ Me \in Accounts
    /\ Rest \cap Own = {}
    /\ None \notin AssistantCall \cup WipeCall
    /\ YearDays \in Nat /\ LeapDay \in 1..(YearDays - 1)
    /\ Today \in CalendarDate /\ IsValidDateKey(Today)
    /\ ModelDates \subseteq CalendarDate \cup {None}
    /\ \A s \in Sentences :
          /\ s.date.kind \in {"none", "days", "day", "explicit"}
          /\ s.topics \subseteq STRING
          /\ s.date.n \in Nat /\ s.date.year \in Int

----------------------------------------------------------------------------
\* Dates.
Before(d, e) == d[1] < e[1] \/ (d[1] = e[1] /\ d[2] < e[2])

Tomorrow(d) ==
    LET next == IF d[2] = YearDays THEN <<d[1] + 1, 1>> ELSE <<d[1], d[2] + 1>>
    IN IF IsValidDateKey(next) THEN next ELSE <<next[1], next[2] + 1>>

DaysAfter(d, n) ==
    LET f[k \in 0..n] == IF k = 0 THEN d ELSE Tomorrow(f[k - 1]) IN f[n]

\* Mutant: a day that has passed is not taken to be next year's.
PickThisYear(day) ==
    IF IsValidDateKey(<<Today[1], day>>) THEN <<Today[1], day>> ELSE Today

\* A day and month without a year: of this year, or of the next if it has passed and
\* exists there.  Today if there is no such day this year.
Pick(day) ==
    LET key  == <<Today[1], day>>
        next == <<Today[1] + 1, day>>
    IN IF ~ IsValidDateKey(key) THEN Today
       ELSE IF Before(key, Today) /\ IsValidDateKey(next) THEN next ELSE key

ExtractDate(said) ==
    CASE said.kind = "none"     -> Today
      [] said.kind = "days"     -> DaysAfter(Today, said.n)
      [] said.kind = "day"      -> Pick(said.n)
      [] said.kind = "explicit" ->
            IF IsValidDateKey(<<said.year, said.n>>) THEN <<said.year, said.n>> ELSE Today

\* The model's date is taken if it is a date and not before yesterday.
MergeDate(ai, rules) ==
    IF ai # None /\ IsValidDateKey(ai) /\ ~ Before(Tomorrow(ai), Today) THEN ai ELSE rules

----------------------------------------------------------------------------
Init ==
    /\ RecordInit
    /\ TokenInit
    /\ transactions = {}
    /\ notifications = {}
    /\ rest = Rest

\* The screens and devices.
Screens ==
    /\ RecordNext
    /\ UNCHANGED <<tokenVars, transactions, notifications, rest>>

Devices(c) ==
    /\ \/ Fresh(c) /\ Ends(c) /\ TokenStart(c)
       \/ TokenContinue(c) /\ UNCHANGED call
    /\ UNCHANGED <<khata, tasks, subs, mixed, transactions, notifications, rest>>

\* parseTask: the model is asked first if the sentence is a task.  asked is a history of
\* why the date may be past.
ChatParse(c, s, ai) ==
    /\ Fresh(c) /\ "task" \in s.topics
    /\ LET due == MergeDate(ai, ExtractDate(s.date))
       IN call' = [call EXCEPT ![c] = [op |-> "chat", topics |-> s.topics, due |-> due,
                     asked |-> \/ s.date.kind = "explicit"
                               \/ s.date.kind = "day" /\ s.date.n = LeapDay
                               \/ due = ai /\ Tomorrow(ai) = Today]]
    /\ UNCHANGED <<khata, tasks, subs, mixed, tokenVars, transactions, notifications, rest>>

\* The order of generateReply; the topics are the tests a sentence passes.  Reminders and
\* subscriptions are answered from the records only if there are any; the language models
\* come before the rules.
Reply(topics, model) ==
    IF "afford" \in topics THEN "affordability_check"
    ELSE IF "shopping" \in topics THEN "price_guide"
    ELSE IF "safe spend" \in topics THEN "safe_spend"
    ELSE IF "analysis" \in topics THEN "spending_summary"
    ELSE IF "remind" \in topics /\ "reminders" \in rest THEN "reminder_action"
    ELSE IF "subscription" \in topics /\ Active # {} THEN "subscription_action"
    ELSE IF model THEN "model" ELSE "rules"

Replied(c, reply) == call' = [call EXCEPT ![c] = [op |-> "replied", reply |-> reply]]

\* replyCreateTask: the task is created and confirmed, or creating it fails and the
\* sentence is answered as any other.
ChatCreate(c) ==
    /\ At(c, "chat")
    /\ tasks' = [tasks EXCEPT ![c] = NewTask]
    /\ Replied(c, "reminder_set")
    /\ UNCHANGED <<khata, subs, mixed, tokenVars, transactions, notifications, rest>>

ChatCreateFails(c, model) ==
    /\ At(c, "chat")
    /\ Replied(c, Reply(call[c].topics, model))
    /\ UNCHANGED <<khata, tasks, subs, mixed, tokenVars, transactions, notifications, rest>>

ChatReply(c, s, model) ==
    /\ Fresh(c) /\ "task" \notin s.topics
    /\ Replied(c, Reply(s.topics, model))
    /\ UNCHANGED <<khata, tasks, subs, mixed, tokenVars, transactions, notifications, rest>>

\* parseAndProcessVoice with autoSave: a transaction or a khata entry is created.  If that
\* fails, or no amount is found, the answer has no saved record.
VoiceSaves(c, mode) ==
    /\ Fresh(c)
    /\ IF mode = "expense"
       THEN /\ transactions' = transactions \cup {c}
            /\ call' = [call EXCEPT ![c] = [op |-> "notify"]]
            /\ UNCHANGED khata
       ELSE /\ khata' = [khata EXCEPT ![c] = "pending"]
            /\ Replied(c, "saved")
            /\ UNCHANGED transactions
    /\ UNCHANGED <<tasks, subs, mixed, tokenVars, notifications, rest>>

VoiceFails(c) ==
    /\ Fresh(c)
    /\ Ends(c)
    /\ UNCHANGED <<khata, tasks, subs, mixed, tokenVars, transactions, notifications, rest>>

\* A new transaction is told to the user's devices; that the notification cannot be stored
\* or sent fails nothing.
Notify(c) ==
    /\ At(c, "notify")
    /\ notifications' = notifications \cup {c}
    /\ \/ SendRead(c, Me)
       \/ fcmTokens[Me] = << >> /\ UNCHANGED tokenVars
    /\ Replied(c, "saved")
    /\ UNCHANGED <<khata, tasks, subs, mixed, transactions, rest>>

NotifyFails(c) ==
    /\ At(c, "notify")
    /\ Replied(c, "saved")
    /\ UNCHANGED <<khata, tasks, subs, mixed, tokenVars, transactions, notifications, rest>>

----------------------------------------------------------------------------
\* deleteAllData: every collection at once; the answer waits for all of them, or comes with
\* the first failure while the others run on.
Documents ==
    {<<"transactions", i>> : i \in transactions} \cup {<<"notifications", i>> : i \in notifications}
    \cup {<<"khata", i>> : i \in {e \in Ids : khata[e] # "none"}}
    \cup {<<"tasks", i>> : i \in {t \in Ids : tasks[t] # None}}
    \cup {<<"subscriptions", i>> : i \in Active} \cup {<<k, None>> : k \in rest}

\* It takes up a second request as well: a bound.
WipeStart(c, d) ==
    /\ Fresh(c) /\ Fresh(d) /\ c # d
    /\ call' = [call EXCEPT ![d] = [op |-> "ended"], ![c] =
                    [op |-> "wipe", left |-> Collections, before |-> Documents, failed |-> FALSE]]
    /\ UNCHANGED <<khata, tasks, subs, mixed, tokenVars, transactions, notifications, rest>>

WipeDeletes(c, k) ==
    /\ At(c, "wipe") /\ k \in call[c].left
    /\ transactions' = IF k = "transactions" THEN {} ELSE transactions
    /\ notifications' = IF k = "notifications" THEN {} ELSE notifications
    /\ khata' = IF k = "khata" THEN [i \in Ids |-> "none"] ELSE khata
    /\ tasks' = IF k = "tasks" THEN [i \in Ids |-> None] ELSE tasks
    /\ subs' = IF k = "subscriptions" THEN [i \in Ids |-> None] ELSE subs
    /\ rest' = rest \ {k}
    /\ call' = [call EXCEPT ![c].left = @ \ {k}]
    /\ UNCHANGED <<mixed, tokenVars>>

WipeDeleteFails(c, k) ==
    /\ At(c, "wipe") /\ k \in call[c].left
    /\ call' = [call EXCEPT ![c].left = @ \ {k}, ![c].failed = TRUE]
    /\ UNCHANGED <<khata, tasks, subs, mixed, tokenVars, transactions, notifications, rest>>

Wiped(c) == At(c, "wipe") /\ call[c].left = {} /\ ~ call[c].failed

Next ==
    \/ Screens
    \/ \E c \in Calls :
          \/ Devices(c)
          \/ \E s \in Sentences, ai \in ModelDates : ChatParse(c, s, ai)
          \/ ChatCreate(c)
          \/ \E model \in BOOLEAN : ChatCreateFails(c, model)
          \/ \E s \in Sentences, model \in BOOLEAN : ChatReply(c, s, model)
          \/ \E mode \in {"expense", "khata"} : VoiceSaves(c, mode)
          \/ VoiceFails(c) \/ Notify(c) \/ NotifyFails(c)
          \/ \E d \in Calls : WipeStart(c, d)
          \/ \E k \in Collections : WipeDeletes(c, k) \/ WipeDeleteFails(c, k)

Spec == Init /\ [][Next]_vars

----------------------------------------------------------------------------
\* An acknowledged wipe leaves nothing of what there was when it began, also not of
\* documents a request had read before and saves after it.
WipeComplete == \A c \in Calls : Wiped(c) => Documents \cap call[c].before = {}

\* A task the chat creates and confirms is due today or later.  The exceptions, asked for:
\* the user named the year, named the leap day after it has passed, or the language model
\* said yesterday.
TasksAhead ==
    \A c \in Calls : At(c, "chat") /\ Before(call[c].due, Today) => call[c].asked
=============================================================================
