---------------------------- MODULE MCCompanion ----------------------------
\* Three requests on an account that may have a khata entry and subscriptions from before,
\* one device and two accounts.  Years of four days, the second of which is the leap day;
\* today is the third day of a leap year.
EXTENDS Companion, TLC

CONSTANTS me, other

MCMe == me

MCAccounts == {me, other}

MCToday == <<1, 3>>

\* None, yesterday, before that, and the leap day of a year without one.
MCModelDates == {None, <<1, 2>>, <<1, 1>>, <<2, 2>>}

Said(kind, n, year) == [kind |-> kind, n |-> n, year |-> year]

\* The sentences that the code tells apart.
MCSentences ==
    {[topics |-> {"task", "remind"}, date |-> d] :
        d \in {Said("none", 0, 0), Said("days", 2, 0), Said("day", 1, 0), Said("day", 2, 0),
               Said("explicit", 1, 1), Said("explicit", 2, 2)}}
    \cup {[topics |-> t, date |-> Said("none", 0, 0)] :
        t \in {{"afford", "shopping"}, {"shopping"}, {"safe spend"}, {"analysis"},
              {"subscription"}}}

Symmetry == Permutations(Calls)
=============================================================================
