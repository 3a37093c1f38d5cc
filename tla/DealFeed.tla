------------------------------ MODULE DealFeed ------------------------------
(***************************************************************************)
(* The deals of one user (DealsService,                                    *)
(* src/src/modules/deals/deals.service.ts): the feed that every discovery  *)
(* of deals replaces, the deals in it that the user tracks, and the        *)
(* crawler that announces price drops of tracked deals.                    *)
(*                                                                         *)
(* A refresh of the feed asks the providers in turn, deletes the untracked *)
(* deals it replaces and inserts the new ones: three calls, and nothing    *)
(* keeps two refreshes apart (GET /deals on an empty feed, the assistant,  *)
(* the sync that a search starts and does not wait for).  A deal is named  *)
(* by the refresh that inserted it and its product.                        *)
(*                                                                         *)
(* Left out: titles, links, images and scores; the deals' order; deals of  *)
(* the type "web_search_grounding", which nothing stores any more.         *)
(***************************************************************************)
EXTENDS Deals, Naturals, FiniteSets

CONSTANTS
    Categories,    \* categories of deals
    Prices,        \* prices and target prices, in minor units
    IsConfigured,    \* for each provider of the registry, in order, isConfigured()
    Refreshes,     \* refreshes of the feed, 1..n, each used once
    Clicks         \* requests on a deal of the feed in flight at the same time

ASSUME DealFeedAssumption ==
    /\ Prices \subseteq Nat \ {0}
    /\ DOMAIN IsConfigured \subseteq Nat \ {0}
    /\ None \notin Queries \cup Products \cup Categories

VARIABLES
    deal,        \* the deal documents, None where there is none
    refresh,     \* each refresh
    click,       \* toggleTrack and simulateDrop in flight
    crawl,       \* what the crawler's loop has yet to look at
    acked,       \* history: deals a toggle has answered are tracked, and none that they are not
    announced,   \* history: deals announced since they were last tracked or dropped
    overlapped   \* history: two refreshes were between deletion and insertion at once

feedVars == <<deal, refresh, click, crawl, acked, announced, overlapped>>

FeedProviders == DOMAIN IsConfigured
DealIds == Refreshes \X Products

\* What a provider lists: some products, each in a category and at a price.
Batches == UNION {[S -> [category : Categories, price : Prices]] : S \in SUBSET Products}
NoBatch == << >>

\* touched: history, the user has tracked the deal at some time.
Deal == [category : Categories, price : Nat, tracked : BOOLEAN,
         target : Nat \cup {None}, touched : BOOLEAN]

ASSUME NoDealAssumption == None \notin Deal

\* at: the provider whose turn it is, 0 for the legacy engine; query: None where
\* rankAndPersistProviderDeals gets none.
Refresh == [pc : {"new", "search", "clear", "insert", "done"},
            at : Nat, query : Queries \cup {None}, batch : Batches]

Click == [pc : {"idle", "toggle", "drop"}, id : DealIds \cup {None},
          tracked : BOOLEAN, price : Nat \cup {None}, target : Nat \cup {None}]

FeedTypeOK ==
    /\ deal \in [DealIds -> Deal \cup {None}]
    /\ refresh \in [Refreshes -> Refresh]
    /\ click \in [Clicks -> Click]
    /\ crawl \subseteq DealIds
    /\ acked \subseteq DealIds
    /\ announced \subseteq DealIds
    /\ overlapped \in BOOLEAN

NewRefresh == [pc |-> "new", at |-> 0, query |-> None, batch |-> NoBatch]
NoClick == [pc |-> "idle", id |-> None, tracked |-> FALSE, price |-> None, target |-> None]

FeedInit ==
    /\ deal = [d \in DealIds |-> None]
    /\ refresh = [f \in Refreshes |-> NewRefresh]
    /\ click = [c \in Clicks |-> NoClick]
    /\ crawl = {}
    /\ acked = {}
    /\ announced = {}
    /\ overlapped = FALSE

Live == {d \in DealIds : deal[d] # None}
Tracked == {d \in Live : deal[d].tracked}

----------------------------------------------------------------------------
(* Refreshes: findAll, discoverDeals, runProvider, rankAndPersistProviderDeals *)

\* The first provider from i on that is configured, 0 if there is none.
NextProvider(i) ==
    LET later == {p \in FeedProviders : p >= i /\ IsConfigured[p]} IN
    IF later = {} THEN 0 ELSE CHOOSE p \in later : \A q \in later : p <= q

\* A query of the user, "all" standing for none.
Effective(q) == IF q = None THEN DefaultQuery ELSE q

\* discoverDeals in provider mode: by findAll on an empty feed with no query, or with one
\* for the assistant.  Without a configured provider it answers with no deals.
Discover(f) ==
    \E q \in Queries \cup {None} :
        LET first == NextProvider(1) IN
        /\ refresh[f].pc = "new"
        /\ q = None => Live = {}
        /\ refresh' = [refresh EXCEPT ![f] =
                          [NewRefresh EXCEPT !.pc = IF first = 0 THEN "done" ELSE "search",
                                             !.at = first, !.query = Effective(q)]]
        /\ UNCHANGED <<deal, click, crawl, acked, announced, overlapped>>

\* The legacy engine, asked for by ?engine=legacy or as the configured mode.
DiscoverLegacy(f) ==
    \E q \in Queries \cup {None} :
        /\ refresh[f].pc = "new"
        /\ refresh' = [refresh EXCEPT ![f] =
                          [NewRefresh EXCEPT !.pc = "search", !.query = q]]
        /\ UNCHANGED <<deal, click, crawl, acked, announced, overlapped>>

\* The sync of a marketplace search, which has the provider's deals already.
Sync(f) ==
    \E q \in Queries \cup {None}, batch \in Batches \ {NoBatch} :
        /\ refresh[f].pc = "new"
        /\ refresh' = [refresh EXCEPT ![f] =
                          [NewRefresh EXCEPT !.pc = "clear", !.query = q, !.batch = batch]]
        /\ UNCHANGED <<deal, click, crawl, acked, announced, overlapped>>

\* The provider's answer.  One that is no use (an error, no deals, a thrown exception)
\* passes the turn on; the legacy engine has nobody to pass it to.
RefreshSearch(f) ==
    LET g == refresh[f]
        next == IF g.at = 0 THEN 0 ELSE NextProvider(g.at + 1)
    IN
    /\ g.pc = "search"
    /\ refresh' \in {[refresh EXCEPT ![f] = [g EXCEPT !.pc = "clear", !.batch = b]] :
                        b \in Batches \ {NoBatch}}
           \cup {[refresh EXCEPT ![f] =
                     [g EXCEPT !.pc = IF next = 0 THEN "done" ELSE "search", !.at = next]]}
    /\ UNCHANGED <<deal, click, crawl, acked, announced, overlapped>>

\* Mutant: a refresh replaces tracked deals too.
ReplacesTracked(q, cats, d) == q # None => d.category \in cats

\* Whether a refresh with this query and these categories replaces a deal.
Replaces(q, cats, d) == ~d.tracked /\ (q # None => d.category \in cats)

\* Mutant: nothing is deleted before the insertion of a batch that a query found.
ClearWithoutQuery(f) ==
    LET g == refresh[f] IN
    /\ g.pc = "clear"
    /\ deal' = [d \in DealIds |-> IF d \in Live /\ g.query = None /\ ~deal[d].tracked
                                  THEN None ELSE deal[d]]
    /\ refresh' = [refresh EXCEPT ![f] = [g EXCEPT !.pc = "insert"]]
    /\ overlapped' = (overlapped \/ \E h \in Refreshes : refresh[h].pc = "insert")
    /\ UNCHANGED <<click, crawl, acked, announced>>

\* The deletion of the untracked deals that the batch replaces.
Clear(f) ==
    LET g == refresh[f]
        cats == {g.batch[p].category : p \in DOMAIN g.batch}
    IN
    /\ g.pc = "clear"
    /\ deal' = [d \in DealIds |-> IF d \in Live /\ Replaces(g.query, cats, deal[d])
                                  THEN None ELSE deal[d]]
    /\ refresh' = [refresh EXCEPT ![f] = [g EXCEPT !.pc = "insert"]]
    /\ overlapped' = (overlapped \/ \E h \in Refreshes : refresh[h].pc = "insert")
    /\ UNCHANGED <<click, crawl, acked, announced>>

\* A new deal is not tracked and has no target.
Insert(f) ==
    LET g == refresh[f] IN
    /\ g.pc = "insert"
    /\ deal' = [d \in DealIds |->
                   IF d[1] = f /\ d[2] \in DOMAIN g.batch
                   THEN [category |-> g.batch[d[2]].category, price |-> g.batch[d[2]].price,
                         tracked |-> FALSE, target |-> None, touched |-> FALSE]
                   ELSE deal[d]]
    /\ refresh' = [refresh EXCEPT ![f] = [NewRefresh EXCEPT !.pc = "done"]]
    /\ UNCHANGED <<click, crawl, acked, announced, overlapped>>

\* A call fails or the instance stops.  What rankAndPersistProviderDeals throws is not
\* caught by runProvider, which returns its promise, so no other provider is asked.
RefreshFails(f) ==
    /\ refresh[f].pc \in {"search", "clear", "insert"}
    /\ refresh' = [refresh EXCEPT ![f] = [NewRefresh EXCEPT !.pc = "done"]]
    /\ UNCHANGED <<deal, click, crawl, acked, announced, overlapped>>

----------------------------------------------------------------------------
(* The user: toggleTrack, simulateDrop, deleteAllForUser                   *)

\* The read of a deal; its id may be from a feed that was replaced.
ReadDeal(c) ==
    \E d \in Live, kind \in {"toggle", "drop"} :
        /\ click[c].pc = "idle"
        /\ click' = [click EXCEPT ![c] =
                        [pc |-> kind, id |-> d, tracked |-> deal[d].tracked,
                         price |-> deal[d].price, target |-> deal[d].target]]
        /\ UNCHANGED <<deal, refresh, crawl, acked, announced, overlapped>>

\* The value of a path after a save: what the request has made of it if that differs
\* from what it read, else what is there.
Saved(read, made, there) == IF made # read THEN made ELSE there

\* toggleTrack without a target price takes the current one.
ToggleSave(c) ==
    LET k == click[c] IN
    /\ k.pc = "toggle"
    /\ IF k.id \notin Live THEN UNCHANGED <<deal, acked, announced>>
       ELSE \E target \in Prices \cup {k.price} :
            /\ deal' = [deal EXCEPT ![k.id].tracked = ~k.tracked,
                                    ![k.id].target = Saved(k.target, target, @),
                                    ![k.id].touched = TRUE]
            /\ acked' = IF k.tracked THEN acked \ {k.id} ELSE acked \cup {k.id}
            /\ announced' = announced \ {k.id}
    /\ click' = [click EXCEPT ![c] = NoClick]
    /\ UNCHANGED <<refresh, crawl, overlapped>>

\* simulateDrop without a target price: the deal's target, or 85% of its price.
DropTarget(k) == IF k.target # None THEN k.target ELSE (k.price * 85 + 50) \div 100

\* simulateDrop announces the drop itself, after this.
DropSave(c) ==
    LET k == click[c] IN
    /\ k.pc = "drop"
    /\ IF k.id \notin Live THEN UNCHANGED <<deal, announced>>
       ELSE \E target \in Prices \cup {DropTarget(k)} :
            /\ deal' = [deal EXCEPT ![k.id].price = Saved(k.price, target, @),
                                    ![k.id].target = Saved(k.target, target, @),
                                    ![k.id].tracked = Saved(k.tracked, TRUE, @),
                                    ![k.id].touched = TRUE]
            /\ announced' = announced \ {k.id}
    /\ click' = [click EXCEPT ![c] = NoClick]
    /\ UNCHANGED <<refresh, crawl, acked, overlapped>>

ClickFails(c) ==
    /\ click[c].pc \in {"toggle", "drop"}
    /\ click' = [click EXCEPT ![c] = NoClick]
    /\ UNCHANGED <<deal, refresh, crawl, acked, announced, overlapped>>

\* deleteAllForUser, when the account's data is wiped.
Wipe ==
    /\ Live # {}
    /\ deal' = [d \in DealIds |-> None]
    /\ acked' = {}
    /\ announced' = {}
    /\ UNCHANGED <<refresh, click, crawl, overlapped>>

----------------------------------------------------------------------------
(* The crawler: checkTrackedDealsForPriceDrops                             *)

Reached(price, target) == target # None /\ price <= target

Dropped == {d \in Tracked : Reached(deal[d].price, deal[d].target)}

\* Mutant: the crawler takes only prices below the target.
CrawlReadBelow ==
    /\ crawl = {}
    /\ \E d \in Dropped : deal[d].price < deal[d].target
    /\ crawl' = {d \in Dropped : deal[d].price < deal[d].target}
    /\ UNCHANGED <<deal, refresh, click, acked, announced, overlapped>>

\* The read of the tracked deals of everyone; the loop skips those not worth a message.
CrawlRead ==
    /\ crawl = {}
    /\ Dropped # {}
    /\ crawl' = Dropped
    /\ UNCHANGED <<deal, refresh, click, acked, announced, overlapped>>

\* The notification of the next one, whatever has become of the deal since the read.
CrawlNotify(d) ==
    /\ d \in crawl
    /\ crawl' = crawl \ {d}
    /\ announced' = IF d \in Dropped THEN announced \cup {d} ELSE announced
    /\ UNCHANGED <<deal, refresh, click, acked, overlapped>>

\* A notification fails, which ends the loop until the timer fires again.
CrawlFails ==
    /\ crawl # {}
    /\ crawl' = {}
    /\ UNCHANGED <<deal, refresh, click, acked, announced, overlapped>>

----------------------------------------------------------------------------
FeedNext ==
    \/ \E f \in Refreshes :
        \/ Discover(f) \/ DiscoverLegacy(f) \/ Sync(f)
        \/ RefreshSearch(f) \/ Clear(f) \/ Insert(f) \/ RefreshFails(f)
    \/ \E c \in Clicks :
        \/ ReadDeal(c) \/ ToggleSave(c) \/ DropSave(c) \/ ClickFails(c)
    \/ Wipe
    \/ CrawlRead \/ CrawlFails
    \/ \E d \in DealIds : CrawlNotify(d)

FeedSpec == FeedInit /\ [][FeedNext]_feedVars

\* The crawler is on a timer, and on a daily cron, for ever; a message that is tried
\* again and again is delivered once.
CrawlFairness ==
    /\ WF_feedVars(CrawlRead)
    /\ \A d \in DealIds : SF_feedVars(CrawlNotify(d))

FairSpec == FeedSpec /\ CrawlFairness

----------------------------------------------------------------------------
\* A deal whose tracking a toggle has confirmed, and no toggle since has ended, is in the
\* feed and tracked: no refresh of the feed, of whichever engine and however it falls
\* between the read and the save of a toggle, takes it away.
AckedTrackingKept == \A d \in acked : d \in Tracked

\* As long as no two refreshes were between deletion and insertion at once, the deals of
\* a category that the user never touched stem from one refresh: an old price does not
\* stay in the feed next to the batch that was to replace it.
OneBatchPerCategory ==
    ~overlapped => \A d, e \in Live :
        /\ ~deal[d].touched /\ ~deal[e].touched
        /\ deal[d].category = deal[e].category
        => d[1] = e[1]

\* A tracked deal at or below its target price is announced, unless it ceases to be one:
\* a failed notification delays it, that of another deal too, but does not lose it.
DropAnnounced == \A d \in DealIds : d \in Dropped ~> (d \in announced \/ d \notin Dropped)
============================================================================
