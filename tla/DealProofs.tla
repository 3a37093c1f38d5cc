------------------------------ MODULE DealProofs ------------------------------
(***************************************************************************)
(* Proofs about the feed of deals and about the marketplace search, for    *)
(* any products, categories, prices, queries, listings, providers and      *)
(* numbers of requests.                                                    *)
(***************************************************************************)
EXTENDS DealFeed, DealSearch, WellFoundedInduction, TLAPS

----------------------------------------------------------------------------
(***************************************************************************)
(* The feed: its types, AckedTrackingKept and OneBatchPerCategory.         *)
(***************************************************************************)

\* A batch lists products, each with a category and a price.
LEMMA BatchType ==
    ASSUME NEW b \in Batches
    PROVE  /\ DOMAIN b \subseteq Products
           /\ \A p \in DOMAIN b : b[p].category \in Categories /\ b[p].price \in Nat
<1>1. PICK S \in SUBSET Products : b \in [S -> [category : Categories, price : Prices]]
    BY DEF Batches
<1>2. Prices \subseteq Nat
    BY DealFeedAssumption
<1>. QED  BY <1>1, <1>2

\* The empty batch is one.
LEMMA NoBatchType == NoBatch \in Batches
<1>1. NoBatch \in [{} -> [category : Categories, price : Prices]]
    BY DEF NoBatch
<1>. QED  BY <1>1 DEF Batches

\* A refresh that has not begun is typed.
LEMMA NewRefreshType == NewRefresh \in Refresh
BY NoBatchType DEF NewRefresh, Refresh

\* A request that waits for its save holds what it read of a deal.
ClickOK ==
    \A c \in Clicks : click[c].pc # "idle" => click[c].id \in DealIds /\ click[c].price \in Nat

FeedTypeInv == FeedTypeOK /\ ClickOK

\* The invariant holds of an empty feed.
LEMMA FeedInitType == FeedInit => FeedTypeInv
<1>. SUFFICES ASSUME FeedInit PROVE FeedTypeInv
    OBVIOUS
<1>1. NewRefresh \in Refresh
    BY NewRefreshType
<1>2. NoClick \in Click
    BY DEF NoClick, Click
<1>3. FeedTypeOK
    BY <1>1, <1>2 DEF FeedInit, FeedTypeOK
<1>4. ClickOK
    BY DEF FeedInit, ClickOK, NoClick
<1>. QED  BY <1>3, <1>4 DEF FeedTypeInv

\* The steps of a refresh up to its deletion write its own record only.
LEMMA RefreshTyped ==
    ASSUME FeedTypeInv, NEW f \in Refreshes, NEW r \in Refresh,
           refresh' = [refresh EXCEPT ![f] = r],
           UNCHANGED <<click, crawl, acked, announced>>,
           overlapped' \in BOOLEAN, deal' \in [DealIds -> Deal \cup {None}]
    PROVE  FeedTypeInv'
<1>1. refresh' \in [Refreshes -> Refresh]
    BY DEF FeedTypeInv, FeedTypeOK
<1>2. FeedTypeOK'
    BY <1>1 DEF FeedTypeInv, FeedTypeOK
<1>3. ClickOK'
    BY DEF FeedTypeInv, ClickOK
<1>. QED  BY <1>2, <1>3 DEF FeedTypeInv

\* The provider asked next is a place in the registry, or 0.
LEMMA FeedNextType == ASSUME NEW i \in Nat PROVE NextProvider(i) \in Nat
<1>. DEFINE later == {p \in FeedProviders : p >= i /\ IsConfigured[p]}
<1>1. CASE later = {}
    BY <1>1 DEF NextProvider
<1>2. CASE later # {}
    <2>1. later \subseteq Nat
        BY DealFeedAssumption DEF FeedProviders
    <2>2. PICK n \in later : TRUE
        BY <1>2
    <2>3. \E p \in later : \A q \in later : p <= q
        <3>. DEFINE R == {ss \in Nat \X Nat : ss[1] < ss[2]}
        <3>1. IsWellFoundedOn(R, Nat)
            BY NatLessThanWellFounded DEF OpToRel
        <3>. HIDE DEF R
        <3>2. PICK p \in later : \A q \in later : <<q, p>> \notin R
            BY <2>1, <2>2, <3>1, WFMin
        <3>3. \A q \in later : ~(q < p)
            BY <2>1, <3>2 DEF R
        <3>. QED  BY <2>1, <3>3
    <2>. QED  BY <1>2, <2>1, <2>3 DEF NextProvider
<1>. QED  BY <1>1, <1>2

\* The price simulateDrop falls back to is a price.
LEMMA DropTargetType ==
    ASSUME NEW k \in Click, k.price \in Nat
    PROVE  DropTarget(k) \in Nat
<1>1. (k.price * 85 + 50) \div 100 \in Nat
    <2>. DEFINE n == k.price * 85 + 50
    <2>1. n \in Nat
        OBVIOUS
    <2>. HIDE DEF n
    <2>2. n \div 100 \in Nat
        BY <2>1
    <2>. QED  BY <2>2 DEF n
<1>. QED  BY <1>1 DEF DropTarget, Click

\* A click that is over, or fails, is typed again.
LEMMA ClickOver ==
    ASSUME FeedTypeInv, NEW c \in Clicks, click' = [click EXCEPT ![c] = NoClick],
           UNCHANGED <<refresh, crawl, overlapped>>,
           deal' \in [DealIds -> Deal \cup {None}],
           acked' \subseteq DealIds, announced' \subseteq DealIds
    PROVE  FeedTypeInv'
<1>1. NoClick \in Click
    BY DEF NoClick, Click
<1>2. FeedTypeOK'
    BY <1>1 DEF FeedTypeInv, FeedTypeOK
<1>3. ClickOK'
    BY DEF FeedTypeInv, FeedTypeOK, ClickOK, NoClick
<1>. QED  BY <1>2, <1>3 DEF FeedTypeInv

\* Every step keeps the types.
LEMMA NextTypeInv == FeedTypeInv /\ [FeedNext]_feedVars => FeedTypeInv'
<1>. SUFFICES ASSUME FeedTypeInv, [FeedNext]_feedVars PROVE FeedTypeInv'
    OBVIOUS
<1>. USE DEF FeedTypeInv
<1>1. ASSUME NEW f \in Refreshes, Discover(f) \/ DiscoverLegacy(f)
      PROVE  FeedTypeInv'
    <2>1. PICK r \in Refresh : refresh' = [refresh EXCEPT ![f] = r]
        <3>1. CASE Discover(f)
            <4>1. PICK q \in Queries \cup {None} :
                      refresh' = [refresh EXCEPT ![f] =
                          [NewRefresh EXCEPT
                              !.pc = IF NextProvider(1) = 0 THEN "done" ELSE "search",
                              !.at = NextProvider(1), !.query = Effective(q)]]
                BY <3>1 DEF Discover
            <4>2. Effective(q) \in Queries
                BY DealsAssumption DEF Effective
            <4>. QED  BY <4>1, <4>2, NewRefreshType, FeedNextType DEF Refresh
        <3>2. CASE DiscoverLegacy(f)
            BY <3>2, NewRefreshType DEF DiscoverLegacy, Refresh
        <3>. QED  BY <1>1, <3>1, <3>2
    <2>2. UNCHANGED <<deal, click, crawl, acked, announced, overlapped>>
        BY <1>1 DEF Discover, DiscoverLegacy
    <2>. QED  BY <2>1, <2>2, RefreshTyped DEF FeedTypeOK
<1>2. ASSUME NEW f \in Refreshes, Sync(f)
      PROVE  FeedTypeInv'
    <2>1. PICK r \in Refresh : refresh' = [refresh EXCEPT ![f] = r]
        BY <1>2, NewRefreshType DEF Sync, Refresh
    <2>2. UNCHANGED <<deal, click, crawl, acked, announced, overlapped>>
        BY <1>2 DEF Sync
    <2>. QED  BY <2>1, <2>2, RefreshTyped DEF FeedTypeOK
<1>3. ASSUME NEW f \in Refreshes, RefreshSearch(f)
      PROVE  FeedTypeInv'
    <2>. DEFINE g == refresh[f]
    <2>1. g \in Refresh
        BY DEF FeedTypeOK
    <2>2. NextProvider(g.at + 1) \in Nat
        BY <2>1, FeedNextType DEF Refresh
    <2>3. PICK r \in Refresh : refresh' = [refresh EXCEPT ![f] = r]
        BY <1>3, <2>1, <2>2 DEF RefreshSearch, Refresh
    <2>4. UNCHANGED <<deal, click, crawl, acked, announced, overlapped>>
        BY <1>3 DEF RefreshSearch
    <2>. QED  BY <2>3, <2>4, RefreshTyped DEF FeedTypeOK
<1>4. ASSUME NEW f \in Refreshes, Clear(f)
      PROVE  FeedTypeInv'
    <2>1. [refresh[f] EXCEPT !.pc = "insert"] \in Refresh
        BY DEF FeedTypeOK, Refresh
    <2>2. deal' \in [DealIds -> Deal \cup {None}]
        BY <1>4 DEF Clear, FeedTypeOK
    <2>3. overlapped' \in BOOLEAN
        BY <1>4 DEF Clear, FeedTypeOK
    <2>4. refresh' = [refresh EXCEPT ![f] = [refresh[f] EXCEPT !.pc = "insert"]]
        BY <1>4 DEF Clear
    <2>5. UNCHANGED <<click, crawl, acked, announced>>
        BY <1>4 DEF Clear
    <2>. QED  BY <2>1, <2>2, <2>3, <2>4, <2>5, RefreshTyped
<1>5. ASSUME NEW f \in Refreshes, Insert(f) \/ RefreshFails(f)
      PROVE  FeedTypeInv'
    <2>1. [NewRefresh EXCEPT !.pc = "done"] \in Refresh
        BY NewRefreshType DEF Refresh
    <2>2. deal' \in [DealIds -> Deal \cup {None}]
        <3>1. refresh[f].batch \in Batches
            BY DEF FeedTypeOK, Refresh
        <3>2. ASSUME NEW p \in DOMAIN refresh[f].batch
              PROVE  [category |-> refresh[f].batch[p].category,
                      price |-> refresh[f].batch[p].price,
                      tracked |-> FALSE, target |-> None, touched |-> FALSE] \in Deal
            BY <3>1, BatchType DEF Deal
        <3>3. CASE RefreshFails(f)
            BY <3>3 DEF RefreshFails, FeedTypeOK
        <3>4. CASE Insert(f)
            <4>1. deal' = [d \in DealIds |->
                      IF d[1] = f /\ d[2] \in DOMAIN refresh[f].batch
                      THEN [category |-> refresh[f].batch[d[2]].category,
                            price |-> refresh[f].batch[d[2]].price,
                            tracked |-> FALSE, target |-> None, touched |-> FALSE]
                      ELSE deal[d]]
                BY <3>4 DEF Insert
            <4>. QED  BY <3>2, <4>1 DEF FeedTypeOK
        <3>. QED  BY <1>5, <3>3, <3>4
    <2>3. /\ refresh' = [refresh EXCEPT ![f] = [NewRefresh EXCEPT !.pc = "done"]]
          /\ UNCHANGED <<click, crawl, acked, announced, overlapped>>
        BY <1>5 DEF Insert, RefreshFails
    <2>. QED  BY <2>1, <2>2, <2>3, RefreshTyped DEF FeedTypeOK
<1>6. ASSUME NEW c \in Clicks, ReadDeal(c)
      PROVE  FeedTypeInv'
    <2>1. PICK d \in Live, kind \in {"toggle", "drop"} :
              click' = [click EXCEPT ![c] =
                           [pc |-> kind, id |-> d, tracked |-> deal[d].tracked,
                            price |-> deal[d].price, target |-> deal[d].target]]
        BY <1>6 DEF ReadDeal
    <2>2. d \in DealIds /\ deal[d] \in Deal
        BY DEF Live, FeedTypeOK
    <2>3. [pc |-> kind, id |-> d, tracked |-> deal[d].tracked,
           price |-> deal[d].price, target |-> deal[d].target] \in Click
        BY <2>2 DEF Deal, Click
    <2>4. UNCHANGED <<deal, refresh, crawl, acked, announced, overlapped>>
        BY <1>6 DEF ReadDeal
    <2>5. FeedTypeOK'
        BY <2>1, <2>3, <2>4 DEF FeedTypeOK
    <2>6. ClickOK'
        BY <2>1, <2>2, <2>4 DEF ClickOK, FeedTypeOK, Deal
    <2>. QED  BY <2>5, <2>6
<1>7. ASSUME NEW c \in Clicks, ToggleSave(c)
      PROVE  FeedTypeInv'
    <2>1. click[c] \in Click /\ click[c].id \in DealIds /\ click[c].price \in Nat
        BY <1>7 DEF ToggleSave, ClickOK, FeedTypeOK
    <2>2. acked' \subseteq DealIds /\ announced' \subseteq DealIds
        <3>1. CASE click[c].id \notin Live
            BY <1>7, <3>1 DEF ToggleSave, FeedTypeOK
        <3>2. CASE click[c].id \in Live
            <4>1. /\ acked' = IF click[c].tracked THEN acked \ {click[c].id}
                              ELSE acked \cup {click[c].id}
                  /\ announced' = announced \ {click[c].id}
                BY <1>7, <3>2 DEF ToggleSave
            <4>. QED  BY <2>1, <4>1 DEF FeedTypeOK
        <3>. QED  BY <3>1, <3>2
    <2>3. deal' \in [DealIds -> Deal \cup {None}]
        <3>1. CASE click[c].id \notin Live
            BY <1>7, <3>1 DEF ToggleSave, FeedTypeOK
        <3>2. CASE click[c].id \in Live
            <4>1. PICK target \in Nat :
                      deal' = [deal EXCEPT ![click[c].id].tracked = ~click[c].tracked,
                                           ![click[c].id].target = Saved(click[c].target, target, @),
                                           ![click[c].id].touched = TRUE]
                BY <1>7, <2>1, <3>2, DealFeedAssumption DEF ToggleSave
            <4>2. deal[click[c].id] \in Deal
                BY <2>1, <3>2 DEF Live, FeedTypeOK
            <4>3. [deal[click[c].id] EXCEPT !.tracked = ~click[c].tracked,
                       !.target = Saved(click[c].target, target, @),
                       !.touched = TRUE] \in Deal
                BY <2>1, <4>2 DEF Deal, Saved, Click
            <4>. QED  BY <2>1, <4>1, <4>2, <4>3 DEF FeedTypeOK
        <3>. QED  BY <3>1, <3>2
    <2>4. click' = [click EXCEPT ![c] = NoClick] /\ UNCHANGED <<refresh, crawl, overlapped>>
        BY <1>7 DEF ToggleSave
    <2>. QED  BY <2>2, <2>3, <2>4, ClickOver
<1>8. ASSUME NEW c \in Clicks, DropSave(c)
      PROVE  FeedTypeInv'
    <2>1. click[c] \in Click /\ click[c].id \in DealIds /\ click[c].price \in Nat
        BY <1>8 DEF DropSave, ClickOK, FeedTypeOK
    <2>2. acked' \subseteq DealIds /\ announced' \subseteq DealIds
        BY <1>8, <2>1 DEF DropSave, FeedTypeOK
    <2>3. deal' \in [DealIds -> Deal \cup {None}]
        <3>1. CASE click[c].id \notin Live
            BY <1>8, <3>1 DEF DropSave, FeedTypeOK
        <3>2. CASE click[c].id \in Live
            <4>1. PICK target \in Nat :
                      deal' = [deal EXCEPT ![click[c].id].price = Saved(click[c].price, target, @),
                                           ![click[c].id].target = Saved(click[c].target, target, @),
                                           ![click[c].id].tracked = Saved(click[c].tracked, TRUE, @),
                                           ![click[c].id].touched = TRUE]
                <5>1. DropTarget(click[c]) \in Nat
                    BY <2>1, DropTargetType
                <5>. QED  BY <1>8, <3>2, <5>1, DealFeedAssumption DEF DropSave
            <4>2. deal[click[c].id] \in Deal
                BY <2>1, <3>2 DEF Live, FeedTypeOK
            <4>3. [deal[click[c].id] EXCEPT !.price = Saved(click[c].price, target, @),
                       !.target = Saved(click[c].target, target, @),
                       !.tracked = Saved(click[c].tracked, TRUE, @),
                       !.touched = TRUE] \in Deal
                BY <2>1, <4>2 DEF Deal, Saved, Click
            <4>. QED  BY <2>1, <4>1, <4>2, <4>3 DEF FeedTypeOK
        <3>. QED  BY <3>1, <3>2
    <2>4. click' = [click EXCEPT ![c] = NoClick] /\ UNCHANGED <<refresh, crawl, overlapped>>
        BY <1>8 DEF DropSave
    <2>. QED  BY <2>2, <2>3, <2>4, ClickOver
<1>9. ASSUME NEW c \in Clicks, ClickFails(c)
      PROVE  FeedTypeInv'
    BY <1>9, ClickOver DEF ClickFails, FeedTypeOK
<1>10. ASSUME Wipe
       PROVE  FeedTypeInv'
    BY <1>10 DEF Wipe, FeedTypeOK, ClickOK
<1>11. ASSUME CrawlRead \/ CrawlFails \/ \E d \in DealIds : CrawlNotify(d)
       PROVE  FeedTypeInv'
    BY <1>11 DEF CrawlRead, CrawlFails, CrawlNotify, Dropped, Tracked, Live, FeedTypeOK, ClickOK
<1>12. ASSUME UNCHANGED feedVars
       PROVE  FeedTypeInv'
    BY <1>12 DEF feedVars, FeedTypeOK, ClickOK
<1>. QED
    BY <1>1, <1>2, <1>3, <1>4, <1>5, <1>6, <1>7, <1>8, <1>9, <1>10, <1>11, <1>12 DEF FeedNext

\* The deals, refreshes and clicks stay well typed.
THEOREM FeedTypeCorrect == FeedSpec => []FeedTypeOK
<1>1. FeedTypeInv => FeedTypeOK
    BY DEF FeedTypeInv
<1>. QED  BY FeedInitType, NextTypeInv, <1>1, PTL DEF FeedSpec

-----------------------------------------------------------------------------
(***************************************************************************)
(* The feed.  A deal is there only once the refresh it is named by is      *)
(* over, so that an insertion never writes over one; what is tracked has   *)
(* been touched.  Unless two refreshes overlapped, one at a time inserts,  *)
(* and the untouched deals of its categories are gone by then.             *)
(***************************************************************************)
TrackedTouched == \A d \in Live : deal[d].tracked => deal[d].touched
InsertedDone == \A d \in Live : refresh[d[1]].pc = "done"

Inserting(f) == refresh[f].pc = "insert"

OneInserts == \A f, h \in Refreshes : Inserting(f) /\ Inserting(h) => f = h

Cleared ==
    \A f \in Refreshes, d \in Live : Inserting(f) /\ ~deal[d].touched =>
        \A p \in DOMAIN refresh[f].batch : refresh[f].batch[p].category # deal[d].category

FeedInv ==
    /\ FeedTypeInv
    /\ TrackedTouched
    /\ InsertedDone
    /\ AckedTrackingKept
    /\ ~overlapped => OneInserts /\ Cleared
    /\ OneBatchPerCategory

\* It holds of an empty feed.
LEMMA InitFeed == FeedInit => FeedInv
<1>. SUFFICES ASSUME FeedInit PROVE FeedInv
    OBVIOUS
<1>1. Live = {}
    BY DEF FeedInit, Live
<1>2. \A f \in Refreshes : ~Inserting(f)
    BY DEF FeedInit, Inserting, NewRefresh
<1>3. acked = {}
    BY DEF FeedInit
<1>. QED
    BY <1>1, <1>2, <1>3, FeedInitType
    DEF FeedInv, TrackedTouched, InsertedDone, AckedTrackingKept, OneInserts, Cleared,
        OneBatchPerCategory

\* Steps that leave the deals alone and bring no refresh to its insertion.
LEMMA QuietKeeps ==
    ASSUME FeedInv, FeedTypeInv', UNCHANGED <<deal, acked, overlapped>>,
           \A f \in Refreshes : \/ refresh'[f] = refresh[f]
                                \/ refresh[f].pc # "done" /\ refresh'[f].pc # "insert"
    PROVE  FeedInv'
<1>1. Live' = Live /\ Tracked' = Tracked
    BY DEF Live, Tracked
<1>2. TrackedTouched' /\ AckedTrackingKept' /\ OneBatchPerCategory'
    BY <1>1 DEF FeedInv, TrackedTouched, AckedTrackingKept, OneBatchPerCategory
<1>3. InsertedDone'
    <2>1. \A d \in Live : d[1] \in Refreshes
        BY DEF Live, DealIds
    <2>. QED  BY <1>1, <2>1 DEF FeedInv, InsertedDone
<1>4. \A f \in Refreshes : Inserting(f)' => Inserting(f) /\ refresh'[f] = refresh[f]
    BY DEF Inserting
<1>5. ~overlapped' => OneInserts' /\ Cleared'
    BY <1>1, <1>4 DEF FeedInv, OneInserts, Cleared
<1>. QED  BY <1>2, <1>3, <1>5 DEF FeedInv

\* The saves of a click, which touch one deal and keep its category.
LEMMA TouchKeeps ==
    ASSUME FeedInv, FeedTypeInv', UNCHANGED <<refresh, overlapped>>, NEW i \in Live,
           Live' = Live, \A d \in Live : d # i => deal'[d] = deal[d],
           deal'[i].category = deal[i].category, deal'[i].touched = TRUE,
           AckedTrackingKept'
    PROVE  FeedInv'
<1>1. TrackedTouched'
    BY DEF FeedInv, TrackedTouched
<1>2. InsertedDone'
    BY DEF FeedInv, InsertedDone
<1>3. \A d \in Live' : ~deal'[d].touched => ~deal[d].touched /\ deal'[d] = deal[d]
    OBVIOUS
<1>4. ~overlapped' => OneInserts' /\ Cleared'
    BY <1>3 DEF FeedInv, OneInserts, Cleared, Inserting
<1>5. OneBatchPerCategory'
    BY <1>3 DEF FeedInv, OneBatchPerCategory
<1>. QED  BY <1>1, <1>2, <1>4, <1>5 DEF FeedInv

\* toggleTrack and simulateDrop, whether or not the deal is still there.
LEMMA SavesKeep ==
    ASSUME FeedInv, FeedTypeInv', NEW c \in Clicks, ToggleSave(c) \/ DropSave(c)
    PROVE  FeedInv'
<1>. DEFINE k == click[c]
            i == k.id
<1>. USE DEF FeedTypeInv
<1>1. k \in Click /\ i \in DealIds /\ k.price \in Nat
    BY DEF FeedInv, FeedTypeOK, ClickOK, ToggleSave, DropSave
<1>2. UNCHANGED <<refresh, overlapped>>
    BY DEF ToggleSave, DropSave
<1>3. CASE i \notin Live
    <2>1. UNCHANGED <<deal, acked>>
        BY <1>3 DEF ToggleSave, DropSave
    <2>. QED  BY <1>2, <2>1, QuietKeeps
<1>4. CASE i \in Live /\ ToggleSave(c)
    <2>1. PICK target \in Nat :
              deal' = [deal EXCEPT ![i].tracked = ~k.tracked,
                                   ![i].target = Saved(k.target, target, @),
                                   ![i].touched = TRUE]
        BY <1>1, <1>4, DealFeedAssumption DEF ToggleSave
    <2>2. acked' = IF k.tracked THEN acked \ {i} ELSE acked \cup {i}
        BY <1>4 DEF ToggleSave
    <2>3. deal[i] \in Deal
        BY <1>1, <1>4 DEF FeedInv, FeedTypeOK, Live
    <2>4. deal'[i] = [deal[i] EXCEPT !.tracked = ~k.tracked,
                          !.target = Saved(k.target, target, @), !.touched = TRUE]
        BY <1>1, <2>1 DEF FeedInv, FeedTypeOK
    <2>5. /\ deal'[i] \in Deal /\ deal'[i].tracked = ~k.tracked
          /\ deal'[i].touched = TRUE /\ deal'[i].category = deal[i].category
        BY <1>1, <2>3, <2>4 DEF Deal, Saved, Click
    <2>6. \A d \in DealIds : d # i => deal'[d] = deal[d]
        BY <1>1, <2>1 DEF FeedInv, FeedTypeOK
    <2>7. Live' = Live
        BY <1>4, <2>5, <2>6, NoDealAssumption DEF Live
    <2>8. AckedTrackingKept'
        BY <1>4, <2>2, <2>5, <2>6, <2>7 DEF FeedInv, AckedTrackingKept, Tracked, Live
    <2>. QED  BY <1>2, <1>4, <2>5, <2>6, <2>7, <2>8, TouchKeeps DEF Live
<1>5. CASE i \in Live /\ DropSave(c)
    <2>1. DropTarget(k) \in Nat
        BY <1>1, DropTargetType
    <2>2. PICK target \in Nat :
              deal' = [deal EXCEPT ![i].price = Saved(k.price, target, @),
                                   ![i].target = Saved(k.target, target, @),
                                   ![i].tracked = Saved(k.tracked, TRUE, @),
                                   ![i].touched = TRUE]
        BY <1>5, <2>1, DealFeedAssumption DEF DropSave
    <2>3. deal[i] \in Deal
        BY <1>1, <1>5 DEF FeedInv, FeedTypeOK, Live
    <2>4. deal'[i] = [deal[i] EXCEPT !.price = Saved(k.price, target, @),
                          !.target = Saved(k.target, target, @),
                          !.tracked = Saved(k.tracked, TRUE, @), !.touched = TRUE]
        BY <1>1, <2>2 DEF FeedInv, FeedTypeOK
    <2>5. /\ deal'[i] \in Deal /\ (deal[i].tracked => deal'[i].tracked)
          /\ deal'[i].touched = TRUE /\ deal'[i].category = deal[i].category
        BY <1>1, <2>3, <2>4 DEF Deal, Saved, Click
    <2>6. \A d \in DealIds : d # i => deal'[d] = deal[d]
        BY <1>1, <2>2 DEF FeedInv, FeedTypeOK
    <2>7. Live' = Live
        BY <1>5, <2>5, <2>6, NoDealAssumption DEF Live
    <2>8. acked' = acked
        BY <1>5 DEF DropSave
    <2>9. AckedTrackingKept'
        BY <2>5, <2>6, <2>7, <2>8 DEF FeedInv, AckedTrackingKept, Tracked, Live
    <2>. QED  BY <1>2, <1>5, <2>5, <2>6, <2>7, <2>9, TouchKeeps DEF Live
<1>. QED  BY <1>3, <1>4, <1>5

\* Every step of a refresh, a click, the wipe and the crawler keeps it.
LEMMA NextFeed == FeedInv /\ [FeedNext]_feedVars => FeedInv'
<1>. SUFFICES ASSUME FeedInv, [FeedNext]_feedVars PROVE FeedInv'
    OBVIOUS
<1>0. FeedTypeInv' /\ FeedTypeInv
    BY NextTypeInv DEF FeedInv
<1>1. ASSUME NEW f \in Refreshes,
             Discover(f) \/ DiscoverLegacy(f) \/ Sync(f) \/ RefreshSearch(f) \/ RefreshFails(f)
      PROVE  FeedInv'
    <2>1. UNCHANGED <<deal, acked, overlapped>>
        BY <1>1 DEF Discover, DiscoverLegacy, Sync, RefreshSearch, RefreshFails
    <2>2. \A h \in Refreshes \ {f} : refresh'[h] = refresh[h]
        BY <1>0, <1>1
        DEF Discover, DiscoverLegacy, Sync, RefreshSearch, RefreshFails, FeedTypeInv, FeedTypeOK
    <2>3. refresh[f].pc # "done"
        BY <1>1 DEF Discover, DiscoverLegacy, Sync, RefreshSearch, RefreshFails
    <2>4. refresh'[f].pc # "insert"
        <3>1. CASE Discover(f) \/ DiscoverLegacy(f)
            BY <1>0, <3>1 DEF Discover, DiscoverLegacy, NewRefresh, FeedTypeInv, FeedTypeOK
        <3>2. CASE Sync(f) \/ RefreshFails(f)
            BY <1>0, <3>2 DEF Sync, RefreshFails, NewRefresh, FeedTypeInv, FeedTypeOK
        <3>3. CASE RefreshSearch(f)
            BY <1>0, <3>3 DEF RefreshSearch, Refresh, FeedTypeInv, FeedTypeOK
        <3>. QED  BY <1>1, <3>1, <3>2, <3>3
    <2>. QED  BY <1>0, <2>1, <2>2, <2>3, <2>4, QuietKeeps
<1>2. ASSUME NEW f \in Refreshes, Clear(f)
      PROVE  FeedInv'
    <2>. DEFINE g == refresh[f]
                cats == {g.batch[p].category : p \in DOMAIN g.batch}
                Goes(d) == d \in Live /\ Replaces(g.query, cats, deal[d])
    <2>1. /\ g.pc = "clear"
          /\ deal' = [d \in DealIds |-> IF Goes(d) THEN None ELSE deal[d]]
          /\ refresh' = [refresh EXCEPT ![f] = [g EXCEPT !.pc = "insert"]]
          /\ overlapped' = (overlapped \/ \E h \in Refreshes : refresh[h].pc = "insert")
          /\ acked' = acked
        BY <1>2 DEF Clear
    <2>2. \A d \in DealIds : d \in Live' <=> d \in Live /\ ~Goes(d)
        BY <2>1 DEF Live
    <2>3. \A d \in Live' : d \in Live /\ deal'[d] = deal[d]
        BY <2>1, <2>2 DEF Live
    <2>4. TrackedTouched' /\ OneBatchPerCategory'
        <3>1. ~overlapped' => ~overlapped
            BY <1>0, <2>1 DEF FeedTypeInv, FeedTypeOK
        <3>2. TrackedTouched'
            BY <2>3, Zenon DEF FeedInv, TrackedTouched
        <3>3. OneBatchPerCategory'
            BY <2>3, <3>1, Zenon DEF FeedInv, OneBatchPerCategory
        <3>. QED  BY <3>2, <3>3
    <2>5. InsertedDone'
        <3>1. \A d \in Live : d[1] # f /\ d[1] \in Refreshes
            BY <2>1 DEF FeedInv, InsertedDone, Live, DealIds
        <3>. QED  BY <1>0, <2>1, <2>3, <3>1 DEF FeedInv, InsertedDone, FeedTypeInv, FeedTypeOK
    <2>6. AckedTrackingKept'
        <3>1. ASSUME NEW d \in acked'
              PROVE  d \in Tracked'
            <4>1. d \in Live /\ deal[d].tracked
                BY <2>1, <3>1 DEF FeedInv, AckedTrackingKept, Tracked
            <4>2. ~Goes(d)
                BY <4>1 DEF Replaces
            <4>. QED  BY <2>2, <2>3, <4>1, <4>2 DEF Tracked, Live
        <3>. QED  BY <3>1 DEF AckedTrackingKept
    <2>7. ASSUME ~overlapped'
          PROVE  OneInserts' /\ Cleared'
        <3>1. \A h \in Refreshes : ~Inserting(h)
            BY <2>1, <2>7 DEF Inserting
        <3>2. \A h \in Refreshes : Inserting(h)' => h = f
            BY <1>0, <2>1, <3>1 DEF Inserting, FeedTypeInv, FeedTypeOK
        <3>3. refresh'[f].batch = g.batch
            BY <1>0, <2>1 DEF FeedTypeInv, FeedTypeOK, Refresh
        <3>4. ASSUME NEW d \in Live', ~deal'[d].touched, NEW p \in DOMAIN g.batch
              PROVE  g.batch[p].category # deal'[d].category
            <4>1. d \in Live /\ deal'[d] = deal[d] /\ ~Goes(d)
                BY <2>2, <2>3 DEF Live
            <4>2. ~deal[d].tracked
                BY <3>4, <4>1 DEF FeedInv, TrackedTouched
            <4>3. deal[d].category \notin cats
                BY <4>1, <4>2 DEF Replaces
            <4>. QED  BY <4>1, <4>3
        <3>. QED  BY <3>2, <3>3, <3>4 DEF OneInserts, Cleared
    <2>. QED  BY <1>0, <2>4, <2>5, <2>6, <2>7 DEF FeedInv
<1>3. ASSUME NEW f \in Refreshes, Insert(f)
      PROVE  FeedInv'
    <2>. DEFINE g == refresh[f]
                Comes(d) == d[1] = f /\ d[2] \in DOMAIN g.batch
                New(p) == [category |-> g.batch[p].category, price |-> g.batch[p].price,
                           tracked |-> FALSE, target |-> None, touched |-> FALSE]
    <2>1. /\ g.pc = "insert"
          /\ deal' = [d \in DealIds |-> IF Comes(d) THEN New(d[2]) ELSE deal[d]]
          /\ refresh' = [refresh EXCEPT ![f] = [NewRefresh EXCEPT !.pc = "done"]]
          /\ acked' = acked /\ overlapped' = overlapped
        BY <1>3 DEF Insert
    <2>2. \A d \in Live : d[1] # f /\ d \in DealIds
        BY <2>1 DEF FeedInv, InsertedDone, Live
    <2>3. \A d \in Live : d \in Live' /\ deal'[d] = deal[d]
        BY <2>1, <2>2 DEF Live
    <2>4. \A d \in Live' : d \in Live \/ (Comes(d) /\ deal'[d] = New(d[2]))
        BY <2>1 DEF Live
    <2>5. TrackedTouched'
        <3>1. ASSUME NEW d \in Live', deal'[d].tracked
              PROVE  deal'[d].touched
            <4>1. d \in Live
                <5>1. New(d[2]).tracked = FALSE
                    OBVIOUS
                <5>. HIDE DEF New
                <5>. QED  BY <2>4, <3>1, <5>1, Zenon
            <4>. QED  BY <2>3, <3>1, <4>1, Zenon DEF FeedInv, TrackedTouched
        <3>. QED  BY <3>1 DEF TrackedTouched
    <2>6. InsertedDone'
        <3>1. refresh'[f].pc = "done" /\ \A h \in Refreshes \ {f} : refresh'[h] = refresh[h]
            BY <1>0, <2>1 DEF NewRefresh, FeedTypeInv, FeedTypeOK
        <3>2. \A d \in Live' : d[1] \in Refreshes
            BY DEF Live, DealIds
        <3>. QED  BY <2>4, <3>1, <3>2 DEF FeedInv, InsertedDone
    <2>7. AckedTrackingKept'
        BY <2>1, <2>3 DEF FeedInv, AckedTrackingKept, Tracked
    <2>8. ASSUME ~overlapped'
          PROVE  OneInserts' /\ Cleared'
        <3>1. \A h \in Refreshes : Inserting(h) => h = f
            BY <2>1, <2>8 DEF FeedInv, OneInserts, Inserting
        <3>2. \A h \in Refreshes : ~Inserting(h)'
            BY <1>0, <2>1, <3>1 DEF Inserting, NewRefresh, FeedTypeInv, FeedTypeOK
        <3>. QED  BY <3>2 DEF OneInserts, Cleared
    <2>9. OneBatchPerCategory'
        <3>1. SUFFICES ASSUME ~overlapped', NEW d \in Live', NEW e \in Live',
                              ~deal'[d].touched, ~deal'[e].touched,
                              deal'[d].category = deal'[e].category
                       PROVE  d[1] = e[1]
            BY DEF OneBatchPerCategory
        <3>2. ASSUME NEW x \in Live, ~deal[x].touched, NEW p \in DOMAIN g.batch
              PROVE  deal[x].category # New(p).category
            BY <2>1, <2>8, <3>1, <3>2 DEF FeedInv, Cleared, Inserting
        <3>3. CASE d \in Live /\ e \in Live
            BY <2>1, <2>3, <3>1, <3>3 DEF FeedInv, OneBatchPerCategory
        <3>4. CASE d \notin Live /\ e \notin Live
            <4>1. Comes(d) /\ Comes(e)
                BY <2>4, <3>4
            <4>. QED  BY <4>1
        <3>5. CASE d \in Live /\ e \notin Live
            <4>1. Comes(e) /\ deal'[e] = New(e[2])
                BY <2>4, <3>5
            <4>2. deal'[d] = deal[d]
                BY <2>3, <3>5
            <4>. HIDE DEF New
            <4>. QED  BY <3>1, <3>2, <3>5, <4>1, <4>2, Zenon
        <3>6. CASE d \notin Live /\ e \in Live
            <4>1. Comes(d) /\ deal'[d] = New(d[2])
                BY <2>4, <3>6
            <4>2. deal'[e] = deal[e]
                BY <2>3, <3>6
            <4>. HIDE DEF New
            <4>. QED  BY <3>1, <3>2, <3>6, <4>1, <4>2, Zenon
        <3>. QED  BY <3>3, <3>4, <3>5, <3>6
    <2>. QED  BY <1>0, <2>5, <2>6, <2>7, <2>8, <2>9 DEF FeedInv
<1>4. ASSUME NEW c \in Clicks, ReadDeal(c) \/ ClickFails(c)
      PROVE  FeedInv'
    BY <1>0, <1>4, QuietKeeps DEF ReadDeal, ClickFails
<1>5. ASSUME NEW c \in Clicks, ToggleSave(c)
      PROVE  FeedInv'
    BY <1>0, <1>5, SavesKeep
<1>6. ASSUME NEW c \in Clicks, DropSave(c)
      PROVE  FeedInv'
    BY <1>0, <1>6, SavesKeep
<1>7. ASSUME Wipe
      PROVE  FeedInv'
    <2>1. Live' = {} /\ acked' = {} /\ UNCHANGED <<refresh, overlapped>>
        BY <1>7 DEF Wipe, Live
    <2>. QED
        BY <1>0, <2>1
        DEF FeedInv, TrackedTouched, InsertedDone, AckedTrackingKept, OneInserts, Cleared,
            OneBatchPerCategory, Inserting
<1>8. ASSUME CrawlRead \/ CrawlFails \/ \E d \in DealIds : CrawlNotify(d)
      PROVE  FeedInv'
    BY <1>0, <1>8, QuietKeeps DEF CrawlRead, CrawlFails, CrawlNotify
<1>9. ASSUME UNCHANGED feedVars
      PROVE  FeedInv'
    BY <1>0, <1>9, QuietKeeps DEF feedVars
<1>. QED
    BY <1>1, <1>2, <1>3, <1>4, <1>5, <1>6, <1>7, <1>8, <1>9 DEF FeedNext

\* What a toggle has confirmed stays in the feed and tracked, for any number of refreshes,
\* clicks and deals.
THEOREM AckedKept == FeedSpec => []AckedTrackingKept
<1>1. FeedInv => AckedTrackingKept
    BY DEF FeedInv
<1>. QED  BY InitFeed, NextFeed, <1>1, PTL DEF FeedSpec

\* A category's untouched deals come from one refresh unless two overlapped.
THEOREM OneBatchKept == FeedSpec => []OneBatchPerCategory
<1>1. FeedInv => OneBatchPerCategory
    BY DEF FeedInv
<1>. QED  BY InitFeed, NextFeed, <1>1, PTL DEF FeedSpec

----------------------------------------------------------------------------
(***************************************************************************)
(* The search: its types, LatestListingKept, LowIsEarned and               *)
(* CacheServesOwnSearch.                                                   *)
(*                                                                         *)
(* KeptInv: an offer that is not doubtful is awaited by at most one        *)
(* search, and that has its latest listing; while none awaits it, the      *)
(* offer has it.  LowInv: a price that an offer has, that a search holds   *)
(* or that an answer showed is covered: a price as low is in the history   *)
(* of the offer, or on its way there, or an observation was lost.          *)
(* FoundInv: of what a log entry of page 1 names, each was found at its    *)
(* provider for its query when the entry was written, or later.            *)
(***************************************************************************)

----------------------------------------------------------------------------
(* Types *)

\* A value for some of the products.
Partial(V) == UNION {[S -> V] : S \in SUBSET Products}

Request == [pc : {"new", "cache", "search", "ingest", "present", "done"},
            query : Keys, page : {1, 2}, at : 0..2,
            todo : Partial(Nat), unrecorded : SUBSET Products, held : Partial(Offer),
            via : {"none", "cache", "mixed", "provider"}, low : SUBSET Products]

\* At a provider while under way; with findings, and before that with some to be stored,
\* only from the ingestion on.
WellFormed(g) ==
    /\ g \in Request
    /\ g.pc \notin {"new", "done"} => g.at \in 1..2
    /\ g.pc \notin {"ingest", "present"} => DOMAIN g.held = {}
    /\ g.pc # "ingest" => DOMAIN g.todo = {} /\ g.unrecorded = {}
    /\ g.unrecorded \subseteq DOMAIN g.held
    /\ DOMAIN g.todo \cap DOMAIN g.held = {}
    /\ g.pc # "done" => g.low = {}

LogEntry == [ids : SUBSET Products, at : Nat, later : BOOLEAN]

TypeInv ==
    /\ offer \in [Offers -> Offer \cup {None}]
    /\ history \in [Offers -> [low : Nat, n : 0..2]]
    /\ log \in [Providers \X Keys -> LogEntry \cup {None}]
    /\ DOMAIN req = Requests /\ \A r \in Requests : WellFormed(req[r])
    /\ now \in 0..MaxTime
    /\ shownLow \in [Offers -> Nat]
    /\ DOMAIN latest = Offers

\* A value for no products.
LEMMA NoOffersType == DOMAIN NoOffers = {} /\ \A V : NoOffers \in Partial(V)
<1>1. \A V : << >> \in [{} -> V] /\ DOMAIN << >> = {}
    OBVIOUS
<1>. QED  BY <1>1 DEF NoOffers, Partial

\* The values of some products.
LEMMA PartialIs ==
    ASSUME NEW V, NEW f \in Partial(V)
    PROVE  DOMAIN f \subseteq Products /\ \A p \in DOMAIN f : f[p] \in V
BY DEF Partial

\* A partial function with one value less.
LEMMA WithoutType ==
    ASSUME NEW V, NEW f \in Partial(V), NEW p
    PROVE  /\ Without(f, p) \in Partial(V)
           /\ DOMAIN Without(f, p) = DOMAIN f \ {p}
           /\ \A x \in DOMAIN f \ {p} : Without(f, p)[x] = f[x]
<1>. DEFINE D == DOMAIN f \ {p}
<1>1. D \in SUBSET Products /\ \A x \in D : f[x] \in V
    BY PartialIs
<1>. HIDE DEF D
<1>2. [x \in D |-> f[x]] \in [D -> V]
    BY <1>1
<1>3. Without(f, p) = [x \in D |-> f[x]]
    BY DEF Without, D
<1>4. Without(f, p) \in Partial(V)
    BY <1>1, <1>2, <1>3 DEF Partial
<1>. QED  BY <1>3, <1>4 DEF D

\* A partial function with one value more.
LEMMA WithType ==
    ASSUME NEW V, NEW f \in Partial(V), NEW p \in Products, NEW v \in V
    PROVE  [x \in DOMAIN f \cup {p} |-> IF x = p THEN v ELSE f[x]] \in Partial(V)
<1>. DEFINE D == DOMAIN f \cup {p}
<1>1. D \in SUBSET Products /\ \A x \in D : x # p => f[x] \in V
    BY PartialIs
<1>. HIDE DEF D
<1>2. [x \in D |-> IF x = p THEN v ELSE f[x]] \in [D -> V]
    BY <1>1
<1>3. [x \in D |-> IF x = p THEN v ELSE f[x]] \in Partial(V)
    BY <1>1, <1>2 DEF Partial
<1>. QED  BY <1>3 DEF D

\* A new request has nothing.
LEMMA NewType == WellFormed(NewRequest)
BY NoOffersType DEF NewRequest, WellFormed, Request, Keys

\* What the next turn makes of a request.
LEMMA TurnType ==
    ASSUME NEW g, g.query \in Keys, g.page \in {1, 2}, g.at \in 0..2
    PROVE  /\ WellFormed(NextTurn(g)) /\ NextTurn(g).low = {}
           /\ NextTurn(g).pc \in {"done", "cache", "search"}
<1>. DEFINE later == {i \in g.at + 1 .. Len(Registry) : Registry[i] \in Configured}
            first == CHOOSE i \in later : \A j \in later : i <= j
<1>1. later \subseteq 1..2
    BY DEF Registry
<1>2. CASE later = {}
    <2>1. NextTurn(g) = [NewRequest EXCEPT !.pc = "done"]
        BY <1>2 DEF NextTurn
    <2>. QED  BY <2>1, NewType DEF NewRequest, WellFormed, Request
<1>3. CASE later # {}
    <2>1. first \in 1..2
        <3>1. \E i \in later : \A j \in later : i <= j
            <4>1. CASE 1 \in later
                BY <1>1, <4>1
            <4>2. CASE 1 \notin later
                BY <1>1, <1>3, <4>2
            <4>. QED  BY <4>1, <4>2
        <3>. QED  BY <1>1, <3>1
    <2>2. NextTurn(g) = [NewRequest EXCEPT !.pc = IF g.page = 1 THEN "cache" ELSE "search",
                                           !.query = g.query, !.page = g.page, !.at = first]
        BY <1>3 DEF NextTurn
    <2>. HIDE DEF first, later
    <2>. DEFINE pc == IF g.page = 1 THEN "cache" ELSE "search"
    <2>3. NextTurn(g) = [pc |-> pc, query |-> g.query, page |-> g.page, at |-> first,
                         todo |-> NoOffers, unrecorded |-> {}, held |-> NoOffers,
                         via |-> "none", low |-> {}]
        BY <2>2 DEF NewRequest
    <2>4. pc \in {"cache", "search"}
        OBVIOUS
    <2>. HIDE DEF pc
    <2>. QED  BY <2>1, <2>3, <2>4, NoOffersType DEF WellFormed, Request
<1>. QED  BY <1>2, <1>3

\* A provider's deals are prices of products.
LEMMA DealsType ==
    ASSUME NEW prov \in Providers, NEW listing \in Listings[prov], NEW q, NEW page
    PROVE  SearchDeals(prov, listing, q, page) \in Partial(Nat)
<1>. DEFINE raw(p) == CHOOSE x \in listing : x.product = p
            kept == IF prov = "amazon"
                    THEN Relevant(Priced(listing), IF q = None THEN DefaultQuery ELSE q, page > 1)
                    ELSE {p \in Priced(listing) : HasQuery(p, q)}
<1>1. kept \subseteq Priced(listing)
    BY DEF Relevant
<1>2. listing \subseteq [product : Products, price : Nat]
    BY DealSearchAssumption
<1>3. \A p \in Priced(listing) : p \in Products /\ raw(p) \in listing
    BY <1>2 DEF Priced
<1>4. \A p \in kept : raw(p).price \in Nat
    BY <1>1, <1>2, <1>3
<1>5. SearchDeals(prov, listing, q, page) = [p \in kept |-> raw(p).price]
    BY DEF SearchDeals
<1>. HIDE DEF kept, raw
<1>6. kept \in SUBSET Products
    BY <1>1, <1>3
<1>7. [p \in kept |-> raw(p).price] \in Partial(Nat)
    BY <1>4, <1>6 DEF Partial
<1>. QED  BY <1>5, <1>7

\* A step of one request, which leaves it well formed.
LEMMA OneRequest ==
    ASSUME TypeInv, NEW r \in Requests, NEW g, WellFormed(g), req' = [req EXCEPT ![r] = g]
    PROVE  /\ DOMAIN req' = Requests /\ \A s \in Requests : WellFormed(req'[s])
           /\ req'[r] = g /\ \A s \in Requests \ {r} : req'[s] = req[s]
BY DEF TypeInv

\* A request of which a call has thrown is over, or at the next provider.
ThrownFrom(r) ==
    /\ req'[r].pc \notin {"ingest", "present"} /\ req'[r].low = {}
    /\ \A s \in Requests \ {r} : req'[s] = req[s]

\* That is where SearchThrows leaves it.
LEMMA ThrowsTo ==
    ASSUME TypeInv, NEW r \in Requests, SearchThrows(r)
    PROVE  ThrownFrom(r) /\ DOMAIN req' = Requests /\ \A s \in Requests : WellFormed(req'[s])
<1>1. \E g : WellFormed(g) /\ g.pc \notin {"ingest", "present"} /\ g.low = {}
               /\ req' = [req EXCEPT ![r] = g]
    <2>1. /\ WellFormed(NextTurn(req[r])) /\ NextTurn(req[r]).low = {}
          /\ NextTurn(req[r]).pc \notin {"ingest", "present"}
        BY TurnType DEF TypeInv, WellFormed, Request
    <2>2. /\ WellFormed([NewRequest EXCEPT !.pc = "done"])
          /\ [NewRequest EXCEPT !.pc = "done"].pc = "done"
          /\ [NewRequest EXCEPT !.pc = "done"].low = {}
        BY NewType DEF NewRequest, WellFormed, Request
    <2>. QED  BY <2>1, <2>2 DEF SearchThrows
<1>. QED  BY <1>1, OneRequest DEF ThrownFrom

\* What the upsert of p for r leaves behind.
StoredFrom(r, p) ==
    /\ req[r].pc = "ingest"
    /\ offer' = [offer EXCEPT ![<<Provider(r), p>>] = [price |-> req[r].todo[p], at |-> now]]
    /\ req'[r].todo = Without(req[r].todo, p)
    /\ req'[r].pc = "ingest" /\ req'[r].at = req[r].at
    /\ req'[r].unrecorded = req[r].unrecorded \cup {p}
    /\ DOMAIN req'[r].held = DOMAIN req[r].held \cup {p}
    /\ \A x \in DOMAIN req[r].held \ {p} : req'[r].held[x] = req[r].held[x]
    /\ req'[r].held[p] = [price |-> req[r].todo[p], at |-> now]
    /\ \A s \in Requests \ {r} : req'[s] = req[s]
    /\ UNCHANGED <<history, log, now, histVars>>

\* IngestOffer is the upsert of one offer to be stored.
LEMMA Stored ==
    ASSUME TypeInv, NEW r \in Requests, IngestOffer(r)
    PROVE  \E p \in DOMAIN req[r].todo : StoredFrom(r, p)
<1>1. PICK p \in DOMAIN req[r].todo :
          /\ req[r].pc = "ingest"
          /\ offer' = [offer EXCEPT ![<<Provider(r), p>>] = [price |-> req[r].todo[p], at |-> now]]
          /\ req' = [req EXCEPT ![r] =
                [req[r] EXCEPT !.todo = Without(@, p), !.unrecorded = @ \cup {p},
                    !.held = [x \in DOMAIN @ \cup {p} |->
                        IF x = p THEN [price |-> req[r].todo[p], at |-> now] ELSE @[x]]]]
          /\ UNCHANGED <<history, log, now, histVars>>
    BY DEF IngestOffer, Upserted
<1>. DEFINE doc == [price |-> req[r].todo[p], at |-> now]
            t == Without(req[r].todo, p)
            h == [x \in DOMAIN req[r].held \cup {p} |-> IF x = p THEN doc ELSE req[r].held[x]]
            g == [req[r] EXCEPT !.todo = t, !.unrecorded = @ \cup {p}, !.held = h]
<1>2. req' = [req EXCEPT ![r] = g]
    BY <1>1
<1>3. /\ DOMAIN h = DOMAIN req[r].held \cup {p} /\ h[p] = doc
      /\ \A x \in DOMAIN req[r].held \ {p} : h[x] = req[r].held[x]
    OBVIOUS
<1>. HIDE DEF t, h
<1>4. /\ g.todo = t /\ g.held = h /\ g.pc = req[r].pc /\ g.at = req[r].at
      /\ g.unrecorded = req[r].unrecorded \cup {p}
    BY DEF TypeInv, WellFormed, Request
<1>. HIDE DEF g
<1>5. req'[r] = g /\ \A s \in Requests \ {r} : req'[s] = req[s]
    BY <1>2 DEF TypeInv
<1>6. StoredFrom(r, p)
    BY <1>1, <1>3, <1>4, <1>5 DEF StoredFrom, t
<1>. QED  BY <1>6

\* The types hold at the start.
LEMMA InitType == Init => TypeInv
<1>. SUFFICES ASSUME Init PROVE TypeInv
    OBVIOUS
<1>1. Far \in Nat
    BY DEF Far
<1>. QED  BY <1>1, NewType, DealSearchAssumption DEF Init, TypeInv

\* Every action keeps the types.
LEMMA NextType == TypeInv /\ [Next]_vars => TypeInv'
<1>. SUFFICES ASSUME TypeInv, [Next]_vars PROVE TypeInv'
    OBVIOUS
<1>. USE DEF dbVars, histVars
<1>1. ASSUME NEW r \in Requests, Start(r) PROVE TypeInv'
    <2>1. PICK q \in Keys, page \in {1, 2} :
              /\ req' = [req EXCEPT ![r] = NextTurn([@ EXCEPT !.query = q, !.page = page])]
              /\ UNCHANGED <<dbVars, now, histVars>>
        BY <1>1 DEF Start
    <2>. DEFINE g == [req[r] EXCEPT !.query = q, !.page = page]
    <2>2. g.query \in Keys /\ g.page \in {1, 2} /\ g.at \in 0..2
        BY DEF TypeInv, WellFormed, Request
    <2>3. req' = [req EXCEPT ![r] = NextTurn(g)]
        BY <2>1 DEF TypeInv
    <2>. HIDE DEF g
    <2>4. WellFormed(NextTurn(g))
        BY <2>2, TurnType
    <2>5. DOMAIN req' = Requests /\ \A s \in Requests : WellFormed(req'[s])
        BY <2>3, <2>4, OneRequest
    <2>. QED  BY <2>1, <2>5 DEF TypeInv
<1>2. ASSUME NEW r \in Requests, CacheRead(r) PROVE TypeInv'
    <2>. DEFINE S == CachedOffers(r)
                h == [p \in S |-> offer[<<Provider(r), p>>]]
                v == IF S \subseteq RecentLog(r).ids /\ ~RecentLog(r).later
                     THEN "cache" ELSE "mixed"
                g == IF S = {} THEN [req[r] EXCEPT !.pc = "search"]
                     ELSE [req[r] EXCEPT !.pc = "present", !.held = h, !.via = v]
    <2>1. req' = [req EXCEPT ![r] = g] /\ UNCHANGED <<dbVars, now, histVars>>
        BY <1>2 DEF CacheRead
    <2>2. h \in Partial(Offer)
        <3>1. Provider(r) \in Providers
            BY <1>2 DEF CacheRead, Provider, Registry, Providers, TypeInv, WellFormed
        <3>2. S \in SUBSET Products /\ \A p \in S : offer[<<Provider(r), p>>] # None
            BY DEF CachedOffers
        <3>3. \A p \in S : offer[<<Provider(r), p>>] \in Offer
            BY <3>1, <3>2 DEF TypeInv, Offers
        <3>. HIDE DEF S
        <3>. QED  BY <3>2, <3>3 DEF Partial
    <2>3. v \in {"cache", "mixed"}
        OBVIOUS
    <2>4. req[r].pc = "cache" /\ WellFormed(req[r])
        BY <1>2 DEF CacheRead, TypeInv
    <2>5. DOMAIN h = S
        OBVIOUS
    <2>. HIDE DEF h, v, S
    <2>6. WellFormed(g)
        <3>1. CASE S = {}
            BY <3>1, <2>4 DEF WellFormed, Request
        <3>2. CASE S # {}
            BY <3>2, <2>2, <2>3, <2>4 DEF WellFormed, Request
        <3>. QED  BY <3>1, <3>2
    <2>. HIDE DEF g
    <2>7. DOMAIN req' = Requests /\ \A s \in Requests : WellFormed(req'[s])
        BY <2>1, <2>6, OneRequest
    <2>. QED  BY <2>1, <2>7 DEF TypeInv
<1>3. ASSUME NEW r \in Requests, Search(r) PROVE TypeInv'
    <2>1. UNCHANGED <<dbVars, now, shownLow, lost, listed>> /\ req[r].pc = "search"
          /\ WellFormed(req[r])
        BY <1>3 DEF Search, TypeInv
    <2>2. ASSUME NEW listing \in Listings[Provider(r)],
                 NEW deals, deals = SearchDeals(Provider(r), listing, req[r].query, req[r].page),
                 req' = [req EXCEPT ![r].pc = "ingest", ![r].todo = deals],
                 DOMAIN latest' = Offers
          PROVE  TypeInv'
        <3>1. Provider(r) \in Providers
            BY <2>1 DEF Provider, Registry, Providers, WellFormed
        <3>2. deals \in Partial(Nat)
            BY <2>2, <3>1, DealsType
        <3>. DEFINE g == [req[r] EXCEPT !.pc = "ingest", !.todo = deals]
        <3>3. req' = [req EXCEPT ![r] = g]
            BY <2>2 DEF TypeInv
        <3>4. WellFormed(g)
            BY <2>1, <3>2 DEF WellFormed, Request
        <3>. HIDE DEF g
        <3>5. DOMAIN req' = Requests /\ \A s \in Requests : WellFormed(req'[s])
            BY <3>3, <3>4, OneRequest
        <3>. QED  BY <2>1, <2>2, <3>5 DEF TypeInv
    <2>3. CASE req' = [req EXCEPT ![r] = NextTurn(req[r])] /\ UNCHANGED <<latest, doubtful>>
        <3>1. WellFormed(NextTurn(req[r]))
            BY <2>1, TurnType DEF WellFormed, Request
        <3>2. DOMAIN req' = Requests /\ \A s \in Requests : WellFormed(req'[s])
            BY <2>3, <3>1, OneRequest
        <3>. QED  BY <2>1, <2>3, <3>2 DEF TypeInv
    <2>. QED  BY <1>3, <2>2, <2>3 DEF Search
<1>4. ASSUME NEW r \in Requests, IngestOffer(r) PROVE TypeInv'
    <2>1. PICK p \in DOMAIN req[r].todo :
              /\ req[r].pc = "ingest"
              /\ offer' = [offer EXCEPT ![<<Provider(r), p>>] = [price |-> req[r].todo[p], at |-> now]]
              /\ req' = [req EXCEPT ![r] =
                    [req[r] EXCEPT !.todo = Without(@, p), !.unrecorded = @ \cup {p},
                        !.held = [x \in DOMAIN @ \cup {p} |->
                            IF x = p THEN [price |-> req[r].todo[p], at |-> now] ELSE @[x]]]]
              /\ UNCHANGED <<history, log, now, histVars>>
        BY <1>4 DEF IngestOffer, Upserted
    <2>2. WellFormed(req[r]) /\ now \in Nat /\ req[r].todo \in Partial(Nat)
          /\ req[r].held \in Partial(Offer)
        BY DealSearchAssumption DEF TypeInv, WellFormed, Request
    <2>. DEFINE doc == [price |-> req[r].todo[p], at |-> now]
                t == Without(req[r].todo, p)
                h == [x \in DOMAIN req[r].held \cup {p} |->
                         IF x = p THEN doc ELSE req[r].held[x]]
                g == [req[r] EXCEPT !.todo = t, !.unrecorded = @ \cup {p}, !.held = h]
    <2>3. p \in Products /\ doc \in Offer
        BY <2>2, PartialIs DEF Offer
    <2>4. t \in Partial(Nat) /\ DOMAIN t = DOMAIN req[r].todo \ {p}
        <3>1. \A f \in Partial(Nat) : /\ Without(f, p) \in Partial(Nat)
                                     /\ DOMAIN Without(f, p) = DOMAIN f \ {p}
            BY WithoutType
        <3>. HIDE DEF doc
        <3>. QED  BY <2>2, <3>1
    <2>5. h \in Partial(Offer) /\ DOMAIN h = DOMAIN req[r].held \cup {p}
        <3>. HIDE DEF doc
        <3>. QED  BY <2>2, <2>3, WithType
    <2>6. req' = [req EXCEPT ![r] = g]
        BY <2>1
    <2>7. offer' = [offer EXCEPT ![<<Provider(r), p>>] = doc]
        BY <2>1
    <2>. HIDE DEF doc, t, h
    <2>8. WellFormed(g)
        BY <2>1, <2>2, <2>3, <2>4, <2>5 DEF WellFormed, Request
    <2>. HIDE DEF g
    <2>9. DOMAIN req' = Requests /\ \A s \in Requests : WellFormed(req'[s])
        BY <2>6, <2>8, OneRequest
    <2>. QED  BY <2>1, <2>3, <2>7, <2>9 DEF TypeInv
<1>5. ASSUME NEW r \in Requests, IngestFails(r) PROVE TypeInv'
    <2>1. PICK p \in DOMAIN req[r].todo :
              /\ req[r].pc = "ingest"
              /\ req' = [req EXCEPT ![r].todo = Without(@, p)]
              /\ UNCHANGED <<dbVars, now, shownLow, lost, listed, latest>>
        BY <1>5 DEF IngestFails
    <2>2. WellFormed(req[r]) /\ req[r].todo \in Partial(Nat)
        BY DEF TypeInv, WellFormed, Request
    <2>. DEFINE t == Without(req[r].todo, p)
                g == [req[r] EXCEPT !.todo = t]
    <2>3. t \in Partial(Nat) /\ DOMAIN t = DOMAIN req[r].todo \ {p}
        BY <2>2, WithoutType
    <2>4. req' = [req EXCEPT ![r] = g]
        BY <2>1 DEF TypeInv
    <2>. HIDE DEF t
    <2>5. WellFormed(g)
        BY <2>1, <2>2, <2>3 DEF WellFormed, Request
    <2>. HIDE DEF g
    <2>6. DOMAIN req' = Requests /\ \A s \in Requests : WellFormed(req'[s])
        BY <2>4, <2>5, OneRequest
    <2>. QED  BY <2>1, <2>6 DEF TypeInv
<1>6. ASSUME NEW r \in Requests, RecordPrice(r) PROVE TypeInv'
    <2>1. PICK p \in req[r].unrecorded :
              /\ req[r].pc = "ingest"
              /\ req' = [req EXCEPT ![r].unrecorded = @ \ {p}]
              /\ \/ history' = [history EXCEPT ![<<Provider(r), p>>] =
                                   Recorded(@, req[r].held[p].price)]
                 \/ history' = history
              /\ UNCHANGED <<offer, log, now, shownLow, listed, latest, doubtful>>
        BY <1>6 DEF RecordPrice
    <2>2. WellFormed(req[r]) /\ p \in DOMAIN req[r].held /\ req[r].held \in Partial(Offer)
        BY DEF TypeInv, WellFormed, Request
    <2>. DEFINE g == [req[r] EXCEPT !.unrecorded = @ \ {p}]
    <2>3. req' = [req EXCEPT ![r] = g]
        BY <2>1 DEF TypeInv
    <2>4. WellFormed(g)
        BY <2>1, <2>2 DEF WellFormed, Request
    <2>. HIDE DEF g
    <2>5. DOMAIN req' = Requests /\ \A s \in Requests : WellFormed(req'[s])
        BY <2>3, <2>4, OneRequest
    <2>6. req[r].held[p].price \in Nat
        <3>1. req[r].held[p] \in Offer
            BY <2>2, PartialIs
        <3>. QED  BY <3>1 DEF Offer
    <2>7. \A h \in [low : Nat, n : 0..2] : Recorded(h, req[r].held[p].price) \in [low : Nat, n : 0..2]
        BY <2>6 DEF Recorded
    <2>8. history' \in [Offers -> [low : Nat, n : 0..2]]
        BY <2>1, <2>7 DEF TypeInv
    <2>. QED  BY <2>1, <2>5, <2>8 DEF TypeInv
<1>7. ASSUME NEW r \in Requests, LogSearch(r) PROVE TypeInv'
    <2>1. /\ req[r].pc = "ingest" /\ DOMAIN req[r].todo = {} /\ req[r].unrecorded = {}
          /\ log' = [log EXCEPT ![Key(r)] = [ids |-> DOMAIN req[r].held, at |-> now,
                                             later |-> req[r].page > 1]]
          /\ req' = [req EXCEPT ![r].pc = "present", ![r].via = "provider"]
          /\ UNCHANGED <<offer, history, now, shownLow, lost, latest, doubtful>>
        BY <1>7 DEF LogSearch
    <2>2. WellFormed(req[r]) /\ now \in Nat /\ req[r].held \in Partial(Offer)
        BY DealSearchAssumption DEF TypeInv, WellFormed, Request
    <2>. DEFINE g == [req[r] EXCEPT !.pc = "present", !.via = "provider"]
    <2>3. req' = [req EXCEPT ![r] = g]
        BY <2>1 DEF TypeInv
    <2>4. WellFormed(g)
        BY <2>1, <2>2 DEF WellFormed, Request
    <2>. HIDE DEF g
    <2>5. DOMAIN req' = Requests /\ \A s \in Requests : WellFormed(req'[s])
        BY <2>3, <2>4, OneRequest
    <2>6. [ids |-> DOMAIN req[r].held, at |-> now, later |-> req[r].page > 1] \in LogEntry
        BY <2>2, PartialIs DEF LogEntry
    <2>7. log' \in [Providers \X Keys -> LogEntry \cup {None}]
        BY <2>1, <2>6 DEF TypeInv
    <2>. QED  BY <2>1, <2>5, <2>7 DEF TypeInv
<1>8. ASSUME NEW r \in Requests, Present(r) PROVE TypeInv'
    <2>. DEFINE S == {p \in DOMAIN req[r].held :
                          AllTimeLow(history[<<Provider(r), p>>], req[r].held[p].price)}
                g == [NewRequest EXCEPT !.pc = "done", !.low = S]
    <2>1. req' = [req EXCEPT ![r] = g]
        BY <1>8 DEF Present
    <2>2. /\ UNCHANGED <<dbVars, now, lost, listed, latest, doubtful>>
          /\ shownLow' = [o \in Offers |->
                IF /\ o[1] = Provider(r) /\ o[2] \in DOMAIN req[r].held
                   /\ req[r].held[o[2]].price < shownLow[o]
                THEN req[r].held[o[2]].price ELSE shownLow[o]]
        BY <1>8 DEF Present
    <2>3. req[r].held \in Partial(Offer)
        BY DEF TypeInv, WellFormed, Request
    <2>4. S \subseteq Products
        BY <2>3, PartialIs
    <2>. HIDE DEF S
    <2>5. WellFormed(g)
        BY <2>4, NewType DEF NewRequest, WellFormed, Request
    <2>. HIDE DEF g
    <2>6. DOMAIN req' = Requests /\ \A s \in Requests : WellFormed(req'[s])
        BY <2>1, <2>5, OneRequest
    <2>7. \A p \in DOMAIN req[r].held : req[r].held[p].price \in Nat
        <3>1. \A p \in DOMAIN req[r].held : req[r].held[p] \in Offer
            BY <2>3, PartialIs
        <3>. QED  BY <3>1 DEF Offer
    <2>8. shownLow' \in [Offers -> Nat]
        BY <2>2, <2>7 DEF TypeInv
    <2>. QED  BY <2>2, <2>6, <2>8 DEF TypeInv
<1>9. ASSUME NEW r \in Requests, SearchThrows(r) PROVE TypeInv'
    <2>1. UNCHANGED <<dbVars, now, shownLow, listed, latest>>
        BY <1>9 DEF SearchThrows
    <2>2. DOMAIN req' = Requests /\ \A s \in Requests : WellFormed(req'[s])
        BY <1>9, ThrowsTo
    <2>. QED  BY <2>1, <2>2 DEF TypeInv
<1>10. ASSUME Tick PROVE TypeInv'
    BY <1>10, DealSearchAssumption DEF Tick, TypeInv
<1>11. CASE UNCHANGED vars
    BY <1>11 DEF vars, TypeInv
<1>. QED  BY <1>1, <1>2, <1>3, <1>4, <1>5, <1>6, <1>7, <1>8, <1>9, <1>10, <1>11 DEF Next

\* The documents, the log and the searches have their types at all times: a search that is
\* under way is at a provider, and an offer has a price and a time.
THEOREM TypeCorrect == Spec => []TypeOK
<1>1. TypeInv => TypeOK
    <2>1. Len(Registry) = 2
        BY DEF Registry
    <2>. QED  BY <2>1 DEF TypeInv, TypeOK, WellFormed, Request, LogEntry
<1>. QED  BY InitType, NextType, <1>1, PTL DEF Spec

----------------------------------------------------------------------------
(* The latest listing is kept *)

KeptInv ==
    \A o \in Offers \ doubtful :
        /\ \A r \in Requests : o \in AwaitedBy(r) => req[r].todo[o[2]] = latest[o]
        /\ \A r, s \in Requests : o \in AwaitedBy(r) /\ o \in AwaitedBy(s) => r = s
        /\ o \notin Awaited /\ latest[o] # None => offer[o].price = latest[o]

\* What r does not await any more is doubtful, and of what it still awaits it has the same.
AwaitsCalm(r) ==
    /\ AwaitedBy(r)' \subseteq AwaitedBy(r)
    /\ AwaitedBy(r) \ AwaitedBy(r)' \subseteq doubtful'
    /\ \A o \in AwaitedBy(r)' : req'[r].todo[o[2]] = req[r].todo[o[2]]

\* A step that lists and stores nothing.
KeptCalm ==
    /\ offer' = offer /\ latest' = latest /\ doubtful \subseteq doubtful'
    /\ \A r \in Requests : AwaitsCalm(r)

\* A request that a step leaves alone awaits what it did.
LEMMA SameAwaits ==
    ASSUME NEW r \in Requests, req'[r] = req[r]
    PROVE  AwaitedBy(r)' = AwaitedBy(r) /\ AwaitsCalm(r)
BY DEF AwaitedBy, AwaitsCalm, Provider

\* A request that ingests nothing awaits nothing.
LEMMA NoAwaits ==
    ASSUME NEW r \in Requests
    PROVE  /\ req[r].pc # "ingest" => AwaitedBy(r) = {}
           /\ req'[r].pc # "ingest" => AwaitedBy(r)' = {}
           /\ DOMAIN req[r].todo = {} => AwaitedBy(r) = {}
BY DEF AwaitedBy

\* What a request awaits.
LEMMA AwaitedIs ==
    ASSUME NEW r \in Requests, req[r].pc = "ingest", NEW o \in Offers
    PROVE  o \in AwaitedBy(r) <=> o[1] = Provider(r) /\ o[2] \in DOMAIN req[r].todo
BY DEF AwaitedBy, Offers

\* Such a step keeps the invariant.
LEMMA CalmKeepsKept == KeptInv /\ KeptCalm => KeptInv'
<1>. SUFFICES ASSUME KeptInv, KeptCalm, NEW o \in Offers, o \notin doubtful'
              PROVE  /\ \A r \in Requests : o \in AwaitedBy(r)' => req'[r].todo[o[2]] = latest'[o]
                     /\ \A r, s \in Requests : o \in AwaitedBy(r)' /\ o \in AwaitedBy(s)' => r = s
                     /\ o \notin Awaited' /\ latest'[o] # None => offer'[o].price = latest'[o]
    BY DEF KeptInv
<1>1. \A r \in Requests : o \in AwaitedBy(r)' <=> o \in AwaitedBy(r)
    BY DEF KeptCalm, AwaitsCalm
<1>2. o \in Awaited' <=> o \in Awaited
    BY <1>1 DEF Awaited
<1>3. o \notin doubtful /\ offer' = offer /\ latest' = latest
    BY DEF KeptCalm
<1>4. \A r \in Requests : o \in AwaitedBy(r)' => req'[r].todo[o[2]] = req[r].todo[o[2]]
    BY DEF KeptCalm, AwaitsCalm
<1>. QED  BY <1>1, <1>2, <1>3, <1>4 DEF KeptInv

\* A step of a request that ingests nothing before and after it.
LEMMA AloofKeepsKept ==
    ASSUME KeptInv, NEW r \in Requests, AwaitedBy(r) \subseteq doubtful', req'[r].pc # "ingest",
           \A s \in Requests \ {r} : req'[s] = req[s],
           offer' = offer, latest' = latest, doubtful \subseteq doubtful'
    PROVE  KeptInv'
<1>1. AwaitsCalm(r)
    BY NoAwaits DEF AwaitsCalm
<1>2. \A s \in Requests : AwaitsCalm(s)
    BY <1>1, SameAwaits
<1>. QED  BY <1>2, CalmKeepsKept DEF KeptCalm

\* At the start nothing is listed.
LEMMA InitKept == Init => KeptInv
BY DEF Init, KeptInv, AwaitedBy, NewRequest

\* Every action keeps the invariant.
LEMMA NextKept == TypeInv /\ TypeInv' /\ KeptInv /\ [Next]_vars => KeptInv'
<1>. SUFFICES ASSUME TypeInv, TypeInv', KeptInv, [Next]_vars PROVE KeptInv'
    OBVIOUS
<1>. USE DEF dbVars, histVars
<1>1. ASSUME NEW r \in Requests, Start(r) PROVE KeptInv'
    <2>1. PICK q \in Keys, page \in {1, 2} :
              /\ req[r].pc = "new"
              /\ req' = [req EXCEPT ![r] = NextTurn([@ EXCEPT !.query = q, !.page = page])]
              /\ UNCHANGED <<dbVars, now, histVars>>
        BY <1>1 DEF Start
    <2>. DEFINE g == [req[r] EXCEPT !.query = q, !.page = page]
    <2>2. g.query \in Keys /\ g.page \in {1, 2} /\ g.at \in 0..2
        BY DEF TypeInv, WellFormed, Request
    <2>3. req' = [req EXCEPT ![r] = NextTurn(g)]
        BY <2>1 DEF TypeInv
    <2>. HIDE DEF g
    <2>4. NextTurn(g).pc # "ingest" /\ WellFormed(NextTurn(g))
        BY <2>2, TurnType
    <2>5. req'[r].pc # "ingest" /\ \A s \in Requests \ {r} : req'[s] = req[s]
        BY <2>3, <2>4, OneRequest
    <2>. QED  BY <2>1, <2>5, NoAwaits, AloofKeepsKept
<1>2. ASSUME NEW r \in Requests, CacheRead(r) PROVE KeptInv'
    <2>1. req'[r].pc # "ingest" /\ \A s \in Requests \ {r} : req'[s] = req[s]
        <3>1. \E h, v : req' = [req EXCEPT ![r] = [req[r] EXCEPT !.pc = "search"]]
                     \/ req' = [req EXCEPT ![r] = [req[r] EXCEPT !.pc = "present", !.held = h,
                                                                !.via = v]]
            BY <1>2 DEF CacheRead
        <3>2. DOMAIN req = Requests /\ req[r] \in Request
            BY DEF TypeInv, WellFormed
        <3>3. PICK h, v : req' = [req EXCEPT ![r] = [req[r] EXCEPT !.pc = "search"]]
                     \/ req' = [req EXCEPT ![r] = [req[r] EXCEPT !.pc = "present", !.held = h,
                                                                !.via = v]]
            BY <3>1
        <3>. QED  BY <3>2, <3>3 DEF Request
    <2>2. req[r].pc = "cache" /\ UNCHANGED <<dbVars, now, histVars>>
        BY <1>2 DEF CacheRead
    <2>. QED  BY <2>1, <2>2, NoAwaits, AloofKeepsKept
<1>3. ASSUME NEW r \in Requests, Search(r) PROVE KeptInv'
    <2>1. UNCHANGED <<dbVars, now, shownLow, lost, listed>> /\ req[r].pc = "search"
          /\ WellFormed(req[r])
        BY <1>3 DEF Search, TypeInv
    <2>2. ASSUME NEW listing \in Listings[Provider(r)],
                 NEW deals, deals = SearchDeals(Provider(r), listing, req[r].query, req[r].page),
                 req' = [req EXCEPT ![r].pc = "ingest", ![r].todo = deals],
                 latest' = [o \in Offers |-> IF o \in {Provider(r)} \X DOMAIN deals
                                            THEN deals[o[2]] ELSE latest[o]],
                 doubtful' = (doubtful \ ({Provider(r)} \X DOMAIN deals))
                                \cup (({Provider(r)} \X DOMAIN deals) \cap Awaited)
          PROVE  KeptInv'
        <3>. DEFINE offers == {Provider(r)} \X DOMAIN deals
        <3>1. /\ req'[r].pc = "ingest" /\ req'[r].todo = deals /\ Provider(r)' = Provider(r)
              /\ \A s \in Requests \ {r} : req'[s] = req[s]
            BY <2>1, <2>2 DEF TypeInv, WellFormed, Request, Provider
        <3>2. AwaitedBy(r) = {} /\ AwaitedBy(r)' = offers
            BY <2>1, <2>2, <3>1 DEF AwaitedBy
        <3>3. \A s \in Requests \ {r} : AwaitedBy(s)' = AwaitedBy(s) /\ AwaitsCalm(s)
            BY <3>1, SameAwaits
        <3>4. SUFFICES ASSUME NEW o \in Offers, o \notin doubtful'
              PROVE  /\ \A t \in Requests : o \in AwaitedBy(t)' => req'[t].todo[o[2]] = latest'[o]
                     /\ \A t, s \in Requests : o \in AwaitedBy(t)' /\ o \in AwaitedBy(s)' => t = s
                     /\ o \notin Awaited' /\ latest'[o] # None => offer'[o].price = latest'[o]
            BY DEF KeptInv
        <3>5. CASE o \in offers
            <4>1. \A s \in Requests : o \notin AwaitedBy(s)
                BY <2>2, <3>4, <3>5 DEF Awaited
            <4>2. latest'[o] = deals[o[2]]
                BY <2>2, <3>5
            <4>3. o \in Awaited'
                BY <3>2, <3>5 DEF Awaited
            <4>. QED  BY <3>1, <3>2, <3>3, <4>1, <4>2, <4>3
        <3>6. CASE o \notin offers
            <4>1. o \notin doubtful /\ latest'[o] = latest[o] /\ offer' = offer
                BY <2>1, <2>2, <3>4, <3>6
            <4>2. \A s \in Requests : o \in AwaitedBy(s)' <=> o \in AwaitedBy(s)
                BY <3>2, <3>3, <3>6
            <4>3. o \in Awaited' <=> o \in Awaited
                BY <4>2 DEF Awaited
            <4>4. \A s \in Requests : o \in AwaitedBy(s) => s # r /\ req'[s] = req[s]
                BY <3>1, <3>2
            <4>. QED  BY <4>1, <4>2, <4>3, <4>4 DEF KeptInv
        <3>. QED  BY <3>5, <3>6
    <2>3. CASE req' = [req EXCEPT ![r] = NextTurn(req[r])] /\ UNCHANGED <<latest, doubtful>>
        <3>1. WellFormed(NextTurn(req[r])) /\ NextTurn(req[r]).pc # "ingest"
            BY <2>1, TurnType DEF WellFormed, Request
        <3>2. req'[r].pc # "ingest" /\ \A s \in Requests \ {r} : req'[s] = req[s]
            BY <2>3, <3>1, OneRequest
        <3>. QED  BY <2>1, <2>3, <3>2, NoAwaits, AloofKeepsKept
    <2>. QED  BY <1>3, <2>2, <2>3 DEF Search
<1>4. ASSUME NEW r \in Requests, IngestOffer(r) PROVE KeptInv'
    <2>1. PICK p \in DOMAIN req[r].todo :
              /\ req[r].pc = "ingest"
              /\ offer' = [offer EXCEPT ![<<Provider(r), p>>] = [price |-> req[r].todo[p], at |-> now]]
              /\ req'[r].todo = Without(req[r].todo, p)
              /\ req'[r].pc = "ingest" /\ req'[r].at = req[r].at
              /\ \A s \in Requests \ {r} : req'[s] = req[s]
              /\ UNCHANGED <<history, log, now, histVars>>
        BY <1>4, Stored DEF StoredFrom
    <2>. DEFINE u == <<Provider(r), p>>
    <2>2. req[r].todo \in Partial(Nat) /\ Provider(r) \in Providers
        BY <2>1 DEF TypeInv, WellFormed, Request, Provider, Registry, Providers
    <2>3. u \in Offers /\ u[1] = Provider(r) /\ u[2] = p
        BY <2>2, PartialIs DEF Offers
    <2>4. /\ DOMAIN req'[r].todo = DOMAIN req[r].todo \ {p}
          /\ \A x \in DOMAIN req'[r].todo : req'[r].todo[x] = req[r].todo[x]
        BY <2>1 DEF Without
    <2>5. Provider(r)' = Provider(r)
        BY <2>1 DEF Provider
    <2>6. u \in AwaitedBy(r) /\ AwaitedBy(r)' = AwaitedBy(r) \ {u}
        BY <2>1, <2>4, <2>5 DEF AwaitedBy
    <2>7. \A s \in Requests \ {r} : AwaitedBy(s)' = AwaitedBy(s)
        BY <2>1, SameAwaits
    <2>8. \A x \in Offers : x # u => offer'[x] = offer[x]
        BY <2>1 DEF TypeInv
    <2>9. offer'[u].price = req[r].todo[u[2]]
        BY <2>1, <2>3 DEF TypeInv
    <2>. HIDE DEF u
    <2>10. SUFFICES ASSUME NEW o \in Offers, o \notin doubtful
           PROVE  /\ \A t \in Requests : o \in AwaitedBy(t)' => req'[t].todo[o[2]] = latest[o]
                  /\ \A t, s \in Requests : o \in AwaitedBy(t)' /\ o \in AwaitedBy(s)' => t = s
                  /\ o \notin Awaited' /\ latest[o] # None => offer'[o].price = latest[o]
        BY <2>1 DEF KeptInv
    <2>11. \A t \in Requests : o \in AwaitedBy(t)' => o \in AwaitedBy(t)
        BY <2>6, <2>7
    <2>12. o \in AwaitedBy(r)' => req'[r].todo[o[2]] = req[r].todo[o[2]]
        BY <2>4, <2>1 DEF AwaitedBy
    <2>13. \A t \in Requests : o \in AwaitedBy(t)' => req'[t].todo[o[2]] = req[t].todo[o[2]]
        BY <2>1, <2>12
    <2>14. o \notin Awaited' /\ latest[o] # None => offer'[o].price = latest[o]
        <3>1. CASE o = u
            BY <2>6, <2>9, <2>10, <3>1 DEF KeptInv
        <3>2. CASE o # u
            <4>1. o \in Awaited <=> o \in Awaited'
                BY <2>6, <2>7, <3>2 DEF Awaited
            <4>. QED  BY <2>8, <2>10, <3>2, <4>1 DEF KeptInv
        <3>. QED  BY <3>1, <3>2
    <2>. QED  BY <2>10, <2>11, <2>13, <2>14 DEF KeptInv
<1>5. ASSUME NEW r \in Requests, IngestFails(r) PROVE KeptInv'
    <2>1. PICK p \in DOMAIN req[r].todo :
              /\ req[r].pc = "ingest"
              /\ req'[r].todo = Without(req[r].todo, p)
              /\ req'[r].pc = "ingest" /\ req'[r].at = req[r].at
              /\ \A s \in Requests \ {r} : req'[s] = req[s]
              /\ doubtful' = doubtful \cup {<<Provider(r), p>>}
              /\ UNCHANGED <<dbVars, now, shownLow, lost, listed, latest>>
        BY <1>5 DEF IngestFails, TypeInv, WellFormed, Request
    <2>2. req[r].todo \in Partial(Nat)
        BY DEF TypeInv, WellFormed, Request
    <2>3. /\ DOMAIN req'[r].todo = DOMAIN req[r].todo \ {p}
          /\ \A x \in DOMAIN req'[r].todo : req'[r].todo[x] = req[r].todo[x]
        BY <2>1 DEF Without
    <2>4. Provider(r)' = Provider(r)
        BY <2>1 DEF Provider
    <2>5. AwaitsCalm(r)
        BY <2>1, <2>3, <2>4 DEF AwaitsCalm, AwaitedBy
    <2>6. \A s \in Requests : AwaitsCalm(s)
        BY <2>1, <2>5, SameAwaits
    <2>. QED  BY <2>1, <2>6, CalmKeepsKept DEF KeptCalm
<1>6. ASSUME NEW r \in Requests, RecordPrice(r) PROVE KeptInv'
    <2>1. /\ req'[r].todo = req[r].todo /\ req'[r].pc = req[r].pc /\ req'[r].at = req[r].at
          /\ \A s \in Requests \ {r} : req'[s] = req[s]
          /\ UNCHANGED <<offer, log, now, shownLow, listed, latest, doubtful>>
        BY <1>6 DEF RecordPrice, TypeInv, WellFormed, Request
    <2>2. AwaitsCalm(r)
        BY <2>1 DEF AwaitsCalm, AwaitedBy, Provider
    <2>3. \A s \in Requests : AwaitsCalm(s)
        BY <2>1, <2>2, SameAwaits
    <2>. QED  BY <2>1, <2>3, CalmKeepsKept DEF KeptCalm
<1>7. ASSUME NEW r \in Requests, LogSearch(r) PROVE KeptInv'
    <2>1. /\ DOMAIN req[r].todo = {} /\ req'[r].pc # "ingest"
          /\ \A s \in Requests \ {r} : req'[s] = req[s]
          /\ UNCHANGED <<offer, history, now, shownLow, lost, latest, doubtful>>
        BY <1>7 DEF LogSearch, TypeInv, WellFormed, Request
    <2>. QED  BY <2>1, NoAwaits, AloofKeepsKept
<1>8. ASSUME NEW r \in Requests, Present(r) PROVE KeptInv'
    <2>1. /\ req[r].pc = "present" /\ req'[r].pc # "ingest"
          /\ \A s \in Requests \ {r} : req'[s] = req[s]
          /\ UNCHANGED <<dbVars, now, lost, listed, latest, doubtful>>
        BY <1>8 DEF Present, TypeInv, NewRequest
    <2>. QED  BY <2>1, NoAwaits, AloofKeepsKept
<1>9. ASSUME NEW r \in Requests, SearchThrows(r) PROVE KeptInv'
    <2>1. ThrownFrom(r)
        BY <1>9, ThrowsTo
    <2>2. doubtful' = doubtful \cup AwaitedBy(r) /\ UNCHANGED <<offer, latest>>
        BY <1>9 DEF SearchThrows
    <2>. QED  BY <2>1, <2>2, AloofKeepsKept DEF ThrownFrom
<1>10. CASE Tick \/ UNCHANGED vars
    <2>1. UNCHANGED <<req, offer, latest, doubtful>>
        BY <1>10 DEF Tick, vars
    <2>2. \A s \in Requests : AwaitsCalm(s)
        BY <2>1, SameAwaits
    <2>. QED  BY <2>1, <2>2, CalmKeepsKept DEF KeptCalm
<1>. QED  BY <1>1, <1>2, <1>3, <1>4, <1>5, <1>6, <1>7, <1>8, <1>9, <1>10 DEF Next

\* Once nobody is about to write an offer its price is that of its latest listing (with the
\* exceptions of the property), whatever the searches list and whenever they write.
THEOREM ListingKept == Spec => []LatestListingKept
<1>1. KeptInv => LatestListingKept
    BY DEF KeptInv, LatestListingKept
<1>. QED  BY InitType, NextType, InitKept, NextKept, <1>1, PTL DEF Spec

----------------------------------------------------------------------------
(* A low is earned *)

\* An observation of o by r that is on its way into the history, no higher than x.
Coming(r, o, x) ==
    /\ req[r].pc = "ingest" /\ o[1] = Provider(r) /\ o[2] \in req[r].unrecorded
    /\ req[r].held[o[2]].price <= x

Covered(o, x) ==
    \/ o \in lost
    \/ history[o].low <= x
    \/ \E r \in Requests : Coming(r, o, x)

\* r holds o at the price x, and may show it.
Holds(r, o, x) ==
    /\ req[r].pc \in {"ingest", "present"} /\ o[1] = Provider(r)
    /\ o[2] \in DOMAIN req[r].held /\ x = req[r].held[o[2]].price

Known(o, x) ==
    \/ offer[o] # None /\ x = offer[o].price
    \/ x = shownLow[o]
    \/ \E r \in Requests : Holds(r, o, x)

LowInv == \A o \in Offers, x \in Nat : Known(o, x) => Covered(o, x)

\* What was coming from r is coming still, recorded, or lost.
ComingKept(r) ==
    req[r].pc = "ingest" =>
        \A p \in req[r].unrecorded :
            \/ <<Provider(r), p>> \in lost'
            \/ history'[<<Provider(r), p>>].low <= req[r].held[p].price
            \/ /\ req'[r].pc = "ingest" /\ req'[r].at = req[r].at
               /\ p \in req'[r].unrecorded /\ req'[r].held[p] = req[r].held[p]

CoverCalm ==
    /\ lost \subseteq lost'
    /\ \A o \in Offers : history'[o].low <= history[o].low
    /\ \A r \in Requests : ComingKept(r)

\* The records that r holds are of offers and have prices.
LEMMA HeldType ==
    ASSUME TypeInv, NEW r \in Requests
    PROVE  /\ req[r].held \in Partial(Offer)
           /\ DOMAIN req[r].held \subseteq Products
           /\ \A p \in DOMAIN req[r].held : req[r].held[p].price \in Nat
           /\ req[r].unrecorded \subseteq DOMAIN req[r].held
           /\ req[r].pc \notin {"new", "done"} => Provider(r) \in Providers
<1>1. req[r].held \in Partial(Offer) /\ req[r].unrecorded \subseteq DOMAIN req[r].held
    BY DEF TypeInv, WellFormed, Request
<1>2. DOMAIN req[r].held \subseteq Products /\ \A p \in DOMAIN req[r].held : req[r].held[p] \in Offer
    BY <1>1, PartialIs
<1>3. req[r].pc \notin {"new", "done"} => Provider(r) \in Providers
    BY DEF TypeInv, WellFormed, Provider, Registry, Providers
<1>. QED  BY <1>1, <1>2, <1>3 DEF Offer

\* A covered price stays covered.
LEMMA CoverKept ==
    ASSUME TypeInv, TypeInv', CoverCalm, NEW o \in Offers, NEW x \in Nat, Covered(o, x)
    PROVE  Covered(o, x)'
<1>1. CASE o \in lost
    BY <1>1 DEF Covered, CoverCalm
<1>2. CASE history[o].low <= x
    <2>1. history[o].low \in Nat /\ history'[o].low \in Nat
        BY DEF TypeInv
    <2>2. history'[o].low <= history[o].low
        BY DEF CoverCalm
    <2>3. history'[o].low <= x
        BY <1>2, <2>1, <2>2
    <2>. QED  BY <2>3 DEF Covered
<1>3. ASSUME NEW r \in Requests, Coming(r, o, x) PROVE Covered(o, x)'
    <2>1. PICK p : p = o[2]
        OBVIOUS
    <2>2. /\ req[r].pc = "ingest" /\ p \in req[r].unrecorded /\ req[r].held[p].price <= x
          /\ o[1] = Provider(r) /\ o = <<Provider(r), p>>
        BY <1>3, <2>1 DEF Coming, Offers
    <2>3. ComingKept(r)
        BY DEF CoverCalm
    <2>4. CASE o \in lost'
        BY <2>4 DEF Covered
    <2>5. CASE history'[o].low <= req[r].held[p].price
        <3>1. history'[o].low \in Nat /\ req[r].held[p].price \in Nat
            BY <2>2, HeldType DEF TypeInv
        <3>2. history'[o].low <= x
            BY <2>2, <2>5, <3>1
        <3>. QED  BY <3>2 DEF Covered
    <2>6. CASE /\ req'[r].pc = "ingest" /\ req'[r].at = req[r].at
               /\ p \in req'[r].unrecorded /\ req'[r].held[p] = req[r].held[p]
        <3>1. Coming(r, o, x)'
            BY <2>1, <2>2, <2>6 DEF Coming, Provider
        <3>. QED  BY <3>1 DEF Covered
    <2>. QED  BY <2>2, <2>3, <2>4, <2>5, <2>6 DEF ComingKept
<1>. QED  BY <1>1, <1>2, <1>3 DEF Covered

\* The invariant is kept when every price that gets known was known, or is covered.
LEMMA LowKept ==
    ASSUME TypeInv, TypeInv', LowInv, CoverCalm,
           \A o \in Offers, x \in Nat : Known(o, x)' => Known(o, x) \/ Covered(o, x)'
    PROVE  LowInv'
BY CoverKept DEF LowInv

\* A request that a step leaves alone.
LEMMA SameHolds ==
    ASSUME TypeInv, TypeInv', NEW r \in Requests, req'[r] = req[r]
    PROVE  ComingKept(r) /\ \A o, x : Holds(r, o, x)' => Holds(r, o, x)
BY DEF ComingKept, Holds, Provider

\* A step of one request that changes neither offers nor histories nor what was shown.
LEMMA StepKeepsLow ==
    ASSUME TypeInv, TypeInv', LowInv, NEW r \in Requests,
           \A s \in Requests \ {r} : req'[s] = req[s],
           offer' = offer, history' = history, shownLow' = shownLow, lost \subseteq lost',
           ComingKept(r), \A o \in Offers, x \in Nat : Holds(r, o, x)' => Known(o, x)
    PROVE  LowInv'
<1>1. \A s \in Requests : ComingKept(s)
    BY SameHolds
<1>2. CoverCalm
    BY <1>1 DEF CoverCalm, TypeInv
<1>3. ASSUME NEW o \in Offers, NEW x \in Nat, Known(o, x)' PROVE Known(o, x)
    <2>1. \A s \in Requests : Holds(s, o, x)' => Known(o, x)
        BY SameHolds DEF Known
    <2>. QED  BY <1>3, <2>1 DEF Known
<1>. QED  BY <1>2, <1>3, LowKept

\* At the start no price is known.
LEMMA InitLow == Init => LowInv
<1>. SUFFICES ASSUME Init, NEW o \in Offers, NEW x \in Nat, Known(o, x) PROVE Covered(o, x)
    BY DEF LowInv
<1>1. x = Far
    BY DEF Init, Known, Holds, NewRequest
<1>2. Far <= Far
    BY DEF Far
<1>. QED  BY <1>1, <1>2 DEF Init, Covered

\* What the read of the cache leaves behind: nothing found, or offers as they are.
ReadFrom(r) ==
    /\ \/ req'[r].pc = "search"
       \/ /\ req'[r].at = req[r].at
          /\ \A p \in DOMAIN req'[r].held : req'[r].held[p] = offer[<<Provider(r), p>>]
    /\ \A s \in Requests \ {r} : req'[s] = req[s]

\* That is what CacheRead leaves, and the offers are there.
LEMMA Read ==
    ASSUME TypeInv, NEW r \in Requests, CacheRead(r)
    PROVE  ReadFrom(r) /\ \A p \in DOMAIN req'[r].held : offer[<<Provider(r), p>>] # None
<1>. DEFINE S == CachedOffers(r)
            h == [p \in S |-> offer[<<Provider(r), p>>]]
<1>1. \A p \in S : offer[<<Provider(r), p>>] # None
    BY DEF CachedOffers
<1>2. DOMAIN h = S /\ \A p \in S : h[p] = offer[<<Provider(r), p>>]
    OBVIOUS
<1>3. \/ req' = [req EXCEPT ![r] = [req[r] EXCEPT !.pc = "search"]]
      \/ \E v : req' = [req EXCEPT ![r] = [req[r] EXCEPT !.pc = "present", !.held = h, !.via = v]]
    BY DEF CacheRead
<1>4. DOMAIN req = Requests /\ req[r] \in Request /\ req[r].pc = "cache" /\ DOMAIN req[r].held = {}
    BY DEF CacheRead, TypeInv, WellFormed
<1>. HIDE DEF S, h
<1>5. CASE req' = [req EXCEPT ![r] = [req[r] EXCEPT !.pc = "search"]]
    BY <1>4, <1>5 DEF Request, ReadFrom
<1>6. ASSUME NEW v,
             req' = [req EXCEPT ![r] = [req[r] EXCEPT !.pc = "present", !.held = h, !.via = v]]
      PROVE  /\ req'[r].at = req[r].at /\ req'[r].held = h
             /\ \A s \in Requests \ {r} : req'[s] = req[s]
    BY <1>4, <1>6 DEF Request
<1>7. ASSUME NEW v,
             req' = [req EXCEPT ![r] = [req[r] EXCEPT !.pc = "present", !.held = h, !.via = v]]
      PROVE  ReadFrom(r) /\ \A p \in DOMAIN req'[r].held : offer[<<Provider(r), p>>] # None
    BY <1>1, <1>2, <1>6, <1>7 DEF ReadFrom
<1>. QED  BY <1>3, <1>5, <1>7

\* Every action keeps the invariant.
LEMMA NextLow == TypeInv /\ TypeInv' /\ LowInv /\ [Next]_vars => LowInv'
<1>. SUFFICES ASSUME TypeInv, TypeInv', LowInv, [Next]_vars PROVE LowInv'
    OBVIOUS
<1>. USE DEF dbVars, histVars
<1>1. ASSUME NEW r \in Requests, Start(r) PROVE LowInv'
    <2>1. PICK q \in Keys, page \in {1, 2} :
              /\ req[r].pc = "new"
              /\ req' = [req EXCEPT ![r] = NextTurn([@ EXCEPT !.query = q, !.page = page])]
              /\ UNCHANGED <<dbVars, now, histVars>>
        BY <1>1 DEF Start
    <2>. DEFINE g == [req[r] EXCEPT !.query = q, !.page = page]
    <2>2. g.query \in Keys /\ g.page \in {1, 2} /\ g.at \in 0..2
        BY DEF TypeInv, WellFormed, Request
    <2>3. req' = [req EXCEPT ![r] = NextTurn(g)]
        BY <2>1 DEF TypeInv
    <2>. HIDE DEF g
    <2>4. NextTurn(g).pc \notin {"ingest", "present"} /\ WellFormed(NextTurn(g))
        BY <2>2, TurnType
    <2>5. req'[r].pc \notin {"ingest", "present"} /\ \A s \in Requests \ {r} : req'[s] = req[s]
        BY <2>3, <2>4, OneRequest
    <2>6. ComingKept(r) /\ \A o, x : ~Holds(r, o, x)'
        BY <2>1, <2>5 DEF ComingKept, Holds
    <2>. QED  BY <2>1, <2>5, <2>6, StepKeepsLow
<1>2. ASSUME NEW r \in Requests, CacheRead(r) PROVE LowInv'
    <2>1. ReadFrom(r) /\ \A p \in DOMAIN req'[r].held : offer[<<Provider(r), p>>] # None
        BY <1>2, Read
    <2>2. req[r].pc = "cache" /\ UNCHANGED <<dbVars, now, histVars>>
        BY <1>2 DEF CacheRead
    <2>3. ASSUME NEW o \in Offers, NEW x \in Nat, Holds(r, o, x)' PROVE Known(o, x)
        <3>1. PICK p : p = o[2]
            OBVIOUS
        <3>2. /\ req'[r].pc # "search" /\ o[1] = Provider(r)' /\ o = <<o[1], p>>
              /\ p \in DOMAIN req'[r].held /\ x = req'[r].held[p].price
            BY <2>3, <3>1 DEF Holds, Offers
        <3>3. Provider(r)' = Provider(r) /\ req'[r].held[p] = offer[<<Provider(r), p>>]
            BY <2>1, <3>2 DEF ReadFrom, Provider
        <3>4. offer[o] # None /\ x = offer[o].price
            BY <2>1, <3>2, <3>3
        <3>. QED  BY <3>4 DEF Known
    <2>4. ComingKept(r) /\ \A s \in Requests \ {r} : req'[s] = req[s]
        BY <2>1, <2>2 DEF ComingKept, ReadFrom
    <2>. QED  BY <2>2, <2>3, <2>4, StepKeepsLow
<1>3. ASSUME NEW r \in Requests, Search(r) PROVE LowInv'
    <2>1. UNCHANGED <<dbVars, now, shownLow, lost, listed>> /\ req[r].pc = "search"
          /\ DOMAIN req = Requests /\ req[r] \in Request /\ DOMAIN req[r].held = {}
        BY <1>3 DEF Search, TypeInv, WellFormed
    <2>2. ComingKept(r)
        BY <2>1 DEF ComingKept
    <2>3. ASSUME NEW deals, req' = [req EXCEPT ![r].pc = "ingest", ![r].todo = deals]
          PROVE  LowInv'
        <3>1. DOMAIN req'[r].held = {} /\ \A s \in Requests \ {r} : req'[s] = req[s]
            BY <2>1, <2>3 DEF Request
        <3>2. \A o, x : ~Holds(r, o, x)'
            BY <3>1 DEF Holds
        <3>. QED  BY <2>1, <2>2, <3>1, <3>2, StepKeepsLow
    <2>4. CASE req' = [req EXCEPT ![r] = NextTurn(req[r])]
        <3>1. WellFormed(NextTurn(req[r])) /\ NextTurn(req[r]).pc \notin {"ingest", "present"}
            BY <2>1, TurnType DEF Request
        <3>2. req'[r].pc \notin {"ingest", "present"} /\ \A s \in Requests \ {r} : req'[s] = req[s]
            BY <2>4, <3>1, OneRequest
        <3>3. \A o, x : ~Holds(r, o, x)'
            BY <3>2 DEF Holds
        <3>. QED  BY <2>1, <2>2, <3>2, <3>3, StepKeepsLow
    <2>. QED  BY <1>3, <2>3, <2>4 DEF Search
<1>4. ASSUME NEW r \in Requests, IngestOffer(r) PROVE LowInv'
    <2>1. PICK p \in DOMAIN req[r].todo : StoredFrom(r, p)
        BY <1>4, Stored
    <2>2. PICK u : u = <<Provider(r), p>>
        OBVIOUS
    <2>3. PICK c : c = req[r].todo[p]
        OBVIOUS
    <2>4. /\ p \notin DOMAIN req[r].held /\ p \in Products /\ req[r].pc = "ingest"
          /\ req[r].todo[p] \in Nat /\ DOMAIN offer = Offers /\ Provider(r) \in Providers
        <3>1. req[r].todo \in Partial(Nat) /\ req[r].pc = "ingest"
              /\ DOMAIN req[r].todo \cap DOMAIN req[r].held = {} /\ DOMAIN offer = Offers
            BY <2>1 DEF TypeInv, WellFormed, Request, StoredFrom
        <3>2. p \in Products /\ req[r].todo[p] \in Nat
            BY <3>1, PartialIs
        <3>. QED  BY <3>1, <3>2, HeldType
    <2>5. /\ u \in Offers /\ u[1] = Provider(r) /\ u[2] = p
          /\ \A o \in Offers : o[1] = Provider(r) /\ o[2] = p => o = u
        BY <2>4, <2>2 DEF Offers
    <2>6. /\ offer'[u].price = c /\ req'[r].held[p].price = c
          /\ \A o \in Offers \ {u} : offer'[o] = offer[o]
        BY <2>1, <2>4, <2>5, <2>2, <2>3 DEF StoredFrom
    <2>7. Provider(r)' = Provider(r) /\ req'[r].pc = "ingest" /\ p \in req'[r].unrecorded
        BY <2>1 DEF StoredFrom, Provider
    <2>8. Covered(u, c)'
        <3>1. req'[r].held[p].price <= c
            BY <2>4, <2>6, <2>3
        <3>2. Coming(r, u, c)'
            BY <2>5, <2>7, <3>1 DEF Coming
        <3>. QED  BY <3>2 DEF Covered
    <2>9. CoverCalm
        <3>1. ComingKept(r)
            BY <2>1, <2>4, HeldType DEF ComingKept, StoredFrom
        <3>2. \A s \in Requests : ComingKept(s)
            BY <2>1, <3>1, SameHolds DEF StoredFrom
        <3>. QED  BY <2>1, <3>2 DEF CoverCalm, StoredFrom, TypeInv
    <2>10. ASSUME NEW o \in Offers, NEW x \in Nat, Known(o, x)'
          PROVE  Known(o, x) \/ Covered(o, x)'
        <3>1. CASE offer'[o] # None /\ x = offer'[o].price
            <4>1. CASE o = u
                BY <2>6, <2>8, <3>1, <4>1
            <4>2. CASE o # u
                BY <2>6, <3>1, <4>2 DEF Known
            <4>. QED  BY <4>1, <4>2
        <3>2. CASE x = shownLow'[o]
            BY <2>1, <3>2 DEF Known, StoredFrom
        <3>3. CASE Holds(r, o, x)'
            <4>1. CASE o[2] = p
                BY <2>5, <2>6, <2>7, <2>8, <3>3, <4>1 DEF Holds
            <4>2. CASE o[2] # p
                <5>1. Holds(r, o, x)
                    BY <2>1, <2>4, <2>7, <3>3, <4>2 DEF Holds, StoredFrom
                <5>. QED  BY <5>1 DEF Known
            <4>. QED  BY <4>1, <4>2
        <3>4. ASSUME NEW s \in Requests \ {r}, Holds(s, o, x)' PROVE Known(o, x)
            BY <2>1, <3>4, SameHolds DEF Known, StoredFrom
        <3>. QED  BY <2>10, <3>1, <3>2, <3>3, <3>4 DEF Known
    <2>. QED  BY <2>9, <2>10, LowKept
<1>5. ASSUME NEW r \in Requests, IngestFails(r) PROVE LowInv'
    <2>1. /\ \E t : req' = [req EXCEPT ![r] = [req[r] EXCEPT !.todo = t]]
          /\ UNCHANGED <<dbVars, now, shownLow, lost, listed, latest>>
          /\ DOMAIN req = Requests /\ req[r] \in Request
        BY <1>5 DEF IngestFails, TypeInv, WellFormed
    <2>2. /\ req'[r].pc = req[r].pc /\ req'[r].at = req[r].at /\ req'[r].held = req[r].held
          /\ req'[r].unrecorded = req[r].unrecorded /\ \A s \in Requests \ {r} : req'[s] = req[s]
        BY <2>1 DEF Request
    <2>3. ComingKept(r) /\ \A o, x : Holds(r, o, x)' => Known(o, x)
        BY <2>2 DEF ComingKept, Holds, Provider, Known
    <2>. QED  BY <2>1, <2>2, <2>3, StepKeepsLow
<1>6. ASSUME NEW r \in Requests, RecordPrice(r) PROVE LowInv'
    <2>1. PICK p \in req[r].unrecorded :
              /\ req[r].pc = "ingest"
              /\ req' = [req EXCEPT ![r].unrecorded = @ \ {p}]
              /\ \/ history' = [history EXCEPT ![<<Provider(r), p>>] =
                                   Recorded(@, req[r].held[p].price)] /\ lost' = lost
                 \/ lost' = lost \cup {<<Provider(r), p>>} /\ history' = history
              /\ UNCHANGED <<offer, log, now, shownLow, listed, latest, doubtful>>
        BY <1>6 DEF RecordPrice
    <2>2. /\ req'[r].pc = req[r].pc /\ req'[r].at = req[r].at /\ req'[r].held = req[r].held
          /\ req'[r].unrecorded = req[r].unrecorded \ {p}
          /\ \A s \in Requests \ {r} : req'[s] = req[s]
        BY <2>1 DEF TypeInv, WellFormed, Request
    <2>. DEFINE u == <<Provider(r), p>>
    <2>3. req[r].held[p].price \in Nat /\ u \in Offers
        BY <2>1, HeldType DEF Offers
    <2>4. /\ \A o \in Offers : history'[o].low <= history[o].low
          /\ u \in lost' \/ history'[u].low <= req[r].held[p].price
        <3>1. \A h \in [low : Nat, n : 0..2] : /\ Recorded(h, req[r].held[p].price).low <= h.low
                                              /\ Recorded(h, req[r].held[p].price).low <= req[r].held[p].price
            BY <2>3 DEF Recorded
        <3>2. history \in [Offers -> [low : Nat, n : 0..2]] /\ \A h \in [low : Nat, n : 0..2] : h.low <= h.low
            BY DEF TypeInv
        <3>. HIDE DEF u
        <3>3. CASE history' = [history EXCEPT ![u] = Recorded(@, req[r].held[p].price)]
            BY <2>3, <3>1, <3>2, <3>3
        <3>4. CASE lost' = lost \cup {u} /\ history' = history
            BY <3>2, <3>4
        <3>. QED  BY <2>1, <3>3, <3>4 DEF u
    <2>5. ComingKept(r)
        BY <2>1, <2>2, <2>4 DEF ComingKept
    <2>6. \A s \in Requests : ComingKept(s)
        BY <2>2, <2>5, SameHolds
    <2>7. CoverCalm
        BY <2>1, <2>4, <2>6 DEF CoverCalm
    <2>8. \A o, x : Holds(r, o, x)' => Holds(r, o, x)
        BY <2>2 DEF Holds, Provider
    <2>9. \A o, x : \A s \in Requests : Holds(s, o, x)' => Holds(s, o, x)
        BY <2>2, <2>8, SameHolds
    <2>10. \A o \in Offers, x \in Nat : Known(o, x)' => Known(o, x)
        BY <2>1, <2>9 DEF Known
    <2>. QED  BY <2>7, <2>10, LowKept
<1>7. ASSUME NEW r \in Requests, LogSearch(r) PROVE LowInv'
    <2>1. /\ req[r].pc = "ingest" /\ req[r].unrecorded = {}
          /\ req' = [req EXCEPT ![r].pc = "present", ![r].via = "provider"]
          /\ UNCHANGED <<offer, history, now, shownLow, lost, latest, doubtful>>
        BY <1>7 DEF LogSearch
    <2>2. /\ req'[r].at = req[r].at /\ req'[r].held = req[r].held
          /\ \A s \in Requests \ {r} : req'[s] = req[s]
        BY <2>1 DEF TypeInv, WellFormed, Request
    <2>3. ComingKept(r) /\ \A o, x : Holds(r, o, x)' => Known(o, x)
        BY <2>1, <2>2 DEF ComingKept, Holds, Provider, Known
    <2>. QED  BY <2>1, <2>2, <2>3, StepKeepsLow
<1>8. ASSUME NEW r \in Requests, Present(r) PROVE LowInv'
    <2>1. /\ req[r].pc = "present" /\ req'[r].pc = "done"
          /\ \A s \in Requests \ {r} : req'[s] = req[s]
          /\ shownLow' = [o \in Offers |->
                IF /\ o[1] = Provider(r) /\ o[2] \in DOMAIN req[r].held
                   /\ req[r].held[o[2]].price < shownLow[o]
                THEN req[r].held[o[2]].price ELSE shownLow[o]]
          /\ UNCHANGED <<dbVars, now, lost, listed, latest, doubtful>>
        BY <1>8 DEF Present, TypeInv, NewRequest
    <2>2. ComingKept(r)
        BY <2>1 DEF ComingKept
    <2>3. \A s \in Requests : ComingKept(s)
        BY <2>1, <2>2, SameHolds
    <2>4. CoverCalm
        BY <2>1, <2>3 DEF CoverCalm, TypeInv
    <2>5. \A o, x : \A s \in Requests : Holds(s, o, x)' => Holds(s, o, x)
        <3>1. \A o, x : ~Holds(r, o, x)'
            BY <2>1 DEF Holds
        <3>. QED  BY <2>1, <3>1, SameHolds
    <2>6. \A o \in Offers, x \in Nat : x = shownLow'[o] => x = shownLow[o] \/ Holds(r, o, x)
        BY <2>1 DEF Holds
    <2>7. \A o \in Offers, x \in Nat : Known(o, x)' => Known(o, x)
        BY <2>1, <2>5, <2>6 DEF Known
    <2>. QED  BY <2>4, <2>7, LowKept
<1>9. ASSUME NEW r \in Requests, SearchThrows(r) PROVE LowInv'
    <2>1. ThrownFrom(r)
        BY <1>9, ThrowsTo
    <2>2. lost' = lost \cup ({Provider(r)} \X req[r].unrecorded)
          /\ UNCHANGED <<dbVars, now, shownLow, listed, latest>>
        BY <1>9 DEF SearchThrows
    <2>3. ComingKept(r) /\ \A o, x : ~Holds(r, o, x)'
        BY <2>1, <2>2 DEF ComingKept, Holds, ThrownFrom
    <2>. QED  BY <2>1, <2>2, <2>3, StepKeepsLow DEF ThrownFrom
<1>10. CASE Tick \/ UNCHANGED vars
    <2>1. UNCHANGED <<req, offer, history, lost, shownLow>>
        BY <1>10 DEF Tick, vars
    <2>. QED  BY <2>1 DEF LowInv, Known, Covered, Holds, Coming, Provider
<1>. QED  BY <1>1, <1>2, <1>3, <1>4, <1>5, <1>6, <1>7, <1>8, <1>9, <1>10 DEF Next

\* A step of one search, which leaves the others alone.
Step(r) ==
    \/ Start(r) \/ CacheRead(r) \/ Search(r) \/ IngestOffer(r) \/ IngestFails(r)
    \/ RecordPrice(r) \/ LogSearch(r) \/ Present(r) \/ SearchThrows(r)

\* Every action of a search is such a step.
LEMMA StepOfOne ==
    ASSUME TypeInv, NEW r \in Requests, Step(r)
    PROVE  \A s \in Requests \ {r} : req'[s] = req[s]
<1>1. DOMAIN req = Requests
    BY DEF TypeInv
<1>2. CASE Start(r)
    BY <1>1, <1>2 DEF Start
<1>3. CASE CacheRead(r)
    BY <1>3, Read DEF ReadFrom
<1>4. CASE Search(r)
    BY <1>1, <1>4 DEF Search
<1>5. CASE IngestOffer(r)
    BY <1>5, Stored DEF StoredFrom
<1>6. CASE IngestFails(r)
    BY <1>1, <1>6 DEF IngestFails
<1>7. CASE RecordPrice(r)
    BY <1>1, <1>7 DEF RecordPrice
<1>8. CASE LogSearch(r)
    BY <1>1, <1>8 DEF LogSearch
<1>9. CASE Present(r)
    BY <1>1, <1>9 DEF Present
<1>10. CASE SearchThrows(r)
    BY <1>10, ThrowsTo DEF ThrownFrom
<1>. QED  BY <1>2, <1>3, <1>4, <1>5, <1>6, <1>7, <1>8, <1>9, <1>10 DEF Step

\* An offer labelled an all-time low was never shown lower, to anybody (with the exceptions
\* of the property), however the searches that store and record its prices interleave.
THEOREM LowsAreEarned == Spec => LowIsEarned
<1>1. TypeInv /\ LowInv /\ [Next]_vars =>
          [\A r \in Requests : req[r].pc = "present" =>
              \A p \in req'[r].low :
                  LET o == <<Provider(r), p>> IN
                  o \notin Unrecorded \cup lost => req[r].held[p].price <= shownLow[o]]_vars
    <2>. SUFFICES ASSUME TypeInv, LowInv, Next,
                         NEW r \in Requests, req[r].pc = "present", NEW p \in req'[r].low,
                         <<Provider(r), p>> \notin Unrecorded \cup lost
                  PROVE  req[r].held[p].price <= shownLow[<<Provider(r), p>>]
        OBVIOUS
    <2>1. req[r].low = {}
        BY DEF TypeInv, WellFormed
    <2>2. Present(r)
        <3>1. ~Start(r) /\ ~CacheRead(r) /\ ~Search(r) /\ ~IngestOffer(r) /\ ~IngestFails(r)
              /\ ~RecordPrice(r) /\ ~LogSearch(r)
            BY DEF Start, CacheRead, Search, IngestOffer, IngestFails, RecordPrice, LogSearch
        <3>2. ~SearchThrows(r)
            BY ThrowsTo DEF ThrownFrom
        <3>3. \A s \in Requests \ {r} : ~Step(s)
            BY <2>1, StepOfOne
        <3>4. ~Tick
            BY <2>1 DEF Tick
        <3>. QED  BY <3>1, <3>2, <3>3, <3>4 DEF Next, Step
    <2>. DEFINE o == <<Provider(r), p>>
    <2>3. p \in DOMAIN req[r].held /\ AllTimeLow(history[o], req[r].held[p].price)
        <3>. DEFINE S == {x \in DOMAIN req[r].held :
                             AllTimeLow(history[<<Provider(r), x>>], req[r].held[x].price)}
        <3>1. req' = [req EXCEPT ![r] = [NewRequest EXCEPT !.pc = "done", !.low = S]]
            BY <2>2 DEF Present
        <3>. HIDE DEF S
        <3>2. req'[r].low = S
            BY <3>1 DEF TypeInv, NewRequest
        <3>. QED  BY <3>2 DEF S
    <2>4. o \in Offers /\ req[r].held[p].price \in Nat
        BY <2>3, HeldType DEF Offers
    <2>. HIDE DEF o
    <2>5. shownLow[o] \in Nat /\ history[o].low \in Nat
        BY <2>4 DEF TypeInv
    <2>6. Covered(o, shownLow[o])
        BY <2>4, <2>5 DEF LowInv, Known
    <2>7. \A s \in Requests : ~Coming(s, o, shownLow[o])
        BY <2>4 DEF Coming, Unrecorded, Offers, o
    <2>8. history[o].low <= shownLow[o]
        BY <2>6, <2>7 DEF Covered, o
    <2>9. req[r].held[p].price <= history[o].low
        BY <2>3 DEF AllTimeLow
    <2>. QED  BY <2>4, <2>5, <2>8, <2>9 DEF o
<1>. QED  BY InitType, NextType, InitLow, NextLow, <1>1, PTL DEF Spec, LowIsEarned

----------------------------------------------------------------------------
(* The cache serves a search with what one like it has found *)

\* What an entry of page 1 names, the search that wrote it found, or one after it.
EntryFound(k) ==
    log[k] # None /\ ~log[k].later =>
        \A p \in log[k].ids : listed[k][p] # None /\ log[k].at <= listed[k][p]

FoundInv ==
    /\ listed \in [Providers \X Keys -> [Products -> Nat \cup {None}]]
    /\ \A k \in Providers \X Keys : EntryFound(k)
    /\ \A r \in Requests : req[r].pc = "cache" => req[r].via = "none"

\* It holds at the start.
LEMMA InitFound == Init => FoundInv
BY DEF Init, FoundInv, EntryFound, NewRequest

\* A request at its next turn has not been answered.
LEMMA TurnVia ==
    ASSUME NEW g
    PROVE  NextTurn(g).via = "none"
<1>. DEFINE later == {i \in g.at + 1 .. Len(Registry) : Registry[i] \in Configured}
            first == CHOOSE i \in later : \A j \in later : i <= j
<1>. HIDE DEF later, first
<1>1. NextTurn(g) = IF later = {} THEN [NewRequest EXCEPT !.pc = "done"]
                    ELSE [NewRequest EXCEPT !.pc = IF g.page = 1 THEN "cache" ELSE "search",
                              !.query = g.query, !.page = g.page, !.at = first]
    BY DEF NextTurn, later, first
<1>. QED  BY <1>1 DEF NewRequest

\* Neither has one of which a call has thrown.
LEMMA ThrowsVia ==
    ASSUME TypeInv, NEW r \in Requests, SearchThrows(r)
    PROVE  req'[r].via # "cache"
<1>1. \A g : NextTurn(g).via # "cache"
    <2>. SUFFICES ASSUME NEW g PROVE NextTurn(g).via # "cache"
        OBVIOUS
    <2>. QED  BY TurnVia
<1>. QED  BY <1>1 DEF SearchThrows, TypeInv, NewRequest

\* A step after which r is at the cache only without an answer.
ViaCalm(r) ==
    /\ req'[r].pc = "cache" => req'[r].via = "none"
    /\ \A s \in Requests \ {r} : req'[s] = req[s]

\* It keeps the invariant if it logs nothing.
LEMMA CalmFound ==
    ASSUME FoundInv, UNCHANGED <<log, listed>>, NEW r \in Requests, ViaCalm(r)
    PROVE  FoundInv'
BY DEF FoundInv, EntryFound, ViaCalm

\* Every action keeps it.
LEMMA NextFound == TypeInv /\ FoundInv /\ [Next]_vars => FoundInv'
<1>. SUFFICES ASSUME TypeInv, FoundInv, [Next]_vars PROVE FoundInv'
    OBVIOUS
<1>. USE DEF dbVars, histVars
<1>1. ASSUME NEW r \in Requests, Start(r) PROVE FoundInv'
    <2>1. \E g : req' = [req EXCEPT ![r] = NextTurn(g)]
        BY <1>1 DEF Start, TypeInv
    <2>2. ViaCalm(r)
        BY <2>1, TurnVia DEF ViaCalm, TypeInv
    <2>. QED  BY <1>1, <2>2, CalmFound DEF Start
<1>2. ASSUME NEW r \in Requests, CacheRead(r) PROVE FoundInv'
    <2>1. req'[r].pc # "cache" /\ req[r].pc = "cache"
        <3>. DEFINE h == [p \in CachedOffers(r) |-> offer[<<Provider(r), p>>]]
        <3>. HIDE DEF h
        <3>1. \/ req' = [req EXCEPT ![r] = [req[r] EXCEPT !.pc = "search"]]
              \/ \E v : req' = [req EXCEPT ![r] =
                                   [req[r] EXCEPT !.pc = "present", !.held = h, !.via = v]]
            BY <1>2 DEF CacheRead, h
        <3>2. DOMAIN req = Requests /\ req[r] \in Request
            BY DEF TypeInv, WellFormed
        <3>. QED  BY <1>2, <3>1, <3>2 DEF CacheRead, Request
    <2>2. ViaCalm(r)
        BY <1>2, <2>1, Read DEF ViaCalm, ReadFrom
    <2>. QED  BY <1>2, <2>2, CalmFound DEF CacheRead
<1>3. ASSUME NEW r \in Requests, Search(r) PROVE FoundInv'
    <2>1. DOMAIN req = Requests /\ req[r] \in Request
        BY DEF TypeInv, WellFormed
    <2>2. \/ req' = [req EXCEPT ![r] = NextTurn(req[r])]
          \/ \E deals : req' = [req EXCEPT ![r].pc = "ingest", ![r].todo = deals]
        BY <1>3 DEF Search
    <2>3. ViaCalm(r)
        BY <2>1, <2>2, TurnVia DEF ViaCalm, Request
    <2>. QED  BY <1>3, <2>3, CalmFound DEF Search
<1>4. ASSUME NEW r \in Requests, IngestOffer(r) PROVE FoundInv'
    <2>1. ViaCalm(r) /\ UNCHANGED <<log, listed>>
        BY <1>4, Stored DEF StoredFrom, ViaCalm
    <2>. QED  BY <2>1, CalmFound
<1>5. ASSUME NEW r \in Requests, IngestFails(r) \/ RecordPrice(r) PROVE FoundInv'
    <2>1. DOMAIN req = Requests /\ req[r] \in Request
        BY DEF TypeInv, WellFormed
    <2>2. /\ req[r].pc = "ingest" /\ UNCHANGED <<log, listed>>
          /\ \/ \E t : req' = [req EXCEPT ![r].todo = t]
             \/ \E u : req' = [req EXCEPT ![r].unrecorded = u]
        BY <1>5, <2>1 DEF IngestFails, RecordPrice
    <2>3. ViaCalm(r)
        BY <2>1, <2>2 DEF ViaCalm, Request
    <2>. QED  BY <2>2, <2>3, CalmFound
<1>6. ASSUME NEW r \in Requests, LogSearch(r) PROVE FoundInv'
    <2>. DEFINE k == Key(r)
                e == [ids |-> DOMAIN req[r].held, at |-> now, later |-> req[r].page > 1]
                f == [p \in Products |-> IF req[r].page = 1 /\ p \in DOMAIN req[r].held
                                         THEN now ELSE listed[k][p]]
    <2>1. /\ log' = [log EXCEPT ![k] = e] /\ listed' = [listed EXCEPT ![k] = f]
          /\ req' = [req EXCEPT ![r].pc = "present", ![r].via = "provider"]
        BY <1>6 DEF LogSearch, FoundInv
    <2>2. /\ req[r] \in Request /\ now \in Nat /\ None \notin Nat
          /\ DOMAIN req[r].held \subseteq Products /\ k \in Providers \X Keys
        <3>1. req[r] \in Request /\ req[r].at \in 1..2 /\ now \in Nat /\ None \notin Nat
            BY <1>6, DealSearchAssumption DEF LogSearch, TypeInv, WellFormed
        <3>2. Provider(r) \in Providers /\ req[r].query \in Keys
            BY <3>1 DEF Provider, Registry, Providers, Request
        <3>3. req[r].held \in Partial(Offer)
            BY <3>1 DEF Request
        <3>. QED  BY <3>1, <3>2, <3>3, PartialIs DEF Key
    <2>. HIDE DEF k
    <2>3. f \in [Products -> Nat \cup {None}]
        BY <2>2 DEF FoundInv
    <2>4. ~e.later => \A p \in e.ids : f[p] # None /\ e.at <= f[p]
        <3>1. req[r].page \in {1, 2} /\ e.ids = DOMAIN req[r].held /\ e.at = now
            BY <2>2 DEF Request
        <3>2. ~e.later => req[r].page = 1
            <4>1. e.later <=> req[r].page > 1
                BY Zenon
            <4>. HIDE DEF e
            <4>. QED  BY <3>1, <4>1
        <3>3. req[r].page = 1 => \A p \in DOMAIN req[r].held : f[p] = now
            BY <2>2
        <3>. QED  BY <2>2, <3>1, <3>2, <3>3
    <2>. HIDE DEF e, f
    <2>5. listed' \in [Providers \X Keys -> [Products -> Nat \cup {None}]]
        BY <2>1, <2>3 DEF FoundInv
    <2>6. \A x \in Providers \X Keys : EntryFound(x)'
        <3>1. log'[k] = e /\ listed'[k] = f
            BY <2>1, <2>2 DEF TypeInv, FoundInv
        <3>2. \A x \in (Providers \X Keys) \ {k} : log'[x] = log[x] /\ listed'[x] = listed[x]
            BY <2>1 DEF TypeInv, FoundInv
        <3>. QED  BY <2>4, <3>1, <3>2 DEF FoundInv, EntryFound
    <2>7. \A s \in Requests : req'[s].pc = "cache" => req'[s].via = "none"
        BY <2>1, <2>2 DEF TypeInv, FoundInv, Request
    <2>. QED  BY <2>5, <2>6, <2>7 DEF FoundInv
<1>7. ASSUME NEW r \in Requests, Present(r) PROVE FoundInv'
    <2>1. /\ req'[r].pc = "done" /\ \A s \in Requests \ {r} : req'[s] = req[s]
          /\ UNCHANGED <<log, listed>>
        BY <1>7 DEF Present, TypeInv, NewRequest
    <2>2. ViaCalm(r)
        BY <2>1 DEF ViaCalm
    <2>. QED  BY <2>1, <2>2, CalmFound
<1>8. ASSUME NEW r \in Requests, SearchThrows(r) PROVE FoundInv'
    <2>1. \/ req' = [req EXCEPT ![r] = NextTurn(req[r])]
          \/ req' = [req EXCEPT ![r] = [NewRequest EXCEPT !.pc = "done"]]
        BY <1>8 DEF SearchThrows
    <2>2. ViaCalm(r)
        BY <2>1, TurnVia DEF ViaCalm, TypeInv, NewRequest
    <2>. QED  BY <1>8, <2>2, CalmFound DEF SearchThrows
<1>9. CASE Tick \/ UNCHANGED vars
    <2>1. UNCHANGED <<req, log, listed>>
        BY <1>9 DEF Tick, vars
    <2>. QED  BY <2>1 DEF FoundInv, EntryFound
<1>. QED  BY <1>1, <1>2, <1>3, <1>4, <1>5, <1>6, <1>7, <1>8, <1>9 DEF Next

\* An answer that the cache gives for a search, other searches of whatever users writing the
\* log and the offers meanwhile, is of products that a search for the same terms at the same
\* provider found within the limit, at prices seen within it (with the exceptions of the
\* property).
THEOREM CacheServesLike == Spec => CacheServesOwnSearch
<1>1. TypeInv /\ FoundInv /\ [Next]_vars =>
          [\A r \in Requests :
              req[r].pc = "cache" /\ req'[r].via = "cache" =>
                  \A p \in DOMAIN req'[r].held :
                      /\ listed[Key(r)][p] # None /\ ~Stale(listed[Key(r)][p])
                      /\ ~Stale(req'[r].held[p].at)]_vars
    <2>. SUFFICES ASSUME TypeInv, FoundInv, Next,
                         NEW r \in Requests, req[r].pc = "cache", req'[r].via = "cache",
                         NEW p \in DOMAIN req'[r].held
                  PROVE  /\ listed[Key(r)][p] # None /\ ~Stale(listed[Key(r)][p])
                         /\ ~Stale(req'[r].held[p].at)
        OBVIOUS
    <2>1. req[r].via = "none"
        BY DEF FoundInv
    <2>2. CacheRead(r)
        <3>1. ~Start(r) /\ ~Search(r) /\ ~IngestOffer(r) /\ ~IngestFails(r)
              /\ ~RecordPrice(r) /\ ~LogSearch(r) /\ ~Present(r)
            BY DEF Start, Search, IngestOffer, IngestFails, RecordPrice, LogSearch, Present
        <3>2. ~SearchThrows(r)
            BY ThrowsVia
        <3>3. \A s \in Requests \ {r} : ~Step(s)
            BY <2>1, StepOfOne
        <3>4. ~Tick
            BY <2>1 DEF Tick
        <3>. QED  BY <3>1, <3>2, <3>3, <3>4 DEF Next, Step
    <2>. DEFINE S == CachedOffers(r)
                h == [x \in S |-> offer[<<Provider(r), x>>]]
                own == S \subseteq RecentLog(r).ids /\ ~RecentLog(r).later
                v == IF own THEN "cache" ELSE "mixed"
    <2>3. S # {} /\ req'[r].held = h /\ req'[r].via = v
        <3>1. req' = [req EXCEPT ![r] = IF S = {} THEN [req[r] EXCEPT !.pc = "search"]
                          ELSE [req[r] EXCEPT !.pc = "present", !.held = h, !.via = v]]
            BY <2>2 DEF CacheRead
        <3>2. DOMAIN req = Requests /\ req[r] \in Request
            BY DEF TypeInv, WellFormed
        <3>. HIDE DEF S, h, v
        <3>. QED  BY <2>1, <3>1, <3>2 DEF Request
    <2>4. own /\ p \in S /\ req'[r].held[p] = offer[<<Provider(r), p>>]
        BY <2>3
    <2>5. ~Stale(req'[r].held[p].at) /\ RecentLog(r) # None
        BY <2>4 DEF CachedOffers
    <2>6. /\ log[Key(r)] # None /\ ~log[Key(r)].later /\ p \in log[Key(r)].ids
          /\ ~Stale(log[Key(r)].at)
        BY <2>4, <2>5 DEF RecentLog
    <2>. HIDE DEF S, h, own, v
    <2>7. Key(r) \in Providers \X Keys
        <3>1. req[r] \in Request /\ req[r].at \in 1..2
            BY DEF TypeInv, WellFormed
        <3>. QED  BY <3>1 DEF Key, Provider, Registry, Providers, Request
    <2>8. listed[Key(r)][p] # None /\ log[Key(r)].at <= listed[Key(r)][p]
        BY <2>6, <2>7 DEF FoundInv, EntryFound
    <2>9. /\ log[Key(r)].at \in Nat /\ listed[Key(r)][p] \in Nat /\ now \in Nat
          /\ StaleAfter \in Nat
        <3>1. log[Key(r)] \in LogEntry
            BY <2>6, <2>7 DEF TypeInv
        <3>2. listed[Key(r)] \in [Products -> Nat \cup {None}] /\ p \in Products
            BY <2>6, <2>7, <3>1 DEF FoundInv, LogEntry
        <3>. QED  BY <2>8, <3>1, <3>2, DealSearchAssumption DEF LogEntry, TypeInv
    <2>. QED  BY <2>5, <2>6, <2>8, <2>9 DEF Stale
<1>. QED  BY InitType, NextType, InitFound, NextFound, <1>1, PTL DEF Spec, CacheServesOwnSearch

=============================================================================
