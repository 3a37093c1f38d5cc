---------------------------- MODULE DealSearch ----------------------------
(***************************************************************************)
(* GET /deals/search on the marketplaces (MarketplaceDealsService,         *)
(* src/src/modules/deals/engine/marketplace-deals.service.ts): a search is *)
(* answered from the cache of an earlier one or by the first provider that *)
(* has something; what a provider lists is kept as offers, each with a     *)
(* history of its prices, and labelled from that history.                  *)
(*                                                                         *)
(* Searches of all users share the offers, the histories and the log the   *)
(* cache works with, and every database call of a search is a step: an     *)
(* answer mixes what other searches wrote meanwhile.                       *)
(*                                                                         *)
(* Left out: the legacy engine and the sync of the user's feed (DealFeed), *)
(* texts, links and scores, the order of the deals, alerts and clicks,     *)
(* which nothing here reads but the answer's "alerted".                    *)
(***************************************************************************)
EXTENDS Deals, Integers, FiniteSets, Sequences

CONSTANTS
    Title,         \* for each product, the terms that termInTitle finds in its title
    Significant,   \* for each query, its significant terms (tokenizeQuery) ...
    Generic,       \* ... and its generic ones
    Blocked,       \* <<query, product>> where isTitleBlockedForQuery holds
    Words,         \* for each query, the words the cache looks for, none for "all"
    TitleHas,      \* <<word, product>> where the title includes the word
    Mentioned,     \* <<query, product>> where an offer names it, in whatever field
    Listings,      \* for each provider, the answers it may give: sets of raw records
    Configured,    \* the providers for which isConfigured() holds
    Requests,      \* searches, each used once
    StaleAfter,    \* OFFER_STALE_AFTER_MS, in ticks
    MaxTime        \* bound on the clock

\* The registry's providers, in priority order.
Registry == <<"amazon", "cuelinks">>
Providers == {"amazon", "cuelinks"}
Offers == Providers \X Products
Keys == Queries \cup {None}

ASSUME DealSearchAssumption ==
    /\ Configured \subseteq Providers
    /\ \A prov \in Providers :
          Listings[prov] \subseteq SUBSET [product : Products, price : Nat]
    /\ StaleAfter \in Nat /\ MaxTime \in Nat
    /\ None \notin Queries \cup Nat

VARIABLES
    offer,     \* the offer documents, None where there is none
    history,   \* of each offer, the lowest recorded price and how many there are, up to 2
    log,       \* of each provider and query, the latest successful search
    req,       \* each search
    now,       \* the clock
    shownLow,  \* history: the lowest price of each offer in an answer so far
    lost,      \* history: offers of which an observation was not recorded
    listed,    \* history: when a search last ended that found a product on page 1, by provider and query
    latest,    \* history: the price in the latest listing of an offer
    doubtful   \* history: offers with a listing that was overtaken or not kept

dbVars == <<offer, history, log>>
histVars == <<shownLow, lost, listed, latest, doubtful>>
vars == <<dbVars, req, now, histVars>>

Far == 1000000000      \* no price seen yet

NoOffers == << >>
NewRequest == [pc |-> "new", query |-> None, page |-> 1, at |-> 0, todo |-> NoOffers,
               unrecorded |-> {}, held |-> NoOffers, via |-> "none",
               low |-> {}]

Init ==
    /\ offer = [o \in Offers |-> None]
    /\ history = [o \in Offers |-> [low |-> Far, n |-> 0]]
    /\ log = [k \in Providers \X Keys |-> None]
    /\ req = [r \in Requests |-> NewRequest]
    /\ now = 0
    /\ shownLow = [o \in Offers |-> Far]
    /\ lost = {}
    /\ listed = [k \in Providers \X Keys |-> [p \in Products |-> None]]
    /\ latest = [o \in Offers |-> None]
    /\ doubtful = {}

----------------------------------------------------------------------------
(* What the providers make of their listings *)

Hits(terms, p) == Cardinality(terms \cap Title[p])

\* titleMatchesSearchQuery
Matches(p, q) ==
    LET sig == Hits(Significant[q], p)
        gen == Hits(Generic[q], p)
    IN
    /\ <<q, p>> \notin Blocked
    /\ IF Significant[q] # {}
       THEN sig > 0 /\ (Cardinality(Significant[q]) >= 2 /\ sig < 2 => sig + gen >= 2)
       ELSE gen >= (IF Generic[q] = {} THEN 0 ELSE IF Cardinality(Generic[q]) >= 3 THEN 2 ELSE 1)

\* filterDealsByQueryRelevance; strict on later pages.
Relevant(S, q, strict) ==
    LET matching == {p \in S : Matches(p, q)}
        allowed == {p \in S : <<q, p>> \notin Blocked}
    IN
    IF matching # {} \/ strict THEN matching ELSE IF allowed # {} THEN allowed ELSE S

\* mapProductToDeal, mapOfferToDeal: the products of a listing that have a price.
Priced(listing) == {raw.product : raw \in {x \in listing : x.price > 0}}

\* The cache takes a title with any word of the query, or any title when it has no words;
\* Cuelinks an offer with the query in its title, campaign, description or category.
HasTerm(p, q) == q # None /\ Words[q] # {} => \E w \in Words[q] : <<w, p>> \in TitleHas
HasQuery(p, q) == q # None => <<q, p>> \in Mentioned

\* A provider's search: from a listing to deals.  Cuelinks has no pages and no defaults.
SearchDeals(prov, listing, q, page) ==
    LET raw(p) == CHOOSE x \in listing : x.product = p
        kept == IF prov = "amazon"
                THEN Relevant(Priced(listing), IF q = None THEN DefaultQuery ELSE q, page > 1)
                ELSE {p \in Priced(listing) : HasQuery(p, q)}
    IN
    [p \in kept |-> raw(p).price]

----------------------------------------------------------------------------
(* searchProviders *)

Stale(at) == now - at > StaleAfter

Provider(r) == Registry[req[r].at]
Key(r) == <<Provider(r), req[r].query>>

\* A request at the turn of the first configured provider after its own, with nothing of
\* what that found; without one it is answered "unavailable".
NextTurn(g) ==
    LET later == {i \in g.at + 1 .. Len(Registry) : Registry[i] \in Configured} IN
    IF later = {} THEN [NewRequest EXCEPT !.pc = "done"]
    ELSE [NewRequest EXCEPT !.pc = IF g.page = 1 THEN "cache" ELSE "search",
                            !.query = g.query, !.page = g.page,
                            !.at = CHOOSE i \in later : \A j \in later : i <= j]

Start(r) ==
    \E q \in Keys, page \in {1, 2} :
        /\ req[r].pc = "new"
        /\ req' = [req EXCEPT ![r] = NextTurn([@ EXCEPT !.query = q, !.page = page])]
        /\ UNCHANGED <<dbVars, now, histVars>>

\* Mutant: the entry of any query will do.
RecentLogAnyQuery(r) ==
    LET K == {k \in Providers \X Keys : k[1] = Provider(r) /\ log[k] # None /\ ~Stale(log[k].at)}
    IN IF K = {} THEN None ELSE log[CHOOSE k \in K : TRUE]

\* The log entry that getFreshCachedOffers finds: the latest successful search for this
\* provider and query, unless that is stale.
RecentLog(r) == IF log[Key(r)] # None /\ ~Stale(log[Key(r)].at) THEN log[Key(r)] ELSE None

\* The fresh offers it stands for; when there are none left of those it names, the
\* provider's fresh offers that have a word of the query.
CachedOffers(r) ==
    LET fresh == {p \in Products : LET o == <<Provider(r), p>> IN
                                   offer[o] # None /\ ~Stale(offer[o].at)}
        named == fresh \cap RecentLog(r).ids
    IN
    IF RecentLog(r) = None THEN {}
    ELSE IF named # {} THEN named
    ELSE {p \in fresh : HasTerm(p, req[r].query)}

\* via: history, what the answer stands on.  The log and the offers are two reads, taken
\* as one.
CacheRead(r) ==
    LET S == CachedOffers(r) IN
    /\ req[r].pc = "cache"
    /\ req' = [req EXCEPT ![r] =
                  IF S = {} THEN [req[r] EXCEPT !.pc = "search"]
                  ELSE [req[r] EXCEPT !.pc = "present",
                           !.held = [p \in S |-> offer[<<Provider(r), p>>]],
                           !.via = IF S \subseteq RecentLog(r).ids /\ ~RecentLog(r).later
                                   THEN "cache" ELSE "mixed"]]
    /\ UNCHANGED <<dbVars, now, histVars>>

\* History: offers that a search has found and not upserted yet.
AwaitedBy(r) == IF req[r].pc = "ingest" THEN {Provider(r)} \X DOMAIN req[r].todo ELSE {}
Awaited == UNION {AwaitedBy(r) : r \in Requests}

\* provider.search: an answer with deals is ingested; for an error, or no deals, a log
\* entry that the cache does not read, and the next provider.
Search(r) ==
    /\ req[r].pc = "search"
    /\ \/ \E listing \in Listings[Provider(r)] :
            LET deals == SearchDeals(Provider(r), listing, req[r].query, req[r].page)
                offers == {Provider(r)} \X DOMAIN deals
            IN
            /\ offers # {}
            /\ req' = [req EXCEPT ![r].pc = "ingest", ![r].todo = deals]
            /\ latest' = [o \in Offers |-> IF o \in offers THEN deals[o[2]] ELSE latest[o]]
            /\ doubtful' = (doubtful \ offers) \cup (offers \cap Awaited)
       \/ req' = [req EXCEPT ![r] = NextTurn(req[r])] /\ UNCHANGED <<latest, doubtful>>
    /\ UNCHANGED <<dbVars, now, shownLow, lost, listed>>

\* Mutant: only an insert sets the price.
UpsertedOnInsert(there, doc) == IF there = None THEN doc ELSE [doc EXCEPT !.price = there.price]

\* The upsert of an offer sets its price, too, when the offer is there.
Upserted(there, doc) == doc

Without(f, p) == [x \in DOMAIN f \ {p} |-> f[x]]

\* ingestOne, for the deals in parallel: the upserts of product and offer ...
IngestOffer(r) ==
    \E p \in DOMAIN req[r].todo :
        LET g == req[r]
            o == <<Provider(r), p>>
            doc == Upserted(offer[o], [price |-> g.todo[p], at |-> now])
        IN
        /\ g.pc = "ingest"
        /\ offer' = [offer EXCEPT ![o] = doc]
        /\ req' = [req EXCEPT ![r] =
              [g EXCEPT !.todo = Without(@, p), !.unrecorded = @ \cup {p},
                        !.held = [x \in DOMAIN @ \cup {p} |-> IF x = p THEN doc ELSE @[x]]]]
        /\ UNCHANGED <<history, log, now, histVars>>

\* ... or their failure, which leaves the deal out ...
IngestFails(r) ==
    \E p \in DOMAIN req[r].todo :
        /\ req[r].pc = "ingest"
        /\ req' = [req EXCEPT ![r].todo = Without(@, p)]
        /\ doubtful' = doubtful \cup {<<Provider(r), p>>}
        /\ UNCHANGED <<dbVars, now, shownLow, lost, listed, latest>>

\* Mutant: the history keeps the latest price, not the lowest.
RecordedLast(h, price) == [low |-> price, n |-> IF h.n < 2 THEN h.n + 1 ELSE 2]

\* ... and the entry in its price history, whose failure is only logged.
Recorded(h, price) == [low |-> IF price < h.low THEN price ELSE h.low,
                       n |-> IF h.n < 2 THEN h.n + 1 ELSE 2]

RecordPrice(r) ==
    \E p \in req[r].unrecorded :
        LET o == <<Provider(r), p>> IN
        /\ req[r].pc = "ingest"
        /\ req' = [req EXCEPT ![r].unrecorded = @ \ {p}]
        /\ \/ /\ history' = [history EXCEPT ![o] = Recorded(@, req[r].held[p].price)]
              /\ UNCHANGED lost
           \/ lost' = lost \cup {o} /\ UNCHANGED history
        /\ UNCHANGED <<offer, log, now, shownLow, listed, latest, doubtful>>

\* logSearch with "success", of however many offers; later: history, it was a later page.
LogSearch(r) ==
    /\ req[r].pc = "ingest"
    /\ DOMAIN req[r].todo = {} /\ req[r].unrecorded = {}
    /\ log' = [log EXCEPT ![Key(r)] = [ids |-> DOMAIN req[r].held, at |-> now,
                                       later |-> req[r].page > 1]]
    /\ req' = [req EXCEPT ![r].pc = "present", ![r].via = "provider"]
    /\ listed' = [listed EXCEPT ![Key(r)] =
          [p \in Products |-> IF req[r].page = 1 /\ p \in DOMAIN req[r].held THEN now ELSE @[p]]]
    /\ UNCHANGED <<offer, history, now, shownLow, lost, latest, doubtful>>

\* isAllTimeLow of toPublicMerchantDeals and batchPriceHistoryComparison.
AllTimeLow(h, price) == h.n > 1 /\ price <= h.low

\* toPublicMerchantDeals, in the call that reads the price histories.
Present(r) ==
    LET g == req[r] IN
    /\ g.pc = "present"
    /\ req' = [req EXCEPT ![r] =
          [NewRequest EXCEPT !.pc = "done",
              !.low = {p \in DOMAIN g.held :
                          AllTimeLow(history[<<Provider(r), p>>], g.held[p].price)}]]
    /\ shownLow' = [o \in Offers |->
          IF o[1] = Provider(r) /\ o[2] \in DOMAIN g.held /\ g.held[o[2]].price < shownLow[o]
          THEN g.held[o[2]].price ELSE shownLow[o]]
    /\ UNCHANGED <<dbVars, now, lost, listed, latest, doubtful>>

\* A call on the way throws.  After the provider's search that passes the turn on, unless
\* the log entry about it fails too; before it, it is the caller's error.  Within the
\* ingestion that is once all its deals are settled, but for a crash.
SearchThrows(r) ==
    /\ req[r].pc \in {"cache", "search", "ingest", "present"}
    /\ \/ /\ req[r].pc \in {"search", "ingest"} \/ req[r].via = "provider"
          /\ DOMAIN req[r].todo = {} /\ req[r].unrecorded = {}
          /\ req' = [req EXCEPT ![r] = NextTurn(req[r])]
       \/ req' = [req EXCEPT ![r] = [NewRequest EXCEPT !.pc = "done"]]
    /\ doubtful' = doubtful \cup AwaitedBy(r)
    /\ lost' = lost \cup ({Provider(r)} \X req[r].unrecorded)
    /\ UNCHANGED <<dbVars, now, shownLow, listed, latest>>

Tick ==
    /\ now < MaxTime
    /\ now' = now + 1
    /\ UNCHANGED <<dbVars, req, histVars>>

Next ==
    \/ \E r \in Requests :
        \/ Start(r) \/ CacheRead(r) \/ Search(r) \/ IngestOffer(r) \/ IngestFails(r)
        \/ RecordPrice(r) \/ LogSearch(r) \/ Present(r) \/ SearchThrows(r)
    \/ Tick

Spec == Init /\ [][Next]_vars

----------------------------------------------------------------------------
(* Properties *)

Offer == [price : Nat, at : Nat]

TypeOK ==
    /\ \A o \in Offers : offer[o] \in Offer \cup {None}
    /\ history \in [Offers -> [low : Nat, n : 0..2]]
    /\ \A k \in Providers \X Keys :
          log[k] \in [ids : SUBSET Products, at : Nat, later : BOOLEAN] \cup {None}
    /\ \A r \in Requests :
          /\ req[r].pc \in {"new", "cache", "search", "ingest", "present",
                            "done"}
          /\ req[r].pc \notin {"new", "done"} => req[r].at \in 1..Len(Registry)
    /\ now \in 0..MaxTime

\* Offers with an observation that is not in the price history yet.
Unrecorded == UNION {{Provider(r)} \X req[r].unrecorded : r \in {x \in Requests : req[x].pc = "ingest"}}

\* A price is labelled an all-time low only if no answer before, to anybody, showed a
\* lower one for the offer; excepted are offers of which an observation is on its way into
\* the history, which the label is taken from, or was lost on it.
LowIsEarned ==
    [][\A r \in Requests : req[r].pc = "present" =>
          \A p \in req'[r].low :
              LET o == <<Provider(r), p>> IN
              o \notin Unrecorded \cup lost => req[r].held[p].price <= shownLow[o]]_vars

\* A search is answered from the cache with what page 1 of a search for the same terms at
\* the same provider has found, one that ended no longer ago than the limit, at prices that
\* were seen no longer ago.  Excepted are the two ways the log mixes searches: its latest
\* entry is that of a later page, which the entry does not say, or names no offer that is
\* still fresh.
CacheServesOwnSearch ==
    [][\A r \in Requests :
          req[r].pc = "cache" /\ req'[r].via = "cache" =>
              \A p \in DOMAIN req'[r].held :
                  /\ listed[Key(r)][p] # None /\ ~Stale(listed[Key(r)][p])
                  /\ ~Stale(req'[r].held[p].at)]_vars

\* Once nobody is about to write an offer its price is that of its latest listing, at
\* whatever times the searches that found it write; excepted are offers whose latest
\* listing came while an older one was still to be written, or was not kept.
LatestListingKept ==
    \A o \in Offers \ (doubtful \cup Awaited) :
        latest[o] # None => offer[o].price = latest[o]
============================================================================
