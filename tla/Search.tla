-------------------------------- MODULE Search --------------------------------
(* The web searches paid for on one person's behalf (tools/search, and the    *)
(* cache every lookup keeps, tools/lookup.rs): the pages of one query, asked  *)
(* for by turns that run side by side.  A page in the cache costs nothing;    *)
(* any other takes a grant of the person's budget (Budgets), is requested     *)
(* with no lock held, and is remembered.  The vendor's pages change.          *)
EXTENDS Budgets, Functions

CONSTANTS
    Pages,           \* FIRST_PAGE .. LAST_PAGE
    PageRows,        \* what a page may hold; NoRows for an empty one
    NoRows,
    CacheTtl,        \* CACHE_TTL
    CacheCap         \* CACHE_CAP

ASSUME SearchAssumption ==
    /\ Pages \subseteq Nat \ {0} /\ {CacheTtl, CacheCap} \subseteq Nat \ {0}
    /\ NoRows \in PageRows

VARIABLES
    cache,           \* the pages held: page -> [at, rows]
    search,          \* each ask: [page, rows, told ("" until it is answered),
                     \* when its page was come by, and when it was rendered]
    vendor           \* history: what the vendor answered: [page, rows, at]

searchVars == <<budgetVars, cache, search, vendor>>

EmptyCache == [p \in {} |-> [at |-> 0, rows |-> NoRows]]

SearchInit ==
    /\ BudgetsInit /\ cache = EmptyCache /\ vendor = {}
    /\ search = [a \in Requests |->
                    [page |-> 0, rows |-> NoRows, told |-> "",
                     foundAt |-> 0, shownAt |-> 0]]

\* Faulty variant: an entry serves until the cap clears it.
LiveForEver == cache

(* The entries that serve; the others are swept by whoever looks.             *)
LiveEntries == Restrict(cache, {p \in DOMAIN cache : now - cache[p].at < CacheTtl})

Tells(a, what) == search' = [search EXCEPT ![a].told = what]

Unasked(a) == ask[a].at = "unasked" /\ search[a].page = 0 /\ (a > 1 => search[a - 1].page # 0)

(* A page in the cache is served on a spent budget, too.                      *)
FindsCached(a) ==
    /\ Unasked(a)
    /\ cache' = LiveEntries
    /\ \E p \in DOMAIN LiveEntries :
         search' = [search EXCEPT ![a].page = p, ![a].rows = LiveEntries[p].rows,
                                  ![a].foundAt = now]
    /\ ask' = [ask EXCEPT ![a].at = "rendering"]
    /\ UNCHANGED <<now, spent, vendor>>

MissesCache(a) ==
    /\ Unasked(a)
    /\ cache' = LiveEntries
    /\ \E p \in Pages \ DOMAIN LiveEntries : search' = [search EXCEPT ![a].page = p]
    /\ UNCHANGED <<budgetVars, vendor>>

PastCache(a) == ask[a].at = "unasked" /\ search[a].page # 0

(* Whom to bill is read from the turn, behind the miss: nobody, or nobody     *)
(* alone, and the ask is declined.                                            *)
NobodyToBill(a) ==
    /\ PastCache(a)
    /\ ask' = [ask EXCEPT ![a].at = "silent"]
    /\ Tells(a, "failed")
    /\ UNCHANGED <<now, spent, cache, vendor>>

AsksVendor(a) ==
    /\ PastCache(a) /\ Grants(a)
    /\ Tells(a, IF ask'[a].at = "silent" THEN "spent" ELSE "")
    /\ UNCHANGED <<cache, vendor>>

(* At the cap the cache is cleared whole.                                     *)
RemembersPage(p, rows) ==
    LET kept == IF Cardinality(DOMAIN cache) >= CacheCap THEN EmptyCache ELSE cache
    IN  cache' = [q \in DOMAIN kept \cup {p} |->
                     IF q = p THEN [at |-> now, rows |-> rows] ELSE kept[q]]

VendorAnswers(a) ==
    /\ ChangeStands(a)
    /\ \E rows \in PageRows :
         /\ RemembersPage(search[a].page, rows)
         /\ vendor' = vendor \cup {[page |-> search[a].page, rows |-> rows, at |-> now]}
         /\ search' = [search EXCEPT ![a].rows = rows, ![a].foundAt = now]

(* Refused, unreachable, too late, cut short, unreadable: nothing is billed.  *)
VendorFails(a) ==
    /\ ChangeFails(a)
    /\ Tells(a, "failed")
    /\ UNCHANGED <<cache, vendor>>

RepeatsPrevious(a) ==
    LET previous == search[a].page - 1
    IN  previous \in DOMAIN LiveEntries /\ LiveEntries[previous].rows = search[a].rows

(* An empty first page is an answer; a later page that is empty, or the same  *)
(* as the page before it where that is still held, is past the end.           *)
Renders(a) ==
    /\ ask[a].at \in {"rendering", "stood"} /\ search[a].told = ""
    /\ search' = [search EXCEPT
          ![a].shownAt = now,
          ![a].told = IF search[a].page = 1
                      THEN IF search[a].rows = NoRows THEN "none" ELSE "page"
                      ELSE IF search[a].rows = NoRows \/ RepeatsPrevious(a)
                      THEN "exhausted" ELSE "page"]
    /\ cache' = IF search[a].rows # NoRows /\ search[a].page > 1 THEN LiveEntries ELSE cache
    /\ UNCHANGED <<budgetVars, vendor>>

Ticks == ClockTicks /\ UNCHANGED <<cache, search, vendor>>

SearchNext ==
    \/ Ticks
    \/ \E a \in Requests : \/ FindsCached(a) \/ MissesCache(a) \/ NobodyToBill(a)
                           \/ AsksVendor(a) \/ VendorAnswers(a) \/ VendorFails(a) \/ Renders(a)

SearchSpec == SearchInit /\ [][SearchNext]_searchVars

-----------------------------------------------------------------------------
AnsweredWithin(p, rows, at) ==
    \E v \in vendor : v.page = p /\ v.rows = rows /\ v.at <= at /\ at - v.at < CacheTtl

(* What a turn is shown of a page is what the vendor answered for that page,  *)
(* by the time it was looked up not a cache's span ago, whoever asked; and it *)
(* is told the results ended only by an empty page, or by one that repeats    *)
(* what the vendor answered for the page before it.                           *)
SearchTruthful ==
    /\ Cardinality(DOMAIN cache) <= CacheCap
    /\ \A a \in Requests :
        /\ search[a].told \in {"page", "none", "exhausted"} =>
               AnsweredWithin(search[a].page, search[a].rows, search[a].foundAt)
        /\ search[a].told = "exhausted" /\ search[a].rows # NoRows =>
               AnsweredWithin(search[a].page - 1, search[a].rows, search[a].shownAt)
===============================================================================
