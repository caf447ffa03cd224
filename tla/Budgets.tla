-------------------------------- MODULE Budgets --------------------------------
(* One key's replies under a windowed budget (window.rs, ReplyWindow): the    *)
(* rights replies and the resets of a person, and the searches paid for on    *)
(* their behalf.  A grant is taken before the change it is for, so that asks  *)
(* made together are bounded together, and handed back where the change       *)
(* fails; the change itself takes time, and holds no lock of the budget.      *)
EXTENDS Naturals, FiniteSets

CONSTANTS
    Cap,             \* PRIVACY_REPLY_CAP, RESET_REPLY_CAP, SEARCH_BUDGET_CAP
    Span,            \* the window's length
    MaxNow,          \* bound: the clock
    MaxRequests,     \* bound: the asks of the one key, numbered as they come
    Unopened         \* no window

ASSUME BudgetsAssumption ==
    /\ {Cap, Span} \subseteq Nat \ {0}
    /\ {MaxNow, MaxRequests} \subseteq Nat /\ Unopened \notin Nat

VARIABLES
    now,
    spent,           \* the key's entry: [start, count]; its start names a window
    ask              \* each ask: [at, window (that granted it), back (the one
                     \* its grant was handed back to)]

budgetVars == <<now, spent, ask>>

Requests == 1 .. MaxRequests
NoEntry == [start |-> Unopened, count |-> 0]

BudgetsInit ==
    /\ now = 0 /\ spent = NoEntry
    /\ ask = [a \in Requests |-> [at |-> "unasked", window |-> Unopened, back |-> Unopened]]

ClockTicks ==
    /\ now < MaxNow /\ now' = now + 1
    /\ UNCHANGED <<spent, ask>>

(* An expired window is swept by the next ask, and only by an ask.            *)
Swept == IF spent.start # Unopened /\ now - spent.start >= Span THEN NoEntry ELSE spent

(* The first grant opens the window.                                          *)
Grants(a) ==
    /\ ask[a].at = "unasked"
    /\ LET entry == Swept
           start == IF entry = NoEntry THEN now ELSE entry.start IN
       IF entry.count >= Cap /\ entry # NoEntry
       THEN /\ spent' = entry
            /\ ask' = [ask EXCEPT ![a].at = "silent", ![a].window = entry.start]
       ELSE /\ spent' = [start |-> start, count |-> entry.count + 1]
            /\ ask' = [ask EXCEPT ![a].at = "granted", ![a].window = start]
    /\ UNCHANGED now

ChangeStands(a) ==
    /\ ask[a].at = "granted"
    /\ ask' = [ask EXCEPT ![a].at = "stood"]
    /\ UNCHANGED <<now, spent>>

\* Faulty variant: a failed change keeps its grant.
KeepsGrant(a) == UNCHANGED spent

(* To whatever entry the key has by then.                                     *)
Revoke(a) ==
    spent' = [spent EXCEPT !.count = IF @ = 0 THEN 0 ELSE @ - 1]

ChangeFails(a) ==
    /\ ask[a].at = "granted"
    /\ Revoke(a)
    /\ ask' = [ask EXCEPT ![a].at = "failed", ![a].back = spent.start]
    /\ UNCHANGED now

BudgetsNext ==
    \/ ClockTicks
    \/ \E a \in Requests : Grants(a) \/ ChangeStands(a) \/ ChangeFails(a)

BudgetsSpec == BudgetsInit /\ [][BudgetsNext]_budgetVars

-----------------------------------------------------------------------------
(* The asks a window granted whose changes stand or may still stand, and the  *)
(* grants it got back that another window had given.                          *)
GrantedBy(w) == {a \in Requests : ask[a].window = w /\ ask[a].at \in {"granted", "stood"}}
HandedBackTo(w) == {a \in Requests : ask[a].at = "failed" /\ ask[a].back = w /\ ask[a].window # w}

(* A window lets as many changes stand as its cap says, and one more for each *)
(* grant of an earlier window that came back too late; and no ask is silenced *)
(* by one that failed: what the entry counts is never more than what stands   *)
(* or may stand.                                                              *)
BudgetKept ==
    /\ \A w \in 0 .. now : Cardinality(GrantedBy(w)) <= Cap + Cardinality(HandedBackTo(w))
    /\ spent # NoEntry => spent.count <= Cardinality(GrantedBy(spent.start))

(* "Up to `cap` grants per key inside the window" (window.rs), whatever comes *)
(* back from an earlier one.                                                  *)
CapHeld == \A w \in 0 .. now : Cardinality(GrantedBy(w)) <= Cap
===============================================================================
