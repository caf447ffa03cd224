------------------------------- MODULE ChatProofs -------------------------------
(***************************************************************************)
(* What a chat is told and owed: whose summons is answered, at whose       *)
(* authority, under which budget, who is introduced to the assistant, what *)
(* a group's session holds of the group, and what it holds of the          *)
(* deployment that serves it.  For every value of the constants, the       *)
(* properties of Budgets, Disclosure, Debts, Contact and Deployments.      *)
(* These share no variable; the proofs use none of one another.            *)
(***************************************************************************)
EXTENDS Budgets, Disclosure, Debts, Contact, Deployments, FiniteSetTheorems,
        SequenceTheorems, NaturalsInduction, WellFoundedInduction, TLAPS

-----------------------------------------------------------------------------
(* The least and the greatest of a set of numbers.                           *)

Before == {p \in Nat \X Nat : p[1] < p[2]}

LEMMA BeforeWellFounded == IsWellFoundedOn(Before, Nat)
<1>1. OpToRel(<, Nat) = Before
  BY DEF OpToRel, Before
<1> QED BY <1>1, NatLessThanWellFounded

LEMMA LeastOf ==
  ASSUME NEW S, S \subseteq Nat, S # {}
  PROVE  Min(S) \in S /\ \A x \in S : Min(S) <= x
<1>1. PICK m \in S : \A y \in S : ~(<<y, m>> \in Before)
  BY BeforeWellFounded, WFMin
<1>2. \A y \in S : m <= y
  <2> TAKE y \in S
  <2>1. ~(<<y, m>> \in Before) /\ y \in Nat /\ m \in Nat
    BY <1>1
  <2>2. ~(y < m)
    BY <2>1 DEF Before
  <2> QED BY <2>1, <2>2
<1> QED BY <1>2 DEF Min

LEMMA GreatestOf ==
  ASSUME NEW n \in Nat, NEW S, S \subseteq 0 .. n, S # {}
  PROVE  Max(S) \in S /\ \A x \in S : x <= Max(S)
<1> DEFINE T == {n - x : x \in S}
<1>0. \A x \in S : x \in Nat /\ n - x \in Nat
  OBVIOUS
<1>1. T \subseteq Nat /\ T # {}
  BY <1>0
<1>2. PICK t \in T : \A y \in T : t <= y
  <2> HIDE DEF T
  <2> QED BY <1>1, LeastOf
<1>3. PICK m \in S : t = n - m
  OBVIOUS
<1>4. \A x \in S : m >= x
  BY <1>0, <1>2, <1>3
<1>5. \E x \in S : \A y \in S : x >= y
  BY <1>4
<1>6. Max(S) \in S /\ \A y \in S : Max(S) >= y
  BY <1>5 DEF Max
<1> QED BY <1>0, <1>6

-----------------------------------------------------------------------------
(* Budgets.                                                                  *)
(*                                                                           *)
(* The entry's count is not the number of grants that stand: a grant of an   *)
(* earlier window may come back to it.  It is never more than that number    *)
(* (CountedStand), and what it falls short of is what came back (StandCounted*)
(* and OldWindows).  A window opens later than every earlier one, so nothing *)
(* was granted by it before.                                                 *)

Windows == Nat \cup {Unopened}
AskStates == {"unasked", "silent", "granted", "stood", "failed"}

BudgetsType ==
    /\ now \in Nat
    /\ spent \in [start : Windows, count : Nat]
    /\ ask \in [Requests -> [at : AskStates, window : Windows, back : Windows]]

\* The windows asks name have been opened by then.
Opened ==
    /\ IF spent.start = Unopened THEN spent.count = 0 ELSE spent.start <= now
    /\ \A a \in Requests : ask[a].at # "unasked" =>
          /\ spent.start # Unopened
          /\ ask[a].window # Unopened /\ ask[a].window <= spent.start
    /\ \A a \in Requests : ask[a].at = "unasked" => ask[a].window = Unopened

WithinCap == spent.count <= Cap
Standings(w) == Cardinality(GrantedBy(w))
Returned(w) == Cardinality(HandedBackTo(w))
CountedStand == spent.start # Unopened => spent.count <= Standings(spent.start)
StandCounted ==
    spent.start # Unopened => Standings(spent.start) <= spent.count + Returned(spent.start)
OldWindows == \A w \in Nat : Standings(w) <= Cap + Returned(w)

Budgeted ==
    /\ BudgetsType /\ Opened /\ WithinCap
    /\ CountedStand /\ StandCounted /\ OldWindows

\* What an ask becomes.
AskGoes(a, moved) == ask' = [ask EXCEPT ![a] = moved]

LEMMA AsksMove ==
  ASSUME BudgetsType, NEW a \in Requests,
         NEW moved \in [at : AskStates, window : Windows, back : Windows],
         AskGoes(a, moved)
  PROVE  /\ ask' \in [Requests -> [at : AskStates, window : Windows, back : Windows]]
         /\ \A b \in Requests : ask'[b] = IF b = a THEN moved ELSE ask[b]
  BY DEF BudgetsType, AskGoes

\* Sets of asks are finite, and grow and shrink by one.
LEMMA Asks ==
  ASSUME NEW S, S \subseteq Requests, NEW a \in Requests
  PROVE  /\ Cardinality(S) \in Nat
         /\ a \notin S => Cardinality(S \cup {a}) = Cardinality(S) + 1
         /\ a \in S => Cardinality(S \ {a}) = Cardinality(S) - 1 /\ Cardinality(S) >= 1
<1>1. IsFiniteSet(Requests)
  BY FS_Interval, BudgetsAssumption DEF Requests
<1>2. IsFiniteSet(S) /\ IsFiniteSet(S \ {a})
  BY <1>1, FS_Subset
<1>3. Cardinality(S) \in Nat /\ Cardinality(S \ {a}) \in Nat
  BY <1>2, FS_CardinalityType
<1>4. a \notin S => Cardinality(S \cup {a}) = Cardinality(S) + 1
  BY <1>2, FS_AddElement
<1>5. a \in S => Cardinality(S \ {a}) = Cardinality(S) - 1
  BY <1>2, FS_RemoveElement
<1> QED BY <1>3, <1>4, <1>5

LEMMA Counts ==
  /\ \A w : GrantedBy(w) \subseteq Requests /\ HandedBackTo(w) \subseteq Requests
  /\ \A w : Standings(w) \in Nat /\ Returned(w) \in Nat
<1>1. \A w : GrantedBy(w) \subseteq Requests /\ HandedBackTo(w) \subseteq Requests
  BY DEF GrantedBy, HandedBackTo
<1>2. IsFiniteSet(Requests)
  BY FS_Interval, BudgetsAssumption DEF Requests
<1> QED BY <1>1, <1>2, FS_Subset, FS_CardinalityType DEF Standings, Returned

LEMMA BudgetsNumbers ==
  /\ Cap \in Nat /\ Cap >= 1 /\ Span \in Nat /\ Span >= 1 /\ Unopened \notin Nat
  BY BudgetsAssumption

LEMMA BudgetsInitially == BudgetsInit => Budgeted
<1> SUFFICES ASSUME BudgetsInit PROVE Budgeted
  OBVIOUS
<1>1. /\ now = 0 /\ spent.start = Unopened /\ spent.count = 0
      /\ spent \in [start : Windows, count : Nat]
  BY DEF BudgetsInit, NoEntry, Windows
<1>2. \A a \in Requests : ask[a].at = "unasked" /\ ask[a].window = Unopened
  BY DEF BudgetsInit
<1>3. ask \in [Requests -> [at : AskStates, window : Windows, back : Windows]]
  BY DEF BudgetsInit, AskStates, Windows
<1>4. \A w : GrantedBy(w) = {} /\ HandedBackTo(w) = {}
  BY <1>2 DEF GrantedBy, HandedBackTo
<1>5. \A w : Standings(w) = 0 /\ Returned(w) = 0
  BY <1>4, FS_EmptySet DEF Standings, Returned
<1>6. OldWindows
  BY <1>5, BudgetsNumbers DEF OldWindows
<1> QED BY <1>1, <1>2, <1>3, <1>6, BudgetsNumbers
        DEF Budgeted, BudgetsType, Opened, WithinCap, CountedStand, StandCounted

\* A step that leaves every window's grants and returns as they were.
LEMMA BudgetStays ==
  ASSUME Budgeted, BudgetsType', UNCHANGED spent, now <= now',
         \A a \in Requests :
            /\ ask'[a].window = ask[a].window /\ ask'[a].back = ask[a].back
            /\ ask'[a].at = ask[a].at \/ (ask[a].at = "granted" /\ ask'[a].at = "stood")
  PROVE  Budgeted'
<1>1. \A w : GrantedBy(w)' = GrantedBy(w) /\ HandedBackTo(w)' = HandedBackTo(w)
  BY DEF GrantedBy, HandedBackTo
<1>2. \A w : Standings(w)' = Standings(w) /\ Returned(w)' = Returned(w)
  BY <1>1 DEF Standings, Returned
<1>3. Standings(spent.start)' = Standings(spent.start)
      /\ Returned(spent.start)' = Returned(spent.start)
  BY <1>1 DEF Standings, Returned
<1>4. CountedStand' /\ StandCounted' /\ OldWindows' /\ WithinCap'
  BY <1>2, <1>3 DEF Budgeted, CountedStand, StandCounted, OldWindows, WithinCap
<1>5. spent.start # Unopened => spent.start \in Nat /\ now \in Nat /\ now' \in Nat
  BY DEF Budgeted, BudgetsType, Windows
<1>6. Opened'
  BY <1>5 DEF Budgeted, Opened
<1> QED BY <1>4, <1>6 DEF Budgeted

LEMMA TicksBudget == Budgeted /\ ClockTicks => Budgeted'
<1> SUFFICES ASSUME Budgeted, ClockTicks PROVE Budgeted'
  OBVIOUS
<1>1. now' = now + 1 /\ now \in Nat /\ UNCHANGED <<spent, ask>>
  BY DEF ClockTicks, Budgeted, BudgetsType
<1>2. BudgetsType' /\ now <= now'
  BY <1>1 DEF Budgeted, BudgetsType
<1> QED BY <1>1, <1>2, BudgetStays

LEMMA StandsBudget == ASSUME Budgeted, NEW a \in Requests, ChangeStands(a) PROVE Budgeted'
<1> DEFINE moved == [ask[a] EXCEPT !.at = "stood"]
<1>1. /\ moved \in [at : AskStates, window : Windows, back : Windows]
      /\ moved.at = "stood" /\ moved.window = ask[a].window /\ moved.back = ask[a].back
  BY DEF Budgeted, BudgetsType, AskStates
<1>2. AskGoes(a, moved) /\ UNCHANGED <<now, spent>> /\ ask[a].at = "granted"
  BY DEF ChangeStands, AskGoes
<1> HIDE DEF moved
<1>3. /\ ask' \in [Requests -> [at : AskStates, window : Windows, back : Windows]]
      /\ \A b \in Requests : ask'[b] = IF b = a THEN moved ELSE ask[b]
  BY <1>1, <1>2, AsksMove DEF Budgeted
<1>4. BudgetsType' /\ now <= now'
  BY <1>2, <1>3 DEF Budgeted, BudgetsType
<1> QED BY <1>1, <1>2, <1>3, <1>4, BudgetStays

\* A grant in the window that is open, or the first of a new one.
LEMMA GrantsBudget == ASSUME Budgeted, NEW a \in Requests, Grants(a) PROVE Budgeted'
<1> DEFINE entry == Swept
           start == IF entry = NoEntry THEN now ELSE entry.start
           silenced == [ask[a] EXCEPT !.at = "silent", !.window = entry.start]
           granted == [ask[a] EXCEPT !.at = "granted", !.window = start]
<1>1. /\ now \in Nat /\ spent.start \in Windows /\ spent.count \in Nat
      /\ spent \in [start : Windows, count : Nat]
      /\ ask[a] \in [at : AskStates, window : Windows, back : Windows]
  BY DEF Budgeted, BudgetsType
<1>2. NoEntry.count = 0 /\ NoEntry.start = Unopened
      /\ NoEntry \in [start : Windows, count : Nat]
  BY DEF NoEntry, Windows
<1>3. /\ spent.start = Unopened => spent = NoEntry
      /\ spent.start # Unopened => spent.start \in Nat /\ spent.start <= now
  BY <1>1 DEF Budgeted, Opened, NoEntry, Windows
<1>4. \/ entry = spent /\ spent # NoEntry /\ spent.start # Unopened /\ start = spent.start
      \/ entry = NoEntry /\ start = now /\ (spent.start # Unopened => spent.start < now)
  <2>1. CASE spent.start # Unopened /\ now - spent.start >= Span
    <3>1. now - spent.start >= 1
      BY <1>1, <1>3, <2>1, BudgetsNumbers
    <3>2. spent.start < now
      BY <1>1, <1>3, <2>1, <3>1
    <3> QED BY <2>1, <3>2 DEF Swept
  <2>2. CASE spent.start # Unopened /\ ~(now - spent.start >= Span)
    BY <1>2, <2>2 DEF Swept
  <2>3. CASE spent.start = Unopened
    BY <1>3, <2>3 DEF Swept
  <2> QED BY <2>1, <2>2, <2>3
<1>5. /\ ask[a].at = "unasked" /\ now' = now
      /\ \/ /\ entry.count >= Cap /\ entry # NoEntry
            /\ spent' = entry /\ AskGoes(a, silenced)
         \/ /\ ~(entry.count >= Cap /\ entry # NoEntry)
            /\ spent' = [start |-> start, count |-> entry.count + 1]
            /\ AskGoes(a, granted)
  BY DEF Grants, AskGoes
<1>6. /\ start \in Windows /\ start # Unopened /\ start <= now /\ start \in Nat
      /\ entry.start \in Windows /\ entry.count \in Nat
  BY <1>1, <1>2, <1>3, <1>4, BudgetsNumbers DEF Windows
<1>7. /\ silenced \in [at : AskStates, window : Windows, back : Windows]
      /\ silenced.at = "silent" /\ silenced.window = entry.start
      /\ granted \in [at : AskStates, window : Windows, back : Windows]
      /\ granted.at = "granted" /\ granted.window = start
  BY <1>1, <1>6 DEF AskStates
<1>8. /\ \A w : a \notin GrantedBy(w) /\ a \notin HandedBackTo(w)
      /\ \A w : GrantedBy(w) \subseteq Requests /\ HandedBackTo(w) \subseteq Requests
  BY <1>5 DEF GrantedBy, HandedBackTo
<1> HIDE DEF entry, start, silenced, granted
<1>9. PICK opened \in Nat : opened = start
  BY <1>6
<1>10. CASE entry.count >= Cap /\ entry # NoEntry
  <2>1. entry = spent /\ spent.start # Unopened /\ spent' = spent /\ AskGoes(a, silenced)
    BY <1>4, <1>5, <1>10
  <2>2. /\ ask' \in [Requests -> [at : AskStates, window : Windows, back : Windows]]
        /\ \A b \in Requests : ask'[b] = IF b = a THEN silenced ELSE ask[b]
    BY <1>7, <2>1, AsksMove DEF Budgeted
  <2>3. \A w : GrantedBy(w)' = GrantedBy(w) /\ HandedBackTo(w)' = HandedBackTo(w)
    BY <1>5, <1>7, <2>2 DEF GrantedBy, HandedBackTo
  <2>4. \A w : Standings(w)' = Standings(w) /\ Returned(w)' = Returned(w)
    BY <2>3 DEF Standings, Returned
  <2>5. Standings(spent.start)' = Standings(spent.start)
        /\ Returned(spent.start)' = Returned(spent.start)
    BY <2>1, <2>3 DEF Standings, Returned
  <2>6. BudgetsType'
    BY <1>5, <2>1, <2>2 DEF Budgeted, BudgetsType
  <2>7. Opened'
    BY <1>1, <1>3, <1>5, <1>7, <2>1, <2>2 DEF Budgeted, Opened
  <2> QED BY <2>1, <2>4, <2>5, <2>6, <2>7
          DEF Budgeted, WithinCap, CountedStand, StandCounted, OldWindows
<1>11. CASE ~(entry.count >= Cap /\ entry # NoEntry)
  <2>1. /\ spent'.start = opened /\ spent'.count = entry.count + 1 /\ AskGoes(a, granted)
        /\ spent' \in [start : Windows, count : Nat] /\ opened # Unopened
    BY <1>5, <1>6, <1>9, <1>11
  <2>2. /\ ask' \in [Requests -> [at : AskStates, window : Windows, back : Windows]]
        /\ \A b \in Requests : ask'[b] = IF b = a THEN granted ELSE ask[b]
    BY <1>7, <2>1, AsksMove DEF Budgeted
  <2>3. /\ \A w : HandedBackTo(w)' = HandedBackTo(w)
        /\ \A w : w # opened => GrantedBy(w)' = GrantedBy(w)
        /\ GrantedBy(opened)' = GrantedBy(opened) \cup {a}
    <3>1. \A w : HandedBackTo(w)' = HandedBackTo(w)
      BY <1>5, <1>7, <2>2 DEF HandedBackTo
    <3>2. ASSUME NEW w, w # opened PROVE GrantedBy(w)' = GrantedBy(w)
      BY <1>5, <1>7, <1>9, <2>2, <3>2 DEF GrantedBy
    <3>3. GrantedBy(opened)' = GrantedBy(opened) \cup {a}
      BY <1>5, <1>7, <1>9, <2>2 DEF GrantedBy
    <3> QED BY <3>1, <3>2, <3>3
  <2>4. /\ \A w : Returned(w)' = Returned(w)
        /\ \A w : w # opened => Standings(w)' = Standings(w)
        /\ Standings(opened)' = Standings(opened) + 1
    <3>1. Cardinality(GrantedBy(opened) \cup {a}) = Cardinality(GrantedBy(opened)) + 1
      BY <1>8, Asks
    <3> QED BY <2>3, <3>1 DEF Standings, Returned
  <2>5. /\ Standings(opened) \in Nat /\ Returned(opened) \in Nat
        /\ spent.start # Unopened => opened >= spent.start
        /\ entry.count + 1 <= Cap
        /\ entry.count <= Standings(opened)
        /\ Standings(opened) <= entry.count + Returned(opened)
    <3>1. Standings(opened) \in Nat /\ Returned(opened) \in Nat
      BY Counts
    <3>2. CASE entry = spent /\ spent # NoEntry /\ spent.start # Unopened /\ start = spent.start
      <4>1. entry.count < Cap /\ opened = spent.start
        BY <1>6, <1>9, <1>11, <3>2, BudgetsNumbers
      <4>2. /\ spent.count <= Standings(spent.start)
            /\ Standings(spent.start) <= spent.count + Returned(spent.start)
        BY <3>2 DEF Budgeted, CountedStand, StandCounted
      <4> QED BY <1>6, <3>1, <3>2, <4>1, <4>2, BudgetsNumbers
    <3>3. CASE entry = NoEntry /\ start = now /\ (spent.start # Unopened => spent.start < now)
      <4>1. GrantedBy(opened) = {}
        <5> SUFFICES ASSUME NEW b \in Requests, ask[b].at # "unasked", ask[b].window = opened
                     PROVE  FALSE
          BY DEF GrantedBy
        <5>1. spent.start # Unopened /\ opened <= spent.start
          BY DEF Budgeted, Opened
        <5> QED BY <1>1, <1>3, <1>9, <3>3, <5>1
      <4>2. Standings(opened) = 0
        BY <4>1, FS_EmptySet DEF Standings
      <4> QED BY <1>1, <1>2, <1>3, <1>9, <3>1, <3>3, <4>2, BudgetsNumbers
    <3> QED BY <1>4, <3>2, <3>3
  <2>6. BudgetsType'
    BY <1>5, <2>1, <2>2 DEF Budgeted, BudgetsType
  <2>7. Opened'
    <3>1. /\ spent'.start # Unopened /\ spent'.start <= now'
      BY <1>5, <1>6, <1>9, <2>1
    <3>2. ASSUME NEW b \in Requests, ask'[b].at # "unasked"
          PROVE  ask'[b].window # Unopened /\ ask'[b].window <= spent'.start
      <4>1. CASE b = a
        BY <1>6, <1>7, <1>9, <2>1, <2>2, <4>1
      <4>2. CASE b # a
        <5>1. /\ ask'[b] = ask[b] /\ spent.start # Unopened /\ ask[b].window # Unopened
              /\ ask[b].window <= spent.start
          BY <2>2, <3>2, <4>2 DEF Budgeted, Opened
        <5>2. ask[b].window \in Nat /\ spent.start \in Nat
          BY <1>3, <5>1 DEF Budgeted, BudgetsType, Windows
        <5> QED BY <2>1, <2>5, <5>1, <5>2
      <4> QED BY <4>1, <4>2
    <3>3. ASSUME NEW b \in Requests, ask'[b].at = "unasked"
          PROVE  ask'[b].window = Unopened
      BY <1>7, <2>2, <3>3 DEF Budgeted, Opened
    <3> QED BY <3>1, <3>2, <3>3 DEF Opened
  <2>8. WithinCap'
    BY <2>1, <2>5 DEF WithinCap
  <2>9. Standings(spent.start)' = Standings(opened)'
        /\ Returned(spent.start)' = Returned(opened)'
    BY <2>1 DEF Standings, Returned, GrantedBy, HandedBackTo
  <2>10. CountedStand' /\ StandCounted'
    BY <1>6, <2>1, <2>4, <2>5, <2>9 DEF CountedStand, StandCounted
  <2>11. OldWindows'
    <3> SUFFICES ASSUME NEW w \in Nat PROVE Standings(w)' <= Cap + Returned(w)'
      BY DEF OldWindows
    <3>1. CASE w # opened
      BY <2>4, <3>1 DEF Budgeted, OldWindows
    <3>2. CASE w = opened
      BY <1>6, <2>4, <2>5, <3>2, BudgetsNumbers
    <3> QED BY <3>1, <3>2
  <2> QED BY <2>6, <2>7, <2>8, <2>10, <2>11 DEF Budgeted
<1> QED BY <1>10, <1>11

\* A grant that comes back, to its own window or to a later one.
LEMMA FailsBudget == ASSUME Budgeted, NEW a \in Requests, ChangeFails(a) PROVE Budgeted'
<1> DEFINE moved == [ask[a] EXCEPT !.at = "failed", !.back = spent.start]
<1>1. /\ now \in Nat /\ spent.start \in Windows /\ spent.count \in Nat
      /\ spent \in [start : Windows, count : Nat]
      /\ ask[a] \in [at : AskStates, window : Windows, back : Windows]
  BY DEF Budgeted, BudgetsType
<1>2. ask[a].at = "granted" /\ AskGoes(a, moved) /\ now' = now
  BY DEF ChangeFails, AskGoes
<1>3. /\ spent' \in [start : Windows, count : Nat] /\ spent'.start = spent.start
      /\ spent'.count = IF spent.count = 0 THEN 0 ELSE spent.count - 1
  BY <1>1 DEF ChangeFails, Revoke
<1>4. /\ moved \in [at : AskStates, window : Windows, back : Windows]
      /\ moved.at = "failed" /\ moved.window = ask[a].window /\ moved.back = spent.start
  BY <1>1 DEF AskStates
<1> HIDE DEF moved
<1>5. /\ ask' \in [Requests -> [at : AskStates, window : Windows, back : Windows]]
      /\ \A b \in Requests : ask'[b] = IF b = a THEN moved ELSE ask[b]
  BY <1>2, <1>4, AsksMove DEF Budgeted
<1>6. spent.start # Unopened /\ ask[a].window # Unopened
  BY <1>2 DEF Budgeted, Opened
<1>7. PICK opened \in Nat, own \in Nat : opened = spent.start /\ own = ask[a].window
  BY <1>1, <1>6 DEF Windows
<1>8. /\ \A w : w # own => GrantedBy(w)' = GrantedBy(w)
      /\ GrantedBy(own)' = GrantedBy(own) \ {a} /\ a \in GrantedBy(own)
  <2>1. ASSUME NEW w, w # own PROVE GrantedBy(w)' = GrantedBy(w)
    BY <1>2, <1>4, <1>5, <1>7, <2>1 DEF GrantedBy
  <2>2. GrantedBy(own)' = GrantedBy(own) \ {a} /\ a \in GrantedBy(own)
    BY <1>2, <1>4, <1>5, <1>7 DEF GrantedBy
  <2> QED BY <2>1, <2>2
<1>9. /\ \A w : w # opened => HandedBackTo(w)' = HandedBackTo(w)
      /\ own = opened => HandedBackTo(opened)' = HandedBackTo(opened)
      /\ own # opened => /\ HandedBackTo(opened)' = HandedBackTo(opened) \cup {a}
                         /\ a \notin HandedBackTo(opened)
  <2>1. ASSUME NEW w, w # opened PROVE HandedBackTo(w)' = HandedBackTo(w)
    BY <1>2, <1>4, <1>5, <1>7, <2>1 DEF HandedBackTo
  <2>2. ASSUME own = opened PROVE HandedBackTo(opened)' = HandedBackTo(opened)
    BY <1>2, <1>4, <1>5, <1>7, <2>2 DEF HandedBackTo
  <2>3. ASSUME own # opened
        PROVE  /\ HandedBackTo(opened)' = HandedBackTo(opened) \cup {a}
               /\ a \notin HandedBackTo(opened)
    BY <1>2, <1>4, <1>5, <1>7, <2>3 DEF HandedBackTo
  <2> QED BY <2>1, <2>2, <2>3
<1>10. /\ \A w : w # own => Standings(w)' = Standings(w)
       /\ Standings(own)' = Standings(own) - 1 /\ Standings(own) >= 1
  <2>1. /\ Cardinality(GrantedBy(own) \ {a}) = Cardinality(GrantedBy(own)) - 1
        /\ Cardinality(GrantedBy(own)) >= 1
    BY <1>8, Asks, Counts
  <2> QED BY <1>8, <2>1 DEF Standings
<1>11. /\ \A w : w # opened => Returned(w)' = Returned(w)
       /\ Returned(opened)' = IF own = opened THEN Returned(opened) ELSE Returned(opened) + 1
  <2>1. own # opened =>
           Cardinality(HandedBackTo(opened) \cup {a}) = Cardinality(HandedBackTo(opened)) + 1
    BY <1>9, Asks, Counts
  <2> QED BY <1>9, <2>1 DEF Returned
<1>12. \A w : Standings(w) \in Nat /\ Returned(w) \in Nat
  BY Counts
<1>13. /\ spent.count <= Standings(opened)
       /\ Standings(opened) <= spent.count + Returned(opened)
  BY <1>6, <1>7 DEF Budgeted, CountedStand, StandCounted
<1>14. /\ spent'.count <= Standings(opened)'
       /\ Standings(opened)' <= spent'.count + Returned(opened)'
  <2>1. CASE own = opened
    BY <1>1, <1>3, <1>10, <1>11, <1>12, <1>13, <2>1
  <2>2. CASE own # opened
    BY <1>1, <1>3, <1>10, <1>11, <1>12, <1>13, <2>2
  <2> QED BY <2>1, <2>2
<1>15. BudgetsType'
  BY <1>2, <1>3, <1>5 DEF Budgeted, BudgetsType
<1>16. Opened'
  <2>1. IF spent'.start = Unopened THEN spent'.count = 0 ELSE spent'.start <= now'
    BY <1>2, <1>3, <1>6 DEF Budgeted, Opened
  <2>2. ASSUME NEW b \in Requests
        PROVE  /\ ask'[b].window = ask[b].window
               /\ ask'[b].at = "unasked" <=> ask[b].at = "unasked"
    BY <1>2, <1>4, <1>5
  <2> QED BY <1>3, <2>1, <2>2 DEF Budgeted, Opened
<1>17. WithinCap'
  BY <1>1, <1>3, BudgetsNumbers DEF Budgeted, WithinCap
<1>18. CountedStand' /\ StandCounted'
  <2>1. Standings(spent.start)' = Standings(opened)'
        /\ Returned(spent.start)' = Returned(opened)'
    BY <1>3, <1>7 DEF Standings, Returned, GrantedBy, HandedBackTo
  <2> QED BY <1>14, <2>1 DEF CountedStand, StandCounted
<1>19. OldWindows'
  <2> SUFFICES ASSUME NEW w \in Nat PROVE Standings(w)' <= Cap + Returned(w)'
    BY DEF OldWindows
  <2>1. Standings(w) <= Cap + Returned(w)
    BY DEF Budgeted, OldWindows
  <2>2. Standings(w)' <= Standings(w) /\ Standings(w)' \in Nat
    BY <1>10, <1>12
  <2>3. Returned(w) <= Returned(w)' /\ Returned(w)' \in Nat
    BY <1>11, <1>12
  <2> QED BY <1>12, <2>1, <2>2, <2>3, BudgetsNumbers
<1> QED BY <1>15, <1>16, <1>17, <1>18, <1>19 DEF Budgeted

LEMMA BudgetedKeeps == Budgeted /\ [BudgetsNext]_budgetVars => Budgeted'
<1> SUFFICES ASSUME Budgeted, [BudgetsNext]_budgetVars PROVE Budgeted'
  OBVIOUS
<1>1. CASE UNCHANGED budgetVars
  <2>1. BudgetsType' /\ now <= now'
    BY <1>1 DEF Budgeted, BudgetsType, budgetVars
  <2> QED BY <1>1, <2>1, BudgetStays DEF budgetVars
<1> QED BY <1>1, TicksBudget, GrantsBudget, StandsBudget, FailsBudget DEF BudgetsNext

\* A window lets as many changes stand as its cap, and one more for each grant
\* that came back to a later window; no ask is silenced by one that failed
\* (window.rs, admit and revoke).
THEOREM BudgetIsKept == BudgetsSpec => []BudgetKept
<1>1. Budgeted => BudgetKept
  <2> SUFFICES ASSUME Budgeted PROVE BudgetKept
    OBVIOUS
  <2>1. \A w \in 0 .. now : w \in Nat
    BY DEF Budgeted, BudgetsType
  <2>2. spent # NoEntry => spent.start # Unopened
    BY DEF Budgeted, BudgetsType, Opened, NoEntry
  <2> QED BY <2>1, <2>2 DEF Budgeted, OldWindows, CountedStand, Standings, Returned, BudgetKept
<1> QED BY <1>1, BudgetsInitially, BudgetedKeeps, PTL DEF BudgetsSpec

-----------------------------------------------------------------------------
(* The disclosure.                                                           *)
(*                                                                           *)
(* A stored line that was not handed over is the one in hand or was lost     *)
(* with a process (LinesGoOut).  The one in hand was put on for somebody no  *)
(* line older than the call could be found for, and stays so until it is     *)
(* handed over, as no other line is stored meanwhile (NewInHand).            *)

\* A block of the model, wherever it stands.
Written(b) ==
    /\ b.call \in Nat /\ b.lined \in BOOLEAN
    /\ b.call = 0 => ~b.lined

\* A message stands behind the call it answers.
Filings ==
    \A i \in BlockIds :
        IsCall(i) \/ (blocks[i].call \in BlockIds /\ IsCall(blocks[i].call)
                      /\ blocks[i].call < i)

Entries(s) == {s[i] : i \in DOMAIN s}

DisclosureShape ==
    /\ Len(blocks) \in Nat /\ BlockIds = 1 .. Len(blocks)
    /\ blocks \in Seq(Entries(blocks))
    /\ \A i \in BlockIds : Written(blocks[i])
    /\ Len(handed) \in Nat /\ handed \in Seq([block : Nat, opening : {"lined", "bare"}])
    /\ \A n \in DOMAIN handed : /\ handed[n].block \in BlockIds
                                /\ handed[n].opening = "lined" => blocks[handed[n].block].lined
    /\ lining \in BlockIds \cup {0}
    /\ lining # 0 => blocks[lining].lined

HandedLined(i) ==
    \E m \in DOMAIN handed : handed[m].block = i /\ handed[m].opening = "lined"

LinesGoOut ==
    \A i \in BlockIds : blocks[i].lined => i \in lost \/ i = lining \/ HandedLined(i)

\* A line already said to p that the one in block i need not have known of.
Unknown(i, earlier) ==
    blocks[i].call < earlier \/ blocks[earlier].thread \in deleted

NewInHand ==
    (lining # 0 /\ blocks[lining].to # {}) =>
        \E p \in blocks[lining].to : \A j \in BlockIds :
            (blocks[j].lined /\ p \in blocks[j].to) => Unknown(lining, j)

Disclosed ==
    /\ DisclosureShape /\ Filings /\ LinesGoOut /\ NewInHand
    /\ BareOnlyToTheIntroduced /\ RepeatedWithinARound

\* The blocks grow behind those there are; a block keeps what it is but for
\* the line.
Grown ==
    /\ \A i \in BlockIds : /\ i \in BlockIds'
                           /\ blocks'[i].call = blocks[i].call
                           /\ blocks'[i].to = blocks[i].to
                           /\ blocks'[i].thread = blocks[i].thread
    /\ deleted \subseteq deleted' /\ lost \subseteq lost'

LEMMA DisclosureInitially == DisclosureInit => Disclosed
<1> SUFFICES ASSUME DisclosureInit PROVE Disclosed
  OBVIOUS
<1>1. blocks = <<>> /\ handed = <<>> /\ lining = 0
  BY DEF DisclosureInit
<1>2. BlockIds = {} /\ DOMAIN handed = {} /\ Len(blocks) = 0 /\ Len(handed) = 0
  BY <1>1 DEF BlockIds
<1>3. /\ blocks \in Seq(Entries(blocks))
      /\ handed \in Seq([block : Nat, opening : {"lined", "bare"}])
  BY <1>1
<1> QED BY <1>1, <1>2, <1>3
        DEF Disclosed, DisclosureShape, Filings, LinesGoOut, NewInHand,
            BareOnlyToTheIntroduced, RepeatedWithinARound

\* What was handed over stays true as the blocks grow.
LEMMA HandedStays ==
  ASSUME Disclosed, Grown, handed' = handed
  PROVE  BareOnlyToTheIntroduced' /\ RepeatedWithinARound'
<1>1. \A n \in DOMAIN handed : handed[n].block \in BlockIds
  BY DEF Disclosed, DisclosureShape
<1>2. BareOnlyToTheIntroduced'
  <2>1. SUFFICES ASSUME NEW n \in DOMAIN handed, handed[n].opening = "bare",
                        NEW p \in blocks'[handed[n].block].to
                 PROVE  \E i \in BlockIds' :
                            /\ p \in blocks'[i].to
                            /\ i \in lost' \/ \E m \in 1 .. n - 1 :
                                    handed[m] = [block |-> i, opening |-> "lined"]
    BY DEF BareOnlyToTheIntroduced
  <2>2. p \in blocks[handed[n].block].to
    BY <2>1, <1>1 DEF Grown
  <2>3. PICK i \in BlockIds :
            /\ p \in blocks[i].to
            /\ i \in lost \/ \E m \in 1 .. n - 1 :
                    handed[m] = [block |-> i, opening |-> "lined"]
    BY <2>1, <2>2 DEF Disclosed, BareOnlyToTheIntroduced
  <2>4. i \in BlockIds' /\ blocks'[i].to = blocks[i].to /\ lost \subseteq lost'
    BY DEF Grown
  <2> QED BY <2>3, <2>4
<1>3. RepeatedWithinARound'
  <2>1. \A n \in DOMAIN handed : \A m \in 1 .. n - 1 : m \in DOMAIN handed
    BY DEF Disclosed, DisclosureShape
  <2> QED BY <1>1, <2>1 DEF Disclosed, Grown, RepeatedWithinARound
<1> QED BY <1>2, <1>3

LEMMA OwnBlocks ==
  ASSUME NEW S, NEW s \in Seq(S)
  PROVE  s \in Seq(Entries(s)) /\ DOMAIN s = 1 .. Len(s) /\ Len(s) \in Nat
<1> DEFINE T == Entries(s)
<1>1. PICK n \in Nat : s \in [1 .. n -> S]
  BY SeqDef
<1>2. s \in [1 .. n -> T]
  BY <1>1 DEF Entries
<1> HIDE DEF T
<1>3. s \in Seq(T) /\ DOMAIN s = 1 .. n /\ Len(s) = n
  BY <1>2, SeqDef
<1> QED BY <1>3 DEF T

\* New blocks without a line, behind the others.
LEMMA BlocksGrow ==
  ASSUME Disclosed, NEW more, NEW n \in Nat, more = [i \in 1 .. n |-> more[i]],
         blocks' = blocks \o more,
         \A i \in 1 .. n : Written(more[i]) /\ ~more[i].lined
                           /\ (more[i].call # 0 => more[i].call \in BlockIds /\ IsCall(more[i].call)),
         UNCHANGED <<handed, lining, lost, deleted>>
  PROVE  Disclosed'
<1>1. Len(blocks) \in Nat /\ BlockIds = 1 .. Len(blocks)
  BY DEF Disclosed, DisclosureShape
<1>2. /\ Len(blocks') = Len(blocks) + n /\ DOMAIN blocks' = 1 .. Len(blocks) + n
      /\ \A i \in BlockIds : blocks'[i] = blocks[i]
      /\ \A i \in 1 .. Len(blocks) + n : i \notin BlockIds =>
            i - Len(blocks) \in 1 .. n /\ blocks'[i] = more[i - Len(blocks)]
      /\ blocks' \in Seq(Entries(blocks'))
  <2> DEFINE S == Entries(blocks)
             T == {more[i] : i \in 1 .. n}
  <2>1. blocks \in Seq(S \cup T) /\ more \in Seq(S \cup T) /\ Len(more) = n
    <3>1. more \in Seq(T) /\ Len(more) = n
      <4>1. more \in [1 .. n -> T]
        OBVIOUS
      <4> HIDE DEF T
      <4> QED BY <4>1, SeqDef
    <3>2. blocks \in Seq(S)
      BY DEF Disclosed, DisclosureShape
    <3> QED BY <3>1, <3>2
  <2> HIDE DEF S, T
  <2>2. blocks \o more \in Seq(S \cup T) /\ Len(blocks \o more) = Len(blocks) + n
        /\ \A i \in 1 .. Len(blocks) + n :
              (blocks \o more)[i] = IF i <= Len(blocks) THEN blocks[i] ELSE more[i - Len(blocks)]
    BY <2>1, ConcatProperties
  <2>3. DOMAIN blocks' = 1 .. Len(blocks) + n
        /\ blocks' \in Seq(Entries(blocks'))
    <3>1. blocks' \in Seq(S \cup T) /\ Len(blocks') = Len(blocks) + n
      BY <2>2
    <3>2. /\ blocks' \in Seq(Entries(blocks')) /\ DOMAIN blocks' = 1 .. Len(blocks')
      BY <3>1, OwnBlocks
    <3> QED BY <3>1, <3>2
  <2>4. \A i \in BlockIds : blocks'[i] = blocks[i]
    BY <1>1, <2>2
  <2>5. \A i \in 1 .. Len(blocks) + n : i \notin BlockIds =>
            i - Len(blocks) \in 1 .. n /\ blocks'[i] = more[i - Len(blocks)]
    <3> SUFFICES ASSUME NEW i \in 1 .. Len(blocks) + n, i \notin BlockIds
                 PROVE  i - Len(blocks) \in 1 .. n /\ blocks'[i] = more[i - Len(blocks)]
      OBVIOUS
    <3>1. i > Len(blocks) /\ i - Len(blocks) \in 1 .. n
      BY <1>1
    <3> QED BY <1>1, <2>2, <3>1
  <2> QED BY <2>2, <2>3, <2>4, <2>5
<1>3. /\ \A i \in BlockIds : i \in BlockIds'
      /\ \A i \in BlockIds' : i \in BlockIds \/
            (Written(blocks'[i]) /\ ~blocks'[i].lined /\ i > Len(blocks) /\
             (blocks'[i].call # 0 => blocks'[i].call \in BlockIds /\ IsCall(blocks'[i].call)))
  <2>1. \A i \in BlockIds : i \in BlockIds'
    BY <1>1, <1>2 DEF BlockIds
  <2>2. ASSUME NEW i \in BlockIds', i \notin BlockIds
        PROVE  /\ Written(blocks'[i]) /\ ~blocks'[i].lined /\ i > Len(blocks)
               /\ blocks'[i].call # 0 => blocks'[i].call \in BlockIds /\ IsCall(blocks'[i].call)
    <3>1. i \in 1 .. Len(blocks) + n /\ i > Len(blocks)
      BY <1>1, <1>2, <2>2 DEF BlockIds
    <3> QED BY <1>2, <2>2, <3>1
  <2> QED BY <2>1, <2>2
<1>4. Grown
  BY <1>2, <1>3 DEF Grown
<1>5. DisclosureShape'
  <2>1. /\ Len(blocks)' \in Nat /\ BlockIds' = 1 .. Len(blocks)'
        /\ (blocks \in Seq(Entries(blocks)))'
    BY <1>1, <1>2 DEF BlockIds
  <2>2. \A i \in BlockIds' : Written(blocks[i])'
    BY <1>2, <1>3 DEF Disclosed, DisclosureShape, Written
  <2>3. /\ \A m \in DOMAIN handed : /\ handed[m].block \in BlockIds'
                                    /\ handed[m].opening = "lined"
                                          => blocks'[handed[m].block].lined
        /\ lining \in BlockIds' \cup {0}
        /\ lining # 0 => blocks'[lining].lined
    BY <1>2, <1>3 DEF Disclosed, DisclosureShape
  <2> QED BY <2>1, <2>2, <2>3 DEF Disclosed, DisclosureShape
<1>6. Filings'
  <2> SUFFICES ASSUME NEW i \in BlockIds'
               PROVE  (IsCall(i) \/ (blocks[i].call \in BlockIds /\ IsCall(blocks[i].call)
                                     /\ blocks[i].call < i))'
    BY DEF Filings
  <2>1. CASE i \in BlockIds
    <3>1. IsCall(i) \/ (blocks[i].call \in BlockIds /\ IsCall(blocks[i].call)
                        /\ blocks[i].call < i)
      BY <2>1 DEF Disclosed, Filings
    <3>2. \A c \in BlockIds : blocks'[c] = blocks[c]
      BY <1>2
    <3>3. \A c \in BlockIds : IsCall(c) <=> IsCall(c)'
      BY <3>2 DEF IsCall
    <3>4. CASE IsCall(i)
      BY <2>1, <3>3, <3>4
    <3>5. CASE ~IsCall(i)
      BY <1>3, <2>1, <3>1, <3>2, <3>3, <3>5
    <3> QED BY <3>4, <3>5
  <2>2. CASE i \notin BlockIds
    <3>1. blocks'[i].call # 0 => /\ blocks'[i].call \in BlockIds /\ IsCall(blocks'[i].call)
                                 /\ i > Len(blocks)
      BY <1>3, <2>2
    <3>2. i \in Nat /\ \A c \in BlockIds : c \in Nat /\ c <= Len(blocks)
      BY <1>1, <1>2 DEF BlockIds
    <3>3. ASSUME blocks'[i].call # 0 PROVE blocks'[i].call < i
      <4>1. PICK c \in BlockIds : c = blocks'[i].call
        BY <3>1, <3>3
      <4>2. i > Len(blocks)
        BY <3>1, <3>3
      <4>3. c < i
        BY <1>1, <3>2, <4>2
      <4> QED BY <4>1, <4>3
    <3> QED BY <1>2, <1>3, <3>1, <3>3 DEF IsCall
  <2> QED BY <2>1, <2>2
<1>7. LinesGoOut'
  BY <1>2, <1>3 DEF Disclosed, LinesGoOut, HandedLined
<1>8. NewInHand'
  <2> SUFFICES ASSUME lining # 0, blocks'[lining].to # {}
               PROVE  \E p \in blocks'[lining].to : \A j \in BlockIds' :
                         (blocks'[j].lined /\ p \in blocks'[j].to) => Unknown(lining, j)'
    BY DEF NewInHand
  <2>1. lining \in BlockIds /\ blocks'[lining] = blocks[lining]
    BY <1>2 DEF Disclosed, DisclosureShape
  <2>2. PICK p \in blocks[lining].to : \A j \in BlockIds :
           (blocks[j].lined /\ p \in blocks[j].to) => Unknown(lining, j)
    BY <2>1 DEF Disclosed, NewInHand
  <2>3. \A j \in BlockIds' : blocks'[j].lined => j \in BlockIds /\ blocks'[j] = blocks[j]
    BY <1>2, <1>3
  <2>4. \A j \in BlockIds : Unknown(lining, j)' <=> Unknown(lining, j)
    BY <1>2, <2>1 DEF Unknown
  <2> QED BY <2>1, <2>2, <2>3, <2>4
<1> QED BY <1>4, <1>5, <1>6, <1>7, <1>8, HandedStays DEF Disclosed

LEMMA RoundDiscloses == Disclosed /\ Round => Disclosed'
<1> SUFFICES ASSUME Disclosed, Round PROVE Disclosed'
  OBVIOUS
<1>1. PICK r \in Rooms, to \in SUBSET Newcomers, n \in 1 .. MaxRound :
         /\ blocks' = blocks \o [i \in 1 .. n |->
               [thread |-> serving[r], call |-> 0, to |-> to, lined |-> FALSE]]
         /\ UNCHANGED <<handed, lining, lost, deleted>>
  BY DEF Round
<1> DEFINE more == [i \in 1 .. n |->
               [thread |-> serving[r], call |-> 0, to |-> to, lined |-> FALSE]]
<1>2. /\ more = [i \in 1 .. n |-> more[i]] /\ n \in Nat
      /\ \A i \in 1 .. n : Written(more[i]) /\ ~more[i].lined /\ more[i].call = 0
  <2>1. \A i \in 1 .. n : more[i].lined \in BOOLEAN /\ ~more[i].lined /\ more[i].call = 0
    OBVIOUS
  <2>2. more = [i \in 1 .. n |-> more[i]] /\ n \in Nat
    BY DisclosureAssumption
  <2> HIDE DEF more
  <2> QED BY <2>1, <2>2 DEF Written
<1>3. blocks' = blocks \o more
  BY <1>1
<1> HIDE DEF more
<1> QED BY <1>1, <1>2, <1>3, BlocksGrow

LEMMA FilesDiscloses == Disclosed /\ FilesMessage => Disclosed'
<1> SUFFICES ASSUME Disclosed, FilesMessage PROVE Disclosed'
  OBVIOUS
<1>1. PICK c \in BlockIds :
         /\ IsCall(c) /\ blocks' = Append(blocks, [blocks[c] EXCEPT !.call = c])
         /\ UNCHANGED <<handed, lining, lost, deleted>>
  BY DEF FilesMessage
<1> DEFINE filing == [blocks[c] EXCEPT !.call = c]
           more == [i \in 1 .. 1 |-> filing]
<1>2. Written(blocks[c]) /\ ~blocks[c].lined /\ c \in Nat /\ c # 0
  BY <1>1 DEF Disclosed, DisclosureShape, Written, IsCall
<1>3. Written(filing) /\ ~filing.lined /\ filing.call = c
  BY <1>2 DEF Written
<1> HIDE DEF filing
<1>4. /\ more = [i \in 1 .. 1 |-> more[i]] /\ \A i \in 1 .. 1 : more[i] = filing
      /\ more = <<filing>>
  OBVIOUS
<1>5. blocks' = blocks \o more
  <2>1. blocks' = Append(blocks, filing)
    BY <1>1 DEF filing
  <2>2. blocks \in Seq(Entries(blocks))
    BY DEF Disclosed, DisclosureShape
  <2>3. Append(blocks, filing) = blocks \o <<filing>>
    <3> DEFINE S == Entries(blocks) \cup {filing}
    <3>1. blocks \in Seq(S) /\ filing \in S
      BY <2>2
    <3> HIDE DEF S
    <3> QED BY <3>1, AppendIsConcat
  <2> QED BY <1>4, <2>1, <2>3
<1> HIDE DEF more
<1> QED BY <1>1, <1>2, <1>3, <1>4, <1>5, BlocksGrow

\* The edge's next message is one it has not delivered.
LEMMA NextIsOut ==
  ASSUME Disclosed, NEW r \in Rooms, Waits(r)
  PROVE  NextOut(r) \in BlockIds /\ ~IsCall(NextOut(r)) /\ lining = 0
<1>1. Undelivered(serving[r]) \subseteq BlockIds /\ BlockIds \subseteq Nat
  BY DEF Undelivered, Stored, Disclosed, DisclosureShape
<1>2. NextOut(r) \in Undelivered(serving[r])
  BY <1>1, LeastOf DEF NextOut, Waits
<1> QED BY <1>1, <1>2 DEF Undelivered, Waits

\* The line that is stored is not known to somebody the message speaks to.
LEMMA StoresDisclose == Disclosed /\ StoreLine => Disclosed'
<1> SUFFICES ASSUME Disclosed, StoreLine PROVE Disclosed'
  OBVIOUS
<1>1. PICK k \in BlockIds :
         /\ ~IsCall(k) /\ lining = 0 /\ FirstMessageToSomeone(k)
         /\ blocks' = [blocks EXCEPT ![k].lined = TRUE] /\ lining' = k
         /\ UNCHANGED <<deleted, handed, lost>>
  BY NextIsOut DEF StoreLine
<1> DEFINE lit == [blocks[k] EXCEPT !.lined = TRUE]
<1>2. /\ Len(blocks) \in Nat /\ BlockIds = 1 .. Len(blocks) /\ 0 \notin BlockIds
      /\ blocks \in Seq(Entries(blocks)) /\ Written(blocks[k]) /\ k \in Nat /\ k # 0
  BY DEF Disclosed, DisclosureShape
<1>3. /\ Written(lit) /\ lit.lined /\ lit.call = blocks[k].call
      /\ lit.to = blocks[k].to /\ lit.thread = blocks[k].thread
  BY <1>1, <1>2 DEF Written, IsCall
<1>4. /\ Len(blocks') = Len(blocks) /\ blocks' \in Seq(Entries(blocks'))
      /\ DOMAIN blocks' = 1 .. Len(blocks)
      /\ \A i \in BlockIds : blocks'[i] = IF i = k THEN lit ELSE blocks[i]
  <2> DEFINE S == Entries(blocks) \cup {lit}
  <2>1. blocks \in Seq(S) /\ lit \in S /\ blocks' = [blocks EXCEPT ![k] = lit]
    BY <1>1, <1>2
  <2> HIDE DEF S, lit
  <2>2. /\ blocks' \in Seq(S) /\ Len(blocks') = Len(blocks)
        /\ \A i \in 1 .. Len(blocks) : blocks'[i] = IF i = k THEN lit ELSE blocks[i]
    BY <1>2, <2>1, ExceptSeq
  <2>3. /\ blocks' \in Seq(Entries(blocks')) /\ DOMAIN blocks' = 1 .. Len(blocks')
    BY <2>2, OwnBlocks
  <2> QED BY <1>2, <2>2, <2>3
<1> HIDE DEF lit
<1>5. /\ BlockIds' = BlockIds
      /\ \A i \in BlockIds : /\ Written(blocks'[i])
                             /\ blocks'[i].call = blocks[i].call
                             /\ blocks'[i].to = blocks[i].to
                             /\ blocks'[i].thread = blocks[i].thread
                             /\ blocks[i].lined => blocks'[i].lined
                             /\ blocks'[i].lined => blocks[i].lined \/ i = k
  <2>1. BlockIds' = BlockIds
    BY <1>2, <1>4 DEF BlockIds
  <2>2. \A i \in BlockIds : Written(blocks[i])
    BY DEF Disclosed, DisclosureShape
  <2> QED BY <1>3, <1>4, <2>1, <2>2
<1>6. Grown
  BY <1>1, <1>5 DEF Grown
<1>7. DisclosureShape'
  <2>1. /\ Len(blocks)' \in Nat /\ BlockIds' = 1 .. Len(blocks)'
        /\ (blocks \in Seq(Entries(blocks)))'
    BY <1>2, <1>4, <1>5
  <2>2. /\ \A i \in BlockIds' : Written(blocks[i])'
        /\ lining' \in BlockIds' \cup {0} /\ blocks'[lining'].lined
    BY <1>1, <1>3, <1>4, <1>5 DEF Written
  <2>3. \A m \in DOMAIN handed : /\ handed[m].block \in BlockIds'
                                 /\ handed[m].opening = "lined"
                                          => blocks'[handed[m].block].lined
    BY <1>5 DEF Disclosed, DisclosureShape
  <2> QED BY <1>1, <2>1, <2>2, <2>3 DEF Disclosed, DisclosureShape
<1>8. Filings'
  BY <1>5 DEF Disclosed, Filings, IsCall
<1>9. LinesGoOut'
  BY <1>1, <1>2, <1>5 DEF Disclosed, LinesGoOut, HandedLined
<1>10. NewInHand'
  <2> SUFFICES ASSUME blocks[k].to # {}
               PROVE  \E p \in blocks[k].to : \A j \in BlockIds :
                         (blocks'[j].lined /\ p \in blocks[j].to)
                            => blocks[k].call < j \/ blocks[j].thread \in deleted
    BY <1>1, <1>5 DEF NewInHand, Unknown
  <2>1. PICK p \in blocks[k].to : ~IntroducedBefore(p, blocks[k].thread, blocks[k].call)
    BY <1>1 DEF FirstMessageToSomeone
  <2>2. blocks[k].call \in BlockIds /\ IsCall(blocks[k].call) /\ blocks[k].call < k
    BY <1>1 DEF Disclosed, Filings
  <2>3. ASSUME NEW j \in BlockIds, blocks'[j].lined, p \in blocks[j].to,
               blocks[j].thread \notin deleted
        PROVE  blocks[k].call < j
    <3>1. CASE j = k
      BY <2>2, <3>1
    <3>2. CASE j # k
      <4>1. blocks[j].lined
        BY <1>5, <2>3, <3>2
      <4>2. j \in Stored(blocks[j].thread)
        BY <2>3 DEF Stored
      <4>3. blocks[j].thread \in {blocks[i].thread : i \in {h \in BlockIds : p \in blocks[h].to}}
        BY <2>3
      <4>4. ~(j < blocks[k].call)
        BY <2>1, <2>3, <4>1, <4>2, <4>3 DEF IntroducedBefore
      <4>5. j # blocks[k].call
        <5>1. Written(blocks[j])
          BY DEF Disclosed, DisclosureShape
        <5> QED BY <2>2, <4>1, <5>1 DEF Written, IsCall
      <4> QED BY <1>2, <2>2, <4>4, <4>5
    <3> QED BY <3>1, <3>2
  <2> QED BY <2>3
<1> QED BY <1>1, <1>6, <1>7, <1>8, <1>9, <1>10, HandedStays DEF Disclosed

\* A message goes out, with its line or to those who had it.
LEMMA HandOffDiscloses ==
  ASSUME Disclosed, NEW i \in BlockIds, NEW opening \in {"lined", "bare"},
         HandOff(i, opening),
         opening = "lined" => i = lining,
         opening = "bare" =>
            /\ lining = 0
            /\ \A p \in blocks[i].to : \E j \in BlockIds : blocks[j].lined /\ p \in blocks[j].to
  PROVE  Disclosed'
<1> DEFINE out == [block |-> i, opening |-> opening]
           n == Len(handed)
<1>1. /\ handed' = Append(handed, out) /\ lining' = 0
      /\ UNCHANGED <<blocks, deleted, lost>>
  BY DEF HandOff
<1>2. /\ Len(blocks) \in Nat /\ BlockIds = 1 .. Len(blocks) /\ 0 \notin BlockIds
      /\ BlockIds' = BlockIds /\ i \in Nat
  BY <1>1 DEF Disclosed, DisclosureShape, BlockIds
<1>3. out \in [block : Nat, opening : {"lined", "bare"}] /\ out.block = i /\ out.opening = opening
  BY <1>2
<1> HIDE DEF out
<1>4. handed \in Seq([block : Nat, opening : {"lined", "bare"}])
  BY DEF Disclosed, DisclosureShape
<1>5. /\ n \in Nat /\ DOMAIN handed = 1 .. n /\ DOMAIN handed' = 1 .. (n + 1)
      /\ \A m \in 1 .. n : handed'[m] = handed[m]
                           /\ handed[m] \in [block : Nat, opening : {"lined", "bare"}]
      /\ handed'[n + 1] = out /\ Len(handed') = n + 1
      /\ handed' \in Seq([block : Nat, opening : {"lined", "bare"}])
  <2> DEFINE T == [block : Nat, opening : {"lined", "bare"}]
  <2>1. out \in T /\ handed \in Seq(T)
    BY <1>3, <1>4
  <2> HIDE DEF T
  <2>2. /\ n \in Nat /\ DOMAIN handed = 1 .. n /\ \A m \in 1 .. n : handed[m] \in T
    BY <2>1
  <2>3. /\ handed' \in Seq(T) /\ Len(handed') = n + 1
        /\ \A m \in 1 .. n : handed'[m] = handed[m]
        /\ handed'[n + 1] = out
    BY <1>1, <2>1, AppendProperties
  <2>4. DOMAIN handed' = 1 .. (n + 1)
    BY <2>3
  <2> QED BY <2>2, <2>3, <2>4 DEF T
<1> HIDE DEF n
<1>6. \A m \in 1 .. (n + 1) : m \in 1 .. n \/ m = n + 1
  BY <1>5
<1>7. opening = "lined" => lining # 0 /\ blocks[i].lined
  BY <1>2 DEF Disclosed, DisclosureShape
<1>8. DisclosureShape'
  <2>1. \A m \in 1 .. (n + 1) : /\ handed'[m].block \in BlockIds
                                /\ handed'[m].opening = "lined" => blocks[handed'[m].block].lined
    BY <1>3, <1>5, <1>6, <1>7 DEF Disclosed, DisclosureShape
  <2>2. Len(handed)' \in Nat /\ DOMAIN handed' = 1 .. (n + 1)
    BY <1>5
  <2> QED BY <1>1, <1>2, <1>5, <2>1, <2>2 DEF Disclosed, DisclosureShape
<1>9. Filings' /\ NewInHand'
  BY <1>1, <1>2 DEF Disclosed, Filings, IsCall, NewInHand
<1>10. \A j \in BlockIds : HandedLined(j) => HandedLined(j)'
  <2>1. \A m \in 1 .. n : m \in 1 .. (n + 1)
    BY <1>5
  <2> QED BY <1>5, <2>1 DEF HandedLined
<1>11. LinesGoOut'
  <2> SUFFICES ASSUME NEW j \in BlockIds, blocks[j].lined PROVE j \in lost \/ HandedLined(j)'
    BY <1>1, <1>2 DEF LinesGoOut
  <2>1. j \in lost \/ j = lining \/ HandedLined(j)
    BY DEF Disclosed, LinesGoOut
  <2>2. CASE j = lining
    <3>1. opening = "lined" /\ i = j
      BY <1>2, <2>2
    <3>2. n + 1 \in DOMAIN handed'
      BY <1>5
    <3> QED BY <1>3, <1>5, <3>1, <3>2 DEF HandedLined
  <2> QED BY <1>10, <2>1, <2>2
<1>12. BareOnlyToTheIntroduced'
  <2> SUFFICES ASSUME NEW m \in DOMAIN handed', handed'[m].opening = "bare",
                      NEW p \in blocks'[handed'[m].block].to
               PROVE  \E j \in BlockIds' :
                         /\ p \in blocks'[j].to
                         /\ j \in lost' \/ \E h \in 1 .. m - 1 :
                                       handed'[h] = [block |-> j, opening |-> "lined"]
    BY DEF BareOnlyToTheIntroduced
  <2>0. m \in 1 .. (n + 1) /\ p \in blocks[handed'[m].block].to
    BY <1>1, <1>5
  <2>1. \A h \in 1 .. m - 1 : handed'[h] = handed[h]
    BY <1>5, <2>0
  <2>2. CASE m \in 1 .. n
    <3>1. handed'[m] = handed[m]
      BY <1>5, <2>2
    <3>2. \E j \in BlockIds :
                         /\ p \in blocks[j].to
                         /\ j \in lost \/ \E h \in 1 .. m - 1 :
                                       handed[h] = [block |-> j, opening |-> "lined"]
      <4>1. m \in DOMAIN handed /\ handed[m].opening = "bare" /\ p \in blocks[handed[m].block].to
        BY <1>5, <2>0, <2>2, <3>1
      <4> QED BY <4>1 DEF Disclosed, BareOnlyToTheIntroduced
    <3> QED BY <1>1, <1>2, <2>1, <3>2
  <2>3. CASE m = n + 1
    <3>1. opening = "bare" /\ p \in blocks[i].to
      BY <1>3, <1>5, <2>0, <2>3
    <3>2. PICK j \in BlockIds : blocks[j].lined /\ p \in blocks[j].to
      BY <3>1
    <3>3. j \in lost \/ HandedLined(j)
      BY <1>2, <3>1, <3>2 DEF Disclosed, LinesGoOut
    <3>4. ASSUME HandedLined(j)
          PROVE  \E h \in 1 .. m - 1 : handed'[h] = [block |-> j, opening |-> "lined"]
      <4>1. PICK h \in 1 .. n : handed[h].block = j /\ handed[h].opening = "lined"
        BY <1>5, <3>4 DEF HandedLined
      <4>2. handed[h] = [block |-> j, opening |-> "lined"]
        BY <1>5, <4>1
      <4>3. h \in 1 .. m - 1
        BY <1>5, <2>3
      <4> QED BY <2>1, <4>2, <4>3
    <3> QED BY <1>1, <1>2, <3>2, <3>3, <3>4
  <2> QED BY <1>6, <2>0, <2>2, <2>3
<1>13. RepeatedWithinARound'
  <2> SUFFICES ASSUME NEW m \in DOMAIN handed', handed'[m].opening = "lined",
                      blocks'[handed'[m].block].to # {}
               PROVE  \E p \in blocks'[handed'[m].block].to : \A h \in 1 .. m - 1 :
                         (handed'[h].opening = "lined" /\ p \in blocks'[handed'[h].block].to) =>
                            \/ blocks'[handed'[m].block].call < handed'[h].block
                            \/ blocks'[handed'[h].block].thread \in deleted'
    BY DEF RepeatedWithinARound
  <2>5. m \in 1 .. (n + 1) /\ blocks' = blocks /\ deleted' = deleted
        /\ blocks[handed'[m].block].to # {}
    BY <1>1, <1>5
  <2> SUFFICES \E p \in blocks[handed'[m].block].to : \A h \in 1 .. m - 1 :
                   (handed'[h].opening = "lined" /\ p \in blocks[handed'[h].block].to) =>
                      Unknown(handed'[m].block, handed'[h].block)
    BY <2>5 DEF Unknown
  <2>0. \A h \in 1 .. m - 1 : h \in 1 .. n
    BY <1>5, <2>5
  <2>1. \A h \in 1 .. m - 1 : handed'[h] = handed[h] /\ h \in 1 .. n
    BY <1>5, <2>0
  <2>2. CASE m \in 1 .. n
    <3>1. handed'[m] = handed[m]
      BY <1>5, <2>2
    <3>2. \E p \in blocks[handed[m].block].to : \A h \in 1 .. m - 1 :
             (handed[h].opening = "lined" /\ p \in blocks[handed[h].block].to) =>
                Unknown(handed[m].block, handed[h].block)
      BY <1>5, <2>2, <2>5, <3>1 DEF Disclosed, RepeatedWithinARound, Unknown
    <3> QED BY <2>1, <3>1, <3>2
  <2>3. CASE m = n + 1
    <3>1. /\ handed'[m].block = i /\ opening = "lined" /\ i = lining /\ lining # 0
          /\ blocks[i].to # {}
      BY <1>3, <1>5, <1>7, <2>3, <2>5
    <3>2. PICK p \in blocks[i].to : \A j \in BlockIds :
             (blocks[j].lined /\ p \in blocks[j].to) => Unknown(i, j)
      <4>1. NewInHand
        BY DEF Disclosed
      <4> QED BY <3>1, <4>1 DEF NewInHand
    <3>3. \A h \in 1 .. m - 1 : handed[h].block \in BlockIds
             /\ (handed[h].opening = "lined" => blocks[handed[h].block].lined)
      <4>1. \A h \in DOMAIN handed : handed[h].block \in BlockIds
               /\ (handed[h].opening = "lined" => blocks[handed[h].block].lined)
        BY DEF Disclosed, DisclosureShape
      <4> QED BY <1>5, <2>0, <4>1
    <3> QED BY <2>1, <3>1, <3>2, <3>3
  <2> QED BY <1>6, <2>2, <2>3, <2>5
<1> QED BY <1>8, <1>9, <1>11, <1>12, <1>13 DEF Disclosed

LEMMA HandsDisclose == Disclosed /\ (HandsLined \/ HandsBare) => Disclosed'
<1> SUFFICES ASSUME Disclosed, HandsLined \/ HandsBare PROVE Disclosed'
  OBVIOUS
<1>1. CASE HandsLined
  <2>1. lining \in BlockIds /\ HandOff(lining, "lined")
    BY <1>1 DEF HandsLined, Disclosed, DisclosureShape
  <2> QED BY <2>1, HandOffDiscloses
<1>2. CASE HandsBare
  <2>1. PICK i \in BlockIds : lining = 0 /\ ~FirstMessageToSomeone(i) /\ HandOff(i, "bare")
    BY <1>2, NextIsOut DEF HandsBare
  <2>2. \A p \in blocks[i].to : \E j \in BlockIds : blocks[j].lined /\ p \in blocks[j].to
    BY <2>1 DEF FirstMessageToSomeone, IntroducedBefore, Stored
  <2> QED BY <2>1, <2>2, HandOffDiscloses
<1> QED BY <1>1, <1>2

\* A process dies, or a session moves on: no block and nothing handed over is
\* touched.
LEMMA TurnoverDiscloses ==
  ASSUME Disclosed, UNCHANGED <<blocks, handed>>, deleted \subseteq deleted',
         \/ lining' = lining /\ lost' = lost
         \/ lining' = 0 /\ lost' = lost \cup ({lining} \ {0})
  PROVE  Disclosed'
<1>1. BlockIds' = BlockIds /\ 0 \notin BlockIds
  BY DEF BlockIds, Disclosed, DisclosureShape
<1>2. Grown
  BY <1>1 DEF Grown
<1>3. DisclosureShape' /\ Filings'
  BY <1>1 DEF Disclosed, DisclosureShape, Filings, IsCall
<1>4. LinesGoOut' /\ NewInHand'
  BY <1>1 DEF Disclosed, LinesGoOut, HandedLined, NewInHand, Unknown
<1> QED BY <1>2, <1>3, <1>4, HandedStays DEF Disclosed

LEMMA DisclosedKeeps == Disclosed /\ [DisclosureNext]_disclosureVars => Disclosed'
<1> SUFFICES ASSUME Disclosed, [DisclosureNext]_disclosureVars PROVE Disclosed'
  OBVIOUS
<1>1. CASE ProcessDies \/ MovesOn \/ UNCHANGED disclosureVars
  BY <1>1, TurnoverDiscloses DEF ProcessDies, MovesOn, disclosureVars
<1> QED BY <1>1, RoundDiscloses, FilesDiscloses, StoresDisclose, HandsDisclose
        DEF DisclosureNext

\* Nobody is spoken to before the line was handed to them, or lost with the
\* process that stored it, and the line is not said again (disclosure.rs).
THEOREM IntroducedJustOnce == DisclosureSpec => []IntroducedOnce
<1>1. Disclosed => IntroducedOnce
  BY DEF Disclosed, IntroducedOnce
<1> QED BY <1>1, DisclosureInitially, DisclosedKeeps, PTL DEF DisclosureSpec

-----------------------------------------------------------------------------
(* Debts.                                                                    *)
(*                                                                           *)
(* Behind a summons that stands, every message that owes an answer owes it   *)
(* at no more than the summoner's authority (CarriedOn); so does the stamp   *)
(* an ingestion holds and has not written yet (StampCarries), though the     *)
(* runtime writes meanwhile, because only one ingestion holds one (OneStamp) *)
(* and no other message, and no erasure, comes in between.                   *)

BlockKinds == {"none", "chat", "aside", "text", "call", "marker"}
BlockRecords ==
    [kind : BlockKinds, authority : Authorities, own : BOOLEAN, due : BOOLEAN,
     debt : Nat, erased : BOOLEAN, anchor : Nat]

DebtsType ==
    /\ ledger \in Seq(BlockRecords)
    /\ turn \in 0 .. Len(ledger)
    /\ writing \in [Writers -> BlockRecords]

\* What a stamp says of itself.
Stamped(b) ==
    /\ b.own => b.due
    /\ b.due => 1 <= b.debt /\ b.debt <= b.authority
    /\ b.kind = "chat" => b.anchor = 0

StampsSound ==
    /\ \A i \in Blocks : Stamped(ledger[i]) /\ ledger[i].anchor < i
    /\ \A w \in Writers : writing[w] # NoBlock =>
          /\ Stamped(writing[w]) /\ writing[w].kind = "chat" /\ ~writing[w].erased

OneStamp ==
    \A v, w \in Writers : (writing[v] # NoBlock /\ writing[w] # NoBlock) => v = w

CarriedOn ==
    \A i, j \in Blocks :
        (Standing(i) /\ i < j /\ Chat(j) /\ ledger[j].due)
            => ledger[j].debt <= ledger[i].authority

StampCarries ==
    \A w \in Writers, i \in Blocks :
        (writing[w] # NoBlock /\ writing[w].due /\ Standing(i))
            => writing[w].debt <= ledger[i].authority

Indebted == DebtsType /\ StampsSound /\ OneStamp /\ CarriedOn /\ StampCarries

LEMMA DebtNumbers ==
  /\ Authorities \subseteq Nat /\ FLOOR = 1 /\ FLOOR \in Authorities
  /\ \A authority \in Authorities : 1 <= authority
  BY DebtsAssumption DEF FLOOR

LEMMA NoBlockFields ==
  /\ NoBlock \in BlockRecords /\ NoBlock.kind = "none" /\ Stamped(NoBlock)
  /\ \A kind \in BlockKinds, anchor \in Nat :
        /\ Block(kind, anchor) \in BlockRecords
        /\ Block(kind, anchor).kind = kind /\ Block(kind, anchor).anchor = anchor
        /\ ~Block(kind, anchor).own /\ ~Block(kind, anchor).due
<1>1. NoBlock \in BlockRecords /\ NoBlock.kind = "none"
  BY DebtNumbers DEF NoBlock, BlockRecords, BlockKinds
<1>2. ~NoBlock.own /\ ~NoBlock.due
  BY DEF NoBlock
<1>3. ASSUME NEW kind \in BlockKinds, NEW anchor \in Nat
      PROVE  /\ Block(kind, anchor) \in BlockRecords
             /\ Block(kind, anchor).kind = kind /\ Block(kind, anchor).anchor = anchor
             /\ ~Block(kind, anchor).own /\ ~Block(kind, anchor).due
  BY DebtNumbers DEF NoBlock, Block, BlockRecords
<1> QED BY <1>1, <1>2, <1>3 DEF Stamped

LEMMA LedgerPlaces ==
  ASSUME DebtsType
  PROVE  /\ Len(ledger) \in Nat /\ Blocks = 1 .. Len(ledger)
         /\ \A i \in Blocks : ledger[i] \in BlockRecords /\ i \in Nat /\ i >= 1
         /\ turn \in Nat
<1>1. Len(ledger) \in Nat /\ Blocks = 1 .. Len(ledger)
      /\ \A i \in Blocks : ledger[i] \in BlockRecords
  BY DEF DebtsType, Blocks
<1> QED BY <1>1 DEF DebtsType

LEMMA IndebtedInitially == DebtsInit => Indebted
<1> SUFFICES ASSUME DebtsInit PROVE Indebted
  OBVIOUS
<1>1. ledger = <<>> /\ turn = 0 /\ writing = [w \in Writers |-> NoBlock]
  BY DEF DebtsInit
<1>2. Blocks = {} /\ Len(ledger) = 0
  BY <1>1 DEF Blocks
<1>3. DebtsType
  BY <1>1, <1>2, NoBlockFields DEF DebtsType
<1>4. \A w \in Writers : writing[w] = NoBlock
  BY <1>1
<1> QED BY <1>2, <1>3, <1>4 DEF Indebted, StampsSound, OneStamp, CarriedOn, StampCarries

\* A block behind the others: what stands there stands before it, if it does
\* not cut it off.
LEMMA LedgerGrows ==
  ASSUME DebtsType, NEW b \in BlockRecords, ledger' = Append(ledger, b)
  PROVE  /\ ledger' \in Seq(BlockRecords)
         /\ Len(ledger') = Len(ledger) + 1
         /\ Blocks' = Blocks \cup {Len(ledger) + 1} /\ Len(ledger) + 1 \notin Blocks
         /\ \A i \in Blocks : ledger'[i] = ledger[i] /\ i < Len(ledger) + 1
         /\ ledger'[Len(ledger) + 1] = b
         /\ \A i \in Blocks : Standing(i)' => Standing(i) /\ b.kind \in {"chat", "aside"}
<1>1. /\ ledger' \in Seq(BlockRecords) /\ Len(ledger') = Len(ledger) + 1
      /\ \A i \in 1 .. Len(ledger) : ledger'[i] = ledger[i]
      /\ ledger'[Len(ledger) + 1] = b
  BY AppendProperties DEF DebtsType
<1>2. Len(ledger) \in Nat /\ Blocks = 1 .. Len(ledger)
  BY LedgerPlaces
<1>3. Blocks' = 1 .. Len(ledger) + 1
  <2>1. DOMAIN ledger' = 1 .. Len(ledger')
    BY <1>1
  <2> QED BY <1>1, <2>1 DEF Blocks
<1>4. Blocks' = Blocks \cup {Len(ledger) + 1} /\ Len(ledger) + 1 \notin Blocks
  BY <1>2, <1>3
<1>5. \A i \in Blocks : ledger'[i] = ledger[i] /\ i < Len(ledger) + 1
  BY <1>1, <1>2
<1>6. ASSUME NEW i \in Blocks, Standing(i)'
      PROVE  Standing(i) /\ b.kind \in {"chat", "aside"}
  <2>1. i \in Nat /\ Len(ledger) + 1 > i /\ Len(ledger) + 1 \in Blocks'
    BY <1>2, <1>4
  <2>2. b.kind \in {"chat", "aside"}
    BY <1>1, <1>6, <2>1 DEF Standing
  <2>3. Standing(i)
    BY <1>4, <1>5, <1>6 DEF Standing, Taker, Chat
  <2> QED BY <2>2, <2>3
<1> QED BY <1>1, <1>4, <1>5, <1>6

\* What the runtime and others write behind the messages: no message, and no
\* stamp.
LEMMA OthersWrite ==
  ASSUME Indebted, NEW kind \in BlockKinds \ {"chat"}, NEW anchor \in 0 .. Len(ledger),
         ledger' = Append(ledger, Block(kind, anchor)), writing' = writing,
         turn' = turn \/ turn' = 0
  PROVE  Indebted'
<1>1. /\ Block(kind, anchor) \in BlockRecords
      /\ Block(kind, anchor).kind = kind /\ Block(kind, anchor).anchor = anchor
      /\ ~Block(kind, anchor).own /\ ~Block(kind, anchor).due
  BY NoBlockFields
<1> DEFINE b == Block(kind, anchor)
<1> HIDE DEF b
<1>2. PICK n \in Nat : n = Len(ledger) + 1
  BY LedgerPlaces DEF Indebted
<1>3. /\ ledger' \in Seq(BlockRecords) /\ Len(ledger') = n
      /\ Blocks' = Blocks \cup {n} /\ n \notin Blocks
      /\ \A i \in Blocks : ledger'[i] = ledger[i] /\ i < n
      /\ ledger'[n] = b
      /\ \A i \in Blocks : Standing(i)' => Standing(i)
  BY <1>1, <1>2, LedgerGrows DEF Indebted, b
<1>4. /\ Len(ledger) \in Nat /\ turn \in 0 .. Len(ledger) /\ anchor < n
  BY <1>2, LedgerPlaces DEF Indebted, DebtsType
<1>5. b.kind # "chat" /\ b.anchor = anchor /\ ~b.own /\ ~b.due
  BY <1>1 DEF b
<1>6. DebtsType'
  <2>1. turn' \in 0 .. Len(ledger')
    BY <1>2, <1>3, <1>4
  <2> QED BY <1>3, <2>1 DEF Indebted, DebtsType
<1>7. ~Standing(n)' /\ ~Chat(n)'
  BY <1>3, <1>5 DEF Standing, Taker, Chat
<1>8. StampsSound'
  <2>1. Stamped(b) /\ b.anchor < n
    BY <1>4, <1>5 DEF Stamped
  <2>2. \A i \in Blocks' : Stamped(ledger'[i]) /\ ledger'[i].anchor < i
    BY <1>3, <2>1 DEF Indebted, StampsSound
  <2> QED BY <2>2 DEF Indebted, StampsSound
<1>9. OneStamp'
  BY DEF Indebted, OneStamp
<1>10. CarriedOn'
  <2> SUFFICES ASSUME NEW i \in Blocks', NEW j \in Blocks', Standing(i)', i < j,
                      Chat(j)', ledger'[j].due
               PROVE  ledger'[j].debt <= ledger'[i].authority
    BY DEF CarriedOn
  <2>1. i \in Blocks /\ j \in Blocks
    BY <1>3, <1>7
  <2>2. Standing(i) /\ Chat(j) /\ ledger[j].due
    BY <1>3, <2>1 DEF Chat
  <2> QED BY <1>3, <2>1, <2>2 DEF Indebted, CarriedOn
<1>11. StampCarries'
  BY <1>3, <1>7 DEF Indebted, StampCarries
<1> QED BY <1>6, <1>8, <1>9, <1>10, <1>11 DEF Indebted

\* The tail's block.
LEMMA TailPlace ==
  ASSUME DebtsType
  PROVE  /\ Tail0 \in Blocks \cup {0}
         /\ \A i \in Blocks : ~ReadThrough(i) /\ ~(Chat(i) /\ TransparentToTheWalk(i))
                                 => i <= Tail0
         /\ Tail0 # 0 => ~ReadThrough(Tail0) /\ ~(Chat(Tail0) /\ TransparentToTheWalk(Tail0))
         /\ OwingTailDebt \in Nat
<1> DEFINE S == {0} \cup {i \in Blocks : ~ReadThrough(i) /\ ~(Chat(i) /\ TransparentToTheWalk(i))}
<1>1. Len(ledger) \in Nat /\ Blocks = 1 .. Len(ledger)
      /\ \A i \in Blocks : ledger[i] \in BlockRecords
  BY LedgerPlaces
<1>2. S \subseteq 0 .. Len(ledger) /\ S # {} /\ Tail0 = Max(S)
  BY <1>1 DEF Tail0
<1> HIDE DEF S
<1>3. Tail0 \in S /\ \A x \in S : x <= Tail0
  BY <1>1, <1>2, GreatestOf
<1>4. Tail0 # 0 => ledger[Tail0].debt \in Nat
  BY <1>1, <1>3 DEF S, BlockRecords
<1> QED BY <1>3, <1>4 DEF S, OwingTailDebt

\* While a summons stands, the tail owes an answer at no more than its
\* authority.
LEMMA DebtsStand == Indebted => DebtStands
<1> SUFFICES ASSUME Indebted, NEW i \in Blocks, Standing(i)
             PROVE  OwingTailDebt # 0 /\ OwingTailDebt <= ledger[i].authority
  BY DEF DebtStands
<1>1. /\ Len(ledger) \in Nat /\ Blocks = 1 .. Len(ledger)
      /\ \A j \in Blocks : Stamped(ledger[j]) /\ ledger[j] \in BlockRecords
  BY LedgerPlaces DEF Indebted, StampsSound
<1>2. Chat(i) /\ ~ledger[i].erased /\ ledger[i].due
  BY <1>1 DEF Standing, Taker, Stamped
<1>3. i <= Tail0 /\ Tail0 \in Blocks
  <2>1. i <= Tail0
    BY <1>2, TailPlace DEF Indebted, ReadThrough, Chat, TransparentToTheWalk
  <2> QED BY <1>1, <2>1, TailPlace DEF Indebted
<1>4. Chat(Tail0) /\ OwesAnswer(Tail0) /\ Tail0 # 0
  <2>1. Tail0 # 0 /\ ~ReadThrough(Tail0) /\ ~(Chat(Tail0) /\ TransparentToTheWalk(Tail0))
    BY <1>1, <1>3, TailPlace DEF Indebted
  <2>2. Chat(Tail0)
    <3>1. CASE Tail0 = i
      BY <1>2, <3>1
    <3>2. CASE Tail0 # i
      <4>1. Tail0 > i
        BY <1>1, <1>3, <3>2
      <4> QED BY <1>3, <2>1, <4>1 DEF Standing, ReadThrough, Chat
    <3> QED BY <3>1, <3>2
  <2> QED BY <2>1, <2>2 DEF OwesAnswer, TransparentToTheWalk
<1>5. /\ 1 <= ledger[Tail0].debt /\ ledger[Tail0].debt \in Nat
      /\ ledger[Tail0].debt <= ledger[i].authority
  <2>1. ledger[Tail0].due /\ ledger[Tail0].debt \in Nat
    BY <1>1, <1>3, <1>4 DEF OwesAnswer, BlockRecords
  <2>2. 1 <= ledger[Tail0].debt
    BY <1>1, <1>3, <2>1 DEF Stamped
  <2>3. CASE Tail0 = i
    BY <1>1, <1>3, <2>1, <2>2, <2>3 DEF Stamped
  <2>4. CASE Tail0 # i
    <3>1. i < Tail0
      BY <1>1, <1>3, <2>4
    <3> QED BY <1>3, <1>4, <2>1, <2>2, <3>1 DEF Indebted, CarriedOn
  <2> QED BY <2>3, <2>4
<1>6. OwingTailDebt = ledger[Tail0].debt
  BY <1>4 DEF OwingTailDebt
<1> QED BY <1>5, <1>6

\* A stamp carries the tail on at no more than it was owed at.
LEMMA Composed ==
  ASSUME NEW authority \in Authorities, NEW summoned \in BOOLEAN, NEW limited \in BOOLEAN,
         NEW tail \in Nat
  PROVE  LET b == Compose(authority, summoned, limited, tail)
         IN  /\ b \in BlockRecords /\ b.kind = "chat" /\ ~b.erased /\ Stamped(b)
             /\ b.due /\ tail # 0 => b.debt <= tail
             /\ b.due => tail # 0 \/ summoned
<1> DEFINE own == summoned /\ ~limited
           debt == IF tail # 0 THEN Min({tail, authority})
                   ELSE IF own THEN authority ELSE 0
           b == Compose(authority, summoned, limited, tail)
<1>1. authority \in Nat /\ 1 <= authority
  BY DebtNumbers
<1>2. /\ debt \in Nat
      /\ tail # 0 => debt <= tail /\ 1 <= debt /\ debt <= authority
      /\ (tail = 0 /\ own) => debt = authority
  <2>1. CASE tail # 0
    <3>1. Min({tail, authority}) \in {tail, authority}
          /\ \A x \in {tail, authority} : Min({tail, authority}) <= x
      BY <1>1, LeastOf
    <3> QED BY <1>1, <2>1, <3>1
  <2>2. CASE tail = 0
    BY <1>1, <2>2
  <2> QED BY <2>1, <2>2
<1>3. b = [NoBlock EXCEPT !.kind = "chat", !.authority = authority,
             !.own = own, !.due = own \/ tail # 0, !.debt = debt]
  BY DEF Compose
<1> HIDE DEF debt, b
<1>4. /\ b \in BlockRecords /\ b.kind = "chat" /\ ~b.erased /\ b.anchor = 0
      /\ b.own <=> own
      /\ b.due <=> (own \/ tail # 0)
      /\ b.debt = debt /\ b.authority = authority
  BY <1>2, <1>3, DebtNumbers DEF BlockRecords, BlockKinds, NoBlock
<1>5. Stamped(b)
  BY <1>1, <1>2, <1>4 DEF Stamped
<1> QED BY <1>2, <1>4, <1>5 DEF b

\* The stamp is taken under the lock.
LEMMA StampsIndebted == ASSUME Indebted, NEW w \in Writers, Stamp(w) PROVE Indebted'
<1>1. PICK authority \in Authorities, summoned \in BOOLEAN, limited \in BOOLEAN, bot \in BOOLEAN :
         writing' = [writing EXCEPT ![w] =
            Compose(authority, summoned, limited, OwedTail(bot, summoned))]
  BY DEF Stamp
<1>2. /\ \A v \in Writers : writing[v] = NoBlock
      /\ UNCHANGED <<ledger, turn>>
  BY DEF Stamp, StampLock
<1>3. OwedTail(bot, summoned) \in Nat
  BY TailPlace DEF OwedTail, Indebted
<1> DEFINE tail == OwedTail(bot, summoned)
           b == Compose(authority, summoned, limited, tail)
<1> HIDE DEF tail
<1>4. /\ b \in BlockRecords /\ b.kind = "chat" /\ ~b.erased /\ Stamped(b)
      /\ b.due /\ tail # 0 => b.debt <= tail
      /\ b.due => tail # 0 \/ summoned
  BY <1>3, Composed DEF tail
<1> HIDE DEF b
<1>5. /\ writing' \in [Writers -> BlockRecords]
      /\ \A v \in Writers : writing'[v] = IF v = w THEN b ELSE NoBlock
  BY <1>1, <1>2, <1>4 DEF Indebted, DebtsType, b, tail
<1>6. DebtsType' /\ CarriedOn'
  BY <1>2, <1>5 DEF Indebted, DebtsType, CarriedOn, Blocks, Standing, Taker, Chat
<1>7. StampsSound' /\ OneStamp'
  BY <1>2, <1>4, <1>5 DEF Indebted, StampsSound, OneStamp, Blocks
<1>8. StampCarries'
  <2> SUFFICES ASSUME NEW i \in Blocks, Standing(i), b.due
               PROVE  b.debt <= ledger[i].authority
    BY <1>2, <1>5 DEF StampCarries, Blocks, Standing, Taker, Chat
  <2>1. OwingTailDebt # 0 /\ OwingTailDebt <= ledger[i].authority
    BY DebtsStand DEF DebtStands
  <2>2. tail = OwingTailDebt
    <3>1. CASE bot /\ ~summoned
      <4>1. tail = 0
        BY <3>1 DEF tail, OwedTail
      <4> QED BY <1>4, <3>1, <4>1
    <3>2. CASE ~(bot /\ ~summoned)
      BY <3>2 DEF tail, OwedTail
    <3> QED BY <3>1, <3>2
  <2>3. b.debt \in Nat /\ tail \in Nat /\ ledger[i].authority \in Nat
    BY <1>3, <1>4, LedgerPlaces, DebtNumbers DEF Indebted, BlockRecords, tail
  <2> QED BY <1>4, <2>1, <2>2, <2>3
<1> QED BY <1>6, <1>7, <1>8 DEF Indebted

\* The message is appended: nobody else's is in between.
LEMMA AppendsIndebted ==
  ASSUME Indebted, NEW w \in Writers, AppendMessage(w) PROVE Indebted'
<1> DEFINE b == writing[w]
<1>1. /\ b # NoBlock /\ ledger' = Append(ledger, b) /\ turn' = turn
      /\ writing' = [writing EXCEPT ![w] = NoBlock]
  BY DEF AppendMessage, Grows
<1>2. /\ b \in BlockRecords /\ Stamped(b) /\ b.kind = "chat"
      /\ b.anchor = 0
  BY <1>1 DEF Indebted, DebtsType, StampsSound, Stamped
<1>3. PICK n \in Nat : n = Len(ledger) + 1
  BY LedgerPlaces DEF Indebted
<1>4. /\ ledger' \in Seq(BlockRecords) /\ Len(ledger') = n
      /\ Blocks' = Blocks \cup {n} /\ n \notin Blocks
      /\ \A i \in Blocks : ledger'[i] = ledger[i] /\ i < n /\ i \in Nat
      /\ ledger'[n] = b
      /\ \A i \in Blocks : Standing(i)' => Standing(i)
  BY <1>1, <1>2, <1>3, LedgerGrows, LedgerPlaces DEF Indebted
<1>5. /\ writing' \in [Writers -> BlockRecords]
      /\ \A v \in Writers : writing'[v] = NoBlock
  <2>1. \A v \in Writers : writing[v] # NoBlock => v = w
    BY <1>1 DEF Indebted, OneStamp
  <2> QED BY <1>1, <2>1, NoBlockFields DEF Indebted, DebtsType
<1>6. \A i \in Blocks : b.due /\ Standing(i) => b.debt <= ledger[i].authority
  BY <1>1 DEF Indebted, StampCarries
<1> HIDE DEF b
<1>7. DebtsType'
  <2>1. /\ Len(ledger) \in Nat /\ turn \in 0 .. Len(ledger)
    BY LedgerPlaces DEF Indebted, DebtsType
  <2>2. turn' \in 0 .. Len(ledger')
    BY <1>1, <1>3, <1>4, <2>1
  <2> QED BY <1>4, <1>5, <2>2 DEF DebtsType
<1>8. StampsSound'
  <2>1. b.anchor < n
    BY <1>2, <1>3, LedgerPlaces DEF Indebted
  <2> QED BY <1>2, <1>4, <1>5, <2>1 DEF Indebted, StampsSound
<1>9. OneStamp' /\ StampCarries'
  BY <1>5 DEF OneStamp, StampCarries
<1>10. CarriedOn'
  <2> SUFFICES ASSUME NEW i \in Blocks', NEW j \in Blocks', Standing(i)', i < j,
                      Chat(j)', ledger'[j].due
               PROVE  ledger'[j].debt <= ledger'[i].authority
    BY DEF CarriedOn
  <2>1. i \in Blocks /\ Standing(i)
    <3>1. i # n
      <4>1. j \in Blocks \/ j = n
        BY <1>4
      <4> QED BY <1>4, <4>1
    <3> QED BY <1>4, <3>1
  <2>2. CASE j = n
    BY <1>4, <1>6, <2>1, <2>2
  <2>3. CASE j # n
    <3>1. j \in Blocks /\ Chat(j) /\ ledger[j].due
      BY <1>4, <2>3 DEF Chat
    <3> QED BY <1>4, <2>1, <3>1 DEF Indebted, CarriedOn
  <2> QED BY <2>2, <2>3
<1> QED BY <1>7, <1>8, <1>9, <1>10 DEF Indebted

\* An erasure takes a summons out of those that stand, and a debt out of
\* nothing.
LEMMA ErasesIndebted == Indebted /\ EraseText => Indebted'
<1> SUFFICES ASSUME Indebted, EraseText PROVE Indebted'
  OBVIOUS
<1>1. PICK k \in Blocks : ledger' = [ledger EXCEPT ![k].erased = TRUE]
  BY DEF EraseText
<1>2. (\A w \in Writers : writing[w] = NoBlock) /\ UNCHANGED <<turn, writing>>
  BY DEF EraseText
<1>3. /\ ledger \in Seq(BlockRecords) /\ ledger[k] \in BlockRecords
      /\ Len(ledger) \in Nat /\ Blocks = 1 .. Len(ledger)
  BY LedgerPlaces DEF Indebted, DebtsType
<1> DEFINE b == [ledger[k] EXCEPT !.erased = TRUE]
<1>4. /\ b \in BlockRecords /\ b.kind = ledger[k].kind /\ b.authority = ledger[k].authority
      /\ b.own = ledger[k].own /\ b.due = ledger[k].due /\ b.debt = ledger[k].debt
      /\ b.anchor = ledger[k].anchor /\ b.erased
  BY <1>3 DEF BlockRecords
<1>5. ledger' = [ledger EXCEPT ![k] = b]
  BY <1>1
<1> HIDE DEF b
<1>6. /\ ledger' \in Seq(BlockRecords) /\ Len(ledger') = Len(ledger)
      /\ \A i \in 1 .. Len(ledger) : ledger'[i] = IF i = k THEN b ELSE ledger[i]
  BY <1>3, <1>4, <1>5, ExceptSeq
<1>7. Blocks' = Blocks
  <2>1. DOMAIN ledger' = 1 .. Len(ledger')
    BY <1>6
  <2> QED BY <1>3, <1>6, <2>1 DEF Blocks
<1>8. \A i \in Blocks : /\ ledger'[i].kind = ledger[i].kind
                        /\ ledger'[i].authority = ledger[i].authority
                        /\ ledger'[i].own <=> ledger[i].own
                        /\ ledger'[i].due <=> ledger[i].due
                        /\ ledger'[i].debt = ledger[i].debt
                        /\ ledger'[i].anchor = ledger[i].anchor
                        /\ ledger[i].erased => ledger'[i].erased
  BY <1>3, <1>4, <1>6
<1>9. \A i \in Blocks : /\ Standing(i)' => Standing(i)
                        /\ Chat(i)' <=> Chat(i)
                        /\ Stamped(ledger'[i]) <=> Stamped(ledger[i])
  BY <1>7, <1>8 DEF Standing, Taker, Chat, Stamped
<1>10. DebtsType'
  BY <1>2, <1>6 DEF Indebted, DebtsType
<1>11. StampsSound' /\ OneStamp' /\ StampCarries'
  BY <1>2, <1>7, <1>8, <1>9 DEF Indebted, StampsSound, OneStamp, StampCarries
<1>12. CarriedOn'
  BY <1>7, <1>8, <1>9 DEF Indebted, CarriedOn
<1> QED BY <1>10, <1>11, <1>12 DEF Indebted

\* A turn starts over the newest message that owes an answer, or ends.
LEMMA TurnsIndebted ==
  ASSUME Indebted, UNCHANGED <<ledger, writing>>, turn' \in 0 .. Len(ledger)
  PROVE  Indebted'
<1>1. DebtsType' /\ StampsSound' /\ OneStamp'
  BY DEF Indebted, DebtsType, StampsSound, OneStamp, Blocks
<1>2. CarriedOn' /\ StampCarries'
  BY DEF Indebted, CarriedOn, StampCarries, Blocks, Standing, Taker, Chat
<1> QED BY <1>1, <1>2 DEF Indebted

LEMMA RunsIndebted ==
  Indebted /\ (Aside \/ Starts \/ Writes \/ Finishes) => Indebted'
<1> SUFFICES ASSUME Indebted, Aside \/ Starts \/ Writes \/ Finishes PROVE Indebted'
  OBVIOUS
<1>1. /\ Len(ledger) \in Nat /\ turn \in 0 .. Len(ledger) /\ Blocks = 1 .. Len(ledger)
      /\ 0 \in 0 .. Len(ledger)
  BY LedgerPlaces DEF Indebted, DebtsType
<1>2. {"aside", "text", "call", "marker"} \subseteq BlockKinds \ {"chat"}
  BY DEF BlockKinds
<1>3. CASE Aside
  <2>1. ledger' = Append(ledger, Block("aside", 0)) /\ UNCHANGED <<turn, writing>>
    BY <1>3 DEF Aside, Grows
  <2> QED BY <1>1, <1>2, <2>1, OthersWrite
<1>4. CASE Starts
  <2>1. {0} \cup {i \in Blocks : OwesAnswer(i)} \subseteq 0 .. Len(ledger)
    BY <1>1
  <2>2. Frontier \in 0 .. Len(ledger)
    BY <1>1, <2>1, GreatestOf DEF Frontier
  <2> QED BY <1>4, <2>2, TurnsIndebted DEF Starts
<1>5. CASE Writes
  <2>1. PICK kind \in {"text", "call"} :
           ledger' = Append(ledger, Block(kind, turn)) /\ UNCHANGED <<turn, writing>>
    BY <1>5 DEF Writes, Grows
  <2> QED BY <1>1, <1>2, <2>1, OthersWrite
<1>6. CASE Finishes
  <2>1. turn' = 0 /\ writing' = writing
        /\ (ledger' = ledger \/ ledger' = Append(ledger, Block("marker", turn)))
    BY <1>6 DEF Finishes, Grows
  <2> QED BY <1>1, <1>2, <2>1, OthersWrite, TurnsIndebted
<1> QED BY <1>3, <1>4, <1>5, <1>6

LEMMA IndebtedKeeps == Indebted /\ [DebtsNext]_debtVars => Indebted'
<1> SUFFICES ASSUME Indebted, [DebtsNext]_debtVars PROVE Indebted'
  OBVIOUS
<1>1. CASE UNCHANGED debtVars
  BY <1>1, TurnsIndebted DEF debtVars, Indebted, DebtsType
<1> QED BY <1>1, StampsIndebted, AppendsIndebted, ErasesIndebted, RunsIndebted DEF DebtsNext

\* Nobody whose summons no other turn's answer follows is left out of the
\* minimum: a block written for a turn stands behind the turn's anchor, so
\* the answer the walk ends at is no answer of the live turn.
LEMMA MinimumTaken == Indebted => AdmittedAtMinimum
<1> SUFFICES ASSUME Indebted, turn # 0, NEW i \in Blocks, Taker(i),
                    ~\E j \in Blocks : j > i /\ Answered(j) /\ ledger[j].anchor # turn
             PROVE  TurnReading <= ledger[i].authority
  BY DEF AdmittedAtMinimum
<1>1. /\ Len(ledger) \in Nat /\ Blocks = 1 .. Len(ledger) /\ turn \in 1 .. Len(ledger)
      /\ \A j \in Blocks : /\ ledger[j].authority \in Authorities /\ ledger[j].anchor \in Nat
                           /\ ledger[j].anchor < j
  BY SMTT(30), LedgerPlaces DEF Indebted, DebtsType, StampsSound, BlockRecords
<1>2. \A S : S \subseteq Blocks => Voting(S) \subseteq Nat
  BY <1>1, DebtNumbers DEF Voting
<1>3. turn + 1 .. Len(ledger) \subseteq Blocks
  BY <1>1
<1>4. OriginReading \in Nat /\ (i <= turn => OriginReading <= ledger[i].authority)
  <2> DEFINE S == {0} \cup {k \in 1 .. turn : ChainEnds(k)}
             end == Max(S)
             votes == Voting(end + 1 .. turn)
  <2>1. OriginReading = IF votes = {} THEN FLOOR ELSE Min(votes)
    BY DEF OriginReading
  <2>2. end \in S /\ (\A x \in S : x <= end) /\ end \in 0 .. turn
    <3>1. S \subseteq 0 .. turn /\ S # {} /\ turn \in Nat
      BY <1>1
    <3> HIDE DEF S
    <3> QED BY <3>1, GreatestOf
  <2> HIDE DEF end
  <2>3. end + 1 .. turn \subseteq Blocks
    BY <1>1, <2>2
  <2>4. votes \subseteq Nat
    BY <1>2, <2>3
  <2>5. i <= turn => i \in end + 1 .. turn
    <3> SUFFICES ASSUME i <= turn, i <= end PROVE FALSE
      BY <1>1, <2>2
    <3>1. end \in 1 .. turn /\ Answered(end) /\ end \in Blocks
      BY <1>1, <2>2 DEF ChainEnds
    <3>2. end # i
      BY <3>1 DEF Answered, Taker, Chat
    <3>3. end > i
      BY <1>1, <3>1, <3>2
    <3>4. ledger[end].anchor = turn
      BY <3>1, <3>3
    <3> QED BY <1>1, <3>1, <3>4
  <2>6. i <= turn => ledger[i].authority \in votes
    BY <2>5 DEF Voting
  <2> HIDE DEF votes
  <2> QED BY <2>1, <2>4, <2>6, LeastOf, DebtNumbers
<1> DEFINE T == {OriginReading} \cup Voting(turn + 1 .. Len(ledger))
<1>5. TurnReading = Min(T) /\ T \subseteq Nat /\ OriginReading \in T
  BY <1>2, <1>3, <1>4 DEF TurnReading
<1>6. i > turn => ledger[i].authority \in T
  <2>1. i > turn => i \in turn + 1 .. Len(ledger)
    BY <1>1
  <2> QED BY <2>1 DEF Voting
<1> HIDE DEF T
<1>7. TurnReading \in Nat /\ \A x \in T : TurnReading <= x
  BY <1>5, LeastOf
<1>8. CASE i > turn
  BY <1>6, <1>7, <1>8
<1>9. CASE i <= turn
  <2>1. TurnReading <= OriginReading /\ OriginReading <= ledger[i].authority
        /\ ledger[i].authority \in Nat
    BY <1>1, <1>4, <1>5, <1>7, <1>9, DebtNumbers
  <2> QED BY <1>4, <1>7, <2>1
<1> QED BY <1>1, <1>8, <1>9

\* The inductive invariant of the conversation's debts: what a stamp copied is
\* what a walk over the ledger would read, at every step (kind.rs, Stamp).
THEOREM DebtsInvariant == DebtsSpec => []Indebted
  BY IndebtedInitially, IndebtedKeeps, PTL DEF DebtsSpec

\* While a summons stands, the tail owes an answer at no more than its
\* authority (kind.rs, the walk past transparent rows; assembly.rs,
\* owing_tail_debt).
THEOREM DebtsAreKept == DebtsSpec => []DebtStands
  BY DebtsInvariant, DebtsStand, PTL

\* A call of the live turn is admitted at the minimum over its summoners
\* (tools/provenance.rs).
THEOREM AdmittedAtTheLeast == DebtsSpec => []AdmittedAtMinimum
  BY DebtsInvariant, MinimumTaken, PTL

-----------------------------------------------------------------------------
\* Contact: what a group tells, and what its session holds of it.

UpdateKinds == Topics \cup {"added", "message", "wipe", "join"}
GroupUpdate == [kind : UpdateKinds, value : Nat]

ContactTyped ==
    /\ platform \in [title : Nat, rules : Nat, member : BOOLEAN]
    /\ updates \in Seq(GroupUpdate) /\ Len(updates) <= MaxUpdates
    /\ taken \in 0 .. Len(updates) /\ saved \in 0 .. taken
    /\ found \in Seq(Topics \X Nat)
    /\ noted \in [Topics -> Nat] /\ joined \in [1 .. MaxUpdates -> Nat]

NextIs(topic) == taken < Len(updates) /\ Current.kind = topic

(* The driver is in the middle of the next update: it has looked its group up, *)
(* or tried to, before it comes to the fact.                                   *)
StagesRight ==
    /\ stages \in {<<>>, <<"fact">>, <<"contact", "fact">>, <<"contact">>, <<"fact", "contact">>}
    /\ stages # <<>> => taken < Len(updates)
    /\ stages = <<"contact">> \/ stages = <<"fact", "contact">> => Current.kind = "added"
    /\ stages = <<"fact">> => answered \/ failed
    /\ stages = <<"fact">> \/ stages = <<"contact", "fact">> => Current.kind # "added"
    /\ found # <<>> => AtContact /\ ~answered

KnownFirst(topic) == IF topic = "title" THEN 1 ELSE 0

(* The updates tell of every change, in order, and nothing is known before it *)
(* is so.                                                                     *)
TellsEveryChange(topic) ==
    /\ KnownFirst(topic) <= platform[topic] /\ noted[topic] <= platform[topic]
    /\ \A i \in 1 .. Len(updates) : updates[i].kind = topic =>
          /\ KnownFirst(topic) < updates[i].value /\ updates[i].value <= platform[topic]
          /\ \A j \in 1 .. Len(updates) : updates[j].kind = topic /\ i < j =>
                updates[i].value < updates[j].value
          /\ (\A j \in 1 .. Len(updates) : i < j => updates[j].kind # topic) =>
                updates[i].value = platform[topic]
    /\ (\A i \in 1 .. Len(updates) : updates[i].kind # topic) =>
          platform[topic] = KnownFirst(topic)

NoneLeft(topic) == \A i \in 1 .. Len(updates) : taken < i => updates[i].kind # topic

(* A value at least what the updates taken tell.                              *)
Covers(topic, value) ==
    /\ KnownFirst(topic) <= value
    /\ \A i \in 1 .. taken : updates[i].kind = topic => updates[i].value <= value

(* A topic's newest note is what the platform shows, or what an update of it  *)
(* is yet to tell.                                                            *)
Holds(topic) ==
    /\ NoneLeft(topic) => noted[topic] = platform[topic]
    /\ NextIs(topic) \/ Covers(topic, noted[topic])

(* What was looked up and is yet to be reported.                              *)
FoundRight(topic) ==
    /\ \A i \in 1 .. Len(found) : found[i][1] = topic =>
          /\ found[i][2] <= platform[topic]
          /\ Covers(topic, found[i][2])
          /\ NoneLeft(topic) => found[i][2] = platform[topic]
    /\ found # <<>> /\ ~retired =>
          Holds(topic) \/ \E i \in 1 .. Len(found) : found[i][1] = topic

(* What a group's session holds once it was looked up.                        *)
NotedRight(topic) == admitted /\ answered /\ ~retired => Holds(topic)

JoinsWhole ==
    \A i \in 1 .. MaxUpdates :
        joined[i] \in {0, Joiners} \/ (i \in cut /\ joined[i] < Joiners)

ContactInv ==
    /\ ContactTyped /\ StagesRight /\ JoinsWhole
    /\ \A topic \in Topics : TellsEveryChange(topic) /\ FoundRight(topic) /\ NotedRight(topic)

LEMMA ContactStarts == ContactInit => ContactInv
<1> SUFFICES ASSUME ContactInit PROVE ContactInv
  OBVIOUS
<1> USE ContactAssumption
<1>1. ContactTyped
  BY DEF ContactInit, ContactTyped, NoNotes, NoJoins, GroupUpdate, Topics
<1>2. StagesRight
  BY DEF ContactInit, StagesRight
<1>3. JoinsWhole
  BY DEF ContactInit, JoinsWhole, NoJoins
<1>4. ASSUME NEW topic \in Topics PROVE TellsEveryChange(topic) /\ FoundRight(topic) /\ NotedRight(topic)
  <2>1. TellsEveryChange(topic)
    BY DEF ContactInit, TellsEveryChange, KnownFirst, NoNotes, Topics
  <2>2. FoundRight(topic)
    BY DEF ContactInit, FoundRight
  <2>3. NotedRight(topic)
    BY DEF ContactInit, NotedRight
  <2> QED BY <2>1, <2>2, <2>3
<1> QED BY <1>1, <1>2, <1>3, <1>4 DEF ContactInv

LEMMA LastExists ==
  ASSUME NEW n \in Nat, NEW S, S \subseteq 1 .. n, S # {}
  PROVE  \E i \in S : \A j \in S : j <= i
<1>1. S \subseteq 0 .. n
  OBVIOUS
<1> QED BY <1>1, GreatestOf

-----------------------------------------------------------------------------
(* What the driver does of an update.                                         *)

LEMMA StageTuples ==
  /\ Head(<<"fact">>) = "fact" /\ Tail(<<"fact">>) = <<>> /\ Len(<<"fact">>) = 1
  /\ Head(<<"contact">>) = "contact" /\ Tail(<<"contact">>) = <<>> /\ Len(<<"contact">>) = 1
  /\ Head(<<"contact", "fact">>) = "contact" /\ Tail(<<"contact", "fact">>) = <<"fact">>
  /\ Len(<<"contact", "fact">>) = 2
  /\ Head(<<"fact", "contact">>) = "fact" /\ Tail(<<"fact", "contact">>) = <<"contact">>
  /\ Len(<<"fact", "contact">>) = 2
  /\ <<"fact">> # <<"contact">> /\ <<"fact", "contact">> # <<"contact", "fact">>
  /\ <<"fact">> # <<>> /\ <<"contact">> # <<>>
  /\ <<"fact", "contact">> # <<>> /\ <<"contact", "fact">> # <<>>
  /\ <<"fact", "contact">> # <<"contact">> /\ <<"contact", "fact">> # <<"contact">>
  /\ <<"fact", "contact">> # <<"fact">> /\ <<"contact", "fact">> # <<"fact">>
OBVIOUS

LEMMA ContactStage ==
  ASSUME StagesRight, AtContact
  PROVE  /\ taken < Len(updates)
         /\ \/ stages = <<"contact">> /\ Current.kind = "added"
            \/ stages = <<"contact", "fact">> /\ Current.kind # "added"
<1>1. stages # <<>> /\ Head(stages) # "fact"
  BY DEF AtContact
<1>2. stages \in {<<"contact", "fact">>, <<"contact">>}
  BY <1>1, StageTuples DEF StagesRight
<1> QED BY <1>1, <1>2 DEF StagesRight

LEMMA FactStage ==
  ASSUME StagesRight, NEW K, AtFact(K)
  PROVE  /\ taken < Len(updates) /\ Current.kind \in K
         /\ found = <<>>
         /\ \/ stages = <<"fact", "contact">> /\ Current.kind = "added"
            \/ stages = <<"fact">> /\ Current.kind # "added" /\ (answered \/ failed)
<1>1. stages # <<>> /\ Head(stages) = "fact" /\ Current.kind \in K
  BY DEF AtFact
<1>2. stages \in {<<"fact", "contact">>, <<"fact">>}
  BY <1>1, StageTuples DEF StagesRight
<1>3. ~AtContact
  BY <1>1 DEF AtContact
<1> QED BY <1>1, <1>2, <1>3 DEF StagesRight

(* A contact that is made is followed by its fact, or by the next update.     *)
LEMMA ContactMade ==
  ASSUME StagesRight, ContactTyped, AtContact, NextStage
  PROVE  /\ saved' = saved
         /\ \/ stages' = <<>> /\ taken' = taken + 1 /\ Current.kind = "added"
            \/ stages' = <<"fact">> /\ taken' = taken /\ Current.kind # "added"
<1>1. \/ stages = <<"contact">> /\ Current.kind = "added"
      \/ stages = <<"contact", "fact">> /\ Current.kind # "added"
  BY ContactStage
<1>2. CASE stages = <<"contact">>
  <2>1. stages' = <<>> /\ taken' = taken + 1 /\ saved' = saved
    BY <1>2, StageTuples DEF NextStage
  <2> QED BY <1>1, <1>2, <2>1, StageTuples
<1>3. CASE stages = <<"contact", "fact">>
  <2>1. stages' = <<"fact">> /\ taken' = taken /\ saved' = saved
    BY <1>3, StageTuples DEF NextStage
  <2> QED BY <1>1, <1>3, <2>1, StageTuples
<1> QED BY <1>1, <1>2, <1>3

-----------------------------------------------------------------------------
(* What the updates tell, and what is known of it.                            *)

LEMMA TellsKept ==
  ASSUME NEW topic \in Topics, TellsEveryChange(topic), updates' = updates,
         platform'[topic] = platform[topic], noted'[topic] <= platform[topic]
  PROVE  TellsEveryChange(topic)'
BY DEF TellsEveryChange

(* A step after which a topic's notes stand for what they stood for.          *)
Steady(topic) ==
    /\ updates' = updates /\ platform'[topic] = platform[topic]
    /\ noted'[topic] = noted[topic]
    /\ \/ taken' = taken
       \/ taken' = taken + 1 /\ taken < Len(updates) /\ Current.kind # topic

LEMMA HoldsKept ==
  ASSUME NEW topic \in Topics, ContactTyped, Holds(topic), Steady(topic)
  PROVE  Holds(topic)'
<1>0. taken \in Nat /\ Len(updates) \in Nat /\ taken <= Len(updates)
  BY DEF ContactTyped
<1>1. CASE taken' = taken
  BY <1>1 DEF Holds, Steady, NoneLeft, NextIs, Covers, Current
<1>2. CASE taken' = taken + 1 /\ taken < Len(updates) /\ Current.kind # topic
  <2>1. NoneLeft(topic)' => NoneLeft(topic)
    BY <1>0, <1>2 DEF NoneLeft, Steady, Current
  <2>2. Covers(topic, noted[topic])
    BY <1>2 DEF Holds, NextIs
  <2>3. Covers(topic, noted[topic])'
    BY <1>0, <1>2, <2>2 DEF Covers, Steady, Current
  <2> QED BY <2>1, <2>3 DEF Holds, Steady
<1> QED BY <1>1, <1>2 DEF Steady

(* The steps that look nothing up and tell a session nothing new.             *)
LEMMA ContactKept ==
  ASSUME ContactInv, ContactTyped', StagesRight', JoinsWhole',
         updates' = updates,
         \A topic \in Topics : platform'[topic] = platform[topic] /\ noted'[topic] <= platform[topic],
         found' # <<>> => /\ found' = found /\ taken' = taken
                          /\ ~retired' => ~retired /\ noted' = noted,
         admitted' /\ answered' /\ ~retired' =>
             admitted /\ answered /\ ~retired /\ \A topic \in Topics : Steady(topic)
  PROVE  ContactInv'
<1> SUFFICES ASSUME NEW topic \in Topics
             PROVE  TellsEveryChange(topic)' /\ FoundRight(topic)' /\ NotedRight(topic)'
  BY DEF ContactInv
<1>0. TellsEveryChange(topic) /\ FoundRight(topic) /\ NotedRight(topic) /\ ContactTyped
  BY DEF ContactInv
<1>1. TellsEveryChange(topic)'
  BY <1>0, TellsKept
<1>2. FoundRight(topic)'
  <2>1. CASE found' = <<>>
    BY <2>1 DEF FoundRight
  <2>2. CASE found' # <<>>
    <3>1. found' = found /\ taken' = taken /\ platform'[topic] = platform[topic]
      BY <2>2
    <3>2. \A i \in 1 .. Len(found') : found'[i][1] = topic =>
             /\ found'[i][2] <= platform'[topic]
             /\ Covers(topic, found[i][2])'
             /\ NoneLeft(topic)' => found'[i][2] = platform'[topic]
      BY <1>0, <3>1 DEF FoundRight, Covers, NoneLeft
    <3>3. ~retired' => Steady(topic) /\ ~retired
      BY <2>2, <3>1 DEF Steady
    <3>4. ~retired' => Holds(topic)' \/ \E i \in 1 .. Len(found') : found'[i][1] = topic
      BY <3>3, <3>1, <1>0, <2>2, HoldsKept DEF FoundRight
    <3> QED BY <3>1, <3>2, <3>4 DEF FoundRight, Covers
  <2> QED BY <2>1, <2>2
<1>3. NotedRight(topic)'
  BY <1>0, HoldsKept DEF NotedRight
<1> QED BY <1>1, <1>2, <1>3

-----------------------------------------------------------------------------
(* The platform's own steps.                                                  *)

LEMMA SendsKeeps ==
  ASSUME ContactInv, NEW kind \in UpdateKinds, NEW value \in Nat, Sends(kind, value),
         platform' \in [title : Nat, rules : Nat, member : BOOLEAN],
         \A topic \in Topics :
             /\ kind = topic => value = platform[topic] + 1 /\ platform'[topic] = value
             /\ kind # topic => platform'[topic] = platform[topic]
  PROVE  ContactInv'
<1> DEFINE told == [kind |-> kind, value |-> value]
           n == Len(updates)
<1>0. ContactTyped /\ StagesRight /\ JoinsWhole
  BY DEF ContactInv
<1>1. /\ updates \in Seq(GroupUpdate) /\ n \in Nat /\ n < MaxUpdates /\ told \in GroupUpdate
      /\ updates' = Append(updates, told)
      /\ taken' = taken /\ saved' = saved /\ stages' = stages /\ found' = found
      /\ noted' = noted /\ joined' = joined /\ cut' = cut
      /\ taken \in 0 .. n /\ saved \in 0 .. taken
  BY <1>0, ContactAssumption DEF ContactTyped, Sends, progress, record, history, GroupUpdate
<1>2. /\ retired' = retired /\ answered' = answered /\ failed' = failed /\ admitted' = admitted
  BY DEF Sends, memories, history
<1>3. /\ Len(updates') = n + 1 /\ updates' \in Seq(GroupUpdate)
      /\ \A i \in 1 .. n : updates'[i] = updates[i]
      /\ updates'[n + 1] = told
  <2> HIDE DEF told
  <2> QED BY <1>1
<1>4. ContactTyped'
  <2>1. n + 1 <= MaxUpdates /\ taken \in 0 .. n + 1
    BY <1>1, ContactAssumption
  <2>2. /\ found \in Seq(Topics \X Nat) /\ noted \in [Topics -> Nat]
        /\ joined \in [1 .. MaxUpdates -> Nat]
    BY <1>0 DEF ContactTyped
  <2> HIDE DEF n, told
  <2> QED BY <1>1, <1>3, <2>1, <2>2 DEF ContactTyped
<1>5. taken < n => Current' = Current
  BY <1>1, <1>3 DEF Current
<1>6. StagesRight'
  <2>1. AtContact' <=> AtContact
    BY <1>1 DEF AtContact
  <2>2. stages = <<"fact">> => answered' \/ failed'
    BY <1>0, <1>2 DEF StagesRight
  <2>3. found # <<>> => ~answered'
    BY <1>0, <1>2 DEF StagesRight
  <2>4. stages # <<>> => taken < n
    BY <1>0 DEF StagesRight
  <2>5. taken < n => taken < n + 1
    BY <1>1
  <2> HIDE DEF n
  <2> QED BY <1>0, <1>1, <1>3, <1>5, <2>1, <2>2, <2>3, <2>4, <2>5, StageTuples DEF StagesRight
<1>7. JoinsWhole'
  BY <1>0, <1>1 DEF JoinsWhole
<1> HIDE DEF n
<1>8. ASSUME NEW topic \in Topics
      PROVE  TellsEveryChange(topic)' /\ FoundRight(topic)' /\ NotedRight(topic)'
  <2>0. TellsEveryChange(topic) /\ FoundRight(topic) /\ NotedRight(topic)
    BY DEF ContactInv
  <2>1. /\ platform[topic] \in Nat /\ noted[topic] \in Nat
        /\ platform'[topic] \in Nat /\ platform[topic] <= platform'[topic]
        /\ kind = topic => value = platform[topic] + 1 /\ platform'[topic] = value
        /\ kind # topic => platform'[topic] = platform[topic]
    BY <1>0 DEF ContactTyped, Topics
  <2>2. ASSUME NEW i \in 1 .. n PROVE updates[i].value \in Nat
    <3>1. updates[i] \in GroupUpdate
      BY <1>1 DEF n
    <3> QED BY <3>1 DEF GroupUpdate
  <2>3. KnownFirst(topic) \in Nat
    BY DEF KnownFirst
  <2>4. TellsEveryChange(topic)'
    <3>1. KnownFirst(topic) <= platform'[topic] /\ noted'[topic] <= platform'[topic]
      BY <2>0, <2>1, <2>3, <1>1 DEF TellsEveryChange
    <3>2. ASSUME NEW i \in 1 .. n + 1, updates'[i].kind = topic
          PROVE  /\ KnownFirst(topic) < updates'[i].value /\ updates'[i].value <= platform'[topic]
                 /\ \A j \in 1 .. n + 1 : updates'[j].kind = topic /\ i < j =>
                       updates'[i].value < updates'[j].value
                 /\ (\A j \in 1 .. n + 1 : i < j => updates'[j].kind # topic) =>
                       updates'[i].value = platform'[topic]
      <4>1. CASE i = n + 1
        <5>1. kind = topic /\ updates'[i].value = value
          BY <4>1, <1>3, <3>2
        <5> QED BY SMTT(30), <5>1, <4>1, <2>1, <2>0, <2>3, <1>1 DEF TellsEveryChange
      <4>2. CASE i \in 1 .. n
        <5>1. /\ KnownFirst(topic) < updates[i].value /\ updates[i].value <= platform[topic]
              /\ \A j \in 1 .. n : updates[j].kind = topic /\ i < j =>
                    updates[i].value < updates[j].value
              /\ (\A j \in 1 .. n : i < j => updates[j].kind # topic) =>
                       updates[i].value = platform[topic]
          BY <4>2, <3>2, <2>0, <1>3 DEF TellsEveryChange, n
        <5>2. updates'[i] = updates[i] /\ updates[i].value \in Nat /\ i < n + 1
          BY <4>2, <1>3, <2>2, <1>1
        <5>n. n + 1 \in 1 .. n + 1 /\ \A j \in 1 .. n + 1 : j = n + 1 \/ j \in 1 .. n
          BY <1>1
        <5>3. CASE kind = topic
          <6>1. updates'[n + 1].kind = topic /\ updates'[n + 1].value = platform[topic] + 1
            BY <5>3, <1>3, <2>1
          <6>2. ~(\A j \in 1 .. n + 1 : i < j => updates'[j].kind # topic)
            BY <6>1, <5>2, <5>n
          <6>3. ASSUME NEW j \in 1 .. n + 1, updates'[j].kind = topic, i < j
                PROVE  updates'[i].value < updates'[j].value
            <7>1. CASE j = n + 1
              BY <7>1, <6>1, <5>1, <5>2, <2>1
            <7>2. CASE j \in 1 .. n
              <8>1. updates'[j] = updates[j]
                BY <7>2, <1>3
              <8> QED BY <7>2, <6>3, <5>1, <5>2, <8>1
            <7> QED BY <7>1, <7>2, <5>n
          <6> QED BY <6>2, <6>3, <5>1, <5>2, <2>1, <2>3
        <5>4. CASE kind # topic
          <6>1. updates'[n + 1].kind # topic
            BY <5>4, <1>3
          <6>2. \A j \in 1 .. n + 1 : updates'[j].kind = topic => j \in 1 .. n
            BY <6>1, <5>n
          <6>3. (\A j \in 1 .. n + 1 : i < j => updates'[j].kind # topic) =>
                   \A j \in 1 .. n : i < j => updates[j].kind # topic
            BY <1>3, <1>1
          <6>4. \A j \in 1 .. n + 1 : updates'[j].kind = topic /\ i < j =>
                   updates'[i].value < updates'[j].value
            BY <6>2, <5>1, <5>2, <1>3
          <6>5. updates'[i].value = updates[i].value /\ platform'[topic] = platform[topic]
            BY <5>2, <5>4, <2>1
          <6>6. (\A j \in 1 .. n + 1 : i < j => updates'[j].kind # topic) =>
                   updates'[i].value = platform'[topic]
            BY <6>3, <6>5, <5>1
          <6>7. KnownFirst(topic) < updates'[i].value /\ updates'[i].value <= platform'[topic]
            BY <6>5, <5>1
          <6> QED BY <6>4, <6>6, <6>7
        <5> QED BY <5>3, <5>4
      <4>3. i = n + 1 \/ i \in 1 .. n
        BY <1>1
      <4> QED BY <4>1, <4>2, <4>3
    <3>3. (\A i \in 1 .. n + 1 : updates'[i].kind # topic) => platform'[topic] = KnownFirst(topic)
      <4>1. SUFFICES ASSUME \A i \in 1 .. n + 1 : updates'[i].kind # topic
                     PROVE  platform'[topic] = KnownFirst(topic)
        OBVIOUS
      <4>2. kind # topic
        BY <4>1, <1>3, <1>1
      <4>3. \A i \in 1 .. n : updates[i].kind # topic
        BY <4>1, <1>3, <1>1
      <4> QED BY <4>2, <4>3, <2>1, <2>0 DEF TellsEveryChange, n
    <3> QED BY <3>1, <3>2, <3>3, <1>3 DEF TellsEveryChange
  <2>5. ASSUME NEW v, Covers(topic, v) PROVE Covers(topic, v)'
    BY <2>5, <1>1, <1>3 DEF Covers
  <2>6. NoneLeft(topic)' => NoneLeft(topic) /\ kind # topic
    <3>1. n + 1 \in 1 .. n + 1 /\ taken < n + 1
      BY <1>1
    <3> QED BY <3>1, <1>1, <1>3 DEF NoneLeft, n
  <2>7. NextIs(topic) => NextIs(topic)'
    BY <1>1, <1>3, <1>5 DEF NextIs, n
  <2>8. Holds(topic) => Holds(topic)'
    <3>1. Covers(topic, noted[topic]) => Covers(topic, noted[topic])'
      BY <1>1, <1>3 DEF Covers, n
    <3> QED BY <3>1, <2>6, <2>7, <2>1, <1>1 DEF Holds
  <2>9. FoundRight(topic)'
    <3>1. ASSUME NEW i \in 1 .. Len(found), found[i][1] = topic
          PROVE  /\ found[i][2] <= platform'[topic]
                 /\ Covers(topic, found[i][2])'
                 /\ NoneLeft(topic)' => found[i][2] = platform'[topic]
      <4>1. found[i][2] \in Nat
        <5>1. found \in Seq(Topics \X Nat)
          BY <1>0 DEF ContactTyped
        <5>2. found[i] \in Topics \X Nat
          BY <5>1
        <5> QED BY <5>2
      <4>2. /\ found[i][2] <= platform[topic]
            /\ Covers(topic, found[i][2])
            /\ NoneLeft(topic) => found[i][2] = platform[topic]
        BY <3>1, <2>0 DEF FoundRight
      <4>3. Covers(topic, found[i][2])'
        BY <4>2, <1>1, <1>3 DEF Covers
      <4> QED BY <4>1, <4>2, <4>3, <2>1, <2>6
    <3>2. found # <<>> /\ ~retired' => Holds(topic)' \/ \E i \in 1 .. Len(found) : found[i][1] = topic
      BY <2>0, <2>8, <1>2 DEF FoundRight
    <3> QED BY <3>1, <3>2, <1>1 DEF FoundRight, Covers
  <2>10. NotedRight(topic)'
    BY <2>0, <2>8, <1>2 DEF NotedRight
  <2> QED BY <2>4, <2>9, <2>10
<1> QED BY <1>4, <1>6, <1>7, <1>8 DEF ContactInv

LEMMA PlatformKeeps ==
  ASSUME ContactInv, AddsBot \/ (\E topic \in Topics : Changes(topic)) \/ Speaks
  PROVE  ContactInv'
<1>0. platform \in [title : Nat, rules : Nat, member : BOOLEAN]
  BY DEF ContactInv, ContactTyped
<1>1. CASE AddsBot
  <2>1. PICK by \in {0, 1} : Sends("added", by)
    BY <1>1 DEF AddsBot
  <2>2. /\ platform' \in [title : Nat, rules : Nat, member : BOOLEAN]
        /\ \A topic \in Topics : platform'[topic] = platform[topic]
    BY <1>0, <1>1 DEF AddsBot, Topics
  <2> QED BY <2>1, <2>2, SendsKeeps DEF UpdateKinds, Topics
<1>2. ASSUME NEW topic \in Topics, Changes(topic) PROVE ContactInv'
  <2>1. Sends(topic, platform[topic] + 1) /\ platform' = [platform EXCEPT ![topic] = @ + 1]
    BY <1>2 DEF Changes
  <2>2. platform[topic] + 1 \in Nat
    BY <1>0 DEF Topics
  <2>3. /\ platform' \in [title : Nat, rules : Nat, member : BOOLEAN]
        /\ \A other \in Topics : IF other = topic THEN platform'[other] = platform[other] + 1
                                 ELSE platform'[other] = platform[other]
    BY <1>0, <2>1 DEF Topics
  <2> QED BY <2>1, <2>2, <2>3, SendsKeeps DEF UpdateKinds
<1>3. CASE Speaks
  <2>1. PICK kind \in {"message", "wipe", "join"} : Sends(kind, 0)
    BY <1>3 DEF Speaks
  <2>2. platform' = platform
    BY <1>3 DEF Speaks
  <2> QED BY <1>0, <2>1, <2>2, SendsKeeps DEF UpdateKinds, Topics
<1> QED BY <1>1, <1>2, <1>3

-----------------------------------------------------------------------------
(* The steps of the driver and of the core.                                   *)

LEMMA ContactFacts ==
  ASSUME ContactInv
  PROVE  /\ ContactTyped /\ StagesRight /\ JoinsWhole
         /\ platform \in [title : Nat, rules : Nat, member : BOOLEAN]
         /\ updates \in Seq(GroupUpdate) /\ Len(updates) \in Nat /\ Len(updates) <= MaxUpdates
         /\ taken \in Nat /\ taken <= Len(updates) /\ saved \in Nat /\ saved <= taken
         /\ found \in Seq(Topics \X Nat)
         /\ noted \in [Topics -> Nat] /\ joined \in [1 .. MaxUpdates -> Nat]
         /\ \A topic \in Topics : noted[topic] <= platform[topic] /\ platform[topic] \in Nat
         /\ Topics = {"title", "rules"}
BY DEF ContactInv, ContactTyped, TellsEveryChange, Topics

LEMMA LeaveShows ==
  ASSUME ContactInv, LeaveGroup
  PROVE  /\ platform' \in [title : Nat, rules : Nat, member : BOOLEAN]
         /\ \A topic \in Topics : platform'[topic] = platform[topic]
<1>1. platform \in [title : Nat, rules : Nat, member : BOOLEAN] /\ Topics = {"title", "rules"}
  BY ContactFacts
<1>2. platform' = platform \/ platform' = [platform EXCEPT !.member = FALSE]
  BY DEF LeaveGroup
<1> QED BY <1>1, <1>2

(* What a step between two updates leaves alone.                              *)
LEMMA NoStage ==
  ASSUME stages' = <<>>, found' = <<>>
  PROVE  StagesRight'
BY StageTuples DEF StagesRight

LEMMA TakeNextKeeps ==
  ASSUME ContactInv, TakeNext
  PROVE  ContactInv'
<1>0. stages = <<>> /\ taken < Len(updates) /\ stages' = StagesOf(Current.kind)
  BY DEF TakeNext
<1>1. /\ platform' = platform /\ updates' = updates /\ taken' = taken /\ saved' = saved
      /\ found' = found /\ noted' = noted /\ joined' = joined /\ cut' = cut
      /\ retired' = retired /\ answered' = answered /\ admitted' = admitted
  BY DEF TakeNext, memories, record, history
<1>2. found = <<>>
  BY <1>0 DEF ContactInv, StagesRight, AtContact
<1>3. ContactTyped' /\ JoinsWhole'
  BY <1>1 DEF ContactInv, ContactTyped, JoinsWhole
<1>4. StagesRight'
  <2>1. Current' = Current
    BY <1>1 DEF Current
  <2>2. \/ Current.kind = "added" /\ stages' = <<"fact", "contact">>
        \/ Current.kind # "added" /\ stages' = <<"contact", "fact">>
    BY <1>0 DEF StagesOf
  <2> QED BY <1>0, <1>1, <1>2, <2>1, <2>2, StageTuples DEF StagesRight
<1>5. \A topic \in Topics : noted[topic] <= platform[topic]
  BY ContactFacts
<1> QED BY <1>1, <1>2, <1>3, <1>4, <1>5, ContactKept DEF Steady

(* A contact made or not, and nothing more of the group known.                *)
LEMMA ContactOverKeeps ==
  ASSUME ContactInv, AtContact, found = <<>>, NextStage, ContactSkipped \/ LookupFails
  PROVE  ContactInv'
<1>1. /\ platform' = platform /\ updates' = updates
      /\ found' = found /\ noted' = noted /\ joined' = joined /\ cut' = cut
      /\ retired' = retired /\ answered' = answered /\ admitted' = admitted
  BY DEF ContactSkipped, LookupFails, memories, record, history, RecordFailure
<1>2. answered' \/ failed'
  BY DEF ContactSkipped, LookupFails, memories, RecordFailure, Skips
<1>3. /\ saved' = saved /\ taken < Len(updates)
      /\ \/ stages' = <<>> /\ taken' = taken + 1 /\ Current.kind = "added"
         \/ stages' = <<"fact">> /\ taken' = taken /\ Current.kind # "added"
  BY ContactMade, ContactStage DEF ContactInv
<1>4. ContactTyped' /\ JoinsWhole'
  BY <1>1, <1>3, ContactFacts DEF ContactTyped, JoinsWhole
<1>5. StagesRight'
  <2>1. CASE stages' = <<>>
    BY <2>1, <1>1, NoStage
  <2>2. CASE stages' = <<"fact">> /\ taken' = taken /\ Current.kind # "added"
    <3>1. Current' = Current
      BY <1>1, <2>2 DEF Current
    <3> QED BY <1>1, <1>2, <1>3, <2>2, <3>1, StageTuples DEF StagesRight
  <2> QED BY <1>3, <2>1, <2>2
<1>6. \A topic \in Topics : Steady(topic)
  BY <1>1, <1>3 DEF Steady, Topics
<1> QED BY <1>1, <1>3, <1>4, <1>5, <1>6, ContactFacts, ContactKept

LEMMA Pairs ==
  ASSUME NEW S, NEW a \in S, NEW b \in S
  PROVE  /\ <<a>> \o <<>> = <<a>> /\ <<a>> \in Seq(S) /\ Len(<<a>>) = 1 /\ <<a>>[1] = a
         /\ <<a>> \o <<b>> = <<a, b>> /\ <<a, b>> \in Seq(S) /\ Len(<<a, b>>) = 2
         /\ <<a, b>>[1] = a /\ <<a, b>>[2] = b
<1>1. <<a>> \in Seq(S) /\ <<b>> \in Seq(S) /\ <<a, b>> \in Seq(S)
  OBVIOUS
<1>2. <<a>> \o <<>> = <<a>>
  BY <1>1, ConcatEmptySeq
<1>3. /\ Len(<<a>> \o <<b>>) = 2 /\ (<<a>> \o <<b>>)[1] = a /\ (<<a>> \o <<b>>)[2] = b
      /\ <<a>> \o <<b>> \in Seq(S)
  BY <1>1
<1>4. <<a>> \o <<b>> = <<a, b>>
  <2> DEFINE s == <<a>> \o <<b>>
             t == <<a, b>>
  <2>1. s \in Seq(S) /\ t \in Seq(S) /\ Len(s) = Len(t) /\ \A i \in 1 .. Len(s) : s[i] = t[i]
    BY <1>1, <1>3
  <2> HIDE DEF s, t
  <2>2. s = t
    BY <2>1, SeqEqual
  <2> QED BY <2>2 DEF s, t
<1> QED BY <1>1, <1>2, <1>4

LEMMA PairOf ==
  ASSUME NEW a, NEW b
  PROVE  <<a>> \o <<b>> = <<a, b>>
<1> DEFINE S == {a, b}
<1>1. a \in S /\ b \in S
  OBVIOUS
<1> HIDE DEF S
<1> QED BY <1>1, Pairs

LEMMA LookupKeeps ==
  ASSUME ContactInv, Lookup
  PROVE  ContactInv'
<1>0. /\ AtContact /\ found = <<>>
      /\ found' = LookupFinds(Current.kind)
      /\ platform' = platform /\ updates' = updates /\ taken' = taken /\ saved' = saved
      /\ stages' = stages /\ noted' = noted /\ joined' = joined /\ cut' = cut
      /\ admitted' = admitted /\ answered' = answered /\ failed' = failed
  BY DEF Lookup, memories, record
<1>1. ~answered
  BY DEF Lookup, Skips
<1>2. ~answered'
  BY <1>0, <1>1
<1>3. /\ taken < Len(updates) /\ taken \in Nat /\ Len(updates) \in Nat
      /\ platform.title \in Nat /\ platform.rules \in Nat
  BY <1>0, ContactStage, ContactFacts DEF ContactInv
<1> DEFINE title == <<"title", platform.title>>
           rules == <<"rules", platform.rules>>
<1>p. title \in Topics \X Nat /\ rules \in Topics \X Nat
  BY <1>3 DEF Topics
<1>q. title[1] = "title" /\ title[2] = platform["title"] /\ rules[1] = "rules" /\ rules[2] = platform["rules"]
  OBVIOUS
<1>4. \/ found' = <<title>> /\ (Current.kind = "rules" \/ ~(platform.rules > 0))
      \/ found' = <<title, rules>> /\ Current.kind # "rules"
  <2>1. CASE Current.kind # "rules" /\ platform.rules > 0
    <3>1. found' = <<title>> \o <<rules>>
      BY <2>1, <1>0 DEF LookupFinds
    <3> HIDE DEF title, rules
    <3>2. <<title>> \o <<rules>> = <<title, rules>>
      <4> QED BY PairOf
    <3>3. found' = <<title, rules>>
      BY <3>1, <3>2
    <3> QED BY <3>3, <2>1
  <2>2. CASE ~(Current.kind # "rules" /\ platform.rules > 0)
    <3>1. found' = <<title>> \o <<>>
      BY <2>2, <1>0 DEF LookupFinds
    <3>2. Current.kind = "rules" \/ ~(platform.rules > 0)
      BY <2>2
    <3> HIDE DEF title, rules
    <3>3. found' = <<title>>
      BY <3>1, <1>p, Pairs
    <3> QED BY <3>2, <3>3
  <2> QED BY <2>1, <2>2
<1>5. Current.kind # "rules" /\ platform.rules > 0 => Len(found') = 2 /\ found'[2] = rules
  <2> HIDE DEF title, rules
  <2> QED BY <1>4, <1>p, Pairs
<1> HIDE DEF title, rules
<1>6. /\ found' \in Seq(Topics \X Nat)
      /\ \A i \in 1 .. Len(found') : found'[i][2] = platform[found'[i][1]]
      /\ 1 \in 1 .. Len(found') /\ found'[1] = title
  <2>1. CASE found' = <<title>>
    <3>1. found' \in Seq(Topics \X Nat) /\ Len(found') = 1 /\ found'[1] = title
      BY <2>1, <1>p, Pairs
    <3> QED BY <3>1, <1>q
  <2>2. CASE found' = <<title, rules>>
    <3>1. /\ found' \in Seq(Topics \X Nat) /\ Len(found') = 2
          /\ found'[1] = title /\ found'[2] = rules
      BY <2>2, <1>p, Pairs
    <3> QED BY <3>1, <1>q
  <2> QED BY <1>4, <2>1, <2>2
<1>7. ContactTyped'
  BY <1>0, <1>6, ContactFacts DEF ContactTyped
<1>8. StagesRight'
  <2>1. Current' = Current /\ (AtContact' <=> AtContact)
    BY <1>0 DEF Current, AtContact
  <2>2. stages # <<"fact">>
    BY <1>0, StageTuples DEF AtContact
  <2> QED BY <1>0, <1>2, <2>1, <2>2 DEF StagesRight, ContactInv
<1>9. JoinsWhole'
  BY <1>0 DEF JoinsWhole, ContactInv
<1>10. ASSUME NEW topic \in Topics
       PROVE  TellsEveryChange(topic)' /\ FoundRight(topic)' /\ NotedRight(topic)'
  <2>0. TellsEveryChange(topic) /\ platform[topic] \in Nat /\ noted[topic] \in Nat
    BY ContactFacts DEF ContactInv
  <2>1. TellsEveryChange(topic)'
    BY <2>0, <1>0, TellsKept, ContactFacts
  <2>2. NotedRight(topic)'
    BY <1>2 DEF NotedRight
  <2>3. Covers(topic, platform[topic])'
    BY <2>0, <1>0, <1>3 DEF Covers, TellsEveryChange
  <2>4. ASSUME NEW i \in 1 .. Len(found'), found'[i][1] = topic
        PROVE  /\ found'[i][2] = platform[topic] /\ platform' = platform
               /\ Covers(topic, found[i][2])'
    <3>1. found'[i][2] = platform[topic]
      BY <2>4, <1>6
    <3> QED BY <3>1, <2>3, <1>0 DEF Covers
  <2>5. Holds(topic)' \/ \E i \in 1 .. Len(found') : found'[i][1] = topic
    <3>1. CASE topic = "title"
      BY <3>1, <1>6, <1>q
    <3>2. CASE topic = "rules" /\ Current.kind # "rules" /\ platform.rules > 0
      <4>1. found'[2] = rules /\ 2 \in 1 .. Len(found')
        BY <3>2, <1>5
      <4> QED BY <3>2, <4>1, <1>q
    <3>3. CASE topic = "rules" /\ Current.kind = "rules"
      <4>1. NextIs(topic)'
        BY <3>3, <1>0, <1>3 DEF NextIs, Current
      <4>2. taken + 1 \in 1 .. Len(updates) /\ taken < taken + 1
        BY <1>3
      <4>3. ~NoneLeft(topic)'
        BY <3>3, <4>2, <1>0 DEF NoneLeft, Current
      <4> QED BY <4>1, <4>3 DEF Holds
    <3>4. CASE topic = "rules" /\ ~(platform.rules > 0)
      <4>1. platform[topic] = 0 /\ noted[topic] = 0
        BY <3>4, <2>0, <1>3, ContactFacts
      <4>2. Covers(topic, noted[topic])'
        BY <4>1, <2>3, <1>0 DEF Covers
      <4> QED BY <4>1, <4>2, <1>0 DEF Holds
    <3> QED BY <3>1, <3>2, <3>3, <3>4, ContactFacts
  <2>6. FoundRight(topic)'
    <3>1. platform[topic] <= platform[topic]
      BY <2>0
    <3> QED BY <2>4, <2>5, <3>1 DEF FoundRight
  <2> QED BY <2>1, <2>2, <2>6
<1> QED BY <1>7, <1>8, <1>9, <1>10 DEF ContactInv

(* The core takes what was found, one note at a time.                         *)
LEMMA ReportKeeps ==
  ASSUME ContactInv, Report
  PROVE  ContactInv'
<1>0. /\ AtContact /\ found # <<>> /\ updates' = updates /\ admitted' = admitted
      /\ retired' = retired /\ cut' = cut
  BY DEF Report, history
<1>1. /\ ContactTyped /\ StagesRight /\ JoinsWhole /\ ~answered
  BY <1>0 DEF ContactInv, StagesRight
<1>2. CASE /\ admitted /\ Note(Head(found)[1], Head(found)[2])
           /\ found' = Tail(found)
           /\ IF Len(found) = 1
              THEN NextStage /\ answered' = TRUE /\ failed' = FALSE
              ELSE UNCHANGED <<taken, saved, stages, answered, failed>>
           /\ UNCHANGED <<platform, withdrawn, faults>>
  <2> DEFINE told  == Head(found)[1]
             value == Head(found)[2]
  <2>1. /\ told \in Topics /\ value \in Nat /\ found[1] = Head(found) /\ 1 \in 1 .. Len(found)
        /\ found[1][1] = told /\ found[1][2] = value
        /\ found' \in Seq(Topics \X Nat) /\ Len(found') = Len(found) - 1 /\ Len(found) \in Nat
        /\ \A i \in 1 .. Len(found') : found'[i] = found[i + 1] /\ i + 1 \in 1 .. Len(found)
        /\ \A i \in 1 .. Len(found) : i = 1 \/ (i - 1 \in 1 .. Len(found') /\ found'[i - 1] = found[i])
    <3>1. found \in Seq(Topics \X Nat) /\ found' = Tail(found)
      BY <1>1, <1>2 DEF ContactTyped
    <3>2. Head(found) \in Topics \X Nat /\ found[1] = Head(found) /\ Len(found) \in Nat /\ Len(found) >= 1
      BY <3>1, <1>0
    <3>3. /\ found' \in Seq(Topics \X Nat) /\ Len(found') = Len(found) - 1
          /\ \A i \in 1 .. Len(found') : found'[i] = found[i + 1]
      BY <3>1, <1>0
    <3> QED BY <3>2, <3>3
  <2> HIDE DEF told, value
  <2>2. /\ noted' = [noted EXCEPT ![told] = value] /\ platform' = platform /\ joined' = joined
        /\ saved' = saved /\ taken < Len(updates)
    BY <1>0, <1>1, <1>2, ContactStage DEF Note, NextStage, told, value
  <2>3. \/ Len(found) # 1 /\ taken' = taken /\ stages' = stages /\ found' # <<>>
        \/ /\ found' = <<>>
           /\ \/ stages' = <<>> /\ taken' = taken + 1 /\ Current.kind = "added"
              \/ stages' = <<"fact">> /\ taken' = taken /\ Current.kind # "added"
    <3>1. CASE Len(found) = 1
      <4>1. NextStage /\ Len(found') = 0
        BY <3>1, <1>2, <2>1
      <4>2. found' = <<>>
        BY <4>1, <2>1
      <4> QED BY <4>1, <4>2, <1>0, <1>1, ContactMade
    <3>2. CASE Len(found) # 1
      <4>1. Len(found') # 0
        BY <3>2, <2>1
      <4>2. found' # <<>>
        BY <4>1
      <4> QED BY <3>2, <4>2, <1>2
    <3> QED BY <3>1, <3>2
  <2>4. IF found' = <<>> THEN answered' ELSE ~answered'
    <3>1. CASE Len(found) = 1
      <4>1. Len(found') = 0
        BY <3>1, <2>1
      <4>2. found' = <<>>
        BY <4>1, <2>1
      <4> QED BY <4>2, <3>1, <1>2
    <3>2. CASE Len(found) # 1
      <4>1. Len(found') # 0
        BY <3>2, <2>1
      <4>2. found' # <<>> /\ answered' = answered
        BY <4>1, <3>2, <1>2
      <4> QED BY <4>2, <1>1
    <3> QED BY <3>1, <3>2
  <2>5. ContactTyped'
    <3>1. noted' \in [Topics -> Nat]
      BY <2>1, <2>2, <1>1 DEF ContactTyped
    <3>2. taken' \in 0 .. Len(updates) /\ saved \in 0 .. taken'
      BY <2>2, <2>3, ContactFacts
    <3> QED BY <3>1, <3>2, <1>0, <1>1, <2>1, <2>2 DEF ContactTyped
  <2>6. StagesRight'
    <3>1. CASE stages' = stages /\ taken' = taken /\ found' # <<>>
      <4>1. Current' = Current /\ (AtContact' <=> AtContact) /\ stages # <<"fact">>
        BY <3>1, <1>0, StageTuples DEF Current, AtContact
      <4>2. ~answered'
        BY <3>1, <2>4
      <4> QED BY <3>1, <4>1, <4>2, <1>0, <1>1 DEF StagesRight
    <3>2. CASE stages' = <<>> /\ found' = <<>>
      BY <3>2, NoStage
    <3>3. CASE stages' = <<"fact">> /\ taken' = taken /\ Current.kind # "added" /\ found' = <<>>
      <4>1. Current' = Current
        BY <3>3, <1>0 DEF Current
      <4>2. answered'
        BY <3>3, <2>4
      <4> QED BY <3>3, <4>1, <4>2, <1>0, <2>2, StageTuples DEF StagesRight
    <3> QED BY <2>3, <3>1, <3>2, <3>3
  <2>7. JoinsWhole'
    BY <1>0, <1>1, <2>2 DEF JoinsWhole
  <2>8. ASSUME NEW topic \in Topics
        PROVE  TellsEveryChange(topic)' /\ FoundRight(topic)' /\ NotedRight(topic)'
    <3>0. /\ TellsEveryChange(topic) /\ FoundRight(topic) /\ platform[topic] \in Nat
          /\ noted[topic] \in Nat /\ noted[topic] <= platform[topic]
          /\ taken \in Nat /\ Len(updates) \in Nat
      BY ContactFacts DEF ContactInv
    <3>1. topic = told => noted'[topic] = value /\ value <= platform[topic]
      BY <2>1, <2>2, <1>1, <3>0 DEF FoundRight, ContactTyped
    <3>2. topic # told => noted'[topic] = noted[topic]
      BY <2>1, <2>2, <1>1 DEF ContactTyped
    <3>3. TellsEveryChange(topic)'
      BY <3>0, <3>1, <3>2, <2>2, <1>0, TellsKept
    <3>4. taken' = taken \/ (taken' = taken + 1 /\ Current.kind # topic)
      BY <2>3, ContactFacts
    <3>5. topic = told /\ ~retired => Holds(topic)'
      <4>1. SUFFICES ASSUME topic = told PROVE Holds(topic)'
        OBVIOUS
      <4>2. noted'[topic] = value /\ Covers(topic, value) /\ (NoneLeft(topic) => value = platform[topic])
        BY <4>1, <3>0, <3>1, <2>1 DEF FoundRight
      <4>3. NoneLeft(topic)' => NoneLeft(topic)
        BY <3>0, <3>4, <2>2, <1>0 DEF NoneLeft, Current
      <4>4. Covers(topic, noted[topic])'
        BY <4>2, <3>0, <3>4, <2>2, <1>0 DEF Covers, Current
      <4> QED BY <4>2, <4>3, <4>4, <2>2 DEF Holds
    <3>6. Holds(topic) /\ topic # told => Holds(topic)'
      <4>1. topic # told => Steady(topic)
        BY <3>2, <3>4, <2>2, <1>0 DEF Steady
      <4> QED BY <4>1, <1>1, HoldsKept
    <3>7. topic # told =>
            \A i \in 1 .. Len(found) : found[i][1] = topic =>
               \E j \in 1 .. Len(found') : found'[j][1] = topic
      BY <2>1
    <3>8. ~retired => Holds(topic)' \/ \E j \in 1 .. Len(found') : found'[j][1] = topic
      BY <3>0, <3>5, <3>6, <3>7, <1>0 DEF FoundRight
    <3>9. FoundRight(topic)'
      <4>1. CASE found' = <<>>
        BY <4>1 DEF FoundRight
      <4>2. CASE taken' = taken
        <5>1. ASSUME NEW i \in 1 .. Len(found'), found'[i][1] = topic
              PROVE  /\ found'[i][2] <= platform'[topic]
                     /\ KnownFirst(topic) <= found'[i][2]
                     /\ \A k \in 1 .. taken' : updates'[k].kind = topic =>
                           updates'[k].value <= found'[i][2]
                     /\ NoneLeft(topic)' => found'[i][2] = platform'[topic]
          <6>1. /\ found[i + 1][2] <= platform[topic]
                /\ Covers(topic, found[i + 1][2])
                /\ NoneLeft(topic) => found[i + 1][2] = platform[topic]
            BY <5>1, <2>1, <3>0 DEF FoundRight
          <6>2. NoneLeft(topic)' => NoneLeft(topic)
            BY <4>2, <1>0 DEF NoneLeft
          <6>3. found'[i] = found[i + 1]
            BY <2>1
          <6> QED BY <6>1, <6>2, <6>3, <4>2, <1>0, <2>2 DEF Covers
        <5> QED BY <5>1, <3>8, <1>0 DEF FoundRight, Covers
      <4> QED BY <4>1, <4>2, <2>3
    <3>10. NotedRight(topic)'
      <4>1. CASE found' = <<>>
        <5>1. ~retired => Holds(topic)'
          BY <4>1, <3>8
        <5> QED BY <5>1, <1>0 DEF NotedRight
      <4>2. CASE found' # <<>>
        BY <4>2, <2>4 DEF NotedRight
      <4> QED BY <4>1, <4>2
    <3> QED BY <3>3, <3>9, <3>10
  <2> QED BY <2>5, <2>6, <2>7, <2>8 DEF ContactInv
<1>3. CASE /\ ~admitted /\ LeaveGroup /\ Acknowledged
           /\ answered' = TRUE /\ failed' = FALSE
           /\ UNCHANGED record
  <2>1. /\ stages' = <<>> /\ found' = <<>> /\ taken' = taken + 1 /\ saved' = saved
        /\ noted' = noted /\ joined' = joined /\ ~admitted'
    BY <1>0, <1>3 DEF Acknowledged, record
  <2>2. taken < Len(updates)
    BY <1>0, <1>1, ContactStage
  <2>3. /\ platform' \in [title : Nat, rules : Nat, member : BOOLEAN]
        /\ \A topic \in Topics : platform'[topic] = platform[topic]
    BY <1>3, LeaveShows
  <2>4. StagesRight' /\ JoinsWhole'
    BY <1>0, <1>1, <2>1, NoStage DEF JoinsWhole
  <2>5. ContactTyped'
    BY SMTT(30), <1>0, <2>1, <2>2, <2>3, ContactFacts DEF ContactTyped
  <2> QED BY <1>0, <2>1, <2>3, <2>4, <2>5, ContactFacts, ContactKept
<1>4. CASE Halted /\ UNCHANGED <<platform, memories, record>>
  <2>1. /\ stages' = <<>> /\ found' = <<>> /\ taken' = taken /\ saved' = saved
        /\ noted' = noted /\ joined' = joined /\ platform' = platform
        /\ answered' = answered
    BY <1>4 DEF Halted, record, memories
  <2>2. ~answered'
    BY <2>1, <1>1
  <2>3. StagesRight' /\ JoinsWhole' /\ ContactTyped'
    BY <1>0, <1>1, <2>1, NoStage DEF JoinsWhole, ContactTyped
  <2> QED BY <1>0, <2>1, <2>2, <2>3, ContactFacts, ContactKept
<1> QED BY <1>2, <1>3, <1>4 DEF Report

(* Where an update is over, whatever it left of the group.                    *)
LEMMA UpdateOver ==
  ASSUME ContactInv, stages' = <<>>, found' = <<>>, updates' = updates,
         taken' \in 0 .. Len(updates), saved' \in 0 .. taken',
         platform' \in [title : Nat, rules : Nat, member : BOOLEAN],
         \A topic \in Topics : platform'[topic] = platform[topic],
         noted' \in [Topics -> Nat], \A topic \in Topics : noted'[topic] <= platform[topic],
         joined' \in [1 .. MaxUpdates -> Nat], JoinsWhole',
         admitted' /\ answered' /\ ~retired' =>
             admitted /\ answered /\ ~retired /\ \A topic \in Topics : Steady(topic)
  PROVE  ContactInv'
<1>1. ContactTyped'
  BY ContactFacts DEF ContactTyped
<1>2. StagesRight'
  BY NoStage
<1> QED BY <1>1, <1>2, ContactKept

LEMMA AddedKeeps ==
  ASSUME ContactInv, Added
  PROVE  ContactInv'
<1>0. /\ AtFact({"added"}) /\ updates' = updates
      /\ noted' = noted /\ joined' = joined /\ cut' = cut /\ retired' = retired
  BY DEF Added, record, history
<1>1. /\ stages = <<"fact", "contact">> /\ Current.kind = "added" /\ taken < Len(updates) /\ found = <<>>
  BY <1>0, FactStage DEF ContactInv
<1>2. JoinsWhole'
  BY <1>0 DEF ContactInv, JoinsWhole
<1>3. CASE /\ admitted' = TRUE
           /\ Void /\ withdrawn' = FALSE
           /\ NextStage
           /\ UNCHANGED <<platform, found, faults>>
  <2>1. stages' = <<"contact">> /\ taken' = taken /\ saved' = saved
    BY <1>1, <1>3, StageTuples DEF NextStage
  <2>2. platform' = platform /\ found' = found /\ ~answered'
    BY <1>3 DEF Void
  <2>3. ContactTyped'
    BY <1>0, <2>1, <2>2, ContactFacts DEF ContactTyped
  <2>4. Current' = Current
    BY <1>0, <2>1 DEF Current
  <2>5. StagesRight'
    BY <1>0, <1>1, <2>1, <2>2, <2>4, StageTuples DEF StagesRight
  <2> QED BY <1>0, <1>1, <1>2, <2>1, <2>2, <2>3, <2>5, ContactFacts, ContactKept
<1>4. CASE LeaveGroup /\ Acknowledged /\ UNCHANGED <<answered, failed, admitted>>
  <2>1. stages' = <<>> /\ found' = <<>> /\ taken' = taken + 1 /\ saved' = saved
    BY <1>4 DEF Acknowledged
  <2>2. /\ platform' \in [title : Nat, rules : Nat, member : BOOLEAN]
        /\ \A topic \in Topics : platform'[topic] = platform[topic]
    BY <1>4, LeaveShows
  <2>3. admitted' = admitted /\ answered' = answered
    BY <1>4
  <2>4. \A topic \in Topics : Steady(topic)
    BY <1>0, <1>1, <2>1, <2>2 DEF Steady, Topics
  <2>5. taken' \in 0 .. Len(updates) /\ saved' \in 0 .. taken'
    BY <1>1, <2>1, ContactFacts
  <2> QED BY <1>0, <1>2, <2>1, <2>2, <2>3, <2>4, <2>5, ContactFacts, UpdateOver
<1>5. CASE Halted /\ UNCHANGED <<platform, memories, admitted>>
  <2>1. /\ stages' = <<>> /\ found' = <<>> /\ taken' = taken /\ saved' = saved
        /\ platform' = platform /\ admitted' = admitted /\ answered' = answered
    BY <1>5 DEF Halted, memories
  <2>2. \A topic \in Topics : Steady(topic)
    BY <1>0, <2>1 DEF Steady
  <2>3. taken' \in 0 .. Len(updates) /\ saved' \in 0 .. taken'
    BY <2>1, ContactFacts
  <2> QED BY <1>0, <1>2, <2>1, <2>2, <2>3, ContactFacts, UpdateOver
<1> QED BY <1>0, <1>3, <1>4, <1>5 DEF Added

(* What is refused, or fails, or is no news of the group's title and rules.   *)
LEMMA TakenOverKeeps ==
  ASSUME ContactInv, AtFact({"title", "rules", "join", "message", "wipe"}),
         stages' = <<>>, found' = <<>>, updates' = updates, saved' = saved,
         taken' = taken \/ (taken' = taken + 1 /\ (Current.kind \notin Topics \/ ~admitted)),
         platform' \in [title : Nat, rules : Nat, member : BOOLEAN],
         \A topic \in Topics : platform'[topic] = platform[topic],
         noted' = noted, admitted' = admitted, answered' = answered, retired' = retired,
         joined' \in [1 .. MaxUpdates -> Nat], JoinsWhole'
  PROVE  ContactInv'
<1>1. taken < Len(updates)
  BY FactStage DEF ContactInv
<1>2. taken' \in 0 .. Len(updates) /\ saved' \in 0 .. taken'
  BY <1>1, ContactFacts
<1>3. admitted => \A topic \in Topics : Steady(topic)
  BY <1>1 DEF Steady
<1>4. admitted' /\ answered' /\ ~retired' =>
        admitted /\ answered /\ ~retired /\ \A topic \in Topics : Steady(topic)
  BY <1>3
<1> QED BY <1>2, <1>4, ContactFacts, UpdateOver

LEMMA RefusedKeeps ==
  ASSUME ContactInv, Refused \/ FactFails \/ IngestMessage
  PROVE  ContactInv'
<1>1. /\ updates' = updates /\ admitted' = admitted /\ answered' = answered
      /\ noted' = noted /\ joined' = joined /\ cut' = cut /\ retired' = retired
  BY DEF Refused, FactFails, IngestMessage, record, history, memories
<1>2. JoinsWhole' /\ joined' \in [1 .. MaxUpdates -> Nat]
  BY <1>1, ContactFacts DEF JoinsWhole
<1>3. AtFact({"title", "rules", "join", "message", "wipe"})
  BY DEF Refused, FactFails, IngestMessage, AtFact
<1>4. /\ stages' = <<>> /\ found' = <<>> /\ saved' = saved
      /\ taken' = taken \/ (taken' = taken + 1 /\ (Current.kind \notin Topics \/ ~admitted))
  <2>1. CASE Refused
    BY <2>1 DEF Refused, Acknowledged
  <2>2. CASE FactFails
    BY <2>2 DEF FactFails, Halted
  <2>3. CASE IngestMessage
    BY <2>3 DEF IngestMessage, Acknowledged, AtFact, Topics
  <2> QED BY <2>1, <2>2, <2>3
<1>5. /\ platform' \in [title : Nat, rules : Nat, member : BOOLEAN]
      /\ \A topic \in Topics : platform'[topic] = platform[topic]
  <2>1. CASE Refused
    BY <2>1, LeaveShows DEF Refused
  <2>2. platform' = platform \/ Refused
    BY DEF FactFails, IngestMessage
  <2> QED BY <2>1, <2>2, ContactFacts
<1> QED BY <1>1, <1>2, <1>3, <1>4, <1>5, TakenOverKeeps

LEMMA RecordJoinKeeps ==
  ASSUME ContactInv, RecordJoinEvent
  PROVE  ContactInv'
<1>0. /\ AtFact({"join"}) /\ noted' = noted /\ platform' = platform /\ updates' = updates
      /\ admitted' = admitted /\ answered' = answered /\ retired' = retired
  BY DEF RecordJoinEvent, memories
<1>1. AtFact({"title", "rules", "join", "message", "wipe"}) /\ Current.kind \notin Topics
  BY <1>0 DEF AtFact, Topics
<1>2. /\ stages' = <<>> /\ found' = <<>> /\ saved' = saved
      /\ taken' = taken \/ taken' = taken + 1
  BY DEF RecordJoinEvent, Acknowledged, Halted
<1>3. /\ joined \in [1 .. MaxUpdates -> Nat] /\ JoinsWhole /\ Joiners \in Nat
      /\ taken + 1 \in 1 .. MaxUpdates
  <2>1. taken < Len(updates)
    BY <1>0, FactStage DEF ContactInv
  <2>2. joined \in [1 .. MaxUpdates -> Nat] /\ JoinsWhole
    BY ContactFacts
  <2>3. taken \in Nat /\ Len(updates) \in Nat /\ Len(updates) <= MaxUpdates
    BY ContactFacts
  <2>4. Joiners \in Nat /\ MaxUpdates \in Nat
    BY ContactAssumption
  <2>5. taken + 1 \in 1 .. MaxUpdates
    BY <2>1, <2>3, <2>4
  <2> QED BY <2>2, <2>4, <2>5
<1>4. joined' \in [1 .. MaxUpdates -> Nat] /\ JoinsWhole'
  <2>1. CASE joined' = joined /\ cut' = cut
    BY <2>1, <1>3 DEF JoinsWhole
  <2>2. CASE joined' = [joined EXCEPT ![taken + 1] = Joiners] /\ cut' = cut
    BY <2>2, <1>3 DEF JoinsWhole
  <2>3. ASSUME NEW count \in 1 .. Joiners - 1, joined' = [joined EXCEPT ![taken + 1] = count],
               cut' = cut \cup {taken + 1}
        PROVE  joined' \in [1 .. MaxUpdates -> Nat] /\ JoinsWhole'
    BY <2>3, <1>3 DEF JoinsWhole
  <2>4. CASE RecordJoins(taken + 1, Joiners) /\ cut' = cut
    BY <2>4, <2>1, <2>2 DEF RecordJoins
  <2>5. CASE /\ ~EventRecorded(taken + 1) /\ cut' = cut \cup {taken + 1}
             /\ \E count \in 1 .. Joiners - 1 : RecordJoins(taken + 1, count)
    <3>1. PICK count \in 1 .. Joiners - 1 : RecordJoins(taken + 1, count)
      BY <2>5
    <3>2. joined' = [joined EXCEPT ![taken + 1] = count]
      BY <2>5, <3>1 DEF RecordJoins
    <3> QED BY <2>5, <3>2, <2>3
  <2> QED BY <2>4, <2>5 DEF RecordJoinEvent
<1> QED BY <1>0, <1>1, <1>2, <1>4, ContactFacts, TakenOverKeeps

LEMMA ObserveKeeps ==
  ASSUME ContactInv, Observe
  PROVE  ContactInv'
<1>0. /\ AtFact(Topics) /\ updates' = updates /\ platform' = platform /\ joined' = joined
      /\ noted' = [noted EXCEPT ![Current.kind] = Current.value]
      /\ stages' = <<>> /\ found' = <<>> /\ taken' = taken + 1 /\ saved' = saved
      /\ admitted' = admitted /\ answered' = answered /\ retired' = retired /\ cut' = cut
  BY DEF Observe, Note, Acknowledged, memories, history
<1>1. /\ taken < Len(updates) /\ Current.kind \in Topics
  BY <1>0, FactStage DEF ContactInv
<1>2. /\ taken + 1 \in 1 .. Len(updates) /\ Current \in GroupUpdate /\ Current.value \in Nat
      /\ \A i \in 1 .. Len(updates) : updates[i].value \in Nat
  <2>1. taken + 1 \in 1 .. Len(updates) /\ \A i \in 1 .. Len(updates) : updates[i] \in GroupUpdate
    BY <1>1, ContactFacts
  <2> QED BY <2>1 DEF GroupUpdate, Current
<1>3. StagesRight' /\ JoinsWhole'
  BY <1>0, NoStage, ContactFacts DEF JoinsWhole
<1>4. noted' \in [Topics -> Nat] /\ noted'[Current.kind] = Current.value
      /\ \A topic \in Topics : topic # Current.kind => noted'[topic] = noted[topic]
  BY <1>0, <1>1, <1>2, ContactFacts
<1>5. ContactTyped'
  BY <1>0, <1>1, <1>4, ContactFacts DEF ContactTyped
<1>6. ASSUME NEW topic \in Topics
      PROVE  TellsEveryChange(topic)' /\ FoundRight(topic)' /\ NotedRight(topic)'
  <2>0. /\ TellsEveryChange(topic) /\ NotedRight(topic) /\ platform[topic] \in Nat
        /\ noted[topic] \in Nat /\ noted[topic] <= platform[topic]
        /\ taken \in Nat /\ Len(updates) \in Nat /\ KnownFirst(topic) \in Nat
    BY ContactFacts DEF ContactInv, KnownFirst
  <2>1. Current.kind = topic =>
          /\ KnownFirst(topic) < Current.value /\ Current.value <= platform[topic]
          /\ \A j \in 1 .. Len(updates) : updates[j].kind = topic /\ j < taken + 1 =>
                updates[j].value < Current.value
          /\ (\A j \in 1 .. Len(updates) : taken + 1 < j => updates[j].kind # topic) =>
                Current.value = platform[topic]
    BY <1>2, <2>0 DEF TellsEveryChange, Current
  <2>2. TellsEveryChange(topic)'
    BY <1>0, <1>4, <2>0, <2>1, TellsKept
  <2>3. CASE Current.kind = topic
    <3>1. Covers(topic, noted[topic])'
      <4>1. noted'[topic] = Current.value
        BY <2>3, <1>4
      <4>2. ASSUME NEW i \in 1 .. taken + 1, updates[i].kind = topic PROVE updates[i].value <= Current.value
        <5>1. CASE i = taken + 1
          BY <5>1, <1>2 DEF Current
        <5>2. CASE i # taken + 1
          <6>1. i \in 1 .. Len(updates) /\ i < taken + 1
            BY <5>2, <1>2, <2>0
          <6> QED BY <6>1, <4>2, <2>1, <2>3, <1>2
        <5> QED BY <5>1, <5>2
      <4> QED BY <4>1, <4>2, <1>0, <1>2, <2>0, <2>1, <2>3 DEF Covers
    <3>2. NoneLeft(topic)' => noted'[topic] = platform'[topic]
      BY <1>0, <1>4, <2>1, <2>3 DEF NoneLeft
    <3>3. Holds(topic)'
      BY <3>1, <3>2 DEF Holds
    <3> QED BY <3>3, <2>2, <1>0 DEF NotedRight, FoundRight
  <2>4. CASE Current.kind # topic
    <3>1. Steady(topic)
      BY <1>0, <1>1, <1>4, <2>4 DEF Steady
    <3>2. NotedRight(topic)'
      BY <3>1, <1>0, <2>0, HoldsKept, ContactFacts DEF NotedRight
    <3> QED BY <3>2, <2>2, <1>0 DEF FoundRight
  <2> QED BY <2>3, <2>4
<1> QED BY <1>3, <1>5, <1>6 DEF ContactInv

LEMMA WipeKeeps ==
  ASSUME ContactInv, Wipe
  PROVE  ContactInv'
<1>0. /\ AtFact({"wipe"}) /\ updates' = updates /\ platform' = platform
      /\ noted' = NoNotes /\ joined' = NoJoins /\ ~answered'
      /\ stages' = <<>> /\ found' = <<>> /\ taken' = taken + 1 /\ saved' = saved
  BY DEF Wipe, Acknowledged, Replaced, Void
<1>1. taken < Len(updates)
  BY <1>0, FactStage DEF ContactInv
<1>2. /\ noted' \in [Topics -> Nat] /\ \A topic \in Topics : noted'[topic] <= platform[topic]
      /\ joined' \in [1 .. MaxUpdates -> Nat]
  BY <1>0, ContactFacts DEF NoNotes, NoJoins
<1>3. JoinsWhole'
  BY <1>0 DEF NoJoins, JoinsWhole
<1>4. taken' \in 0 .. Len(updates) /\ saved' \in 0 .. taken'
  BY <1>0, <1>1, ContactFacts
<1> QED BY <1>0, <1>2, <1>3, <1>4, ContactFacts, UpdateOver

LEMMA AroundKeeps ==
  ASSUME ContactInv, SaveOffset \/ Restart \/ RestEnds \/ ExpireSession
  PROVE  ContactInv'
<1>1. CASE SaveOffset \/ RestEnds
  <2>1. /\ stages = <<>> /\ stages' = <<>> /\ found' = found /\ updates' = updates /\ taken' = taken
        /\ platform' = platform /\ noted' = noted /\ joined' = joined /\ cut' = cut
        /\ admitted' = admitted /\ answered' = answered /\ retired' = retired
        /\ saved' = saved \/ saved' = taken
    BY <1>1 DEF SaveOffset, RestEnds, progress, record, memories, history
  <2>2. found = <<>>
    BY <2>1 DEF ContactInv, StagesRight, AtContact
  <2>3. JoinsWhole' /\ \A topic \in Topics : Steady(topic)
    BY <2>1 DEF ContactInv, JoinsWhole, Steady
  <2>4. taken' \in 0 .. Len(updates) /\ saved' \in 0 .. taken'
    BY <2>1, ContactFacts
  <2> QED BY <2>1, <2>2, <2>3, <2>4, ContactFacts, UpdateOver
<1>2. CASE Restart
  <2>1. /\ stages' = <<>> /\ found' = <<>> /\ updates' = updates /\ taken' = saved /\ saved' = saved
        /\ platform' = platform /\ noted' = noted /\ joined' = joined /\ cut' = cut
        /\ ~answered'
    BY <1>2 DEF Restart, record, history
  <2>2. JoinsWhole'
    BY <2>1 DEF ContactInv, JoinsWhole
  <2>3. taken' \in 0 .. Len(updates) /\ saved' \in 0 .. taken'
    BY <2>1, ContactFacts
  <2> QED BY <2>1, <2>2, <2>3, ContactFacts, UpdateOver
<1>3. CASE ExpireSession
  <2>1. /\ stages' = stages /\ found' = found /\ updates' = updates /\ taken' = taken /\ saved' = saved
        /\ platform' = platform /\ noted' = NoNotes /\ joined' = NoJoins
        /\ answered' = answered /\ failed' = failed /\ retired'
    BY <1>3 DEF ExpireSession, progress, memories
  <2>2. /\ noted' \in [Topics -> Nat] /\ \A topic \in Topics : noted'[topic] <= platform[topic]
        /\ joined' \in [1 .. MaxUpdates -> Nat]
    BY <2>1, ContactFacts DEF NoNotes, NoJoins
  <2>3. JoinsWhole'
    BY <2>1 DEF NoJoins, JoinsWhole
  <2>4. ContactTyped'
    BY <2>1, <2>2, ContactFacts DEF ContactTyped
  <2>5. StagesRight'
    BY <2>1, ContactFacts DEF StagesRight, Current, AtContact
  <2> QED BY <2>1, <2>2, <2>3, <2>4, <2>5, ContactFacts, ContactKept
<1> QED BY <1>1, <1>2, <1>3

LEMMA ContactPreserved == ContactInv /\ [ContactNext]_contactVars => ContactInv'
<1> SUFFICES ASSUME ContactInv, [ContactNext]_contactVars PROVE ContactInv'
  OBVIOUS
<1>1. CASE AddsBot \/ (\E topic \in Topics : Changes(topic)) \/ Speaks
  BY <1>1, PlatformKeeps
<1>2. CASE TakeNext
  BY <1>2, TakeNextKeeps
<1>3. CASE ContactSkipped \/ LookupFails
  BY <1>3, ContactOverKeeps DEF ContactSkipped, LookupFails
<1>4. CASE Lookup
  BY <1>4, LookupKeeps
<1>5. CASE Report
  BY <1>5, ReportKeeps
<1>6. CASE Added
  BY <1>6, AddedKeeps
<1>7. CASE Refused \/ FactFails \/ IngestMessage
  BY <1>7, RefusedKeeps
<1>8. CASE Observe
  BY <1>8, ObserveKeeps
<1>9. CASE RecordJoinEvent
  BY <1>9, RecordJoinKeeps
<1>10. CASE Wipe
  BY <1>10, WipeKeeps
<1>11. CASE SaveOffset \/ Restart \/ RestEnds \/ ExpireSession
  BY <1>11, AroundKeeps
<1>12. CASE UNCHANGED contactVars
  <2>1. /\ platform' = platform /\ updates' = updates /\ taken' = taken /\ saved' = saved
        /\ stages' = stages /\ found' = found /\ answered' = answered /\ failed' = failed
        /\ noted' = noted /\ joined' = joined /\ cut' = cut
        /\ retired' = retired /\ admitted' = admitted
    BY <1>12 DEF contactVars, progress, memories, record, history
  <2>2. ContactTyped' /\ StagesRight' /\ JoinsWhole'
    BY <2>1 DEF ContactInv, ContactTyped, StagesRight, JoinsWhole, Current, AtContact
  <2>3. \A topic \in Topics : Steady(topic)
    BY <2>1 DEF Steady
  <2> QED BY <2>1, <2>2, <2>3, ContactFacts, ContactKept
<1> QED BY <1>1, <1>2, <1>3, <1>4, <1>5, <1>6, <1>7, <1>8, <1>9, <1>10, <1>11, <1>12 DEF ContactNext

LEMMA ContactAlways == ContactSpec => []ContactInv
BY ContactStarts, ContactPreserved, PTL DEF ContactSpec

LEMMA InvAgrees == ContactInv => NotesAgree
<1> SUFFICES ASSUME ContactInv PROVE NotesAgree
  OBVIOUS
<1>1. ASSUME taken = Len(updates), admitted, answered, ~retired, NEW topic \in Topics
      PROVE  noted[topic] = platform[topic]
  <2>1. NoneLeft(topic)
    BY <1>1, ContactFacts DEF NoneLeft
  <2>2. Holds(topic)
    BY <1>1 DEF ContactInv, NotedRight
  <2> QED BY <2>1, <2>2 DEF Holds
<1>2. \A i \in 1 .. taken : \/ joined[i] \in {0, Joiners}
                            \/ i \in cut /\ joined[i] < Joiners
  <2>1. \A i \in 1 .. taken : i \in 1 .. MaxUpdates
    BY ContactFacts, ContactAssumption
  <2> QED BY <2>1, ContactFacts DEF JoinsWhole
<1> QED BY <1>1, <1>2 DEF NotesAgree

(* Once every update is taken, a session that was looked up for shows what    *)
(* the platform shows, and a join event left all of its notices or none,      *)
(* whatever was redelivered, wiped, retired or looked up in between.          *)
THEOREM NotesTellTheGroup == ContactSpec => []NotesAgree
<1>1. ContactInv => NotesAgree
  BY InvAgrees
<1> QED BY <1>1, ContactAlways, PTL

LEMMA LastToldIs ==
  ASSUME ContactInv, NEW topic \in Topics
  PROVE  \/ LastTold(topic) = KnownFirst(topic)
         \/ \E i \in 1 .. taken : updates[i].kind = topic /\ LastTold(topic) = updates[i].value
<1> DEFINE told == {i \in 1 .. taken : updates[i].kind = topic}
<1>1. CASE told = {}
  BY <1>1 DEF LastTold, KnownFirst
<1>2. CASE told # {}
  <2>0. told \subseteq 1 .. taken /\ taken \in Nat
    BY ContactFacts
  <2>1. \E i \in told : \A j \in told : j <= i
    <3> HIDE DEF told
    <3> QED BY <2>0, <1>2, LastExists
  <2>2. LastTold(topic) = updates[CHOOSE i \in told : \A j \in told : j <= i].value
    BY <1>2 DEF LastTold
  <2>3. (CHOOSE i \in told : \A j \in told : j <= i) \in told
    <3> HIDE DEF told
    <3> QED BY <2>1
  <2> QED BY <2>2, <2>3
<1> QED BY <1>1, <1>2

LEMMA TakesOwn ==
  ASSUME ContactInv, ContactNext, MessageTaken
  PROVE  HoldsTheRules \/ retired
<1>1. AtFact({"message"}) /\ taken' = taken + 1 /\ admitted /\ ~failed
  BY DEF MessageTaken
<1>2. taken < Len(updates) /\ Current.kind = "message" /\ (answered \/ failed)
  BY <1>1, FactStage DEF ContactInv
<1>3. answered
  BY <1>1, <1>2
<1>4. ASSUME ~retired, NEW topic \in Topics
      PROVE  noted[topic] >= LastTold(topic)
  <2>1. Holds(topic) /\ ~NextIs(topic)
    BY <1>1, <1>2, <1>3, <1>4 DEF ContactInv, NotedRight, NextIs, Topics
  <2>2. Covers(topic, noted[topic]) /\ noted[topic] \in Nat
    BY <2>1, ContactFacts DEF Holds
  <2> QED BY <2>2, LastToldIs DEF Covers
<1> QED BY <1>4 DEF HoldsTheRules

(* No message is taken ahead of the title and the rules its group told of     *)
(* before it, unless the lookup failed or retention took the session.         *)
THEOREM RulesComeFirst == ContactSpec => RulesAheadOfMessages
<1>1. ContactInv /\ [ContactNext]_contactVars => [MessageTaken => HoldsTheRules \/ retired]_contactVars
  BY TakesOwn
<1> QED BY <1>1, ContactAlways, PTL DEF ContactSpec, RulesAheadOfMessages

-----------------------------------------------------------------------------
\* Deployments: what a session knows of the deployment that serves it.


(* A ledger on its own.                                                       *)
NewestRow(l, r) ==
    \E i \in DOMAIN l : /\ l[i] = r /\ r.kind = "choice"
                        /\ \A j \in DOMAIN l : l[j].kind = "choice" => j <= i

OneOf(l, kind) ==
    \A i, j \in DOMAIN l : l[i].kind = kind /\ l[j].kind = kind => i = j

Shaped(l) ==
    /\ l \in Seq(LedgerRows) /\ l # <<>>
    /\ OneOf(l, "prompt") /\ OneOf(l, "notice")
    /\ \A i, j \in DOMAIN l : l[i].kind = "relayed" /\ l[j].kind = "notice" => i < j

NoneRelayed(l) == \A i \in DOMAIN l : l[i].kind # "relayed"
Noticed(l) == \E j \in DOMAIN l : l[j].kind = "notice"

(* Where the older contract was recorded.                                     *)
Ordered(l) ==
    \A i, k \in DOMAIN l :
        l[i].kind = "relayed" /\ l[k].kind = "said" /\ l[k].of > MaxSays /\ i < k =>
            \E j \in DOMAIN l : l[j].kind = "notice" /\ i < j /\ j < k

Owed(l) == NoneRelayed(l) \/ Noticed(l) \/ NewestRow(l, OlderChoice)

(* Where it was not.                                                          *)
Plain(l) == \A i \in DOMAIN l : l[i] # OlderChoice /\ l[i].kind # "notice"

DeployTyped ==
    /\ ledgers \in Seq(Seq(LedgerRows)) /\ Len(ledgers) >= 1
    /\ served \in 0 .. Len(ledgers) /\ successor \in 0 .. Len(ledgers)
    /\ startup \in {"down", "walking", "cloning", "composed", "unmapped", "serving"}
    /\ within \in {"none", "choice", "message"}
    /\ says \in Nat /\ wording \in Nat
    /\ reconciled \subseteq 1 .. Len(ledgers)

(* The walk: what it is composing has the current prompt, and nobody else.    *)
WalkRight ==
    /\ startup \in {"cloning", "composed", "unmapped"} =>
           /\ successor \in 2 .. Len(ledgers) /\ successor \notin reconciled
           /\ ledgers[successor][1] = Prompt(wording)
    /\ startup \in {"cloning", "composed"} => served # 0 /\ served # successor
    /\ startup = "cloning" => ledgers[successor] = <<Prompt(wording)>>
    /\ startup = "unmapped" => served = 0
    /\ startup = "serving" /\ served # 0 => ledgers[served][1] = Prompt(wording)
    /\ within # "none" => startup = "serving" /\ served # 0

(* A prompt further in is in the first ledger alone, as it was found.         *)
Misplaced(c) == \E i \in DOMAIN ledgers[c] : i # 1 /\ ledgers[c][i].kind = "prompt"

LedgersShaped ==
    \A c \in DOMAIN ledgers :
        /\ Shaped(ledgers[c])
        /\ Misplaced(c) => c = 1 /\ ledgers[1] \in Ledgers

WordsStand ==
    /\ served # 0 =>
           \A c \in DOMAIN ledgers : WordsIn(c) \subseteq WordsIn(served) \cup leftBehind
    /\ startup \in {"composed", "unmapped"} =>
           \A c \in DOMAIN ledgers : WordsIn(c) \subseteq WordsIn(successor) \cup leftBehind
    /\ served = 0 /\ startup # "unmapped" =>
           \A c \in DOMAIN ledgers : WordsIn(c) \subseteq leftBehind

OlderRecorded == OlderChoice \in RowsOf(1)

ContractsStand ==
    /\ OlderRecorded => \A c \in DOMAIN ledgers : Ordered(ledgers[c]) /\ Owed(ledgers[c])
    /\ ~OlderRecorded => \A c \in DOMAIN ledgers : Plain(ledgers[c])
    /\ \A c \in reconciled : NewestRow(ledgers[c], SendingChoice)
    /\ within = "message" => served \in reconciled
    /\ within = "choice" => Noticed(ledgers[served])

DeployInv == DeployTyped /\ WalkRight /\ LedgersShaped /\ WordsStand /\ ContractsStand

-----------------------------------------------------------------------------
(* Rows.                                                                      *)

LEMMA RowIs ==
  /\ \A w \in Nat : Prompt(w) \in LedgerRows /\ Prompt(w).kind = "prompt" /\ Prompt(w).retold = {}
  /\ SendingChoice \in LedgerRows /\ OlderChoice \in LedgerRows /\ Notice \in LedgerRows
  /\ SendingChoice.kind = "choice" /\ OlderChoice.kind = "choice" /\ Notice.kind = "notice"
  /\ SendingChoice # OlderChoice /\ SendingChoice.retold = {} /\ Notice.retold = {}
  /\ \A n \in Nat : SaidRow(n) \in LedgerRows /\ SaidRow(n).kind = "said"
  /\ \A R \in SUBSET WordRows :
        Digest(R) \in LedgerRows /\ Digest(R).kind = "digest" /\ Digest(R).retold = R
  /\ \A r \in LedgerRows : /\ r.kind = "choice" => r \in {SendingChoice, OlderChoice}
                           /\ r.kind = "notice" => r = Notice
                           /\ IsWords(r) => r \in WordRows
                           /\ r.retold \subseteq WordRows
<1>1. \A w \in Nat : Prompt(w) \in LedgerRows /\ Prompt(w).kind = "prompt" /\ Prompt(w).retold = {}
  BY DEF Prompt, Row, LedgerRows
<1>2. /\ SendingChoice \in LedgerRows /\ OlderChoice \in LedgerRows /\ Notice \in LedgerRows
      /\ SendingChoice.kind = "choice" /\ OlderChoice.kind = "choice" /\ Notice.kind = "notice"
      /\ SendingChoice # OlderChoice /\ SendingChoice.retold = {} /\ Notice.retold = {}
      /\ OlderChoice.retold = {}
  <2>1. SendingChoice.of = 1 /\ OlderChoice.of = 0
    BY DEF SendingChoice, OlderChoice, Row
  <2>2. /\ SendingChoice \in LedgerRows /\ OlderChoice \in LedgerRows /\ Notice \in LedgerRows
    BY DEF LedgerRows
  <2> QED BY <2>1, <2>2 DEF SendingChoice, OlderChoice, Notice, Row
<1>3. \A n \in Nat : SaidRow(n) \in LedgerRows /\ SaidRow(n).kind = "said"
  BY DEF SaidRow, Row, LedgerRows, WordRows
<1>4. ASSUME NEW R \in SUBSET WordRows
      PROVE  Digest(R) \in LedgerRows /\ Digest(R).kind = "digest" /\ Digest(R).retold = R
  <2>1. Digest(R) = [kind |-> "digest", of |-> 0, retold |-> R]
    BY DEF Digest, Row
  <2> QED BY <2>1 DEF LedgerRows
<1>5. ASSUME NEW r \in LedgerRows
      PROVE  /\ r.kind = "choice" => r \in {SendingChoice, OlderChoice}
             /\ r.kind = "notice" => r = Notice
             /\ IsWords(r) => r \in WordRows
             /\ r.retold \subseteq WordRows
  <2>1. CASE r \in WordRows
    BY <2>1 DEF WordRows
  <2>2. CASE r \in {SendingChoice, OlderChoice, Notice}
    BY <2>2, <1>2 DEF IsWords
  <2>3. CASE r \in [kind : {"prompt"}, of : Nat, retold : {{}}]
    BY <2>3 DEF IsWords
  <2>4. CASE r \in [kind : {"digest"}, of : {0}, retold : SUBSET WordRows]
    BY <2>4 DEF IsWords
  <2> QED BY <2>1, <2>2, <2>3, <2>4 DEF LedgerRows
<1> QED BY <1>1, <1>2, <1>3, <1>4, <1>5

LEMMA Appended ==
  ASSUME NEW l \in Seq(LedgerRows), NEW r \in LedgerRows
  PROVE  /\ Append(l, r) \in Seq(LedgerRows) /\ Append(l, r) # <<>>
         /\ DOMAIN l = 1 .. Len(l) /\ Len(l) \in Nat
         /\ DOMAIN Append(l, r) = 1 .. Len(l) + 1
         /\ \A i \in DOMAIN l : i \in DOMAIN Append(l, r) /\ Append(l, r)[i] = l[i] /\ i < Len(l) + 1
                                /\ i \in Nat
         /\ Len(l) + 1 \in DOMAIN Append(l, r) /\ Append(l, r)[Len(l) + 1] = r
         /\ \A i \in DOMAIN Append(l, r) : i \in DOMAIN l \/ i = Len(l) + 1
<1>1. /\ Append(l, r) \in Seq(LedgerRows) /\ Append(l, r) # <<>> /\ Len(Append(l, r)) = Len(l) + 1
      /\ DOMAIN l = 1 .. Len(l) /\ Len(l) \in Nat
      /\ \A i \in 1 .. Len(l) : Append(l, r)[i] = l[i]
      /\ Append(l, r)[Len(l) + 1] = r
  OBVIOUS
<1>2. DOMAIN Append(l, r) = 1 .. Len(l) + 1
  BY <1>1
<1>3. /\ \A i \in 1 .. Len(l) : i \in 1 .. Len(l) + 1 /\ i < Len(l) + 1 /\ i \in Nat
      /\ \A i \in 1 .. Len(l) + 1 : i \in 1 .. Len(l) \/ i = Len(l) + 1
      /\ Len(l) + 1 \in 1 .. Len(l) + 1
  BY <1>1
<1> QED BY <1>1, <1>2, <1>3

LEMMA AppendShaped ==
  ASSUME NEW l, Shaped(l), NEW r \in LedgerRows, r.kind \notin {"prompt", "relayed"},
         r.kind = "notice" => ~Noticed(l)
  PROVE  Shaped(Append(l, r))
<1>0. l \in Seq(LedgerRows)
  BY DEF Shaped
<1> DEFINE new == Append(l, r)
           n   == Len(l) + 1
<1>1. /\ new \in Seq(LedgerRows) /\ new # <<>>
      /\ \A i \in DOMAIN l : new[i] = l[i] /\ i < n
      /\ n \in DOMAIN new /\ new[n] = r
      /\ \A i \in DOMAIN new : i \in DOMAIN l \/ i = n
  BY <1>0, Appended
<1> HIDE DEF new, n
<1>2. OneOf(new, "prompt") /\ OneOf(new, "notice")
  BY <1>1 DEF Shaped, OneOf, Noticed
<1>3. \A i, j \in DOMAIN new : new[i].kind = "relayed" /\ new[j].kind = "notice" => i < j
  BY <1>1 DEF Shaped
<1> QED BY <1>1, <1>2, <1>3 DEF Shaped, new

LEMMA AppendPlain ==
  ASSUME NEW l \in Seq(LedgerRows), Plain(l), NEW r \in LedgerRows, r # OlderChoice, r.kind # "notice"
  PROVE  Plain(Append(l, r))
BY Appended DEF Plain

LEMMA AppendTold ==
  ASSUME NEW l \in Seq(LedgerRows), Ordered(l), Owed(l), Shaped(l),
         NEW r \in LedgerRows, r.kind # "relayed",
         r.kind \in {"said", "choice"} => NoneRelayed(l) \/ Noticed(l)
  PROVE  Ordered(Append(l, r)) /\ Owed(Append(l, r))
<1> DEFINE new == Append(l, r)
           n   == Len(l) + 1
<1>1. /\ \A i \in DOMAIN l : new[i] = l[i] /\ i < n /\ i \in DOMAIN new
      /\ n \in DOMAIN new /\ new[n] = r
      /\ \A i \in DOMAIN new : i \in DOMAIN l \/ i = n
      /\ \A i \in DOMAIN l : i \in Nat /\ n \in Nat
  BY Appended
<1> HIDE DEF new, n
<1>2. Ordered(new)
  <2> SUFFICES ASSUME NEW i \in DOMAIN new, NEW k \in DOMAIN new, new[i].kind = "relayed",
                      new[k].kind = "said", new[k].of > MaxSays, i < k
               PROVE  \E j \in DOMAIN new : new[j].kind = "notice" /\ i < j /\ j < k
    BY DEF Ordered
  <2>1. i \in DOMAIN l /\ new[i] = l[i]
    BY <1>1
  <2>2. CASE k \in DOMAIN l
    <3>1. PICK j \in DOMAIN l : l[j].kind = "notice" /\ i < j /\ j < k
      BY <2>1, <2>2, <1>1 DEF Ordered
    <3> QED BY <3>1, <1>1
  <2>3. CASE k = n
    <3>1. Noticed(l)
      BY <2>1, <2>3, <1>1 DEF NoneRelayed
    <3>2. PICK j \in DOMAIN l : l[j].kind = "notice"
      BY <3>1 DEF Noticed
    <3>3. i < j
      BY <2>1, <3>2 DEF Shaped
    <3> QED BY <3>2, <3>3, <2>3, <1>1
  <2> QED BY <2>2, <2>3, <1>1
<1>3. Owed(new)
  <2>1. NoneRelayed(l) => NoneRelayed(new)
    BY <1>1 DEF NoneRelayed
  <2>2. Noticed(l) => Noticed(new)
    BY <1>1 DEF Noticed
  <2>3. r.kind # "choice" /\ NewestRow(l, OlderChoice) => NewestRow(new, OlderChoice)
    <3> SUFFICES ASSUME r.kind # "choice", NewestRow(l, OlderChoice) PROVE NewestRow(new, OlderChoice)
      OBVIOUS
    <3>1. PICK i \in DOMAIN l : /\ l[i] = OlderChoice /\ OlderChoice.kind = "choice"
                                /\ \A j \in DOMAIN l : l[j].kind = "choice" => j <= i
      BY DEF NewestRow
    <3>2. \A j \in DOMAIN new : new[j].kind = "choice" => j <= i
      BY <3>1, <1>1
    <3> QED BY <3>1, <3>2, <1>1 DEF NewestRow
  <2> QED BY <2>1, <2>2, <2>3 DEF Owed
<1> QED BY <1>2, <1>3 DEF new

(* The newest choice.                                                         *)

LEMMA NewestIs ==
  ASSUME NEW c, ledgers[c] \in Seq(LedgerRows)
  PROVE  /\ NewestChoice(c) = <<>> => \A i \in DOMAIN ledgers[c] : ledgers[c][i].kind # "choice"
         /\ NewestChoice(c) # <<>> =>
               \E r \in {SendingChoice, OlderChoice} : NewestChoice(c) = <<r>> /\ NewestRow(ledgers[c], r)
         /\ \A r : NewestRow(ledgers[c], r) => NewestChoice(c) = <<r>>
<1> DEFINE l  == ledgers[c]
           at == Places(c, "choice")
<1>1. l \in Seq(LedgerRows) /\ Len(l) \in Nat /\ DOMAIN l = 1 .. Len(l)
  OBVIOUS
<1>2. at = {i \in DOMAIN l : l[i].kind = "choice"} /\ at \subseteq 1 .. Len(l)
  BY <1>1 DEF Places
<1>3. NewestChoice(c) = IF at = {} THEN <<>> ELSE <<l[Max(at)]>>
  BY DEF NewestChoice
<1> HIDE DEF at
<1>4. at # {} => Max(at) \in at /\ \A j \in at : j <= Max(at)
  <2> SUFFICES ASSUME at # {} PROVE Max(at) \in at /\ \A j \in at : j <= Max(at)
    OBVIOUS
  <2>1. \E i \in at : \A j \in at : j <= i
    BY <1>1, <1>2, LastExists
  <2>2. \E i \in at : \A j \in at : i >= j
    BY <2>1, <1>1, <1>2
  <2>3. Max(at) \in at /\ \A j \in at : Max(at) >= j
    BY <2>2 DEF Max
  <2> QED BY <2>3, <1>1, <1>2
<1>5. NewestChoice(c) = <<>> => at = {}
  <2>1. \A x : <<x>> # <<>>
    OBVIOUS
  <2> QED BY <2>1, <1>3
<1>6. at = {} => \A i \in DOMAIN l : l[i].kind # "choice"
  BY <1>2
<1>7. ASSUME at # {}
      PROVE  \E r \in {SendingChoice, OlderChoice} : NewestChoice(c) = <<r>> /\ NewestRow(l, r)
  <2> DEFINE m == Max(at)
  <2>1. m \in DOMAIN l /\ l[m].kind = "choice" /\ \A j \in DOMAIN l : l[j].kind = "choice" => j <= m
    BY <1>2, <1>4, <1>7
  <2>2. l[m] \in {SendingChoice, OlderChoice}
    BY <2>1, <1>1, RowIs
  <2>3. NewestChoice(c) = <<l[m]>>
    BY <1>3, <1>7
  <2> HIDE DEF m
  <2>4. NewestRow(l, l[m])
    BY <2>1 DEF NewestRow
  <2> HIDE DEF l
  <2> QED BY <2>2, <2>3, <2>4
<1>8. ASSUME NEW r, NewestRow(l, r) PROVE NewestChoice(c) = <<r>>
  <2>1. PICK i \in DOMAIN l : /\ l[i] = r /\ r.kind = "choice"
                              /\ \A j \in DOMAIN l : l[j].kind = "choice" => j <= i
    BY <1>8 DEF NewestRow
  <2>2. i \in at
    BY <2>1, <1>2
  <2>3. Max(at) \in at /\ i <= Max(at) /\ Max(at) <= i
    BY <2>1, <2>2, <1>2, <1>4
  <2>4. Max(at) = i
    BY <2>1, <2>3, <1>1, <1>2
  <2> QED BY <2>1, <2>2, <2>4, <1>3
<1> QED BY <1>3, <1>5, <1>6, <1>7, <1>8

LEMMA OneNewest ==
  ASSUME NEW l \in Seq(LedgerRows), NewestRow(l, SendingChoice), NewestRow(l, OlderChoice)
  PROVE  FALSE
<1>1. PICK i \in DOMAIN l : l[i] = SendingChoice /\ \A j \in DOMAIN l : l[j].kind = "choice" => j <= i
  BY DEF NewestRow
<1>2. PICK k \in DOMAIN l : l[k] = OlderChoice /\ \A j \in DOMAIN l : l[j].kind = "choice" => j <= k
  BY DEF NewestRow
<1>3. i <= k /\ k <= i /\ i \in Nat /\ k \in Nat
  BY <1>1, <1>2, RowIs
<1> QED BY <1>1, <1>2, <1>3, RowIs

LEMMA AppendNewest ==
  ASSUME NEW l \in Seq(LedgerRows), NEW r \in LedgerRows
  PROVE  /\ r.kind = "choice" => NewestRow(Append(l, r), r)
         /\ r.kind # "choice" => \A q : NewestRow(l, q) => NewestRow(Append(l, r), q)
<1> DEFINE new == Append(l, r)
           n   == Len(l) + 1
<1>1. /\ \A i \in DOMAIN l : new[i] = l[i] /\ i < n /\ i \in DOMAIN new /\ i \in Nat
      /\ n \in DOMAIN new /\ new[n] = r /\ n \in Nat
      /\ \A i \in DOMAIN new : i \in DOMAIN l \/ i = n
  BY Appended
<1> HIDE DEF new, n
<1>2. \A i \in DOMAIN new : i <= n
  BY <1>1
<1>3. r.kind = "choice" => NewestRow(new, r)
  BY <1>1, <1>2 DEF NewestRow
<1>4. ASSUME r.kind # "choice", NEW q, NewestRow(l, q) PROVE NewestRow(new, q)
  <2>1. PICK i \in DOMAIN l : /\ l[i] = q /\ q.kind = "choice"
                              /\ \A j \in DOMAIN l : l[j].kind = "choice" => j <= i
    BY <1>4 DEF NewestRow
  <2>2. \A j \in DOMAIN new : new[j].kind = "choice" => j <= i
    BY <2>1, <1>1, <1>4
  <2> QED BY <2>1, <2>2, <1>1 DEF NewestRow
<1> QED BY <1>3, <1>4 DEF new

-----------------------------------------------------------------------------
(* What a new ledger takes over of an older one: behind its own h rows, those *)
(* past place s, to some place or to the end.                                 *)
Carries(new, l, h, s) ==
    /\ new \in Seq(LedgerRows) /\ l \in Seq(LedgerRows)
    /\ h \in Nat /\ h >= 1 /\ s \in Nat /\ h <= Len(new)
    /\ \A i \in 1 .. h : /\ new[i].kind \in {"prompt", "digest", "choice"}
                         /\ new[i].kind = "prompt" => i = 1
    /\ \A i \in h + 1 .. Len(new) :
          (i - h) + s \in 1 .. Len(l) /\ new[i] = l[(i - h) + s] /\ new[i].kind # "prompt"

ToTheEnd(new, l, h, s) == Len(new) - h = Len(l) - s

LEMMA CarriedRows ==
  ASSUME NEW new, NEW l, NEW h, NEW s, Carries(new, l, h, s)
  PROVE  /\ \A i \in DOMAIN new : i \in Nat /\ (i \in 1 .. h \/ (i > h /\ i \notin 1 .. h))
         /\ \A i \in DOMAIN new : i \notin 1 .. h => \E p \in DOMAIN l : p + h = i + s /\ p > s /\ new[i] = l[p]
         /\ \A i, k \in DOMAIN new, p, r \in DOMAIN l :
               p + h = i + s /\ r + h = k + s => (i < k <=> p < r) /\ (i = k <=> p = r)
         /\ \A i, k \in DOMAIN new, p, q, r \in DOMAIN l :
               i \notin 1 .. h /\ p + h = i + s /\ r + h = k + s /\ p < q /\ q < r =>
                  \E j \in DOMAIN new : j \notin 1 .. h /\ i < j /\ j < k /\ new[j] = l[q]
         /\ ToTheEnd(new, l, h, s) =>
               \A q \in DOMAIN l : q > s =>
                  \E j \in DOMAIN new : j \notin 1 .. h /\ q + h = j + s /\ new[j] = l[q]
<1>1. /\ new \in Seq(LedgerRows) /\ l \in Seq(LedgerRows)
      /\ h \in Nat /\ h >= 1 /\ s \in Nat /\ h <= Len(new)
      /\ Len(new) \in Nat /\ Len(l) \in Nat /\ DOMAIN new = 1 .. Len(new) /\ DOMAIN l = 1 .. Len(l)
  BY DEF Carries
<1>2. \A i \in h + 1 .. Len(new) : (i - h) + s \in 1 .. Len(l) /\ new[i] = l[(i - h) + s]
  BY DEF Carries
<1>3. \A i \in DOMAIN new : i \in Nat /\ (i \in 1 .. h \/ (i > h /\ i \notin 1 .. h))
  BY <1>1
<1>4. ASSUME NEW i \in DOMAIN new, i \notin 1 .. h
      PROVE  \E p \in DOMAIN l : p + h = i + s /\ p > s /\ new[i] = l[p]
  <2>1. i \in h + 1 .. Len(new)
    BY <1>1, <1>4
  <2>2. (i - h) + s \in DOMAIN l /\ new[i] = l[(i - h) + s]
    BY <2>1, <1>1, <1>2
  <2>3. ((i - h) + s) + h = i + s /\ (i - h) + s > s
    BY <2>1, <1>1
  <2> QED BY <2>2, <2>3
<1>5. ASSUME NEW i \in DOMAIN new, NEW k \in DOMAIN new, NEW p \in DOMAIN l, NEW r \in DOMAIN l,
             p + h = i + s, r + h = k + s
      PROVE  (i < k <=> p < r) /\ (i = k <=> p = r)
  BY <1>1, <1>5
<1>6. ASSUME NEW j \in 1 .. Len(new), j \notin 1 .. h, NEW q \in DOMAIN l, q + h = j + s
      PROVE  new[j] = l[q]
  <2>1. j \in h + 1 .. Len(new) /\ (j - h) + s = q
    BY <1>1, <1>6
  <2>2. new[j] = l[(j - h) + s]
    BY <2>1, <1>2
  <2> QED BY <2>1, <2>2
<1>7. ASSUME NEW i \in DOMAIN new, NEW k \in DOMAIN new,
             NEW p \in DOMAIN l, NEW q \in DOMAIN l, NEW r \in DOMAIN l,
             i \notin 1 .. h, p + h = i + s, r + h = k + s, p < q, q < r
      PROVE  \E j \in DOMAIN new : j \notin 1 .. h /\ i < j /\ j < k /\ new[j] = l[q]
  <2> DEFINE j == (q + h) - s
  <2>1. j \in 1 .. Len(new) /\ j \notin 1 .. h /\ i < j /\ j < k /\ q + h = j + s
    BY <1>1, <1>7
  <2> HIDE DEF j
  <2>2. new[j] = l[q]
    BY <2>1, <1>6
  <2> QED BY <2>1, <2>2, <1>1
<1>8. ASSUME ToTheEnd(new, l, h, s), NEW q \in DOMAIN l, q > s
      PROVE  \E j \in DOMAIN new : j \notin 1 .. h /\ q + h = j + s /\ new[j] = l[q]
  <2> DEFINE j == (q + h) - s
  <2>1. j \in 1 .. Len(new) /\ j \notin 1 .. h /\ q + h = j + s
    BY <1>1, <1>8 DEF ToTheEnd
  <2> HIDE DEF j
  <2>2. new[j] = l[q]
    BY <2>1, <1>6
  <2> QED BY <2>1, <2>2, <1>1
<1> QED BY <1>3, <1>4, <1>5, <1>7, <1>8

LEMMA CarryShaped ==
  ASSUME NEW new, NEW l, NEW h, NEW s, Carries(new, l, h, s), Shaped(l)
  PROVE  Shaped(new) /\ \A i \in DOMAIN new : new[i].kind = "prompt" => i = 1
<1>1. /\ \A i \in DOMAIN new : i \in Nat /\ (i \in 1 .. h \/ (i > h /\ i \notin 1 .. h))
      /\ \A i \in DOMAIN new : i \notin 1 .. h => \E p \in DOMAIN l : p + h = i + s /\ p > s /\ new[i] = l[p]
      /\ \A i, k \in DOMAIN new, p, r \in DOMAIN l :
            p + h = i + s /\ r + h = k + s => (i < k <=> p < r) /\ (i = k <=> p = r)
  BY CarriedRows
<1>2. /\ new \in Seq(LedgerRows) /\ h >= 1 /\ h \in Nat /\ h <= Len(new)
      /\ \A i \in 1 .. h : /\ new[i].kind \in {"prompt", "digest", "choice"}
                           /\ new[i].kind = "prompt" => i = 1
      /\ DOMAIN new = 1 .. Len(new) /\ Len(new) \in Nat
  BY DEF Carries
<1>3. \A i \in DOMAIN new : new[i].kind = "prompt" => i = 1
  <2> SUFFICES ASSUME NEW i \in DOMAIN new, new[i].kind = "prompt", i \notin 1 .. h PROVE FALSE
    BY <1>2
  <2>1. i \in h + 1 .. Len(new)
    BY <1>1, <1>2
  <2> QED BY <2>1 DEF Carries
<1>4. \A i \in DOMAIN new : new[i].kind \in {"notice", "relayed"} => i \notin 1 .. h
  BY <1>2
<1>5. OneOf(new, "notice")
  <2> SUFFICES ASSUME NEW i \in DOMAIN new, NEW k \in DOMAIN new,
                      new[i].kind = "notice", new[k].kind = "notice"
               PROVE  i = k
    BY DEF OneOf
  <2>1. PICK p \in DOMAIN l : p + h = i + s /\ new[i] = l[p]
    BY <1>1, <1>4
  <2>2. PICK r \in DOMAIN l : r + h = k + s /\ new[k] = l[r]
    BY <1>1, <1>4
  <2>3. p = r
    BY <2>1, <2>2 DEF Shaped, OneOf
  <2> QED BY <2>1, <2>2, <2>3, <1>1
<1>6. \A i, k \in DOMAIN new : new[i].kind = "relayed" /\ new[k].kind = "notice" => i < k
  <2> SUFFICES ASSUME NEW i \in DOMAIN new, NEW k \in DOMAIN new,
                      new[i].kind = "relayed", new[k].kind = "notice"
               PROVE  i < k
    OBVIOUS
  <2>1. PICK p \in DOMAIN l : p + h = i + s /\ new[i] = l[p]
    BY <1>1, <1>4
  <2>2. PICK r \in DOMAIN l : r + h = k + s /\ new[k] = l[r]
    BY <1>1, <1>4
  <2>3. p < r
    BY <2>1, <2>2 DEF Shaped
  <2> QED BY <2>1, <2>2, <2>3, <1>1
<1>7. new # <<>>
  BY <1>2
<1>8. OneOf(new, "prompt")
  BY <1>3 DEF OneOf
<1> QED BY <1>2, <1>3, <1>5, <1>6, <1>7, <1>8 DEF Shaped

LEMMA CarryOrdered ==
  ASSUME NEW new, NEW l, NEW h, NEW s, Carries(new, l, h, s), Ordered(l)
  PROVE  Ordered(new)
<1>1. \A i \in 1 .. h : new[i].kind \in {"prompt", "digest", "choice"}
  BY DEF Carries
<1> SUFFICES ASSUME NEW i \in DOMAIN new, NEW k \in DOMAIN new, new[i].kind = "relayed",
                    new[k].kind = "said", new[k].of > MaxSays, i < k
             PROVE  \E j \in DOMAIN new : new[j].kind = "notice" /\ i < j /\ j < k
  BY DEF Ordered
<1>2. i \notin 1 .. h /\ k \notin 1 .. h
  BY <1>1
<1>3. PICK p \in DOMAIN l : p + h = i + s /\ new[i] = l[p]
  BY <1>2, CarriedRows
<1>4. PICK r \in DOMAIN l : r + h = k + s /\ new[k] = l[r]
  BY <1>2, CarriedRows
<1>5. p < r
  BY <1>3, <1>4, CarriedRows
<1>6. PICK q \in DOMAIN l : l[q].kind = "notice" /\ p < q /\ q < r
  BY <1>3, <1>4, <1>5 DEF Ordered
<1>7. \E j \in DOMAIN new : j \notin 1 .. h /\ i < j /\ j < k /\ new[j] = l[q]
  BY <1>2, <1>3, <1>4, <1>6, CarriedRows
<1> QED BY <1>6, <1>7

(* CarriedRows to the end, the newest choice is the same, if it is past s or set  *)
(* ahead of what is carried.                                                  *)
LEMMA CarryNewest ==
  ASSUME NEW new, NEW l, NEW h, NEW s, Carries(new, l, h, s), ToTheEnd(new, l, h, s),
         NEW r, NewestRow(l, r),
         new[h] = r \/ \A p \in DOMAIN l : l[p].kind = "choice" => p > s
  PROVE  NewestRow(new, r)
<1>1. PICK p \in DOMAIN l : /\ l[p] = r /\ r.kind = "choice"
                            /\ \A q \in DOMAIN l : l[q].kind = "choice" => q <= p
  BY DEF NewestRow
<1>2. /\ h \in Nat /\ h >= 1 /\ h <= Len(new) /\ s \in Nat /\ Len(new) \in Nat /\ p \in Nat
      /\ DOMAIN new = 1 .. Len(new) /\ h \in DOMAIN new /\ \A i \in DOMAIN l : i \in Nat
  BY DEF Carries
<1>3. /\ \A i \in DOMAIN new : i \in Nat /\ (i \in 1 .. h \/ (i > h /\ i \notin 1 .. h))
      /\ \A i \in DOMAIN new : i \notin 1 .. h => \E q \in DOMAIN l : q + h = i + s /\ q > s /\ new[i] = l[q]
  BY CarriedRows
<1>4. CASE p > s
  <2>1. PICK j \in DOMAIN new : j \notin 1 .. h /\ p + h = j + s /\ new[j] = l[p]
    BY <1>4, CarriedRows
  <2>2. ASSUME NEW i \in DOMAIN new, new[i].kind = "choice" PROVE i <= j
    <3>1. CASE i \in 1 .. h
      BY <3>1, <2>1, <1>2, <1>3
    <3>2. CASE i \notin 1 .. h
      <4>1. PICK q \in DOMAIN l : q + h = i + s /\ new[i] = l[q]
        BY <3>2, <1>3
      <4>2. q <= p
        BY <4>1, <2>2, <1>1
      <4> QED BY <4>1, <4>2, <2>1, <1>2, <1>3
    <3> QED BY <3>1, <3>2
  <2> QED BY <2>1, <2>2, <1>1 DEF NewestRow
<1>5. CASE ~(p > s)
  <2>1. new[h] = r
    BY <1>1, <1>5
  <2>2. ASSUME NEW i \in DOMAIN new, new[i].kind = "choice" PROVE i <= h
    <3>1. CASE i \in 1 .. h
      BY <3>1, <1>2
    <3>2. CASE i \notin 1 .. h
      <4>1. PICK q \in DOMAIN l : q > s /\ new[i] = l[q]
        BY <3>2, <1>3
      <4>2. q <= p
        BY <4>1, <2>2, <1>1
      <4> QED BY <4>1, <4>2, <1>5, <1>2
    <3> QED BY <3>1, <3>2
  <2> QED BY <2>1, <2>2, <1>1, <1>2 DEF NewestRow
<1> QED BY <1>4, <1>5

LEMMA CarryOwed ==
  ASSUME NEW new, NEW l, NEW h, NEW s, Carries(new, l, h, s), ToTheEnd(new, l, h, s),
         Shaped(l), Owed(l), NewestRow(l, OlderChoice) => NewestRow(new, OlderChoice)
  PROVE  Owed(new)
<1>1. \A i \in 1 .. h : new[i].kind \in {"prompt", "digest", "choice"}
  BY DEF Carries
<1> SUFFICES ASSUME NEW i \in DOMAIN new, new[i].kind = "relayed", ~NewestRow(l, OlderChoice)
             PROVE  Noticed(new)
  BY DEF Owed, NoneRelayed
<1>2. PICK p \in DOMAIN l : p > s /\ new[i] = l[p]
  BY <1>1, CarriedRows
<1>3. PICK q \in DOMAIN l : l[q].kind = "notice"
  BY <1>2 DEF Owed, NoneRelayed, Noticed
<1>4. p < q
  BY <1>2, <1>3 DEF Shaped
<1>5. p \in Nat /\ q \in Nat /\ s \in Nat
  BY DEF Carries
<1>6. q > s
  BY <1>2, <1>4, <1>5
<1>7. PICK j \in DOMAIN new : new[j] = l[q]
  BY <1>6, CarriedRows
<1> QED BY <1>3, <1>7 DEF Noticed

LEMMA CarryPlain ==
  ASSUME NEW new, NEW l, NEW h, NEW s, Carries(new, l, h, s), Plain(l),
         \A i \in 1 .. h : new[i] # OlderChoice
  PROVE  Plain(new)
<1>1. \A i \in 1 .. h : new[i].kind \in {"prompt", "digest", "choice"}
  BY DEF Carries
<1> SUFFICES ASSUME NEW i \in DOMAIN new PROVE new[i] # OlderChoice /\ new[i].kind # "notice"
  BY DEF Plain
<1>2. CASE i \in 1 .. h
  BY <1>1, <1>2
<1>3. CASE i \notin 1 .. h
  <2>1. PICK p \in DOMAIN l : new[i] = l[p]
    BY <1>3, CarriedRows
  <2> QED BY <2>1 DEF Plain
<1> QED BY <1>2, <1>3

-----------------------------------------------------------------------------
(* What is said, and what every step leaves.                                  *)

LEMMA WordsMono ==
  ASSUME NEW a, NEW b, \A i \in DOMAIN a : \E j \in DOMAIN b : b[j] = a[i]
  PROVE  WordsOf(a) \subseteq WordsOf(b)
<1>1. ToSet(a) \subseteq ToSet(b)
  BY DEF ToSet
<1> QED BY <1>1 DEF WordsOf

LEMMA LedgerFacts ==
  ASSUME DeployTyped
  PROVE  /\ Len(ledgers) \in Nat /\ Len(ledgers) >= 1 /\ DOMAIN ledgers = 1 .. Len(ledgers)
         /\ \A c \in DOMAIN ledgers : ledgers[c] \in Seq(LedgerRows)
         /\ served # 0 => served \in DOMAIN ledgers
         /\ successor # 0 => successor \in DOMAIN ledgers
         /\ 1 \in DOMAIN ledgers
         /\ OlderRecorded <=> \E i \in DOMAIN ledgers[1] : ledgers[1][i] = OlderChoice
<1>1. ledgers \in Seq(Seq(LedgerRows)) /\ Len(ledgers) \in Nat /\ Len(ledgers) >= 1
  BY DEF DeployTyped
<1>2. DOMAIN ledgers = 1 .. Len(ledgers) /\ \A c \in DOMAIN ledgers : ledgers[c] \in Seq(LedgerRows)
  BY <1>1
<1>3. OlderRecorded <=> \E i \in DOMAIN ledgers[1] : ledgers[1][i] = OlderChoice
  BY DEF OlderRecorded, RowsOf, ToSet
<1>4. (served # 0 => served \in 1 .. Len(ledgers)) /\ (successor # 0 => successor \in 1 .. Len(ledgers))
  BY <1>1 DEF DeployTyped
<1> QED BY <1>1, <1>2, <1>3, <1>4

LEMMA FirstPrompt ==
  ASSUME DeployInv, startup = "serving", served # 0
  PROVE  /\ \A i \in DOMAIN ledgers[served] : ledgers[served][i].kind = "prompt" => i = 1
         /\ 1 \in DOMAIN ledgers[served] /\ ledgers[served][1] = Prompt(wording)
         /\ ledgers[served] \in Seq(LedgerRows) /\ Shaped(ledgers[served])
<1>1. served \in DOMAIN ledgers /\ ledgers[served] \in Seq(LedgerRows)
  BY LedgerFacts DEF DeployInv
<1>2. Shaped(ledgers[served]) /\ ledgers[served][1] = Prompt(wording)
  BY <1>1 DEF DeployInv, LedgersShaped, WalkRight
<1>3. 1 \in DOMAIN ledgers[served]
  <2>1. ledgers[served] # <<>>
    BY <1>2 DEF Shaped
  <2> QED BY <2>1, <1>1
<1>4. Prompt(wording).kind = "prompt"
  BY RowIs DEF DeployInv, DeployTyped
<1> QED BY <1>1, <1>2, <1>3, <1>4 DEF Shaped, OneOf

LEMMA DeployStarts == DeployInit => DeployInv
<1> SUFFICES ASSUME DeployInit PROVE DeployInv
  OBVIOUS
<1>1. PICK l \in Ledgers : ledgers = <<l>>
  BY DEF DeployInit
<1>2. /\ served = 1 /\ startup = "down" /\ successor = 0 /\ reconciled = {} /\ within = "none"
      /\ says = 0 /\ wording \in Nat
  BY DeploymentsAssumption DEF DeployInit
<1>3. /\ l \in Seq(LedgerRows) /\ l # <<>>
      /\ \A i, j \in DOMAIN l : l[i].kind = "prompt" /\ l[j].kind = "prompt" => i = j
      /\ Notice \notin ToSet(l) /\ OlderContract(l)
      /\ \A i \in DOMAIN l : l[i].kind = "said" => l[i].of <= MaxSays
  BY DeploymentsAssumption
<1>4. /\ ledgers \in Seq(Seq(LedgerRows)) /\ Len(ledgers) = 1 /\ DOMAIN ledgers = {1}
      /\ ledgers[1] = l
  BY <1>1, <1>3
<1>5. DeployTyped
  BY <1>2, <1>4 DEF DeployTyped
<1>6. WalkRight
  BY <1>2 DEF WalkRight
<1>7. \A i \in DOMAIN l : l[i].kind # "notice"
  BY <1>3, RowIs DEF ToSet
<1>8. Shaped(l)
  BY <1>3, <1>7 DEF Shaped, OneOf
<1>9. LedgersShaped
  BY <1>1, <1>4, <1>8 DEF LedgersShaped
<1>10. WordsStand
  BY <1>2, <1>4 DEF WordsStand
<1>11. OlderRecorded <=> \E i \in DOMAIN l : l[i] = OlderChoice
  BY <1>4, <1>5, LedgerFacts
<1>12. Ordered(l)
  <2>1. MaxSays \in Nat /\ \A k \in DOMAIN l : l[k].kind = "said" => l[k].of \in Nat
    <3>1. \A r \in LedgerRows : r.kind = "said" => r.of \in Nat
      <4>1. \A r \in LedgerRows : r.kind = "said" => r \in WordRows
        BY RowIs DEF IsWords
      <4> QED BY <4>1 DEF WordRows
    <3> QED BY <3>1, <1>3, DeploymentsAssumption
  <2>2. \A k \in DOMAIN l : l[k].kind = "said" => ~(l[k].of > MaxSays)
    BY <2>1, <1>3
  <2> QED BY <2>2 DEF Ordered
<1>13. ASSUME OlderRecorded PROVE NewestRow(l, OlderChoice)
  <2> DEFINE at == {i \in DOMAIN l : l[i].kind = "choice"}
  <2>1. Len(l) \in Nat /\ DOMAIN l = 1 .. Len(l) /\ at \subseteq 1 .. Len(l)
    BY <1>3
  <2>2. at # {}
    BY <1>11, <1>13, RowIs
  <2> HIDE DEF at
  <2>3. PICK i \in at : \A j \in at : j <= i
    BY <2>1, <2>2, LastExists
  <2>4. OlderChoice \in ToSet(l) /\ SendingChoice \notin ToSet(l)
    BY <1>3, <1>11, <1>13 DEF OlderContract, ToSet
  <2>5. i \in DOMAIN l /\ l[i].kind = "choice" /\ l[i] \in ToSet(l)
    BY DEF at, ToSet
  <2>6. l[i] = OlderChoice
    BY <2>4, <2>5, <1>3, RowIs
  <2> QED BY <2>3, <2>5, <2>6, RowIs DEF NewestRow, at
<1>14. ContractsStand
  <2>1. OlderRecorded => \A c \in DOMAIN ledgers : Ordered(ledgers[c]) /\ Owed(ledgers[c])
    BY <1>4, <1>12, <1>13 DEF Owed
  <2>2. ~OlderRecorded => \A c \in DOMAIN ledgers : Plain(ledgers[c])
    BY <1>4, <1>7, <1>11 DEF Plain
  <2> QED BY <2>1, <2>2, <1>2 DEF ContractsStand
<1> QED BY <1>5, <1>6, <1>9, <1>10, <1>14 DEF DeployInv

(* A step that touches one ledger, old or new.                                *)
LEMMA OneTouched ==
  ASSUME DeployInv, ledgers' \in Seq(Seq(LedgerRows)),
         Len(ledgers') = Len(ledgers) \/ Len(ledgers') = Len(ledgers) + 1,
         NEW t \in 1 .. Len(ledgers'),
         \A c \in 1 .. Len(ledgers') : c # t => c \in 1 .. Len(ledgers) /\ ledgers'[c] = ledgers[c],
         Shaped(ledgers'[t]),
         \A i \in DOMAIN ledgers'[t] : ledgers'[t][i].kind = "prompt" => i = 1,
         t = 1 => \A i \in DOMAIN ledgers[1] : i \in DOMAIN ledgers'[1] /\ ledgers'[1][i] = ledgers[1][i],
         OlderRecorded => Ordered(ledgers'[t]) /\ Owed(ledgers'[t]),
         ~OlderRecorded => Plain(ledgers'[t])
  PROVE  /\ LedgersShaped'
         /\ DOMAIN ledgers' = 1 .. Len(ledgers') /\ 1 .. Len(ledgers) \subseteq 1 .. Len(ledgers')
         /\ Len(ledgers') >= 1 /\ Len(ledgers) \in Nat
         /\ OlderRecorded' => \A c \in DOMAIN ledgers' : Ordered(ledgers'[c]) /\ Owed(ledgers'[c])
         /\ ~OlderRecorded' => \A c \in DOMAIN ledgers' : Plain(ledgers'[c])
<1>0. DeployTyped /\ LedgersShaped /\ ContractsStand
  BY DEF DeployInv
<1>1. /\ Len(ledgers) \in Nat /\ Len(ledgers) >= 1 /\ DOMAIN ledgers = 1 .. Len(ledgers)
      /\ 1 \in DOMAIN ledgers
      /\ OlderRecorded <=> \E i \in DOMAIN ledgers[1] : ledgers[1][i] = OlderChoice
  BY <1>0, LedgerFacts
<1>2. /\ DOMAIN ledgers' = 1 .. Len(ledgers') /\ Len(ledgers') \in Nat /\ Len(ledgers') >= 1
      /\ 1 .. Len(ledgers) \subseteq 1 .. Len(ledgers') /\ 1 \in 1 .. Len(ledgers')
  BY <1>1
<1>3. LedgersShaped'
  <2> SUFFICES ASSUME NEW c \in 1 .. Len(ledgers')
               PROVE  /\ Shaped(ledgers'[c])
                      /\ (\E i \in DOMAIN ledgers'[c] : i # 1 /\ ledgers'[c][i].kind = "prompt")
                            => c = 1 /\ ledgers'[1] \in Ledgers
    BY <1>2 DEF LedgersShaped, Misplaced
  <2>1. CASE c = t
    BY <2>1
  <2>2. CASE c # t
    <3>1. c \in DOMAIN ledgers /\ ledgers'[c] = ledgers[c]
      BY <2>2, <1>1
    <3>2. /\ Shaped(ledgers[c])
          /\ (\E i \in DOMAIN ledgers[c] : i # 1 /\ ledgers[c][i].kind = "prompt")
                => c = 1 /\ ledgers[1] \in Ledgers
      BY <3>1, <1>0 DEF LedgersShaped, Misplaced
    <3>3. c = 1 => ledgers'[1] = ledgers[1]
      BY <3>1
    <3> QED BY <3>1, <3>2, <3>3
  <2> QED BY <2>1, <2>2
<1>4. OlderRecorded' <=> \E i \in DOMAIN ledgers'[1] : ledgers'[1][i] = OlderChoice
  BY DEF OlderRecorded, RowsOf, ToSet
<1>5. OlderRecorded' <=> OlderRecorded
  <2>1. CASE t # 1
    BY <2>1, <1>1, <1>2, <1>4
  <2>2. CASE t = 1
    <3>1. OlderRecorded => OlderRecorded'
      BY <2>2, <1>1, <1>4
    <3>2. ~OlderRecorded => ~OlderRecorded'
      BY <2>2, <1>4 DEF Plain
    <3> QED BY <3>1, <3>2
  <2> QED BY <2>1, <2>2
<1>6. ASSUME OlderRecorded, NEW c \in 1 .. Len(ledgers') PROVE Ordered(ledgers'[c]) /\ Owed(ledgers'[c])
  BY <1>0, <1>1, <1>6 DEF ContractsStand
<1>7. ASSUME ~OlderRecorded, NEW c \in 1 .. Len(ledgers') PROVE Plain(ledgers'[c])
  BY <1>0, <1>1, <1>7 DEF ContractsStand
<1> QED BY <1>1, <1>2, <1>3, <1>5, <1>6, <1>7

(* A step that touches none.                                                  *)
LEMMA NoneTouched ==
  ASSUME DeployInv, ledgers' = ledgers
  PROVE  /\ LedgersShaped' /\ Len(ledgers') = Len(ledgers) /\ DOMAIN ledgers' = DOMAIN ledgers
         /\ OlderRecorded' => \A c \in DOMAIN ledgers' : Ordered(ledgers'[c]) /\ Owed(ledgers'[c])
         /\ ~OlderRecorded' => \A c \in DOMAIN ledgers' : Plain(ledgers'[c])
         /\ \A c : WordsIn(c)' = WordsIn(c)
<1>1. OlderRecorded' <=> OlderRecorded
  BY DEF OlderRecorded, RowsOf
<1>2. LedgersShaped'
  BY DEF DeployInv, LedgersShaped, Misplaced
<1>3. \A c : WordsIn(c)' = WordsIn(c)
  BY DEF WordsIn
<1> QED BY <1>1, <1>2, <1>3 DEF DeployInv, ContractsStand

-----------------------------------------------------------------------------
(* The start.                                                                 *)

LEMMA WalkStepsKeep ==
  ASSUME DeployInv, Boots \/ Dies \/ Passes \/ Unmaps \/ Claims
  PROVE  DeployInv'
<1>0. DeployTyped /\ WalkRight /\ WordsStand /\ ContractsStand /\ LedgersShaped
  BY DEF DeployInv
<1>1. ledgers' = ledgers /\ says' = says
  BY DEF Boots, Dies, Passes, Unmaps, Claims
<1>2. /\ LedgersShaped' /\ Len(ledgers') = Len(ledgers) /\ DOMAIN ledgers' = DOMAIN ledgers
      /\ OlderRecorded' => \A c \in DOMAIN ledgers' : Ordered(ledgers'[c]) /\ Owed(ledgers'[c])
      /\ ~OlderRecorded' => \A c \in DOMAIN ledgers' : Plain(ledgers'[c])
      /\ \A c : WordsIn(c)' = WordsIn(c)
  BY <1>1, NoneTouched
<1>3. CASE Boots
  <2>1. /\ startup = "down" /\ startup' = "walking" /\ wording' \in Deployed
        /\ served' = served /\ successor' = successor /\ reconciled' = reconciled
        /\ within' = within /\ leftBehind' = leftBehind
    BY <1>3 DEF Boots
  <2>2. within = "none"
    BY <2>1, <1>0 DEF WalkRight, DeployTyped
  <2>3. DeployTyped'
    BY <2>1, <1>0, <1>1, DeploymentsAssumption DEF DeployTyped
  <2>4. WalkRight'
    BY <2>1, <2>2 DEF WalkRight
  <2>5. WordsStand'
    BY <2>1, <1>0, <1>2 DEF WordsStand
  <2>6. ContractsStand'
    BY <2>1, <2>2, <1>0, <1>1, <1>2 DEF ContractsStand
  <2> QED BY <2>3, <2>4, <2>5, <2>6, <1>2 DEF DeployInv
<1>4. CASE Dies
  <2>1. /\ startup' = "down" /\ reconciled' = {} /\ within' = "none" /\ successor' = 0
        /\ leftBehind' = leftBehind \cup (IF startup = "unmapped" THEN WordsIn(successor) ELSE {})
        /\ served' = served /\ wording' = wording
    BY <1>4 DEF Dies
  <2>3. DeployTyped'
    BY <2>1, <1>0, <1>1 DEF DeployTyped
  <2>4. WalkRight'
    BY <2>1 DEF WalkRight
  <2>5. WordsStand'
    BY <2>1, <1>0, <1>2 DEF WordsStand
  <2>6. ContractsStand'
    BY <2>1, <1>2 DEF ContractsStand
  <2> QED BY <2>3, <2>4, <2>5, <2>6, <1>2 DEF DeployInv
<1>5. CASE Passes
  <2>1. /\ startup = "walking" /\ (served # 0 => StandsAsIs(served)) /\ startup' = "serving"
        /\ served' = served /\ wording' = wording /\ successor' = successor
        /\ reconciled' = reconciled /\ within' = within /\ leftBehind' = leftBehind
    BY <1>5 DEF Passes
  <2>2. within = "none"
    BY <2>1, <1>0 DEF WalkRight, DeployTyped
  <2>3. served # 0 => ledgers[served][1] = Prompt(wording)
    <3>1. served # 0 => ledgers[served] # <<>>
      BY <1>0, LedgerFacts DEF LedgersShaped, Shaped
    <3> QED BY <3>1, <2>1 DEF StandsAsIs
  <2>4. DeployTyped'
    BY <2>1, <1>0, <1>1 DEF DeployTyped
  <2>5. WalkRight'
    BY <2>1, <2>2, <2>3, <1>1 DEF WalkRight
  <2>6. WordsStand'
    BY <2>1, <1>0, <1>2 DEF WordsStand
  <2>7. ContractsStand'
    BY <2>1, <2>2, <1>0, <1>1, <1>2 DEF ContractsStand
  <2> QED BY <2>4, <2>5, <2>6, <2>7, <1>2 DEF DeployInv
<1>6. CASE Unmaps
  <2>1. /\ startup = "composed" /\ startup' = "unmapped" /\ served' = 0 /\ wording' = wording
        /\ successor' = successor /\ reconciled' = reconciled /\ within' = within
        /\ leftBehind' = leftBehind
    BY <1>6 DEF Unmaps
  <2>2. within = "none"
    BY <2>1, <1>0 DEF WalkRight, DeployTyped
  <2>3. DeployTyped'
    BY <2>1, <1>0, <1>1 DEF DeployTyped
  <2>4. WalkRight'
    BY <2>1, <2>2, <1>0, <1>1 DEF WalkRight
  <2>5. WordsStand'
    BY <2>1, <1>0, <1>2 DEF WordsStand
  <2>6. ContractsStand'
    BY <2>1, <2>2, <1>0, <1>1, <1>2 DEF ContractsStand
  <2> QED BY <2>3, <2>4, <2>5, <2>6, <1>2 DEF DeployInv
<1>7. CASE Claims
  <2>1. /\ startup = "unmapped" /\ startup' = "walking" /\ served' = successor /\ successor' = 0
        /\ wording' = wording /\ reconciled' = reconciled /\ within' = within
        /\ leftBehind' = leftBehind
    BY <1>7 DEF Claims
  <2>2. within = "none" /\ successor # 0
    BY <2>1, <1>0 DEF WalkRight, DeployTyped
  <2>3. DeployTyped'
    BY <2>1, <1>0, <1>1 DEF DeployTyped
  <2>4. WalkRight'
    BY <2>1, <2>2 DEF WalkRight
  <2>5. WordsStand'
    BY <2>1, <2>2, <1>0, <1>2 DEF WordsStand
  <2>6. ContractsStand'
    BY <2>1, <2>2, <1>0, <1>1, <1>2 DEF ContractsStand
  <2> QED BY <2>3, <2>4, <2>5, <2>6, <1>2 DEF DeployInv
<1> QED BY <1>3, <1>4, <1>5, <1>6, <1>7

(* A fresh ledger of a prompt, and the choice perhaps.                        *)
LEMMA FreshLedger ==
  ASSUME NEW new \in Seq(LedgerRows), new # <<>>,
         \A i \in DOMAIN new : new[i] = SendingChoice \/ (i = 1 /\ new[i] = Prompt(wording)), wording \in Nat
  PROVE  /\ Shaped(new) /\ Ordered(new) /\ Owed(new) /\ Plain(new)
         /\ \A i \in DOMAIN new : new[i].kind = "prompt" => i = 1
         /\ WordsOf(new) = {}
<1>1. \A i \in DOMAIN new : /\ new[i].kind \in {"prompt", "choice"} /\ new[i].retold = {}
                            /\ new[i].kind = "prompt" => i = 1
                            /\ new[i] # OlderChoice
  BY RowIs
<1>2. Shaped(new) /\ Ordered(new) /\ Owed(new) /\ Plain(new)
  BY <1>1 DEF Shaped, OneOf, Ordered, Owed, NoneRelayed, Plain
<1>3. WordsOf(new) = {}
  <2>1. \A row \in ToSet(new) : row.kind \in {"prompt", "choice"} /\ row.retold = {}
    BY <1>1 DEF ToSet
  <2> QED BY <2>1 DEF WordsOf, IsWords
<1> QED BY <1>1, <1>2, <1>3

LEMMA ForksKeep ==
  ASSUME DeployInv, Forks
  PROVE  DeployInv'
<1>0. DeployTyped /\ WalkRight /\ WordsStand /\ ContractsStand /\ LedgersShaped
  BY DEF DeployInv
<1> DEFINE new == <<Prompt(wording)>>
           n   == Len(ledgers) + 1
<1>1. /\ startup = "walking" /\ served # 0 /\ ledgers' = Append(ledgers, new)
      /\ successor' = Len(ledgers') /\ startup' = "cloning"
      /\ served' = served /\ wording' = wording /\ reconciled' = reconciled /\ within' = within
      /\ says' = says /\ leftBehind' = leftBehind
  BY DEF Forks
<1>2. /\ new \in Seq(LedgerRows) /\ new # <<>> /\ DOMAIN new = {1} /\ new[1] = Prompt(wording)
  <2>1. Prompt(wording) \in LedgerRows
    BY <1>0, RowIs DEF DeployTyped
  <2> QED BY <2>1
<1>3. /\ Shaped(new) /\ Ordered(new) /\ Owed(new) /\ Plain(new)
      /\ \A i \in DOMAIN new : new[i].kind = "prompt" => i = 1
      /\ WordsOf(new) = {}
  <2>1. wording \in Nat
    BY <1>0 DEF DeployTyped
  <2> HIDE DEF new
  <2> QED BY <1>2, <2>1, FreshLedger
<1> HIDE DEF new
<1>4. /\ Len(ledgers) \in Nat /\ Len(ledgers) >= 1 /\ ledgers \in Seq(Seq(LedgerRows))
      /\ served \in 1 .. Len(ledgers)
  BY <1>0, <1>1, LedgerFacts DEF DeployTyped
<1>5. /\ ledgers' \in Seq(Seq(LedgerRows)) /\ Len(ledgers') = n
      /\ ledgers'[n] = new /\ \A c \in 1 .. Len(ledgers) : ledgers'[c] = ledgers[c]
  BY <1>1, <1>2, <1>4
<1>6. n \in 1 .. Len(ledgers') /\ \A c \in 1 .. Len(ledgers') : c # n => c \in 1 .. Len(ledgers)
  BY <1>4, <1>5
<1>7. n \in 2 .. n /\ n # 1 /\ n \notin 1 .. Len(ledgers) /\ 1 .. Len(ledgers) \subseteq 1 .. n
      /\ \A c \in 0 .. Len(ledgers) : c \in 0 .. n
  BY <1>4
<1>8. /\ LedgersShaped' /\ DOMAIN ledgers' = 1 .. Len(ledgers') /\ Len(ledgers') >= 1
      /\ OlderRecorded' => \A c \in DOMAIN ledgers' : Ordered(ledgers'[c]) /\ Owed(ledgers'[c])
      /\ ~OlderRecorded' => \A c \in DOMAIN ledgers' : Plain(ledgers'[c])
  <2>1. Shaped(ledgers'[n]) /\ (n = 1 => FALSE)
    BY <1>3, <1>5, <1>7
  <2>2. \A i \in DOMAIN ledgers'[n] : ledgers'[n][i].kind = "prompt" => i = 1
    BY <1>3, <1>5
  <2>3. Ordered(ledgers'[n]) /\ Owed(ledgers'[n]) /\ Plain(ledgers'[n])
    BY <1>3, <1>5
  <2>4. Len(ledgers') = Len(ledgers) \/ Len(ledgers') = Len(ledgers) + 1
    BY <1>5
  <2> HIDE DEF n
  <2> QED BY <2>1, <2>2, <2>3, <2>4, <1>5, <1>6, OneTouched
<1> HIDE DEF n
<1>9. DeployTyped'
  BY <1>0, <1>1, <1>5, <1>7, <1>8 DEF DeployTyped
<1>10. WalkRight'
  <2>1. successor' = n /\ n \notin reconciled /\ served # n
    BY <1>0, <1>1, <1>4, <1>5, <1>7 DEF DeployTyped
  <2>2. within = "none"
    BY <1>0, <1>1 DEF WalkRight, DeployTyped
  <2>3. ledgers'[successor'] = <<Prompt(wording)>> /\ ledgers'[successor'][1] = Prompt(wording)
    BY <2>1, <1>2, <1>5 DEF new
  <2> QED BY <2>1, <2>2, <2>3, <1>1, <1>5, <1>7 DEF WalkRight
<1>11. WordsStand'
  <2>1. WordsOf(ledgers'[n]) = {}
    BY <1>3, <1>5
  <2>2. \A c \in 1 .. Len(ledgers) : WordsOf(ledgers[c]) \subseteq WordsOf(ledgers[served]) \cup leftBehind
    BY <1>0, <1>1, LedgerFacts DEF WordsStand, WordsIn
  <2>3. ledgers'[served'] = ledgers[served]
    BY <1>1, <1>4, <1>5
  <2>4. \A c \in DOMAIN ledgers' : WordsOf(ledgers'[c]) \subseteq WordsOf(ledgers'[served']) \cup leftBehind'
    BY <2>1, <2>2, <2>3, <1>1, <1>5, <1>6, <1>8
  <2> QED BY <2>4, <1>1 DEF WordsStand, WordsIn
<1>12. ContractsStand'
  <2>1. \A c \in reconciled : c \in 1 .. Len(ledgers)
    BY <1>0 DEF DeployTyped
  <2>2. within = "none"
    BY <1>0, <1>1 DEF WalkRight, DeployTyped
  <2> QED BY <2>1, <2>2, <1>0, <1>1, <1>5, <1>8 DEF ContractsStand
<1> QED BY <1>8, <1>9, <1>10, <1>11, <1>12 DEF DeployInv

(* What a successor takes over: with the row past the head left out or not,   *)
(* to the end, or to a prompt further in.                                     *)
Takes(rows, l, s) ==
    /\ rows \in Seq(LedgerRows) /\ s \in {0, 1}
    /\ \A i \in DOMAIN rows : i + s \in DOMAIN l /\ rows[i] = l[i + s] /\ rows[i].kind # "prompt"

LEMMA InheritedIs ==
  ASSUME NEW c, Shaped(ledgers[c])
  PROVE  \E s \in {0, 1} :
            /\ Takes(Inherited(c), ledgers[c], s)
            /\ \/ /\ Len(Inherited(c)) + s = Len(ledgers[c])
                  /\ s = 1 => ledgers[c][1].kind = "prompt"
               \/ /\ s = 0
                  /\ \E m \in DOMAIN ledgers[c] :
                        m # 1 /\ ledgers[c][m].kind = "prompt" /\ Len(Inherited(c)) = m - 1
<1> DEFINE l  == ledgers[c]
           at == Places(c, "prompt")
<1>1. l \in Seq(LedgerRows) /\ l # <<>> /\ Len(l) \in Nat \ {0} /\ DOMAIN l = 1 .. Len(l)
  BY DEF Shaped
<1>2. at = {i \in DOMAIN l : l[i].kind = "prompt"} /\ \A i, j \in at : i = j
  BY DEF Places, Shaped, OneOf
<1>3. CASE at = {}
  <2>1. Inherited(c) = l
    BY <1>3 DEF Inherited
  <2>2. Takes(l, l, 0)
    BY <1>1, <1>2, <1>3 DEF Takes
  <2> QED BY <2>1, <2>2, <1>1
<1>4. CASE 1 \in at
  <2>1. Inherited(c) = Tail(l)
    BY <1>4 DEF Inherited
  <2>2. Tail(l) \in Seq(LedgerRows) /\ Len(Tail(l)) = Len(l) - 1
        /\ \A i \in 1 .. Len(l) - 1 : Tail(l)[i] = l[i + 1]
    BY <1>1
  <2>3. DOMAIN Tail(l) = 1 .. Len(l) - 1
    BY <2>2
  <2>4. ASSUME NEW i \in 1 .. Len(l) - 1
        PROVE  i + 1 \in DOMAIN l /\ i + 1 # 1
    BY <1>1
  <2>5. \A i \in 1 .. Len(l) - 1 : l[i + 1].kind # "prompt"
    BY <2>4, <1>2, <1>4
  <2>6. Takes(Tail(l), l, 1)
    BY <2>2, <2>3, <2>4, <2>5 DEF Takes
  <2>7. Len(Tail(l)) + 1 = Len(l) /\ l[1].kind = "prompt"
    BY <2>2, <1>1, <1>2, <1>4
  <2> QED BY <2>1, <2>6, <2>7
<1>5. CASE at # {} /\ 1 \notin at
  <2>1. PICK m \in DOMAIN l : at = {m} /\ m # 1 /\ l[m].kind = "prompt"
    BY <1>2, <1>5
  <2>2. Min(at) = m
    BY <2>1, <1>1 DEF Min
  <2>3. Inherited(c) = SubSeq(l, 1, m - 1)
    BY <2>2, <1>5 DEF Inherited
  <2> DEFINE rows == SubSeq(l, 1, m - 1)
  <2>4. m - 1 \in Nat /\ m - 1 <= Len(l) /\ m \in Nat
    BY <1>1, <2>1
  <2>5. rows \in Seq(LedgerRows) /\ Len(rows) = m - 1 /\ \A i \in 1 .. m - 1 : rows[i] = l[i]
    BY <1>1, <2>4, SubSeqProperties
  <2> HIDE DEF rows
  <2>6. DOMAIN rows = 1 .. m - 1
    BY <2>5
  <2>7. \A i \in 1 .. m - 1 : i + 0 = i /\ i \in DOMAIN l /\ i # m
    BY <1>1, <2>1
  <2>8. \A i \in 1 .. m - 1 : l[i].kind # "prompt"
    BY <2>7, <2>1, <1>2
  <2>9. Takes(rows, l, 0)
    BY <2>5, <2>6, <2>7, <2>8 DEF Takes
  <2> QED BY <2>1, <2>3, <2>5, <2>9 DEF rows
<1> QED BY <1>3, <1>4, <1>5

LEMMA Headed ==
  ASSUME NEW rows \in Seq(LedgerRows), NEW w \in Nat
  PROVE  /\ <<Prompt(w)>> \o rows \in Seq(LedgerRows)
         /\ Len(<<Prompt(w)>> \o rows) = Len(rows) + 1
         /\ (<<Prompt(w)>> \o rows)[1] = Prompt(w)
         /\ \A i \in DOMAIN rows : (<<Prompt(w)>> \o rows)[i + 1] = rows[i]
         /\ WordsOf(<<Prompt(w)>> \o rows) = WordsOf(rows)
<1> DEFINE p   == <<Prompt(w)>>
           new == p \o rows
<1>1. /\ Prompt(w) \in LedgerRows /\ Prompt(w).kind = "prompt" /\ Prompt(w).retold = {}
  BY RowIs
<1>2. p \in Seq(LedgerRows) /\ Len(p) = 1 /\ p[1] = Prompt(w)
  BY <1>1
<1> HIDE DEF p
<1>3. /\ new \in Seq(LedgerRows) /\ Len(new) = 1 + Len(rows) /\ new[1] = Prompt(w)
      /\ \A i \in 1 .. 1 + Len(rows) : new[i] = IF i <= 1 THEN p[i] ELSE rows[i - 1]
  <2>1. /\ new \in Seq(LedgerRows) /\ Len(new) = Len(p) + Len(rows)
        /\ \A i \in 1 .. Len(p) + Len(rows) : new[i] = IF i <= Len(p) THEN p[i] ELSE rows[i - Len(p)]
    BY <1>2, ConcatProperties
  <2>2. 1 \in 1 .. 1 + Len(rows)
    OBVIOUS
  <2> HIDE DEF new
  <2> QED BY <1>2, <2>1, <2>2
<1> HIDE DEF new
<1>4. ASSUME NEW i \in DOMAIN rows PROVE new[i + 1] = rows[i]
  <2>1. i + 1 \in 1 .. 1 + Len(rows) /\ ~(i + 1 <= 1) /\ (i + 1) - 1 = i
    OBVIOUS
  <2> QED BY <2>1, <1>3
<1>5. ToSet(new) = ToSet(rows) \cup {Prompt(w)}
  <2>1. \A i \in DOMAIN new : i = 1 \/ \E j \in DOMAIN rows : i = j + 1
    <3> SUFFICES ASSUME NEW i \in DOMAIN new, i # 1 PROVE \E j \in DOMAIN rows : i = j + 1
      OBVIOUS
    <3>1. i - 1 \in DOMAIN rows /\ i = (i - 1) + 1
      BY <1>3
    <3> QED BY <3>1
  <2>2. 1 \in DOMAIN new /\ \A j \in DOMAIN rows : j + 1 \in DOMAIN new
    BY <1>3
  <2>3. ToSet(new) \subseteq ToSet(rows) \cup {Prompt(w)}
    <3> SUFFICES ASSUME NEW i \in DOMAIN new PROVE new[i] = Prompt(w) \/ \E j \in DOMAIN rows : new[i] = rows[j]
      BY DEF ToSet
    <3> QED BY <2>1, <1>3, <1>4
  <2>4. Prompt(w) \in ToSet(new) /\ ToSet(rows) \subseteq ToSet(new)
    <3>1. \A j \in DOMAIN rows : \E i \in DOMAIN new : new[i] = rows[j]
      BY <2>2, <1>4
    <3>2. ASSUME NEW r \in ToSet(rows) PROVE r \in ToSet(new)
      <4>1. PICK j \in DOMAIN rows : r = rows[j]
        BY <3>2 DEF ToSet
      <4> QED BY <4>1, <3>1 DEF ToSet
    <3>3. Prompt(w) \in ToSet(new)
      BY <2>2, <1>3 DEF ToSet
    <3> QED BY <3>2, <3>3
  <2> QED BY <2>3, <2>4
<1>6. WordsOf(new) = WordsOf(rows)
  BY <1>1, <1>5 DEF WordsOf, IsWords
<1>7. Len(new) = Len(rows) + 1
  BY <1>3
<1> QED BY <1>3, <1>4, <1>6, <1>7 DEF new, p

LEMMA HeadedCarries ==
  ASSUME NEW rows, NEW l \in Seq(LedgerRows), NEW s, Takes(rows, l, s), NEW w \in Nat
  PROVE  /\ Carries(<<Prompt(w)>> \o rows, l, 1, s)
         /\ Len(rows) + s = Len(l) => ToTheEnd(<<Prompt(w)>> \o rows, l, 1, s)
<1> DEFINE new == <<Prompt(w)>> \o rows
<1>0. rows \in Seq(LedgerRows) /\ s \in {0, 1} /\ Len(rows) \in Nat /\ DOMAIN rows = 1 .. Len(rows)
  BY DEF Takes
<1>1. /\ new \in Seq(LedgerRows) /\ Len(new) = Len(rows) + 1 /\ new[1] = Prompt(w)
      /\ \A i \in DOMAIN rows : new[i + 1] = rows[i]
  BY <1>0, Headed
<1> HIDE DEF new
<1>2. ASSUME NEW i \in 1 + 1 .. Len(new)
      PROVE  (i - 1) + s \in 1 .. Len(l) /\ new[i] = l[(i - 1) + s] /\ new[i].kind # "prompt"
  <2> DEFINE j == i - 1
  <2>1. j \in DOMAIN rows /\ i = j + 1
    BY <1>0, <1>1
  <2> HIDE DEF j
  <2>2. new[i] = rows[j] /\ rows[j] = l[j + s] /\ j + s \in 1 .. Len(l) /\ rows[j].kind # "prompt"
    BY <2>1, <1>1 DEF Takes
  <2> QED BY <2>2 DEF j
<1>3. \A i \in 1 .. 1 : new[i].kind = "prompt" /\ i = 1
  BY <1>1, RowIs
<1>4. Carries(new, l, 1, s)
  BY <1>0, <1>1, <1>2, <1>3 DEF Carries
<1>5. Len(rows) + s = Len(l) => Len(new) - 1 = Len(l) - s
  BY <1>0, <1>1
<1> QED BY <1>4, <1>5 DEF ToTheEnd, new

(* Where a misplaced prompt cuts it short, an answer taken over has its older *)
(* contract taken over with it.                                               *)
LEMMA CutShortOwed ==
  ASSUME NEW l \in Ledgers, NEW rows, Takes(rows, l, 0), NEW w \in Nat,
         NEW m \in DOMAIN l, l[m].kind = "prompt", Len(rows) = m - 1,
         \E i \in DOMAIN l : l[i] = OlderChoice
  PROVE  Owed(<<Prompt(w)>> \o rows)
<1> DEFINE new == <<Prompt(w)>> \o rows
           at  == {i \in DOMAIN rows : rows[i].kind = "choice"}
<1>0. /\ rows \in Seq(LedgerRows) /\ Len(rows) \in Nat /\ DOMAIN rows = 1 .. Len(rows)
      /\ l \in Seq(LedgerRows) /\ OlderContract(l)
      /\ \A i \in DOMAIN rows : i \in DOMAIN l /\ rows[i] = l[i]
  BY DeploymentsAssumption DEF Takes
<1>1. /\ new \in Seq(LedgerRows) /\ Len(new) = Len(rows) + 1 /\ new[1].kind = "prompt"
      /\ \A i \in DOMAIN rows : new[i + 1] = rows[i]
  BY <1>0, Headed, RowIs
<1>2. \A i \in DOMAIN new : i = 1 \/ \E j \in DOMAIN rows : i = j + 1 /\ new[i] = rows[j]
  <2> SUFFICES ASSUME NEW i \in DOMAIN new, i # 1 PROVE \E j \in DOMAIN rows : i = j + 1
    BY <1>1
  <2>1. i - 1 \in DOMAIN rows /\ i = (i - 1) + 1
    BY <1>0, <1>1
  <2> QED BY <2>1
<1> HIDE DEF new
<1> SUFFICES ASSUME NEW x \in DOMAIN new, new[x].kind = "relayed" PROVE NewestRow(new, OlderChoice)
  BY DEF Owed, NoneRelayed, new
<1>3. PICK r \in DOMAIN rows : l[r].kind = "relayed" /\ r \in DOMAIN l /\ r < m
  <2>1. PICK r \in DOMAIN rows : new[x] = rows[r]
    BY <1>1, <1>2
  <2>2. r < m
    BY <1>0
  <2> QED BY <2>1, <2>2, <1>0
<1>4. OlderChoice \in ToSet(l) /\ SendingChoice \notin ToSet(l)
  BY <1>0 DEF OlderContract, ToSet
<1>5. PICK h \in 1 .. m - 1 : l[h] = OlderChoice
  BY <1>0, <1>3, <1>4 DEF OlderContract
<1>6. h \in at
  <2>1. h \in DOMAIN rows
    BY <1>0
  <2> QED BY <2>1, <1>0, <1>5, RowIs
<1>7. at \subseteq 1 .. Len(rows)
  BY <1>0
<1>8. PICK i \in at : \A j \in at : j <= i
  <2> HIDE DEF at
  <2> QED BY <1>0, <1>6, <1>7, LastExists
<1>9. rows[i] = OlderChoice
  <2>1. rows[i] \in ToSet(l) /\ rows[i] \in LedgerRows /\ rows[i].kind = "choice"
    BY <1>0, <1>8 DEF ToSet
  <2> QED BY <2>1, <1>4, RowIs
<1>10. i + 1 \in DOMAIN new /\ new[i + 1] = OlderChoice
  BY <1>0, <1>1, <1>8, <1>9
<1>11. ASSUME NEW y \in DOMAIN new, new[y].kind = "choice" PROVE y <= i + 1
  <2>1. PICK j \in DOMAIN rows : y = j + 1 /\ new[y] = rows[j]
    BY <1>1, <1>2, <1>11
  <2>2. j <= i
    BY <2>1, <1>8, <1>11
  <2> QED BY <2>1, <2>2, <1>0, <1>8
<1> QED BY <1>10, <1>11, RowIs DEF NewestRow

LEMMA ClonesRowsKeep ==
  ASSUME DeployInv, ClonesRows
  PROVE  DeployInv'
<1>0. DeployTyped /\ WalkRight /\ WordsStand /\ ContractsStand /\ LedgersShaped
  BY DEF DeployInv
<1> DEFINE l    == ledgers[served]
           rows == Inherited(served)
           new  == <<Prompt(wording)>> \o rows
           t    == successor
<1>1. /\ startup = "cloning" /\ startup' = "composed"
      /\ ledgers' = [ledgers EXCEPT ![successor] = @ \o rows]
      /\ leftBehind' = leftBehind \cup (WordsIn(served) \ WordsOf(rows))
      /\ served' = served /\ wording' = wording /\ successor' = successor
      /\ reconciled' = reconciled /\ within' = within /\ says' = says
  BY DEF ClonesRows
<1>2. /\ t \in 2 .. Len(ledgers) /\ t \notin reconciled /\ ledgers[t] = <<Prompt(wording)>>
      /\ served # 0 /\ served # t
  BY <1>0, <1>1 DEF WalkRight
<1>3. /\ Len(ledgers) \in Nat /\ Len(ledgers) >= 1 /\ ledgers \in Seq(Seq(LedgerRows))
      /\ served \in 1 .. Len(ledgers) /\ DOMAIN ledgers = 1 .. Len(ledgers) /\ wording \in Nat
  BY <1>0, <1>2, LedgerFacts DEF DeployTyped
<1>4. t \in 1 .. Len(ledgers) /\ t # 1
  BY <1>2, <1>3
<1>5. Shaped(l) /\ l \in Seq(LedgerRows) /\ (Misplaced(served) => served = 1 /\ l \in Ledgers)
  BY <1>0, <1>3 DEF LedgersShaped, Shaped
<1>6. PICK s \in {0, 1} :
            /\ Takes(rows, l, s)
            /\ \/ /\ Len(rows) + s = Len(l)
                  /\ s = 1 => l[1].kind = "prompt"
               \/ /\ s = 0
                  /\ \E m \in DOMAIN l : m # 1 /\ l[m].kind = "prompt" /\ Len(rows) = m - 1
  BY <1>5, InheritedIs
<1>7. rows \in Seq(LedgerRows)
  BY <1>6 DEF Takes
<1> HIDE DEF rows, l
<1>8. /\ new \in Seq(LedgerRows) /\ new[1] = Prompt(wording) /\ WordsOf(new) = WordsOf(rows)
  BY <1>3, <1>7, Headed
<1>9. Carries(new, l, 1, s) /\ (Len(rows) + s = Len(l) => ToTheEnd(new, l, 1, s))
  BY <1>3, <1>5, <1>6, HeadedCarries
<1>10. ledgers' = [ledgers EXCEPT ![t] = new]
  BY <1>1, <1>2, <1>3, <1>4
<1> HIDE DEF new
<1>11. /\ ledgers' \in Seq(Seq(LedgerRows)) /\ Len(ledgers') = Len(ledgers)
       /\ ledgers'[t] = new /\ \A c \in 1 .. Len(ledgers') : c # t => ledgers'[c] = ledgers[c]
  BY <1>3, <1>4, <1>8, <1>10
<1>12. Shaped(new) /\ \A i \in DOMAIN new : new[i].kind = "prompt" => i = 1
  BY <1>5, <1>9, CarryShaped
<1>13. new[1].kind = "prompt" /\ new[1] # OlderChoice
  BY <1>3, <1>8, RowIs
<1>14. OlderRecorded => Ordered(new) /\ Owed(new)
  <2> SUFFICES ASSUME OlderRecorded PROVE Ordered(new) /\ Owed(new)
    OBVIOUS
  <2>1. Ordered(l) /\ Owed(l)
    BY <1>0, <1>3 DEF ContractsStand, l
  <2>2. Ordered(new)
    BY <2>1, <1>9, CarryOrdered
  <2>3. CASE Len(rows) + s = Len(l) /\ (s = 1 => l[1].kind = "prompt")
    <3>1. \A p \in DOMAIN l : l[p].kind = "choice" => p > s
      <4> SUFFICES ASSUME NEW p \in DOMAIN l, l[p].kind = "choice" PROVE p > s
        OBVIOUS
      <4>1. DOMAIN l = 1 .. Len(l) /\ Len(l) \in Nat
        BY <1>5
      <4>2. s = 1 => p # 1
        BY <2>3
      <4> QED BY <4>1, <4>2
    <3>2. NewestRow(l, OlderChoice) => NewestRow(new, OlderChoice)
      BY <1>9, <2>3, <3>1, CarryNewest
    <3>3. Owed(new)
      BY <1>5, <1>9, <2>1, <2>3, <3>2, CarryOwed
    <3> QED BY <2>2, <3>3
  <2>4. CASE s = 0 /\ \E m \in DOMAIN l : m # 1 /\ l[m].kind = "prompt" /\ Len(rows) = m - 1
    <3>1. PICK m \in DOMAIN l : m # 1 /\ l[m].kind = "prompt" /\ Len(rows) = m - 1
      BY <2>4
    <3>2. Misplaced(served)
      BY <3>1 DEF Misplaced, l
    <3>3. served = 1 /\ l \in Ledgers
      BY <3>2, <1>5
    <3>4. \E i \in DOMAIN l : l[i] = OlderChoice
      BY <3>3, <1>0, LedgerFacts DEF l
    <3>5. Takes(rows, l, 0)
      BY <1>6, <2>4
    <3>6. Owed(<<Prompt(wording)>> \o rows)
      BY <3>1, <3>3, <3>4, <3>5, <1>3, CutShortOwed
    <3> QED BY <2>2, <3>6 DEF new
  <2> QED BY <2>3, <2>4, <1>6
<1>15. ~OlderRecorded => Plain(new)
  <2> SUFFICES ASSUME ~OlderRecorded PROVE Plain(new)
    OBVIOUS
  <2>1. Plain(l)
    BY <1>0, <1>3 DEF ContractsStand, l
  <2>2. \A i \in 1 .. 1 : new[i] # OlderChoice
    BY <1>13
  <2> QED BY <2>1, <2>2, <1>9, CarryPlain
<1>16. /\ LedgersShaped' /\ DOMAIN ledgers' = 1 .. Len(ledgers') /\ Len(ledgers') >= 1
       /\ OlderRecorded' => \A c \in DOMAIN ledgers' : Ordered(ledgers'[c]) /\ Owed(ledgers'[c])
       /\ ~OlderRecorded' => \A c \in DOMAIN ledgers' : Plain(ledgers'[c])
  <2>1. t \in 1 .. Len(ledgers') /\ \A c \in 1 .. Len(ledgers') : c # t => c \in 1 .. Len(ledgers) /\ ledgers'[c] = ledgers[c]
    BY <1>4, <1>11
  <2>2. Shaped(ledgers'[t]) /\ (t = 1 => FALSE)
    BY <1>4, <1>11, <1>12
  <2>3. \A i \in DOMAIN ledgers'[t] : ledgers'[t][i].kind = "prompt" => i = 1
    BY <1>11, <1>12
  <2>4. (OlderRecorded => Ordered(ledgers'[t]) /\ Owed(ledgers'[t])) /\ (~OlderRecorded => Plain(ledgers'[t]))
    BY <1>11, <1>14, <1>15
  <2> HIDE DEF t
  <2> QED BY <2>1, <2>2, <2>3, <2>4, <1>11, OneTouched
<1>17. DeployTyped'
  BY <1>0, <1>1, <1>11, <1>16 DEF DeployTyped
<1>18. WalkRight'
  <2>1. within = "none"
    BY <1>0, <1>1 DEF WalkRight, DeployTyped
  <2>2. ledgers'[successor'][1] = Prompt(wording)
    BY <1>1, <1>8, <1>11
  <2> QED BY <2>1, <2>2, <1>1, <1>2, <1>11 DEF WalkRight
<1>19. WordsOf(rows) \subseteq WordsOf(l)
  <2>1. \A i \in DOMAIN rows : \E j \in DOMAIN l : l[j] = rows[i]
    BY <1>6 DEF Takes
  <2> QED BY <2>1, WordsMono
<1>20. WordsStand'
  <2>1. \A c \in 1 .. Len(ledgers) : WordsOf(ledgers[c]) \subseteq WordsOf(l) \cup leftBehind
    BY <1>0, <1>2, <1>3 DEF WordsStand, WordsIn, l
  <2>2. ledgers'[served'] = l /\ ledgers'[successor'] = new
    BY <1>1, <1>2, <1>3, <1>11 DEF l
  <2>3. leftBehind' = leftBehind \cup (WordsOf(l) \ WordsOf(rows))
    BY <1>1 DEF WordsIn, l
  <2>4. \A c \in DOMAIN ledgers' : WordsOf(ledgers'[c]) \subseteq WordsOf(l) \cup leftBehind
    <3> SUFFICES ASSUME NEW c \in DOMAIN ledgers' PROVE WordsOf(ledgers'[c]) \subseteq WordsOf(l) \cup leftBehind
      OBVIOUS
    <3>1. CASE c = t
      BY <3>1, <1>8, <1>11, <1>19
    <3>2. CASE c # t
      BY <3>2, <2>1, <1>11, <1>16
    <3> QED BY <3>1, <3>2
  <2>5. \A c \in DOMAIN ledgers' : WordsOf(ledgers'[c]) \subseteq WordsOf(ledgers'[served']) \cup leftBehind'
    BY <2>2, <2>3, <2>4
  <2>6. \A c \in DOMAIN ledgers' : WordsOf(ledgers'[c]) \subseteq WordsOf(ledgers'[successor']) \cup leftBehind'
    BY <2>2, <2>3, <2>4, <1>8
  <2> QED BY <2>5, <2>6, <1>1, <1>2 DEF WordsStand, WordsIn
<1>21. ContractsStand'
  <2>1. within = "none"
    BY <1>0, <1>1 DEF WalkRight, DeployTyped
  <2>2. \A c \in reconciled : c \in 1 .. Len(ledgers) /\ c # t
    BY <1>0, <1>2 DEF DeployTyped
  <2>3. \A c \in reconciled' : NewestRow(ledgers'[c], SendingChoice)
    BY <2>2, <1>0, <1>1, <1>11 DEF ContractsStand
  <2> QED BY <2>1, <2>3, <1>1, <1>16 DEF ContractsStand
<1> QED BY <1>16, <1>17, <1>18, <1>20, <1>21 DEF DeployInv

-----------------------------------------------------------------------------
(* A message comes in.                                                        *)

LEMMA FirstContactKeeps ==
  ASSUME DeployInv, FirstContact
  PROVE  DeployInv'
<1>0. DeployTyped /\ WalkRight /\ WordsStand /\ ContractsStand /\ LedgersShaped
  BY DEF DeployInv
<1> DEFINE new == <<Prompt(wording), SendingChoice>>
           n   == Len(ledgers) + 1
<1>1. /\ startup = "serving" /\ served = 0 /\ ledgers' = Append(ledgers, new)
      /\ served' = Len(ledgers')
      /\ startup' = startup /\ wording' = wording /\ reconciled' = reconciled /\ within' = within
      /\ says' = says /\ leftBehind' = leftBehind /\ successor' = successor
  BY DEF FirstContact
<1>2. /\ new \in Seq(LedgerRows) /\ new # <<>> /\ DOMAIN new = 1 .. 2 /\ new[1] = Prompt(wording)
      /\ new[2] = SendingChoice
  <2>1. Prompt(wording) \in LedgerRows /\ SendingChoice \in LedgerRows
    BY <1>0, RowIs DEF DeployTyped
  <2> QED BY <2>1
<1>3. /\ Shaped(new) /\ Ordered(new) /\ Owed(new) /\ Plain(new)
      /\ \A i \in DOMAIN new : new[i].kind = "prompt" => i = 1
      /\ WordsOf(new) = {}
  <2>1. wording \in Nat
    BY <1>0 DEF DeployTyped
  <2> HIDE DEF new
  <2>2. \A i \in DOMAIN new : new[i] = SendingChoice \/ (i = 1 /\ new[i] = Prompt(wording))
    BY <1>2
  <2> QED BY <1>2, <2>1, <2>2, FreshLedger
<1> HIDE DEF new
<1>4. /\ Len(ledgers) \in Nat /\ Len(ledgers) >= 1 /\ ledgers \in Seq(Seq(LedgerRows))
      /\ DOMAIN ledgers = 1 .. Len(ledgers)
  BY <1>0, LedgerFacts DEF DeployTyped
<1>5. /\ ledgers' \in Seq(Seq(LedgerRows)) /\ Len(ledgers') = n
      /\ ledgers'[n] = new /\ \A c \in 1 .. Len(ledgers) : ledgers'[c] = ledgers[c]
  BY <1>1, <1>2, <1>4
<1>6. n \in 1 .. Len(ledgers') /\ \A c \in 1 .. Len(ledgers') : c # n => c \in 1 .. Len(ledgers)
  BY <1>4, <1>5
<1>7. n \in 1 .. n /\ n # 1 /\ n # 0 /\ n \notin 1 .. Len(ledgers) /\ 1 .. Len(ledgers) \subseteq 1 .. n
      /\ (\A c \in 0 .. Len(ledgers) : c \in 0 .. n) /\ n \in 0 .. n
  BY <1>4
<1>8. /\ LedgersShaped' /\ DOMAIN ledgers' = 1 .. Len(ledgers') /\ Len(ledgers') >= 1
      /\ OlderRecorded' => \A c \in DOMAIN ledgers' : Ordered(ledgers'[c]) /\ Owed(ledgers'[c])
      /\ ~OlderRecorded' => \A c \in DOMAIN ledgers' : Plain(ledgers'[c])
  <2>1. Shaped(ledgers'[n]) /\ (n = 1 => FALSE)
    BY <1>3, <1>5, <1>7
  <2>2. \A i \in DOMAIN ledgers'[n] : ledgers'[n][i].kind = "prompt" => i = 1
    BY <1>3, <1>5
  <2>3. Ordered(ledgers'[n]) /\ Owed(ledgers'[n]) /\ Plain(ledgers'[n])
    BY <1>3, <1>5
  <2>4. Len(ledgers') = Len(ledgers) \/ Len(ledgers') = Len(ledgers) + 1
    BY <1>5
  <2> HIDE DEF n
  <2> QED BY <2>1, <2>2, <2>3, <2>4, <1>5, <1>6, OneTouched
<1> HIDE DEF n
<1>9. DeployTyped'
  BY <1>0, <1>1, <1>5, <1>7, <1>8 DEF DeployTyped
<1>10. within = "none"
  BY <1>0, <1>1 DEF WalkRight, DeployTyped
<1>11. WalkRight'
  BY <1>1, <1>2, <1>5, <1>10 DEF WalkRight
<1>12. WordsStand'
  <2>1. \A c \in 1 .. Len(ledgers) : WordsOf(ledgers[c]) \subseteq leftBehind
    BY <1>0, <1>1, <1>4 DEF WordsStand, WordsIn
  <2>2. \A c \in DOMAIN ledgers' : WordsOf(ledgers'[c]) \subseteq leftBehind
    BY <2>1, <1>3, <1>5, <1>6, <1>8
  <2> QED BY <2>2, <1>1, <1>5, <1>7 DEF WordsStand, WordsIn
<1>13. ContractsStand'
  <2>1. \A c \in reconciled : c \in 1 .. Len(ledgers)
    BY <1>0 DEF DeployTyped
  <2> QED BY <2>1, <1>0, <1>1, <1>5, <1>8, <1>10 DEF ContractsStand
<1> QED BY <1>8, <1>9, <1>11, <1>12, <1>13 DEF DeployInv

LEMMA PutKeeps ==
  ASSUME DeployInv, served # 0, startup = "serving", NEW r \in LedgerRows, Put(served, r),
         r.kind \notin {"prompt", "relayed"},
         r.kind = "notice" => ~Noticed(ledgers[served]),
         OlderRecorded => (r.kind \in {"said", "choice"} =>
                              NoneRelayed(ledgers[served]) \/ Noticed(ledgers[served])),
         ~OlderRecorded => r # OlderChoice /\ r.kind # "notice",
         UNCHANGED <<served, wording, startup, successor, leftBehind>>
  PROVE  /\ LedgersShaped' /\ ledgers' \in Seq(Seq(LedgerRows)) /\ Len(ledgers') = Len(ledgers)
         /\ DOMAIN ledgers' = DOMAIN ledgers
         /\ ledgers'[served] = Append(ledgers[served], r)
         /\ ledgers'[served][1] = Prompt(wording)
         /\ \A c \in DOMAIN ledgers : c # served => ledgers'[c] = ledgers[c]
         /\ OlderRecorded' => \A c \in DOMAIN ledgers' : Ordered(ledgers'[c]) /\ Owed(ledgers'[c])
         /\ ~OlderRecorded' => \A c \in DOMAIN ledgers' : Plain(ledgers'[c])
         /\ WordsStand'
<1>0. DeployTyped /\ WalkRight /\ WordsStand /\ ContractsStand /\ LedgersShaped
  BY DEF DeployInv
<1> DEFINE l   == ledgers[served]
           new == Append(l, r)
           t   == served
<1>1. /\ \A i \in DOMAIN l : l[i].kind = "prompt" => i = 1
      /\ 1 \in DOMAIN l /\ l[1] = Prompt(wording)
      /\ l \in Seq(LedgerRows) /\ Shaped(l)
  BY FirstPrompt
<1>2. /\ Len(ledgers) \in Nat /\ Len(ledgers) >= 1 /\ ledgers \in Seq(Seq(LedgerRows))
      /\ t \in 1 .. Len(ledgers) /\ DOMAIN ledgers = 1 .. Len(ledgers)
  BY <1>0, LedgerFacts DEF DeployTyped
<1>3. ledgers' = [ledgers EXCEPT ![t] = new]
  BY DEF Put
<1> HIDE DEF l
<1>4. /\ new \in Seq(LedgerRows)
      /\ \A i \in DOMAIN l : i \in DOMAIN new /\ new[i] = l[i]
      /\ \A i \in DOMAIN new : i \in DOMAIN l \/ new[i] = r
  BY <1>1, Appended
<1>5. Shaped(new)
  <2>1. r.kind = "notice" => ~Noticed(l)
    BY DEF l
  <2> QED BY <2>1, <1>1, AppendShaped
<1>6. OlderRecorded => Ordered(new) /\ Owed(new)
  <2> SUFFICES ASSUME OlderRecorded PROVE Ordered(new) /\ Owed(new)
    OBVIOUS
  <2>1. Ordered(l) /\ Owed(l)
    BY <1>0, <1>2 DEF ContractsStand, l
  <2>2. r.kind \in {"said", "choice"} => NoneRelayed(l) \/ Noticed(l)
    BY DEF l
  <2>3. r.kind # "relayed"
    OBVIOUS
  <2> QED BY <2>1, <2>2, <2>3, <1>1, AppendTold
<1>7. ~OlderRecorded => Plain(new)
  <2> SUFFICES ASSUME ~OlderRecorded PROVE Plain(new)
    OBVIOUS
  <2>1. Plain(l)
    BY <1>0, <1>2 DEF ContractsStand, l
  <2> QED BY <2>1, <1>1, AppendPlain
<1> HIDE DEF new
<1>8. /\ ledgers' \in Seq(Seq(LedgerRows)) /\ Len(ledgers') = Len(ledgers)
      /\ DOMAIN ledgers' = DOMAIN ledgers
      /\ ledgers'[t] = new /\ \A c \in 1 .. Len(ledgers') : c # t => ledgers'[c] = ledgers[c]
  BY <1>2, <1>3, <1>4
<1>9. /\ LedgersShaped'
      /\ OlderRecorded' => \A c \in DOMAIN ledgers' : Ordered(ledgers'[c]) /\ Owed(ledgers'[c])
      /\ ~OlderRecorded' => \A c \in DOMAIN ledgers' : Plain(ledgers'[c])
  <2>1. t \in 1 .. Len(ledgers') /\ \A c \in 1 .. Len(ledgers') : c # t => c \in 1 .. Len(ledgers) /\ ledgers'[c] = ledgers[c]
    BY <1>2, <1>8
  <2>2. t = 1 => \A i \in DOMAIN ledgers[1] : i \in DOMAIN ledgers'[1] /\ ledgers'[1][i] = ledgers[1][i]
    BY <1>4, <1>8 DEF l
  <2>3. \A i \in DOMAIN ledgers'[t] : ledgers'[t][i].kind = "prompt" => i = 1
    BY <1>1, <1>4, <1>8
  <2>4. (OlderRecorded => Ordered(ledgers'[t]) /\ Owed(ledgers'[t])) /\ (~OlderRecorded => Plain(ledgers'[t]))
    BY <1>6, <1>7, <1>8
  <2>5. Shaped(ledgers'[t])
    BY <1>5, <1>8
  <2> HIDE DEF t
  <2> QED BY <2>1, <2>2, <2>3, <2>4, <2>5, <1>8, OneTouched
<1>10. WordsOf(l) \subseteq WordsOf(new)
  <2>1. \A i \in DOMAIN l : \E j \in DOMAIN new : new[j] = l[i]
    BY <1>4
  <2> QED BY <2>1, WordsMono
<1>11. WordsStand'
  <2>1. \A c \in 1 .. Len(ledgers) : WordsOf(ledgers[c]) \subseteq WordsOf(l) \cup leftBehind
    BY <1>0, <1>2 DEF WordsStand, WordsIn, l
  <2>2. \A c \in DOMAIN ledgers' : WordsOf(ledgers'[c]) \subseteq WordsOf(new) \cup leftBehind
    <3> SUFFICES ASSUME NEW c \in 1 .. Len(ledgers) PROVE WordsOf(ledgers'[c]) \subseteq WordsOf(new) \cup leftBehind
      BY <1>2, <1>8
    <3>1. CASE c = t
      BY <3>1, <1>8
    <3>2. CASE c # t
      BY <3>2, <2>1, <1>8, <1>10
    <3> QED BY <3>1, <3>2
  <2>3. ledgers'[served'] = new /\ served' # 0 /\ startup' = "serving" /\ leftBehind' = leftBehind
    BY <1>8
  <2> QED BY <2>2, <2>3 DEF WordsStand, WordsIn
<1>12. new[1] = Prompt(wording)
  BY <1>1, <1>4
<1> QED BY <1>2, <1>8, <1>9, <1>11, <1>12 DEF l, new, t

LEMMA NoticeFacts ==
  ASSUME DeployInv, served # 0
  PROVE  /\ Notice \in RowsOf(served) <=> Noticed(ledgers[served])
         /\ NewestChoice(served) = <<OlderChoice>> <=> NewestRow(ledgers[served], OlderChoice)
         /\ NewestChoice(served) = <<SendingChoice>> <=> NewestRow(ledgers[served], SendingChoice)
         /\ NewestRow(ledgers[served], OlderChoice) => OlderRecorded
         /\ OlderRecorded => Owed(ledgers[served])
<1> DEFINE l == ledgers[served]
<1>1. served \in DOMAIN ledgers /\ l \in Seq(LedgerRows)
  BY LedgerFacts DEF DeployInv
<1>2. Notice \in RowsOf(served) <=> Noticed(l)
  <2>1. \A i \in DOMAIN l : l[i].kind = "notice" <=> l[i] = Notice
    BY <1>1, RowIs
  <2> QED BY <2>1 DEF RowsOf, ToSet, Noticed
<1>3. ASSUME NEW r \in {SendingChoice, OlderChoice}
      PROVE  NewestChoice(served) = <<r>> <=> NewestRow(l, r)
  <2>1. NewestRow(l, r) => NewestChoice(served) = <<r>>
    BY <1>1, NewestIs
  <2>2. ASSUME NewestChoice(served) = <<r>> PROVE NewestRow(l, r)
    <3>1. NewestChoice(served) # <<>>
      <4>1. <<r>> # <<>>
        OBVIOUS
      <4> QED BY <4>1, <2>2
    <3>2. PICK q \in {SendingChoice, OlderChoice} : NewestChoice(served) = <<q>> /\ NewestRow(l, q)
      BY <3>1, <1>1, NewestIs
    <3>3. <<q>>[1] = <<r>>[1]
      BY <2>2, <3>2
    <3>4. q = r
      BY <3>3
    <3> QED BY <3>2, <3>4
  <2> QED BY <2>1, <2>2
<1>4. NewestRow(l, OlderChoice) => OlderRecorded
  <2> SUFFICES ASSUME NewestRow(l, OlderChoice), ~OlderRecorded PROVE FALSE
    OBVIOUS
  <2>1. Plain(l)
    BY <1>1 DEF DeployInv, ContractsStand
  <2> QED BY <2>1 DEF Plain, NewestRow
<1>5. OlderRecorded => Owed(l)
  BY <1>1 DEF DeployInv, ContractsStand
<1> QED BY <1>2, <1>3, <1>4, <1>5

LEMMA NoticeKeeps ==
  ASSUME DeployInv, AppendsNotice
  PROVE  DeployInv'
<1>0. DeployTyped /\ WalkRight /\ WordsStand /\ ContractsStand /\ LedgersShaped
  BY DEF DeployInv
<1>1. /\ startup = "serving" /\ served # 0 /\ OwesNotice(served) /\ Put(served, Notice)
      /\ within' = "choice"
      /\ UNCHANGED <<served, wording, startup, successor, reconciled, says, leftBehind>>
  BY DEF AppendsNotice, Entering
<1>2. Notice \in LedgerRows /\ Notice.kind = "notice"
  BY RowIs
<1>3. ~Noticed(ledgers[served]) /\ OlderRecorded
  BY <1>1, NoticeFacts DEF OwesNotice
<1> DEFINE new == Append(ledgers[served], Notice)
<1>4. /\ LedgersShaped' /\ ledgers' \in Seq(Seq(LedgerRows)) /\ Len(ledgers') = Len(ledgers)
      /\ DOMAIN ledgers' = DOMAIN ledgers
      /\ ledgers'[served] = new /\ ledgers'[served][1] = Prompt(wording)
      /\ \A c \in DOMAIN ledgers : c # served => ledgers'[c] = ledgers[c]
      /\ OlderRecorded' => \A c \in DOMAIN ledgers' : Ordered(ledgers'[c]) /\ Owed(ledgers'[c])
      /\ ~OlderRecorded' => \A c \in DOMAIN ledgers' : Plain(ledgers'[c])
      /\ WordsStand'
  <2>1. /\ Notice.kind \notin {"prompt", "relayed", "said", "choice"}
    BY <1>2
  <2> QED BY <2>1, <1>1, <1>2, <1>3, PutKeeps
<1>5. ledgers[served] \in Seq(LedgerRows) /\ DOMAIN ledgers = 1 .. Len(ledgers)
  BY <1>0, <1>1, LedgerFacts
<1>6. DeployTyped'
  BY <1>0, <1>1, <1>4, <1>5 DEF DeployTyped
<1>7. WalkRight'
  BY <1>1, <1>4 DEF WalkRight
<1>8. Noticed(new) /\ \A q : NewestRow(ledgers[served], q) => NewestRow(new, q)
  <2>1. Noticed(new)
    BY <1>2, <1>5, Appended DEF Noticed
  <2>2. \A q : NewestRow(ledgers[served], q) => NewestRow(new, q)
    BY <1>2, <1>5, AppendNewest
  <2> QED BY <2>1, <2>2
<1> HIDE DEF new
<1>9. ContractsStand'
  <2>1. \A c \in reconciled' : NewestRow(ledgers'[c], SendingChoice)
    <3> SUFFICES ASSUME NEW c \in reconciled PROVE NewestRow(ledgers'[c], SendingChoice)
      BY <1>1
    <3>1. c \in DOMAIN ledgers /\ NewestRow(ledgers[c], SendingChoice)
      BY <1>0, <1>5 DEF ContractsStand, DeployTyped
    <3>2. CASE c = served
      BY <3>1, <3>2, <1>4, <1>8
    <3>3. CASE c # served
      BY <3>1, <3>3, <1>4
    <3> QED BY <3>2, <3>3
  <2> QED BY <2>1, <1>1, <1>4, <1>8 DEF ContractsStand
<1> QED BY <1>4, <1>6, <1>7, <1>9 DEF DeployInv

LEMMA ChoiceKeeps ==
  ASSUME DeployInv, AppendsChoice
  PROVE  DeployInv'
<1>0. DeployTyped /\ WalkRight /\ WordsStand /\ ContractsStand /\ LedgersShaped
  BY DEF DeployInv
<1>1. /\ \/ within = "choice"
         \/ startup = "serving" /\ served # 0 /\ ~OwesNotice(served)
      /\ Put(served, SendingChoice)
      /\ within' = "message" /\ reconciled' = reconciled \cup {served}
      /\ UNCHANGED <<served, wording, startup, successor, says, leftBehind>>
  BY DEF AppendsChoice, Entering
<1>2. startup = "serving" /\ served # 0
  BY <1>0, <1>1 DEF WalkRight
<1>3. SendingChoice \in LedgerRows /\ SendingChoice.kind = "choice" /\ SendingChoice # OlderChoice
  BY RowIs
<1>4. OlderRecorded => NoneRelayed(ledgers[served]) \/ Noticed(ledgers[served])
  <2>1. CASE within = "choice"
    BY <2>1, <1>0 DEF ContractsStand
  <2>2. CASE ~OwesNotice(served)
    BY <2>2, <1>2, NoticeFacts DEF OwesNotice, Owed
  <2> QED BY <2>1, <2>2, <1>1
<1> DEFINE new == Append(ledgers[served], SendingChoice)
<1>5. /\ LedgersShaped' /\ ledgers' \in Seq(Seq(LedgerRows)) /\ Len(ledgers') = Len(ledgers)
      /\ DOMAIN ledgers' = DOMAIN ledgers
      /\ ledgers'[served] = new /\ ledgers'[served][1] = Prompt(wording)
      /\ \A c \in DOMAIN ledgers : c # served => ledgers'[c] = ledgers[c]
      /\ OlderRecorded' => \A c \in DOMAIN ledgers' : Ordered(ledgers'[c]) /\ Owed(ledgers'[c])
      /\ ~OlderRecorded' => \A c \in DOMAIN ledgers' : Plain(ledgers'[c])
      /\ WordsStand'
  <2>1. SendingChoice.kind \notin {"prompt", "relayed", "notice"}
    BY <1>3
  <2> QED BY <2>1, <1>1, <1>2, <1>3, <1>4, PutKeeps
<1>6. ledgers[served] \in Seq(LedgerRows) /\ DOMAIN ledgers = 1 .. Len(ledgers) /\ served \in DOMAIN ledgers
  BY <1>0, <1>2, LedgerFacts
<1>7. DeployTyped'
  BY <1>0, <1>1, <1>5, <1>6 DEF DeployTyped
<1>8. WalkRight'
  BY <1>1, <1>2, <1>5 DEF WalkRight
<1>9. NewestRow(new, SendingChoice)
  BY <1>3, <1>6, AppendNewest
<1> HIDE DEF new
<1>10. ContractsStand'
  <2>1. \A c \in reconciled' : NewestRow(ledgers'[c], SendingChoice)
    <3> SUFFICES ASSUME NEW c \in reconciled \cup {served} PROVE NewestRow(ledgers'[c], SendingChoice)
      BY <1>1
    <3>1. CASE c = served
      BY <3>1, <1>5, <1>9
    <3>2. CASE c # served
      BY <3>2, <1>0, <1>5, <1>6 DEF ContractsStand, DeployTyped
    <3> QED BY <3>1, <3>2
  <2> QED BY <2>1, <1>1, <1>5 DEF ContractsStand
<1> QED BY <1>5, <1>7, <1>8, <1>10 DEF DeployInv

LEMMA MessageKeeps ==
  ASSUME DeployInv, AppendsMessage
  PROVE  DeployInv'
<1>0. DeployTyped /\ WalkRight /\ WordsStand /\ ContractsStand /\ LedgersShaped
  BY DEF DeployInv
<1> DEFINE r   == SaidRow(MaxSays + says')
           new == Append(ledgers[served], r)
<1>1. /\ within = "message" /\ within' = "none" /\ Put(served, r) /\ says' = says + 1
      /\ UNCHANGED <<served, wording, startup, successor, reconciled, leftBehind>>
  BY DEF AppendsMessage
<1>2. startup = "serving" /\ served # 0 /\ served \in reconciled
  BY <1>0, <1>1 DEF WalkRight, ContractsStand
<1>3. r \in LedgerRows /\ r.kind = "said" /\ says' \in Nat /\ r # OlderChoice
  <2>1. says' \in Nat /\ MaxSays + says' \in Nat
    BY <1>0, <1>1, DeploymentsAssumption DEF DeployTyped
  <2> QED BY <2>1, RowIs
<1> HIDE DEF r
<1>6. ledgers[served] \in Seq(LedgerRows) /\ DOMAIN ledgers = 1 .. Len(ledgers) /\ served \in DOMAIN ledgers
  BY <1>0, <1>2, LedgerFacts
<1>4. OlderRecorded => NoneRelayed(ledgers[served]) \/ Noticed(ledgers[served])
  <2>1. NewestRow(ledgers[served], SendingChoice)
    BY <1>0, <1>2 DEF ContractsStand
  <2>2. ~NewestRow(ledgers[served], OlderChoice)
    BY <2>1, <1>6, OneNewest
  <2> QED BY <2>2, <1>2, NoticeFacts DEF Owed
<1>5. /\ LedgersShaped' /\ ledgers' \in Seq(Seq(LedgerRows)) /\ Len(ledgers') = Len(ledgers)
      /\ DOMAIN ledgers' = DOMAIN ledgers
      /\ ledgers'[served] = new /\ ledgers'[served][1] = Prompt(wording)
      /\ \A c \in DOMAIN ledgers : c # served => ledgers'[c] = ledgers[c]
      /\ OlderRecorded' => \A c \in DOMAIN ledgers' : Ordered(ledgers'[c]) /\ Owed(ledgers'[c])
      /\ ~OlderRecorded' => \A c \in DOMAIN ledgers' : Plain(ledgers'[c])
      /\ WordsStand'
  <2>1. r.kind \notin {"prompt", "relayed", "notice"}
    BY <1>3
  <2> QED BY <2>1, <1>1, <1>2, <1>3, <1>4, PutKeeps
<1>7. DeployTyped'
  BY <1>0, <1>1, <1>3, <1>5, <1>6 DEF DeployTyped
<1>8. WalkRight'
  BY <1>1, <1>2, <1>5 DEF WalkRight
<1>9. \A q : NewestRow(ledgers[served], q) => NewestRow(new, q)
  <2>1. r.kind # "choice"
    BY <1>3
  <2> QED BY <2>1, <1>3, <1>6, AppendNewest
<1> HIDE DEF new
<1>10. ContractsStand'
  <2>1. \A c \in reconciled' : NewestRow(ledgers'[c], SendingChoice)
    <3> SUFFICES ASSUME NEW c \in reconciled PROVE NewestRow(ledgers'[c], SendingChoice)
      BY <1>1
    <3>1. c \in DOMAIN ledgers /\ NewestRow(ledgers[c], SendingChoice)
      BY <1>0, <1>6 DEF ContractsStand, DeployTyped
    <3>2. CASE c = served
      BY <3>1, <3>2, <1>5, <1>9
    <3>3. CASE c # served
      BY <3>1, <3>3, <1>5
    <3> QED BY <3>2, <3>3
  <2> QED BY <2>1, <1>1, <1>5 DEF ContractsStand
<1> QED BY <1>5, <1>7, <1>8, <1>10 DEF DeployInv

LEMMA QuietKeeps ==
  ASSUME DeployInv, FindsChoice \/ ActivityFails \/ UNCHANGED deployVars
  PROVE  DeployInv'
<1>0. DeployTyped /\ WalkRight /\ WordsStand /\ ContractsStand /\ LedgersShaped
  BY DEF DeployInv
<1>1. /\ ledgers' = ledgers
      /\ served' = served /\ wording' = wording /\ startup' = startup /\ successor' = successor
      /\ says' = says /\ leftBehind' = leftBehind
  BY DEF FindsChoice, ActivityFails, deployVars
<1>2. /\ LedgersShaped' /\ Len(ledgers') = Len(ledgers) /\ DOMAIN ledgers' = DOMAIN ledgers
      /\ OlderRecorded' => \A c \in DOMAIN ledgers' : Ordered(ledgers'[c]) /\ Owed(ledgers'[c])
      /\ ~OlderRecorded' => \A c \in DOMAIN ledgers' : Plain(ledgers'[c])
      /\ \A c : WordsIn(c)' = WordsIn(c)
  BY <1>1, NoneTouched
<1>3. WordsStand'
  BY <1>0, <1>1, <1>2 DEF WordsStand, WordsIn
<1>4. CASE FindsChoice
  <2>1. /\ startup = "serving" /\ served # 0 /\ within' = "message"
        /\ reconciled' = reconciled \cup {served}
        /\ served \notin reconciled => NewestChoice(served) = <<SendingChoice>>
    BY <1>4 DEF FindsChoice, Entering, Unread
  <2>2. NewestRow(ledgers[served], SendingChoice)
    BY <2>1, <1>0, NoticeFacts DEF ContractsStand
  <2>3. served \in 1 .. Len(ledgers)
    BY <2>1, <1>0, LedgerFacts
  <2>4. DeployTyped'
    BY <2>1, <2>3, <1>0, <1>1 DEF DeployTyped
  <2>5. WalkRight'
    BY <2>1, <1>0, <1>1 DEF WalkRight
  <2>6. ContractsStand'
    BY <2>1, <2>2, <1>0, <1>1, <1>2 DEF ContractsStand
  <2> QED BY <2>4, <2>5, <2>6, <1>2, <1>3 DEF DeployInv
<1>5. CASE ActivityFails \/ UNCHANGED deployVars
  <2>1. reconciled' = reconciled /\ (within' = "none" \/ within' = within)
    BY <1>5 DEF ActivityFails, deployVars
  <2>2. DeployTyped'
    BY <2>1, <1>0, <1>1 DEF DeployTyped
  <2>3. WalkRight'
    BY <2>1, <1>0, <1>1 DEF WalkRight
  <2>4. ContractsStand'
    BY <2>1, <1>0, <1>1, <1>2 DEF ContractsStand
  <2> QED BY <2>2, <2>3, <2>4, <1>2, <1>3 DEF DeployInv
<1> QED BY <1>4, <1>5

-----------------------------------------------------------------------------
(* A compaction's install.                                                    *)

LEMMA PartLength ==
  ASSUME NEW l \in Seq(LedgerRows), NEW m \in Nat, NEW n \in Nat, 1 <= m, m <= n, n <= Len(l)
  PROVE  Len(SubSeq(l, m, n)) = n - m + 1
<1>1. \A i \in m .. n : l[i] \in LedgerRows
  OBVIOUS
<1>2. Len(SubSeq(l, m, n)) = IF m <= n THEN n - m + 1 ELSE 0
  BY <1>1, SubSeqProperties
<1> QED BY <1>2

LEMMA JoinCarries ==
  ASSUME NEW hd \in Seq(LedgerRows), Len(hd) >= 1,
         \A i \in 1 .. Len(hd) : /\ hd[i].kind \in {"prompt", "digest", "choice"}
                                 /\ hd[i].kind = "prompt" => i = 1,
         NEW l \in Seq(LedgerRows), NEW s \in 0 .. Len(l),
         \A i \in DOMAIN l : i > s => l[i].kind # "prompt"
  PROVE  /\ Carries(hd \o SubSeq(l, s + 1, Len(l)), l, Len(hd), s)
         /\ ToTheEnd(hd \o SubSeq(l, s + 1, Len(l)), l, Len(hd), s)
         /\ \A i \in 1 .. Len(hd) : (hd \o SubSeq(l, s + 1, Len(l)))[i] = hd[i]
<1> DEFINE rest == SubSeq(l, s + 1, Len(l))
           new  == hd \o rest
           h    == Len(hd)
<1>1. h \in Nat /\ Len(l) \in Nat /\ s \in Nat /\ s <= Len(l) /\ DOMAIN l = 1 .. Len(l)
  OBVIOUS
<1>2. /\ rest \in Seq(LedgerRows) /\ Len(rest) = Len(l) - s
      /\ \A i \in 1 .. Len(l) - s : rest[i] = l[(s + 1) + i - 1]
  <2>1. rest \in Seq(LedgerRows)
    BY <1>1
  <2>2. Len(rest) = Len(l) - s
    <3>2. CASE s < Len(l)
      <4>1. s + 1 \in Nat /\ Len(l) \in Nat /\ 1 <= s + 1 /\ s + 1 <= Len(l) /\ Len(l) <= Len(l)
        BY <3>2, <1>1
      <4>2. Len(rest) = Len(l) - (s + 1) + 1
        BY <4>1, PartLength
      <4> HIDE DEF rest
      <4> QED BY <4>2, <1>1
    <3>3. CASE s = Len(l)
      <4>1. rest = <<>>
        <5>1. s + 1 \in Int /\ Len(l) \in Int /\ Len(l) < s + 1
          BY <3>3, <1>1
        <5> QED BY <5>1, SubSeqEmpty
      <4> HIDE DEF rest
      <4> QED BY <4>1, <3>3, <1>1
    <3>4. s < Len(l) \/ s = Len(l)
      BY <1>1
    <3> HIDE DEF rest
    <3> QED BY <3>2, <3>3, <3>4
  <2>3. \A i \in 1 .. Len(l) - s : rest[i] = l[(s + 1) + i - 1]
    BY <1>1
  <2> QED BY <2>1, <2>2, <2>3
<1> HIDE DEF rest
<1>3. /\ new \in Seq(LedgerRows) /\ Len(new) = Len(hd) + Len(rest)
      /\ \A i \in 1 .. Len(hd) + Len(rest) : new[i] = IF i <= Len(hd) THEN hd[i] ELSE rest[i - Len(hd)]
  BY <1>2, ConcatProperties
<1> HIDE DEF new
<1>4. \A i \in 1 .. h : new[i] = hd[i]
  BY <1>1, <1>2, <1>3
<1>5. ASSUME NEW i \in h + 1 .. Len(new)
      PROVE  (i - h) + s \in 1 .. Len(l) /\ new[i] = l[(i - h) + s] /\ new[i].kind # "prompt"
  <2>1. i \in 1 .. Len(hd) + Len(rest) /\ ~(i <= h) /\ i - h \in 1 .. Len(l) - s
    BY <1>1, <1>2, <1>3
  <2>2. new[i] = rest[i - h]
    BY <2>1, <1>3
  <2>3. rest[i - h] = l[(s + 1) + (i - h) - 1]
    BY <2>1, <1>2
  <2>4. (s + 1) + (i - h) - 1 = (i - h) + s /\ (i - h) + s \in 1 .. Len(l) /\ (i - h) + s > s
    BY <2>1, <1>1
  <2>5. new[i] = l[(i - h) + s]
    BY <2>2, <2>3, <2>4
  <2>6. l[(i - h) + s].kind # "prompt"
    BY <2>4, <1>1
  <2> QED BY <2>4, <2>5, <2>6
<1>6. h <= Len(new) /\ Len(new) - h = Len(l) - s
  BY <1>1, <1>2, <1>3
<1>7. Carries(new, l, h, s)
  BY <1>1, <1>3, <1>4, <1>5, <1>6 DEF Carries
<1>8. ToTheEnd(new, l, h, s)
  BY <1>6 DEF ToTheEnd
<1> QED BY <1>4, <1>7, <1>8 DEF new, rest, h

(* Nothing said is lost to the digest and what is kept.                       *)
LEMMA InstallKeepsWords ==
  ASSUME NEW l \in Seq(LedgerRows), NEW split \in 1 .. Len(l), NEW new, NEW h,
         Carries(new, l, h, split), ToTheEnd(new, l, h, split),
         \E d \in DOMAIN new : new[d].retold = WordsOf(SubSeq(l, 1, split))
  PROVE  WordsOf(l) \subseteq WordsOf(new)
<1> DEFINE half == SubSeq(l, 1, split)
<1>1. Len(l) \in Nat /\ split \in Nat /\ split <= Len(l) /\ DOMAIN l = 1 .. Len(l)
  OBVIOUS
<1>2. half \in Seq(LedgerRows) /\ Len(half) = split /\ \A i \in 1 .. split : half[i] = l[i]
  BY <1>1, SubSeqProperties
<1> HIDE DEF half
<1>3. PICK d \in DOMAIN new : new[d].retold = WordsOf(half)
  BY DEF half
<1>4. WordsOf(half) \subseteq WordsOf(new)
  BY <1>3 DEF WordsOf, ToSet
<1>5. \A i \in DOMAIN l : l[i] \in ToSet(half) \/ l[i] \in ToSet(new)
  <2> SUFFICES ASSUME NEW i \in DOMAIN l PROVE l[i] \in ToSet(half) \/ l[i] \in ToSet(new)
    OBVIOUS
  <2>1. CASE i <= split
    <3>1. i \in DOMAIN half /\ half[i] = l[i]
      BY <2>1, <1>1, <1>2
    <3> QED BY <3>1 DEF ToSet
  <2>2. CASE i > split
    <3>1. PICK j \in DOMAIN new : new[j] = l[i]
      BY <2>2, CarriedRows
    <3> QED BY <3>1 DEF ToSet
  <2> QED BY <2>1, <2>2, <1>1
<1>6. ASSUME NEW row \in ToSet(l)
      PROVE  /\ IsWords(row) => row \in WordsOf(new)
             /\ row.retold \subseteq WordsOf(new)
  <2>1. row \in ToSet(half) \/ row \in ToSet(new)
    <3>1. PICK i \in DOMAIN l : row = l[i]
      BY <1>6 DEF ToSet
    <3> QED BY <3>1, <1>5
  <2>2. row \in ToSet(half) => (IsWords(row) => row \in WordsOf(half)) /\ row.retold \subseteq WordsOf(half)
    BY DEF WordsOf
  <2>3. row \in ToSet(new) => (IsWords(row) => row \in WordsOf(new)) /\ row.retold \subseteq WordsOf(new)
    BY DEF WordsOf
  <2> QED BY <2>1, <2>2, <2>3, <1>4
<1> QED BY <1>6 DEF WordsOf

LEMMA WordsOfWords ==
  ASSUME NEW l \in Seq(LedgerRows)
  PROVE  WordsOf(l) \subseteq WordRows
<1>1. \A row \in ToSet(l) : row \in LedgerRows
  BY DEF ToSet
<1>2. \A row \in ToSet(l) : (IsWords(row) => row \in WordRows) /\ row.retold \subseteq WordRows
  BY <1>1, RowIs
<1> QED BY <1>2 DEF WordsOf

(* The rows a compacted thread begins with.                                   *)
LEMMA InstallHead ==
  ASSUME DeployInv, served # 0, NEW R \in SUBSET WordRows
  PROVE  LET hd == <<Prompt(wording), Digest(R)>> \o NewestChoice(served)
         IN  /\ hd \in Seq(LedgerRows) /\ Len(hd) \in {2, 3}
             /\ hd[1] = Prompt(wording) /\ hd[2] = Digest(R)
             /\ \A i \in 1 .. Len(hd) : /\ hd[i].kind \in {"prompt", "digest", "choice"}
                                        /\ hd[i].kind = "prompt" => i = 1
                                        /\ hd[i] = OlderChoice => NewestRow(ledgers[served], OlderChoice)
             /\ \A r : NewestRow(ledgers[served], r) => hd[Len(hd)] = r
<1> DEFINE l  == ledgers[served]
           p  == Prompt(wording)
           d  == Digest(R)
           nc == NewestChoice(served)
           hd == <<p, d>> \o nc
<1>1. l \in Seq(LedgerRows)
  BY LedgerFacts DEF DeployInv
<1>2. /\ p \in LedgerRows /\ p.kind = "prompt" /\ d \in LedgerRows /\ d.kind = "digest"
      /\ SendingChoice \in LedgerRows /\ OlderChoice \in LedgerRows
      /\ SendingChoice.kind = "choice" /\ OlderChoice.kind = "choice"
  BY RowIs DEF DeployInv, DeployTyped
<1>3. /\ nc # <<>> => \E r \in {SendingChoice, OlderChoice} : nc = <<r>> /\ NewestRow(l, r)
      /\ \A r : NewestRow(l, r) => nc = <<r>>
  BY <1>1, NewestIs
<1> HIDE DEF l, p, d, nc
<1> DEFINE front == <<p, d>>
<1>6. front \in Seq(LedgerRows) /\ Len(front) = 2 /\ front[1] = p /\ front[2] = d
  BY <1>2
<1> HIDE DEF front
<1>4. CASE nc = <<>>
  <2>1. hd = front
    <3>1. front \o <<>> = front
      BY <1>6, ConcatEmptySeq
    <3> QED BY <3>1, <1>4 DEF front
  <2>2. hd \in Seq(LedgerRows) /\ Len(hd) = 2 /\ hd[1] = p /\ hd[2] = d
    <3> HIDE DEF hd
    <3> QED BY <2>1, <1>6
  <2>3. \A r : ~NewestRow(l, r)
    <3>1. \A r : <<r>> # <<>>
      OBVIOUS
    <3> QED BY <3>1, <1>3, <1>4
  <2> HIDE DEF hd
  <2>4. \A i \in 1 .. 2 : i = 1 \/ i = 2
    OBVIOUS
  <2>5. \A i \in 1 .. Len(hd) : /\ hd[i].kind \in {"prompt", "digest", "choice"}
                                /\ hd[i].kind = "prompt" => i = 1
                                /\ hd[i] = OlderChoice => NewestRow(l, OlderChoice)
    BY <2>2, <2>4, <1>2
  <2> QED BY <2>2, <2>3, <2>5 DEF hd, l, p, d, nc
<1>5. CASE nc # <<>>
  <2>1. PICK r \in {SendingChoice, OlderChoice} : nc = <<r>> /\ NewestRow(l, r)
    BY <1>3, <1>5
  <2>2. r \in LedgerRows /\ r.kind = "choice"
    BY <2>1, <1>2
  <2>3. hd \in Seq(LedgerRows) /\ Len(hd) = 3 /\ hd[1] = p /\ hd[2] = d /\ hd[3] = r
    <3>1. nc \in Seq(LedgerRows) /\ Len(nc) = 1 /\ nc[1] = r
      BY <2>1, <2>2
    <3>2. hd = front \o nc
      BY DEF front
    <3> HIDE DEF hd
    <3>3. /\ hd \in Seq(LedgerRows) /\ Len(hd) = Len(front) + Len(nc)
          /\ \A i \in 1 .. Len(front) + Len(nc) :
                hd[i] = IF i <= Len(front) THEN front[i] ELSE nc[i - Len(front)]
      BY <3>1, <3>2, <1>6, ConcatProperties
    <3>4. 1 \in 1 .. 3 /\ 2 \in 1 .. 3 /\ 3 \in 1 .. 3 /\ ~(3 <= 2) /\ 3 - 2 = 1
      OBVIOUS
    <3> QED BY <3>1, <3>3, <3>4, <1>6
  <2>4. \A q : NewestRow(l, q) => q = r
    <3> SUFFICES ASSUME NEW q, NewestRow(l, q) PROVE q = r
      OBVIOUS
    <3>1. <<q>> = <<r>>
      BY <1>3, <2>1
    <3>2. <<q>>[1] = <<r>>[1]
      BY <3>1
    <3> QED BY <3>2
  <2> HIDE DEF hd
  <2>5. \A i \in 1 .. 3 : i = 1 \/ i = 2 \/ i = 3
    OBVIOUS
  <2>6. \A i \in 1 .. Len(hd) : /\ hd[i].kind \in {"prompt", "digest", "choice"}
                                /\ hd[i].kind = "prompt" => i = 1
                                /\ hd[i] = OlderChoice => NewestRow(l, OlderChoice)
    BY <2>1, <2>2, <2>3, <2>5, <1>2
  <2>7. \A q : NewestRow(l, q) => hd[Len(hd)] = q
    BY <2>3, <2>4
  <2> QED BY <2>3, <2>6, <2>7 DEF hd, l, p, d, nc
<1> QED BY <1>4, <1>5

LEMMA InstallKeeps ==
  ASSUME DeployInv, InstallsThread
  PROVE  DeployInv'
<1>0. DeployTyped /\ WalkRight /\ WordsStand /\ ContractsStand /\ LedgersShaped
  BY DEF DeployInv
<1> DEFINE l == ledgers[served]
           n == Len(ledgers) + 1
<1>1. /\ startup = "serving" /\ served # 0 /\ within = "none" /\ served' = Len(ledgers')
      /\ startup' = startup /\ wording' = wording /\ reconciled' = reconciled /\ within' = within
      /\ says' = says /\ leftBehind' = leftBehind /\ successor' = successor
  BY DEF InstallsThread
<1>2. PICK split \in 2 .. Len(l) :
         ledgers' = Append(ledgers,
                 <<Prompt(wording), Digest(WordsOf(SubSeq(l, 1, split)))>> \o NewestChoice(served)
                 \o SubSeq(l, split + 1, Len(l)))
  BY DEF InstallsThread
<1> DEFINE R   == WordsOf(SubSeq(l, 1, split))
           hd  == <<Prompt(wording), Digest(R)>> \o NewestChoice(served)
           new == hd \o SubSeq(l, split + 1, Len(l))
           h   == Len(hd)
<1>3. ledgers' = Append(ledgers, new)
  BY <1>2
<1>4. /\ \A i \in DOMAIN l : l[i].kind = "prompt" => i = 1
      /\ l \in Seq(LedgerRows) /\ Shaped(l) /\ DOMAIN l = 1 .. Len(l)
  BY <1>1, FirstPrompt
<1>5. /\ Len(ledgers) \in Nat /\ Len(ledgers) >= 1 /\ ledgers \in Seq(Seq(LedgerRows))
      /\ served \in 1 .. Len(ledgers) /\ DOMAIN ledgers = 1 .. Len(ledgers)
  BY <1>0, <1>1, LedgerFacts DEF DeployTyped
<1> HIDE DEF l
<1>6. split \in 1 .. Len(l) /\ split \in 0 .. Len(l) /\ Len(l) \in Nat /\ \A i \in DOMAIN l : i > split => i # 1
  BY <1>4
<1>7. R \subseteq WordRows
  <2>1. SubSeq(l, 1, split) \in Seq(LedgerRows)
    BY <1>4, <1>6
  <2> QED BY <2>1, WordsOfWords
<1> HIDE DEF R
<1>8. /\ hd \in Seq(LedgerRows) /\ Len(hd) \in {2, 3}
      /\ hd[1] = Prompt(wording) /\ hd[2] = Digest(R)
      /\ \A i \in 1 .. Len(hd) : /\ hd[i].kind \in {"prompt", "digest", "choice"}
                                 /\ hd[i].kind = "prompt" => i = 1
                                 /\ hd[i] = OlderChoice => NewestRow(l, OlderChoice)
      /\ \A r : NewestRow(l, r) => hd[Len(hd)] = r
  BY <1>1, <1>7, InstallHead DEF l
<1> HIDE DEF hd
<1>9. /\ Carries(new, l, h, split) /\ ToTheEnd(new, l, h, split)
      /\ \A i \in 1 .. h : new[i] = hd[i]
  <2>1. \A i \in DOMAIN l : i > split => l[i].kind # "prompt"
    BY <1>4, <1>6
  <2>2. Len(hd) >= 1
    BY <1>8
  <2> QED BY <2>1, <2>2, <1>4, <1>6, <1>8, JoinCarries
<1> HIDE DEF new, h
<1>10. /\ h \in {2, 3} /\ new \in Seq(LedgerRows) /\ h <= Len(new) /\ Len(new) \in Nat
       /\ new[1] = Prompt(wording) /\ new[2] = Digest(R)
       /\ \A r : NewestRow(l, r) => new[h] = r
       /\ \A i \in 1 .. h : new[i] = OlderChoice => NewestRow(l, OlderChoice)
  <2>1. h \in {2, 3} /\ h = Len(hd)
    BY <1>8 DEF h
  <2>2. 1 \in 1 .. h /\ 2 \in 1 .. h /\ h \in 1 .. h
    BY <2>1
  <2>3. new \in Seq(LedgerRows) /\ h <= Len(new) /\ Len(new) \in Nat
    BY <1>9 DEF Carries
  <2> QED BY <2>1, <2>2, <2>3, <1>8, <1>9
<1>11. Shaped(new) /\ \A i \in DOMAIN new : new[i].kind = "prompt" => i = 1
  BY <1>4, <1>9, CarryShaped
<1>12. OlderRecorded => Ordered(new) /\ Owed(new)
  <2> SUFFICES ASSUME OlderRecorded PROVE Ordered(new) /\ Owed(new)
    OBVIOUS
  <2>1. Ordered(l) /\ Owed(l)
    BY <1>0, <1>5 DEF ContractsStand, l
  <2>2. NewestRow(l, OlderChoice) => NewestRow(new, OlderChoice)
    <3> SUFFICES ASSUME NewestRow(l, OlderChoice) PROVE NewestRow(new, OlderChoice)
      OBVIOUS
    <3>1. new[h] = OlderChoice
      BY <1>10
    <3> QED BY <3>1, <1>9, CarryNewest
  <2> QED BY <2>1, <2>2, <1>4, <1>9, CarryOrdered, CarryOwed
<1>13. ~OlderRecorded => Plain(new)
  <2> SUFFICES ASSUME ~OlderRecorded PROVE Plain(new)
    OBVIOUS
  <2>1. Plain(l)
    BY <1>0, <1>5 DEF ContractsStand, l
  <2>2. ~NewestRow(l, OlderChoice)
    BY <2>1 DEF Plain, NewestRow
  <2>3. \A i \in 1 .. h : new[i] # OlderChoice
    BY <2>2, <1>10
  <2> QED BY <2>1, <2>3, <1>9, CarryPlain
<1>14. WordsOf(l) \subseteq WordsOf(new)
  <2>1. 2 \in DOMAIN new /\ new[2].retold = R
    BY <1>7, <1>10, RowIs
  <2> QED BY <2>1, <1>4, <1>6, <1>9, InstallKeepsWords DEF R
<1>16. /\ ledgers' \in Seq(Seq(LedgerRows)) /\ Len(ledgers') = n
      /\ ledgers'[n] = new /\ \A c \in 1 .. Len(ledgers) : ledgers'[c] = ledgers[c]
  BY <1>3, <1>5, <1>10
<1>17. n \in 1 .. Len(ledgers') /\ \A c \in 1 .. Len(ledgers') : c # n => c \in 1 .. Len(ledgers)
  BY <1>5, <1>16
<1>18. n \in 1 .. n /\ n # 1 /\ n # 0 /\ n \notin 1 .. Len(ledgers) /\ 1 .. Len(ledgers) \subseteq 1 .. n
       /\ (\A c \in 0 .. Len(ledgers) : c \in 0 .. n) /\ n \in 0 .. n
  BY <1>5
<1>19. /\ LedgersShaped' /\ DOMAIN ledgers' = 1 .. Len(ledgers') /\ Len(ledgers') >= 1
       /\ OlderRecorded' => \A c \in DOMAIN ledgers' : Ordered(ledgers'[c]) /\ Owed(ledgers'[c])
       /\ ~OlderRecorded' => \A c \in DOMAIN ledgers' : Plain(ledgers'[c])
  <2>1. Shaped(ledgers'[n]) /\ (n = 1 => FALSE)
    BY <1>11, <1>16, <1>18
  <2>2. \A i \in DOMAIN ledgers'[n] : ledgers'[n][i].kind = "prompt" => i = 1
    BY <1>11, <1>16
  <2>3. (OlderRecorded => Ordered(ledgers'[n]) /\ Owed(ledgers'[n])) /\ (~OlderRecorded => Plain(ledgers'[n]))
    BY <1>12, <1>13, <1>16
  <2>4. Len(ledgers') = Len(ledgers) \/ Len(ledgers') = Len(ledgers) + 1
    BY <1>16
  <2> HIDE DEF n
  <2> QED BY <2>1, <2>2, <2>3, <2>4, <1>16, <1>17, OneTouched
<1> HIDE DEF n
<1>20. DeployTyped'
  BY <1>0, <1>1, <1>16, <1>18, <1>19 DEF DeployTyped
<1>21. WalkRight'
  BY <1>1, <1>10, <1>16 DEF WalkRight
<1>22. WordsStand'
  <2>1. \A c \in 1 .. Len(ledgers) : WordsOf(ledgers[c]) \subseteq WordsOf(l) \cup leftBehind
    BY <1>0, <1>1, <1>5 DEF WordsStand, WordsIn, l
  <2>2. \A c \in DOMAIN ledgers' : WordsOf(ledgers'[c]) \subseteq WordsOf(new) \cup leftBehind
    BY <2>1, <1>14, <1>16, <1>17, <1>19
  <2> QED BY <2>2, <1>1, <1>16, <1>18 DEF WordsStand, WordsIn
<1>23. ContractsStand'
  <2>1. \A c \in reconciled : c \in 1 .. Len(ledgers)
    BY <1>0 DEF DeployTyped
  <2> QED BY <2>1, <1>0, <1>1, <1>16, <1>19 DEF ContractsStand
<1> QED BY <1>19, <1>20, <1>21, <1>22, <1>23 DEF DeployInv

-----------------------------------------------------------------------------
LEMMA DeployInvariant == DeploySpec => []DeployInv
<1>1. DeployInv /\ [DeployNext]_deployVars => DeployInv'
  <2> SUFFICES ASSUME DeployInv, [DeployNext]_deployVars PROVE DeployInv'
    OBVIOUS
  <2> QED BY WalkStepsKeep, ForksKeep, ClonesRowsKeep, FirstContactKeeps, NoticeKeeps,
             ChoiceKeeps, MessageKeeps, QuietKeeps, InstallKeeps DEF DeployNext
<1> QED BY <1>1, DeployStarts, PTL DEF DeploySpec

(* Whatever earlier builds left, however the starts, deaths, failed writes    *)
(* and compactions fall (retire_stale_channels, assembly.rs), a serving chat  *)
(* has the running deployment's prompt first and alone, and everything said   *)
(* to it is before the model or in the history of what was left behind.       *)
THEOREM ServesTheDeployment == DeploySpec => []ServesCurrent
<1>1. DeployInv => ServesCurrent
  <2> SUFFICES ASSUME DeployInv, startup = "serving", served # 0
               PROVE  /\ ledgers[served][1] = Prompt(wording)
                      /\ Cardinality(Places(served, "prompt")) = 1
                      /\ \A c \in DOMAIN ledgers : WordsIn(c) \subseteq WordsIn(served) \cup leftBehind
    BY DEF ServesCurrent
  <2>1. /\ \A i \in DOMAIN ledgers[served] : ledgers[served][i].kind = "prompt" => i = 1
        /\ 1 \in DOMAIN ledgers[served] /\ ledgers[served][1] = Prompt(wording)
    BY FirstPrompt
  <2>2. ledgers[served][1].kind = "prompt"
    BY <2>1, RowIs DEF DeployInv, DeployTyped
  <2>3. Places(served, "prompt") = {1}
    BY <2>1, <2>2 DEF Places
  <2>4. Cardinality(Places(served, "prompt")) = 1
    BY <2>3, FS_Singleton
  <2> QED BY <2>1, <2>4 DEF DeployInv, WordsStand
<1> QED BY <1>1, DeployInvariant, PTL

(* And its model is told under which contract its older answers were posted   *)
(* (reconcile_tool_choice, assembly.rs): the notice stands once, after every  *)
(* such answer and ahead of the first message of this build, and only where   *)
(* the older contract was recorded.                                           *)
THEOREM TellsTheContract == DeploySpec => []ContractTold
<1>1. DeployInv => ContractTold
  <2> SUFFICES ASSUME DeployInv PROVE ContractTold
    OBVIOUS
  <2>0. DeployTyped /\ LedgersShaped /\ ContractsStand
    BY DEF DeployInv
  <2>1. startup = "serving" /\ served \in reconciled => NewestChoice(served) = <<SendingChoice>>
    <3> SUFFICES ASSUME served \in reconciled PROVE NewestChoice(served) = <<SendingChoice>>
      OBVIOUS
    <3>1. served # 0
      <4>1. Len(ledgers) \in Nat /\ reconciled \subseteq 1 .. Len(ledgers)
        BY <2>0, LedgerFacts DEF DeployTyped
      <4> QED BY <4>1
    <3> QED BY <3>1, <2>0, NoticeFacts DEF ContractsStand
  <2> SUFFICES ASSUME NEW c \in DOMAIN ledgers
               PROVE  /\ Cardinality(Places(c, "notice")) <= 1
                      /\ Notice \in RowsOf(c) => OlderChoice \in RowsOf(1)
                      /\ OlderChoice \in RowsOf(1) =>
                            \A i \in Places(c, "relayed"), k \in Places(c, "said") :
                                ledgers[c][k].of > MaxSays /\ i < k =>
                                    \E j \in Places(c, "notice") : i < j /\ j < k
    BY <2>1 DEF ContractTold
  <2>2. ledgers[c] \in Seq(LedgerRows) /\ Shaped(ledgers[c])
    BY <2>0, LedgerFacts DEF LedgersShaped
  <2>3. Cardinality(Places(c, "notice")) <= 1
    <3>1. \A i, j \in Places(c, "notice") : i = j
      BY <2>2 DEF Places, Shaped, OneOf
    <3>2. Places(c, "notice") = {} \/ \E x : Places(c, "notice") = {x}
      BY <3>1
    <3> QED BY <3>2, FS_EmptySet, FS_Singleton
  <2>4. Notice \in RowsOf(c) => OlderChoice \in RowsOf(1)
    <3> SUFFICES ASSUME Notice \in RowsOf(c), ~OlderRecorded PROVE FALSE
      BY DEF OlderRecorded
    <3>1. Plain(ledgers[c])
      BY <2>0 DEF ContractsStand
    <3> QED BY <3>1, RowIs DEF Plain, RowsOf, ToSet
  <2>5. OlderChoice \in RowsOf(1) => Ordered(ledgers[c])
    BY <2>0 DEF ContractsStand, OlderRecorded
  <2> QED BY <2>3, <2>4, <2>5 DEF Ordered, Places
<1> QED BY <1>1, DeployInvariant, PTL
===============================================================================
