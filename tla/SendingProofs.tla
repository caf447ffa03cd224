----------------------------- MODULE SendingProofs -----------------------------
(***************************************************************************)
(* For every set of tiers, every number of calls and sessions and whatever *)
(* resets, restarts and failures: the state's type, and that the caps hold *)
(* although they are asked once, at admission, and the message is filed    *)
(* later.                                                                  *)
(*                                                                         *)
(* AllowanceKept is not inductive: between a call's admission and its      *)
(* filing the count must stay below every tier.  It does because no other  *)
(* call is admitted meanwhile (OneAtATime), and that is what the in-order  *)
(* rule gives, as long as a call's number is its order (NotYet).           *)
(***************************************************************************)
EXTENDS Sending, FiniteSetTheorems, SequenceTheorems, TLAPS

\* A call beyond those recorded is in no ledger.
NotYet == \A c \in Calls : c > issued => call[c] = "absent" /\ filed[c] = Never

\* There is a report only of an item.
Busy == result # "none yet" => queue # <<>>

\* While a call is admitted, every earlier one is resolved.
OneAtATime == \A c, d \in Calls : (call[c] = "admitted" /\ d < c) => ~ Open(d)

\* An admitted call that has not filed has room in every tier.
RoomForNext ==
    \A c \in Calls :
        (call[c] = "admitted" /\ filed[c] = Never) =>
            \A tier \in Tiers : Cardinality(Inside(tier)) < tier.sends

IInv == TypeOK /\ NotYet /\ Busy /\ OneAtATime /\ RoomForNext /\ AllowanceKept

\* The constants, apart from the tiers.
LEMMA Bounds ==
  /\ MaxCalls \in Nat /\ MaxNow \in Nat /\ Never \in Nat /\ MaxNow < Never
  /\ MaxSessions \in Nat /\ 1 <= MaxSessions
  BY SendingAssumption DEF Never

LEMMA SessionsSucceed ==
  ASSUME NEW s \in Sessions, s < MaxSessions PROVE s + 1 \in Sessions
  BY Bounds DEF Sessions

LEMMA FilingTimes == Never \in 0..Never /\ 0..Never \subseteq Nat
  BY Bounds

LEMMA NoItems == <<>> \in Seq([conv : Sessions, call : Calls])
  OBVIOUS

\* The clock and the number of calls, as numbers.
LEMMA Counters ==
  ASSUME IInv
  PROVE  /\ now \in Nat /\ now <= MaxNow /\ now < Never /\ now \in 0..Never
         /\ issued \in Nat /\ issued <= MaxCalls /\ issued \in 0..MaxCalls
         /\ Calls \subseteq Nat /\ \A c \in Calls : 1 <= c
<1>1. now \in 0..MaxNow /\ issued \in 0..MaxCalls
  BY DEF IInv, TypeOK
<1> QED BY <1>1, Bounds DEF Calls

\* The first item of a queue, and what an append makes of it.
LEMMA Items ==
  ASSUME IInv
  PROVE  /\ queue # <<>> => /\ Head(queue) \in [conv : Sessions, call : Calls]
                            /\ Tail(queue) \in Seq([conv : Sessions, call : Calls])
         /\ \A c \in Calls :
              LET q == Append(queue, [conv |-> session, call |-> c])
              IN  q \in Seq([conv : Sessions, call : Calls]) /\ q # <<>>
<1> DEFINE T == [conv : Sessions, call : Calls]
<1>1. queue \in Seq(T) /\ session \in Sessions
  BY DEF IInv, TypeOK
<1>2. \A c \in Calls : [conv |-> session, call |-> c] \in T
  BY <1>1
<1> HIDE DEF T
<1>3. queue # <<>> => Head(queue) \in T /\ Tail(queue) \in Seq(T)
  BY <1>1, HeadTailProperties
<1>4. \A h \in T : Append(queue, h) \in Seq(T) /\ Append(queue, h) # <<>>
  BY <1>1, AppendProperties
<1> QED BY <1>2, <1>3, <1>4 DEF T

\* What a ledger counts inside a span is a finite set, and a part of it is no
\* larger.
LEMMA InsideFinite ==
  ASSUME NEW tier
  PROVE  /\ IsFiniteSet(Inside(tier))
         /\ Cardinality(Inside(tier)) \in Nat
         /\ \A T \in SUBSET Inside(tier) :
               /\ IsFiniteSet(T)
               /\ Cardinality(T) \in Nat
               /\ Cardinality(T) <= Cardinality(Inside(tier))
<1>1. IsFiniteSet(Calls)
  BY FS_Interval, SendingAssumption DEF Calls
<1>2. Inside(tier) \subseteq Calls
  BY DEF Inside, Counted, Filed
<1>3. IsFiniteSet(Inside(tier))
  BY <1>1, <1>2, FS_Subset
<1> QED BY <1>3, FS_Subset, FS_CardinalityType

\* A step that counts nothing new keeps what the tiers say, whichever calls it
\* leaves admitted.
LEMMA FewerInside ==
  ASSUME IInv,
         \A tier \in Tiers : Inside(tier)' \subseteq Inside(tier),
         \A c \in Calls : (call'[c] = "admitted" /\ filed'[c] = Never)
                             => call[c] = "admitted" /\ filed[c] = Never
  PROVE  RoomForNext' /\ AllowanceKept'
<1>1. \A tier \in Tiers :
        /\ Cardinality(Inside(tier)') \in Nat
        /\ Cardinality(Inside(tier)) \in Nat
        /\ Cardinality(Inside(tier)') <= Cardinality(Inside(tier))
        /\ tier.sends \in Nat
  BY InsideFinite, SendingAssumption
<1>2. RoomForNext'
  BY <1>1 DEF IInv, RoomForNext
<1>3. AllowanceKept'
  BY <1>1 DEF IInv, AllowanceKept
<1> QED BY <1>2, <1>3

LEMMA InitIInv == Init => IInv
<1> SUFFICES ASSUME Init PROVE IInv
  OBVIOUS
<1>1. \A c \in Calls : call[c] = "absent" /\ filed[c] = Never
  BY DEF Init
<1>2. TypeOK
  <2>1. now = 0 /\ issued = 0 /\ session = 1
    BY DEF Init
  <2>2. now \in 0..MaxNow /\ issued \in 0..MaxCalls /\ session \in Sessions
    BY <2>1, Bounds DEF Sessions
  <2>3. call \in [Calls -> States] /\ filed \in [Calls -> 0..Never]
    <3>1. "absent" \in States
      BY DEF States
    <3> QED BY <3>1, FilingTimes DEF Init
  <2>4. /\ queue = <<>> /\ chat = <<>> /\ passed = {} /\ unwritten = {}
        /\ result = "none yet"
    BY DEF Init
  <2>5. <<>> \in Seq(Calls)
    OBVIOUS
  <2> QED BY <2>1, <2>2, <2>3, <2>4, <2>5, NoItems DEF TypeOK
<1>3. NotYet /\ OneAtATime
  BY <1>1 DEF NotYet, OneAtATime
<1>4. Busy
  BY DEF Init, Busy
<1>5. \A tier \in Tiers : Inside(tier) = {}
  BY <1>1 DEF Inside, Counted, Filed
<1>6. AllowanceKept
  <2>1. Cardinality({}) = 0
    BY FS_EmptySet
  <2>2. \A tier \in Tiers : tier.sends \in Nat
    BY SendingAssumption
  <2> QED BY <1>5, <2>1, <2>2 DEF AllowanceKept
<1>7. RoomForNext
  BY <1>1 DEF RoomForNext
<1> QED BY <1>2, <1>3, <1>4, <1>6, <1>7 DEF IInv

LEMMA IssueKeeps == IInv /\ Issue => IInv'
<1> SUFFICES ASSUME IInv, Issue PROVE IInv'
  OBVIOUS
<1> USE DEF Issue, ledger, edge
<1>0. issued + 1 \in Calls /\ issued \in Nat /\ issued' \in 0..MaxCalls
  <2>1. issued' = issued + 1 /\ issued < MaxCalls
    OBVIOUS
  <2> QED BY <2>1, Counters, Bounds DEF Calls
<1>1. TypeOK'
  BY <1>0 DEF IInv, TypeOK, States
<1>2. Calls \subseteq Nat /\ filed[issued + 1] = Never
  BY <1>0 DEF IInv, NotYet, Calls
<1>5. \A c \in Calls : call'[c] = IF c = issued + 1 THEN "ready" ELSE call[c]
  BY DEF IInv, TypeOK
<1>6. NotYet' /\ Busy'
  <2>1. \A c \in Calls : c > issued' => c > issued /\ c # issued + 1
    BY <1>0, <1>2
  <2>2. Busy'
    BY DEF IInv, Busy
  <2> QED BY <2>1, <2>2, <1>5 DEF IInv, NotYet
<1>7. OneAtATime'
  <2>1. \A c \in Calls : issued + 1 < c => call[c] = "absent"
    BY <1>0, <1>2 DEF IInv, NotYet
  <2> QED BY <1>0, <1>2, <1>5, <2>1 DEF IInv, OneAtATime, Open
<1>3. \A tier \in Tiers : Inside(tier)' \subseteq Inside(tier)
  BY <1>2, <1>5 DEF Inside, Counted, Filed
<1>4. RoomForNext' /\ AllowanceKept'
  BY <1>3, FewerInside DEF IInv, TypeOK
<1> QED BY <1>1, <1>6, <1>7, <1>4 DEF IInv

LEMMA AdmitKeeps == ASSUME IInv, NEW c \in Calls, Admit(c) PROVE IInv'
<1> USE DEF Admit, ledger, edge
<1>1. TypeOK'
  BY DEF IInv, TypeOK, States
<1>2. NotYet' /\ Busy'
  BY DEF IInv, TypeOK, NotYet, Busy
<1>3. OneAtATime'
  <2>1. \A d \in Calls : d < c => ~ Open(d)
    BY DEF ItsTurn, Calls
  <2>2. \A d \in Calls : call'[d] = IF d = c THEN call'[c] ELSE call[d]
    BY DEF IInv, TypeOK
  <2>3. Calls \subseteq Nat /\ Open(c) /\ \A d \in Calls : Open(d)' => Open(d)
    BY <2>2 DEF Open, Calls
  <2>4. \A d \in Calls : call'[d] = "admitted" => d = c \/ call[d] = "admitted"
    BY <2>2
  <2> QED BY <2>1, <2>3, <2>4 DEF IInv, OneAtATime
<1>4. \A tier \in Tiers : Inside(tier)' \subseteq Inside(tier)
  BY DEF IInv, TypeOK, Inside, Counted, Filed
<1>5. CASE Spent
  <2>1. \A d \in Calls : call'[d] = "admitted" => call[d] = "admitted"
    BY <1>5 DEF IInv, TypeOK
  <2> QED BY <2>1, <1>1, <1>2, <1>3, <1>4, FewerInside DEF IInv
<1>6. CASE ~ Spent
  <2>1. \A tier \in Tiers : /\ Cardinality(Inside(tier)) < tier.sends
                            /\ Cardinality(Inside(tier)) \in Nat
                            /\ Cardinality(Inside(tier)') \in Nat
                            /\ Cardinality(Inside(tier)') <= Cardinality(Inside(tier))
                            /\ tier.sends \in Nat
    BY <1>6, <1>4, InsideFinite, SendingAssumption DEF Spent
  <2>2. \A tier \in Tiers : Cardinality(Inside(tier)') < tier.sends
    BY <2>1
  <2>3. RoomForNext' /\ AllowanceKept'
    BY <2>1, <2>2 DEF RoomForNext, AllowanceKept
  <2> QED BY <2>3, <1>1, <1>2, <1>3 DEF IInv
<1> QED BY <1>5, <1>6

\* The filing: the one message counted more is the one there was room for,
\* and no other admitted call is waiting to file.
LEMMA FilesKeeps == ASSUME IInv, NEW c \in Calls, Files(c) PROVE IInv'
<1> USE DEF Files, ledger, edge
<1>1. TypeOK'
  BY Counters DEF IInv, TypeOK
<1>2. NotYet' /\ Busy' /\ OneAtATime'
  BY DEF IInv, TypeOK, NotYet, Busy, OneAtATime, Open
<1>3. \A tier \in Tiers : Inside(tier)' \subseteq Inside(tier) \cup {c}
  BY DEF IInv, TypeOK, Inside, Counted, Filed
<1>4. filed[c] = Never
  BY DEF Filed
<1>5. \A tier \in Tiers : Cardinality(Inside(tier)') <= tier.sends
  <2> SUFFICES ASSUME NEW tier \in Tiers
               PROVE  Cardinality(Inside(tier)') <= tier.sends
    OBVIOUS
  <2>1. Cardinality(Inside(tier)) < tier.sends
    BY <1>4 DEF IInv, RoomForNext
  <2>2. /\ IsFiniteSet(Inside(tier) \cup {c})
        /\ Cardinality(Inside(tier) \cup {c}) <= Cardinality(Inside(tier)) + 1
        /\ Cardinality(Inside(tier)) \in Nat
        /\ Cardinality(Inside(tier) \cup {c}) \in Nat
    BY InsideFinite, FS_AddElement, FS_CardinalityType
  <2>3. /\ Cardinality(Inside(tier)') \in Nat
        /\ Cardinality(Inside(tier)') <= Cardinality(Inside(tier) \cup {c})
    BY <1>3, <2>2, FS_Subset, FS_CardinalityType
  <2>4. tier.sends \in Nat
    BY SendingAssumption
  <2> QED BY <2>1, <2>2, <2>3, <2>4
<1>6. \A d \in Calls : ~ (call'[d] = "admitted" /\ filed'[d] = Never)
  <2>1. filed'[c] = now /\ call' = call
    BY DEF IInv, TypeOK
  <2>2. ASSUME NEW d \in Calls, call[d] = "admitted", d # c PROVE FALSE
    BY <2>2 DEF IInv, OneAtATime, Open, Calls
  <2>3. now # Never
    BY Counters
  <2> QED BY <2>1, <2>2, <2>3
<1> QED BY <1>1, <1>2, <1>5, <1>6 DEF IInv, RoomForNext, AllowanceKept

LEMMA FilesNothingKeeps == ASSUME IInv, NEW c \in Calls, FilesNothing(c) PROVE IInv'
<1> USE DEF FilesNothing, ledger, edge
<1>1. TypeOK'
  BY DEF IInv, TypeOK, States
<1>2. NotYet' /\ Busy' /\ OneAtATime'
  BY DEF IInv, TypeOK, NotYet, Busy, OneAtATime, Open
<1>3. \A tier \in Tiers : Inside(tier)' \subseteq Inside(tier)
  BY DEF IInv, TypeOK, Inside, Counted, Filed
<1>4. RoomForNext' /\ AllowanceKept'
  BY <1>3, FewerInside DEF IInv, TypeOK
<1> QED BY <1>1, <1>2, <1>4 DEF IInv

\* A step that leaves the ledger and the clock alone.
LEMMA LedgerKept ==
  ASSUME IInv, TypeOK', Busy', UNCHANGED <<now, issued, ledger>>
  PROVE  IInv'
<1>1. NotYet' /\ OneAtATime'
  BY DEF IInv, NotYet, OneAtATime, Open, ledger
<1>2. \A tier \in Tiers : Inside(tier)' \subseteq Inside(tier)
  BY DEF Inside, Counted, Filed, ledger
<1>3. RoomForNext' /\ AllowanceKept'
  BY <1>2, FewerInside DEF ledger
<1> QED BY <1>1, <1>3 DEF IInv

LEMMA HandsKeeps == ASSUME IInv, NEW c \in Calls, Hands(c) PROVE IInv'
<1> DEFINE h == [conv |-> session, call |-> c]
<1>0. /\ Append(queue, h) \in Seq([conv : Sessions, call : Calls])
      /\ Append(queue, h) # <<>>
  BY Items
<1>1. TypeOK'
  BY <1>0 DEF IInv, TypeOK, Hands, ledger
<1>2. Busy'
  BY <1>0 DEF Busy, Hands
<1> QED BY <1>1, <1>2, LedgerKept DEF Hands

LEMMA PostsKeeps == IInv /\ Posts => IInv'
<1> SUFFICES ASSUME IInv, Posts PROVE IInv'
  OBVIOUS
<1>0. Append(chat, Head(queue).call) \in Seq(Calls)
  <2>1. Head(queue) \in [conv : Sessions, call : Calls]
    BY Items DEF Posts
  <2> QED BY <2>1, AppendProperties DEF IInv, TypeOK
<1>1. TypeOK'
  BY <1>0 DEF IInv, TypeOK, Posts, ledger
<1>2. Busy'
  BY DEF Busy, Posts
<1> QED BY <1>1, <1>2, LedgerKept DEF Posts

LEMMA ReportsKeeps == IInv /\ Reports => IInv'
<1> SUFFICES ASSUME IInv, Reports PROVE IInv'
  OBVIOUS
<1>0. /\ queue # <<>>
      /\ Head(queue).call \in Calls
      /\ Tail(queue) \in Seq([conv : Sessions, call : Calls])
  BY Items DEF IInv, Busy, Reports
<1>1. /\ call' \in [Calls -> States]
      /\ \A c \in Calls :
           call'[c] # call[c] => Open(c) /\ call'[c] \in {"delivered", "failed"}
  BY <1>0 DEF IInv, TypeOK, Reports, Answered, States
<1>2. TypeOK'
  BY <1>0, <1>1 DEF IInv, TypeOK, Reports, ItemDone
<1>3. NotYet' /\ Busy' /\ OneAtATime'
  BY <1>1 DEF IInv, TypeOK, NotYet, Busy, OneAtATime, Open, Reports, ItemDone
<1>4. \A tier \in Tiers : Inside(tier)' \subseteq Inside(tier)
  BY <1>1 DEF IInv, TypeOK, Inside, Counted, Filed, Reports, Open
<1>5. RoomForNext' /\ AllowanceKept'
  BY <1>1, <1>4, FewerInside DEF Reports
<1> QED BY <1>2, <1>3, <1>5 DEF IInv

\* A reset carries part of what the ledger reads, settled or as it is.
LEMMA MovesOnKeeps ==
  ASSUME IInv, NEW kept \in SUBSET (1..issued), NEW reading \in [Calls -> States],
         \A c \in Calls : \/ reading[c] = call[c]
                          \/ Open(c) /\ reading[c] = "failed",
         MovesOn(kept, reading), UNCHANGED <<now, issued>>,
         queue' \in Seq([conv : Sessions, call : Calls]), Busy',
         result' \in {"none yet", "whole", "failed"},
         chat' = chat, unwritten' = unwritten
  PROVE  IInv'
<1> USE DEF MovesOn
<1>1. TypeOK'
  <2>1. session' \in Sessions
    <3>1. session \in Sessions /\ session < MaxSessions /\ session' = session + 1
      BY DEF IInv, TypeOK
    <3> QED BY <3>1, SessionsSucceed
  <2>2. call' \in [Calls -> States] /\ filed' \in [Calls -> 0..Never]
    <3>1. "absent" \in States
      BY DEF States
    <3> QED BY <3>1, FilingTimes DEF IInv, TypeOK
  <2>3. passed' \subseteq Calls
    BY DEF Filed
  <2> QED BY <2>1, <2>2, <2>3 DEF IInv, TypeOK
<1>2. \A c \in Calls :
        /\ call'[c] = call[c] \/ call'[c] \in {"absent", "failed"}
        /\ filed'[c] = filed[c] \/ (filed'[c] = Never /\ call'[c] = "absent")
  BY DEF IInv, TypeOK
<1>3. NotYet' /\ OneAtATime'
  BY <1>2 DEF IInv, NotYet, OneAtATime, Open
<1>4. \A tier \in Tiers : Inside(tier)' \subseteq Inside(tier)
  BY <1>2 DEF IInv, TypeOK, Inside, Counted, Filed
<1>5. RoomForNext' /\ AllowanceKept'
  BY <1>2, <1>4, FewerInside
<1> QED BY <1>1, <1>3, <1>5 DEF IInv

LEMMA ResetsKeep == IInv /\ (Wipe \/ Compaction) => IInv'
<1> SUFFICES ASSUME IInv, Wipe \/ Compaction PROVE IInv'
  OBVIOUS
<1>1. PICK kept \in SUBSET (1..issued) :
        MovesOn(kept, call) /\ UNCHANGED <<now, issued, queue, result, chat, unwritten>>
  <2>1. CASE Wipe
    BY <2>1 DEF Wipe
  <2>2. CASE Compaction
    <3>1. PICK cut \in 0..issued :
            MovesOn((cut + 1)..issued, call)
      BY <2>2 DEF Compaction
    <3>2. (cut + 1)..issued \in SUBSET (1..issued)
      BY Counters
    <3> QED BY <2>2, <3>1, <3>2 DEF Compaction
  <2> QED BY <2>1, <2>2
<1>2. Busy'
  BY <1>1 DEF IInv, Busy
<1> QED BY <1>1, <1>2, MovesOnKeeps DEF IInv, TypeOK

LEMMA RestartKeeps == IInv /\ Restart => IInv'
<1> SUFFICES ASSUME IInv, Restart PROVE IInv'
  OBVIOUS
<1> USE DEF Restart
<1>1. /\ PendingFailed \in [Calls -> States]
      /\ \A c \in Calls : \/ PendingFailed[c] = call[c]
                          \/ Open(c) /\ PendingFailed[c] = "failed"
  BY DEF IInv, TypeOK, PendingFailed, States
<1>2. Busy' /\ queue' \in Seq([conv : Sessions, call : Calls])
            /\ result' \in {"none yet", "whole", "failed"}
  <2>1. queue' = <<>> /\ result' = "none yet"
    OBVIOUS
  <2> QED BY <2>1, NoItems DEF Busy
<1>3. CASE MovesOn(1..issued, PendingFailed)
  BY <1>1, <1>2, <1>3, MovesOnKeeps
<1>4. CASE call' = PendingFailed /\ passed' = Seeded /\ UNCHANGED <<session, filed>>
  <2>1. TypeOK'
    BY <1>1, <1>2, <1>4 DEF IInv, TypeOK, Seeded, Filed
  <2>2. \A c \in Calls : call'[c] = call[c] \/ call'[c] = "failed"
    BY <1>1, <1>4
  <2>3. NotYet' /\ OneAtATime'
    BY <1>1, <1>4, <2>2 DEF IInv, NotYet, OneAtATime, Open
  <2>4. \A tier \in Tiers : Inside(tier)' \subseteq Inside(tier)
    BY <1>4, <2>2 DEF IInv, TypeOK, Inside, Counted, Filed
  <2>5. RoomForNext' /\ AllowanceKept'
    BY <1>4, <2>2, <2>4, FewerInside
  <2> QED BY <1>2, <2>1, <2>3, <2>5 DEF IInv
<1> QED BY <1>3, <1>4

\* Time only takes messages out of a span.
LEMMA TickKeeps == IInv /\ Tick => IInv'
<1> SUFFICES ASSUME IInv, Tick PROVE IInv'
  OBVIOUS
<1> USE DEF Tick, ledger, edge
<1>0. now' = now + 1 /\ now' \in 0..MaxNow
  BY Counters, Bounds
<1>1. TypeOK'
  BY <1>0 DEF IInv, TypeOK
<1>2. NotYet' /\ Busy' /\ OneAtATime'
  BY DEF IInv, NotYet, Busy, OneAtATime, Open
<1>3. \A tier \in Tiers : Inside(tier)' \subseteq Inside(tier)
  <2>1. \A c \in Calls : filed[c] \in Nat
    BY FilingTimes DEF IInv, TypeOK
  <2>2. \A tier \in Tiers : tier.span \in Nat
    BY SendingAssumption
  <2>3. \A tier \in Tiers, c \in Calls :
          now' - filed[c] < tier.span => now - filed[c] < tier.span
    BY <1>0, <2>1, <2>2, Counters
  <2> QED BY <2>3 DEF Inside, Counted, Filed
<1>4. RoomForNext' /\ AllowanceKept'
  BY <1>3, FewerInside
<1> QED BY <1>1, <1>2, <1>4 DEF IInv

LEMMA NextIInv == IInv /\ [Next]_vars => IInv'
<1> SUFFICES ASSUME IInv, [Next]_vars PROVE IInv'
  OBVIOUS
<1>1. CASE Issue
  BY <1>1, IssueKeeps
<1>2. ASSUME NEW c \in Calls, Admit(c) \/ Files(c) \/ FilesNothing(c) \/ Hands(c)
      PROVE  IInv'
  BY <1>2, AdmitKeeps, FilesKeeps, FilesNothingKeeps, HandsKeeps
<1>3. CASE Posts \/ Reports
  BY <1>3, PostsKeeps, ReportsKeeps
<1>4. CASE Wipe \/ Compaction \/ Restart \/ Tick
  BY <1>4, ResetsKeep, RestartKeeps, TickKeeps
<1>5. CASE UNCHANGED vars
  <2>1. TypeOK' /\ Busy'
    BY <1>5 DEF IInv, TypeOK, Busy, vars, ledger, edge
  <2> QED BY <1>5, <2>1, LedgerKept DEF vars
<1> QED BY <1>1, <1>2, <1>3, <1>4, <1>5 DEF Next

\* The inductive invariant holds in every state of the specification.
THEOREM SendingInvariant == Spec => []IInv
  BY InitIInv, NextIInv, PTL DEF Spec

\* The state of the sends stays within its type.
THEOREM SendingType == Spec => []TypeOK
<1>1. IInv => TypeOK
  BY DEF IInv
<1> QED BY <1>1, SendingInvariant, PTL

\* The caps' one check, at admission, is exact (sending.rs, "The count runs
\* ONCE"): whatever is reset, restarted or lost, no tier is ever overdrawn.
THEOREM AllowanceIsKept == Spec => []AllowanceKept
<1>1. IInv => AllowanceKept
  BY DEF IInv
<1> QED BY <1>1, SendingInvariant, PTL

-----------------------------------------------------------------------------
(* The order in the chat.                                                    *)
(*                                                                           *)
(* A message is handed over while its call is the one admitted, so every     *)
(* call that may still hand one over is a later one (Past), and the queue    *)
(* continues what the chat shows.  A copy of a call in a later session is    *)
(* behind that session's cursor, so it is not handed over again.             *)

\* The messages in the chat, and those on their way.
Shown == {chat[i] : i \in DOMAIN chat}
Queued == {queue[j].call : j \in DOMAIN queue}

\* The platform has not answered for this item.
Unanswered(j) == j = 1 => result = "none yet"

ReadyUnfiled == \A c \in Calls : call[c] = "ready" => filed[c] = Never
UnpassedAdmitted == \A c \in Filed \ passed : call[c] = "admitted"
PassedFiled == passed \subseteq Filed

Past ==
    \A x \in Shown \cup Queued :
        /\ x <= issued
        /\ \A c \in Calls : (Open(c) /\ c \notin passed) => x < c

QueueInOrder == \A i, j \in DOMAIN queue : i < j => queue[i].call < queue[j].call

ChatBefore ==
    \A j \in DOMAIN queue : Unanswered(j) => \A x \in Shown : x < queue[j].call

OwnPassed ==
    \A j \in DOMAIN queue :
        /\ queue[j].conv <= session
        /\ queue[j].conv = session => queue[j].call \in passed

NotFailed == \A j \in DOMAIN queue : Unanswered(j) => call[queue[j].call] # "failed"

Readings == ReadyUnfiled /\ UnpassedAdmitted /\ PassedFiled
Sequence == QueueInOrder /\ ChatBefore /\ PostedInOrder
Order == Readings /\ Past /\ Sequence /\ OwnPassed /\ NotFailed

\* An item at the end of a queue, or a message at the end of the chat.
LEMMA AppendAt ==
  ASSUME NEW S, NEW s \in Seq(S), NEW e \in S
  PROVE  /\ Len(s) \in Nat
         /\ DOMAIN s = 1..Len(s)
         /\ DOMAIN Append(s, e) = 1..(Len(s) + 1)
         /\ \A i \in 1..Len(s) : Append(s, e)[i] = s[i]
         /\ Append(s, e)[Len(s) + 1] = e
         /\ Len(Append(s, e)) = Len(s) + 1
  OBVIOUS

\* The queue once its first item is done.
LEMMA TailAt ==
  ASSUME NEW S, NEW s \in Seq(S), s # <<>>
  PROVE  /\ Len(s) \in Nat \ {0}
         /\ DOMAIN s = 1..Len(s)
         /\ Head(s) = s[1]
         /\ DOMAIN Tail(s) = 1..(Len(s) - 1)
         /\ \A i \in 1..(Len(s) - 1) : Tail(s)[i] = s[i + 1]
  OBVIOUS

\* Calls, items and shown messages are numbers in range.
LEMMA Places ==
  ASSUME IInv
  PROVE  /\ chat \in Seq(Calls) /\ queue \in Seq([conv : Sessions, call : Calls])
         /\ Len(chat) \in Nat /\ DOMAIN chat = 1..Len(chat)
         /\ Len(queue) \in Nat /\ DOMAIN queue = 1..Len(queue)
         /\ \A i \in DOMAIN chat : chat[i] \in Calls
         /\ \A j \in DOMAIN queue : /\ queue[j] \in [conv : Sessions, call : Calls]
                                    /\ queue[j].call \in Calls
                                    /\ queue[j].conv \in Nat
         /\ Calls \subseteq Nat /\ issued \in Nat /\ session \in Nat
<1>1. chat \in Seq(Calls) /\ queue \in Seq([conv : Sessions, call : Calls])
  BY DEF IInv, TypeOK
<1>2. /\ Len(chat) \in Nat /\ DOMAIN chat = 1..Len(chat)
      /\ \A i \in DOMAIN chat : chat[i] \in Calls
  BY <1>1
<1> DEFINE T == [conv : Sessions, call : Calls]
<1>3. queue \in Seq(T)
  BY <1>1
<1>4. \A h \in T : h.call \in Calls /\ h.conv \in Nat
  BY DEF Sessions
<1> HIDE DEF T
<1>5. /\ Len(queue) \in Nat /\ DOMAIN queue = 1..Len(queue)
      /\ \A j \in DOMAIN queue : queue[j] \in T
  BY <1>3
<1>6. session \in Nat
  <2>1. session \in Sessions
    BY DEF IInv, TypeOK
  <2> QED BY <2>1, Bounds DEF Sessions
<1> QED BY <1>1, <1>2, <1>4, <1>5, <1>6, Counters DEF T

\* The item the adapter is at.
LEMMA FirstAt ==
  ASSUME IInv, queue # <<>>
  PROVE  1 \in DOMAIN queue /\ Head(queue) = queue[1]
<1> DEFINE T == [conv : Sessions, call : Calls]
<1>1. queue \in Seq(T)
  BY Places
<1> HIDE DEF T
<1> QED BY <1>1, TailAt

LEMMA InitOrder == Init => Order
<1> SUFFICES ASSUME Init PROVE Order
  OBVIOUS
<1>1. chat = <<>> /\ queue = <<>> /\ passed = {} /\ Shown = {} /\ Queued = {}
  <2>1. chat = <<>> /\ queue = <<>> /\ passed = {}
    BY DEF Init
  <2>2. DOMAIN chat = {} /\ DOMAIN queue = {}
    BY <2>1
  <2> QED BY <2>1, <2>2 DEF Shown, Queued
<1>2. \A c \in Calls : filed[c] = Never /\ call[c] = "absent"
  BY DEF Init
<1>3. Filed = {}
  BY <1>2 DEF Filed
<1> QED BY <1>1, <1>2, <1>3 DEF Order, Readings, Sequence, ReadyUnfiled, UnpassedAdmitted,
           PassedFiled, Past, QueueInOrder, ChatBefore, PostedInOrder, OwnPassed, NotFailed

\* A step of the ledger alone: no call opens but a new one, and only a call
\* that has filed nothing fails.
LEMMA LedgerSteps ==
  ASSUME IInv, Order, Readings', UNCHANGED <<session, edge, chat>>,
         issued' \in Nat, issued <= issued',
         \A c \in Calls : Open(c)' => Open(c) \/ c > issued,
         \A c \in Calls : (call'[c] = "failed" /\ call[c] # "failed")
                             => Open(c) /\ c \notin Filed
  PROVE  Order'
<1> USE DEF edge
<1>1. Shown' = Shown /\ Queued' = Queued
  BY DEF Shown, Queued
<1>2. Past'
  <2>1. Shown \cup Queued \subseteq Nat /\ Calls \subseteq Nat /\ issued \in Nat
    BY Places DEF Shown, Queued
  <2> QED BY <1>1, <2>1 DEF Order, Past
<1>3. NotFailed'
  <2> SUFFICES ASSUME NEW j \in DOMAIN queue, Unanswered(j),
                      call'[queue[j].call] = "failed"
               PROVE  FALSE
    BY DEF NotFailed, Unanswered
  <2>1. queue[j].call \in Calls /\ queue[j].call \in Queued /\ call[queue[j].call] # "failed"
    BY Places DEF Queued, Order, NotFailed
  <2>2. Open(queue[j].call) /\ queue[j].call \notin passed
    BY <2>1 DEF Order, Readings, PassedFiled
  <2>3. queue[j].call < queue[j].call
    BY <2>1, <2>2 DEF Order, Past
  <2> QED BY <2>1, <2>3, Places
<1>4. OwnPassed' /\ Sequence'
  BY <1>1 DEF Order, OwnPassed, Sequence, QueueInOrder, ChatBefore, Unanswered, PostedInOrder
<1> QED BY <1>2, <1>3, <1>4 DEF Order

LEMMA IssueOrder == IInv /\ Order /\ Issue => Order'
<1> SUFFICES ASSUME IInv, Order, Issue PROVE Order'
  OBVIOUS
<1> USE DEF Issue, ledger
<1>1. /\ issued + 1 \in Calls /\ issued \in Nat
      /\ \A c \in Calls : call'[c] = IF c = issued + 1 THEN "ready" ELSE call[c]
  <2>1. issued < MaxCalls
    OBVIOUS
  <2>2. issued + 1 \in Calls /\ issued \in Nat
    BY <2>1, Counters, Bounds DEF Calls
  <2> QED BY <2>2 DEF IInv, TypeOK
<1>2. call[issued + 1] = "absent" /\ filed[issued + 1] = Never
  BY <1>1 DEF IInv, NotYet
<1>3. Readings'
  BY <1>1, <1>2 DEF Order, Readings, ReadyUnfiled, UnpassedAdmitted, PassedFiled, Filed, edge
<1>4. /\ issued' \in Nat /\ issued <= issued'
      /\ \A c \in Calls : Open(c)' => Open(c) \/ c > issued
      /\ \A c \in Calls : call'[c] = "failed" => call[c] = "failed"
  BY <1>1 DEF Open
<1> QED BY <1>3, <1>4, LedgerSteps

LEMMA AdmitOrder == ASSUME IInv, Order, NEW c \in Calls, Admit(c) PROVE Order'
<1> USE DEF Admit, ledger
<1>1. \A d \in Calls : call'[d] = IF d = c THEN call'[c] ELSE call[d]
  BY DEF IInv, TypeOK
<1>2. call[c] = "ready" /\ filed[c] = Never /\ call'[c] \in {"failed", "admitted"}
  BY DEF IInv, TypeOK, Order, Readings, ReadyUnfiled
<1>3. Readings'
  BY <1>1, <1>2 DEF Order, Readings, ReadyUnfiled, UnpassedAdmitted, PassedFiled, Filed, edge
<1>4. /\ issued' \in Nat /\ issued <= issued'
      /\ \A d \in Calls : Open(d)' => Open(d)
      /\ \A d \in Calls : (call'[d] = "failed" /\ call[d] # "failed")
                             => Open(d) /\ d \notin Filed
  BY <1>1, <1>2, Counters DEF Open, Filed
<1> QED BY <1>3, <1>4, LedgerSteps

LEMMA FilesOrder == ASSUME IInv, Order, NEW c \in Calls, Files(c) PROVE Order'
<1> USE DEF Files, ledger
<1>1. /\ \A d \in Calls : filed'[d] = IF d = c THEN now ELSE filed[d]
      /\ call[c] = "admitted" /\ call' = call /\ now # Never
  <2>1. now < Never /\ now \in Nat
    BY Counters
  <2>2. now # Never
    BY <2>1
  <2> QED BY <2>2 DEF IInv, TypeOK
<1>2. Readings'
  BY <1>1 DEF Order, Readings, ReadyUnfiled, UnpassedAdmitted, PassedFiled, Filed, edge
<1>3. /\ issued' \in Nat /\ issued <= issued'
      /\ \A d \in Calls : Open(d)' => Open(d)
  BY <1>1, Counters DEF Open
<1> QED BY <1>1, <1>2, <1>3, LedgerSteps

LEMMA FilesNothingOrder ==
  ASSUME IInv, Order, NEW c \in Calls, FilesNothing(c) PROVE Order'
<1> USE DEF FilesNothing, ledger
<1>1. \A d \in Calls : call'[d] = IF d = c THEN "failed" ELSE call[d]
  BY DEF IInv, TypeOK
<1>2. Readings'
  BY <1>1 DEF Order, Readings, ReadyUnfiled, UnpassedAdmitted, PassedFiled, Filed, edge
<1>3. /\ issued' \in Nat /\ issued <= issued'
      /\ \A d \in Calls : Open(d)' => Open(d)
      /\ \A d \in Calls : (call'[d] = "failed" /\ call[d] # "failed")
                             => Open(d) /\ d \notin Filed
  BY <1>1, Counters DEF Open
<1> QED BY <1>2, <1>3, LedgerSteps

\* The message handed over is the admitted call's: everything that is out
\* already comes before it, everything still open after it.
LEMMA HandsOrder == ASSUME IInv, Order, NEW c \in Calls, Hands(c) PROVE Order'
<1> DEFINE h == [conv |-> session, call |-> c]
           n == Len(queue)
<1>1. /\ UNCHANGED <<now, issued, session, call, filed, result, chat>>
      /\ passed' = passed \cup {c} /\ queue' = Append(queue, h)
      /\ c \in Filed /\ c \notin passed
  BY DEF Hands, ledger
<1>2. /\ n \in Nat /\ DOMAIN queue = 1..n /\ DOMAIN queue' = 1..(n + 1)
      /\ \A j \in 1..n : queue'[j] = queue[j]
      /\ queue'[n + 1] = h
  <2>1. h \in [conv : Sessions, call : Calls]
    BY DEF IInv, TypeOK
  <2> HIDE DEF h
  <2> QED BY <1>1, <2>1, Places, AppendAt
<1>3. h.conv = session /\ h.call = c /\ call[c] = "admitted" /\ Open(c)
  BY <1>1 DEF Order, Readings, UnpassedAdmitted, Open
<1> HIDE DEF h, n
<1>4. /\ \A x \in Shown \cup Queued : x < c
      /\ c <= issued
      /\ \A d \in Calls : (Open(d) /\ d # c) => c < d
  <2>1. c <= issued
    BY <1>3, Counters DEF IInv, NotYet
  <2>2. \A d \in Calls : (Open(d) /\ d # c) => c < d
    BY <1>3, Counters DEF IInv, OneAtATime
  <2> QED BY <1>1, <1>3, <2>1, <2>2 DEF Order, Past
<1>5. Shown' = Shown /\ Queued' = Queued \cup {c}
  <2>1. Queued' \subseteq Queued \cup {c}
    BY <1>2, <1>3 DEF Queued
  <2>2. Queued \subseteq Queued' /\ c \in Queued'
    <3>1. n + 1 \in DOMAIN queue' /\ queue'[n + 1].call = c
      BY <1>2, <1>3
    <3> QED BY <1>2, <3>1 DEF Queued
  <2> QED BY <1>1, <2>1, <2>2 DEF Shown
<1>6. Readings'
  BY <1>1 DEF Order, Readings, ReadyUnfiled, UnpassedAdmitted, PassedFiled, Filed
<1>7. Past'
  BY <1>1, <1>4, <1>5, Counters DEF Order, Past, Open
<1>8. Sequence'
  <2>1. QueueInOrder'
    <3> SUFFICES ASSUME NEW i \in 1..(n + 1), NEW j \in 1..(n + 1), i < j
                 PROVE  queue'[i].call < queue'[j].call
      BY <1>2 DEF QueueInOrder
    <3>1. CASE j = n + 1
      <4>1. i \in 1..n /\ queue[i].call \in Queued
        BY <1>2, <3>1 DEF Queued
      <4> QED BY <1>2, <1>3, <1>4, <3>1, <4>1
    <3>2. CASE j # n + 1
      <4>1. i \in 1..n /\ j \in 1..n
        BY <1>2, <3>2
      <4> QED BY <1>2, <4>1 DEF Order, Sequence, QueueInOrder
    <3> QED BY <3>1, <3>2
  <2>2. ChatBefore'
    <3> SUFFICES ASSUME NEW j \in 1..(n + 1), Unanswered(j)', NEW x \in Shown
                 PROVE  x < queue'[j].call
      BY <1>2, <1>5 DEF ChatBefore
    <3>1. CASE j = n + 1
      BY <1>2, <1>3, <1>4, <3>1
    <3>2. CASE j # n + 1
      <4>1. j \in 1..n
        BY <1>2, <3>2
      <4>2. Unanswered(j)
        BY <1>1 DEF Unanswered
      <4> QED BY <1>2, <4>1, <4>2 DEF Order, Sequence, ChatBefore
    <3> QED BY <3>1, <3>2
  <2>3. PostedInOrder'
    BY <1>1 DEF Order, Sequence, PostedInOrder
  <2> QED BY <2>1, <2>2, <2>3 DEF Sequence
<1>9. OwnPassed'
  <2> SUFFICES ASSUME NEW j \in 1..(n + 1)
               PROVE  /\ queue'[j].conv <= session
                      /\ queue'[j].conv = session => queue'[j].call \in passed'
    BY <1>1, <1>2 DEF OwnPassed
  <2>1. CASE j = n + 1
    BY <1>1, <1>2, <1>3, <2>1, Places
  <2>2. CASE j # n + 1
    <3>1. j \in 1..n
      BY <1>2, <2>2
    <3> QED BY <1>1, <1>2, <3>1 DEF Order, OwnPassed
  <2> QED BY <2>1, <2>2
<1>10. NotFailed'
  <2> SUFFICES ASSUME NEW j \in 1..(n + 1), Unanswered(j)'
               PROVE  call[queue'[j].call] # "failed"
    BY <1>1, <1>2 DEF NotFailed
  <2>1. CASE j = n + 1
    BY <1>2, <1>3, <2>1
  <2>2. CASE j # n + 1
    <3>1. j \in 1..n
      BY <1>2, <2>2
    <3>2. Unanswered(j)
      BY <1>1 DEF Unanswered
    <3> QED BY <1>2, <3>1, <3>2 DEF Order, NotFailed
  <2> QED BY <2>1, <2>2
<1> QED BY <1>6, <1>7, <1>8, <1>9, <1>10 DEF Order

\* What the adapter posts is behind everything the chat shows.
LEMMA PostsOrder == IInv /\ Order /\ Posts => Order'
<1> SUFFICES ASSUME IInv, Order, Posts PROVE Order'
  OBVIOUS
<1> DEFINE x == queue[1].call
           n == Len(chat)
<1>1. /\ UNCHANGED <<now, issued, session, call, filed, passed, queue>>
      /\ queue # <<>> /\ result = "none yet" /\ result' # "none yet"
      /\ chat' = chat \/ chat' = Append(chat, Head(queue).call)
  BY DEF Posts, ledger
<1>2. 1 \in DOMAIN queue /\ Head(queue) = queue[1] /\ x \in Queued /\ x \in Calls
  <2>1. 1 \in DOMAIN queue /\ Head(queue) = queue[1]
    BY <1>1, FirstAt
  <2> QED BY <2>1, Places DEF Queued
<1>3. \A y \in Shown : y < x
  BY <1>1, <1>2 DEF Order, Sequence, ChatBefore, Unanswered
<1> HIDE DEF x
<1>4. Readings' /\ OwnPassed' /\ QueueInOrder' /\ Queued' = Queued
  BY <1>1 DEF Order, Sequence, Readings, ReadyUnfiled, UnpassedAdmitted, PassedFiled, Filed,
              OwnPassed, QueueInOrder, Queued
<1>5. NotFailed'
  <2>1. \A j \in DOMAIN queue : Unanswered(j)' => Unanswered(j)
    BY <1>1 DEF Unanswered
  <2> QED BY <1>1, <2>1 DEF Order, NotFailed
<1>6. Shown' \subseteq Shown \cup {x} /\ PostedInOrder'
  <2>1. CASE chat' = chat
    BY <2>1 DEF Shown, Order, Sequence, PostedInOrder
  <2>2. CASE chat' = Append(chat, x)
    <3>1. /\ n \in Nat /\ DOMAIN chat = 1..n /\ DOMAIN chat' = 1..(n + 1)
          /\ \A i \in 1..n : chat'[i] = chat[i] /\ chat[i] \in Shown
          /\ chat'[n + 1] = x
      <4>1. chat \in Seq(Calls)
        BY Places
      <4> QED BY <1>2, <2>2, <4>1, AppendAt DEF Shown
    <3> HIDE DEF n
    <3>2. Shown' \subseteq Shown \cup {x}
      <4>1. \A i \in 1..(n + 1) : chat'[i] \in Shown \cup {x}
        <5> TAKE i \in 1..(n + 1)
        <5>1. i = n + 1 \/ i \in 1..n
          BY <3>1
        <5> QED BY <3>1, <5>1
      <4> QED BY <3>1, <4>1 DEF Shown
    <3>3. PostedInOrder'
      <4> SUFFICES ASSUME NEW i \in 1..(n + 1), NEW j \in 1..(n + 1), i < j
                   PROVE  chat'[i] < chat'[j]
        BY <3>1 DEF PostedInOrder
      <4>1. i \in 1..n
        BY <3>1
      <4>2. CASE j = n + 1
        BY <1>3, <3>1, <4>1, <4>2
      <4>3. CASE j # n + 1
        <5>1. j \in 1..n
          BY <3>1, <4>3
        <5> QED BY <3>1, <4>1, <5>1 DEF Order, Sequence, PostedInOrder
      <4> QED BY <4>2, <4>3
    <3> QED BY <3>2, <3>3
  <2> QED BY <1>1, <1>2, <2>1, <2>2 DEF x
<1>7. ChatBefore'
  <2> SUFFICES ASSUME NEW j \in DOMAIN queue, Unanswered(j)', NEW y \in Shown \cup {x}
               PROVE  y < queue[j].call
    BY <1>1, <1>6 DEF ChatBefore
  <2>1. j # 1
    BY <1>1 DEF Unanswered
  <2>4. 1 < j
    BY <2>1, Places
  <2>2. CASE y \in Shown
    BY <2>1, <2>2 DEF Order, Sequence, ChatBefore, Unanswered
  <2>3. CASE y = x
    BY <1>2, <2>3, <2>4 DEF Order, Sequence, QueueInOrder, x
  <2> QED BY <2>2, <2>3
<1>8. Past'
  <2>1. (Shown \cup Queued)' \subseteq Shown \cup Queued
    BY <1>2, <1>4, <1>6
  <2> QED BY <1>1, <2>1 DEF Order, Past, Open
<1> QED BY <1>4, <1>5, <1>6, <1>7, <1>8 DEF Order, Sequence

LEMMA ReportsOrder == IInv /\ Order /\ Reports => Order'
<1> SUFFICES ASSUME IInv, Order, Reports PROVE Order'
  OBVIOUS
<1> DEFINE n == Len(queue)
<1>1. /\ UNCHANGED <<now, issued, session, filed, passed, chat>>
      /\ result # "none yet" /\ queue # <<>> /\ queue' = Tail(queue) /\ result' = "none yet"
  BY DEF Reports, ItemDone, IInv, Busy
<1>2. /\ n \in Nat /\ n >= 1 /\ DOMAIN queue = 1..n /\ Head(queue) = queue[1]
      /\ DOMAIN queue' = 1..(n - 1)
      /\ \A j \in 1..(n - 1) : queue'[j] = queue[j + 1]
      /\ \A j \in 1..n : queue[j].call \in Calls
  <2>1. queue \in Seq([conv : Sessions, call : Calls])
    BY Places
  <2>2. \A j \in DOMAIN queue : queue[j].call \in Calls
    BY Places
  <2> HIDE DEF n
  <2>3. n \in Nat \ {0} => n >= 1
    OBVIOUS
  <2> QED BY <1>1, <2>1, <2>2, <2>3, TailAt DEF n
<1>3. \A c \in Calls : call'[c] # call[c] =>
          /\ c = queue[1].call /\ queue[1].conv = session
          /\ Open(c) /\ call'[c] \in {"delivered", "failed"}
  BY <1>2 DEF IInv, TypeOK, Reports, Answered
<1> HIDE DEF n
<1>4. queue[1].conv = session => queue[1].call \in passed
  BY <1>2 DEF Order, OwnPassed
<1>5. Readings'
  BY <1>1, <1>3, <1>4 DEF Order, Readings, ReadyUnfiled, UnpassedAdmitted, PassedFiled,
     Filed
<1>6. Shown' = Shown /\ Queued' \subseteq Queued
  <2>1. \A j \in 1..(n - 1) : j + 1 \in DOMAIN queue
    BY <1>2
  <2>2. Queued' \subseteq Queued
    <3>1. Queued' = {queue'[j].call : j \in 1..(n - 1)}
      BY <1>2 DEF Queued
    <3>2. \A j \in 1..(n - 1) : queue'[j].call = queue[j + 1].call
      BY <1>2
    <3> QED BY <2>1, <3>1, <3>2 DEF Queued
  <2> QED BY <1>1, <2>2 DEF Shown
<1>7. Past'
  <2>1. \A c \in Calls : Open(c)' => Open(c)
    BY <1>3 DEF Open
  <2> QED BY <1>1, <1>6, <2>1 DEF Order, Past
<1>8. \A j \in 1..(n - 1) : j + 1 \in 1..n /\ Unanswered(j + 1) /\ 1 < j + 1
  <2> TAKE j \in 1..(n - 1)
  <2>1. j + 1 \in 1..n /\ 1 < j + 1 /\ j + 1 # 1
    BY <1>2
  <2> QED BY <2>1 DEF Unanswered
<1>9. Sequence'
  <2>1. QueueInOrder'
    <3>1. \A i, j \in 1..(n - 1) : i < j => queue[i + 1].call < queue[j + 1].call
      BY <1>2, <1>8 DEF Order, Sequence, QueueInOrder
    <3> QED BY <1>2, <3>1 DEF QueueInOrder
  <2>2. ChatBefore'
    BY <1>2, <1>6, <1>8 DEF Order, Sequence, ChatBefore
  <2>3. PostedInOrder'
    BY <1>1 DEF Order, Sequence, PostedInOrder
  <2> QED BY <2>1, <2>2, <2>3 DEF Sequence
<1>10. OwnPassed'
  BY <1>1, <1>2, <1>8 DEF Order, OwnPassed
<1>11. NotFailed'
  <2> SUFFICES ASSUME NEW j \in 1..(n - 1) PROVE call'[queue[j + 1].call] # "failed"
    BY <1>2 DEF NotFailed
  <2>1. call[queue[j + 1].call] # "failed"
    BY <1>2, <1>8 DEF Order, NotFailed
  <2>2. queue[1].call < queue[j + 1].call
    BY <1>2, <1>8 DEF Order, Sequence, QueueInOrder
  <2>3. queue[j + 1].call \in Calls /\ queue[j + 1].call # queue[1].call
    <3>1. queue[j + 1].call \in Nat /\ queue[1].call \in Nat /\ queue[j + 1].call \in Calls
      BY <1>2, <1>8, Places
    <3> QED BY <2>2, <3>1
  <2> QED BY <1>3, <2>1, <2>3
<1> QED BY <1>5, <1>7, <1>9, <1>10, <1>11 DEF Order

\* A reset: what the new session carries is behind its cursor, and what is on
\* its way from the old one is not its own.
LEMMA MovesOnOrder ==
  ASSUME IInv, Order, NEW kept \in SUBSET (1..issued), NEW reading \in [Calls -> States],
         \A c \in Calls : \/ reading[c] = call[c]
                          \/ Open(c) /\ reading[c] = "failed",
         MovesOn(kept, reading), UNCHANGED <<issued, chat>>,
         \/ UNCHANGED <<queue, result>> /\ reading = call
         \/ queue' = <<>>
  PROVE  Order'
<1> USE DEF MovesOn
<1>1. /\ \A c \in Calls : /\ call'[c] = call[c] \/ call'[c] \in {"absent", "failed"}
                          /\ call'[c] = "failed" => call[c] = "failed" \/ reading # call
                          /\ c \in kept => filed'[c] = filed[c]
                          /\ c \notin kept => filed'[c] = Never
      /\ passed' = kept \cap Filed
  BY DEF IInv, TypeOK
<1>2. Filed' = kept \cap Filed
  <2>1. kept \cap Filed \subseteq Calls /\ Filed \subseteq Calls
    BY DEF Filed
  <2> QED BY <1>1, <2>1 DEF Filed
<1>3. Readings'
  <2>1. ReadyUnfiled'
    BY <1>1 DEF Order, Readings, ReadyUnfiled
  <2> QED BY <1>1, <1>2, <2>1 DEF Readings, UnpassedAdmitted, PassedFiled
<1>4. Shown' = Shown /\ Queued' \subseteq Queued /\ PostedInOrder'
  BY DEF Shown, Queued, Order, Sequence, PostedInOrder
<1>5. Past'
  <2>1. \A c \in Calls : (Open(c)' /\ c \notin passed') => Open(c) /\ c \notin passed
    <3> SUFFICES ASSUME NEW c \in Calls, Open(c)', c \notin passed'
                 PROVE  Open(c) /\ c \notin passed
      OBVIOUS
    <3>1. Open(c) /\ c \in kept
      BY <1>1 DEF Open, IInv, TypeOK
    <3>2. c \notin Filed
      BY <1>1, <3>1
    <3> QED BY <3>1, <3>2 DEF Order, Readings, PassedFiled
  <2> QED BY <1>4, <2>1 DEF Order, Past
<1>6. CASE queue' = <<>>
  BY <1>3, <1>4, <1>5, <1>6
     DEF Order, Sequence, QueueInOrder, ChatBefore, OwnPassed, NotFailed
<1>7. CASE UNCHANGED <<queue, result>> /\ reading = call
  <2>1. QueueInOrder' /\ ChatBefore'
    BY <1>4, <1>7 DEF Order, Sequence, QueueInOrder, ChatBefore, Unanswered
  <2>2. OwnPassed'
    <3>1. session' = session + 1 /\ session \in Nat
      BY Places
    <3>2. \A j \in DOMAIN queue : queue[j].conv \in Nat /\ queue[j].conv <= session
      BY Places DEF Order, OwnPassed
    <3> QED BY <1>7, <3>1, <3>2 DEF OwnPassed
  <2>3. NotFailed'
    BY <1>1, <1>7, Places DEF Order, NotFailed, Unanswered
  <2> QED BY <1>3, <1>4, <1>5, <2>1, <2>2, <2>3 DEF Order, Sequence
<1> QED BY <1>6, <1>7

LEMMA ResetsOrder == IInv /\ Order /\ (Wipe \/ Compaction) => Order'
<1> SUFFICES ASSUME IInv, Order, Wipe \/ Compaction PROVE Order'
  OBVIOUS
<1>1. PICK kept \in SUBSET (1..issued) :
        MovesOn(kept, call) /\ UNCHANGED <<issued, queue, result, chat>>
  <2>1. CASE Wipe
    BY <2>1 DEF Wipe
  <2>2. CASE Compaction
    <3>1. PICK cut \in 0..issued :
            MovesOn((cut + 1)..issued, call)
      BY <2>2 DEF Compaction
    <3>2. (cut + 1)..issued \in SUBSET (1..issued)
      BY Counters
    <3> QED BY <2>2, <3>1, <3>2 DEF Compaction
  <2> QED BY <2>1, <2>2
<1> QED BY <1>1, MovesOnOrder DEF IInv, TypeOK

LEMMA RestartOrder == IInv /\ Order /\ Restart => Order'
<1> SUFFICES ASSUME IInv, Order, Restart PROVE Order'
  OBVIOUS
<1>1. /\ PendingFailed \in [Calls -> States]
      /\ \A c \in Calls : \/ PendingFailed[c] = call[c]
                          \/ Open(c) /\ PendingFailed[c] = "failed"
  BY DEF IInv, TypeOK, PendingFailed, States
<1>2. queue' = <<>> /\ UNCHANGED <<issued, chat>>
  BY DEF Restart
<1>3. CASE MovesOn(1..issued, PendingFailed)
  BY <1>1, <1>2, <1>3, MovesOnOrder
<1>4. CASE call' = PendingFailed /\ passed' = Seeded /\ UNCHANGED <<session, filed>>
  <2>1. Filed' = Filed /\ Filed \subseteq Calls /\ passed' = passed \cup Filed
    BY <1>4 DEF Filed, Seeded
  <2>2. \A c \in Calls : Open(c)' => Open(c) /\ call'[c] = call[c]
    BY <1>1, <1>4 DEF Open
  <2>3. Readings'
    <3>1. ReadyUnfiled'
      BY <1>1, <1>4 DEF Order, Readings, ReadyUnfiled
    <3> QED BY <2>1, <3>1 DEF Order, Readings, UnpassedAdmitted, PassedFiled
  <2>4. Shown' = Shown /\ Queued' \subseteq Queued /\ PostedInOrder'
    BY <1>2 DEF Shown, Queued, Order, Sequence, PostedInOrder
  <2>5. Past'
    BY <1>2, <2>1, <2>2, <2>4 DEF Order, Past
  <2> QED BY <1>2, <2>3, <2>4, <2>5
          DEF Order, Sequence, QueueInOrder, ChatBefore, OwnPassed, NotFailed
<1> QED BY <1>3, <1>4 DEF Restart

LEMMA NextOrder == IInv /\ Order /\ [Next]_vars => Order'
<1> SUFFICES ASSUME IInv, Order, [Next]_vars PROVE Order'
  OBVIOUS
<1>1. CASE Issue
  BY <1>1, IssueOrder
<1>2. ASSUME NEW c \in Calls, Admit(c) \/ Files(c) \/ FilesNothing(c) \/ Hands(c)
      PROVE  Order'
  BY <1>2, AdmitOrder, FilesOrder, FilesNothingOrder, HandsOrder
<1>3. CASE Posts \/ Reports
  BY <1>3, PostsOrder, ReportsOrder
<1>4. CASE Wipe \/ Compaction \/ Restart
  BY <1>4, ResetsOrder, RestartOrder
<1>5. CASE Tick \/ UNCHANGED vars
  <2>1. UNCHANGED <<issued, session, ledger, edge, chat>>
    BY <1>5 DEF Tick, vars
  <2>2. Readings'
    BY <2>1 DEF Order, Readings, ReadyUnfiled, UnpassedAdmitted, PassedFiled, Filed,
                ledger, edge
  <2>3. /\ issued' \in Nat /\ issued <= issued'
        /\ \A c \in Calls : Open(c)' => Open(c)
        /\ call' = call
    BY <2>1, Counters DEF Open, ledger
  <2> QED BY <2>1, <2>2, <2>3, LedgerSteps
<1> QED BY <1>1, <1>2, <1>3, <1>4, <1>5 DEF Next

\* The second inductive invariant, on top of the first.
THEOREM OrderInvariant == Spec => [](IInv /\ Order)
<1>1. IInv /\ Order /\ [Next]_vars => (IInv /\ Order)'
  BY NextIInv, NextOrder
<1>2. Init => IInv /\ Order
  BY InitIInv, InitOrder
<1> QED BY <1>1, <1>2, PTL DEF Spec

\* The messages reach the chat in the order of their calls and none of them
\* twice, whatever is reset, restarted, copied or run again (sending.rs, "the
\* messages reach the group in the order the model issued them").
THEOREM PostsInOrder == Spec => []PostedInOrder
<1>1. IInv /\ Order => PostedInOrder
  BY DEF Order, Sequence
<1> QED BY <1>1, OrderInvariant, PTL

\* A step that posts posts no message whose call the serving session reads as
\* failed (outgoing.rs, on failing what is pending).
THEOREM NothingPostedLate == Spec => NoLatePost
<1>1. ASSUME IInv, Order, [Next]_vars
      PROVE  [chat' # chat => call[Last(chat')] # "failed"]_vars
  <2> SUFFICES ASSUME chat' # chat PROVE call[Last(chat')] # "failed"
    OBVIOUS
  <2>1. Posts
    BY <1>1 DEF Next, vars, ledger, Issue, Admit, Files, FilesNothing, Hands, Reports,
                Wipe, Compaction, Restart, Tick
  <2>2. chat' = Append(chat, Head(queue).call) /\ queue # <<>> /\ result = "none yet"
    BY <2>1 DEF Posts
  <2>3. 1 \in DOMAIN queue /\ Head(queue) = queue[1] /\ queue[1].call \in Calls
    BY <1>1, <2>2, FirstAt, Places
  <2>4. Last(chat') = queue[1].call
    <3>1. chat \in Seq(Calls)
      BY <1>1, Places
    <3>2. /\ Len(Append(chat, queue[1].call)) = Len(chat) + 1
          /\ Append(chat, queue[1].call)[Len(chat) + 1] = queue[1].call
      BY <2>3, <3>1, AppendAt
    <3>3. chat' = Append(chat, queue[1].call)
      BY <2>2, <2>3
    <3> QED BY <3>2, <3>3 DEF Last
  <2>5. call[queue[1].call] # "failed"
    BY <1>1, <2>2, <2>3 DEF Order, NotFailed, Unanswered
  <2> QED BY <2>4, <2>5
<1> QED BY <1>1, OrderInvariant, PTL DEF Spec, NoLatePost
=============================================================================
