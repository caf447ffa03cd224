--------------------------- MODULE OutboundEdgeProofs ---------------------------
(***************************************************************************)
(* For every number of channels, conversations, blocks and items: the      *)
(* edge's state keeps its type, the cursor of a conversation that is still *)
(* there is never moved back nor taken past an item of its own that was    *)
(* not handed over, and as long as no conversation is deleted no item is   *)
(* handed to the adapter twice.                                            *)
(***************************************************************************)
EXTENDS OutboundEdge, SequenceTheorems, WellFoundedInduction, TLAPS

-----------------------------------------------------------------------------
(* The newest block of a set is one of it *)

Before == {p \in Nat \X Nat : p[1] < p[2]}

LEMMA BeforeWellFounded == IsWellFoundedOn(Before, Nat)
<1>1. OpToRel(<, Nat) = Before
  BY DEF OpToRel, Before
<1> QED BY <1>1, NatLessThanWellFounded

\* A set of blocks that is not empty has a newest one: the distances to the
\* bound have a smallest.
LEMMA NewestExists ==
  ASSUME NEW S, S \subseteq BlockIds, S # {}
  PROVE  \E m \in S : \A x \in S : x <= m
<1> DEFINE T == {MaxBlock - x : x \in S}
<1>0. \A x \in S : x \in Int /\ MaxBlock - x \in Nat
  BY EdgeAssumption DEF BlockIds
<1>1. T \subseteq Nat /\ T # {}
  BY <1>0
<1>2. PICK t \in T : \A y \in T : ~(<<y, t>> \in Before)
  <2> HIDE DEF T
  <2> QED BY <1>1, BeforeWellFounded, WFMin
<1>3. PICK m \in S : t = MaxBlock - m
  OBVIOUS
<1>4. ASSUME NEW x \in S PROVE x <= m
  <2>1. MaxBlock - x \in T
    OBVIOUS
  <2>2. ~(<<MaxBlock - x, MaxBlock - m>> \in Before)
    BY <1>2, <1>3, <2>1
  <2>3. ~(MaxBlock - x < MaxBlock - m)
    BY <2>2, <1>0 DEF Before
  <2> QED BY <2>3, <1>0, EdgeAssumption
<1> QED BY <1>4

LEMMA NewestType ==
  ASSUME NEW S, S \subseteq BlockIds
  PROVE  Newest(S) \in BlockIds \cup {0}
<1>1. CASE S = {}
  BY <1>1 DEF Newest
<1>2. CASE S # {}
  <2>1. \E b \in S : \A other \in S : other <= b
    BY <1>2, NewestExists
  <2> QED BY <1>2, <2>1 DEF Newest
<1> QED BY <1>1, <1>2

LEMMA NewestIn ==
  ASSUME NEW S, S \subseteq BlockIds
  PROVE  /\ Newest(S) \in S \cup {0}
         /\ \A x \in S : x <= Newest(S)
<1>1. CASE S = {}
  BY <1>1 DEF Newest
<1>2. CASE S # {}
  <2>1. \E b \in S : \A other \in S : other <= b
    BY <1>2, NewestExists
  <2> QED BY <1>2, <2>1 DEF Newest
<1> QED BY <1>1, <1>2

-----------------------------------------------------------------------------
(* The type invariant, one lemma per part of the system *)

\* A pass that is under way is about a conversation.
PassNamed == pass.stage # "idle" => pass.conv \in ConvIds

IInv == TypeOK /\ PassNamed

PassType == [stage : {"idle", "named", "listed", "handing"},
             conv : ConvIds \cup {None}, birth : Births \cup {None},
             rows : SUBSET Row]

LEMMA IdleType == Idle \in PassType
  BY DEF Idle, PassType

LEMMA InitIInv == Init => IInv
<1> SUFFICES ASSUME Init PROVE IInv
  OBVIOUS
<1>1. pass \in PassType /\ PassNamed
  BY IdleType DEF Init, PassNamed, Idle
<1>2. capture \in [source : ConvIds \cup {None}, temporary : ConvIds \cup {None},
                  cut : BlockIds \cup {None}]
  BY DEF Init, NoCapture
<1>3. /\ births \in 0..MaxBirths
      /\ filed \in 0..MaxItems
      /\ handed \in [Items -> Nat]
      /\ cursor \in [ConvIds -> BlockIds \cup {0, Vacant}]
      /\ kind \in [BlockIds -> Kinds]
  BY EdgeAssumption DEF Init, Kinds
<1>4. wakes \in Seq(ConvIds)
  <2>1. <<>> \in Seq(ConvIds)
    OBVIOUS
  <2> QED BY <2>1 DEF Init
<1> QED BY <1>1, <1>2, <1>3, <1>4 DEF Init, IInv, TypeOK, PassType

\* What a creation and a deletion write keeps its type.
LEMMA BornWithType ==
  ASSUME TypeOK, NEW c \in ConvIds, NEW b \in BlockIds,
         NEW inherited \in SUBSET BlockIds, BornWith(c, b, inherited)
  PROVE  /\ born' \in [ConvIds -> Births \cup {None}]
         /\ births' \in 0..MaxBirths
         /\ ledger' \in [ConvIds -> SUBSET BlockIds]
         /\ kind' \in [BlockIds -> Kinds]
         /\ item' \in [BlockIds -> Items \cup {None}]
  BY EdgeAssumption DEF TypeOK, BornWith, Births, Kinds, None

LEMMA DeletedType ==
  ASSUME TypeOK, NEW c \in ConvIds, Deleted(c)
  PROVE  /\ born' \in [ConvIds -> Births \cup {None}]
         /\ births' \in 0..MaxBirths
         /\ ledger' \in [ConvIds -> SUBSET BlockIds]
         /\ kind' \in [BlockIds -> Kinds]
         /\ item' \in [BlockIds -> Items \cup {None}]
  BY DEF TypeOK, Deleted, Births, Kinds, None

\* So does what an event writes on the bus.
LEMMA EmitType ==
  ASSUME TypeOK, NEW c \in ConvIds, Emit(c)
  PROVE  wakes' \in Seq(ConvIds) /\ lagged' \in BOOLEAN
<1>1. wakes \in Seq(ConvIds) /\ lagged \in BOOLEAN
  BY DEF TypeOK
<1>2. CASE Len(wakes) < BusDepth
  <2>1. Append(wakes, c) \in Seq(ConvIds)
    BY <1>1
  <2> QED BY <1>1, <1>2, <2>1 DEF Emit
<1>3. CASE ~(Len(wakes) < BusDepth)
  <2>1. wakes # <<>>
    BY <1>3, EdgeAssumption
  <2>2. Tail(wakes) \in Seq(ConvIds)
    BY <1>1, <2>1
  <2>3. Append(Tail(wakes), c) \in Seq(ConvIds)
    BY <2>2
  <2> QED BY <1>3, <2>3 DEF Emit
<1> QED BY <1>2, <1>3

LEMMA SettledType ==
  ASSUME TypeOK, NEW c \in ConvIds, Settled(c)
  PROVE  turns' \subseteq ConvIds /\ wakes' \in Seq(ConvIds) /\ lagged' \in BOOLEAN
<1>1. CASE c \in turns
  BY <1>1, EmitType DEF Settled, TypeOK
<1>2. CASE c \notin turns
  BY <1>2 DEF Settled, TypeOK
<1> QED BY <1>1, <1>2

LEMMA AroundTheEdge ==
  ASSUME TypeOK, NEW ch \in Channels,
         FirstContact(ch) \/ Ingest(ch) \/ Wipe(ch)
  PROVE  TypeOK'
<1>1. CASE FirstContact(ch)
  <2>1. PICK c \in ConvIds, b \in BlockIds :
          BornWith(c, b, {}) /\ mapped' = [mapped EXCEPT ![ch] = c]
    BY <1>1 DEF FirstContact
  <2>2. {} \in SUBSET BlockIds
    OBVIOUS
  <2> QED BY <1>1, <2>1, <2>2, BornWithType
          DEF FirstContact, TypeOK, items, bus, edge
<1>2. CASE Ingest(ch)
  BY <1>2 DEF Ingest, NextBlock, TypeOK, items, edge, None, Kinds
<1>3. CASE Wipe(ch)
  <2>1. PICK c \in ConvIds, b \in BlockIds :
          BornWith(c, b, {}) /\ mapped' = [mapped EXCEPT ![ch] = c]
    BY <1>3 DEF Wipe
  <2>2. {} \in SUBSET BlockIds
    OBVIOUS
  <2> QED BY <1>3, <2>1, <2>2, BornWithType DEF Wipe, TypeOK, items, bus, edge
<1> QED BY <1>1, <1>2, <1>3

LEMMA TurnsAndBus ==
  ASSUME TypeOK, NEW c \in ConvIds,
         \/ \E k \in {"send", "line"} : File(c, k)
         \/ TurnEnds(c) \/ Echo(c)
  PROVE  TypeOK'
<1>1. ASSUME NEW k \in {"send", "line"}, File(c, k) PROVE TypeOK'
  <2>1. filed + 1 \in Items /\ filed' \in 0..MaxItems
    BY <1>1, EdgeAssumption DEF File, TypeOK, Items
  <2>2. PICK b \in BlockIds :
          /\ kind' = [kind EXCEPT ![b] = k]
          /\ item' = [item EXCEPT ![b] = filed + 1]
          /\ ledger' = [ledger EXCEPT ![c] = @ \cup {b}]
    BY <1>1 DEF File
  <2>3. /\ kind' \in [BlockIds -> Kinds]
        /\ item' \in [BlockIds -> Items \cup {None}]
        /\ ledger' \in [ConvIds -> SUBSET BlockIds]
    BY <1>1, <2>1, <2>2 DEF TypeOK, Kinds
  <2>4. home' \in [Items -> Births \cup {None}]
    BY <1>1, <2>1 DEF File, TypeOK
  <2>5. wakes' \in Seq(ConvIds) /\ lagged' \in BOOLEAN
    BY <1>1, EmitType DEF File, TypeOK
  <2> QED BY <1>1, <2>1, <2>3, <2>4, <2>5 DEF File, TypeOK, edge
<1>2. CASE TurnEnds(c)
  BY <1>2, SettledType DEF TurnEnds, TypeOK, store, items, edge
<1>3. CASE Echo(c)
  BY <1>3, EmitType DEF Echo, TypeOK, store, items, edge
<1> QED BY <1>1, <1>2, <1>3

LEMMA OverrunKeeps == TypeOK /\ Overrun => TypeOK'
<1> SUFFICES ASSUME TypeOK, Overrun PROVE TypeOK'
  OBVIOUS
<1>1. PICK lost \in 0..Len(wakes) : wakes' = SubSeq(wakes, lost + 1, Len(wakes))
  BY DEF Overrun
<1>2. wakes \in Seq(ConvIds)
  BY DEF TypeOK
<1>3. Len(wakes) \in Nat /\ lost + 1 \in 1..(Len(wakes) + 1)
      /\ Len(wakes) \in (lost + 1 - 1)..Len(wakes)
  BY <1>1, <1>2
<1>4. SubSeq(wakes, lost + 1, Len(wakes)) \in Seq(ConvIds)
  BY <1>2, <1>3, SubSeqProperties
<1> QED BY <1>1, <1>4 DEF Overrun, TypeOK, store, items, edge

LEMMA Compactions ==
  ASSUME TypeOK,
         \/ \E ch \in Channels : CaptureBegins(ch)
         \/ CaptureEnds \/ CompactionInstalls
  PROVE  TypeOK'
<1>1. ASSUME NEW ch \in Channels, CaptureBegins(ch) PROVE TypeOK'
  <2>1. mapped[ch] \in ConvIds
    BY <1>1 DEF CaptureBegins, TypeOK
  <2>2. PICK c \in ConvIds, cut \in ledger[mapped[ch]] :
          /\ born' = [born EXCEPT ![c] = births + 1]
          /\ ledger' = [ledger EXCEPT ![c] =
                          {b \in ledger[mapped[ch]] : b <= cut \/ kind[b] = "open"}]
          /\ capture' = [source |-> mapped[ch], temporary |-> c, cut |-> cut]
    BY <1>1 DEF CaptureBegins, NextConv
  <2>3. births + 1 \in Births /\ births' \in 0..MaxBirths
    BY <1>1, EdgeAssumption DEF CaptureBegins, TypeOK, Births
  <2>4. cut \in BlockIds
    BY <2>1, <2>2 DEF TypeOK
  <2> QED BY <1>1, <2>1, <2>2, <2>3, <2>4
          DEF CaptureBegins, TypeOK, items, bus, edge
<1>2. CASE CaptureEnds
  BY <1>2 DEF CaptureEnds, TypeOK, items, bus, edge, None
<1>3. CASE CompactionInstalls
  <2>1. capture.source \in ConvIds /\ capture' = NoCapture
    BY <1>3 DEF CompactionInstalls, TypeOK
  <2>2. capture' \in [source : ConvIds \cup {None}, temporary : ConvIds \cup {None},
                      cut : BlockIds \cup {None}]
    BY <2>1 DEF NoCapture
  <2>3. CASE Installs
    <3>1. PICK ch \in Channels, c \in ConvIds, b \in BlockIds :
            /\ BornWith(c, b, {t \in ledger[capture.source] :
                                 t > capture.cut /\ kind[t] # "open"})
            /\ mapped' = [mapped EXCEPT ![ch] = c]
      BY <2>3 DEF Installs
    <3>2. {t \in ledger[capture.source] : t > capture.cut /\ kind[t] # "open"}
             \in SUBSET BlockIds
      BY <2>1 DEF TypeOK
    <3>3. turns' \subseteq ConvIds /\ wakes' \in Seq(ConvIds) /\ lagged' \in BOOLEAN
      BY <2>1, <2>3, SettledType DEF Installs
    <3> QED BY <1>3, <2>2, <3>1, <3>2, <3>3, BornWithType
            DEF CompactionInstalls, TypeOK, items, edge
  <2>4. CASE StandsDown
    BY <1>3, <2>2, <2>4 DEF CompactionInstalls, StandsDown, TypeOK, items, bus, edge
  <2> QED BY <1>3, <2>3, <2>4 DEF CompactionInstalls
<1> QED BY <1>1, <1>2, <1>3

LEMMA Deletions ==
  ASSUME TypeOK,
         \/ \E ch \in Channels : Strip(ch)
         \/ StripRetires
         \/ \E c \in ConvIds : Erase(c) \/ Expire(c)
         \/ \E b \in BlockIds : NullTarget(b)
  PROVE  TypeOK'
<1>1. ASSUME NEW ch \in Channels, Strip(ch) PROVE TypeOK'
  <2>1. mapped[ch] \in ConvIds
    BY <1>1 DEF Strip, TypeOK
  <2>2. PICK c \in ConvIds, stripped \in ledger[mapped[ch]] :
          /\ born' = [born EXCEPT ![c] = births + 1]
          /\ ledger' = [ledger EXCEPT ![c] = ledger[mapped[ch]] \ {stripped}]
          /\ mapped' = [mapped EXCEPT ![ch] = c]
    BY <1>1 DEF Strip, NextConv
  <2>3. births + 1 \in Births /\ births' \in 0..MaxBirths
    BY <1>1, EdgeAssumption DEF Strip, TypeOK, Births
  <2>4. ledger[mapped[ch]] \ {stripped} \in SUBSET BlockIds
    BY <2>1 DEF TypeOK
  <2>5. turns' \subseteq ConvIds /\ wakes' \in Seq(ConvIds) /\ lagged' \in BOOLEAN
    BY <1>1, <2>1, SettledType DEF Strip
  <2> QED BY <1>1, <2>1, <2>2, <2>3, <2>4, <2>5 DEF Strip, TypeOK, items, edge
<1>2. CASE StripRetires
  <2>1. retiring \in ConvIds /\ Deleted(retiring)
    BY <1>2 DEF StripRetires, TypeOK
  <2> QED BY <1>2, <2>1, DeletedType DEF StripRetires, TypeOK, items, bus, edge, None
<1>3. ASSUME NEW c \in ConvIds, Erase(c) \/ Expire(c) PROVE TypeOK'
  <2>1. Delete(c)
    BY <1>3 DEF Erase, Expire
  <2>2. Deleted(c)
    BY <2>1 DEF Delete
  <2>3. mapped' \in [Channels -> ConvIds \cup {None}]
    BY <2>1 DEF Delete, TypeOK, None
  <2>4. turns' \subseteq ConvIds /\ wakes' \in Seq(ConvIds) /\ lagged' \in BOOLEAN
    BY <2>1, SettledType DEF Delete
  <2> QED BY <2>1, <2>2, <2>3, <2>4, DeletedType DEF Delete, TypeOK, items, edge
<1>4. ASSUME NEW b \in BlockIds, NullTarget(b) PROVE TypeOK'
  BY <1>4 DEF NullTarget, TypeOK, Kinds, items, bus, edge
<1> QED BY <1>1, <1>2, <1>3, <1>4

LEMMA RestartKeeps ==
  ASSUME TypeOK, Restart
  PROVE  IInv'
<1>1. \A c \in ConvIds : Newest(ledger[c]) \in BlockIds \cup {0}
  BY NewestType DEF TypeOK
<1>2. /\ cursor' \in [ConvIds -> BlockIds \cup {0, Vacant}]
      /\ seatOf' \in [ConvIds -> Births \cup {None}]
      /\ home' \in [Items -> Births \cup {None}]
  BY <1>1 DEF Restart, TypeOK
<1>3. pass' \in PassType /\ PassNamed'
  BY IdleType DEF Restart, PassNamed, Idle
<1>4. capture' \in [source : ConvIds \cup {None}, temporary : ConvIds \cup {None},
                   cut : BlockIds \cup {None}]
  BY DEF Restart, NoCapture
<1>5. wakes' \in Seq(ConvIds) /\ lagged' \in BOOLEAN
  <2>1. <<>> \in Seq(ConvIds)
    OBVIOUS
  <2> QED BY <2>1 DEF Restart
<1> QED BY <1>2, <1>3, <1>4, <1>5 DEF Restart, TypeOK, IInv, PassType

-----------------------------------------------------------------------------
(* The edge's own steps *)

LEMMA EdgeKeeps ==
  ASSUME IInv, EdgeStep
  PROVE  IInv'
<1> USE DEF IInv
<1>1. CASE RecoverFromLag
  <2>1. MappedConvs \subseteq ConvIds
    BY DEF MappedConvs, TypeOK
  <2> QED BY <1>1, <2>1 DEF RecoverFromLag, TypeOK, PassNamed, store, items
<1>2. ASSUME NEW c \in ConvIds, PassBegins(c) PROVE IInv'
  <2>1. todo' \subseteq ConvIds /\ wakes' \in Seq(ConvIds)
    <3>1. wakes \in Seq(ConvIds) /\ todo \subseteq ConvIds
      BY DEF TypeOK
    <3>2. wakes # <<>> => Tail(wakes) \in Seq(ConvIds)
      BY <3>1
    <3> QED BY <1>2, <3>1, <3>2 DEF PassBegins
  <2>2. pass' \in PassType /\ PassNamed'
    BY <1>2 DEF PassBegins, Idle, PassType, PassNamed
  <2> QED BY <1>2, <2>1, <2>2 DEF PassBegins, TypeOK, PassType, store, items
<1>3. CASE PassLists
  <2>1. pass.conv \in ConvIds
    BY <1>3 DEF PassLists, PassNamed
  <2>2. {[block |-> b, kind |-> kind[b], item |-> item[b]] : b \in ledger[pass.conv]}
           \in SUBSET Row
    BY <2>1 DEF Row, TypeOK
  <2>3. born[pass.conv] \in Births \cup {None}
    BY <2>1 DEF TypeOK
  <2>4. pass' \in PassType /\ PassNamed'
    BY <1>3, <2>1, <2>2, <2>3 DEF PassLists, TypeOK, PassType, PassNamed
  <2> QED BY <1>3, <2>4 DEF PassLists, TypeOK, PassType, store, items, bus
<1>4. CASE PassSeats
  <2>1. pass.conv \in ConvIds
    BY <1>4 DEF PassSeats, PassNamed
  <2>2. InheritedBoundary(pass.conv) \in BlockIds \cup {0}
    <3>1. {b \in ledger[pass.conv] : \E d \in ConvIds \ {pass.conv} : b \in ledger[d]}
             \subseteq BlockIds
      BY <2>1 DEF TypeOK
    <3> QED BY <3>1, NewestType DEF InheritedBoundary
  <2>3. \A newest : SeatedCursor(pass.conv, newest) \in BlockIds \cup {0, Vacant}
    BY <2>1, <2>2 DEF SeatedCursor, TypeOK
  <2>4. cursor' \in [ConvIds -> BlockIds \cup {0, Vacant}]
    BY <1>4, <2>1, <2>3 DEF PassSeats, TypeOK
  <2>5. seatOf' \in [ConvIds -> Births \cup {None}]
    BY <1>4 DEF PassSeats, TypeOK
  <2>6. pass' \in PassType /\ PassNamed'
    BY <1>4, <2>1 DEF PassSeats, TypeOK, PassType, PassNamed
  <2> QED BY <1>4, <2>4, <2>5, <2>6 DEF PassSeats, TypeOK, PassType, store, items, bus
<1>5. CASE PassHands
  <2>1. PICK r \in Owed :
          /\ cursor' = [cursor EXCEPT ![pass.conv] = r.block]
          /\ handed' = IF r.kind = "blank" THEN handed
                       ELSE [handed EXCEPT ![r.item] = @ + 1]
    BY <1>5 DEF PassHands
  <2>2. r.block \in BlockIds
    BY <2>1 DEF Owed, TypeOK, Row
  <2>3. cursor' \in [ConvIds -> BlockIds \cup {0, Vacant}]
    BY <2>1, <2>2 DEF TypeOK
  <2>4. handed' \in [Items -> Nat]
    <3>1. handed \in [Items -> Nat]
      BY DEF TypeOK
    <3> DEFINE counted == [i \in Items |-> IF i = r.item THEN handed[i] + 1
                                                        ELSE handed[i]]
    <3>2. counted \in [Items -> Nat]
      BY <3>1
    <3>3. [handed EXCEPT ![r.item] = @ + 1] = counted
      BY <3>1, Zenon
    <3> QED BY <2>1, <3>1, <3>2, <3>3
  <2>5. UNCHANGED <<store, filed, home, bus, todo, seatOf, pass>>
    BY <1>5 DEF PassHands
  <2> QED BY <2>3, <2>4, <2>5 DEF TypeOK, PassNamed, store, bus
<1>6. CASE PassEnds \/ PassFails
  <2>0. pass' = Idle
    BY <1>6 DEF PassEnds, PassFails
  <2>1. pass' \in PassType /\ PassNamed'
    BY <2>0, IdleType DEF PassNamed, Idle
  <2>2. UNCHANGED <<store, items, bus, todo, cursor, seatOf>>
    BY <1>6 DEF PassEnds, PassFails
  <2> QED BY <2>1, <2>2 DEF TypeOK, PassType, PassNamed, store, items, bus
<1> QED BY <1>1, <1>2, <1>3, <1>4, <1>5, <1>6 DEF EdgeStep

\* Everything but the edge and a restart leaves the pass alone.
LEMMA OthersKeep ==
  ASSUME IInv, Next, ~EdgeStep, ~Restart
  PROVE  IInv'
<1>1. TypeOK'
  <2>1. ASSUME NEW ch \in Channels, FirstContact(ch) \/ Ingest(ch) \/ Wipe(ch)
        PROVE  TypeOK'
    BY <2>1, AroundTheEdge DEF IInv
  <2>2. ASSUME NEW c \in ConvIds, \/ \E k \in {"send", "line"} : File(c, k)
                                 \/ TurnEnds(c) \/ Echo(c)
        PROVE  TypeOK'
    BY <2>2, TurnsAndBus DEF IInv
  <2>3. CASE Overrun
    BY <2>3, OverrunKeeps DEF IInv
  <2>4. CASE \/ \E ch \in Channels : CaptureBegins(ch)
             \/ CaptureEnds \/ CompactionInstalls
    BY <2>4, Compactions DEF IInv
  <2>5. CASE \/ \E ch \in Channels : Strip(ch)
             \/ StripRetires
             \/ \E c \in ConvIds : Erase(c) \/ Expire(c)
             \/ \E b \in BlockIds : NullTarget(b)
    BY <2>5, Deletions DEF IInv
  <2> QED BY <2>1, <2>2, <2>3, <2>4, <2>5 DEF Next
<1>2. pass' = pass
  BY DEF Next, EdgeStep, FirstContact, Ingest, Wipe, CaptureBegins, Strip, File, TurnEnds, Echo,
         Erase, Expire, Delete, NullTarget, CaptureEnds, CompactionInstalls,
         StripRetires, Overrun, edge
<1> QED BY <1>1, <1>2 DEF IInv, PassNamed

LEMMA NextIInv == IInv /\ [Next]_vars => IInv'
<1> SUFFICES ASSUME IInv, [Next]_vars PROVE IInv'
  OBVIOUS
<1>1. CASE EdgeStep
  BY <1>1, EdgeKeeps
<1>2. CASE Restart
  BY <1>2, RestartKeeps DEF IInv
<1>3. CASE Next /\ ~EdgeStep /\ ~Restart
  BY <1>3, OthersKeep
<1>4. CASE UNCHANGED vars
  BY <1>4 DEF IInv, TypeOK, PassNamed, vars, store, items, bus, edge
<1> QED BY <1>1, <1>2, <1>3, <1>4

\* The type invariant of the edge, for every instance, reset and fault
\* (outbound.rs).
THEOREM EdgeType == Spec => []TypeOK
<1>1. IInv => TypeOK
  BY DEF IInv
<1> QED BY <1>1, InitIInv, NextIInv, PTL DEF Spec

-----------------------------------------------------------------------------
(* A living conversation's cursor is never moved back *)

\* No birth is ahead of the count of them.
BirthsCounted ==
    /\ \A c \in ConvIds : born[c] <= births /\ seatOf[c] <= births
    /\ pass.birth <= births

\* What a cursor accounts for is held by the conversation it was written for.
SeatsWithin ==
    \A c \in ConvIds : (seatOf[c] # None /\ seatOf[c] = born[c]) =>
        \E b \in ledger[c] \cup {0} : cursor[c] <= b

\* A pass knows rows of the conversation it listed ...
RowsHeld ==
    (pass.stage \in {"listed", "handing"} /\ pass.birth # None
       /\ born[pass.conv] = pass.birth) =>
        {r.block : r \in pass.rows} \subseteq ledger[pass.conv]

\* ... and, before it has seated the cursor, all those the cursor accounts for.
ListedWithin ==
    (pass.stage = "listed" /\ pass.birth # None /\ seatOf[pass.conv] = pass.birth) =>
        \E b \in {r.block : r \in pass.rows} \cup {0} : cursor[pass.conv] <= b

PassSeated == pass.stage = "handing" => seatOf[pass.conv] = pass.birth

SeatInv == BirthsCounted /\ SeatsWithin /\ RowsHeld /\ ListedWithin /\ PassSeated

\* While a conversation is the same one its ledger only grows, and an id that
\* changes hands is given a birth never seen.
Grows ==
    /\ births' \in {births, births + 1}
    /\ \A c \in ConvIds :
          \/ born'[c] = None
          \/ born'[c] = births + 1 /\ births' = births + 1
          \/ born'[c] = born[c] /\ ledger[c] \subseteq ledger'[c]

LEMMA BornWithGrows ==
  ASSUME TypeOK, NEW c \in ConvIds, NEW b, NEW inherited, BornWith(c, b, inherited)
  PROVE  Grows
  BY DEF TypeOK, BornWith, Grows

LEMMA DeletedGrows ==
  ASSUME TypeOK, NEW c \in ConvIds, Deleted(c)
  PROVE  Grows
  BY DEF TypeOK, Deleted, Grows

LEMMA StoreGrows ==
  ASSUME TypeOK, Next, ~EdgeStep, ~Restart
  PROVE  Grows
<1>1. ASSUME NEW ch \in Channels, FirstContact(ch) \/ Wipe(ch) PROVE Grows
  <2>1. PICK c \in ConvIds, b \in BlockIds : BornWith(c, b, {})
    BY <1>1 DEF FirstContact, Wipe
  <2> QED BY <2>1, BornWithGrows
<1>2. ASSUME NEW ch \in Channels, Ingest(ch) PROVE Grows
  BY <1>2 DEF Ingest, Grows, TypeOK
<1>3. ASSUME NEW ch \in Channels, CaptureBegins(ch) PROVE Grows
  <2>1. PICK c \in ConvIds, cut \in ledger[mapped[ch]] :
          /\ born' = [born EXCEPT ![c] = births + 1]
          /\ ledger' = [ledger EXCEPT ![c] =
                          {b \in ledger[mapped[ch]] : b <= cut \/ kind[b] = "open"}]
    BY <1>3 DEF CaptureBegins, NextConv
  <2> QED BY <1>3, <2>1 DEF CaptureBegins, Grows, TypeOK
<1>4. ASSUME NEW ch \in Channels, Strip(ch) PROVE Grows
  <2>1. PICK c \in ConvIds, stripped \in ledger[mapped[ch]] :
          /\ born' = [born EXCEPT ![c] = births + 1]
          /\ ledger' = [ledger EXCEPT ![c] = ledger[mapped[ch]] \ {stripped}]
    BY <1>4 DEF Strip, NextConv
  <2> QED BY <1>4, <2>1 DEF Strip, Grows, TypeOK
<1>5. ASSUME NEW c \in ConvIds, NEW k \in {"send", "line"}, File(c, k) PROVE Grows
  BY <1>5 DEF File, Grows, TypeOK
<1>6. ASSUME NEW c \in ConvIds, TurnEnds(c) \/ Echo(c) PROVE Grows
  BY <1>6 DEF TurnEnds, Echo, Grows, TypeOK, store
<1>7. ASSUME NEW c \in ConvIds, Erase(c) \/ Expire(c) PROVE Grows
  BY <1>7, DeletedGrows DEF Erase, Expire, Delete
<1>8. ASSUME NEW b \in BlockIds, NullTarget(b) PROVE Grows
  BY <1>8 DEF NullTarget, Grows, TypeOK
<1>9. CASE CaptureEnds
  BY <1>9 DEF CaptureEnds, Grows, TypeOK
<1>10. CASE CompactionInstalls
  <2>1. CASE Installs
    <3>1. PICK c \in ConvIds, b \in BlockIds :
            BornWith(c, b, {t \in ledger[capture.source] :
                              t > capture.cut /\ kind[t] # "open"})
      BY <2>1 DEF Installs
    <3> QED BY <3>1, BornWithGrows
  <2>2. CASE StandsDown
    BY <2>2 DEF StandsDown, Grows, TypeOK
  <2> QED BY <1>10, <2>1, <2>2 DEF CompactionInstalls
<1>11. CASE StripRetires
  BY <1>11, DeletedGrows DEF StripRetires, TypeOK
<1>12. CASE Overrun
  BY <1>12 DEF Overrun, Grows, TypeOK, store
<1> QED BY <1>1, <1>2, <1>3, <1>4, <1>5, <1>6, <1>7, <1>8, <1>9, <1>10, <1>11,
           <1>12 DEF Next

LEMMA SeatInvInit == Init => SeatInv
  BY DEF Init, SeatInv, BirthsCounted, SeatsWithin, RowsHeld, ListedWithin,
         PassSeated, Idle, None, Vacant

LEMMA BirthNumbers ==
  ASSUME IInv
  PROVE  /\ births \in Nat /\ pass.birth \in Nat
         /\ \A c \in ConvIds : born[c] \in Nat /\ seatOf[c] \in Nat
<1>1. /\ births \in 0..MaxBirths /\ pass.birth \in Births \cup {None}
      /\ \A c \in ConvIds : born[c] \in Births \cup {None} /\ seatOf[c] \in Births \cup {None}
  BY DEF IInv, TypeOK
<1>2. Births \cup {None} \subseteq Nat /\ 0..MaxBirths \subseteq Nat
  BY EdgeAssumption DEF Births, None
<1> QED BY <1>1, <1>2

\* Steps beside the edge leave its memory alone.
LEMMA OthersSeat ==
  ASSUME IInv, SeatInv, Grows, UNCHANGED <<cursor, seatOf, pass>>
  PROVE  SeatInv'
<1>1. /\ births \in Nat /\ births' \in Nat
      /\ \A c \in ConvIds : born[c] \in Nat /\ seatOf[c] \in Nat
      /\ pass.birth \in Nat
  BY BirthNumbers DEF Grows
<1>2. BirthsCounted'
  BY <1>1 DEF SeatInv, BirthsCounted, Grows, None
<1>3. SeatsWithin'
  BY <1>1 DEF SeatInv, BirthsCounted, SeatsWithin, Grows
<1>4. RowsHeld'
  BY <1>1 DEF SeatInv, BirthsCounted, RowsHeld, Grows, IInv, PassNamed
<1>5. ListedWithin' /\ PassSeated'
  BY DEF SeatInv, ListedWithin, PassSeated
<1> QED BY <1>2, <1>3, <1>4, <1>5 DEF SeatInv

LEMMA SeatNumbers ==
  ASSUME IInv
  PROVE  /\ births \in Nat /\ pass.birth \in Nat
         /\ \A c \in ConvIds : /\ born[c] \in Nat /\ seatOf[c] \in Nat
                               /\ cursor[c] \in Int /\ ledger[c] \subseteq BlockIds
         /\ \A r \in pass.rows : r.block \in BlockIds
         /\ BlockIds \subseteq Nat
<1>1. BlockIds \subseteq Nat
  BY EdgeAssumption DEF BlockIds
<1>2. /\ births \in Nat /\ pass.birth \in Nat
      /\ \A c \in ConvIds : born[c] \in Nat /\ seatOf[c] \in Nat
  BY BirthNumbers
<1>3. \A c \in ConvIds : cursor[c] \in Int /\ ledger[c] \subseteq BlockIds
  <2>1. \A b \in BlockIds \cup {0, -1} : b \in Int
    BY EdgeAssumption DEF BlockIds
  <2>2. \A c \in ConvIds : cursor[c] \in BlockIds \cup {0, -1}
    BY DEF IInv, TypeOK, Vacant
  <2>3. \A c \in ConvIds : ledger[c] \subseteq BlockIds
    BY DEF IInv, TypeOK
  <2> QED BY <2>1, <2>2, <2>3
<1>4. \A r \in pass.rows : r.block \in BlockIds
  BY DEF IInv, TypeOK, Row
<1> QED BY <1>1, <1>2, <1>3, <1>4

LEMMA PassListsSeats ==
  ASSUME IInv, SeatInv, PassLists
  PROVE  SeatInv'
<1> DEFINE c == pass.conv
<1>0. c \in ConvIds
  BY DEF PassLists, IInv, PassNamed
<1>1. /\ UNCHANGED <<store, cursor, seatOf>>
      /\ pass'.stage = "listed" /\ pass'.conv = c /\ pass'.birth = born[c]
  BY DEF PassLists, IInv, TypeOK
<1>2. {r.block : r \in pass'.rows} = ledger[c]
  <2>1. pass'.rows = {[block |-> b, kind |-> kind[b], item |-> item[b]] :
                        b \in ledger[c]}
    BY DEF PassLists, IInv, TypeOK
  <2>2. ASSUME NEW x PROVE x \in {r.block : r \in pass'.rows} <=> x \in ledger[c]
    <3>1. ASSUME NEW r \in pass'.rows, x = r.block PROVE x \in ledger[c]
      <4>1. PICK b \in ledger[c] : r = [block |-> b, kind |-> kind[b], item |-> item[b]]
        BY <2>1
      <4> QED BY <3>1, <4>1
    <3>2. ASSUME x \in ledger[c] PROVE \E r \in pass'.rows : x = r.block
      <4> DEFINE row == [block |-> x, kind |-> kind[x], item |-> item[x]]
      <4>1. row \in pass'.rows
        BY <2>1, <3>2
      <4>2. row.block = x
        OBVIOUS
      <4> QED BY <4>1, <4>2, Zenon
    <3> QED BY <3>1, <3>2, Zenon
  <2> QED BY <2>2, Zenon
<1>3. BirthsCounted'
  BY <1>0, <1>1 DEF SeatInv, BirthsCounted, store
<1>4. SeatsWithin'
  BY <1>1 DEF SeatInv, SeatsWithin, store
<1>5. RowsHeld'
  BY <1>1, <1>2 DEF RowsHeld, store
<1>6. ListedWithin'
  BY <1>0, <1>1, <1>2 DEF SeatInv, SeatsWithin, ListedWithin, store
<1>7. PassSeated'
  BY <1>1 DEF PassSeated
<1> QED BY <1>3, <1>4, <1>5, <1>6, <1>7 DEF SeatInv

LEMMA PassSeatsSeats ==
  ASSUME IInv, SeatInv, PassSeats
  PROVE  SeatInv'
<1> DEFINE c == pass.conv
           listed == {r.block : r \in pass.rows}
           shared == {b \in ledger[c] : \E d \in ConvIds \ {c} : b \in ledger[d]}
           seat == SeatedCursor(c, Newest(listed))
<1>0. c \in ConvIds
  BY DEF PassSeats, IInv, PassNamed
<1>1. /\ UNCHANGED store
      /\ pass'.stage = "handing" /\ pass'.conv = c /\ pass'.birth = pass.birth
      /\ pass'.rows = pass.rows
      /\ pass.stage = "listed"
  BY DEF PassSeats, IInv, TypeOK
<1>2. /\ cursor' = [cursor EXCEPT ![c] = seat]
      /\ seatOf' = [seatOf EXCEPT ![c] = pass.birth]
  BY DEF PassSeats
<1>3. BirthsCounted'
  BY <1>0, <1>1, <1>2 DEF SeatInv, BirthsCounted, store, IInv, TypeOK
<1>4. ASSUME pass.birth # None, born[c] = pass.birth
      PROVE  \E b \in ledger[c] \cup {0} : seat <= b
  <2>1. listed \subseteq ledger[c]
    BY <1>1, <1>4 DEF SeatInv, RowsHeld
  <2>2. ledger[c] \subseteq BlockIds /\ cursor[c] \in Int /\ BlockIds \subseteq Nat
    BY <1>0, SeatNumbers
  <2>3. Newest(listed) \in ledger[c] \cup {0}
    BY <2>1, <2>2, NewestIn
  <2>4. Newest(shared) \in ledger[c] \cup {0}
    BY <2>2, NewestIn
  <2>5. seat = Newest(shared) \/ (seat = cursor[c] /\ ~(cursor[c] > Newest(listed)))
    BY DEF SeatedCursor, InheritedBoundary
  <2>10. \A b \in ledger[c] \cup {0} : b \in Int
    <3>1. \A b \in ledger[c] : b \in BlockIds
      BY <2>2
    <3>2. \A b \in BlockIds : b \in Int
      BY EdgeAssumption DEF BlockIds
    <3> QED BY <3>1, <3>2
  <2> HIDE DEF seat, shared, listed
  <2>6. Newest(listed) \in Int /\ Newest(shared) \in Int
    BY <2>3, <2>4, <2>10
  <2>7. seat <= Newest(shared) \/ seat <= Newest(listed)
    BY <2>2, <2>5, <2>6
  <2> QED BY <2>3, <2>4, <2>7
<1>5. SeatsWithin'
  <2>1. born' = born /\ ledger' = ledger
    BY <1>1 DEF store
  <2>2. cursor'[c] = seat /\ seatOf'[c] = pass.birth
    BY <1>0, <1>2 DEF IInv, TypeOK
  <2>3. \A d \in ConvIds \ {c} : cursor'[d] = cursor[d] /\ seatOf'[d] = seatOf[d]
    BY <1>2 DEF IInv, TypeOK
  <2> HIDE DEF seat
  <2> QED BY <1>4, <2>1, <2>2, <2>3 DEF SeatInv, SeatsWithin
<1>6. RowsHeld'
  BY <1>1 DEF SeatInv, RowsHeld, store
<1>7. ListedWithin'
  BY <1>1 DEF ListedWithin
<1>8. PassSeated'
  BY <1>0, <1>1, <1>2 DEF PassSeated, IInv, TypeOK
<1> QED BY <1>3, <1>5, <1>6, <1>7, <1>8 DEF SeatInv

LEMMA PassHandsSeats ==
  ASSUME IInv, SeatInv, PassHands
  PROVE  SeatInv'
<1> DEFINE c == pass.conv
<1>0. c \in ConvIds
  BY DEF PassHands, IInv, PassNamed
<1>1. PICK r \in Owed : cursor' = [cursor EXCEPT ![c] = r.block]
  BY DEF PassHands
<1>2. UNCHANGED <<store, seatOf, pass>> /\ pass.stage = "handing"
  BY DEF PassHands
<1>3. r \in pass.rows /\ r.block \in Nat
  BY SeatNumbers DEF Owed
<1>4. SeatsWithin'
  <2>1. ASSUME seatOf[c] # None, seatOf[c] = born[c] PROVE r.block \in ledger[c]
    BY <1>2, <1>3, <2>1 DEF SeatInv, RowsHeld, PassSeated
  <2>2. \A d \in ConvIds \ {c} : cursor'[d] = cursor[d]
    BY <1>1 DEF IInv, TypeOK
  <2>3. cursor'[c] = r.block
    BY <1>0, <1>1 DEF IInv, TypeOK
  <2> QED BY <1>2, <1>3, <2>1, <2>2, <2>3 DEF SeatInv, SeatsWithin, store
<1>5. BirthsCounted' /\ RowsHeld' /\ ListedWithin' /\ PassSeated'
  BY <1>2 DEF SeatInv, BirthsCounted, RowsHeld, ListedWithin, PassSeated, store
<1> QED BY <1>4, <1>5 DEF SeatInv

LEMMA EdgeSeats ==
  ASSUME IInv, SeatInv, EdgeStep
  PROVE  SeatInv'
<1>1. CASE RecoverFromLag
  BY <1>1 DEF RecoverFromLag, SeatInv, BirthsCounted, SeatsWithin, RowsHeld,
              ListedWithin, PassSeated, store
<1>2. CASE (\E c \in ConvIds : PassBegins(c)) \/ PassEnds \/ PassFails
  <2>1. UNCHANGED <<store, cursor, seatOf>>
    BY <1>2 DEF PassBegins, PassEnds, PassFails
  <2>2. pass'.stage \in {"idle", "named"} /\ pass'.birth = 0
    <3>1. pass' = Idle \/ \E c \in ConvIds :
                             pass' = [Idle EXCEPT !.stage = "named", !.conv = c]
      BY <1>2 DEF PassBegins, PassEnds, PassFails
    <3>2. CASE pass' = Idle
      BY <3>2 DEF Idle, None
    <3>3. ASSUME NEW c \in ConvIds, pass' = [Idle EXCEPT !.stage = "named", !.conv = c]
          PROVE  pass'.stage = "named" /\ pass'.birth = 0
      BY <3>3 DEF Idle, None
    <3> QED BY <3>1, <3>2, <3>3
  <2>3. BirthsCounted'
    BY <2>1, <2>2, SeatNumbers DEF SeatInv, BirthsCounted, store
  <2> QED BY <2>1, <2>2, <2>3 DEF SeatInv, SeatsWithin, RowsHeld, ListedWithin,
                                  PassSeated, store
<1>3. CASE PassLists
  BY <1>3, PassListsSeats
<1>4. CASE PassSeats
  BY <1>4, PassSeatsSeats
<1>5. CASE PassHands
  BY <1>5, PassHandsSeats
<1> QED BY <1>1, <1>2, <1>3, <1>4, <1>5 DEF EdgeStep

\* A restart writes every cursor for the conversation holding the id.
LEMMA RestartSeats ==
  ASSUME IInv, SeatInv, Restart
  PROVE  SeatInv'
<1>1. /\ ledger' = ledger /\ born' = born /\ births' = births
      /\ pass'.stage = "idle" /\ pass'.birth = 0
  BY DEF Restart, Idle, None
<1>2. \A c \in ConvIds :
         seatOf'[c] # None => /\ seatOf'[c] = born[c]
                              /\ cursor'[c] = Newest(ledger[c])
  BY DEF Restart
<1>3. \A c \in ConvIds : seatOf'[c] = born[c] \/ seatOf'[c] = 0
  BY DEF Restart, None
<1>4. BirthsCounted'
  BY <1>1, <1>3, SeatNumbers DEF SeatInv, BirthsCounted
<1>5. SeatsWithin'
  <2>1. \A c \in ConvIds : /\ Newest(ledger[c]) \in ledger[c] \cup {0}
                           /\ ledger[c] \subseteq Nat
    BY SeatNumbers, NewestIn
  <2> QED BY <1>1, <1>2, <2>1 DEF SeatsWithin
<1>6. RowsHeld' /\ ListedWithin' /\ PassSeated'
  BY <1>1 DEF RowsHeld, ListedWithin, PassSeated
<1> QED BY <1>4, <1>5, <1>6 DEF SeatInv

LEMMA NextSeatInv == IInv /\ SeatInv /\ [Next]_vars => SeatInv'
<1> SUFFICES ASSUME IInv, SeatInv, [Next]_vars PROVE SeatInv'
  OBVIOUS
<1>1. CASE EdgeStep
  BY <1>1, EdgeSeats
<1>2. CASE Restart
  BY <1>2, RestartSeats
<1>3. CASE Next /\ ~EdgeStep /\ ~Restart
  <2>1. UNCHANGED <<cursor, seatOf, pass>>
    BY <1>3 DEF Next, FirstContact, Ingest, Wipe, CaptureBegins, Strip, File,
                TurnEnds, Echo, Erase, Expire, Delete, NullTarget, CaptureEnds,
                CompactionInstalls, StripRetires, Overrun, edge
  <2>2. Grows
    BY <1>3, StoreGrows DEF IInv
  <2> QED BY <2>1, <2>2, OthersSeat
<1>4. CASE UNCHANGED vars
  BY <1>4 DEF SeatInv, BirthsCounted, SeatsWithin, RowsHeld, ListedWithin,
              PassSeated, vars, store, edge
<1> QED BY <1>1, <1>2, <1>3, <1>4

\* A pass that lowers a cursor found it above all that the pass had listed; had
\* the conversation written it, one of the rows listed would reach it.
LEMMA SeatInvReseats == IInv /\ SeatInv => Reseating
<1> SUFFICES ASSUME IInv, SeatInv, NEW c \in ConvIds,
                    PassSeats, pass.birth # None, cursor'[c] < cursor[c],
                    seatOf[c] = pass.birth
             PROVE  FALSE
  BY DEF Reseating
<1> DEFINE listed == {r.block : r \in pass.rows}
           seat == SeatedCursor(pass.conv, Newest(listed))
<1>0. pass.conv \in ConvIds /\ pass.stage = "listed"
  BY DEF PassSeats, IInv, PassNamed
<1>1. cursor' = [cursor EXCEPT ![pass.conv] = seat]
  BY DEF PassSeats
<1>2. cursor[c] \in Int /\ listed \subseteq BlockIds /\ BlockIds \subseteq Nat
  BY SeatNumbers
<1>3. c = pass.conv /\ cursor'[c] = seat
  <2> HIDE DEF seat
  <2> QED BY <1>0, <1>1, <1>2 DEF IInv, TypeOK
<1>4. \E b \in listed \cup {0} : cursor[c] <= b
  BY <1>0, <1>3 DEF SeatInv, ListedWithin
<1>5. Newest(listed) \in listed \cup {0} /\ \A x \in listed : x <= Newest(listed)
  BY <1>2, NewestIn
<1>6. cursor[c] = Vacant => InheritedBoundary(c) \in Nat
  <2>1. {x \in ledger[c] : \E d \in ConvIds \ {c} : x \in ledger[d]} \subseteq BlockIds
    BY SeatNumbers
  <2>2. InheritedBoundary(c) \in BlockIds \cup {0}
    BY <2>1, NewestType DEF InheritedBoundary
  <2> QED BY <2>2, EdgeAssumption DEF BlockIds
<1>7. seat = IF cursor[c] = Vacant \/ cursor[c] > Newest(listed)
             THEN InheritedBoundary(c) ELSE cursor[c]
  BY <1>3 DEF SeatedCursor
<1> HIDE DEF listed, seat
<1>8. Newest(listed) \in Nat /\ cursor[c] <= Newest(listed)
  <2>1. \A b \in listed \cup {0} : b \in Nat
    BY <1>2
  <2>2. Newest(listed) \in Nat
    BY <1>5, <2>1
  <2>3. \A b \in listed \cup {0} : b <= Newest(listed)
    BY <1>5, <2>2
  <2> QED BY <1>2, <1>4, <2>1, <2>2, <2>3
<1>9. seat < cursor[c]
  BY <1>3
<1> QED BY <1>2, <1>6, <1>7, <1>8, <1>9 DEF Vacant

\* A pass moves a cursor back only where an earlier holder of the id left it, so
\* no conversation that is still there is delivered twice (seated_cursor,
\* outbound.rs): in every instance, under every reset and every fault.
THEOREM ReseatsStrangersOnly == Spec => ReseatsOnlyStrangers
<1>1. Init => IInv /\ SeatInv
  BY InitIInv, SeatInvInit
<1>2. IInv /\ SeatInv /\ [Next]_vars => IInv' /\ SeatInv'
  BY NextIInv, NextSeatInv
<1>3. IInv /\ SeatInv => Reseating
  BY SeatInvReseats
<1> QED BY <1>1, <1>2, <1>3, PTL DEF Spec, ReseatsOnlyStrangers

-----------------------------------------------------------------------------
(* No item is handed over twice, where nothing is deleted *)

\* What an instance has to leave out: with a conversation that others share
\* blocks with goes their inherited boundary.
NoDeletion == Resets \cap {"strip", "erase", "expire"} = {}

\* Everything but a compaction's temporary fork is there for good.
Stays(c) == born[c] # None /\ c # capture.temporary

StoreKept ==
    /\ retiring = None
    /\ capture.temporary # None => born[capture.temporary] # None
    /\ \A c \in ConvIds : born[c] = None => ledger[c] = {}
    /\ \A c, d \in ConvIds : c # d /\ born[c] = born[d] => born[c] = None
    /\ \A b \in BlockIds : kind[b] = "free" =>
          item[b] = None /\ \A c \in ConvIds : b \notin ledger[c]
    /\ \A b \in BlockIds : kind[b] \in Deliverables => item[b] # None

\* An item is stored in one block, and handed over only once it is filed.
ItemsApart ==
    /\ \A b \in BlockIds : item[b] <= filed
    /\ \A b, d \in BlockIds : item[b] = item[d] /\ item[b] # None => b = d
    /\ \A i \in Items : i > filed => handed[i] = 0

\* What serves a channel or runs a turn stays.
Staffed ==
    /\ \A ch \in Channels : mapped[ch] # None => Stays(mapped[ch])
    /\ \A c \in turns : Stays(c)

\* So does what is passed over, and a cursor is that of the conversation
\* holding the id.
Attended ==
    /\ pass.stage # "idle" => Stays(pass.conv)
    /\ \A c \in ConvIds : cursor[c] # Vacant => Stays(c) /\ seatOf[c] = born[c]

PassTrue ==
    /\ pass.stage \in {"listed", "handing"} =>
          /\ pass.birth = born[pass.conv]
          /\ \A r \in pass.rows :
                /\ r.block \in ledger[pass.conv] /\ r.item = item[r.block]
                /\ r.kind \in Deliverables => r.item # None
    /\ pass.stage = "handing" => cursor[pass.conv] # Vacant

\* The block came to this conversation from one born before it.
Inherits(c, b) ==
    \E d \in ConvIds \ {c} : b \in ledger[d] /\ Stays(d) /\ born[d] < born[c]

\* The edge delivers, or may come to deliver, to this conversation's channel.
Served(c) == \/ \E ch \in Channels : mapped[ch] = c
             \/ pass.stage # "idle" /\ pass.conv = c

\* A cursor is past everything its conversation inherited ...
PastInherited ==
    \A c \in ConvIds : cursor[c] # Vacant =>
        \A b \in ledger[c] : Inherits(c, b) => b <= cursor[c]

\* ... and an item that was handed over is behind the cursor of every served
\* conversation that carries it, or will be once the cursor is seated.
HandedBehind ==
    \A c \in ConvIds : Served(c) =>
        \A b \in ledger[c] : item[b] # None /\ handed[item[b]] > 0 =>
            b <= cursor[c] \/ Inherits(c, b)

OnceInv == /\ StoreKept /\ ItemsApart /\ Staffed /\ Attended /\ PassTrue
           /\ PastInherited /\ HandedBehind /\ AtMostOnce

\* What a step beside the edge does: what stays keeps its blocks and takes fresh
\* ones, each into one ledger, and a conversation a channel comes to has its
\* items from another one.
Steady ==
    /\ UNCHANGED <<cursor, seatOf, pass, handed>>
    /\ \A c \in ConvIds : Stays(c) => /\ Stays(c)' /\ born'[c] = born[c]
                                      /\ ledger[c] \subseteq ledger'[c]
    /\ \A c \in ConvIds : Stays(c)' /\ ~Stays(c) => born'[c] = births + 1
    /\ \A c, d \in ConvIds : Stays(c) /\ Stays(d) /\ c # d =>
          \A b \in ledger'[c] : b \in ledger'[d] => b \in ledger[c] /\ b \in ledger[d]
    /\ \A b \in BlockIds : \/ item'[b] = item[b]
                           \/ kind[b] = "free" /\ item'[b] > filed
    /\ \A c \in ConvIds : Stays(c) =>
          \A b \in ledger'[c] : b \in ledger[c] \/ kind[b] = "free"
    /\ \A c \in ConvIds : (\E ch \in Channels : mapped'[ch] = c /\ mapped[ch] # c) =>
          \A b \in ledger'[c] : item'[b] # None => Inherits(c, b)'

LEMMA OnceNumbers ==
  ASSUME IInv, SeatInv
  PROVE  /\ births \in Nat /\ filed \in Nat
         /\ \A c \in ConvIds : /\ born[c] \in Nat /\ born[c] <= births
                               /\ cursor[c] \in Int /\ ledger[c] \subseteq BlockIds
         /\ \A b \in BlockIds : b \in Nat /\ item[b] \in Nat
                                /\ (item[b] # None => item[b] \in Items)
         /\ \A i \in Items : i \in Nat /\ handed[i] \in Nat
<1>1. /\ filed \in Nat
      /\ \A b \in BlockIds : b \in Nat /\ item[b] \in Nat
                             /\ (item[b] # None => item[b] \in Items)
      /\ \A i \in Items : i \in Nat /\ handed[i] \in Nat
  BY EdgeAssumption DEF IInv, TypeOK, BlockIds, Items, None
<1>2. \A c \in ConvIds : born[c] <= births
  BY DEF SeatInv, BirthsCounted
<1> QED BY <1>1, <1>2, SeatNumbers

LEMMA OnceInit == Init => OnceInv
<1> SUFFICES ASSUME Init PROVE OnceInv
  OBVIOUS
<1>1. /\ StoreKept /\ ItemsApart /\ Staffed
  BY EdgeAssumption DEF Init, StoreKept, ItemsApart, Staffed, NoCapture, None, Deliverables, Items
<1>2. Attended /\ PassTrue /\ PastInherited
  BY DEF Init, Attended, PassTrue, PastInherited, Idle, Vacant
<1>3. HandedBehind /\ AtMostOnce
  BY DEF Init, HandedBehind, AtMostOnce
<1> QED BY <1>1, <1>2, <1>3 DEF OnceInv

\* A steady step keeps what the edge relies on.
LEMMA SteadyKeeps ==
  ASSUME IInv, IInv', SeatInv, OnceInv, Steady
  PROVE  Attended' /\ PassTrue' /\ PastInherited' /\ HandedBehind' /\ AtMostOnce'
<1>0. /\ StoreKept /\ ItemsApart /\ Staffed /\ Attended /\ PassTrue
      /\ PastInherited /\ HandedBehind /\ AtMostOnce
  BY DEF OnceInv
<1>1. /\ cursor' = cursor /\ seatOf' = seatOf /\ pass' = pass /\ handed' = handed
  BY DEF Steady
<1>2. /\ \A c \in ConvIds : Stays(c) => /\ Stays(c)' /\ born'[c] = born[c]
                                        /\ ledger[c] \subseteq ledger'[c]
      /\ \A c \in ConvIds : Stays(c)' /\ ~Stays(c) => born'[c] = births + 1
      /\ \A c, d \in ConvIds : Stays(c) /\ Stays(d) /\ c # d =>
            \A b \in ledger'[c] : b \in ledger'[d] => b \in ledger[c] /\ b \in ledger[d]
  BY DEF Steady
<1>3. /\ \A b \in BlockIds : \/ item'[b] = item[b]
                             \/ kind[b] = "free" /\ item'[b] > filed
      /\ \A c \in ConvIds : Stays(c) =>
            \A b \in ledger'[c] : b \in ledger[c] \/ kind[b] = "free"
  BY DEF Steady
<1>4. Attended'
  <2>1. pass.stage # "idle" => pass.conv \in ConvIds
    BY DEF IInv, PassNamed
  <2> QED BY <1>0, <1>1, <1>2, <2>1 DEF Attended
<1>5. \A b \in BlockIds : kind[b] # "free" => item'[b] = item[b]
  BY <1>3
<1>6. \A c \in ConvIds, b \in BlockIds : b \in ledger[c] => kind[b] # "free"
  BY <1>0 DEF StoreKept
<1>7. PassTrue'
  <2>1. CASE pass.stage \in {"listed", "handing"}
    <3>1. pass.conv \in ConvIds /\ Stays(pass.conv)
      BY <1>0, <2>1 DEF Attended, IInv, PassNamed
    <3>2. \A r \in pass.rows : r.block \in BlockIds
      BY DEF IInv, TypeOK, Row
    <3> QED BY <1>0, <1>1, <1>2, <1>5, <1>6, <3>1, <3>2 DEF PassTrue
  <2>2. CASE pass.stage \notin {"listed", "handing"}
    BY <1>1, <2>2 DEF PassTrue
  <2> QED BY <2>1, <2>2
\* What a conversation that stays inherits, it inherited.
<1>8. ASSUME NEW c \in ConvIds, Stays(c), NEW b \in ledger'[c], Inherits(c, b)'
      PROVE  b \in ledger[c] /\ Inherits(c, b)
  <2>1. PICK d \in ConvIds \ {c} : b \in ledger'[d] /\ Stays(d)' /\ born'[d] < born'[c]
    BY <1>8 DEF Inherits
  <2>2. born'[c] = born[c] /\ born[c] \in Nat /\ born[c] <= births /\ births \in Nat
    BY <1>2, <1>8, OnceNumbers
  <2>3. Stays(d)
    BY <1>2, <2>1, <2>2
  <2>4. born'[d] = born[d]
    BY <1>2, <2>3
  <2> QED BY <1>2, <1>8, <2>1, <2>2, <2>3, <2>4 DEF Inherits
\* What it inherited it still does.
<1>9. ASSUME NEW c \in ConvIds, Stays(c), NEW b, Inherits(c, b)
      PROVE  Inherits(c, b)'
  <2>1. PICK d \in ConvIds \ {c} : b \in ledger[d] /\ Stays(d) /\ born[d] < born[c]
    BY <1>9 DEF Inherits
  <2>2. b \in ledger'[d] /\ Stays(d)' /\ born'[d] < born'[c]
    BY <1>2, <1>9, <2>1
  <2> QED BY <2>2 DEF Inherits
<1>10. PastInherited'
  <2>1. SUFFICES ASSUME NEW c \in ConvIds, cursor[c] # Vacant,
                        NEW b \in ledger'[c], Inherits(c, b)'
                 PROVE  b <= cursor[c]
    BY <1>1 DEF PastInherited
  <2>2. Stays(c)
    BY <1>0, <2>1 DEF Attended
  <2> QED BY <1>0, <1>8, <2>1, <2>2 DEF PastInherited
<1>11. HandedBehind'
  <2>1. SUFFICES ASSUME NEW c \in ConvIds, Served(c)', NEW b \in ledger'[c],
                        item'[b] # None, handed[item'[b]] > 0
                 PROVE  b <= cursor[c] \/ Inherits(c, b)'
    BY <1>1 DEF HandedBehind
  <2>2. CASE Served(c)
    <3>1. Stays(c)
      BY <1>0, <2>2 DEF Served, Staffed, Attended, None, ConvIds
    <3>2. b \in BlockIds /\ item'[b] \in Items
      <4>1. IInv'
        OBVIOUS
      <4> QED BY <4>1, <2>1 DEF IInv, TypeOK
    <3>3. item'[b] = item[b]
      BY <1>0, <1>3, <2>1, <3>2, OnceNumbers DEF ItemsApart
    <3>4. item[b] # None
      BY <2>1, <3>3
    <3>5. b \in ledger[c]
      BY <1>0, <1>3, <2>1, <3>1, <3>2, <3>4 DEF StoreKept
    <3>6. b <= cursor[c] \/ Inherits(c, b)
      BY <1>0, <2>1, <2>2, <3>3, <3>5 DEF HandedBehind
    <3> QED BY <1>9, <3>1, <3>6
  <2>3. CASE ~Served(c)
    <3>1. PICK ch \in Channels : mapped'[ch] = c /\ mapped[ch] # c
      BY <1>1, <2>1, <2>3 DEF Served
    <3>2. item'[b] # None => Inherits(c, b)'
      BY <2>1, <3>1 DEF Steady
    <3> QED BY <2>1, <3>2
  <2> QED BY <2>2, <2>3
<1>12. AtMostOnce'
  BY <1>0, <1>1 DEF AtMostOnce
<1> QED BY <1>4, <1>7, <1>10, <1>11, <1>12

-----------------------------------------------------------------------------
(* The steps beside the edge are steady *)

Beside == Steady /\ StoreKept' /\ ItemsApart' /\ Staffed'

\* A conversation is born over nothing, or over blocks of one that stays, and a
\* channel comes to it.
LEMMA BirthBeside ==
  ASSUME IInv, SeatInv, OnceInv,
         NEW ch \in Channels, NEW c \in ConvIds, NEW b \in BlockIds, NEW inherited,
         NextConv(c), NextBlock(b), BornWith(c, b, inherited),
         \A t \in inherited : \E d \in ConvIds : t \in ledger[d] /\ Stays(d),
         mapped' = [mapped EXCEPT ![ch] = c],
         capture'.temporary = capture.temporary, retiring' = retiring,
         turns' \subseteq turns,
         UNCHANGED <<filed, handed, cursor, seatOf, pass>>
  PROVE  Beside
<1>0. /\ StoreKept /\ ItemsApart /\ Staffed
  BY DEF OnceInv
<1>1. born[c] = None /\ kind[b] = "free" /\ c # None
  <2>1. ~(c < c) /\ ~(b < b) /\ c # None
    BY OnceNumbers, EdgeAssumption DEF ConvIds, BlockIds, None
  <2> QED BY <2>1 DEF NextConv, NextBlock, IsNext, Live, Used
<1>2. /\ ledger[c] = {} /\ item[b] = None /\ c # capture.temporary
      /\ \A d \in ConvIds : b \notin ledger[d]
  BY <1>0, <1>1 DEF StoreKept
<1>3. /\ births' = births + 1 /\ item' = item
      /\ born'[c] = births + 1 /\ ledger'[c] = inherited \cup {b} /\ kind'[b] = "open"
      /\ \A d \in ConvIds : d # c => born'[d] = born[d] /\ ledger'[d] = ledger[d]
      /\ \A t \in BlockIds : t # b => kind'[t] = kind[t]
  BY DEF BornWith, IInv, TypeOK
<1>4. /\ births \in Nat /\ births + 1 # None
      /\ \A d \in ConvIds : born[d] \in Nat /\ born[d] <= births /\ born[d] # births + 1
  BY OnceNumbers DEF None
<1>5. /\ Stays(c)' /\ ~Stays(c)
      /\ \A d \in ConvIds : d # c => (Stays(d)' <=> Stays(d))
  BY <1>1, <1>2, <1>3, <1>4 DEF Stays
<1>6. \A t \in inherited : /\ \E d \in ConvIds \ {c} : t \in ledger[d] /\ Stays(d)
                           /\ t # b /\ t \in BlockIds /\ kind[t] # "free"
  BY <1>0, <1>2, OnceNumbers DEF StoreKept
<1>7. StoreKept'
  <2>1. retiring' = None
    BY <1>0 DEF StoreKept
  <2>2. capture'.temporary # None => born'[capture'.temporary] # None
    <3>1. capture.temporary \in ConvIds \cup {None}
      BY DEF IInv, TypeOK
    <3> QED BY <1>0, <1>2, <1>3, <3>1 DEF StoreKept
  <2>3. \A d \in ConvIds : born'[d] = None => ledger'[d] = {}
    BY <1>0, <1>3, <1>4 DEF StoreKept
  <2>4. \A d, e \in ConvIds : d # e /\ born'[d] = born'[e] => born'[d] = None
    BY <1>0, <1>3, <1>4 DEF StoreKept
  <2>5. ASSUME NEW t \in BlockIds, kind'[t] = "free"
        PROVE  item'[t] = None /\ \A d \in ConvIds : t \notin ledger'[d]
    BY <1>0, <1>3, <1>6, <2>5 DEF StoreKept
  <2>6. \A t \in BlockIds : kind'[t] \in Deliverables => item'[t] # None
    BY <1>0, <1>3 DEF StoreKept, Deliverables
  <2> QED BY <2>1, <2>2, <2>3, <2>4, <2>5, <2>6 DEF StoreKept
<1>8. ItemsApart'
  BY <1>0, <1>3 DEF ItemsApart
<1>9. Staffed'
  <2>1. \A x \in Channels : mapped[x] # None => mapped[x] \in ConvIds
    BY DEF IInv, TypeOK
  <2>2. \A x \in Channels : mapped'[x] = IF x = ch THEN c ELSE mapped[x]
    BY DEF IInv, TypeOK
  <2>3. \A x \in turns' : x \in ConvIds /\ Stays(x)
    BY <1>0 DEF Staffed, IInv, TypeOK
  <2> QED BY <1>0, <1>5, <2>1, <2>2, <2>3 DEF Staffed
<1>10. Steady
  <2>1. \A x \in Channels : mapped'[x] = IF x = ch THEN c ELSE mapped[x]
    BY DEF IInv, TypeOK
  <2>2. ASSUME NEW t \in ledger'[c], item'[t] # None PROVE Inherits(c, t)'
    <3>1. t \in inherited
      BY <1>2, <1>3, <2>2
    <3>2. PICK d \in ConvIds \ {c} : t \in ledger[d] /\ Stays(d)
      BY <1>6, <3>1
    <3>3. t \in ledger'[d] /\ Stays(d)' /\ born'[d] < born'[c]
      BY <1>3, <1>4, <1>5, <3>2
    <3> QED BY <3>3 DEF Inherits
  <2>3. \A d \in ConvIds : (\E x \in Channels : mapped'[x] = d /\ mapped[x] # d) =>
          \A t \in ledger'[d] : item'[t] # None => Inherits(d, t)'
    BY <2>1, <2>2
  <2>4. \A d \in ConvIds : Stays(d) => /\ Stays(d)' /\ born'[d] = born[d]
                                       /\ ledger[d] = ledger'[d]
    BY <1>3, <1>5
  <2>5. \A d \in ConvIds : Stays(d)' /\ ~Stays(d) => born'[d] = births + 1
    BY <1>3, <1>5
  <2> QED BY <1>3, <2>3, <2>4, <2>5 DEF Steady
<1> QED BY <1>7, <1>8, <1>9, <1>10 DEF Beside

LEMMA FirstContactBeside ==
  ASSUME IInv, SeatInv, OnceInv, NEW ch \in Channels, FirstContact(ch) \/ Wipe(ch)
  PROVE  Beside
<1> DEFINE nothing == {}
<1>1. PICK c \in ConvIds, b \in BlockIds :
        /\ NextConv(c) /\ NextBlock(b) /\ BornWith(c, b, nothing)
        /\ mapped' = [mapped EXCEPT ![ch] = c]
  BY DEF FirstContact, Wipe
<1>2. /\ capture'.temporary = capture.temporary /\ retiring' = retiring
      /\ turns' \subseteq turns
      /\ UNCHANGED <<filed, handed, cursor, seatOf, pass>>
  BY DEF FirstContact, Wipe, items, bus, edge
<1>3. \A t \in nothing : \E d \in ConvIds : t \in ledger[d] /\ Stays(d)
  OBVIOUS
<1> HIDE DEF nothing
<1> QED BY <1>1, <1>2, <1>3, BirthBeside

LEMMA InstallBeside ==
  ASSUME IInv, SeatInv, OnceInv, CompactionInstalls
  PROVE  Beside
<1>0. /\ StoreKept /\ ItemsApart /\ Staffed
  BY DEF OnceInv
<1>1. /\ capture.source \in ConvIds /\ capture.temporary = None
      /\ capture'.temporary = capture.temporary /\ retiring' = retiring
      /\ UNCHANGED <<filed, handed, cursor, seatOf, pass>>
  BY DEF CompactionInstalls, NoCapture, IInv, TypeOK, items, edge
<1>2. CASE Installs
  <2> DEFINE inherited == {t \in ledger[capture.source] :
                             t > capture.cut /\ kind[t] # "open"}
  <2>1. PICK ch \in Channels : /\ mapped[ch] = capture.source
                               /\ \E c \in ConvIds, b \in BlockIds :
                                     /\ NextConv(c) /\ NextBlock(b)
                                     /\ BornWith(c, b, inherited)
                                     /\ mapped' = [mapped EXCEPT ![ch] = c]
    BY <1>2 DEF Installs
  <2>2. PICK c \in ConvIds, b \in BlockIds :
          /\ NextConv(c) /\ NextBlock(b) /\ BornWith(c, b, inherited)
          /\ mapped' = [mapped EXCEPT ![ch] = c]
    BY <2>1
  <2>3. Stays(capture.source)
    BY <1>0, <1>1, <2>1 DEF Staffed, ConvIds, None
  <2>4. \A t \in inherited : \E d \in ConvIds : t \in ledger[d] /\ Stays(d)
    BY <1>1, <2>3
  <2>5. turns' \subseteq turns
    BY <1>2 DEF Installs, Settled
  <2> HIDE DEF inherited
  <2> QED BY <1>1, <2>2, <2>4, <2>5, BirthBeside
<1>3. CASE StandsDown
  <2>1. UNCHANGED <<ledger, kind, item, mapped, born, births, turns>>
    BY <1>3 DEF StandsDown, bus
  <2>2. \A c : Stays(c)' <=> Stays(c)
    BY <1>1, <2>1 DEF Stays
  <2>3. StoreKept' /\ ItemsApart' /\ Staffed'
    BY <1>0, <1>1, <2>1, <2>2 DEF StoreKept, ItemsApart, Staffed
  <2>4. Steady
    BY <1>1, <2>1, <2>2 DEF Steady
  <2> QED BY <2>3, <2>4 DEF Beside
<1> QED BY <1>2, <1>3 DEF CompactionInstalls

\* A block is stored in the ledger of a conversation that stays.
LEMMA StoredBeside ==
  ASSUME IInv, SeatInv, OnceInv,
         NEW c \in ConvIds, Stays(c), NEW b \in BlockIds, NextBlock(b), NEW k, NEW stored,
         \/ k = "plain" /\ stored = None /\ filed' = filed
         \/ k \in {"send", "line"} /\ stored = filed + 1 /\ filed' = filed + 1,
         kind' = [kind EXCEPT ![b] = k], item' = [item EXCEPT ![b] = stored],
         ledger' = [ledger EXCEPT ![c] = @ \cup {b}],
         \A d \in turns' : d \in turns \/ d = c,
         UNCHANGED <<mapped, born, births, capture, retiring, handed, cursor, seatOf, pass>>
  PROVE  Beside
<1>0. /\ StoreKept /\ ItemsApart /\ Staffed
  BY DEF OnceInv
<1>1. kind[b] = "free"
  <2>1. ~(b < b)
    BY OnceNumbers
  <2> QED BY <2>1 DEF NextBlock, IsNext, Used
<1>2. item[b] = None /\ \A d \in ConvIds : b \notin ledger[d]
  BY <1>0, <1>1 DEF StoreKept
<1>3. /\ kind'[b] = k /\ item'[b] = stored /\ ledger'[c] = ledger[c] \cup {b}
      /\ \A d \in ConvIds : d # c => ledger'[d] = ledger[d]
      /\ \A t \in BlockIds : t # b => kind'[t] = kind[t] /\ item'[t] = item[t]
  BY DEF IInv, TypeOK
<1>4. \A d : Stays(d)' <=> Stays(d)
  BY DEF Stays
<1>5. /\ filed \in Nat /\ filed' \in Nat /\ filed <= filed' /\ k # "free" /\ stored <= filed'
      /\ stored # None => stored > filed
      /\ k \in Deliverables => stored # None
      /\ \A t \in BlockIds : item[t] \in Nat /\ item[t] <= filed
  BY <1>0, OnceNumbers DEF None, Deliverables, ItemsApart
<1>6. StoreKept'
  <2>1. /\ retiring' = None
        /\ capture'.temporary # None => born'[capture'.temporary] # None
        /\ \A d, e \in ConvIds : d # e /\ born'[d] = born'[e] => born'[d] = None
    BY <1>0 DEF StoreKept
  <2>2. \A d \in ConvIds : born'[d] = None => ledger'[d] = {}
    BY <1>0, <1>3 DEF StoreKept, Stays
  <2>3. ASSUME NEW t \in BlockIds, kind'[t] = "free"
        PROVE  item'[t] = None /\ \A d \in ConvIds : t \notin ledger'[d]
    BY <1>0, <1>3, <1>5, <2>3 DEF StoreKept
  <2>4. \A t \in BlockIds : kind'[t] \in Deliverables => item'[t] # None
    BY <1>0, <1>3, <1>5 DEF StoreKept
  <2> QED BY <2>1, <2>2, <2>3, <2>4 DEF StoreKept
<1>7. ItemsApart'
  <2>1. \A t \in BlockIds : item'[t] <= filed'
    BY <1>3, <1>5
  <2>2. \A t, u \in BlockIds : item'[t] = item'[u] /\ item'[t] # None => t = u
    BY <1>0, <1>3, <1>5 DEF ItemsApart
  <2>3. \A i \in Items : i > filed' => handed'[i] = 0
    BY <1>0, <1>5, OnceNumbers DEF ItemsApart
  <2> QED BY <2>1, <2>2, <2>3 DEF ItemsApart
<1>8. Staffed'
  BY <1>0, <1>4 DEF Staffed
<1>9. Steady
  <2>1. \A t \in BlockIds : \/ item'[t] = item[t]
                            \/ kind[t] = "free" /\ item'[t] > filed
    BY <1>1, <1>2, <1>3, <1>5
  <2>2. \A d \in ConvIds : Stays(d) =>
          \A t \in ledger'[d] : t \in ledger[d] \/ kind[t] = "free"
    BY <1>1, <1>3
  <2>3. \A d, e \in ConvIds : Stays(d) /\ Stays(e) /\ d # e =>
          \A t \in ledger'[d] : t \in ledger'[e] => t \in ledger[d] /\ t \in ledger[e]
    BY <1>2, <1>3
  <2>4. \A d \in ConvIds : Stays(d) => /\ Stays(d)' /\ born'[d] = born[d]
                                       /\ ledger[d] \subseteq ledger'[d]
    BY <1>3, <1>4
  <2>5. \A d \in ConvIds : Stays(d)' /\ ~Stays(d) => born'[d] = births + 1
    BY <1>4
  <2> QED BY <2>1, <2>2, <2>3, <2>4, <2>5 DEF Steady
<1> QED BY <1>6, <1>7, <1>8, <1>9 DEF Beside

LEMMA IngestBeside ==
  ASSUME IInv, SeatInv, OnceInv, NEW ch \in Channels, Ingest(ch)
  PROVE  Beside
<1> DEFINE c == mapped[ch]
<1>1. c \in ConvIds /\ Stays(c)
  BY DEF Ingest, OnceInv, Staffed, IInv, TypeOK
<1>2. PICK b \in BlockIds : /\ NextBlock(b) /\ kind' = [kind EXCEPT ![b] = "plain"]
                            /\ ledger' = [ledger EXCEPT ![c] = @ \cup {b}]
  BY DEF Ingest
<1>3. item[b] = None /\ item' = item
  <2>1. ~(b < b)
    BY OnceNumbers
  <2> QED BY <1>2, <2>1 DEF NextBlock, IsNext, Used, OnceInv, StoreKept, Ingest
<1>4. item' = [item EXCEPT ![b] = None]
  BY <1>3 DEF IInv, TypeOK
<1>5. /\ \A d \in turns' : d \in turns \/ d = c
      /\ filed' = filed
      /\ UNCHANGED <<mapped, born, births, capture, retiring, handed, cursor, seatOf, pass>>
  BY DEF Ingest, items, edge
<1> HIDE DEF c
<1> QED BY <1>1, <1>2, <1>4, <1>5, StoredBeside

LEMMA FileBeside ==
  ASSUME IInv, SeatInv, OnceInv, NEW c \in ConvIds, NEW k \in {"send", "line"}, File(c, k)
  PROVE  Beside
<1>1. Stays(c)
  BY DEF File, OnceInv, Staffed
<1>2. PICK b \in BlockIds : /\ NextBlock(b) /\ kind' = [kind EXCEPT ![b] = k]
                            /\ item' = [item EXCEPT ![b] = filed + 1]
                            /\ ledger' = [ledger EXCEPT ![c] = @ \cup {b}]
  BY DEF File
<1>3. /\ \A d \in turns' : d \in turns \/ d = c
      /\ filed' = filed + 1
      /\ UNCHANGED <<mapped, born, births, capture, retiring, handed, cursor, seatOf, pass>>
  BY DEF File, edge
<1> DEFINE stored == filed + 1
<1>4. item' = [item EXCEPT ![b] = stored] /\ stored = filed + 1
  BY <1>2
<1> HIDE DEF stored
<1> QED BY <1>1, <1>2, <1>3, <1>4, StoredBeside

LEMMA CaptureBeside ==
  ASSUME IInv, SeatInv, OnceInv, NEW ch \in Channels, CaptureBegins(ch)
  PROVE  Beside
<1>0. /\ StoreKept /\ ItemsApart /\ Staffed
  BY DEF OnceInv
<1> DEFINE source == mapped[ch]
<1>1. /\ source \in ConvIds /\ capture.temporary = None /\ births' = births + 1
      /\ UNCHANGED <<kind, item, mapped, retiring, filed, handed, turns, cursor, seatOf, pass>>
  BY DEF CaptureBegins, NoCapture, IInv, TypeOK, items, bus, edge
<1>2. PICK c \in ConvIds, cut \in ledger[source] :
        /\ NextConv(c)
        /\ born' = [born EXCEPT ![c] = births + 1]
        /\ ledger' = [ledger EXCEPT ![c] =
                        {b \in ledger[source] : b <= cut \/ kind[b] = "open"}]
        /\ capture' = [source |-> source, temporary |-> c, cut |-> cut]
  BY DEF CaptureBegins
<1>3. born[c] = None /\ c # None
  <2>1. ~(c < c) /\ c # None
    BY EdgeAssumption DEF ConvIds, None
  <2> QED BY <1>2, <2>1 DEF NextConv, IsNext, Live
<1>4. /\ born'[c] = births + 1 /\ ledger'[c] \subseteq ledger[source] /\ capture'.temporary = c
      /\ \A d \in ConvIds : d # c => born'[d] = born[d] /\ ledger'[d] = ledger[d]
  BY <1>2 DEF IInv, TypeOK
<1>5. /\ births \in Nat /\ births + 1 # None
      /\ \A d \in ConvIds : born[d] \in Nat /\ born[d] <= births /\ born[d] # births + 1
  BY OnceNumbers DEF None
<1>6. \A d \in ConvIds : Stays(d)' <=> Stays(d)
  BY <1>1, <1>3, <1>4 DEF Stays, ConvIds, None
<1>7. \A d \in ConvIds : Stays(d) => d # c
  BY <1>3 DEF Stays
<1> HIDE DEF source
<1>8. StoreKept'
  <2>1. retiring' = None /\ (capture'.temporary # None => born'[capture'.temporary] # None)
    BY <1>0, <1>1, <1>4, <1>5 DEF StoreKept
  <2>2. \A d \in ConvIds : born'[d] = None => ledger'[d] = {}
    BY <1>0, <1>4, <1>5 DEF StoreKept
  <2>3. \A d, e \in ConvIds : d # e /\ born'[d] = born'[e] => born'[d] = None
    BY <1>0, <1>4, <1>5 DEF StoreKept
  <2>4. \A b \in BlockIds : kind'[b] = "free" =>
          item'[b] = None /\ \A d \in ConvIds : b \notin ledger'[d]
    BY <1>0, <1>1, <1>4 DEF StoreKept
  <2>5. \A b \in BlockIds : kind'[b] \in Deliverables => item'[b] # None
    BY <1>0, <1>1 DEF StoreKept
  <2> QED BY <2>1, <2>2, <2>3, <2>4, <2>5 DEF StoreKept
<1>9. ItemsApart'
  BY <1>0, <1>1 DEF ItemsApart
<1>10. Staffed'
  BY <1>0, <1>1, <1>6 DEF Staffed, IInv, TypeOK
<1>11. Steady
  BY <1>1, <1>4, <1>6, <1>7 DEF Steady
<1> QED BY <1>8, <1>9, <1>10, <1>11 DEF Beside

LEMMA CaptureEndsBeside ==
  ASSUME IInv, SeatInv, OnceInv, CaptureEnds
  PROVE  Beside
<1>0. /\ StoreKept /\ ItemsApart /\ Staffed
  BY DEF OnceInv
<1> DEFINE c == capture.temporary
<1>1. /\ c \in ConvIds
      /\ UNCHANGED <<kind, item, mapped, retiring, filed, handed, turns, cursor, seatOf, pass>>
  BY DEF CaptureEnds, IInv, TypeOK, items, bus, edge
<1>2. /\ born'[c] = None /\ ledger'[c] = {} /\ capture'.temporary = None
      /\ \A d \in ConvIds : d # c => born'[d] = born[d] /\ ledger'[d] = ledger[d]
  BY <1>1 DEF CaptureEnds, IInv, TypeOK
<1>3. \A d \in ConvIds : (Stays(d)' <=> Stays(d)) /\ (Stays(d) => d # c)
  BY <1>1, <1>2 DEF Stays, ConvIds, None
<1> HIDE DEF c
<1>4. StoreKept'
  BY <1>0, <1>1, <1>2 DEF StoreKept
<1>5. ItemsApart'
  BY <1>0, <1>1 DEF ItemsApart
<1>6. Staffed'
  BY <1>0, <1>1, <1>3 DEF Staffed, IInv, TypeOK
<1>7. Steady
  BY <1>1, <1>2, <1>3 DEF Steady
<1> QED BY <1>4, <1>5, <1>6, <1>7 DEF Beside

\* Steps that leave the conversations and their blocks alone, but for a target
\* that is nulled.
LEMMA RestBeside ==
  ASSUME IInv, SeatInv, OnceInv,
         \/ \E c \in ConvIds : TurnEnds(c) \/ Echo(c)
         \/ \E b \in BlockIds : NullTarget(b)
         \/ Overrun
  PROVE  Beside
<1>0. /\ StoreKept /\ ItemsApart /\ Staffed
  BY DEF OnceInv
<1>1. /\ UNCHANGED <<ledger, item, mapped, born, births, capture, retiring, filed, handed,
                     cursor, seatOf, pass>>
      /\ turns' \subseteq turns
  BY DEF TurnEnds, Settled, Echo, NullTarget, Overrun, store, items, bus, edge
<1>2. \A b \in BlockIds : \/ kind'[b] = kind[b]
                          \/ kind[b] = "line" /\ kind'[b] = "blank"
  BY DEF TurnEnds, Echo, NullTarget, Overrun, store, IInv, TypeOK
<1>3. \A c : Stays(c)' <=> Stays(c)
  BY <1>1 DEF Stays
<1>4. StoreKept'
  BY <1>0, <1>1, <1>2 DEF StoreKept, Deliverables
<1>5. ItemsApart' /\ Staffed'
  BY <1>0, <1>1, <1>3 DEF ItemsApart, Staffed
<1>6. Steady
  BY <1>1, <1>3 DEF Steady
<1> QED BY <1>4, <1>5, <1>6 DEF Beside

-----------------------------------------------------------------------------
(* The edge's own steps *)

\* While the store stands still, so does what the edge relies on in it.
LEMMA StoreStill ==
  ASSUME OnceInv, UNCHANGED <<store, filed, turns>>
  PROVE  /\ StoreKept' /\ Staffed'
         /\ \A c : Stays(c)' <=> Stays(c)
         /\ \A c, b : Inherits(c, b)' <=> Inherits(c, b)
<1>1. \A c : Stays(c)' <=> Stays(c)
  BY DEF store, Stays
<1>2. \A c, b : Inherits(c, b)' <=> Inherits(c, b)
  BY <1>1 DEF Inherits, store
<1>3. StoreKept' /\ Staffed'
  BY <1>1 DEF OnceInv, StoreKept, Staffed, store
<1> QED BY <1>1, <1>2, <1>3

\* Between passes, and as one begins or lists, nothing is handed over.
LEMMA QuietOnce ==
  ASSUME IInv, OnceInv,
         \/ RecoverFromLag \/ PassEnds \/ PassFails \/ PassLists
         \/ \E c \in ConvIds : PassBegins(c)
  PROVE  OnceInv'
<1>0. /\ StoreKept /\ ItemsApart /\ Staffed /\ Attended /\ PassTrue
      /\ PastInherited /\ HandedBehind /\ AtMostOnce
  BY DEF OnceInv
<1>1. UNCHANGED <<store, items, turns, cursor, seatOf>>
  BY DEF RecoverFromLag, PassEnds, PassFails, PassLists, PassBegins, bus
<1>2. /\ filed' = filed /\ handed' = handed /\ cursor' = cursor /\ seatOf' = seatOf
      /\ ledger' = ledger /\ item' = item /\ kind' = kind /\ born' = born /\ mapped' = mapped
  BY <1>1 DEF items, store
<1>3. /\ StoreKept' /\ Staffed'
      /\ \A c : Stays(c)' <=> Stays(c)
      /\ \A c, b : Inherits(c, b)' <=> Inherits(c, b)
  BY <1>1, <1>2, StoreStill
<1>4. ItemsApart' /\ AtMostOnce' /\ PastInherited'
  BY <1>0, <1>2, <1>3 DEF ItemsApart, AtMostOnce, PastInherited
<1>5. \/ pass' = pass
      \/ pass'.stage = "idle"
      \/ pass'.stage = "named" /\ pass'.conv \in MappedConvs
      \/ PassLists
  <2>1. CASE RecoverFromLag
    BY <2>1 DEF RecoverFromLag
  <2>2. CASE PassEnds \/ PassFails
    BY <2>2 DEF PassEnds, PassFails, Idle
  <2>3. ASSUME NEW c \in ConvIds, PassBegins(c)
        PROVE  \/ pass'.stage = "idle"
               \/ pass'.stage = "named" /\ pass'.conv \in MappedConvs
    <3>1. CASE c \in MappedConvs
      BY <2>3, <3>1 DEF PassBegins, Idle
    <3>2. CASE c \notin MappedConvs
      BY <2>3, <3>2 DEF PassBegins, Idle
    <3> QED BY <3>1, <3>2
  <2> QED BY <2>1, <2>2, <2>3
<1>6. pass'.stage # "idle" =>
         (pass.stage # "idle" /\ pass'.conv = pass.conv) \/ pass'.conv \in MappedConvs
  BY <1>5 DEF PassLists, IInv, TypeOK
<1>7. Attended'
  <2>1. \A c \in MappedConvs : Stays(c)
    BY <1>0 DEF MappedConvs, Staffed
  <2> QED BY <1>0, <1>2, <1>3, <1>6, <2>1 DEF Attended
<1>8. HandedBehind'
  <2>1. \A c \in ConvIds : Served(c)' => Served(c)
    BY <1>2, <1>6 DEF Served, MappedConvs
  <2> QED BY <1>0, <1>2, <1>3, <2>1 DEF HandedBehind
<1>9. PassTrue'
  <2>1. CASE PassLists
    <3> DEFINE c == pass.conv
    <3>0. c \in ConvIds
      BY <2>1 DEF PassLists, IInv, PassNamed
    <3>1. /\ pass'.stage = "listed" /\ pass'.conv = c /\ pass'.birth = born[c]
          /\ pass'.rows = {[block |-> b, kind |-> kind[b], item |-> item[b]] : b \in ledger[c]}
      BY <2>1 DEF PassLists, IInv, TypeOK
    <3>2. ASSUME NEW r \in pass'.rows
          PROVE  /\ r.block \in ledger[c] /\ r.item = item[r.block]
                 /\ r.kind \in Deliverables => r.item # None
      <4>1. PICK b \in ledger[c] : r = [block |-> b, kind |-> kind[b], item |-> item[b]]
        BY <3>1, <3>2
      <4>2. b \in BlockIds
        BY <3>0 DEF IInv, TypeOK
      <4> QED BY <1>0, <4>1, <4>2 DEF StoreKept
    <3> QED BY <1>2, <3>1, <3>2 DEF PassTrue
  <2>2. CASE ~PassLists
    <3>1. pass' = pass \/ pass'.stage \in {"idle", "named"}
      BY <1>5, <2>2
    <3> QED BY <1>0, <1>2, <3>1 DEF PassTrue
  <2> QED BY <2>1, <2>2
<1> QED BY <1>3, <1>4, <1>7, <1>8, <1>9 DEF OnceInv

\* A pass seats a cursor that is absent past everything inherited, and leaves
\* another one where it is.
LEMMA SeatRight ==
  ASSUME IInv, SeatInv, OnceInv, PassSeats
  PROVE  LET c == pass.conv
         IN /\ c \in ConvIds /\ cursor' = [cursor EXCEPT ![c] = cursor'[c]]
            /\ \/ cursor[c] # Vacant /\ cursor'[c] = cursor[c]
               \/ /\ cursor[c] = Vacant /\ cursor'[c] \in Nat
                  /\ \A b \in ledger[c] : Inherits(c, b) => b <= cursor'[c]
<1> DEFINE c == pass.conv
           listed == {r.block : r \in pass.rows}
           shared == {b \in ledger[c] : \E d \in ConvIds \ {c} : b \in ledger[d]}
           seat == SeatedCursor(c, Newest(listed))
<1>0. c \in ConvIds /\ pass.stage = "listed"
  BY DEF PassSeats, IInv, PassNamed
<1>1. cursor' = [cursor EXCEPT ![c] = seat]
  BY DEF PassSeats
<1>2. /\ listed \subseteq BlockIds /\ shared \subseteq BlockIds
      /\ cursor[c] \in Int /\ \A b \in BlockIds : b \in Nat
  BY <1>0, SeatNumbers
<1>3. cursor'[c] = seat
  <2> HIDE DEF seat
  <2> QED BY <1>0, <1>1 DEF IInv, TypeOK
<1>4. seat = IF cursor[c] = Vacant \/ cursor[c] > Newest(listed)
             THEN Newest(shared) ELSE cursor[c]
  BY DEF SeatedCursor, InheritedBoundary
<1>5. /\ Newest(listed) \in listed \cup {0} /\ \A x \in listed : x <= Newest(listed)
      /\ Newest(shared) \in shared \cup {0} /\ \A x \in shared : x <= Newest(shared)
  BY <1>2, NewestIn
<1>6. \A b \in ledger[c] : Inherits(c, b) => b \in shared
  BY DEF Inherits
<1>7. cursor[c] # Vacant => \E b \in listed \cup {0} : cursor[c] <= b
  <2>1. cursor[c] # Vacant => seatOf[c] = born[c] /\ born[c] # None /\ pass.birth = born[c]
    BY <1>0 DEF OnceInv, Attended, PassTrue, Stays
  <2> QED BY <1>0, <2>1 DEF SeatInv, ListedWithin
<1> HIDE DEF listed, shared, seat
<1>8. Newest(listed) \in Nat /\ Newest(shared) \in Nat
  <2>1. \A x \in listed \cup shared \cup {0} : x \in Nat
    BY <1>2
  <2> QED BY <1>5, <2>1
<1>9. CASE cursor[c] = Vacant
  BY <1>0, <1>1, <1>3, <1>4, <1>5, <1>6, <1>8, <1>9
<1>10. CASE cursor[c] # Vacant
  <2>1. PICK b \in listed \cup {0} : cursor[c] <= b
    BY <1>7, <1>10
  <2>2. b \in Nat /\ b <= Newest(listed)
    BY <1>2, <1>5, <1>8
  <2>3. ~(cursor[c] > Newest(listed))
    BY <1>2, <1>8, <2>1, <2>2
  <2> QED BY <1>0, <1>1, <1>3, <1>4, <1>10, <2>3
<1> QED BY <1>9, <1>10

LEMMA PassSeatsOnce ==
  ASSUME IInv, SeatInv, OnceInv, PassSeats
  PROVE  OnceInv'
<1>0. /\ StoreKept /\ ItemsApart /\ Staffed /\ Attended /\ PassTrue
      /\ PastInherited /\ HandedBehind /\ AtMostOnce
  BY DEF OnceInv
<1> DEFINE c == pass.conv
<1>1. UNCHANGED <<store, items, turns>>
  BY DEF PassSeats, bus
<1>2. /\ filed' = filed /\ handed' = handed
      /\ ledger' = ledger /\ item' = item /\ kind' = kind /\ born' = born /\ mapped' = mapped
  BY <1>1 DEF items, store
<1>3. /\ StoreKept' /\ Staffed'
      /\ \A d : Stays(d)' <=> Stays(d)
      /\ \A d, b : Inherits(d, b)' <=> Inherits(d, b)
  BY <1>1, <1>2, StoreStill
<1>4. /\ pass'.stage = "handing" /\ pass'.conv = c /\ pass'.birth = pass.birth
      /\ pass'.rows = pass.rows /\ pass.stage = "listed"
      /\ seatOf' = [seatOf EXCEPT ![c] = pass.birth]
  BY DEF PassSeats, IInv, TypeOK
<1>5. /\ c \in ConvIds /\ Stays(c) /\ pass.birth = born[c]
  BY <1>0, <1>4 DEF Attended, PassTrue, IInv, PassNamed
<1>6. /\ \A d \in ConvIds : d # c => cursor'[d] = cursor[d] /\ seatOf'[d] = seatOf[d]
      /\ seatOf'[c] = born[c]
      /\ \/ cursor[c] # Vacant /\ cursor'[c] = cursor[c]
         \/ /\ cursor[c] = Vacant /\ cursor'[c] \in Nat
            /\ \A b \in ledger[c] : Inherits(c, b) => b <= cursor'[c]
  <2>1. cursor' = [cursor EXCEPT ![c] = cursor'[c]]
    BY SeatRight
  <2>2. \A d \in ConvIds : d # c => cursor'[d] = cursor[d]
    BY <2>1 DEF IInv, TypeOK
  <2>3. /\ \A d \in ConvIds : d # c => seatOf'[d] = seatOf[d]
        /\ seatOf'[c] = born[c]
    BY <1>4, <1>5 DEF IInv, TypeOK
  <2> QED BY <2>2, <2>3, SeatRight
<1>7. cursor'[c] # Vacant /\ \A b \in ledger[c] : Inherits(c, b) => b <= cursor'[c]
  BY <1>0, <1>5, <1>6 DEF PastInherited, Vacant
<1>8. ItemsApart' /\ AtMostOnce'
  BY <1>0, <1>2 DEF ItemsApart, AtMostOnce
<1>9. Attended' /\ PassTrue'
  BY <1>0, <1>2, <1>3, <1>4, <1>5, <1>6, <1>7 DEF Attended, PassTrue
<1>10. PastInherited'
  BY <1>0, <1>2, <1>3, <1>6, <1>7 DEF PastInherited
<1>11. HandedBehind'
  <2>1. \A d \in ConvIds : Served(d)' => Served(d)
    BY <1>2, <1>4 DEF Served
  <2>2. SUFFICES ASSUME NEW d \in ConvIds, Served(d), NEW b \in ledger[d],
                        item[b] # None, handed[item[b]] > 0
                 PROVE  b <= cursor'[d] \/ Inherits(d, b)
    BY <1>2, <1>3, <2>1 DEF HandedBehind
  <2>3. b <= cursor[d] \/ Inherits(d, b)
    BY <1>0, <2>2 DEF HandedBehind
  <2>4. CASE d # c
    BY <1>6, <2>3, <2>4
  <2>5. CASE d = c /\ cursor[c] = Vacant
    <3>1. b \in Nat
      BY <2>2, OnceNumbers
    <3> QED BY <2>3, <2>5, <3>1 DEF Vacant
  <2>6. CASE d = c /\ cursor[c] # Vacant
    BY <1>6, <2>3, <2>6
  <2> QED BY <2>4, <2>5, <2>6
<1> QED BY <1>3, <1>8, <1>9, <1>10, <1>11 DEF OnceInv

\* What a pass hands over is in front of the cursor, so no earlier conversation
\* had it, none handed it over, and the later ones inherit it from this one.
LEMMA PassHandsOnce ==
  ASSUME IInv, SeatInv, OnceInv, PassHands
  PROVE  OnceInv'
<1>0. /\ StoreKept /\ ItemsApart /\ Staffed /\ Attended /\ PassTrue
      /\ PastInherited /\ HandedBehind /\ AtMostOnce
  BY DEF OnceInv
<1> DEFINE c == pass.conv
<1>1. UNCHANGED <<store, filed, turns, seatOf, pass>>
  BY DEF PassHands, bus
<1>2. /\ ledger' = ledger /\ item' = item /\ kind' = kind /\ born' = born /\ mapped' = mapped
      /\ seatOf' = seatOf /\ pass' = pass /\ filed' = filed
  BY <1>1 DEF store
<1>3. /\ StoreKept' /\ Staffed'
      /\ \A d : Stays(d)' <=> Stays(d)
      /\ \A d, b : Inherits(d, b)' <=> Inherits(d, b)
  BY <1>1, StoreStill
<1>4. PICK r \in Owed :
        /\ cursor' = [cursor EXCEPT ![c] = r.block]
        /\ handed' = IF r.kind = "blank" THEN handed ELSE [handed EXCEPT ![r.item] = @ + 1]
  BY DEF PassHands
<1>5. /\ c \in ConvIds /\ Stays(c) /\ cursor[c] # Vacant
  BY <1>0 DEF PassHands, Attended, PassTrue, IInv, PassNamed
<1> DEFINE b == r.block
<1>6. /\ b \in ledger[c] /\ b \in BlockIds /\ b > cursor[c]
      /\ r.item = item[b] /\ item[b] # None
  <2>1. r \in pass.rows /\ r.kind \in Deliverables /\ b > cursor[c] /\ b \in BlockIds
    BY <1>4 DEF Owed, IInv, TypeOK, Row
  <2>2. pass.stage = "handing"
    BY DEF PassHands
  <2> QED BY <1>0, <2>1, <2>2 DEF PassTrue
<1>7. cursor'[c] = b /\ \A d \in ConvIds : d # c => cursor'[d] = cursor[d]
  BY <1>4, <1>5 DEF IInv, TypeOK
<1>8. item[b] \in Items /\ b \in Nat /\ cursor[c] \in Int
  BY <1>5, <1>6, OnceNumbers
<1>9. ~Inherits(c, b)
  BY <1>0, <1>5, <1>6, <1>8 DEF PastInherited
<1>10. Served(c)
  BY DEF Served, PassHands
<1>11. handed[item[b]] = 0
  <2>1. ~(handed[item[b]] > 0)
    BY <1>0, <1>5, <1>6, <1>8, <1>9, <1>10 DEF HandedBehind
  <2> QED BY <1>8, <2>1, OnceNumbers
<1>12. /\ handed'[item[b]] \in {0, 1}
       /\ \A i \in Items : i # item[b] => handed'[i] = handed[i]
  <2>1. CASE r.kind = "blank"
    BY <1>4, <1>11, <2>1
  <2>2. CASE r.kind # "blank"
    <3>1. handed' = [handed EXCEPT ![item[b]] = @ + 1]
      BY <1>4, <1>6, <2>2
    <3>2. handed \in [Items -> Nat]
      BY DEF IInv, TypeOK
    <3> QED BY <1>8, <1>11, <3>1, <3>2
  <2> QED BY <2>1, <2>2
<1> HIDE DEF b
<1>13. AtMostOnce'
  BY <1>0, <1>12 DEF AtMostOnce
<1>14. ItemsApart'
  <2>1. item[b] <= filed
    BY <1>0, <1>6 DEF ItemsApart
  <2>2. \A i \in Items : i > filed => i # item[b]
    BY <1>8, <2>1, OnceNumbers
  <2> QED BY <1>0, <1>2, <1>12, <2>2 DEF ItemsApart
<1>15. Attended' /\ PassTrue'
  <2>1. cursor'[c] # Vacant
    BY <1>7, <1>8 DEF Vacant
  <2> QED BY <1>0, <1>2, <1>3, <1>5, <1>7, <2>1 DEF Attended, PassTrue
<1>16. PastInherited'
  <2>1. SUFFICES ASSUME NEW d \in ConvIds, cursor'[d] # Vacant,
                        NEW t \in ledger[d], Inherits(d, t)
                 PROVE  t <= cursor'[d]
    BY <1>2, <1>3 DEF PastInherited
  <2>2. CASE d # c
    BY <1>0, <1>7, <2>1, <2>2 DEF PastInherited
  <2>3. CASE d = c
    <3>1. t <= cursor[c] /\ t \in Nat
      BY <1>0, <1>5, <2>1, <2>3, OnceNumbers DEF PastInherited
    <3> QED BY <1>6, <1>7, <1>8, <2>3, <3>1
  <2> QED BY <2>2, <2>3
<1>17. HandedBehind'
  <2>1. SUFFICES ASSUME NEW d \in ConvIds, Served(d), NEW t \in ledger[d],
                        item[t] # None, handed'[item[t]] > 0
                 PROVE  t <= cursor'[d] \/ Inherits(d, t)
    <3>1. \A d \in ConvIds : Served(d)' <=> Served(d)
      BY <1>2 DEF Served
    <3> QED BY <1>2, <1>3, <3>1 DEF HandedBehind
  <2>2. t \in BlockIds /\ t \in Nat /\ item[t] \in Items
    BY <2>1, OnceNumbers
  <2>3. Stays(d)
    BY <1>0, <2>1 DEF Served, Staffed, Attended, None, ConvIds
  <2>4. CASE t = b /\ d # c
    \* It has the block from this conversation, or this one has it from there.
    <3>1. born[d] # born[c] /\ born[d] \in Nat /\ born[c] \in Nat
      BY <1>0, <1>5, <2>3, <2>4, OnceNumbers DEF StoreKept, Stays
    <3>2. born[d] < born[c] => Inherits(c, b)
      BY <2>1, <2>3, <2>4 DEF Inherits
    <3>3. born[c] < born[d] => Inherits(d, b)
      BY <1>5, <1>6, <2>4 DEF Inherits
    <3> QED BY <1>9, <2>4, <3>1, <3>2, <3>3
  <2>5. CASE t = b /\ d = c
    BY <1>7, <1>8, <2>5
  <2>6. CASE t # b
    <3>1. item[t] # item[b]
      BY <1>0, <1>6, <2>1, <2>2, <2>6 DEF ItemsApart
    <3>2. handed[item[t]] > 0
      BY <1>12, <2>1, <2>2, <3>1
    <3>3. t <= cursor[d] \/ Inherits(d, t)
      BY <1>0, <2>1, <3>2 DEF HandedBehind
    <3>4. cursor[d] \in Int /\ cursor[d] <= cursor'[d] /\ cursor'[d] \in Int
      BY <1>6, <1>7, <1>8, OnceNumbers
    <3> QED BY <2>2, <3>3, <3>4
  <2> QED BY <2>4, <2>5, <2>6
<1> QED BY <1>3, <1>13, <1>14, <1>15, <1>16, <1>17 DEF OnceInv

\* After a restart all a served conversation carries is behind its cursor.
LEMMA RestartOnce ==
  ASSUME IInv, SeatInv, OnceInv, Restart
  PROVE  OnceInv'
<1>0. /\ StoreKept /\ ItemsApart /\ Staffed /\ AtMostOnce
  BY DEF OnceInv
<1>1. /\ UNCHANGED <<ledger, kind, item, mapped, born, births, filed, handed>>
      /\ capture'.temporary = None /\ retiring' = None /\ turns' = {}
      /\ pass'.stage = "idle"
  BY DEF Restart, NoCapture, Idle
<1>2. \A c \in ConvIds : born[c] # None => Stays(c)'
  BY <1>1 DEF Stays, ConvIds, None
<1>3. \A c \in ConvIds : Stays(c) => Stays(c)'
  BY <1>2 DEF Stays
<1>4. \A c \in ConvIds : IF c \in MappedConvs
                         THEN cursor'[c] = Newest(ledger[c]) /\ seatOf'[c] = born[c]
                         ELSE cursor'[c] = Vacant
  BY DEF Restart
<1>5. \A c \in ConvIds : \A b \in ledger[c] : b <= Newest(ledger[c])
  BY OnceNumbers, NewestIn
<1>6. StoreKept' /\ ItemsApart' /\ AtMostOnce'
  BY <1>0, <1>1 DEF StoreKept, ItemsApart, AtMostOnce
<1>7. Staffed'
  BY <1>0, <1>1, <1>3 DEF Staffed, IInv, TypeOK
<1>8. Attended' /\ PassTrue'
  <2>1. \A c \in MappedConvs : Stays(c)
    BY <1>0 DEF MappedConvs, Staffed
  <2> QED BY <1>1, <1>3, <1>4, <2>1 DEF Attended, PassTrue
<1>9. PastInherited'
  BY <1>1, <1>4, <1>5 DEF PastInherited
<1>10. HandedBehind'
  <2>1. \A c \in ConvIds : Served(c)' => c \in MappedConvs
    BY <1>1 DEF Served, MappedConvs, None, ConvIds
  <2> QED BY <1>1, <1>4, <1>5, <2>1 DEF HandedBehind
<1> QED BY <1>6, <1>7, <1>8, <1>9, <1>10 DEF OnceInv

LEMMA NextOnce ==
  ASSUME NoDeletion
  PROVE  IInv /\ SeatInv /\ OnceInv /\ [Next]_vars => OnceInv'
<1> SUFFICES ASSUME IInv, SeatInv, OnceInv, [Next]_vars PROVE OnceInv'
  OBVIOUS
<1>1. CASE EdgeStep
  BY <1>1, QuietOnce, PassSeatsOnce, PassHandsOnce DEF EdgeStep
<1>2. CASE Restart
  BY <1>2, RestartOnce
<1>3. CASE Next /\ ~EdgeStep /\ ~Restart
  <2>1. \A ch \in Channels : ~Strip(ch)
    BY DEF NoDeletion, Strip
  <2>2. \A c \in ConvIds : ~Erase(c) /\ ~Expire(c)
    BY DEF NoDeletion, Erase, Expire
  <2>3. ~StripRetires
    BY DEF OnceInv, StoreKept, StripRetires
  <2>4. Beside
    BY <1>3, <2>1, <2>2, <2>3, FirstContactBeside, IngestBeside, CaptureBeside,
       FileBeside, RestBeside, CaptureEndsBeside, InstallBeside DEF Next
  <2>5. IInv'
    BY NextIInv
  <2> QED BY <2>4, <2>5, SteadyKeeps DEF Beside, OnceInv
<1>4. CASE UNCHANGED vars
  <2>1. \A c : Stays(c)' <=> Stays(c)
    BY <1>4 DEF vars, store, Stays
  <2>2. \A c, b : Inherits(c, b)' <=> Inherits(c, b)
    BY <1>4, <2>1 DEF vars, store, Inherits
  <2>3. \A c : Served(c)' <=> Served(c)
    BY <1>4 DEF vars, store, edge, Served
  <2>4. StoreKept' /\ ItemsApart' /\ Staffed'
    BY <1>4, <2>1 DEF OnceInv, StoreKept, ItemsApart, Staffed, vars, store, items, bus
  <2>5. Attended' /\ PassTrue'
    BY <1>4, <2>1 DEF OnceInv, Attended, PassTrue, vars, store, edge
  <2>6. PastInherited' /\ HandedBehind' /\ AtMostOnce'
    BY <1>4, <2>2, <2>3 DEF OnceInv, PastInherited, HandedBehind, AtMostOnce,
                            vars, store, items, edge
  <2> QED BY <2>4, <2>5, <2>6 DEF OnceInv
<1> QED BY <1>1, <1>2, <1>3, <1>4

\* No item reaches the adapter twice (deliver, outbound.rs), through any wipes,
\* compactions, nulled targets, restarts, overruns and failed writes, as long as
\* no conversation is deleted: the code has no such limit, but with a strip's or
\* the sweep's deletion the property is false.
THEOREM HandedOnce ==
  ASSUME NoDeletion
  PROVE  Spec => []AtMostOnce
<1>1. Init => IInv /\ SeatInv /\ OnceInv
  BY InitIInv, SeatInvInit, OnceInit
<1>2. IInv /\ SeatInv /\ OnceInv /\ [Next]_vars => IInv' /\ SeatInv' /\ OnceInv'
  BY NextIInv, NextSeatInv, NextOnce
<1>3. OnceInv => AtMostOnce
  BY DEF OnceInv
<1> QED BY <1>1, <1>2, <1>3, PTL DEF Spec

-----------------------------------------------------------------------------
(* No cursor is taken past an item of its own conversation *)

\* What a pass has to hand over.
Awaited == {"send", "line"}

\* What a ledger holds is stored, and an item awaited is one that was filed.
HeldUsed    == \A c \in ConvIds : \A b \in ledger[c] : kind[b] # "free"
ItemsStored == \A b \in BlockIds : kind[b] \in Awaited => item[b] \in Items

\* A cursor written for somebody stands somewhere.
EntriesSeated == \A c \in ConvIds : seatOf[c] # None => cursor[c] # Vacant

\* While the conversation it was listed for is there, a pass has a row of each
\* block it holds, or the block came later and lies behind them all; and what
\* its rows say is what is stored, but for a target nulled since.
RowsWhole ==
    (pass.stage \in {"listed", "handing"} /\ pass.birth # None
       /\ born[pass.conv] = pass.birth) =>
        /\ \A r \in pass.rows : /\ r.item = item[r.block]
                                /\ kind[r.block] \in {r.kind, "blank"}
        /\ \A b \in ledger[pass.conv] : \/ \E r \in pass.rows : r.block = b
                                        \/ \A r \in pass.rows : r.block < b

KeepInv == HeldUsed /\ ItemsStored /\ EntriesSeated /\ RowsWhole

LEMMA KeepInit == Init => KeepInv
<1> SUFFICES ASSUME Init PROVE KeepInv
  OBVIOUS
<1>1. /\ pass.stage = "idle" /\ \A c \in ConvIds : ledger[c] = {} /\ seatOf[c] = None
      /\ \A b \in BlockIds : kind[b] = "free"
  BY DEF Init, Idle
<1> QED BY <1>1 DEF KeepInv, HeldUsed, ItemsStored, EntriesSeated, RowsWhole, Awaited

\* A block that is next lies behind every one in use.
Behind(b) == \A other \in BlockIds : kind[other] # "free" => other < b

\* What a step beside the edge does to a conversation that stays: its blocks
\* stay as they are, but for a nulled target, and new ones lie behind them.
Takes ==
    \A c \in ConvIds : born'[c] # None /\ born'[c] = born[c] =>
        /\ \A b \in ledger[c] : item'[b] = item[b] /\ kind'[b] \in {kind[b], "blank"}
        /\ \A b \in ledger'[c] : b \in ledger[c] \/ Behind(b)

StoreSound == Takes /\ HeldUsed' /\ ItemsStored'

LEMMA NextIsBehind ==
  ASSUME IInv, NEW b \in BlockIds, NextBlock(b)
  PROVE  kind[b] = "free" /\ Behind(b)
<1>1. Behind(b)
  BY DEF NextBlock, IsNext, Used, Behind
<1>2. ~(b < b)
  BY EdgeAssumption DEF BlockIds
<1> QED BY <1>1, <1>2 DEF Behind

\* A conversation is born over blocks another one holds, with one of its own.
LEMMA BirthSound ==
  ASSUME IInv, SeatInv, KeepInv, NEW c \in ConvIds, NEW b \in BlockIds, NextBlock(b),
         NEW d \in ConvIds, NEW inherited \in SUBSET ledger[d], BornWith(c, b, inherited)
  PROVE  StoreSound
<1>1. /\ ledger'[c] = inherited \cup {b} /\ born'[c] = births + 1 /\ item' = item
      /\ kind'[b] = "open" /\ \A x \in BlockIds \ {b} : kind'[x] = kind[x]
      /\ \A e \in ConvIds \ {c} : ledger'[e] = ledger[e]
  BY DEF BornWith, IInv, TypeOK
<1>2. kind[b] = "free"
  BY NextIsBehind
<1>3. \A e \in ConvIds : \A x \in ledger[e] : x \in BlockIds /\ kind[x] # "free" /\ x # b
  BY <1>2 DEF KeepInv, HeldUsed, IInv, TypeOK
<1>4. born'[c] # born[c]
  <2>1. born[c] <= births /\ born[c] \in Nat /\ births \in Nat
    BY SeatNumbers DEF SeatInv, BirthsCounted
  <2> QED BY <1>1, <2>1
<1>5. Takes
  BY <1>1, <1>3, <1>4 DEF Takes
<1>6. HeldUsed'
  BY <1>1, <1>3 DEF HeldUsed
<1>7. ItemsStored'
  BY <1>1 DEF KeepInv, ItemsStored, Awaited
<1> QED BY <1>5, <1>6, <1>7 DEF StoreSound

\* A conversation takes block b.
LEMMA TakenSound ==
  ASSUME IInv, KeepInv, NEW c \in ConvIds, NEW b \in BlockIds, NextBlock(b),
         ledger' = [ledger EXCEPT ![c] = ledger[c] \cup {b}],
         \A d \in BlockIds \ {b} : kind'[d] = kind[d] /\ item'[d] = item[d],
         kind'[b] # "free", kind'[b] \in Awaited => item'[b] \in Items
  PROVE  StoreSound
<1>1. kind[b] = "free" /\ Behind(b)
  BY NextIsBehind
<1>2. ledger'[c] = ledger[c] \cup {b} /\ \A d \in ConvIds \ {c} : ledger'[d] = ledger[d]
  BY DEF IInv, TypeOK
<1>3. \A e \in ConvIds : \A x \in ledger[e] : x \in BlockIds /\ kind[x] # "free" /\ x # b
  BY <1>1 DEF KeepInv, HeldUsed, IInv, TypeOK
<1>4. Takes
  BY <1>1, <1>2, <1>3 DEF Takes
<1>5. HeldUsed'
  BY <1>2, <1>3 DEF HeldUsed
<1>6. ItemsStored'
  BY DEF KeepInv, ItemsStored
<1> QED BY <1>4, <1>5, <1>6 DEF StoreSound

\* A conversation is deleted, and what it alone held.
LEMMA DeletedSound ==
  ASSUME IInv, KeepInv, NEW c \in ConvIds, Deleted(c)
  PROVE  StoreSound
<1> DEFINE kept == UNION {ledger[d] : d \in ConvIds \ {c}}
<1>1. /\ born'[c] = None /\ ledger'[c] = {}
      /\ \A d \in ConvIds \ {c} : ledger'[d] = ledger[d]
      /\ \A b \in BlockIds : /\ kind'[b] = IF b \in kept THEN kind[b] ELSE "free"
                             /\ item'[b] = IF b \in kept THEN item[b] ELSE None
  BY DEF Deleted, IInv, TypeOK
<1>2. \A d \in ConvIds \ {c} : \A b \in ledger[d] : b \in kept /\ b \in BlockIds
  BY DEF IInv, TypeOK
<1> HIDE DEF kept
<1>3. Takes
  BY <1>1, <1>2 DEF Takes
<1>4. HeldUsed'
  BY <1>1, <1>2 DEF KeepInv, HeldUsed
<1>5. ItemsStored'
  BY <1>1 DEF KeepInv, ItemsStored, Awaited
<1> QED BY <1>3, <1>4, <1>5 DEF StoreSound

\* Blocks change hands and stay what they are, but for a nulled target.
LEMMA SharedSound ==
  ASSUME IInv, KeepInv, item' = item, kind' \in [BlockIds -> Kinds],
         \A b \in BlockIds : kind'[b] \in {kind[b], "blank"},
         \A c \in ConvIds : \/ ledger'[c] = ledger[c]
                            \/ /\ born'[c] = None \/ born'[c] # born[c]
                               /\ ledger'[c] = {} \/ \E d \in ConvIds : ledger'[c] \subseteq ledger[d]
  PROVE  StoreSound
<1>1. \A e \in ConvIds : \A x \in ledger[e] : x \in BlockIds /\ kind'[x] # "free"
  BY DEF KeepInv, HeldUsed, IInv, TypeOK
<1>2. Takes
  BY <1>1 DEF Takes
<1>3. HeldUsed'
  BY <1>1 DEF HeldUsed
<1>4. ItemsStored'
  BY DEF KeepInv, ItemsStored, Awaited
<1> QED BY <1>2, <1>3, <1>4 DEF StoreSound

\* A fork over some blocks of a conversation takes a birth never seen.
LEMMA ForkSound ==
  ASSUME IInv, SeatInv, KeepInv, NEW c \in ConvIds, NEW d \in ConvIds,
         NEW shared \in SUBSET ledger[d],
         ledger' = [ledger EXCEPT ![c] = shared],
         born' = [born EXCEPT ![c] = births + 1], UNCHANGED <<kind, item>>
  PROVE  StoreSound
<1>1. born'[c] = births + 1 /\ ledger'[c] \subseteq ledger[d]
      /\ \A e \in ConvIds \ {c} : ledger'[e] = ledger[e]
  BY DEF IInv, TypeOK
<1>2. born'[c] # born[c]
  <2>1. born[c] <= births /\ born[c] \in Nat /\ births \in Nat
    BY SeatNumbers DEF SeatInv, BirthsCounted
  <2> QED BY <1>1, <2>1
<1>3. kind' \in [BlockIds -> Kinds] /\ \A b \in BlockIds : kind'[b] \in {kind[b], "blank"}
  BY DEF IInv, TypeOK
<1>4. item' = item
  OBVIOUS
<1> QED BY <1>1, <1>2, <1>3, <1>4, SharedSound

LEMMA StepSound ==
  ASSUME IInv, SeatInv, KeepInv, Next, ~EdgeStep
  PROVE  StoreSound
<1>1. ASSUME NEW ch \in Channels, FirstContact(ch) \/ Wipe(ch) PROVE StoreSound
  <2> DEFINE nothing == {}
  <2>1. PICK c \in ConvIds, b \in BlockIds : NextBlock(b) /\ BornWith(c, b, nothing)
    BY <1>1 DEF FirstContact, Wipe
  <2>2. nothing \in SUBSET ledger[c]
    OBVIOUS
  <2> HIDE DEF nothing
  <2> QED BY <2>1, <2>2, BirthSound
<1>2. ASSUME NEW ch \in Channels, Ingest(ch) PROVE StoreSound
  <2>1. mapped[ch] \in ConvIds /\ item' = item
    BY <1>2 DEF Ingest, IInv, TypeOK
  <2>2. PICK b \in BlockIds :
          /\ NextBlock(b) /\ kind' = [kind EXCEPT ![b] = "plain"]
          /\ ledger' = [ledger EXCEPT ![mapped[ch]] = ledger[mapped[ch]] \cup {b}]
    BY <1>2 DEF Ingest
  <2>3. kind'[b] = "plain" /\ \A d \in BlockIds \ {b} : kind'[d] = kind[d]
    BY <2>2 DEF IInv, TypeOK
  <2>4. kind'[b] # "free" /\ kind'[b] \notin Awaited
    BY <2>3 DEF Awaited
  <2>5. \A d \in BlockIds \ {b} : kind'[d] = kind[d] /\ item'[d] = item[d]
    BY <2>1, <2>3
  <2>6. PICK c \in ConvIds : c = mapped[ch]
    BY <2>1
  <2>7. ledger' = [ledger EXCEPT ![c] = ledger[c] \cup {b}]
    BY <2>2, <2>6
  <2> QED BY <2>2, <2>4, <2>5, <2>6, <2>7, TakenSound
<1>3. ASSUME NEW c \in ConvIds, NEW k \in {"send", "line"}, File(c, k) PROVE StoreSound
  <2>1. PICK b \in BlockIds : /\ NextBlock(b)
                              /\ kind' = [kind EXCEPT ![b] = k]
                              /\ item' = [item EXCEPT ![b] = filed + 1]
                              /\ ledger' = [ledger EXCEPT ![c] = ledger[c] \cup {b}]
    BY <1>3 DEF File
  <2>2. filed + 1 \in Items
    BY <1>3, EdgeAssumption DEF File, IInv, TypeOK, Items
  <2>3. /\ kind'[b] = k /\ item'[b] = filed + 1
        /\ \A d \in BlockIds \ {b} : kind'[d] = kind[d] /\ item'[d] = item[d]
    BY <2>1 DEF IInv, TypeOK
  <2>4. kind'[b] # "free" /\ item'[b] \in Items
    BY <2>2, <2>3
  <2> QED BY <2>1, <2>3, <2>4, TakenSound
<1>4. ASSUME NEW c \in ConvIds, TurnEnds(c) \/ Echo(c) PROVE StoreSound
  BY <1>4, SharedSound DEF TurnEnds, Echo, store, IInv, TypeOK
<1>5. CASE Overrun \/ Restart
  BY <1>5, SharedSound DEF Overrun, Restart, store, IInv, TypeOK
<1>6. ASSUME NEW ch \in Channels, CaptureBegins(ch) PROVE StoreSound
  <2>1. mapped[ch] \in ConvIds
    BY <1>6 DEF CaptureBegins, IInv, TypeOK
  <2>2. PICK c \in ConvIds, cut \in ledger[mapped[ch]] :
          /\ born' = [born EXCEPT ![c] = births + 1]
          /\ ledger' = [ledger EXCEPT ![c] =
                          {b \in ledger[mapped[ch]] : b <= cut \/ kind[b] = "open"}]
    BY <1>6 DEF CaptureBegins, NextConv
  <2>3. PICK shared \in SUBSET ledger[mapped[ch]] :
          shared = {b \in ledger[mapped[ch]] : b <= cut \/ kind[b] = "open"}
    OBVIOUS
  <2>4. ledger' = [ledger EXCEPT ![c] = shared] /\ UNCHANGED <<kind, item>>
    BY <1>6, <2>2, <2>3 DEF CaptureBegins
  <2> QED BY <2>1, <2>2, <2>3, <2>4, ForkSound
<1>7. ASSUME NEW ch \in Channels, Strip(ch) PROVE StoreSound
  <2>1. mapped[ch] \in ConvIds
    BY <1>7 DEF Strip, IInv, TypeOK
  <2>2. PICK c \in ConvIds, stripped \in ledger[mapped[ch]] :
          /\ born' = [born EXCEPT ![c] = births + 1]
          /\ ledger' = [ledger EXCEPT ![c] = ledger[mapped[ch]] \ {stripped}]
    BY <1>7 DEF Strip, NextConv
  <2>3. PICK shared \in SUBSET ledger[mapped[ch]] :
          shared = ledger[mapped[ch]] \ {stripped}
    OBVIOUS
  <2>4. ledger' = [ledger EXCEPT ![c] = shared] /\ UNCHANGED <<kind, item>>
    BY <1>7, <2>2, <2>3 DEF Strip
  <2> QED BY <2>1, <2>2, <2>3, <2>4, ForkSound
<1>8. CASE CaptureEnds
  <2>1. PICK c \in ConvIds : /\ c = capture.temporary
                             /\ born' = [born EXCEPT ![c] = None]
                             /\ ledger' = [ledger EXCEPT ![c] = {}]
    BY <1>8 DEF CaptureEnds, IInv, TypeOK
  <2>2. /\ born'[c] = None /\ ledger'[c] = {}
        /\ \A d \in ConvIds \ {c} : ledger'[d] = ledger[d]
    BY <2>1 DEF IInv, TypeOK
  <2>3. UNCHANGED <<kind, item>>
    BY <1>8 DEF CaptureEnds
  <2> QED BY <2>2, <2>3, SharedSound DEF IInv, TypeOK
<1>9. CASE CompactionInstalls
  <2>1. PICK source : source = capture.source
    OBVIOUS
  <2>2. source \in ConvIds
    BY <1>9, <2>1 DEF CompactionInstalls, IInv, TypeOK
  <2>3. CASE Installs
    <3>1. PICK shared \in SUBSET ledger[source] :
            shared = {t \in ledger[source] : t > capture.cut /\ kind[t] # "open"}
      OBVIOUS
    <3>2. PICK c \in ConvIds, b \in BlockIds : NextBlock(b) /\ BornWith(c, b, shared)
      BY <2>1, <2>3, <3>1 DEF Installs
    <3> QED BY <2>2, <3>1, <3>2, BirthSound
  <2>4. CASE StandsDown
    BY <2>4, SharedSound DEF StandsDown, IInv, TypeOK
  <2> QED BY <1>9, <2>3, <2>4 DEF CompactionInstalls
<1>10. CASE StripRetires
  <2>1. PICK c \in ConvIds : Deleted(c)
    BY <1>10 DEF StripRetires, IInv, TypeOK
  <2> QED BY <2>1, DeletedSound
<1>11. ASSUME NEW c \in ConvIds, Erase(c) \/ Expire(c) PROVE StoreSound
  <2>1. Deleted(c)
    BY <1>11 DEF Erase, Expire, Delete
  <2> QED BY <2>1, DeletedSound
<1>12. ASSUME NEW b \in BlockIds, NullTarget(b) PROVE StoreSound
  <2>1. ledger' = ledger /\ item' = item
    BY <1>12 DEF NullTarget
  <2>2. kind' \in [BlockIds -> Kinds] /\ \A d \in BlockIds : kind'[d] \in {kind[d], "blank"}
    BY <1>12 DEF NullTarget, IInv, TypeOK, Kinds
  <2> QED BY <2>1, <2>2, SharedSound
<1> QED BY <1>1, <1>2, <1>3, <1>4, <1>5, <1>6, <1>7, <1>8, <1>9, <1>10, <1>11, <1>12 DEF Next

\* What stands beside the edge keeps the rows of a pass whole: the conversation
\* it was listed for is the same one, so it only took blocks.
LEMMA OthersKeepRows ==
  ASSUME IInv, SeatInv, KeepInv, StoreSound, Grows, UNCHANGED <<cursor, seatOf, pass>>
  PROVE  KeepInv'
<1>1. HeldUsed' /\ ItemsStored'
  BY DEF StoreSound
<1>2. EntriesSeated'
  BY DEF KeepInv, EntriesSeated
<1>3. RowsWhole'
  <2> SUFFICES ASSUME pass.stage \in {"listed", "handing"}, pass.birth # None,
                      born'[pass.conv] = pass.birth
               PROVE  /\ \A r \in pass.rows : /\ r.item = item'[r.block]
                                              /\ kind'[r.block] \in {r.kind, "blank"}
                      /\ \A b \in ledger'[pass.conv] : \/ \E r \in pass.rows : r.block = b
                                                       \/ \A r \in pass.rows : r.block < b
    BY DEF RowsWhole
  <2>0. PICK c \in ConvIds : c = pass.conv
    BY DEF IInv, PassNamed
  <2>1. born'[c] = born[c] /\ born'[c] # None
    <3>1. births \in Nat /\ pass.birth \in Nat /\ pass.birth <= births
      BY SeatNumbers DEF SeatInv, BirthsCounted
    <3>2. born'[c] # births + 1
      BY <2>0, <3>1
    <3> QED BY <2>0, <3>2 DEF Grows
  <2>2. /\ \A b \in ledger[c] : item'[b] = item[b] /\ kind'[b] \in {kind[b], "blank"}
        /\ \A b \in ledger'[c] : b \in ledger[c] \/ Behind(b)
    BY <2>1 DEF StoreSound, Takes
  <2>3. /\ \A r \in pass.rows : /\ r.item = item[r.block]
                                /\ kind[r.block] \in {r.kind, "blank"}
        /\ \A b \in ledger[c] : \/ \E r \in pass.rows : r.block = b
                                \/ \A r \in pass.rows : r.block < b
    BY <2>0, <2>1 DEF KeepInv, RowsWhole
  <2>4. \A r \in pass.rows : r.block \in ledger[c] /\ r.block \in BlockIds /\ kind[r.block] # "free"
    <3>1. {r.block : r \in pass.rows} \subseteq ledger[c]
      BY <2>0, <2>1 DEF SeatInv, RowsHeld
    <3> QED BY <3>1, SeatNumbers DEF KeepInv, HeldUsed
  <2> QED BY <2>0, <2>2, <2>3, <2>4 DEF Behind
<1> QED BY <1>1, <1>2, <1>3 DEF KeepInv

LEMMA ListsRows ==
  ASSUME IInv, KeepInv, PassLists
  PROVE  KeepInv'
<1>0. PICK c \in ConvIds : c = pass.conv
  BY DEF PassLists, IInv, PassNamed
<1>1. /\ pass'.conv = c
      /\ pass'.rows = {[block |-> b, kind |-> kind[b], item |-> item[b]] : b \in ledger[c]}
  BY <1>0 DEF PassLists, IInv, TypeOK
<1>2. UNCHANGED <<ledger, kind, item, cursor, seatOf>>
  BY DEF PassLists, store
<1>3. ASSUME NEW r \in pass'.rows PROVE r.kind = kind[r.block] /\ r.item = item[r.block]
  <2>1. PICK b \in ledger[c] : r = [block |-> b, kind |-> kind[b], item |-> item[b]]
    BY <1>1, <1>3
  <2> QED BY <2>1
<1>4. ASSUME NEW b \in ledger[c] PROVE \E r \in pass'.rows : r.block = b
  <2>1. [block |-> b, kind |-> kind[b], item |-> item[b]] \in pass'.rows
    BY <1>1
  <2>2. [block |-> b, kind |-> kind[b], item |-> item[b]].block = b
    OBVIOUS
  <2> QED BY <2>1, <2>2
<1>5. RowsWhole'
  BY <1>1, <1>2, <1>3, <1>4 DEF RowsWhole
<1> QED BY <1>2, <1>5 DEF KeepInv, HeldUsed, ItemsStored, EntriesSeated

\* What else the edge does leaves store and rows alone.
LEMMA EdgeKeepsRows ==
  ASSUME IInv, KeepInv, EdgeStep, ~PassLists
  PROVE  KeepInv'
<1>1. UNCHANGED <<ledger, kind, item, born>>
  BY DEF EdgeStep, RecoverFromLag, PassBegins, PassSeats, PassHands, PassEnds, PassFails, store
<1>2. \/ UNCHANGED pass \/ pass'.stage \in {"idle", "named"}
      \/ /\ pass.stage = "listed" /\ pass'.conv = pass.conv
         /\ pass'.birth = pass.birth /\ pass'.rows = pass.rows
  <2>1. CASE RecoverFromLag \/ PassHands \/ PassEnds \/ PassFails
    BY <2>1 DEF RecoverFromLag, PassHands, PassEnds, PassFails, Idle
  <2>2. ASSUME NEW c \in ConvIds, PassBegins(c) PROVE pass'.stage \in {"idle", "named"}
    BY <2>2 DEF PassBegins, Idle
  <2>3. CASE PassSeats
    BY <2>3 DEF PassSeats, IInv, TypeOK
  <2> QED BY <2>1, <2>2, <2>3 DEF EdgeStep
<1>3. RowsWhole'
  BY <1>1, <1>2 DEF KeepInv, RowsWhole
<1>4. EntriesSeated'
  <2>1. CASE UNCHANGED <<cursor, seatOf>>
    BY <2>1 DEF KeepInv, EntriesSeated
  <2>2. ASSUME NEW c \in ConvIds, NEW seat \in BlockIds \cup {0},
               cursor' = [cursor EXCEPT ![c] = seat],
               \A d \in ConvIds \ {c} : seatOf'[d] = seatOf[d]
        PROVE  EntriesSeated'
    <3>1. seat # Vacant
      BY <2>2, EdgeAssumption DEF BlockIds, Vacant
    <3> QED BY <2>2, <3>1 DEF KeepInv, EntriesSeated, IInv, TypeOK
  <2>3. CASE PassSeats
    <3>1. PICK c \in ConvIds : c = pass.conv
      BY <2>3 DEF PassSeats, IInv, PassNamed
    <3>2. PICK seat : seat = SeatedCursor(c, Newest({r.block : r \in pass.rows}))
      OBVIOUS
    <3>3. InheritedBoundary(c) \in BlockIds \cup {0}
      <4>1. {b \in ledger[c] : \E d \in ConvIds \ {c} : b \in ledger[d]} \subseteq BlockIds
        BY DEF IInv, TypeOK
      <4> QED BY <4>1, NewestType DEF InheritedBoundary
    <3>4. seat \in BlockIds \cup {0}
      BY <3>2, <3>3 DEF SeatedCursor, IInv, TypeOK
    <3>5. cursor' = [cursor EXCEPT ![c] = seat]
      BY <2>3, <3>1, <3>2 DEF PassSeats
    <3>6. \A d \in ConvIds \ {c} : seatOf'[d] = seatOf[d]
      BY <2>3, <3>1 DEF PassSeats, IInv, TypeOK
    <3> QED BY <2>2, <3>4, <3>5, <3>6
  <2>4. CASE PassHands
    <3>1. PICK c \in ConvIds : c = pass.conv
      BY <2>4 DEF PassHands, IInv, PassNamed
    <3>2. PICK r \in Owed : cursor' = [cursor EXCEPT ![c] = r.block]
      BY <2>4, <3>1 DEF PassHands
    <3>3. r.block \in BlockIds \cup {0} /\ seatOf' = seatOf
      BY <2>4, SeatNumbers DEF Owed, PassHands
    <3> QED BY <2>2, <3>2, <3>3
  <2>5. CASE RecoverFromLag \/ PassEnds \/ PassFails \/ \E c \in ConvIds : PassBegins(c)
    BY <2>1, <2>5 DEF RecoverFromLag, PassEnds, PassFails, PassBegins
  <2> QED BY <2>3, <2>4, <2>5 DEF EdgeStep
<1> QED BY <1>1, <1>3, <1>4 DEF KeepInv, HeldUsed, ItemsStored

LEMMA NextKeepInv == IInv /\ SeatInv /\ KeepInv /\ [Next]_vars => KeepInv'
<1> SUFFICES ASSUME IInv, SeatInv, KeepInv, [Next]_vars PROVE KeepInv'
  OBVIOUS
<1>1. CASE EdgeStep
  BY <1>1, ListsRows, EdgeKeepsRows
<1>2. CASE Restart
  <2>1. HeldUsed' /\ ItemsStored'
    BY <1>2, SharedSound DEF Restart, StoreSound, IInv, TypeOK
  <2>2. RowsWhole'
    BY <1>2 DEF Restart, RowsWhole, Idle
  <2>3. EntriesSeated'
    <3>1. \A c \in ConvIds : Newest(ledger[c]) # Vacant
      <4>1. \A c \in ConvIds : Newest(ledger[c]) \in BlockIds \cup {0}
        BY NewestType DEF IInv, TypeOK
      <4>2. Vacant \notin BlockIds \cup {0}
        BY EdgeAssumption DEF BlockIds, Vacant
      <4> QED BY <4>1, <4>2
    <3> QED BY <1>2, <3>1 DEF Restart, EntriesSeated
  <2> QED BY <2>1, <2>2, <2>3 DEF KeepInv
<1>3. CASE Next /\ ~EdgeStep /\ ~Restart
  <2>1. UNCHANGED <<cursor, seatOf, pass>>
    BY <1>3 DEF Next, FirstContact, Ingest, Wipe, CaptureBegins, Strip, File,
                TurnEnds, Echo, Erase, Expire, Delete, NullTarget, CaptureEnds,
                CompactionInstalls, StripRetires, Overrun, edge
  <2>2. Grows /\ StoreSound
    BY <1>3, StoreGrows, StepSound DEF IInv
  <2> QED BY <2>1, <2>2, OthersKeepRows
<1>4. CASE UNCHANGED vars
  BY <1>4 DEF vars, store, edge, KeepInv, HeldUsed, ItemsStored, EntriesSeated, RowsWhole
<1> QED BY <1>1, <1>2, <1>3, <1>4

\* The exceptions of the property, for one conversation and one of its blocks.
Excepted(c, b) ==
    \/ seatOf'[c] # born[c]
    \/ /\ seatOf[c] # born[c]
       /\ \E d \in ConvIds \ {c} : \E s \in ledger[c] \cap ledger[d] : b <= s

\* Seating moves the cursor only at the first visit, to a block that is shared.
LEMMA SeatsKeep ==
  ASSUME IInv, SeatInv, KeepInv, PassSeats, NEW c \in Live, NEW b \in ledger[c],
         StepsOver(c, b)
  PROVE  Excepted(c, b)
<1> DEFINE listed == {r.block : r \in pass.rows}
<1>1. c \in ConvIds /\ born[c] # None /\ b \in BlockIds
  BY DEF Live, IInv, TypeOK
<1>2. PICK seat : seat = SeatedCursor(c, Newest(listed))
  OBVIOUS
<1>3. c = pass.conv
  <2>1. CASE c # pass.conv
    <3>1. cursor'[c] = cursor[c]
      BY <1>1, <2>1 DEF PassSeats, IInv, TypeOK
    <3>2. cursor[c] \in Int /\ b \in Int
      BY <1>1, SeatNumbers
    <3> QED BY <3>1, <3>2 DEF StepsOver
  <2> QED BY <2>1
<1>4. cursor'[c] = seat /\ seatOf'[c] = pass.birth /\ pass.stage = "listed"
  BY <1>1, <1>2, <1>3 DEF PassSeats, IInv, TypeOK
<1>5. /\ cursor[c] \in Int /\ b \in Int /\ b > 0 /\ cursor[c] < b /\ b <= seat
  BY <1>1, <1>4, SeatNumbers, EdgeAssumption DEF StepsOver, BlockIds
<1>6. seat # cursor[c]
  BY <1>5
<1>7. /\ cursor[c] = Vacant \/ cursor[c] > Newest(listed)
      /\ seat = InheritedBoundary(c)
  BY <1>2, <1>6 DEF SeatedCursor
<1>8. CASE seatOf'[c] = born[c] /\ seatOf[c] = born[c]
  <2>1. cursor[c] # Vacant
    BY <1>1, <1>8 DEF KeepInv, EntriesSeated
  <2>2. \E x \in listed \cup {0} : cursor[c] <= x
    BY <1>1, <1>3, <1>4, <1>8 DEF SeatInv, ListedWithin
  <2>3. listed \subseteq BlockIds /\ BlockIds \subseteq Nat
    BY SeatNumbers
  <2>4. Newest(listed) \in listed \cup {0} /\ \A x \in listed : x <= Newest(listed)
    BY <2>3, NewestIn
  <2> HIDE DEF listed
  <2>5. Newest(listed) \in Nat
    <3>1. \A x \in listed \cup {0} : x \in Nat
      BY <2>3
    <3> QED BY <2>4, <3>1
  <2>6. cursor[c] <= Newest(listed)
    BY <1>5, <2>2, <2>3, <2>4, <2>5
  <2> QED BY <1>5, <1>7, <2>1, <2>5, <2>6
<1>9. CASE seatOf[c] # born[c]
  <2> DEFINE shared == {x \in ledger[c] : \E d \in ConvIds \ {c} : x \in ledger[d]}
  <2>1. shared \subseteq BlockIds
    BY <1>1 DEF IInv, TypeOK
  <2>2. Newest(shared) \in shared \cup {0}
    BY <2>1, NewestIn
  <2>3. seat = Newest(shared)
    BY <1>7 DEF InheritedBoundary
  <2>4. seat \in shared
    BY <1>5, <2>2, <2>3
  <2> QED BY <1>5, <1>9, <2>4 DEF Excepted
<1> QED BY <1>8, <1>9 DEF Excepted

\* What a pass hands over is the first it owes, so between the cursor and it
\* lies no other item of the conversation it was listed for.
LEMMA HandsKeep ==
  ASSUME IInv, SeatInv, KeepInv, PassHands, NEW c \in Live, NEW b \in ledger[c],
         StepsOver(c, b)
  PROVE  Excepted(c, b)
<1> SUFFICES ASSUME seatOf'[c] = born[c] PROVE FALSE
  BY DEF Excepted
<1>1. c \in ConvIds /\ born[c] # None /\ b \in BlockIds
  BY DEF Live, IInv, TypeOK
<1>2. c = pass.conv
  <2>1. CASE c # pass.conv
    <3>1. cursor'[c] = cursor[c]
      BY <1>1, <2>1 DEF PassHands, IInv, TypeOK
    <3>2. cursor[c] \in Int /\ b \in Int
      BY <1>1, SeatNumbers
    <3> QED BY <3>1, <3>2 DEF StepsOver
  <2> QED BY <2>1
<1>3. PICK r \in Owed :
         /\ \A other \in Owed : r.block <= other.block
         /\ cursor' = [cursor EXCEPT ![c] = r.block]
         /\ handed' = IF r.kind = "blank" THEN handed
                      ELSE [handed EXCEPT ![r.item] = handed[r.item] + 1]
  BY <1>2 DEF PassHands
<1>4. pass.stage = "handing" /\ pass.birth = born[c]
  BY <1>2 DEF PassHands, SeatInv, PassSeated
<1>5. /\ \A q \in pass.rows : q.item = item[q.block] /\ kind[q.block] \in {q.kind, "blank"}
      /\ \/ \E q \in pass.rows : q.block = b
         \/ \A q \in pass.rows : q.block < b
  BY <1>1, <1>2, <1>4 DEF KeepInv, RowsWhole
<1>6. /\ r \in pass.rows /\ r.block \in Int /\ b \in Int /\ cursor[c] \in Int
      /\ cursor'[c] = r.block /\ cursor[c] < b /\ b <= r.block
      /\ kind[b] \in Awaited /\ handed'[item[b]] = 0
  BY <1>1, <1>3, SeatNumbers DEF Owed, IInv, TypeOK, StepsOver, Awaited
<1>7. PICK q \in pass.rows : q.block = b
  BY <1>5, <1>6
<1>8. q.kind = kind[b] /\ q.item = item[b]
  BY <1>5, <1>6, <1>7 DEF Awaited
<1>9. q \in Owed
  BY <1>2, <1>6, <1>7, <1>8 DEF Owed, Awaited, Deliverables
<1>10. r.block = b
  BY <1>3, <1>6, <1>7, <1>9
<1>11. r.kind = kind[b] /\ r.item = item[b]
  BY <1>5, <1>6, <1>10 DEF Awaited
<1>12. item[b] \in Items
  BY <1>1, <1>6 DEF KeepInv, ItemsStored
<1>13. handed[item[b]] \in Nat
  BY <1>12 DEF IInv, TypeOK
<1>14. handed'[item[b]] = handed[item[b]] + 1
  BY <1>3, <1>6, <1>11, <1>12 DEF Awaited, IInv, TypeOK
<1> QED BY <1>6, <1>13, <1>14

\* Whatever runs beside the edge, is forked or deleted, and whoever's ids are
\* issued again: no pass takes a cursor past an item its own conversation filed,
\* but at a first visit where the boundary is a block shared at that instant
\* (seated_cursor, inherited_boundary and the delivery loop, outbound.rs).
THEOREM OwnItemsAreKept == Spec => OwnItemsKept
<1>1. Init => IInv /\ SeatInv /\ KeepInv
  BY InitIInv, SeatInvInit, KeepInit
<1>2. IInv /\ SeatInv /\ KeepInv /\ [Next]_vars => IInv' /\ SeatInv' /\ KeepInv'
  BY NextIInv, NextSeatInv, NextKeepInv
<1>3. IInv /\ SeatInv /\ KeepInv /\ [Next]_vars =>
        [\A c \in Live : \A b \in ledger[c] : StepsOver(c, b) =>
            \/ seatOf'[c] # born[c]
            \/ /\ seatOf[c] # born[c]
               /\ \E d \in ConvIds \ {c} : \E s \in ledger[c] \cap ledger[d] : b <= s]_vars
  <2> SUFFICES ASSUME IInv, SeatInv, KeepInv, Next, NEW c \in Live, NEW b \in ledger[c],
                      StepsOver(c, b)
               PROVE  Excepted(c, b)
    BY DEF Excepted
  <2>1. c \in ConvIds /\ born[c] # None /\ b \in BlockIds
    BY DEF Live, IInv, TypeOK
  <2>2. CASE PassSeats
    BY <2>2, SeatsKeep
  <2>3. CASE PassHands
    BY <2>3, HandsKeep
  <2>4. CASE Restart
    <3>1. item[b] \in Items
      BY <2>1 DEF StepsOver, KeepInv, ItemsStored, Awaited
    <3>2. home'[item[b]] = None
      BY <2>4, <3>1 DEF Restart
    <3> QED BY <2>1, <3>2 DEF StepsOver
  <2>5. CASE ~PassSeats /\ ~PassHands /\ ~Restart
    <3>1. cursor' = cursor
      BY <2>5 DEF Next, FirstContact, Ingest, Wipe, CaptureBegins, Strip, File,
                  TurnEnds, Echo, Erase, Expire, Delete, NullTarget, CaptureEnds,
                  CompactionInstalls, StripRetires, Overrun, edge, EdgeStep,
                  RecoverFromLag, PassBegins, PassLists, PassEnds, PassFails
    <3>2. cursor[c] \in Int /\ b \in Int
      BY <2>1, SeatNumbers
    <3> QED BY <3>1, <3>2 DEF StepsOver
  <2> QED BY <2>2, <2>3, <2>4, <2>5
<1> QED BY <1>1, <1>2, <1>3, PTL DEF Spec, OwnItemsKept

===============================================================================
