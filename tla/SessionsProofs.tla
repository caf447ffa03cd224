----------------------------- MODULE SessionsProofs -----------------------------
(***************************************************************************)
(* The store of the conversations' ids, for every number of ids and        *)
(* births; and a channel's sessions, for every number of channels,         *)
(* workers, ids and messages: their type; that they use the ids as         *)
(* ConversationStore describes, so that its theorem of sound lineages is   *)
(* theirs; that a swap leaves no conversation behind; and that an erasure  *)
(* is out of the serving threads' digests once it is over.                 *)
(***************************************************************************)
EXTENDS Sessions, SequenceTheorems, NaturalsInduction, WellFoundedInduction, TLAPS

-----------------------------------------------------------------------------
(* The store.  The two halves of LineageSound lean on one another only in    *)
(* one direction: that no reference points at the id being issued is what    *)
(* PointsBelow gives NeverAStranger, so the pair is inductive with the type  *)
(* invariant.                                                                *)

IInv == StoreTypeOK /\ PointsBelow /\ NeverAStranger

LEMMA InitIInv == StoreInit => IInv
  BY StoreAssumption
  DEF StoreInit, IInv, StoreTypeOK, PointsBelow, NeverAStranger, Live, None,
      ConvIds, Births

\* Deleting conversations takes references away and adds none.
LEMMA DroppedKeeps ==
  ASSUME IInv, NEW gone \in SUBSET Live, Dropped(gone)
  PROVE  IInv'
<1>1. StoreTypeOK'
  BY StoreAssumption DEF IInv, StoreTypeOK, Dropped, ConvIds, Births, None
<1>2. /\ \A d \in Live' : /\ d \in Live
                          /\ d \notin gone
                          /\ parent'[d] = parent[d]
                          /\ parentBirth'[d] = parentBirth[d]
      /\ \A d \in ConvIds : born'[d] \in {born[d], None}
  BY DEF IInv, StoreTypeOK, Dropped, Live, None
<1>3. PointsBelow'
  BY <1>2 DEF IInv, PointsBelow
<1>4. NeverAStranger'
  <2> SUFFICES ASSUME NEW d \in Live', parent'[d] # None
               PROVE  born'[parent'[d]] \in {None, parentBirth'[d]}
    BY DEF NeverAStranger
  <2>1. d \in Live /\ parent'[d] = parent[d] /\ parentBirth'[d] = parentBirth[d]
    BY <1>2
  <2>2. parent[d] \in ConvIds
    BY <2>1 DEF IInv, StoreTypeOK, Live
  <2> QED BY <1>2, <2>1, <2>2 DEF IInv, NeverAStranger
<1> QED BY <1>1, <1>3, <1>4 DEF IInv

\* A conversation is issued the id above all that are alive: no reference, its
\* own included, points at it.
LEMMA OpenedKeeps ==
  ASSUME IInv,
         NEW c \in ConvIds, NEW r \in References, NEW gone \in SUBSET Live,
         OpenedAndDropped(c, r, gone)
  PROVE  IInv'
<1> DEFINE p == r.conv
           pb == r.birth
<1>0. /\ p \in ConvIds \cup {None} /\ pb \in Births \cup {None}
      /\ \/ p = None
         \/ p \in Live /\ pb = born[p]
         \/ \E s \in Live : p = parent[s] /\ pb = parentBirth[s]
  BY DEF References, IInv, StoreTypeOK, Live
<1>1. StoreTypeOK'
  BY <1>0, StoreAssumption
  DEF IInv, StoreTypeOK, OpenedAndDropped, NextConv, ConvIds, Births, None
<1>2. \A d \in Live : d < c /\ d \in ConvIds
  BY DEF OpenedAndDropped, NextConv, Live
<1>3. \A d \in Live : parent[d] # None => parent[d] < c /\ parent[d] \in ConvIds
  BY <1>2 DEF IInv, PointsBelow, StoreTypeOK, Live, ConvIds
<1>4. p # None => p < c /\ p \in ConvIds /\ born[p] \in {None, pb}
  BY <1>0, <1>2, <1>3 DEF IInv, NeverAStranger
<1>5. \A d \in Live' : \/ d = c
                       \/ /\ d \in Live /\ d # c
                          /\ parent'[d] = parent[d]
                          /\ parentBirth'[d] = parentBirth[d]
  BY DEF OpenedAndDropped, Live
<1>6. parent'[c] = p /\ parentBirth'[c] = pb
  BY DEF OpenedAndDropped
<1>7. \A d \in ConvIds : d # c => born'[d] \in {born[d], None}
  BY DEF OpenedAndDropped
<1>8. PointsBelow'
  BY <1>4, <1>5, <1>6 DEF PointsBelow, IInv
<1>9. NeverAStranger'
  <2> SUFFICES ASSUME NEW d \in Live', parent'[d] # None
               PROVE  born'[parent'[d]] \in {None, parentBirth'[d]}
    BY DEF NeverAStranger
  <2>1. CASE d = c
    BY <2>1, <1>4, <1>6, <1>7 DEF ConvIds
  <2>2. CASE d # c
    <3>1. d \in Live /\ parent'[d] = parent[d] /\ parentBirth'[d] = parentBirth[d]
      BY <2>2, <1>5
    <3>2. parent[d] \in ConvIds /\ parent[d] # c
      BY <3>1, <1>3 DEF ConvIds
    <3> QED BY <3>1, <3>2, <1>7 DEF IInv, NeverAStranger
  <2> QED BY <2>1, <2>2
<1> QED BY <1>1, <1>8, <1>9 DEF IInv

LEMMA NextIInv == IInv /\ [StoreNext]_storeVars => IInv'
<1> SUFFICES ASSUME IInv, [StoreNext]_storeVars PROVE IInv'
  OBVIOUS
<1>1. ASSUME NEW gone \in SUBSET Live, NEW c \in ConvIds, NEW r \in References,
             OpenedAndDropped(c, r, gone)
      PROVE  IInv'
  BY <1>1, OpenedKeeps
<1>2. ASSUME NEW gone \in SUBSET Live, Dropped(gone) PROVE IInv'
  BY <1>2, DroppedKeeps
<1>3. CASE UNCHANGED storeVars
  BY <1>3 DEF IInv, StoreTypeOK, PointsBelow, NeverAStranger, Live, storeVars
<1> QED BY <1>1, <1>2, <1>3 DEF StoreNext

\* The inductive invariant holds in every state of the store.
THEOREM StoreInvariant == StoreSpec => []IInv
  BY InitIInv, NextIInv, PTL DEF StoreSpec

\* Ids and references stay within the store's bounds.
THEOREM StoreType == StoreSpec => []StoreTypeOK
<1>1. IInv => StoreTypeOK
  BY DEF IInv
<1> QED BY <1>1, StoreInvariant, PTL

\* An ancestor's id is never reissued while a conversation that names it
\* exists, and a lineage walk always goes down (lineage.rs, serving_lineage;
\* docs/units/63, decision on the ancestor reference).
THEOREM LineageIsSound == StoreSpec => []LineageSound
<1>1. IInv => LineageSound
  BY DEF IInv, LineageSound
<1> QED BY <1>1, StoreInvariant, PTL

-----------------------------------------------------------------------------
(* The lineage walk.                                                         *)

Below == {p \in Nat \X Nat : p[1] < p[2]}

LEMMA BelowWellFounded == IsWellFoundedOn(Below, Nat)
<1>1. OpToRel(<, Nat) = Below
  BY DEF OpToRel, Below
<1> QED BY <1>1, NatLessThanWellFounded

LEMMA LeastNumber ==
  ASSUME NEW S, S \subseteq Nat, S # {}
  PROVE  \E m \in S : \A x \in S : m <= x
<1>1. PICK m \in S : \A y \in S : ~(<<y, m>> \in Below)
  BY BelowWellFounded, WFMin
<1>2. \A y \in S : m <= y
  <2> TAKE y \in S
  <2>1. ~(<<y, m>> \in Below) /\ y \in Nat /\ m \in Nat
    BY <1>1
  <2>2. ~(y < m)
    BY <2>1 DEF Below
  <2> QED BY <2>1, <2>2
<1> QED BY <1>2

\* One step of the walk.
Hop(line) ==
    LET a == parent[Head(line)]
    IN IF a \in Live /\ a \notin Range(line) THEN <<a>> \o line ELSE line

\* A walk over the first n steps.
Walks(f, s, n) ==
    /\ DOMAIN f = 1 .. n
    /\ \A i \in 1 .. n : f[i] = IF i = 1 THEN <<s>> ELSE Hop(f[i - 1])

LEMMA WalkExists ==
  ASSUME NEW s, NEW n \in Nat
  PROVE  \E f : Walks(f, s, n)
<1> DEFINE Bad == {k \in Nat : ~\E f : Walks(f, s, k)}
<1>1. SUFFICES ASSUME Bad # {} PROVE FALSE
  OBVIOUS
<1>2. PICK m \in Bad : \A k \in Bad : m <= k
  BY <1>1, LeastNumber
<1>3. m # 0
  <2>1. Walks([i \in 1 .. 0 |-> s], s, 0)
    BY DEF Walks
  <2> QED BY <2>1
<1>4. m - 1 \in Nat /\ m - 1 \notin Bad
  BY <1>2, <1>3
<1>5. PICK f : Walks(f, s, m - 1)
  BY <1>4
<1> DEFINE g == [i \in 1 .. m |-> IF i = m THEN IF m = 1 THEN <<s>> ELSE Hop(f[m - 1])
                                             ELSE f[i]]
<1>6. Walks(g, s, m)
  <2>1. DOMAIN g = 1 .. m
    OBVIOUS
  <2>2. ASSUME NEW i \in 1 .. m PROVE g[i] = IF i = 1 THEN <<s>> ELSE Hop(g[i - 1])
    <3>1. CASE i = 1 /\ m = 1
      BY <3>1
    <3>2. CASE i = m /\ m # 1
      <4>1. i - 1 \in 1 .. m /\ i - 1 # m /\ i - 1 = m - 1
        BY <3>2, <1>4
      <4>2. g[i - 1] = f[m - 1]
        BY <4>1
      <4> QED BY <3>2, <4>2
    <3>3. CASE i # m
      <4>1. i \in 1 .. m - 1
        BY <3>3, <1>4
      <4>2. g[i] = f[i]
        BY <3>3
      <4>3. f[i] = IF i = 1 THEN <<s>> ELSE Hop(f[i - 1])
        BY <4>1, <1>5 DEF Walks
      <4>4. i # 1 => i - 1 \in 1 .. m /\ i - 1 # m
        BY <4>1
      <4>5. i # 1 => g[i - 1] = f[i - 1]
        BY <4>4
      <4> QED BY <4>2, <4>3, <4>5
    <3> QED BY <3>1, <3>2, <3>3
  <2> HIDE DEF g
  <2> QED BY <2>1, <2>2 DEF Walks
<1> QED BY <1>6

\* The walk's function is one, and the lineage is where it ends.
LEMMA LineageIsWalked ==
  ASSUME NEW s \in ConvIds
  PROVE  \E f : Walks(f, s, MaxConv) /\ Lineage(s) = f[MaxConv]
<1> DEFINE walk == CHOOSE f : f = [n \in ConvIds |->
              IF n = 1 THEN <<s>>
              ELSE LET below == f[n - 1]
                       a == parent[Head(below)]
                   IN IF a \in Live /\ a \notin Range(below) THEN <<a>> \o below
                                                              ELSE below]
<1>1. PICK f : Walks(f, s, MaxConv)
  BY WalkExists, StoreAssumption
<1>2. \E f1 : f1 = [n \in ConvIds |-> IF n = 1 THEN <<s>> ELSE Hop(f1[n - 1])]
  <2> DEFINE h == [n \in ConvIds |-> f[n]]
  <2>1. ASSUME NEW n \in ConvIds PROVE h[n] = IF n = 1 THEN <<s>> ELSE Hop(h[n - 1])
    <3>1. f[n] = IF n = 1 THEN <<s>> ELSE Hop(f[n - 1])
      BY <1>1 DEF Walks, ConvIds
    <3>2. n # 1 => n - 1 \in ConvIds
      BY StoreAssumption DEF ConvIds
    <3> QED BY <3>1, <3>2
  <2>2. h = [n \in ConvIds |-> IF n = 1 THEN <<s>> ELSE Hop(h[n - 1])]
    <3>1. h = [n \in ConvIds |-> h[n]]
      OBVIOUS
    <3> HIDE DEF h
    <3> QED BY <2>1, <3>1
  <2> QED BY <2>2
<1>3. walk = [n \in ConvIds |-> IF n = 1 THEN <<s>> ELSE Hop(walk[n - 1])]
  BY <1>2 DEF Hop
<1>4. Lineage(s) = walk[MaxConv]
  BY DEF Lineage
<1>5. Walks(walk, s, MaxConv)
  <2> HIDE DEF walk
  <2> QED BY <1>3 DEF Walks, ConvIds
<1> QED BY <1>4, <1>5

\* What a walk collects: each conversation is the one its successor names.
Climbs(line, s) ==
    /\ line \in Seq(ConvIds) /\ Len(line) >= 1 /\ line[Len(line)] = s
    /\ \A i \in 1 .. Len(line) - 1 : line[i] \in Live /\ line[i] = parent[line[i + 1]]

LEMMA HopClimbs ==
  ASSUME NEW s \in ConvIds, NEW line, Climbs(line, s)
  PROVE  Climbs(Hop(line), s)
<1> DEFINE a == parent[Head(line)]
           more == <<a>> \o line
<1>0. line \in Seq(ConvIds) /\ Len(line) \in Nat /\ Len(line) >= 1 /\ Head(line) = line[1]
  BY DEF Climbs
<1>1. CASE ~(a \in Live /\ a \notin Range(line))
  BY <1>1 DEF Hop
<1>2. CASE a \in Live /\ a \notin Range(line)
  <2>1. a \in ConvIds
    BY <1>2 DEF Live
  <2>2. <<a>> \in Seq(ConvIds) /\ Len(<<a>>) = 1 /\ <<a>>[1] = a
    BY <2>1
  <2>3. /\ more \in Seq(ConvIds) /\ Len(more) = Len(line) + 1
        /\ \A i \in 1 .. Len(more) : more[i] = IF i <= 1 THEN <<a>>[i] ELSE line[i - 1]
    BY <1>0, <2>2, ConcatProperties
  <2>4. more[1] = a /\ \A i \in 2 .. Len(line) + 1 : more[i] = line[i - 1]
    BY <1>0, <2>2, <2>3
  <2>5. more[Len(more)] = s
    BY <1>0, <2>3, <2>4 DEF Climbs
  <2>6. ASSUME NEW i \in 1 .. Len(more) - 1
        PROVE  more[i] \in Live /\ more[i] = parent[more[i + 1]]
    <3>1. CASE i = 1
      <4>1. more[1] = a /\ more[2] = line[1]
        BY <1>0, <2>4
      <4> QED BY <3>1, <4>1, <1>0, <1>2
    <3>2. CASE i # 1
      <4>1. i - 1 \in 1 .. Len(line) - 1 /\ i \in 2 .. Len(line) + 1
            /\ i + 1 \in 2 .. Len(line) + 1 /\ (i + 1) - 1 = (i - 1) + 1
        BY <1>0, <2>3, <3>2
      <4>2. more[i] = line[i - 1] /\ more[i + 1] = line[(i - 1) + 1]
        BY <4>1, <2>4
      <4> HIDE DEF more
      <4> QED BY <4>1, <4>2 DEF Climbs
    <3> QED BY <3>1, <3>2
  <2>7. Hop(line) = more
    BY <1>2 DEF Hop
  <2> HIDE DEF more
  <2>8. Len(more) >= 1
    BY <1>0, <2>3
  <2> QED BY <2>3, <2>5, <2>6, <2>7, <2>8 DEF Climbs
<1> QED BY <1>1, <1>2

LEMMA WalkClimbs ==
  ASSUME NEW s \in ConvIds, NEW f, Walks(f, s, MaxConv)
  PROVE  \A n \in ConvIds : Climbs(f[n], s)
<1> DEFINE Bad == {n \in ConvIds : ~Climbs(f[n], s)}
<1>1. SUFFICES ASSUME Bad # {} PROVE FALSE
  OBVIOUS
<1>2. Bad \subseteq Nat
  BY StoreAssumption DEF ConvIds
<1>3. PICK m \in Bad : \A n \in Bad : m <= n
  BY <1>1, <1>2, LeastNumber
<1>4. m \in ConvIds /\ ~Climbs(f[m], s)
  BY <1>3
<1>5. f[m] = IF m = 1 THEN <<s>> ELSE Hop(f[m - 1])
  BY <1>4 DEF Walks, ConvIds
<1>6. CASE m = 1
  <2>1. f[m] = <<s>>
    BY <1>5, <1>6
  <2>2. Climbs(<<s>>, s)
    BY DEF Climbs
  <2> QED BY <1>4, <2>1, <2>2
<1>7. CASE m # 1
  <2>1. m - 1 \in ConvIds /\ ~(m <= m - 1)
    BY <1>4, <1>7, StoreAssumption DEF ConvIds
  <2>2. Climbs(f[m - 1], s)
    BY <1>3, <2>1
  <2> QED BY <1>4, <1>5, <1>7, <2>2, HopClimbs
<1> QED BY <1>6, <1>7

LEMMA LineageClimbs ==
  ASSUME NEW s \in ConvIds
  PROVE  Climbs(Lineage(s), s)
<1>1. PICK f : Walks(f, s, MaxConv) /\ Lineage(s) = f[MaxConv]
  BY LineageIsWalked
<1>2. MaxConv \in ConvIds
  BY StoreAssumption DEF ConvIds
<1> QED BY <1>1, <1>2, WalkClimbs

-----------------------------------------------------------------------------
(* The sessions' type.  What a worker holds has the shape its stage needs:   *)
(* this is what makes the reads of its line and its clones sound.            *)

OpRecord ==
    [do : Stages, ch : Channels \cup {None}, line : Seq(ConvIds),
     birth : Births \cup {None}, strip : SUBSET Msgs, made : Seq(ConvIds),
     temp : ConvIds \cup {None}, cut : Msgs \cup {None}, words : SUBSET Msgs,
     plans : SUBSET Plans]

Shaped(r) ==
    /\ r.do \in {"capture", "install"} => r.ch \in Channels
    /\ r.do \in {"capture", "install", "strip"} => Len(r.line) >= 1
    /\ r.do \in {"scrub", "fork", "digest"} => Len(r.line) >= 2
    /\ IF r.do \in {"fork", "digest"}
       THEN r.ch \in Channels /\ Len(r.made) >= 1 /\ Len(r.made) < Len(r.line)
       ELSE r.made = <<>>
    /\ r.do \notin {"capture", "fork"} => r.temp = None
    /\ r.do = "capture" => r.temp # None
    /\ \A plan \in r.plans : Len(plan.line) >= 2

Contents ==
    /\ ledger \in [ConvIds -> SUBSET Msgs]
    /\ digest \in [ConvIds -> SUBSET Msgs]
    /\ mapped \in [Channels -> ConvIds \cup {None}]
    /\ recorded \in 0..MaxMsgs
    /\ author \in [1..recorded -> People]
    /\ nulled \subseteq 1..recorded
    /\ served \subseteq Births
    /\ residual \subseteq Msgs

Operations ==
    /\ op \in [Workers -> OpRecord]
    /\ \A w \in Workers : Shaped(op[w])

Typed == StoreTypeOK /\ Contents /\ Operations

LEMMA TypedIsTypeOK == Typed => TypeOK
  BY DEF Typed, Contents, Operations, OpRecord, TypeOK

LEMMA IdleIs ==
  /\ Idle \in OpRecord /\ Shaped(Idle)
  /\ Idle.do = "idle" /\ Idle.made = <<>> /\ Idle.temp = None /\ Idle.plans = {}
  /\ Idle.ch = None /\ Idle.line = <<>> /\ Idle.birth = None
  BY DEF Idle, OpRecord, Shaped, Stages, None

\* Worker w goes on with r.
Takes(w, r) == op' = [op EXCEPT ![w] = r]

LEMMA OpTakes ==
  ASSUME Operations, NEW w \in Workers, NEW r \in OpRecord, Shaped(r), Takes(w, r)
  PROVE  /\ Operations'
         /\ op'[w] = r
         /\ \A v \in Workers \ {w} : op'[v] = op[v]
<1>1. /\ op' \in [Workers -> OpRecord] /\ op'[w] = r
      /\ \A v \in Workers \ {w} : op'[v] = op[v]
  BY DEF Operations, Takes
<1>2. \A v \in Workers : Shaped(op'[v])
  BY <1>1 DEF Operations
<1> QED BY <1>1, <1>2 DEF Operations, Shaped

\* The new conversation and what it opens with.
Opening == [ledger : SUBSET Msgs, digest : SUBSET Msgs, parent : ConvIds \cup {None},
            birth : Births \cup {None}]

LEMMA OpensTyped ==
  ASSUME StoreTypeOK, Contents, NEW c \in ConvIds, NEW o \in Opening, NEW gone,
         Opens(c, o, gone)
  PROVE  /\ StoreTypeOK'
         /\ ledger' \in [ConvIds -> SUBSET Msgs]
         /\ digest' \in [ConvIds -> SUBSET Msgs]
         /\ births + 1 \in Births /\ births' = births + 1
<1> DEFINE r == [conv |-> o.parent, birth |-> o.birth]
<1>1. OpenedAndDropped(c, r, gone)
  BY DEF Opens
<1>2. births + 1 \in Births /\ births' = births + 1
  BY <1>1, StoreAssumption DEF OpenedAndDropped, StoreTypeOK, Births
<1>3. r.conv \in ConvIds \cup {None} /\ r.birth \in Births \cup {None}
  BY DEF Opening
<1>4. StoreTypeOK'
  <2> HIDE DEF r
  <2>1. born' \in [ConvIds -> Births \cup {None}]
    BY <1>1, <1>2 DEF OpenedAndDropped, StoreTypeOK
  <2>2. parent' \in [ConvIds -> ConvIds \cup {None}]
    BY <1>1, <1>3 DEF OpenedAndDropped, StoreTypeOK
  <2>3. parentBirth' \in [ConvIds -> Births \cup {None}]
    BY <1>1, <1>3 DEF OpenedAndDropped, StoreTypeOK
  <2>4. births' \in 0 .. MaxBirths
    BY <1>2, StoreAssumption DEF Births, StoreTypeOK
  <2> QED BY <2>1, <2>2, <2>3, <2>4 DEF StoreTypeOK
<1>5. ledger' \in [ConvIds -> SUBSET Msgs] /\ digest' \in [ConvIds -> SUBSET Msgs]
  BY DEF Opens, Opening, Contents
<1> QED BY <1>2, <1>4, <1>5

LEMMA DeletesTyped ==
  ASSUME StoreTypeOK, Contents, NEW gone, Deletes(gone)
  PROVE  /\ StoreTypeOK'
         /\ ledger' \in [ConvIds -> SUBSET Msgs]
         /\ digest' \in [ConvIds -> SUBSET Msgs]
  BY DEF Deletes, Dropped, StoreTypeOK, Contents, None

\* What conversations open with.
LEMMA Openings ==
  ASSUME StoreTypeOK, Contents
  PROVE  /\ Blank \in Opening
         /\ \A s \in ConvIds, strip \in SUBSET Msgs : Clone(s, strip) \in Opening
         /\ \A c \in ConvIds, hop \in ConvIds : Span(c, hop) \in Opening
  BY DEF Opening, Blank, Clone, Span, StoreTypeOK, Contents, None

LEMMA SomeChannel ==
  ASSUME NEW c \in MappedConvs
  PROVE  ChannelOf(c) \in Channels /\ mapped[ChannelOf(c)] = c /\ c # None
  BY DEF MappedConvs, ChannelOf

-----------------------------------------------------------------------------
(* What a worker holds after each step.                                      *)

Compacting(ch, c, cut) ==
    [Idle EXCEPT !.do = "capture", !.ch = ch, !.line = <<mapped[ch]>>,
                 !.birth = born[mapped[ch]], !.temp = c, !.cut = cut]

LEMMA CompactingIs ==
  ASSUME StoreTypeOK, NEW ch \in Channels, mapped[ch] \in ConvIds, NEW c \in ConvIds,
         NEW cut \in Msgs
  PROVE  LET r == Compacting(ch, c, cut)
         IN /\ r \in OpRecord /\ Shaped(r)
            /\ r.do = "capture" /\ r.made = <<>> /\ r.temp = c /\ r.plans = {}
<1> DEFINE r == Compacting(ch, c, cut)
<1>1. /\ r.do = "capture" /\ r.ch = ch /\ r.line = <<mapped[ch]>> /\ r.strip = {}
      /\ r.birth = born[mapped[ch]] /\ r.made = <<>> /\ r.temp = c /\ r.cut = cut
      /\ r.words = {} /\ r.plans = {}
  BY DEF Compacting, Idle
<1>2. r \in OpRecord
  <2>1. <<mapped[ch]>> \in Seq(ConvIds) /\ born[mapped[ch]] \in Births \cup {None}
    BY DEF StoreTypeOK
  <2> QED BY <2>1, IdleIs DEF Compacting, OpRecord, Stages
<1>3. Shaped(r)
  <2>1. Len(r.line) = 1 /\ c # None
    BY <1>1 DEF ConvIds, None
  <2> HIDE DEF r
  <2> QED BY <1>1, <2>1 DEF Shaped, None, ConvIds
<1> QED BY <1>1, <1>2, <1>3

\* The words of a temporary conversation are read.
HasRead(w, stage, words) ==
    [op[w] EXCEPT !.do = stage, !.temp = None, !.words = words]

LEMMA HasReadIs ==
  ASSUME Operations, NEW w \in Workers, NEW words \in SUBSET Msgs,
         NEW stage, <<op[w].do, stage>> \in {<<"capture", "install">>, <<"fork", "digest">>}
  PROVE  LET r == HasRead(w, stage, words)
         IN /\ r \in OpRecord /\ Shaped(r)
            /\ r.do = stage /\ r.made = op[w].made /\ r.temp = None
            /\ r.plans = op[w].plans /\ r.line = op[w].line /\ r.birth = op[w].birth
            /\ r.ch = op[w].ch
<1> DEFINE r == HasRead(w, stage, words)
<1>0. op[w] \in OpRecord /\ Shaped(op[w])
  BY DEF Operations
<1>1. /\ r.do = stage /\ r.ch = op[w].ch /\ r.line = op[w].line
      /\ r.birth = op[w].birth /\ r.made = op[w].made /\ r.temp = None
      /\ r.plans = op[w].plans
  BY <1>0 DEF HasRead, OpRecord
<1>2. r \in OpRecord
  BY <1>0 DEF HasRead, OpRecord, Stages
<1>3. Shaped(r)
  <2> HIDE DEF r
  <2>1. CASE op[w].do = "capture" /\ stage = "install"
    BY <1>0, <1>1, <2>1 DEF Shaped
  <2>2. CASE op[w].do = "fork" /\ stage = "digest"
    BY <1>0, <1>1, <2>2 DEF Shaped
  <2> QED BY <2>1, <2>2
<1> QED BY <1>1, <1>2, <1>3

\* A lineage is read.
Retracting(stage, line, strip) ==
    [Idle EXCEPT !.do = stage, !.line = line, !.strip = strip]

LEMMA RetractingIs ==
  ASSUME NEW line \in Seq(ConvIds), NEW strip \in SUBSET Msgs,
         NEW stage, \/ stage = "strip" /\ Len(line) >= 1
                    \/ stage = "scrub" /\ Len(line) >= 2
  PROVE  LET r == Retracting(stage, line, strip)
         IN /\ r \in OpRecord /\ Shaped(r)
            /\ r.do = stage /\ r.made = <<>> /\ r.temp = None /\ r.plans = {}
            /\ r.line = line
<1> DEFINE r == Retracting(stage, line, strip)
<1>1. /\ r.do = stage /\ r.line = line /\ r.made = <<>> /\ r.temp = None
      /\ r.plans = {}
  BY DEF Retracting, Idle
<1>2. r \in OpRecord
  BY IdleIs DEF Retracting, OpRecord, Stages
<1>3. Shaped(r)
  <2> HIDE DEF r
  <2> QED BY <1>1 DEF Shaped
<1> QED BY <1>1, <1>2, <1>3

\* What is left of an erasure.
Rest(plans) == IF plans = {} THEN Idle ELSE [Idle EXCEPT !.do = "erase", !.plans = plans]

LEMMA RestIs ==
  ASSUME NEW plans \in SUBSET Plans, \A plan \in plans : Len(plan.line) >= 2
  PROVE  LET r == Rest(plans)
         IN /\ r \in OpRecord /\ Shaped(r)
            /\ r.do \in {"idle", "erase"} /\ r.made = <<>> /\ r.temp = None
            /\ r.plans = plans
<1> DEFINE r == Rest(plans)
<1>1. /\ r.do \in {"idle", "erase"} /\ r.made = <<>> /\ r.temp = None
      /\ r.plans = plans
  BY DEF Rest, Idle
<1>2. r \in OpRecord
  BY IdleIs DEF Rest, Idle, OpRecord, Stages, None
<1>3. Shaped(r)
  <2> HIDE DEF r
  <2> QED BY <1>1 DEF Shaped
<1> QED BY <1>1, <1>2, <1>3

ScrubsNext(w, plan) ==
    [op[w] EXCEPT !.do = "scrub", !.line = plan.line, !.strip = plan.strip,
                  !.plans = op[w].plans \ {plan}]

LEMMA ScrubsNextIs ==
  ASSUME Operations, NEW w \in Workers, op[w].do = "erase", NEW plan \in op[w].plans
  PROVE  LET r == ScrubsNext(w, plan)
         IN /\ r \in OpRecord /\ Shaped(r)
            /\ r.do = "scrub" /\ r.made = <<>> /\ r.temp = None
            /\ r.plans = op[w].plans \ {plan} /\ r.line = plan.line
<1> DEFINE r == ScrubsNext(w, plan)
<1>0. op[w] \in OpRecord /\ Shaped(op[w])
  BY DEF Operations
<1>1. plan.line \in Seq(ConvIds) /\ plan.strip \in SUBSET Msgs /\ Len(plan.line) >= 2
  <2>1. plan \in Plans
    BY <1>0 DEF OpRecord
  <2> QED BY <1>0, <2>1 DEF Plans, Shaped
<1>2. op[w].made = <<>> /\ op[w].temp = None
  BY <1>0 DEF Shaped
<1>3. /\ r.do = "scrub" /\ r.line = plan.line /\ r.made = op[w].made
      /\ r.temp = op[w].temp /\ r.plans = op[w].plans \ {plan}
  BY <1>0 DEF ScrubsNext, OpRecord
<1>4. r \in OpRecord
  BY <1>0, <1>1 DEF ScrubsNext, OpRecord, Stages
<1>5. Shaped(r)
  <2> HIDE DEF r
  <2> QED BY <1>0, <1>1, <1>2, <1>3 DEF Shaped
<1> QED BY <1>2, <1>3, <1>4, <1>5

\* The lineage's root is cloned.
Begun(w, c, birth, ch) ==
    [op[w] EXCEPT !.do = "fork", !.made = <<c>>, !.birth = birth, !.ch = ch]

LEMMA BegunIs ==
  ASSUME Operations, NEW w \in Workers, op[w].do = "scrub",
         NEW c \in ConvIds, NEW birth \in Births, NEW ch \in Channels
  PROVE  LET r == Begun(w, c, birth, ch)
         IN /\ r \in OpRecord /\ Shaped(r)
            /\ r.do = "fork" /\ r.made = <<c>> /\ r.temp = None
            /\ r.plans = op[w].plans /\ r.line = op[w].line /\ r.birth = birth
            /\ r.ch = ch
<1> DEFINE r == Begun(w, c, birth, ch)
<1>0. op[w] \in OpRecord /\ Shaped(op[w])
  BY DEF Operations
<1>1. /\ r.do = "fork" /\ r.made = <<c>> /\ r.temp = op[w].temp
      /\ r.plans = op[w].plans /\ r.line = op[w].line /\ r.birth = birth /\ r.ch = ch
  BY <1>0 DEF Begun, OpRecord
<1>2. op[w].temp = None /\ Len(op[w].line) >= 2
  BY <1>0 DEF Shaped
<1>3. r \in OpRecord
  <2>1. <<c>> \in Seq(ConvIds)
    OBVIOUS
  <2> QED BY <1>0, <2>1 DEF Begun, OpRecord, Stages
<1>4. Shaped(r)
  <2>1. Len(r.made) = 1
    BY <1>1
  <2>2. Len(op[w].line) \in Nat
    BY <1>0 DEF OpRecord
  <2> HIDE DEF r
  <2> QED BY <1>0, <1>1, <1>2, <2>1, <2>2 DEF Shaped
<1> QED BY <1>1, <1>2, <1>3, <1>4

Forked(w, c) == [op[w] EXCEPT !.temp = c]

LEMMA ForkedIs ==
  ASSUME Operations, NEW w \in Workers, op[w].do = "fork", NEW c \in ConvIds
  PROVE  LET r == Forked(w, c)
         IN /\ r \in OpRecord /\ Shaped(r)
            /\ r.do = "fork" /\ r.made = op[w].made /\ r.temp = c
            /\ r.plans = op[w].plans /\ r.line = op[w].line /\ r.birth = op[w].birth
            /\ r.ch = op[w].ch
<1> DEFINE r == Forked(w, c)
<1>0. op[w] \in OpRecord /\ Shaped(op[w])
  BY DEF Operations
<1>1. /\ r.do = "fork" /\ r.made = op[w].made /\ r.temp = c
      /\ r.plans = op[w].plans /\ r.line = op[w].line /\ r.birth = op[w].birth
      /\ r.ch = op[w].ch
  BY <1>0 DEF Forked, OpRecord
<1>2. r \in OpRecord
  BY <1>0 DEF Forked, OpRecord
<1>3. Shaped(r)
  <2> HIDE DEF r
  <2> QED BY <1>0, <1>1 DEF Shaped
<1> QED BY <1>1, <1>2, <1>3

HopMade(w, c, birth) ==
    [op[w] EXCEPT !.do = "fork", !.made = Append(op[w].made, c), !.birth = birth,
                  !.words = {}]

LEMMA HopMadeIs ==
  ASSUME Operations, NEW w \in Workers, op[w].do = "digest", NextHop(w) # Serving(w),
         NEW c \in ConvIds, NEW birth \in Births
  PROVE  LET r == HopMade(w, c, birth)
         IN /\ r \in OpRecord /\ Shaped(r)
            /\ r.do = "fork" /\ r.made = Append(op[w].made, c) /\ r.temp = None
            /\ r.plans = op[w].plans /\ r.line = op[w].line /\ r.birth = birth
            /\ r.ch = op[w].ch
<1> DEFINE r == HopMade(w, c, birth)
<1>0. op[w] \in OpRecord /\ Shaped(op[w])
  BY DEF Operations
<1>1. /\ r.do = "fork" /\ r.made = Append(op[w].made, c) /\ r.temp = op[w].temp
      /\ r.plans = op[w].plans /\ r.line = op[w].line /\ r.birth = birth
      /\ r.ch = op[w].ch
  BY <1>0 DEF HopMade, OpRecord
<1>2. op[w].temp = None /\ Len(op[w].made) >= 1 /\ Len(op[w].made) < Len(op[w].line)
  BY <1>0 DEF Shaped
<1>3. op[w].made \in Seq(ConvIds) /\ Len(op[w].made) \in Nat /\ Len(op[w].line) \in Nat
  BY <1>0 DEF OpRecord
<1>4. Len(op[w].made) + 1 # Len(op[w].line)
  BY DEF NextHop, Serving
<1>5. /\ Append(op[w].made, c) \in Seq(ConvIds)
      /\ Len(Append(op[w].made, c)) = Len(op[w].made) + 1
  BY <1>3, AppendProperties
<1>6. r \in OpRecord
  BY <1>0, <1>5 DEF HopMade, OpRecord, Stages
<1>7. Shaped(r)
  <2>1. Len(r.made) >= 1 /\ Len(r.made) < Len(r.line)
    BY <1>1, <1>2, <1>3, <1>4, <1>5
  <2> HIDE DEF r
  <2> QED BY <1>0, <1>1, <1>2, <2>1 DEF Shaped
<1> QED BY <1>1, <1>2, <1>6, <1>7

-----------------------------------------------------------------------------
(* Each step keeps the type.                                                 *)

\* Steps that leave the conversations alone.
LEMMA StoreStands ==
  ASSUME StoreTypeOK, Contents, UNCHANGED storeVars, UNCHANGED <<ledger, digest>>
  PROVE  /\ StoreTypeOK'
         /\ ledger' \in [ConvIds -> SUBSET Msgs]
         /\ digest' \in [ConvIds -> SUBSET Msgs]
  BY DEF StoreTypeOK, Contents, storeVars

LEMMA ServesTyped ==
  ASSUME Contents, NEW ch \in Channels, NEW c \in ConvIds, births + 1 \in Births,
         Serves(ch, c)
  PROVE  mapped' \in [Channels -> ConvIds \cup {None}] /\ served' \subseteq Births
  BY DEF Contents, Serves

\* What the operation of a worker reads.
LEMMA Reads ==
  ASSUME Operations, NEW w \in Workers
  PROVE  /\ op[w] \in OpRecord /\ Shaped(op[w])
         /\ op[w].line \in Seq(ConvIds) /\ op[w].strip \subseteq Msgs
         /\ op[w].words \subseteq Msgs /\ op[w].birth \in Births \cup {None}
         /\ op[w].plans \subseteq Plans
         /\ \A plan \in op[w].plans : plan.strip \subseteq Msgs
         /\ Len(op[w].line) \in Nat /\ Len(op[w].made) \in Nat
         /\ Len(op[w].line) >= 1 => op[w].line[1] \in ConvIds /\ Serving(w) \in ConvIds
         /\ op[w].do \in {"fork", "digest"} => Made(w) \in ConvIds /\ NextHop(w) \in ConvIds
<1>1. op[w] \in OpRecord /\ Shaped(op[w])
  BY DEF Operations
<1>2. /\ op[w].line \in Seq(ConvIds) /\ op[w].strip \subseteq Msgs
      /\ op[w].words \subseteq Msgs /\ op[w].birth \in Births \cup {None}
      /\ op[w].plans \subseteq Plans /\ op[w].made \in Seq(ConvIds)
  BY <1>1 DEF OpRecord
<1>3. \A plan \in op[w].plans : plan.strip \subseteq Msgs
  BY <1>2 DEF Plans
<1>4. Len(op[w].line) \in Nat /\ Len(op[w].made) \in Nat
  BY <1>2
<1>5. Len(op[w].line) >= 1 => op[w].line[1] \in ConvIds /\ Serving(w) \in ConvIds
  BY <1>2, <1>4 DEF Serving
<1>6. ASSUME op[w].do \in {"fork", "digest"}
      PROVE  Made(w) \in ConvIds /\ NextHop(w) \in ConvIds
  <2>1. Len(op[w].made) >= 1 /\ Len(op[w].made) < Len(op[w].line)
    BY <1>1, <1>6 DEF Shaped
  <2>2. Len(op[w].made) \in 1 .. Len(op[w].made)
        /\ Len(op[w].made) + 1 \in 1 .. Len(op[w].line)
    BY <1>4, <2>1
  <2> QED BY <1>2, <2>2 DEF Made, NextHop
<1> QED BY <1>1, <1>2, <1>3, <1>4, <1>5, <1>6

LEMMA ReadableTyped ==
  ASSUME Contents, NEW t \in ConvIds
  PROVE  Readable(ledger[t], digest[t]) \in SUBSET Msgs
  BY DEF Readable, Contents

\* An idle worker's step, and the end of a scrub.
LEMMA Rests ==
  ASSUME Operations, NEW w \in Workers, Idles(w) \/ ScrubOver(w)
  PROVE  /\ Operations'
         /\ op'[w].do \in {"idle", "erase"} /\ op'[w].made = <<>> /\ op'[w].temp = None
         /\ op'[w].plans \subseteq op[w].plans
         /\ \A v \in Workers \ {w} : op'[v] = op[v]
<1>0. op[w].plans \in SUBSET Plans /\ \A plan \in op[w].plans : Len(plan.line) >= 2
  BY Reads DEF Shaped
<1>1. CASE Idles(w)
  <2>1. Takes(w, Idle)
    BY <1>1 DEF Idles, Takes
  <2> QED BY <2>1, OpTakes, IdleIs
<1>2. CASE ScrubOver(w)
  <2>1. Takes(w, Rest(op[w].plans))
    BY <1>2 DEF ScrubOver, Rest, Takes
  <2> QED BY <1>0, <2>1, OpTakes, RestIs
<1> QED BY <1>1, <1>2

LEMMA OpStands ==
  ASSUME Operations, UNCHANGED op
  PROVE  Operations'
  BY DEF Operations, Shaped

LEMMA MessagesTyped ==
  ASSUME Typed, NEW ch \in Channels,
         \/ FirstContact(ch) \/ Wipe(ch) \/ MapNewChannelFails(ch) \/ RetireStaleChannel(ch)
         \/ \E p \in People : Ingest(ch, p)
  PROVE  Typed'
<1> USE DEF Typed
<1>1. ASSUME NEW c \in ConvIds, NEW o \in Opening, Opens(c, o, {}), Serves(ch, c),
             UNCHANGED <<recorded, author, nulled, op, residual>>
      PROVE  Typed'
  <2>1. /\ StoreTypeOK' /\ ledger' \in [ConvIds -> SUBSET Msgs]
        /\ digest' \in [ConvIds -> SUBSET Msgs] /\ births + 1 \in Births
    BY <1>1, OpensTyped
  <2>2. mapped' \in [Channels -> ConvIds \cup {None}] /\ served' \subseteq Births
    BY <1>1, <2>1, ServesTyped
  <2>3. Operations'
    BY <1>1, OpStands
  <2> QED BY <1>1, <2>1, <2>2, <2>3 DEF Contents
<1>2. CASE FirstContact(ch)
  BY <1>1, <1>2, Openings DEF FirstContact
<1>3. CASE Wipe(ch)
  BY <1>1, <1>3, Openings DEF Wipe
<1>4. CASE RetireStaleChannel(ch)
  <2>1. mapped[ch] \in ConvIds
    BY <1>4 DEF RetireStaleChannel, Contents
  <2>2. Clone(mapped[ch], {}) \in Opening
    BY <2>1, Openings
  <2> QED BY <1>1, <1>4, <2>2 DEF RetireStaleChannel
<1>5. CASE MapNewChannelFails(ch)
  <2>1. PICK c \in ConvIds : Opens(c, Blank, {})
    BY <1>5 DEF MapNewChannelFails
  <2>2. /\ StoreTypeOK' /\ ledger' \in [ConvIds -> SUBSET Msgs]
        /\ digest' \in [ConvIds -> SUBSET Msgs]
    BY <2>1, OpensTyped, Openings
  <2>3. UNCHANGED <<recorded, author, nulled, mapped, op, served, residual>>
    BY <1>5 DEF MapNewChannelFails
  <2>4. Operations'
    BY <2>3, OpStands
  <2> QED BY <2>2, <2>3, <2>4 DEF Contents
<1>6. ASSUME NEW p \in People, Ingest(ch, p) PROVE Typed'
  <2>1. /\ recorded < MaxMsgs /\ recorded' = recorded + 1 /\ author' = Append(author, p)
        /\ ledger' = [ledger EXCEPT ![mapped[ch]] = @ \cup {recorded + 1}]
        /\ UNCHANGED <<storeVars, digest, nulled, mapped, op, served, residual>>
    BY <1>6 DEF Ingest
  <2>2. recorded + 1 \in Msgs /\ recorded + 1 \in 0 .. MaxMsgs /\ recorded \in Nat
    BY <2>1, SessionsAssumption DEF Contents, Msgs
  <2>3. ledger' \in [ConvIds -> SUBSET Msgs]
    BY <2>1, <2>2 DEF Contents
  <2>4. author' \in [1 .. recorded' -> People]
    <3>1. author \in Seq(People) /\ Len(author) = recorded
      BY <2>2, SeqDef DEF Contents
    <3>2. author' \in Seq(People) /\ Len(author') = recorded + 1
      BY <2>1, <3>1, AppendProperties
    <3>3. DOMAIN author' = 1 .. recorded + 1 /\ \A i \in 1 .. recorded + 1 : author'[i] \in People
      BY <2>2, <3>2
    <3>4. author' = [i \in 1 .. recorded + 1 |-> author'[i]]
      BY <3>2, <3>3
    <3> QED BY <2>1, <3>3, <3>4
  <2>5. nulled' \subseteq 1 .. recorded'
    BY <2>1, <2>2 DEF Contents
  <2>6. StoreTypeOK'
    BY <2>1 DEF StoreTypeOK, storeVars
  <2>7. Operations'
    BY <2>1, OpStands
  <2> QED BY <2>1, <2>2, <2>3, <2>4, <2>5, <2>6, <2>7 DEF Contents
<1> QED BY <1>2, <1>3, <1>4, <1>5, <1>6

LEMMA CompactTyped ==
  ASSUME Typed, NEW w \in Workers, NEW ch \in Channels, Compact(w, ch)
  PROVE  Typed'
<1> USE DEF Typed
<1>1. mapped[ch] \in ConvIds
  BY DEF Compact, Contents
<1>2. PICK c \in ConvIds, cut \in ledger[mapped[ch]] :
        /\ Opens(c, [Clone(mapped[ch], {}) EXCEPT
                       !.ledger = {m \in ledger[mapped[ch]] : m <= cut}], {})
        /\ Takes(w, Compacting(ch, c, cut))
  BY DEF Compact, Takes, Compacting
<1>3. UNCHANGED <<recorded, author, nulled, mapped, served, residual>>
  BY DEF Compact
<1>4. ledger[mapped[ch]] \subseteq Msgs
  BY <1>1 DEF Contents
<1>5. [Clone(mapped[ch], {}) EXCEPT !.ledger = {m \in ledger[mapped[ch]] : m <= cut}]
        \in Opening
  <2>1. Clone(mapped[ch], {}) \in Opening
    BY <1>1, Openings
  <2> QED BY <1>4, <2>1 DEF Opening
<1>6. /\ StoreTypeOK' /\ ledger' \in [ConvIds -> SUBSET Msgs]
      /\ digest' \in [ConvIds -> SUBSET Msgs]
  BY <1>2, <1>5, OpensTyped
<1>7. Operations'
  BY <1>1, <1>2, <1>4, CompactingIs, OpTakes
<1> QED BY <1>3, <1>6, <1>7 DEF Contents

LEMMA CaptureTyped ==
  ASSUME Typed, NEW w \in Workers,
         CaptureAndRetire(w) \/ Unsummarized(w) \/ CompactionStandsDown(w)
  PROVE  Typed'
<1> USE DEF Typed
<1>1. CASE CaptureAndRetire(w)
  <2>1. op[w].temp \in ConvIds /\ op[w].do = "capture"
    BY <1>1, Reads DEF CaptureAndRetire, OpRecord, Shaped
  <2>2. /\ Deletes({op[w].temp})
        /\ Takes(w, HasRead(w, "install", Readable(ledger[op[w].temp], digest[op[w].temp])))
        /\ UNCHANGED <<recorded, author, nulled, mapped, served, residual>>
    BY <1>1 DEF CaptureAndRetire, Takes, HasRead
  <2>3. Operations'
    BY <2>1, <2>2, ReadableTyped, HasReadIs, OpTakes
  <2> QED BY <2>2, <2>3, DeletesTyped DEF Contents
<1>2. CASE Unsummarized(w)
  <2>1. /\ Deletes({op[w].temp}) /\ Idles(w)
        /\ UNCHANGED <<recorded, author, nulled, mapped, served, residual>>
    BY <1>2 DEF Unsummarized
  <2> QED BY <2>1, Rests, DeletesTyped DEF Contents
<1>3. CASE CompactionStandsDown(w)
  <2>1. Idles(w) /\ UNCHANGED <<storeVars, content, mapped, served, residual>>
    BY <1>3 DEF CompactionStandsDown
  <2>2. StoreTypeOK'
    BY <2>1 DEF StoreTypeOK, storeVars
  <2> QED BY <2>1, <2>2, Rests DEF Contents, content
<1> QED BY <1>1, <1>2, <1>3

LEMMA CompactedThreadTyped ==
  ASSUME Typed, NEW w \in Workers, op[w].do = "install"
  PROVE  CompactedThread(w) \in Opening
<1>1. op[w].line[1] \in ConvIds /\ op[w].words \subseteq Msgs
  BY Reads DEF Typed, Shaped
<1> QED BY <1>1 DEF CompactedThread, Opening, Typed, Contents, StoreTypeOK

\* A thread takes the channel and its worker is done.
LEMMA InstallTyped ==
  ASSUME Typed, NEW w \in Workers, NEW ch \in Channels, NEW c \in ConvIds,
         NEW o \in Opening, NEW gone, Opens(c, o, gone), Serves(ch, c),
         Idles(w) \/ ScrubOver(w), UNCHANGED <<recorded, author, nulled>>,
         residual' \subseteq residual \cup op[w].strip
  PROVE  Typed'
<1> USE DEF Typed
<1>1. /\ StoreTypeOK' /\ ledger' \in [ConvIds -> SUBSET Msgs]
      /\ digest' \in [ConvIds -> SUBSET Msgs] /\ births + 1 \in Births
  BY OpensTyped
<1>2. mapped' \in [Channels -> ConvIds \cup {None}] /\ served' \subseteq Births
  BY <1>1, ServesTyped
<1>3. Operations'
  BY Rests
<1>4. residual' \subseteq Msgs
  BY Reads DEF Contents
<1> QED BY <1>1, <1>2, <1>3, <1>4 DEF Contents

LEMMA InstallCompactedTyped ==
  ASSUME Typed, NEW w \in Workers, InstallCompactedThread(w)
  PROVE  Typed'
<1>1. op[w].do = "install"
  BY DEF InstallCompactedThread
<1>2. op[w].ch \in Channels
  BY <1>1, Reads DEF Typed, Shaped
<1>3. PICK c \in ConvIds : Opens(c, CompactedThread(w), {}) /\ Serves(op[w].ch, c)
  BY DEF InstallCompactedThread
<1>4. Idles(w) /\ UNCHANGED <<recorded, author, nulled, residual>>
  BY DEF InstallCompactedThread
<1> QED BY <1>1, <1>2, <1>3, <1>4, CompactedThreadTyped, InstallTyped

LEMMA FrontHolds ==
  ASSUME NEW line \in Seq(ConvIds), Range(Front(line)) # {}
  PROVE  Len(line) >= 2
<1>1. SUFFICES ASSUME ~(Len(line) >= 2) PROVE FALSE
  OBVIOUS
<1>2. Len(line) \in Nat /\ Len(line) - 1 < 1
  BY <1>1
<1>3. DOMAIN Front(line) = 1 .. Len(line) - 1
  BY <1>2 DEF Front
<1> QED BY <1>2, <1>3 DEF Range

LEMMA StripTyped ==
  ASSUME Typed, NEW w \in Workers, NEW ch \in Channels, NEW m \in Msgs,
         StripFromView(w, ch, m)
  PROVE  /\ Typed'
         /\ mapped[ch] \in ConvIds
         /\ \E stage \in {"strip", "scrub"} :
               /\ stage = "scrub" => Len(Lineage(mapped[ch])) >= 2
               /\ op'[w].do = stage /\ op'[w].line = Lineage(mapped[ch])
               /\ op'[w].made = <<>> /\ op'[w].temp = None /\ op'[w].plans = {}
         /\ \A v \in Workers \ {w} : op'[v] = op[v]
<1> USE DEF Typed
<1> DEFINE line == Lineage(mapped[ch])
           below == UNION {ledger[c] : c \in Range(Front(line))}
           stage == IF m \in below THEN "scrub" ELSE "strip"
           strip == {m}
<1>1. mapped[ch] \in ConvIds
  BY DEF StripFromView, Contents
<1>2. line \in Seq(ConvIds) /\ Len(line) >= 1
  BY <1>1, LineageClimbs DEF Climbs
<1>3. Takes(w, Retracting(stage, line, strip))
  BY DEF StripFromView, Takes, Retracting
<1>4. UNCHANGED <<storeVars, content, mapped, served, residual>>
  BY DEF StripFromView
<1>5. stage = "scrub" => Len(line) >= 2
  BY <1>2, FrontHolds
<1>6. stage = "strip" \/ stage = "scrub"
  OBVIOUS
<1> HIDE DEF line, stage, strip
<1>7. /\ Retracting(stage, line, strip) \in OpRecord /\ Shaped(Retracting(stage, line, strip))
      /\ Retracting(stage, line, strip).do = stage /\ Retracting(stage, line, strip).line = line
      /\ Retracting(stage, line, strip).made = <<>> /\ Retracting(stage, line, strip).temp = None
      /\ Retracting(stage, line, strip).plans = {}
  <2>1. strip \in SUBSET Msgs
    BY DEF strip
  <2>2. \/ stage = "strip" /\ Len(line) >= 1
        \/ stage = "scrub" /\ Len(line) >= 2
    BY <1>2, <1>5, <1>6
  <2> QED BY <1>2, <2>1, <2>2, RetractingIs
<1>8. Operations' /\ op'[w] = Retracting(stage, line, strip)
      /\ \A v \in Workers \ {w} : op'[v] = op[v]
  BY <1>3, <1>7, OpTakes
<1>9. Typed'
  <2>1. StoreTypeOK'
    BY <1>4 DEF StoreTypeOK, storeVars
  <2> QED BY <1>4, <1>8, <2>1 DEF Contents, content
<1>10. /\ stage \in {"strip", "scrub"}
       /\ stage = "scrub" => Len(line) >= 2
       /\ op'[w].do = stage /\ op'[w].line = line
       /\ op'[w].made = <<>> /\ op'[w].temp = None /\ op'[w].plans = {}
  BY <1>5, <1>6, <1>7, <1>8
<1> QED BY <1>1, <1>8, <1>9, <1>10 DEF line

LEMMA CloneTyped ==
  ASSUME Typed, NEW w \in Workers, ReplaceWithClone(w) \/ CloneFails(w)
  PROVE  Typed'
<1> USE DEF Typed
<1>1. Serving(w) \in ConvIds /\ op[w].strip \in SUBSET Msgs
  BY Reads DEF ReplaceWithClone, CloneFails, Shaped
<1>2. Clone(Serving(w), op[w].strip) \in Opening /\ Clone(Serving(w), {}) \in Opening
  BY <1>1, Openings
<1>3. CASE ReplaceWithClone(w)
  <2>1. Idles(w) /\ UNCHANGED <<recorded, author, nulled, residual>>
    BY <1>3 DEF ReplaceWithClone
  <2>2. ASSUME Serving(w) \in MappedConvs,
               NEW c \in ConvIds, Opens(c, Clone(Serving(w), op[w].strip), {Serving(w)}),
               Serves(ChannelOf(Serving(w)), c)
        PROVE  Typed'
    <3>1. ChannelOf(Serving(w)) \in Channels
      BY <2>2, SomeChannel
    <3>2. residual' \subseteq residual \cup op[w].strip
      BY <2>1
    <3>3. UNCHANGED <<recorded, author, nulled>>
      BY <2>1
    <3> QED BY <1>2, <2>1, <2>2, <3>1, <3>2, <3>3, InstallTyped
  <2>3. CASE UNCHANGED <<storeVars, ledger, digest, mapped, served>>
    <3>1. StoreTypeOK'
      BY <2>3 DEF StoreTypeOK, storeVars
    <3> QED BY <2>1, <2>3, <3>1, Rests DEF Contents
  <2> QED BY <1>3, <2>2, <2>3 DEF ReplaceWithClone
<1>4. CASE CloneFails(w)
  <2>1. PICK c \in ConvIds : Opens(c, Clone(Serving(w), {}), {})
    BY <1>4 DEF CloneFails
  <2>2. Idles(w) /\ UNCHANGED <<recorded, author, nulled, mapped, served, residual>>
    BY <1>4 DEF CloneFails
  <2>3. /\ StoreTypeOK' /\ ledger' \in [ConvIds -> SUBSET Msgs]
        /\ digest' \in [ConvIds -> SUBSET Msgs]
    BY <1>2, <2>1, OpensTyped
  <2> QED BY <2>2, <2>3, Rests DEF Contents
<1> QED BY <1>3, <1>4

LEMMA ScrubBeginsTakes ==
  ASSUME Typed, NEW w \in Workers, ScrubBegins(w)
  PROVE  \E c \in ConvIds :
            /\ Opens(c, Clone(op[w].line[1], op[w].strip), {})
            /\ Clone(op[w].line[1], op[w].strip) \in Opening
            /\ births + 1 \in Births /\ births' = births + 1
            /\ Serving(w) \in MappedConvs
            /\ Operations'
            /\ op'[w].do = "fork" /\ op'[w].made = <<c>> /\ op'[w].temp = None
            /\ op'[w].plans = op[w].plans /\ op'[w].line = op[w].line
            /\ op'[w].birth = births + 1
            /\ \A v \in Workers \ {w} : op'[v] = op[v]
            /\ UNCHANGED <<recorded, author, nulled, mapped, served, residual>>
<1> USE DEF Typed
<1>1. PICK c \in ConvIds :
        /\ Opens(c, Clone(op[w].line[1], op[w].strip), {})
        /\ Takes(w, Begun(w, c, births + 1, ChannelOf(Serving(w))))
  BY DEF ScrubBegins, Takes, Begun
<1>2. op[w].do = "scrub" /\ Serving(w) \in MappedConvs
      /\ UNCHANGED <<recorded, author, nulled, mapped, served, residual>>
  BY DEF ScrubBegins
<1>3. op[w].line[1] \in ConvIds /\ op[w].strip \in SUBSET Msgs
  BY <1>2, Reads DEF Shaped
<1>4. Clone(op[w].line[1], op[w].strip) \in Opening
  BY <1>3, Openings
<1>5. births + 1 \in Births /\ births' = births + 1
  BY <1>1, <1>4, OpensTyped
<1>6. ChannelOf(Serving(w)) \in Channels
  BY <1>2, SomeChannel
<1> DEFINE r == Begun(w, c, births + 1, ChannelOf(Serving(w)))
<1>7. /\ r \in OpRecord /\ Shaped(r)
      /\ r.do = "fork" /\ r.made = <<c>> /\ r.temp = None
      /\ r.plans = op[w].plans /\ r.line = op[w].line /\ r.birth = births + 1
  BY <1>2, <1>5, <1>6, BegunIs
<1> HIDE DEF r
<1>8. Operations' /\ op'[w] = r /\ \A v \in Workers \ {w} : op'[v] = op[v]
  BY <1>1, <1>7, OpTakes DEF r
<1> QED BY <1>1, <1>2, <1>4, <1>5, <1>7, <1>8

LEMMA ScrubBeginsTyped ==
  ASSUME Typed, NEW w \in Workers, ScrubBegins(w)
  PROVE  Typed'
<1> USE DEF Typed
<1>1. PICK c \in ConvIds :
            /\ Opens(c, Clone(op[w].line[1], op[w].strip), {})
            /\ Clone(op[w].line[1], op[w].strip) \in Opening
            /\ Operations'
            /\ UNCHANGED <<recorded, author, nulled, mapped, served, residual>>
  BY ScrubBeginsTakes
<1>2. /\ StoreTypeOK' /\ ledger' \in [ConvIds -> SUBSET Msgs]
      /\ digest' \in [ConvIds -> SUBSET Msgs]
  BY <1>1, OpensTyped
<1> QED BY <1>1, <1>2 DEF Contents

LEMMA RegenerateForkTakes ==
  ASSUME Typed, NEW w \in Workers, RegenerateFork(w)
  PROVE  \E c \in ConvIds :
            /\ Opens(c, Span(Made(w), NextHop(w)), {})
            /\ Span(Made(w), NextHop(w)) \in Opening
            /\ op[w].do = "fork" /\ op[w].temp = None /\ Made(w) \in Live
            /\ Operations'
            /\ op'[w].do = "fork" /\ op'[w].made = op[w].made /\ op'[w].temp = c
            /\ op'[w].plans = op[w].plans /\ op'[w].line = op[w].line
            /\ op'[w].birth = op[w].birth
            /\ \A v \in Workers \ {w} : op'[v] = op[v]
            /\ UNCHANGED <<recorded, author, nulled, mapped, served, residual>>
<1> USE DEF Typed
<1>1. PICK c \in ConvIds : /\ Opens(c, Span(Made(w), NextHop(w)), {})
                           /\ Takes(w, Forked(w, c))
  BY DEF RegenerateFork, Takes, Forked
<1>2. op[w].do = "fork" /\ op[w].temp = None /\ Made(w) \in Live
      /\ UNCHANGED <<recorded, author, nulled, mapped, served, residual>>
  BY DEF RegenerateFork
<1>3. Span(Made(w), NextHop(w)) \in Opening
  <2>1. Made(w) \in ConvIds /\ NextHop(w) \in ConvIds
    BY <1>2, Reads
  <2> QED BY <2>1, Openings
<1> DEFINE r == Forked(w, c)
<1>4. /\ r \in OpRecord /\ Shaped(r)
      /\ r.do = "fork" /\ r.made = op[w].made /\ r.temp = c
      /\ r.plans = op[w].plans /\ r.line = op[w].line /\ r.birth = op[w].birth
  BY <1>2, ForkedIs
<1> HIDE DEF r
<1>5. Operations' /\ op'[w] = r /\ \A v \in Workers \ {w} : op'[v] = op[v]
  BY <1>1, <1>4, OpTakes DEF r
<1> QED BY <1>1, <1>2, <1>3, <1>4, <1>5

LEMMA RegenerateForkTyped ==
  ASSUME Typed, NEW w \in Workers, RegenerateFork(w)
  PROVE  Typed'
<1> USE DEF Typed
<1>1. PICK c \in ConvIds :
            /\ Opens(c, Span(Made(w), NextHop(w)), {})
            /\ Span(Made(w), NextHop(w)) \in Opening
            /\ Operations'
            /\ UNCHANGED <<recorded, author, nulled, mapped, served, residual>>
  BY RegenerateForkTakes
<1>2. /\ StoreTypeOK' /\ ledger' \in [ConvIds -> SUBSET Msgs]
      /\ digest' \in [ConvIds -> SUBSET Msgs]
  BY <1>1, OpensTyped
<1> QED BY <1>1, <1>2 DEF Contents

LEMMA RegenerateReadTakes ==
  ASSUME Typed, NEW w \in Workers, RegenerateRead(w)
  PROVE  /\ op[w].do = "fork" /\ op[w].temp \in ConvIds /\ Deletes({op[w].temp})
         /\ Operations'
         /\ op'[w].do = "digest" /\ op'[w].made = op[w].made /\ op'[w].temp = None
         /\ op'[w].plans = op[w].plans /\ op'[w].line = op[w].line
         /\ op'[w].birth = op[w].birth
         /\ \A v \in Workers \ {w} : op'[v] = op[v]
         /\ UNCHANGED <<recorded, author, nulled, mapped, served, residual>>
<1> USE DEF Typed
<1>1. op[w].temp \in ConvIds /\ op[w].do = "fork"
  BY Reads DEF RegenerateRead, OpRecord
<1> DEFINE r == HasRead(w, "digest", Readable(ledger[op[w].temp], digest[op[w].temp]))
<1>2. /\ Deletes({op[w].temp}) /\ Takes(w, r)
      /\ UNCHANGED <<recorded, author, nulled, mapped, served, residual>>
  BY DEF RegenerateRead, Takes, HasRead
<1>3. /\ r \in OpRecord /\ Shaped(r)
      /\ r.do = "digest" /\ r.made = op[w].made /\ r.temp = None
      /\ r.plans = op[w].plans /\ r.line = op[w].line /\ r.birth = op[w].birth
  BY <1>1, ReadableTyped, HasReadIs
<1> HIDE DEF r
<1>4. Operations' /\ op'[w] = r /\ \A v \in Workers \ {w} : op'[v] = op[v]
  BY <1>2, <1>3, OpTakes
<1> QED BY <1>1, <1>2, <1>3, <1>4

LEMMA RegenerateReadTyped ==
  ASSUME Typed, NEW w \in Workers, RegenerateRead(w)
  PROVE  Typed'
  BY RegenerateReadTakes, DeletesTyped DEF Typed, Contents

LEMMA RebuiltTyped ==
  ASSUME Typed, NEW w \in Workers, op[w].do = "digest", NEW hop \in ConvIds
  PROVE  Rebuilt(w, hop) \in Opening
<1>1. /\ op[w].words \subseteq Msgs /\ op[w].birth \in Births \cup {None}
      /\ Made(w) \in ConvIds
  BY Reads DEF Typed
<1>2. ledger[hop] \subseteq Msgs
  BY DEF Typed, Contents
<1> QED BY <1>1, <1>2 DEF Rebuilt, Opening

LEMMA RebuildHopTakes ==
  ASSUME Typed, NEW w \in Workers, RebuildHop(w)
  PROVE  \E c \in ConvIds :
            /\ Opens(c, Rebuilt(w, NextHop(w)), {})
            /\ Rebuilt(w, NextHop(w)) \in Opening
            /\ births + 1 \in Births /\ births' = births + 1
            /\ op[w].do = "digest"
            /\ Operations'
            /\ op'[w].do = "fork" /\ op'[w].made = Append(op[w].made, c)
            /\ op'[w].temp = None
            /\ op'[w].plans = op[w].plans /\ op'[w].line = op[w].line
            /\ op'[w].birth = births + 1
            /\ \A v \in Workers \ {w} : op'[v] = op[v]
            /\ UNCHANGED <<recorded, author, nulled, mapped, served, residual>>
<1> USE DEF Typed
<1>1. PICK c \in ConvIds : /\ Opens(c, Rebuilt(w, NextHop(w)), {})
                           /\ Takes(w, HopMade(w, c, births + 1))
  BY DEF RebuildHop, Takes, HopMade
<1>2. op[w].do = "digest" /\ NextHop(w) # Serving(w)
      /\ UNCHANGED <<recorded, author, nulled, mapped, served, residual>>
  BY DEF RebuildHop
<1>3. Rebuilt(w, NextHop(w)) \in Opening
  <2>1. NextHop(w) \in ConvIds
    BY <1>2, Reads
  <2> QED BY <1>2, <2>1, RebuiltTyped
<1>4. births + 1 \in Births /\ births' = births + 1
  BY <1>1, <1>3, OpensTyped
<1> DEFINE r == HopMade(w, c, births + 1)
<1>5. /\ r \in OpRecord /\ Shaped(r)
      /\ r.do = "fork" /\ r.made = Append(op[w].made, c) /\ r.temp = None
      /\ r.plans = op[w].plans /\ r.line = op[w].line /\ r.birth = births + 1
  BY <1>2, <1>4, HopMadeIs
<1> HIDE DEF r
<1>6. Operations' /\ op'[w] = r /\ \A v \in Workers \ {w} : op'[v] = op[v]
  BY <1>1, <1>5, OpTakes DEF r
<1> QED BY <1>1, <1>2, <1>3, <1>4, <1>5, <1>6

LEMMA RebuildHopTyped ==
  ASSUME Typed, NEW w \in Workers, RebuildHop(w)
  PROVE  Typed'
<1> USE DEF Typed
<1>1. PICK c \in ConvIds :
            /\ Opens(c, Rebuilt(w, NextHop(w)), {})
            /\ Rebuilt(w, NextHop(w)) \in Opening
            /\ Operations'
            /\ UNCHANGED <<recorded, author, nulled, mapped, served, residual>>
  BY RebuildHopTakes
<1>2. /\ StoreTypeOK' /\ ledger' \in [ConvIds -> SUBSET Msgs]
      /\ digest' \in [ConvIds -> SUBSET Msgs]
  BY <1>1, OpensTyped
<1> QED BY <1>1, <1>2 DEF Contents

LEMMA InstallScrubbedTakes ==
  ASSUME Typed, NEW w \in Workers, InstallScrubbedThread(w)
  PROVE  /\ op[w].do = "digest" /\ op[w].ch \in Channels
         /\ mapped[op[w].ch] = Serving(w) /\ Serving(w) \in ConvIds
         /\ Rebuilt(w, Serving(w)) \in Opening
         /\ ScrubOver(w)
         /\ \E c \in ConvIds : /\ Opens(c, Rebuilt(w, Serving(w)), Range(op[w].line))
                               /\ Serves(op[w].ch, c)
<1>1. op[w].do = "digest"
  BY DEF InstallScrubbedThread
<1>2. op[w].ch \in Channels /\ Serving(w) \in ConvIds
  BY <1>1, Reads DEF Typed, Shaped
<1> QED BY <1>1, <1>2, RebuiltTyped DEF InstallScrubbedThread

LEMMA InstallScrubbedTyped ==
  ASSUME Typed, NEW w \in Workers, InstallScrubbedThread(w)
  PROVE  Typed'
<1>1. PICK c \in ConvIds : /\ Opens(c, Rebuilt(w, Serving(w)), Range(op[w].line))
                           /\ Serves(op[w].ch, c)
  BY InstallScrubbedTakes
<1>2. ScrubOver(w) /\ op[w].ch \in Channels /\ Rebuilt(w, Serving(w)) \in Opening
  BY InstallScrubbedTakes
<1>3. UNCHANGED <<recorded, author, nulled>> /\ residual' \subseteq residual \cup op[w].strip
  BY DEF InstallScrubbedThread
<1> QED BY <1>1, <1>2, <1>3, InstallTyped

LEMMA ScrubEndsTyped ==
  ASSUME Typed, NEW w \in Workers, ScrubHasNoChannel(w) \/ ScrubStandsDown(w)
  PROVE  Typed'
<1> USE DEF Typed
<1>1. /\ ScrubOver(w) /\ residual' = residual \cup op[w].strip
      /\ UNCHANGED <<recorded, author, nulled, mapped, served>>
  BY DEF ScrubHasNoChannel, ScrubStandsDown, content
<1>2. residual' \subseteq Msgs
  BY <1>1, Reads DEF Contents
<1>3. Operations'
  BY <1>1, Rests
<1>4. CASE ScrubHasNoChannel(w)
  <2>1. UNCHANGED storeVars /\ UNCHANGED <<ledger, digest>>
    BY <1>4 DEF ScrubHasNoChannel, content
  <2> QED BY <1>1, <1>2, <1>3, <2>1, StoreStands DEF Contents
<1>5. CASE ScrubStandsDown(w)
  <2>1. Deletes(Range(op[w].made) \cup ({op[w].temp} \ {None}))
    BY <1>5 DEF ScrubStandsDown
  <2> QED BY <1>1, <1>2, <1>3, <2>1, DeletesTyped DEF Contents
<1> QED BY <1>4, <1>5

LEMMA LineagesTyped ==
  ASSUME Typed, NEW p \in People
  PROVE  /\ Authored(p) \subseteq Msgs /\ Authored(p) \subseteq 1 .. recorded
         /\ LineagesOf(p) \in SUBSET Plans
         /\ \A plan \in LineagesOf(p) :
               \E c \in MappedConvs : plan.line = Lineage(c) /\ Len(plan.line) >= 2
<1>1. Authored(p) \subseteq Msgs /\ Authored(p) \subseteq 1 .. recorded
  BY SessionsAssumption DEF Authored, Msgs, Typed, Contents
<1>2. ASSUME NEW plan \in LineagesOf(p)
      PROVE  /\ plan \in Plans
             /\ \E c \in MappedConvs : plan.line = Lineage(c) /\ Len(plan.line) >= 2
  <2>1. PICK c \in MappedConvs :
           /\ plan = [line |-> Lineage(c), strip |-> Authored(p)]
           /\ Len(Lineage(c)) > 1
    BY <1>2 DEF LineagesOf
  <2>2. c \in ConvIds
    BY DEF MappedConvs, Typed, Contents
  <2>3. Lineage(c) \in Seq(ConvIds)
    BY <2>2, LineageClimbs DEF Climbs
  <2> QED BY <1>1, <2>1, <2>3 DEF Plans
<1> QED BY <1>1, <1>2

LEMMA EraseTakes ==
  ASSUME Typed, NEW w \in Workers, NEW p \in People, Erase(w, p)
  PROVE  /\ Deletes(DirectConversationsOf(p))
         /\ mapped' = [ch \in Channels |-> IF mapped[ch] \in DirectConversationsOf(p)
                                           THEN None ELSE mapped[ch]]
         /\ Operations'
         /\ op'[w].do \in {"idle", "erase"} /\ op'[w].made = <<>> /\ op'[w].temp = None
         /\ op'[w].plans = LineagesOf(p)
         /\ op[w].do = "idle"
         /\ \A v \in Workers \ {w} : op'[v] = op[v]
         /\ nulled' = nulled \cup Authored(p)
         /\ UNCHANGED <<recorded, author, served, residual>>
<1> USE DEF Typed
<1>1. Takes(w, Rest(LineagesOf(p)))
  BY DEF Erase, Takes, Rest
<1>2. LineagesOf(p) \in SUBSET Plans /\ \A plan \in LineagesOf(p) : Len(plan.line) >= 2
  BY LineagesTyped
<1>3. /\ Operations' /\ op'[w] = Rest(LineagesOf(p))
      /\ \A v \in Workers \ {w} : op'[v] = op[v]
  BY <1>1, <1>2, RestIs, OpTakes
<1> QED BY <1>2, <1>3, RestIs DEF Erase

LEMMA EraseTyped ==
  ASSUME Typed, NEW w \in Workers, NEW p \in People, Erase(w, p)
  PROVE  Typed'
<1> USE DEF Typed
<1>1. /\ StoreTypeOK' /\ ledger' \in [ConvIds -> SUBSET Msgs]
      /\ digest' \in [ConvIds -> SUBSET Msgs]
  BY EraseTakes, DeletesTyped
<1>2. mapped' \in [Channels -> ConvIds \cup {None}]
  BY EraseTakes DEF Contents
<1>3. nulled' \subseteq 1 .. recorded
  BY EraseTakes, LineagesTyped DEF Contents
<1> QED BY <1>1, <1>2, <1>3, EraseTakes DEF Contents

LEMMA EraseScrubsNextTakes ==
  ASSUME Typed, NEW w \in Workers, EraseScrubsNext(w)
  PROVE  /\ Operations'
         /\ op[w].do = "erase"
         /\ op'[w].do = "scrub" /\ op'[w].made = <<>> /\ op'[w].temp = None
         /\ op'[w].plans \subseteq op[w].plans
         /\ \E plan \in op[w].plans : op'[w].line = plan.line
         /\ \A v \in Workers \ {w} : op'[v] = op[v]
         /\ UNCHANGED <<storeVars, content, mapped, served, residual>>
<1> USE DEF Typed
<1>1. PICK plan \in op[w].plans : Takes(w, ScrubsNext(w, plan))
  BY DEF EraseScrubsNext, Takes, ScrubsNext
<1>2. op[w].do = "erase" /\ UNCHANGED <<storeVars, content, mapped, served, residual>>
  BY DEF EraseScrubsNext
<1> DEFINE r == ScrubsNext(w, plan)
<1>3. /\ r \in OpRecord /\ Shaped(r)
      /\ r.do = "scrub" /\ r.made = <<>> /\ r.temp = None
      /\ r.plans = op[w].plans \ {plan} /\ r.line = plan.line
  BY <1>2, ScrubsNextIs
<1> HIDE DEF r
<1>4. Operations' /\ op'[w] = r /\ \A v \in Workers \ {w} : op'[v] = op[v]
  BY <1>1, <1>3, OpTakes DEF r
<1> QED BY <1>2, <1>3, <1>4

LEMMA EraseScrubsNextTyped ==
  ASSUME Typed, NEW w \in Workers, EraseScrubsNext(w)
  PROVE  Typed'
<1>1. Operations' /\ UNCHANGED <<storeVars, content, mapped, served, residual>>
  BY EraseScrubsNextTakes
<1>2. StoreTypeOK'
  BY <1>1 DEF Typed, StoreTypeOK, storeVars
<1> QED BY <1>1, <1>2 DEF Typed, Contents, content

LEMMA ExpireTyped ==
  ASSUME Typed, NEW c \in ConvIds, Expire(c)
  PROVE  Typed'
<1> USE DEF Typed
<1>1. Deletes({c}) /\ UNCHANGED <<recorded, author, nulled, op, served, residual>>
  BY DEF Expire
<1>2. mapped' = [ch \in Channels |-> IF mapped[ch] = c THEN None ELSE mapped[ch]]
  BY DEF Expire
<1>3. mapped' \in [Channels -> ConvIds \cup {None}]
  BY <1>2 DEF Contents
<1> QED BY <1>1, <1>3, DeletesTyped, OpStands DEF Contents

\* Every operation is given up.
LEMMA AllIdle ==
  ASSUME Operations, ProcessEnds
  PROVE  /\ Operations'
         /\ \A w \in Workers : op'[w] = Idle
         /\ residual \subseteq Msgs => residual' \subseteq Msgs
<1>1. op' = [w \in Workers |-> Idle]
  BY DEF ProcessEnds
<1>2. Operations'
  BY <1>1, IdleIs DEF Operations, Shaped
<1>3. residual \subseteq Msgs => residual' \subseteq Msgs
  <2>1. \A w \in Workers : op[w].strip \subseteq Msgs
    BY Reads
  <2>2. \A w \in Workers : \A plan \in op[w].plans : plan.strip \subseteq Msgs
    BY Reads
  <2>3. UNION {op[w].strip : w \in Workers} \subseteq Msgs
    BY <2>1
  <2>4. UNION {UNION {plan.strip : plan \in op[w].plans} : w \in Workers} \subseteq Msgs
    <3>1. \A w \in Workers : UNION {plan.strip : plan \in op[w].plans} \subseteq Msgs
      BY <2>2
    <3> QED BY <3>1
  <2> QED BY <2>3, <2>4 DEF ProcessEnds
<1> QED BY <1>1, <1>2, <1>3

LEMMA CrashTyped ==
  ASSUME Typed, Crash
  PROVE  Typed'
<1>1. ProcessEnds /\ UNCHANGED <<storeVars, content, mapped, served>>
  BY DEF Crash
<1>2. StoreTypeOK'
  BY <1>1 DEF Typed, StoreTypeOK, storeVars
<1> QED BY <1>1, <1>2, AllIdle DEF Typed, Contents, content

\* The thread a torn swap opens, and the step that tore.
Torn(w, ch, c, o) ==
    \/ op[w].do = "install" /\ mapped[ch] = op[w].line[1] /\ o = CompactedThread(w)
    \/ op[w].do = "strip" /\ mapped[ch] = Serving(w) /\ o = Clone(Serving(w), op[w].strip)
    \/ /\ op[w].do = "digest" /\ NextHop(w) = Serving(w) /\ mapped[ch] = Serving(w)
       /\ o = Rebuilt(w, Serving(w))

LEMMA SwapTornTakes ==
  ASSUME Typed, NEW w \in Workers, NEW ch \in Channels, SwapTorn(w, ch)
  PROVE  /\ \E c \in ConvIds, o \in Opening : Torn(w, ch, c, o) /\ Opens(c, o, {})
         /\ mapped' = [mapped EXCEPT ![ch] = None]
         /\ ProcessEnds
         /\ UNCHANGED <<recorded, author, nulled, served>>
<1>1. PICK c \in ConvIds :
          \/ /\ op[w].do = "install" /\ mapped[ch] = op[w].line[1]
             /\ Opens(c, CompactedThread(w), {})
          \/ /\ op[w].do = "strip" /\ mapped[ch] = Serving(w)
             /\ Opens(c, Clone(Serving(w), op[w].strip), {})
          \/ /\ op[w].do = "digest" /\ NextHop(w) = Serving(w) /\ mapped[ch] = Serving(w)
             /\ Opens(c, Rebuilt(w, Serving(w)), {})
  BY DEF SwapTorn
<1>2. \E o \in Opening : Torn(w, ch, c, o) /\ Opens(c, o, {})
  <2>1. ASSUME op[w].do = "install" PROVE CompactedThread(w) \in Opening
    BY <2>1, CompactedThreadTyped
  <2>2. ASSUME op[w].do \in {"strip", "digest"}
        PROVE  Serving(w) \in ConvIds /\ op[w].strip \in SUBSET Msgs
    BY <2>2, Reads DEF Typed, Shaped
  <2>3. ASSUME op[w].do = "strip" PROVE Clone(Serving(w), op[w].strip) \in Opening
    BY <2>2, <2>3, Openings DEF Typed
  <2>4. ASSUME op[w].do = "digest" PROVE Rebuilt(w, Serving(w)) \in Opening
    BY <2>2, <2>4, RebuiltTyped
  <2> QED BY <1>1, <2>1, <2>3, <2>4 DEF Torn
<1> QED BY <1>2 DEF SwapTorn

LEMMA SwapTornTyped ==
  ASSUME Typed, NEW w \in Workers, NEW ch \in Channels, SwapTorn(w, ch)
  PROVE  Typed'
<1> USE DEF Typed
<1>1. PICK c \in ConvIds, o \in Opening : Opens(c, o, {})
  BY SwapTornTakes
<1>2. /\ StoreTypeOK' /\ ledger' \in [ConvIds -> SUBSET Msgs]
      /\ digest' \in [ConvIds -> SUBSET Msgs]
  BY <1>1, OpensTyped
<1>3. mapped' \in [Channels -> ConvIds \cup {None}]
  BY SwapTornTakes DEF Contents
<1> QED BY <1>2, <1>3, SwapTornTakes, AllIdle DEF Contents

LEMMA InitTyped == Init => Typed
<1> SUFFICES ASSUME Init PROVE Typed
  OBVIOUS
<1>1. StoreTypeOK
  BY StoreAssumption, InitIInv DEF Init, IInv
<1>2. Contents
  BY SessionsAssumption DEF Init, Contents, None
<1>3. Operations
  BY IdleIs DEF Init, Operations
<1> QED BY <1>1, <1>2, <1>3 DEF Typed

LEMMA NextTyped == Typed /\ [Next]_vars => Typed'
<1> SUFFICES ASSUME Typed, [Next]_vars PROVE Typed'
  OBVIOUS
<1>1. ASSUME NEW w \in Workers, Starts(w) PROVE Typed'
  BY <1>1, CompactTyped, StripTyped, EraseTyped DEF Starts
<1>2. ASSUME NEW w \in Workers, Proceeds(w) PROVE Typed'
  BY <1>2, CaptureTyped, InstallCompactedTyped, CloneTyped, EraseScrubsNextTyped,
     ScrubBeginsTyped, ScrubEndsTyped, RegenerateForkTyped, RegenerateReadTyped,
     RebuildHopTyped, InstallScrubbedTyped
  DEF Proceeds
<1>3. CASE UNCHANGED vars
  <2>1. UNCHANGED <<storeVars, content, mapped, op, served, residual>>
    BY <1>3 DEF vars
  <2>2. StoreTypeOK'
    BY <2>1 DEF Typed, StoreTypeOK, storeVars
  <2> QED BY <2>1, <2>2, OpStands DEF Typed, Contents, content
<1> QED BY <1>1, <1>2, <1>3, MessagesTyped, ExpireTyped, CrashTyped, SwapTornTyped DEF Next

(* Whatever is asked, and whatever fails, each variable has its type and what *)
(* a worker holds fits the stage it is at (session.rs, erasure.rs).           *)
THEOREM SessionsInvariant == Spec => []Typed
  BY InitTyped, NextTyped, PTL DEF Spec

\* The sessions' type invariant, for all that may happen.
THEOREM SessionsTypeCorrect == Spec => []TypeOK
  BY SessionsInvariant, TypedIsTypeOK, PTL

-----------------------------------------------------------------------------
(* The sessions use the store's ids as ConversationStore describes.          *)
(*                                                                           *)
(* The hard step is a scrub's: it reads a lineage, rebuilds it conversation  *)
(* by conversation outside the holds, names each clone by the id and the     *)
(* birth it remembers, and deletes the whole old lineage by id at the end.   *)
(* Nothing else may delete those clones, and no id of the lineage may have   *)
(* been issued to anyone else since.  Three facts carry it: what a worker    *)
(* made is alive, unmapped and its own; a lineage's ids below its serving    *)
(* thread stay below a conversation that stands, so the store issues none of *)
(* them again; and a conversation another one continues is unmapped.         *)

WorkingOf(r) == Range(r.made) \cup ({r.temp} \ {None})

LinesOf(r) ==
    {plan.line : plan \in r.plans}
        \cup (IF r.do \in {"scrub", "fork", "digest"} THEN {r.line} ELSE {})

\* Conversation u is nobody's to delete but a scrub's that replaces it.
Stands(u) ==
    /\ u \in Live /\ u \notin MappedConvs
    /\ \A w \in Workers : u \notin WorkingOf(op[w])

\* A lineage that was read and not rebuilt yet.
LineSound(line) ==
    /\ line \in Seq(ConvIds) /\ Len(line) >= 2
    /\ line[Len(line) - 1] < line[Len(line)]
    /\ \A i \in 1 .. Len(line) - 1 :
          /\ line[i] <= line[Len(line) - 1] /\ line[i] \notin MappedConvs
          /\ \A w \in Workers : line[i] \notin WorkingOf(op[w])
    /\ \E u \in ConvIds : Stands(u) /\ line[Len(line) - 1] <= u

\* The clones of a scrub were made after its serving thread, and the last one
\* is the one it remembers.
ClonesHeld(w) ==
    op[w].do \in {"fork", "digest"} =>
        /\ born[Made(w)] = op[w].birth
        /\ \A c \in Range(op[w].made) : Serving(w) < c

FreeNameNothing == \A c \in ConvIds : c \notin Live => parent[c] = None /\ parentBirth[c] = None

MappedApart ==
    /\ \A ch \in Channels : mapped[ch] # None => mapped[ch] \in Live
    /\ \A a, b \in Channels : mapped[a] = mapped[b] /\ mapped[a] # None => a = b

WorkingApart ==
    \A w \in Workers : \A c \in WorkingOf(op[w]) :
        /\ c \in Live /\ c \notin MappedConvs
        /\ \A v \in Workers : c \in WorkingOf(op[v]) => v = w

TempApart == \A w \in Workers : op[w].temp \notin Range(op[w].made)

LinesSound == \A w \in Workers : \A line \in LinesOf(op[w]) : LineSound(line)

ParentsStand ==
    \A c \in Live : parent[c] # None =>
        /\ parent[c] \notin MappedConvs
        /\ \A w \in Workers : parent[c] \in WorkingOf(op[w]) => c \in WorkingOf(op[w])

Orderly ==
    /\ Typed /\ PointsBelow /\ NeverAStranger /\ FreeNameNothing
    /\ MappedApart /\ WorkingApart /\ TempApart /\ LinesSound /\ ParentsStand
    /\ \A w \in Workers : ClonesHeld(w)

-----------------------------------------------------------------------------
(* One step, as far as the invariant sees it: the ids created, at most one,  *)
(* and the ids deleted.                                                      *)

StoreMoves(created, gone) ==
    /\ created \subseteq ConvIds
    /\ \A c, d \in created : c = d
    /\ \A c \in created : \A d \in Live : d < c
    /\ \A d \in ConvIds : d \in Live' <=> d \in created \/ (d \in Live /\ d \notin gone)
    /\ \A d \in ConvIds : d \notin created /\ d \notin gone =>
          born'[d] = born[d] /\ parent'[d] = parent[d]
    /\ PointsBelow' /\ NeverAStranger' /\ FreeNameNothing'

\* A channel stays where it is, unless that is deleted; or it is unmapped; or
\* one channel takes what was created.
MapMoves(created, gone) ==
    /\ \A ch \in Channels :
          \/ mapped'[ch] = None
          \/ mapped'[ch] \in created
          \/ mapped'[ch] = mapped[ch] /\ mapped[ch] \notin gone
    /\ \A a, b \in Channels : mapped'[a] \in created /\ mapped'[b] \in created => a = b

\* A worker keeps what it made, or gives all of it up.
WorkMoves(created, gone) ==
    \A w \in Workers :
        /\ \A c \in WorkingOf(op'[w]) :
              \/ c \in created /\ c \notin MappedConvs'
              \/ c \in WorkingOf(op[w]) /\ c \notin gone
        /\ \/ WorkingOf(op'[w]) = {}
           \/ \A c \in WorkingOf(op[w]) : c \notin gone => c \in WorkingOf(op'[w])
        /\ \A c \in created : c \in WorkingOf(op'[w]) =>
              \A v \in Workers : c \in WorkingOf(op'[v]) => v = w

LinesMove == \A w \in Workers : \A line \in LinesOf(op'[w]) : LineSound(line)

ClonesMove(gone) ==
    \A w \in Workers :
        \/ ClonesHeld(w)'
        \/ op'[w] = op[w] /\ \A c \in WorkingOf(op[w]) : c \notin gone

\* What stood and is deleted has a later stand-in.
Replaced(gone) ==
    \A u \in ConvIds : Stands(u) /\ u \in gone => \E v \in ConvIds : Stands(v)' /\ u <= v

ParentsMove(created) ==
    \A c \in created : parent'[c] # None =>
        /\ parent'[c] \notin MappedConvs'
        /\ \A w \in Workers : parent'[c] \in WorkingOf(op'[w]) => c \in WorkingOf(op'[w])


LEMMA StandsStill ==
  ASSUME NEW created, NEW gone, NEW u \in ConvIds, Orderly, StoreMoves(created, gone),
         MapMoves(created, gone), WorkMoves(created, gone), Stands(u), u \notin gone
  PROVE  Stands(u)'
<1>1. u \in Live' /\ u \notin created
  <2>1. u \in Live
    BY DEF Stands
  <2>2. ~(u < u)
    BY DEF ConvIds
  <2> QED BY <2>1, <2>2 DEF StoreMoves
<1>2. u \notin MappedConvs'
  <2>1. \A ch \in Channels : mapped[ch] # u \/ u = None
    BY DEF Stands, MappedConvs
  <2>2. \A ch \in Channels : mapped'[ch] # u \/ u = None
    BY <1>1, <2>1 DEF MapMoves
  <2> QED BY <2>2 DEF MappedConvs
<1>3. \A w \in Workers : u \notin WorkingOf(op'[w])
  BY <1>1 DEF WorkMoves, Stands
<1> QED BY <1>1, <1>2, <1>3 DEF Stands

LEMMA LineStaysSound ==
  ASSUME NEW created, NEW gone, NEW line, Orderly, StoreMoves(created, gone),
         MapMoves(created, gone), WorkMoves(created, gone), Replaced(gone),
         LineSound(line)
  PROVE  LineSound(line)'
<1>1. PICK u \in ConvIds : Stands(u) /\ line[Len(line) - 1] <= u
  BY DEF LineSound
<1>2. line \in Seq(ConvIds) /\ Len(line) \in Nat /\ Len(line) >= 2
  BY DEF LineSound
<1>3. \A i \in 1 .. Len(line) - 1 : line[i] \in ConvIds /\ line[i] \in Nat
  BY <1>2, StoreAssumption DEF ConvIds
<1>4. Len(line) - 1 \in 1 .. Len(line) - 1
  BY <1>2
<1>5. \E v \in ConvIds : Stands(v)' /\ line[Len(line) - 1] <= v
  <2>1. CASE u \in gone
    <3>1. PICK v \in ConvIds : Stands(v)' /\ u <= v
      BY <1>1, <2>1 DEF Replaced
    <3>2. line[Len(line) - 1] <= v
      BY <1>1, <1>3, <1>4, <3>1, StoreAssumption DEF ConvIds
    <3> QED BY <3>1, <3>2
  <2>2. CASE u \notin gone
    BY <1>1, <2>2, StandsStill
  <2> QED BY <2>1, <2>2
<1>9. ASSUME NEW i \in 1 .. Len(line) - 1, line[i] \in created PROVE FALSE
  <2>1. line[i] <= line[Len(line) - 1]
    BY <1>9 DEF LineSound
  <2>2. u < line[i]
    BY <1>1, <1>9 DEF Stands, StoreMoves
  <2> QED BY <1>1, <1>3, <1>4, <2>1, <2>2, StoreAssumption DEF ConvIds
<1>6. ASSUME NEW i \in 1 .. Len(line) - 1, NEW w \in Workers
      PROVE  line[i] \notin WorkingOf(op'[w])
  <2>1. line[i] \notin WorkingOf(op[w])
    BY <1>6 DEF LineSound
  <2> QED BY <2>1, <1>9 DEF WorkMoves
<1>10. ASSUME NEW i \in 1 .. Len(line) - 1 PROVE line[i] \notin MappedConvs'
  <2>1. line[i] \notin MappedConvs
    BY DEF LineSound
  <2> QED BY <2>1, <1>9 DEF MapMoves, MappedConvs
<1>7. line[Len(line) - 1] < line[Len(line)]
      /\ \A i \in 1 .. Len(line) - 1 : line[i] <= line[Len(line) - 1]
  BY DEF LineSound
<1> QED BY <1>2, <1>5, <1>6, <1>7, <1>10 DEF LineSound

LEMMA OrderKeeps ==
  ASSUME NEW created, NEW gone, Orderly, Typed', TempApart', StoreMoves(created, gone),
         MapMoves(created, gone), WorkMoves(created, gone), LinesMove,
         ClonesMove(gone), Replaced(gone), ParentsMove(created)
  PROVE  Orderly'
<1>0. /\ Typed /\ MappedApart /\ WorkingApart /\ ParentsStand /\ PointsBelow
      /\ \A w \in Workers : ClonesHeld(w)
  BY DEF Orderly
<1>1. \A c \in created : c \notin Live
  <2>1. \A c \in created : ~(c < c)
    BY DEF StoreMoves, ConvIds
  <2> QED BY <2>1 DEF StoreMoves
<1>2. MappedApart'
  <2>1. ASSUME NEW ch \in Channels, mapped'[ch] # None PROVE mapped'[ch] \in Live'
    <3>1. CASE mapped'[ch] \in created
      BY <3>1 DEF StoreMoves
    <3>2. CASE mapped'[ch] = mapped[ch] /\ mapped[ch] \notin gone
      <4>1. mapped[ch] \in Live /\ mapped[ch] \in ConvIds
        BY <1>0, <2>1, <3>2 DEF MappedApart, Live
      <4> QED BY <3>2, <4>1 DEF StoreMoves
    <3> QED BY <2>1, <3>1, <3>2 DEF MapMoves
  <2>2. ASSUME NEW a \in Channels, NEW b \in Channels, mapped'[a] = mapped'[b],
               mapped'[a] # None
        PROVE  a = b
    <3>1. CASE mapped'[a] \in created
      BY <2>2, <3>1 DEF MapMoves
    <3>2. CASE mapped'[a] \notin created
      BY <2>2, <3>2, <1>0 DEF MapMoves, MappedApart
    <3> QED BY <3>1, <3>2
  <2> QED BY <2>1, <2>2 DEF MappedApart
<1>3. ASSUME NEW c, c \in Live PROVE c \in MappedConvs' => c \in MappedConvs
  BY <1>1, <1>3 DEF MapMoves, MappedConvs
<1>4. WorkingApart'
  <2>1. ASSUME NEW w \in Workers, NEW c \in WorkingOf(op'[w])
        PROVE  /\ c \in Live' /\ c \notin MappedConvs'
               /\ \A v \in Workers : c \in WorkingOf(op'[v]) => v = w
    <3>1. CASE c \in created
      BY <1>1, <1>0, <2>1, <3>1 DEF WorkMoves, StoreMoves, WorkingApart
    <3>2. CASE c \notin created
      <4>1. c \in WorkingOf(op[w]) /\ c \notin gone
        BY <2>1, <3>2 DEF WorkMoves
      <4>2. c \in Live /\ c \notin MappedConvs /\ c \in ConvIds
            /\ \A v \in Workers : c \in WorkingOf(op[v]) => v = w
        BY <1>0, <4>1 DEF WorkingApart, Live
      <4>3. c \in Live' /\ c \notin MappedConvs'
        BY <1>3, <4>1, <4>2 DEF StoreMoves
      <4>4. \A v \in Workers : c \in WorkingOf(op'[v]) => c \in WorkingOf(op[v])
        BY <3>2 DEF WorkMoves
      <4> QED BY <4>2, <4>3, <4>4
    <3> QED BY <3>1, <3>2
  <2> QED BY <2>1 DEF WorkingApart
<1>5. LinesSound'
  <2>1. ASSUME NEW w \in Workers, NEW line \in LinesOf(op'[w]) PROVE LineSound(line)'
    <3>1. LineSound(line)
      BY <2>1 DEF LinesMove
    <3> QED BY <3>1, LineStaysSound
  <2> QED BY <2>1 DEF LinesSound
<1>6. ParentsStand'
  <2>1. ASSUME NEW c \in Live', parent'[c] # None
        PROVE  /\ parent'[c] \notin MappedConvs'
               /\ \A w \in Workers : parent'[c] \in WorkingOf(op'[w]) => c \in WorkingOf(op'[w])
    <3>1. CASE c \in created
      BY <2>1, <3>1 DEF ParentsMove
    <3>2. CASE c \notin created
      <4>1. c \in ConvIds /\ c \in Live /\ c \notin gone /\ parent'[c] = parent[c]
        BY <3>2 DEF StoreMoves, Live
      <4>2. parent[c] \in ConvIds /\ parent[c] < c
        BY <1>0, <2>1, <4>1 DEF PointsBelow, Typed, StoreTypeOK
      <4>3. parent[c] \notin created
        <5>1. SUFFICES ASSUME parent[c] \in created PROVE FALSE
          OBVIOUS
        <5>2. c < parent[c]
          BY <4>1, <5>1 DEF StoreMoves
        <5> QED BY <4>1, <4>2, <5>2 DEF ConvIds
      <4>4. parent[c] \notin MappedConvs
        BY <1>0, <2>1, <4>1 DEF ParentsStand
      <4>5. parent'[c] \notin MappedConvs'
        BY <2>1, <4>1, <4>3, <4>4 DEF MapMoves, MappedConvs
      <4>6. ASSUME NEW w \in Workers, parent[c] \in WorkingOf(op'[w])
            PROVE  c \in WorkingOf(op'[w])
        <5>1. parent[c] \in WorkingOf(op[w])
          BY <4>3, <4>6 DEF WorkMoves
        <5>2. c \in WorkingOf(op[w])
          BY <1>0, <2>1, <4>1, <5>1 DEF ParentsStand
        <5>3. WorkingOf(op'[w]) # {}
          BY <4>6
        <5> QED BY <4>1, <5>2, <5>3 DEF WorkMoves
      <4> QED BY <4>1, <4>5, <4>6
    <3> QED BY <3>1, <3>2
  <2> QED BY <2>1 DEF ParentsStand
<1>7. ASSUME NEW w \in Workers PROVE ClonesHeld(w)'
  <2>1. SUFFICES ASSUME op'[w] = op[w], \A c \in WorkingOf(op[w]) : c \notin gone
                 PROVE  ClonesHeld(w)'
    BY DEF ClonesMove
  <2>2. SUFFICES ASSUME op[w].do \in {"fork", "digest"}
                 PROVE  born'[Made(w)] = op[w].birth
    <3>1. Made(w)' = Made(w) /\ Serving(w)' = Serving(w)
      BY <2>1 DEF Made, Serving
    <3> QED BY <1>0, <2>1, <3>1 DEF ClonesHeld
  <2>3. Made(w) \in WorkingOf(op[w])
    <3>1. op[w] \in OpRecord /\ Shaped(op[w])
      BY <1>0, Reads DEF Typed
    <3>2. op[w].made \in Seq(ConvIds) /\ Len(op[w].made) >= 1
      BY <2>2, <3>1 DEF OpRecord, Shaped
    <3>3. Len(op[w].made) \in DOMAIN op[w].made
      BY <3>2
    <3> QED BY <3>3 DEF Made, WorkingOf, Range
  <2>4. Made(w) \in Live /\ Made(w) \in ConvIds
    BY <1>0, <2>3 DEF WorkingApart, Live
  <2>5. born'[Made(w)] = born[Made(w)]
    BY <1>1, <2>1, <2>3, <2>4 DEF StoreMoves
  <2> QED BY <1>0, <2>2, <2>5 DEF ClonesHeld
<1>8. PointsBelow' /\ NeverAStranger' /\ FreeNameNothing'
  BY DEF StoreMoves
<1> QED BY <1>2, <1>4, <1>5, <1>6, <1>7, <1>8 DEF Orderly

-----------------------------------------------------------------------------
(* What the store's operations do.                                           *)

RefOf(o) == [conv |-> o.parent, birth |-> o.birth]

LEMMA OpensMoves ==
  ASSUME Orderly, NEW c \in ConvIds, NEW o \in Opening, RefOf(o) \in References, NEW gone,
         Opens(c, o, gone)
  PROVE  /\ StoreMoves({c}, gone) /\ StoreNext
         /\ c \notin Live
         /\ born'[c] = births + 1 /\ parent'[c] = o.parent
<1>0. /\ StoreTypeOK /\ FreeNameNothing /\ IInv
  BY DEF Orderly, Typed, IInv
<1>1. OpenedAndDropped(c, RefOf(o), gone)
  BY DEF Opens, RefOf
<1>2. \A d \in Live : d < c
  BY <1>1 DEF OpenedAndDropped, NextConv
<1>3. c \notin Live
  <2>1. ~(c < c)
    BY DEF ConvIds
  <2> QED BY <1>2, <2>1
<1> DEFINE alive == gone \cap Live
<1>4. OpenedAndDropped(c, RefOf(o), alive)
  <2>1. \A d \in ConvIds : d \notin Live =>
           born[d] = None /\ parent[d] = None /\ parentBirth[d] = None
    BY <1>0 DEF FreeNameNothing, Live
  <2>2. born' = [d \in ConvIds |-> IF d = c THEN births + 1
                                   ELSE IF d \in alive THEN None ELSE born[d]]
    <3>1. born' = [d \in ConvIds |-> IF d = c THEN births + 1
                                     ELSE IF d \in gone THEN None ELSE born[d]]
      BY <1>1 DEF OpenedAndDropped
    <3> QED BY <2>1, <3>1
  <2>3. parent' = [d \in ConvIds |-> IF d = c THEN RefOf(o).conv
                                     ELSE IF d \in alive THEN None ELSE parent[d]]
    <3>1. parent' = [d \in ConvIds |-> IF d = c THEN RefOf(o).conv
                                       ELSE IF d \in gone THEN None ELSE parent[d]]
      BY <1>1 DEF OpenedAndDropped
    <3> QED BY <2>1, <3>1
  <2>4. parentBirth' = [d \in ConvIds |-> IF d = c THEN RefOf(o).birth
                                     ELSE IF d \in alive THEN None ELSE parentBirth[d]]
    <3>1. parentBirth' = [d \in ConvIds |-> IF d = c THEN RefOf(o).birth
                                       ELSE IF d \in gone THEN None ELSE parentBirth[d]]
      BY <1>1 DEF OpenedAndDropped
    <3> QED BY <2>1, <3>1
  <2> HIDE DEF alive
  <2> QED BY <1>1, <2>2, <2>3, <2>4 DEF OpenedAndDropped
<1>5. StoreNext
  <2>1. alive \in SUBSET Live
    OBVIOUS
  <2> HIDE DEF alive
  <2> QED BY <1>4, <2>1 DEF StoreNext
<1>6. IInv'
  <2>1. alive \in SUBSET Live
    OBVIOUS
  <2> HIDE DEF alive
  <2> QED BY <1>0, <1>4, <2>1, OpenedKeeps
<1>7. born'[c] = births + 1 /\ parent'[c] = o.parent
  BY <1>1 DEF OpenedAndDropped, RefOf
<1>8. births + 1 # None /\ births \in Nat
  BY <1>0, StoreAssumption DEF StoreTypeOK, None
<1>9. \A d \in ConvIds : d # c =>
        /\ born'[d] = IF d \in gone THEN None ELSE born[d]
        /\ parent'[d] = IF d \in gone THEN None ELSE parent[d]
        /\ parentBirth'[d] = IF d \in gone THEN None ELSE parentBirth[d]
  BY <1>1 DEF OpenedAndDropped
<1>10. \A d \in ConvIds : d \in Live' <=> d = c \/ (d \in Live /\ d \notin gone)
  BY <1>3, <1>7, <1>8, <1>9 DEF Live
<1>11. FreeNameNothing'
  BY <1>0, <1>9, <1>10 DEF FreeNameNothing, Live
<1>12. StoreMoves({c}, gone)
  BY <1>2, <1>6, <1>9, <1>10, <1>11 DEF StoreMoves, IInv
<1> QED BY <1>3, <1>5, <1>7, <1>12

LEMMA DeletesMoves ==
  ASSUME Orderly, NEW gone, Deletes(gone)
  PROVE  StoreMoves({}, gone) /\ StoreNext
<1>0. /\ StoreTypeOK /\ FreeNameNothing /\ IInv
  BY DEF Orderly, Typed, IInv
<1>1. Dropped(gone)
  BY DEF Deletes
<1> DEFINE alive == gone \cap Live
<1>2. Dropped(alive)
  <2>1. \A d \in ConvIds : d \notin Live =>
           born[d] = None /\ parent[d] = None /\ parentBirth[d] = None
    BY <1>0 DEF FreeNameNothing, Live
  <2>2. born' = [d \in ConvIds |-> IF d \in alive THEN None ELSE born[d]]
    BY <1>1, <2>1 DEF Dropped
  <2>3. parent' = [d \in ConvIds |-> IF d \in alive THEN None ELSE parent[d]]
    BY <1>1, <2>1 DEF Dropped
  <2>4. parentBirth' = [d \in ConvIds |-> IF d \in alive THEN None ELSE parentBirth[d]]
    BY <1>1, <2>1 DEF Dropped
  <2> HIDE DEF alive
  <2> QED BY <1>1, <2>2, <2>3, <2>4 DEF Dropped
<1>3. alive \in SUBSET Live
  OBVIOUS
<1> HIDE DEF alive
<1>4. StoreNext
  BY <1>2, <1>3 DEF StoreNext
<1>5. IInv'
  BY <1>0, <1>2, <1>3, DroppedKeeps
<1>6. \A d \in ConvIds :
        /\ born'[d] = IF d \in gone THEN None ELSE born[d]
        /\ parent'[d] = IF d \in gone THEN None ELSE parent[d]
        /\ parentBirth'[d] = IF d \in gone THEN None ELSE parentBirth[d]
  BY <1>1 DEF Dropped
<1>7. \A d \in ConvIds : d \in Live' <=> d \in Live /\ d \notin gone
  BY <1>6 DEF Live
<1>8. FreeNameNothing'
  BY <1>0, <1>6, <1>7 DEF FreeNameNothing, Live
<1>9. StoreMoves({}, gone)
  BY <1>5, <1>6, <1>7, <1>8 DEF StoreMoves, IInv
<1> QED BY <1>4, <1>9

LEMMA StoreRests ==
  ASSUME Orderly, UNCHANGED storeVars
  PROVE  StoreMoves({}, {})
<1>1. /\ born' = born /\ births' = births /\ parent' = parent /\ parentBirth' = parentBirth
  BY DEF storeVars
<1>2. PointsBelow /\ NeverAStranger /\ FreeNameNothing
  BY DEF Orderly
<1>3. Live' = Live
  BY <1>1 DEF Live
<1>4. PointsBelow' /\ NeverAStranger' /\ FreeNameNothing'
  BY <1>1, <1>2, <1>3 DEF PointsBelow, NeverAStranger, FreeNameNothing
<1> QED BY <1>1, <1>3, <1>4 DEF StoreMoves

\* What an opening may name.
LEMMA References1 ==
  ASSUME Orderly
  PROVE  /\ RefOf(Blank) \in References
         /\ \A strip : \A s \in ConvIds : RefOf(Clone(s, strip)) \in References
         /\ \A hop : \A s \in ConvIds : RefOf(Span(s, hop)) \in References
<1>1. \A s \in ConvIds : s \notin Live => parent[s] = None /\ parentBirth[s] = None
  BY DEF Orderly, FreeNameNothing
<1>2. RefOf(Blank) \in References
  BY DEF RefOf, Blank, References
<1>3. \A s \in ConvIds : [conv |-> parent[s], birth |-> parentBirth[s]] \in References
  BY <1>1 DEF References
<1>4. \A strip : \A s \in ConvIds : RefOf(Clone(s, strip)) \in References
  BY <1>3 DEF RefOf, Clone
<1>5. \A hop : \A s \in ConvIds : RefOf(Span(s, hop)) \in References
  BY <1>3 DEF RefOf, Span
<1> QED BY <1>2, <1>4, <1>5

LEMMA LiveReference ==
  ASSUME NEW o, NEW d \in Live, o.parent = d, o.birth = born[d]
  PROVE  RefOf(o) \in References
  BY DEF RefOf, References

\* A conversation that is not a worker's names none that is.
LEMMA ParentFree ==
  ASSUME Orderly, NEW s \in ConvIds, parent[s] # None
  PROVE  /\ parent[s] \notin MappedConvs
         /\ \A w \in Workers : parent[s] \in WorkingOf(op[w]) => s \in WorkingOf(op[w])
  BY DEF Orderly, ParentsStand, FreeNameNothing

-----------------------------------------------------------------------------
(* What a step must show, by who takes it.                                   *)

LEMMA WorkerSteps ==
  ASSUME Orderly, Typed', NEW w \in Workers, NEW created, NEW gone,
         StoreMoves(created, gone), MapMoves(created, gone),
         \A v \in Workers \ {w} : op'[v] = op[v],
         \A v \in Workers \ {w} : \A c \in WorkingOf(op[v]) : c \notin gone,
         op'[w].temp \notin Range(op'[w].made),
         \A c \in WorkingOf(op'[w]) :
             \/ c \in created /\ c \notin MappedConvs'
             \/ c \in WorkingOf(op[w]) /\ c \notin gone,
         \/ WorkingOf(op'[w]) = {}
         \/ \A c \in WorkingOf(op[w]) : c \notin gone => c \in WorkingOf(op'[w]),
         \A line \in LinesOf(op'[w]) : LineSound(line),
         ClonesHeld(w)', Replaced(gone), ParentsMove(created)
  PROVE  Orderly'
<1>1. WorkingApart /\ LinesSound /\ TempApart
  BY DEF Orderly
<1>2. \A c \in created : c \notin Live
  <2>1. \A c \in created : ~(c < c)
    BY DEF StoreMoves, ConvIds
  <2> QED BY <2>1 DEF StoreMoves
<1>3. WorkMoves(created, gone)
  <2>1. ASSUME NEW v \in Workers
        PROVE  /\ \A c \in WorkingOf(op'[v]) :
                     \/ c \in created /\ c \notin MappedConvs'
                     \/ c \in WorkingOf(op[v]) /\ c \notin gone
               /\ \/ WorkingOf(op'[v]) = {}
                  \/ \A c \in WorkingOf(op[v]) : c \notin gone => c \in WorkingOf(op'[v])
    BY <2>1
  <2>2. ASSUME NEW c \in created, NEW v \in Workers, v # w PROVE c \notin WorkingOf(op'[v])
    BY <1>1, <1>2, <2>2 DEF WorkingApart
  <2> QED BY <2>1, <2>2 DEF WorkMoves
<1>4. LinesMove
  BY <1>1 DEF LinesMove, LinesSound
<1>5. ClonesMove(gone)
  BY DEF ClonesMove
<1>6. TempApart'
  BY <1>1 DEF TempApart
<1> QED BY <1>3, <1>4, <1>5, <1>6, OrderKeeps

\* A worker gives up what it made, or had made nothing.
LEMMA WorkerRests ==
  ASSUME Orderly, Typed', NEW w \in Workers, NEW created, NEW gone,
         StoreMoves(created, gone), MapMoves(created, gone),
         \A v \in Workers \ {w} : op'[v] = op[v],
         \A v \in Workers \ {w} : \A c \in WorkingOf(op[v]) : c \notin gone,
         op'[w].temp = None, op'[w].made = <<>>,
         \A line \in LinesOf(op'[w]) : LineSound(line),
         Replaced(gone), ParentsMove(created)
  PROVE  Orderly'
<1>1. WorkingOf(op'[w]) = {} /\ Range(op'[w].made) = {}
  BY DEF WorkingOf, Range
<1>2. ClonesHeld(w)'
  <2>1. Shaped(op'[w])
    BY DEF Typed, Operations
  <2>2. op'[w].do \notin {"fork", "digest"}
    <3>1. SUFFICES ASSUME op'[w].do \in {"fork", "digest"} PROVE FALSE
      OBVIOUS
    <3>2. Len(op'[w].made) >= 1
      BY <2>1, <3>1 DEF Shaped
    <3>3. Len(op'[w].made) = 0
      OBVIOUS
    <3> QED BY <3>2, <3>3
  <2> QED BY <2>2 DEF ClonesHeld
<1> QED BY <1>1, <1>2, WorkerSteps

\* No worker takes the step.
LEMMA OthersStep ==
  ASSUME Orderly, Typed', UNCHANGED op, NEW created, NEW gone,
         StoreMoves(created, gone), MapMoves(created, gone),
         \A v \in Workers : \A c \in WorkingOf(op[v]) : c \notin gone,
         Replaced(gone), ParentsMove(created)
  PROVE  Orderly'
<1>1. WorkingApart /\ LinesSound /\ TempApart
  BY DEF Orderly
<1>2. \A c \in created : c \notin Live
  <2>1. \A c \in created : ~(c < c)
    BY DEF StoreMoves, ConvIds
  <2> QED BY <2>1 DEF StoreMoves
<1>3. WorkMoves(created, gone)
  BY <1>1, <1>2 DEF WorkMoves, WorkingApart
<1>4. LinesMove
  BY <1>1 DEF LinesMove, LinesSound
<1>5. ClonesMove(gone)
  BY DEF ClonesMove
<1>6. TempApart'
  BY <1>1 DEF TempApart
<1> QED BY <1>3, <1>4, <1>5, <1>6, OrderKeeps

\* Every worker stops.
LEMMA AllStop ==
  ASSUME Orderly, Typed', \A w \in Workers : op'[w] = Idle, NEW created, NEW gone,
         StoreMoves(created, gone), MapMoves(created, gone),
         Replaced(gone), ParentsMove(created)
  PROVE  Orderly'
<1>1. Idle.temp = None /\ Idle.made = <<>> /\ Idle.do = "idle" /\ Idle.plans = {}
  BY IdleIs
<1>2. WorkingOf(Idle) = {} /\ LinesOf(Idle) = {} /\ Range(Idle.made) = {}
  BY <1>1 DEF WorkingOf, LinesOf, Range
<1>3. WorkMoves(created, gone)
  BY <1>2 DEF WorkMoves
<1>4. LinesMove
  BY <1>2 DEF LinesMove
<1>5. ClonesMove(gone)
  <2>1. \A w \in Workers : ClonesHeld(w)'
    BY <1>1 DEF ClonesHeld
  <2> QED BY <2>1 DEF ClonesMove
<1>6. TempApart'
  BY <1>2 DEF TempApart
<1> QED BY <1>3, <1>4, <1>5, <1>6, OrderKeeps

LEMMA MapRests ==
  ASSUME UNCHANGED mapped, NEW created, NEW gone, Typed, Orderly,
         \A c \in created : c \notin Live /\ c \in ConvIds,
         \A c \in gone : c \notin MappedConvs
  PROVE  MapMoves(created, gone) /\ MappedConvs' = MappedConvs
<1>1. \A ch \in Channels : mapped[ch] = None \/ mapped[ch] \in MappedConvs
  BY DEF MappedConvs
<1>2. \A ch \in Channels : mapped[ch] # None => mapped[ch] \in Live
  BY DEF Orderly, MappedApart
<1>3. \A c \in ConvIds : c # None
  BY DEF ConvIds, None
<1>4. \A ch \in Channels : mapped[ch] \notin created
  BY <1>2, <1>3
<1> QED BY <1>1, <1>4 DEF MapMoves, MappedConvs

\* A channel takes what was created; what served it is on no channel.
LEMMA MapServes ==
  ASSUME Orderly, NEW ch \in Channels, NEW c \in ConvIds, c \notin Live, Serves(ch, c),
         NEW gone, \A a \in Channels \ {ch} : mapped[a] # None => mapped[a] \notin gone
  PROVE  /\ MapMoves({c}, gone)
         /\ \A d : d \in MappedConvs' <=>
                d = c \/ (d \in MappedConvs /\ d # mapped[ch])
<1>1. /\ mapped \in [Channels -> ConvIds \cup {None}]
      /\ MappedApart
  BY DEF Orderly, Typed, Contents
<1>2. /\ mapped'[ch] = c /\ c # None
      /\ \A a \in Channels \ {ch} : mapped'[a] = mapped[a]
  BY <1>1 DEF Serves, ConvIds, None
<1>3. \A a \in Channels : mapped[a] # c
  BY <1>1, <1>2 DEF MappedApart
<1>4. MapMoves({c}, gone)
  BY <1>2, <1>3 DEF MapMoves
<1>5. \A d : d \in MappedConvs' <=> d = c \/ (d \in MappedConvs /\ d # mapped[ch])
  BY <1>1, <1>2 DEF MappedConvs, MappedApart
<1> QED BY <1>4, <1>5

\* Nothing that stands goes.
LEMMA NothingToReplace ==
  ASSUME NEW gone, \A u \in gone : u \in MappedConvs \/ \E w \in Workers : u \in WorkingOf(op[w])
  PROVE  Replaced(gone)
  BY DEF Replaced, Stands

\* A mapped conversation is alive and nobody's.
LEMMA MappedIs ==
  ASSUME Orderly, NEW c \in MappedConvs
  PROVE  /\ c \in Live /\ c \in ConvIds /\ c # None
         /\ \A w \in Workers : c \notin WorkingOf(op[w])
  BY DEF MappedConvs, Orderly, MappedApart, WorkingApart, Live

\* What a clone of s may name, s nobody's.
LEMMA CloneParent ==
  ASSUME Orderly, NEW s \in ConvIds, NEW c \in ConvIds, \A d \in Live : d < c,
         \A w \in Workers : s \notin WorkingOf(op[w]), parent[s] # None
  PROVE  /\ parent[s] \notin MappedConvs /\ parent[s] # c
         /\ \A w \in Workers : parent[s] \notin WorkingOf(op[w])
<1>1. parent[s] \notin MappedConvs /\ \A w \in Workers : parent[s] \notin WorkingOf(op[w])
  BY ParentFree
<1>2. s \in Live
  BY DEF Orderly, FreeNameNothing
<1>3. parent[s] < s /\ s < c /\ parent[s] \in ConvIds
  BY <1>2 DEF Orderly, PointsBelow, Typed, StoreTypeOK
<1>4. parent[s] # c
  BY <1>3 DEF ConvIds
<1> QED BY <1>1, <1>4

-----------------------------------------------------------------------------
(* Each step.                                                                *)

LEMMA MessagesOrderly ==
  ASSUME Orderly, Typed', NEW ch \in Channels,
         \/ FirstContact(ch) \/ Wipe(ch) \/ MapNewChannelFails(ch) \/ RetireStaleChannel(ch)
         \/ \E p \in People : Ingest(ch, p)
  PROVE  Orderly' /\ [StoreNext]_storeVars
<1>0. Typed
  BY DEF Orderly
<1>1. Replaced({})
  BY DEF Replaced
<1>2. ASSUME NEW c \in ConvIds, NEW o \in Opening, RefOf(o) \in References,
             Opens(c, o, {}), Serves(ch, c) \/ UNCHANGED mapped, UNCHANGED op,
             o.parent # None =>
                /\ o.parent \notin MappedConvs
                /\ o.parent # c
                /\ \A w \in Workers : o.parent \notin WorkingOf(op[w])
      PROVE  Orderly' /\ [StoreNext]_storeVars
  <2>1. StoreMoves({c}, {}) /\ StoreNext /\ c \notin Live /\ parent'[c] = o.parent
    BY <1>2, OpensMoves
  <2>2. MapMoves({c}, {}) /\ \A d : d \in MappedConvs' => d = c \/ d \in MappedConvs
    <3>1. CASE Serves(ch, c)
      <4> DEFINE none == {}
      <4>1. \A a \in Channels \ {ch} : mapped[a] # None => mapped[a] \notin none
        OBVIOUS
      <4> HIDE DEF none
      <4>2. /\ MapMoves({c}, none)
            /\ \A d : d \in MappedConvs' <=> d = c \/ (d \in MappedConvs /\ d # mapped[ch])
        BY <2>1, <3>1, <4>1, MapServes
      <4> QED BY <4>2 DEF none
    <3>2. CASE UNCHANGED mapped
      <4>1. MapMoves({c}, {}) /\ MappedConvs' = MappedConvs
        BY <1>0, <2>1, <3>2, MapRests
      <4> QED BY <4>1
    <3> QED BY <1>2, <3>1, <3>2
  <2>3. ParentsMove({c})
    BY <1>2, <2>1, <2>2 DEF ParentsMove
  <2> QED BY <1>1, <1>2, <2>1, <2>2, <2>3, OthersStep
<1>3. Blank.parent = None
  BY DEF Blank
<1>4. CASE FirstContact(ch)
  <2>1. PICK c \in ConvIds : Opens(c, Blank, {}) /\ Serves(ch, c)
    BY <1>4 DEF FirstContact
  <2>2. UNCHANGED op
    BY <1>4 DEF FirstContact
  <2> QED BY <1>0, <1>2, <1>3, <2>1, <2>2, Openings, References1 DEF Typed
<1>5. CASE Wipe(ch)
  <2>1. PICK c \in ConvIds : Opens(c, Blank, {}) /\ Serves(ch, c)
    BY <1>5 DEF Wipe
  <2>2. UNCHANGED op
    BY <1>5 DEF Wipe
  <2> QED BY <1>0, <1>2, <1>3, <2>1, <2>2, Openings, References1 DEF Typed
<1>6. CASE MapNewChannelFails(ch)
  <2>1. PICK c \in ConvIds : Opens(c, Blank, {})
    BY <1>6 DEF MapNewChannelFails
  <2>2. UNCHANGED op /\ UNCHANGED mapped
    BY <1>6 DEF MapNewChannelFails
  <2> QED BY <1>0, <1>2, <1>3, <2>1, <2>2, Openings, References1 DEF Typed
<1>7. CASE RetireStaleChannel(ch)
  <2> DEFINE s == mapped[ch]
             o == Clone(s, {})
  <2>1. PICK c \in ConvIds : Opens(c, o, {}) /\ Serves(ch, c)
    BY <1>7 DEF RetireStaleChannel
  <2>2. UNCHANGED op
    BY <1>7 DEF RetireStaleChannel
  <2>3. s \in MappedConvs
    BY <1>7 DEF RetireStaleChannel, MappedConvs
  <2>4. s \in ConvIds /\ \A w \in Workers : s \notin WorkingOf(op[w])
    BY <2>3, MappedIs
  <2>5. o \in Opening /\ RefOf(o) \in References
    BY <1>0, <2>4, Openings, References1 DEF Typed
  <2>6. \A d \in Live : d < c
    BY <2>1, <2>5, OpensMoves DEF StoreMoves
  <2>7. o.parent = parent[s]
    BY DEF Clone
  <2> HIDE DEF s, o
  <2>8. o.parent # None => /\ o.parent \notin MappedConvs /\ o.parent # c
                           /\ \A w \in Workers : o.parent \notin WorkingOf(op[w])
    BY <2>4, <2>6, <2>7, CloneParent
  <2> QED BY <1>2, <2>1, <2>2, <2>5, <2>8
<1>8. ASSUME NEW p \in People, Ingest(ch, p) PROVE Orderly' /\ [StoreNext]_storeVars
  <2>1. UNCHANGED storeVars /\ UNCHANGED mapped /\ UNCHANGED op
    BY <1>8 DEF Ingest
  <2>2. StoreMoves({}, {}) /\ MapMoves({}, {})
    BY <1>0, <2>1, StoreRests, MapRests
  <2>3. ParentsMove({})
    BY DEF ParentsMove
  <2> QED BY <1>1, <2>1, <2>2, <2>3, OthersStep
<1> QED BY <1>4, <1>5, <1>6, <1>7, <1>8

\* A step of worker w that leaves the conversations alone, and in which it
\* holds nothing it made.
LEMMA QuietStep ==
  ASSUME Orderly, Typed', NEW w \in Workers, UNCHANGED storeVars, UNCHANGED mapped,
         \A v \in Workers \ {w} : op'[v] = op[v],
         op'[w].temp = None, op'[w].made = <<>>,
         \A line \in LinesOf(op'[w]) : LineSound(line)
  PROVE  Orderly' /\ [StoreNext]_storeVars
<1>1. StoreMoves({}, {}) /\ MapMoves({}, {})
  BY StoreRests, MapRests DEF Orderly
<1>2. ParentsMove({}) /\ Replaced({})
  BY DEF ParentsMove, Replaced
<1> QED BY <1>1, <1>2, WorkerRests

\* A worker that stops, or goes on with an erasure's other lineages, holds no
\* line it did not hold.
LEMMA RestLines ==
  ASSUME Orderly, NEW w \in Workers, Idles(w) \/ ScrubOver(w)
  PROVE  /\ op'[w].temp = None /\ op'[w].made = <<>>
         /\ \A v \in Workers \ {w} : op'[v] = op[v]
         /\ \A line \in LinesOf(op'[w]) : LineSound(line)
<1>1. /\ op'[w].temp = None /\ op'[w].made = <<>>
      /\ op'[w].do \in {"idle", "erase"} /\ op'[w].plans \subseteq op[w].plans
      /\ \A v \in Workers \ {w} : op'[v] = op[v]
  BY Rests DEF Orderly, Typed
<1>2. \A line \in LinesOf(op'[w]) : line \in LinesOf(op[w])
  BY <1>1 DEF LinesOf
<1> QED BY <1>1, <1>2 DEF Orderly, LinesSound

LEMMA CompactOrderly ==
  ASSUME Orderly, Typed', NEW w \in Workers, NEW ch \in Channels, Compact(w, ch)
  PROVE  Orderly' /\ [StoreNext]_storeVars
<1> DEFINE s == mapped[ch]
<1>0. Typed /\ StoreTypeOK /\ Contents
  BY DEF Orderly, Typed
<1>1. s \in MappedConvs /\ UNCHANGED mapped
  BY DEF Compact, MappedConvs
<1>2. s \in ConvIds /\ \A v \in Workers : s \notin WorkingOf(op[v])
  BY <1>1, MappedIs
<1>3. PICK c \in ConvIds, cut \in ledger[s] :
        /\ Opens(c, [Clone(s, {}) EXCEPT !.ledger = {m \in ledger[s] : m <= cut}], {})
        /\ Takes(w, Compacting(ch, c, cut))
  BY DEF Compact, Takes, Compacting
<1>4. ledger[s] \subseteq Msgs
  BY <1>0, <1>2 DEF Contents
<1> DEFINE o == [Clone(s, {}) EXCEPT !.ledger = {m \in ledger[s] : m <= cut}]
           r == Compacting(ch, c, cut)
<1>5. o \in Opening /\ o.parent = parent[s] /\ RefOf(o) \in References
  <2>1. Clone(s, {}) \in Opening
    BY <1>0, <1>2, Openings
  <2>2. o \in Opening
    BY <1>4, <2>1 DEF Opening
  <2>3. o.parent = parent[s] /\ o.birth = parentBirth[s]
    BY DEF Clone
  <2>4. RefOf(Clone(s, {})) \in References
    BY <1>2, References1
  <2>5. RefOf(Clone(s, {})) = RefOf(o)
    BY <2>3 DEF RefOf, Clone
  <2> QED BY <2>2, <2>3, <2>4, <2>5
<1>6. /\ r \in OpRecord /\ Shaped(r)
      /\ r.do = "capture" /\ r.made = <<>> /\ r.temp = c /\ r.plans = {}
  BY <1>0, <1>2, <1>4, CompactingIs
<1> HIDE DEF s, o, r
<1>7. StoreMoves({c}, {}) /\ StoreNext /\ c \notin Live /\ parent'[c] = parent[s]
  BY <1>3, <1>5, OpensMoves DEF o
<1>8. MapMoves({c}, {}) /\ MappedConvs' = MappedConvs
  BY <1>0, <1>1, <1>7, MapRests
<1>9. op'[w] = r /\ \A v \in Workers \ {w} : op'[v] = op[v]
  BY <1>3, <1>6, OpTakes DEF r, Orderly, Typed
<1>10. WorkingOf(op[w]) = {}
  <2>1. op[w].do = "idle"
    BY DEF Compact
  <2> QED BY <1>0, <2>1, Reads DEF WorkingOf, Range, Shaped, Typed
<1>11. /\ WorkingOf(op'[w]) = {c} /\ op'[w].temp \notin Range(op'[w].made)
       /\ LinesOf(op'[w]) = {}
  BY <1>6, <1>9 DEF WorkingOf, LinesOf, Range, ConvIds, None
<1>12. c \notin MappedConvs'
  BY <1>7, <1>8, MappedIs
<1>13. ParentsMove({c})
  <2>1. \A d \in Live : d < c
    BY <1>7 DEF StoreMoves
  <2>2. parent[s] # None => /\ parent[s] \notin MappedConvs /\ parent[s] # c
                            /\ \A v \in Workers : parent[s] \notin WorkingOf(op[v])
    BY <1>2, <2>1, CloneParent
  <2> QED BY <1>7, <1>8, <1>9, <1>11, <2>2 DEF ParentsMove
<1>14. ClonesHeld(w)'
  BY <1>6, <1>9 DEF ClonesHeld
<1>15. Replaced({})
  BY DEF Replaced
<1> QED BY <1>7, <1>8, <1>9, <1>10, <1>11, <1>12, <1>13, <1>14, <1>15, WorkerSteps

\* The temporary conversation is a worker's own.
LEMMA OwnGone ==
  ASSUME Orderly, NEW w \in Workers, NEW gone, \A c \in gone : c \in WorkingOf(op[w]),
         Deletes(gone), UNCHANGED mapped
  PROVE  /\ StoreMoves({}, gone) /\ StoreNext /\ MapMoves({}, gone)
         /\ \A v \in Workers \ {w} : \A c \in WorkingOf(op[v]) : c \notin gone
         /\ Replaced(gone) /\ ParentsMove({})
<1>1. WorkingApart /\ Typed
  BY DEF Orderly
<1>2. \A c \in gone : c \notin MappedConvs
  BY <1>1 DEF WorkingApart
<1>3. \A v \in Workers \ {w} : \A c \in WorkingOf(op[v]) : c \notin gone
  BY <1>1 DEF WorkingApart
<1>4. ParentsMove({})
  BY DEF ParentsMove
<1> QED BY <1>1, <1>2, <1>3, <1>4, DeletesMoves, MapRests, NothingToReplace

LEMMA CaptureOrderly ==
  ASSUME Orderly, Typed', NEW w \in Workers, CaptureAndRetire(w) \/ Unsummarized(w)
  PROVE  Orderly' /\ [StoreNext]_storeVars
<1>0. Typed /\ Operations
  BY DEF Orderly, Typed
<1>1. Deletes({op[w].temp}) /\ UNCHANGED mapped /\ op[w].do = "capture"
  BY DEF CaptureAndRetire, Unsummarized
<1>2. Shaped(op[w]) /\ op[w].temp \in ConvIds /\ op[w].plans = op[w].plans
  BY <1>0, <1>1, Reads DEF OpRecord, Shaped
<1>3. op[w].temp \in WorkingOf(op[w])
  BY <1>2 DEF WorkingOf, ConvIds, None
<1>4. /\ op'[w].temp = None /\ op'[w].made = <<>>
      /\ \A v \in Workers \ {w} : op'[v] = op[v]
      /\ \A line \in LinesOf(op'[w]) : LineSound(line)
  <2>1. CASE Unsummarized(w)
    BY <2>1, RestLines DEF Unsummarized
  <2>2. CASE CaptureAndRetire(w)
    <3> DEFINE r == HasRead(w, "install", Readable(ledger[op[w].temp], digest[op[w].temp]))
    <3>1. Takes(w, r)
      BY <2>2 DEF CaptureAndRetire, Takes, HasRead
    <3>2. /\ r \in OpRecord /\ Shaped(r)
          /\ r.do = "install" /\ r.made = op[w].made /\ r.temp = None
          /\ r.plans = op[w].plans
      BY <1>0, <1>1, <1>2, ReadableTyped, HasReadIs DEF Typed
    <3> HIDE DEF r
    <3>3. op'[w] = r /\ \A v \in Workers \ {w} : op'[v] = op[v]
      BY <1>0, <3>1, <3>2, OpTakes
    <3>4. op[w].made = <<>>
      BY <1>1, <1>2 DEF Shaped
    <3>5. \A line \in LinesOf(r) : line \in LinesOf(op[w])
      BY <3>2 DEF LinesOf
    <3> QED BY <3>2, <3>3, <3>4, <3>5 DEF Orderly, LinesSound
  <2> QED BY <2>1, <2>2
<1>5. /\ StoreMoves({}, {op[w].temp}) /\ StoreNext /\ MapMoves({}, {op[w].temp})
      /\ \A v \in Workers \ {w} : \A c \in WorkingOf(op[v]) : c \notin {op[w].temp}
      /\ Replaced({op[w].temp}) /\ ParentsMove({})
  BY <1>1, <1>3, OwnGone
<1> QED BY <1>4, <1>5, WorkerRests

LEMMA MapServesOnly ==
  ASSUME Orderly, NEW ch \in Channels, NEW c \in ConvIds, c \notin Live, Serves(ch, c)
  PROVE  /\ MapMoves({c}, {})
         /\ \A d : d \in MappedConvs' <=>
                d = c \/ (d \in MappedConvs /\ d # mapped[ch])
<1> DEFINE none == {}
<1>1. \A a \in Channels \ {ch} : mapped[a] # None => mapped[a] \notin none
  OBVIOUS
<1> HIDE DEF none
<1>2. /\ MapMoves({c}, none)
      /\ \A d : d \in MappedConvs' <=> d = c \/ (d \in MappedConvs /\ d # mapped[ch])
  BY <1>1, MapServes
<1> QED BY <1>2 DEF none

LEMMA InstallCompactedOrderly ==
  ASSUME Orderly, Typed', NEW w \in Workers, InstallCompactedThread(w)
  PROVE  Orderly' /\ [StoreNext]_storeVars
<1> DEFINE s == op[w].line[1]
           o == CompactedThread(w)
<1>0. Typed /\ op[w].do = "install" /\ mapped[op[w].ch] = s /\ Idles(w)
  BY DEF Orderly, InstallCompactedThread
<1>1. op[w].ch \in Channels /\ s \in ConvIds
  BY <1>0, Reads DEF Typed, Shaped
<1>2. PICK c \in ConvIds : Opens(c, o, {}) /\ Serves(op[w].ch, c)
  BY DEF InstallCompactedThread
<1>3. s \in MappedConvs
  BY <1>0, <1>1 DEF MappedConvs, ConvIds, None
<1>4. s \in Live /\ \A v \in Workers : s \notin WorkingOf(op[v])
  BY <1>3, MappedIs
<1>5. o \in Opening /\ o.parent = s /\ o.birth = born[s]
  BY <1>0, CompactedThreadTyped DEF CompactedThread
<1> HIDE DEF s, o
<1>6. RefOf(o) \in References
  BY <1>4, <1>5, LiveReference
<1>7. StoreMoves({c}, {}) /\ StoreNext /\ c \notin Live /\ parent'[c] = s
  BY <1>2, <1>5, <1>6, OpensMoves
<1>8. /\ MapMoves({c}, {})
      /\ \A d : d \in MappedConvs' <=> d = c \/ (d \in MappedConvs /\ d # s)
  BY <1>0, <1>1, <1>2, <1>7, MapServesOnly
<1>9. /\ op'[w].temp = None /\ op'[w].made = <<>>
      /\ \A v \in Workers \ {w} : op'[v] = op[v]
      /\ \A line \in LinesOf(op'[w]) : LineSound(line)
  BY <1>0, RestLines
<1>10. ParentsMove({c})
  <2>1. s # c
    BY <1>4, <1>7
  <2>2. s \notin MappedConvs'
    BY <1>8, <2>1
  <2>3. \A v \in Workers : s \notin WorkingOf(op'[v])
    BY <1>4, <1>9 DEF WorkingOf, Range
  <2> QED BY <1>7, <2>2, <2>3 DEF ParentsMove
<1>11. Replaced({})
  BY DEF Replaced
<1> QED BY <1>7, <1>8, <1>9, <1>10, <1>11, WorkerRests

\* A lineage that is read is sound: it climbs, and the conversation under the
\* serving one stands.
LEMMA ReadLineSound ==
  ASSUME Orderly, NEW s \in MappedConvs, Len(Lineage(s)) >= 2
  PROVE  LineSound(Lineage(s))
<1> DEFINE line == Lineage(s)
           n == Len(line)
<1>0. s \in ConvIds /\ s \in Live /\ \A w \in Workers : s \notin WorkingOf(op[w])
  BY MappedIs
<1>1. Climbs(line, s)
  BY <1>0, LineageClimbs
<1>2. line \in Seq(ConvIds) /\ n \in Nat /\ n >= 2 /\ line[n] = s
  BY <1>1 DEF Climbs
<1> HIDE DEF line
<1>3. ASSUME NEW i \in 1 .. n - 1
      PROVE  /\ line[i] \in Live /\ line[i] \in ConvIds
             /\ line[i + 1] \in ConvIds /\ line[i] = parent[line[i + 1]]
             /\ line[i + 1] \in Live
             /\ line[i] < line[i + 1]
             /\ line[i] \notin MappedConvs
             /\ \A w \in Workers : line[i] \in WorkingOf(op[w]) =>
                   line[i + 1] \in WorkingOf(op[w])
  <2>1. line[i] \in Live /\ line[i] = parent[line[i + 1]]
    BY <1>1, <1>2, <1>3 DEF Climbs
  <2>2. line[i] \in ConvIds /\ line[i + 1] \in ConvIds
    BY <1>2, <1>3
  <2>3. line[i] # None
    BY <2>2 DEF ConvIds, None
  <2>4. line[i + 1] \in Live
    BY <2>1, <2>2, <2>3 DEF Orderly, FreeNameNothing
  <2> QED BY <2>1, <2>2, <2>3, <2>4, ParentFree DEF Orderly, PointsBelow
<1> DEFINE Bad == {k \in 1 .. n - 1 : ~(/\ line[n - k] <= line[n - 1]
                                        /\ \A w \in Workers : line[n - k] \notin WorkingOf(op[w]))}
<1>4. Bad = {}
  <2>1. SUFFICES ASSUME Bad # {} PROVE FALSE
    OBVIOUS
  <2>2. Bad \subseteq Nat
    BY <1>2
  <2>3. PICK k \in Bad : \A j \in Bad : k <= j
    <3> HIDE DEF Bad
    <3> QED BY <2>1, <2>2, LeastNumber
  <2>4. k \in 1 .. n - 1 /\ k \in Nat
    BY <1>2
  <2>5. CASE k = 1
    <3>1. n - 1 \in 1 .. n - 1 /\ (n - 1) + 1 = n
      BY <1>2
    <3>2. line[n - 1] <= line[n - 1]
      BY <1>3, <3>1 DEF ConvIds
    <3>3. \A w \in Workers : line[n - 1] \notin WorkingOf(op[w])
      BY <1>0, <1>2, <1>3, <3>1
    <3> QED BY <2>5, <3>2, <3>3
  <2>6. CASE k # 1
    <3>1. k - 1 \in 1 .. n - 1 /\ ~(k <= k - 1)
      BY <1>2, <2>4, <2>6
    <3>2. k - 1 \notin Bad
      BY <2>3, <3>1
    <3>3. /\ line[n - (k - 1)] <= line[n - 1]
          /\ \A w \in Workers : line[n - (k - 1)] \notin WorkingOf(op[w])
      BY <3>1, <3>2
    <3>4. n - k \in 1 .. n - 1 /\ (n - k) + 1 = n - (k - 1) /\ n - 1 \in 1 .. n - 1
      BY <1>2, <2>4, <2>6
    <3>5. /\ line[n - k] < line[n - (k - 1)]
          /\ \A w \in Workers : line[n - k] \in WorkingOf(op[w]) =>
                line[n - (k - 1)] \in WorkingOf(op[w])
          /\ line[n - k] \in ConvIds /\ line[n - (k - 1)] \in ConvIds
      BY <1>3, <3>4
    <3>6. line[n - 1] \in ConvIds
      BY <1>3, <3>4
    <3>7. line[n - k] <= line[n - 1]
      BY <3>3, <3>5, <3>6 DEF ConvIds
    <3> QED BY <3>3, <3>5, <3>7
  <2> QED BY <2>5, <2>6
<1>5. ASSUME NEW i \in 1 .. n - 1
      PROVE  line[i] <= line[n - 1] /\ \A w \in Workers : line[i] \notin WorkingOf(op[w])
  <2>1. n - i \in 1 .. n - 1 /\ n - (n - i) = i
    BY <1>2
  <2>2. n - i \notin Bad
    BY <1>4
  <2> QED BY <2>1, <2>2
<1>6. n - 1 \in 1 .. n - 1 /\ (n - 1) + 1 = n
  BY <1>2
<1>7. Stands(line[n - 1]) /\ line[n - 1] <= line[n - 1] /\ line[n - 1] \in ConvIds
      /\ line[n - 1] < line[n]
  BY <1>3, <1>5, <1>6 DEF Stands, ConvIds
<1>8. LineSound(line)
  BY <1>2, <1>3, <1>5, <1>7 DEF LineSound
<1> QED BY <1>8 DEF line

LEMMA StripOrderly ==
  ASSUME Orderly, Typed', NEW w \in Workers, NEW ch \in Channels, NEW m \in Msgs,
         StripFromView(w, ch, m)
  PROVE  Orderly' /\ [StoreNext]_storeVars
<1>1. PICK stage \in {"strip", "scrub"} :
               /\ stage = "scrub" => Len(Lineage(mapped[ch])) >= 2
               /\ op'[w].do = stage /\ op'[w].line = Lineage(mapped[ch])
               /\ op'[w].made = <<>> /\ op'[w].temp = None /\ op'[w].plans = {}
  BY StripTyped DEF Orderly
<1>2. \A v \in Workers \ {w} : op'[v] = op[v]
  BY StripTyped DEF Orderly
<1>3. UNCHANGED storeVars /\ UNCHANGED mapped /\ mapped[ch] \in MappedConvs
  BY DEF StripFromView, MappedConvs
<1>4. \A line \in LinesOf(op'[w]) : LineSound(line)
  <2>1. CASE stage = "strip"
    BY <1>1, <2>1 DEF LinesOf
  <2>2. CASE stage = "scrub"
    <3>1. LinesOf(op'[w]) = {Lineage(mapped[ch])}
      BY <1>1, <2>2 DEF LinesOf
    <3> QED BY <1>1, <1>3, <2>2, <3>1, ReadLineSound
  <2> QED BY <2>1, <2>2
<1> QED BY <1>1, <1>2, <1>3, <1>4, QuietStep

LEMMA ReplaceOrderly ==
  ASSUME Orderly, Typed', NEW w \in Workers, ReplaceWithClone(w)
  PROVE  Orderly' /\ [StoreNext]_storeVars
<1> DEFINE s == Serving(w)
           o == Clone(s, op[w].strip)
           ch == ChannelOf(s)
<1>0. Typed /\ op[w].do = "strip" /\ Idles(w)
  BY DEF Orderly, ReplaceWithClone
<1>1. /\ op'[w].temp = None /\ op'[w].made = <<>>
      /\ \A v \in Workers \ {w} : op'[v] = op[v]
      /\ \A line \in LinesOf(op'[w]) : LineSound(line)
  BY <1>0, RestLines
<1>2. CASE UNCHANGED storeVars /\ UNCHANGED mapped
  BY <1>1, <1>2, QuietStep
<1>3. ASSUME s \in MappedConvs, NEW c \in ConvIds, Opens(c, o, {s}), Serves(ch, c)
      PROVE  Orderly' /\ [StoreNext]_storeVars
  <2>1. s \in ConvIds /\ \A v \in Workers : s \notin WorkingOf(op[v])
    BY <1>3, MappedIs
  <2>2. op[w].strip \in SUBSET Msgs
    BY <1>0, Reads DEF Typed
  <2>3. o \in Opening /\ RefOf(o) \in References /\ o.parent = parent[s]
    BY <1>0, <2>1, <2>2, Openings, References1 DEF Typed, Clone
  <2>4. ch \in Channels /\ mapped[ch] = s
    BY <1>3, SomeChannel
  <2> HIDE DEF s, o, ch
  <2>5. StoreMoves({c}, {s}) /\ StoreNext /\ c \notin Live /\ parent'[c] = parent[s]
    BY <1>3, <2>3, OpensMoves
  <2>6. /\ MapMoves({c}, {s})
        /\ \A d : d \in MappedConvs' <=> d = c \/ (d \in MappedConvs /\ d # mapped[ch])
    <3>1. \A a \in Channels \ {ch} : mapped[a] # None => mapped[a] \notin {s}
      BY <2>4 DEF Orderly, MappedApart
    <3> QED BY <1>3, <2>4, <2>5, <3>1, MapServes
  <2>7. ParentsMove({c})
    <3>1. \A d \in Live : d < c
      BY <2>5 DEF StoreMoves
    <3>2. parent[s] # None => /\ parent[s] \notin MappedConvs /\ parent[s] # c
                              /\ \A v \in Workers : parent[s] \notin WorkingOf(op[v])
      BY <2>1, <3>1, CloneParent
    <3>3. parent[s] # None => \A v \in Workers : parent[s] \notin WorkingOf(op'[v])
      BY <1>1, <3>2 DEF WorkingOf, Range
    <3> QED BY <2>5, <2>6, <3>2, <3>3 DEF ParentsMove
  <2>8. Replaced({s})
    BY <1>3, NothingToReplace
  <2>9. \A v \in Workers \ {w} : \A d \in WorkingOf(op[v]) : d \notin {s}
    BY <2>1
  <2> QED BY <1>1, <2>5, <2>6, <2>7, <2>8, <2>9, WorkerRests
<1> QED BY <1>2, <1>3 DEF ReplaceWithClone

LEMMA CloneFailsOrderly ==
  ASSUME Orderly, Typed', NEW w \in Workers, CloneFails(w)
  PROVE  Orderly' /\ [StoreNext]_storeVars
<1> DEFINE s == Serving(w)
           o == Clone(s, {})
<1>0. Typed /\ Idles(w) /\ s \in MappedConvs /\ UNCHANGED mapped
  BY DEF Orderly, CloneFails
<1>1. /\ op'[w].temp = None /\ op'[w].made = <<>>
      /\ \A v \in Workers \ {w} : op'[v] = op[v]
      /\ \A line \in LinesOf(op'[w]) : LineSound(line)
  BY <1>0, RestLines
<1>2. PICK c \in ConvIds : Opens(c, o, {})
  BY DEF CloneFails
<1>3. s \in ConvIds /\ \A v \in Workers : s \notin WorkingOf(op[v])
  BY <1>0, MappedIs
<1>4. o \in Opening /\ RefOf(o) \in References /\ o.parent = parent[s]
  BY <1>0, <1>3, Openings, References1 DEF Typed, Clone
<1> HIDE DEF s, o
<1>5. StoreMoves({c}, {}) /\ StoreNext /\ c \notin Live /\ parent'[c] = parent[s]
  BY <1>2, <1>4, OpensMoves
<1>6. MapMoves({c}, {}) /\ MappedConvs' = MappedConvs
  BY <1>0, <1>5, MapRests
<1>7. ParentsMove({c})
  <2>1. \A d \in Live : d < c
    BY <1>5 DEF StoreMoves
  <2>2. parent[s] # None => /\ parent[s] \notin MappedConvs /\ parent[s] # c
                            /\ \A v \in Workers : parent[s] \notin WorkingOf(op[v])
    BY <1>3, <2>1, CloneParent
  <2>3. parent[s] # None => \A v \in Workers : parent[s] \notin WorkingOf(op'[v])
    BY <1>1, <2>2 DEF WorkingOf, Range
  <2> QED BY <1>5, <1>6, <2>2, <2>3 DEF ParentsMove
<1>8. Replaced({})
  BY DEF Replaced
<1> QED BY <1>1, <1>5, <1>6, <1>7, <1>8, WorkerRests

LEMMA StandDownOrderly ==
  ASSUME Orderly, Typed', NEW w \in Workers,
         CompactionStandsDown(w) \/ ScrubHasNoChannel(w) \/ EraseScrubsNext(w)
  PROVE  Orderly' /\ [StoreNext]_storeVars
<1>1. CASE CompactionStandsDown(w) \/ ScrubHasNoChannel(w)
  <2>1. Idles(w) \/ ScrubOver(w)
    BY <1>1 DEF CompactionStandsDown, ScrubHasNoChannel
  <2>2. UNCHANGED storeVars /\ UNCHANGED mapped
    BY <1>1 DEF CompactionStandsDown, ScrubHasNoChannel
  <2> QED BY <2>1, <2>2, RestLines, QuietStep
<1>2. CASE EraseScrubsNext(w)
  <2>1. /\ op'[w].do = "scrub" /\ op'[w].made = <<>> /\ op'[w].temp = None
        /\ op'[w].plans \subseteq op[w].plans
        /\ \E plan \in op[w].plans : op'[w].line = plan.line
        /\ \A v \in Workers \ {w} : op'[v] = op[v]
        /\ UNCHANGED storeVars /\ UNCHANGED mapped
    BY <1>2, EraseScrubsNextTakes DEF Orderly
  <2>2. \A line \in LinesOf(op'[w]) : line \in LinesOf(op[w])
    BY <2>1 DEF LinesOf
  <2>3. \A line \in LinesOf(op'[w]) : LineSound(line)
    BY <2>2 DEF Orderly, LinesSound
  <2> QED BY <2>1, <2>3, QuietStep
<1> QED BY <1>1, <1>2

\* What a scrub works on.
LEMMA ScrubReads ==
  ASSUME Orderly, NEW w \in Workers, op[w].do \in {"scrub", "fork", "digest"}
  PROVE  /\ LineSound(op[w].line) /\ op[w].line \in LinesOf(op[w])
         /\ op[w].line[1] \in ConvIds
         /\ \A v \in Workers : op[w].line[1] \notin WorkingOf(op[v])
         /\ Serving(w) \in ConvIds
         /\ \A d \in Range(op[w].line) :
               \/ d = Serving(w)
               \/ /\ d < Serving(w) /\ d \notin MappedConvs
                  /\ \A v \in Workers : d \notin WorkingOf(op[v])
<1> DEFINE line == op[w].line
           n == Len(line)
<1>1. line \in LinesOf(op[w])
  BY DEF LinesOf
<1>2. LineSound(line)
  BY <1>1 DEF Orderly, LinesSound
<1>3. line \in Seq(ConvIds) /\ n \in Nat /\ n >= 2 /\ Serving(w) = line[n]
  BY <1>2 DEF LineSound, Serving
<1>4. \A i \in 1 .. n : line[i] \in ConvIds
  BY <1>3
<1>5. 1 \in 1 .. n - 1 /\ n \in 1 .. n /\ n - 1 \in 1 .. n /\ 1 \in 1 .. n
  BY <1>3
<1>6. \A v \in Workers : line[1] \notin WorkingOf(op[v])
  BY <1>2, <1>5 DEF LineSound
<1>7. ASSUME NEW d \in Range(line)
      PROVE  \/ d = Serving(w)
             \/ /\ d < Serving(w) /\ d \notin MappedConvs
                /\ \A v \in Workers : d \notin WorkingOf(op[v])
  <2>1. PICK i \in 1 .. n : d = line[i]
    BY <1>3 DEF Range
  <2>2. CASE i = n
    BY <1>3, <2>1, <2>2
  <2>3. CASE i # n
    <3>1. i \in 1 .. n - 1
      BY <1>3, <2>3
    <3>2. /\ line[i] <= line[n - 1] /\ line[i] \notin MappedConvs /\ line[n - 1] < line[n]
          /\ \A v \in Workers : line[i] \notin WorkingOf(op[v])
      BY <1>2, <3>1 DEF LineSound
    <3>3. line[i] < line[n]
      <4>0. line[i] \in ConvIds /\ line[n - 1] \in ConvIds /\ line[n] \in ConvIds
        <5> HIDE DEF line, n
        <5> QED BY <1>4, <1>5, <2>1
      <4>1. \A c \in ConvIds : c \in Int
        BY StoreAssumption DEF ConvIds
      <4> HIDE DEF line, n
      <4> QED BY <3>2, <4>0, <4>1
    <3> QED BY <1>3, <2>1, <3>2, <3>3
  <2> QED BY <2>2, <2>3
<1> QED BY <1>1, <1>2, <1>3, <1>4, <1>5, <1>6, <1>7

LEMMA ScrubBeginsOrderly ==
  ASSUME Orderly, Typed', NEW w \in Workers, ScrubBegins(w)
  PROVE  Orderly' /\ [StoreNext]_storeVars
<1> DEFINE s == op[w].line[1]
           o == Clone(s, op[w].strip)
<1>0. Typed /\ op[w].do = "scrub"
  BY DEF Orderly, ScrubBegins
<1>1. PICK c \in ConvIds :
            /\ Opens(c, o, {}) /\ o \in Opening
            /\ births + 1 \in Births /\ births' = births + 1
            /\ Serving(w) \in MappedConvs
            /\ Operations'
            /\ op'[w].do = "fork" /\ op'[w].made = <<c>> /\ op'[w].temp = None
            /\ op'[w].plans = op[w].plans /\ op'[w].line = op[w].line
            /\ op'[w].birth = births + 1
            /\ \A v \in Workers \ {w} : op'[v] = op[v]
            /\ UNCHANGED <<recorded, author, nulled, mapped, served, residual>>
  BY <1>0, ScrubBeginsTakes
<1>2. /\ s \in ConvIds /\ \A v \in Workers : s \notin WorkingOf(op[v])
      /\ Serving(w) \in Live
  BY <1>0, <1>1, ScrubReads, MappedIs
<1>3. RefOf(o) \in References /\ o.parent = parent[s]
  BY <1>2, References1 DEF Clone
<1> HIDE DEF s, o
<1>4. StoreMoves({c}, {}) /\ StoreNext /\ c \notin Live /\ parent'[c] = parent[s]
      /\ born'[c] = births + 1
  BY <1>1, <1>3, OpensMoves
<1>5. MapMoves({c}, {}) /\ MappedConvs' = MappedConvs
  BY <1>0, <1>1, <1>4, MapRests
<1>6. c \notin MappedConvs'
  BY <1>4, <1>5, MappedIs
<1>7. WorkingOf(op[w]) = {}
  BY <1>0, Reads DEF WorkingOf, Range, Shaped, Typed
<1>8. Range(op'[w].made) = {c}
  BY <1>1 DEF Range
<1>9. /\ WorkingOf(op'[w]) = {c} /\ op'[w].temp \notin Range(op'[w].made)
  BY <1>1, <1>8 DEF WorkingOf, ConvIds, None
<1>10. \A line \in LinesOf(op'[w]) : LineSound(line)
  <2>1. LinesOf(op'[w]) = LinesOf(op[w])
    BY <1>0, <1>1 DEF LinesOf
  <2> QED BY <2>1 DEF Orderly, LinesSound
<1>11. ClonesHeld(w)'
  <2>1. Made(w)' = c /\ Serving(w)' = Serving(w)
    BY <1>1 DEF Made, Serving
  <2>2. Serving(w) < c
    BY <1>2, <1>4 DEF StoreMoves
  <2> QED BY <1>1, <1>4, <1>8, <2>1, <2>2 DEF ClonesHeld
<1>12. ParentsMove({c})
  <2>1. \A d \in Live : d < c
    BY <1>4 DEF StoreMoves
  <2>2. parent[s] # None => /\ parent[s] \notin MappedConvs /\ parent[s] # c
                            /\ \A v \in Workers : parent[s] \notin WorkingOf(op[v])
    BY <1>2, <2>1, CloneParent
  <2>3. parent[s] # None => \A v \in Workers : parent[s] \notin WorkingOf(op'[v])
    BY <1>1, <1>9, <2>2
  <2> QED BY <1>4, <1>5, <2>2, <2>3 DEF ParentsMove
<1>13. Replaced({})
  BY DEF Replaced
<1> QED BY <1>1, <1>4, <1>5, <1>6, <1>7, <1>9, <1>10, <1>11, <1>12, <1>13, WorkerSteps

\* The last clone of a scrub is alive and its own, and is the one it remembers.
LEMMA MadeIs ==
  ASSUME Orderly, NEW w \in Workers, op[w].do \in {"fork", "digest"}
  PROVE  /\ Made(w) \in Live /\ Made(w) \in ConvIds /\ Made(w) \in Range(op[w].made)
         /\ Made(w) \in WorkingOf(op[w]) /\ Made(w) \notin MappedConvs
         /\ \A v \in Workers : Made(w) \in WorkingOf(op[v]) => v = w
         /\ born[Made(w)] = op[w].birth /\ Serving(w) < Made(w)
<1>1. op[w] \in OpRecord /\ Shaped(op[w])
  BY Reads DEF Orderly, Typed
<1>2. op[w].made \in Seq(ConvIds) /\ Len(op[w].made) >= 1
  BY <1>1 DEF OpRecord, Shaped
<1>3. Len(op[w].made) \in DOMAIN op[w].made
  BY <1>2
<1>4. Made(w) \in Range(op[w].made)
  BY <1>3 DEF Made, Range
<1>5. Made(w) \in WorkingOf(op[w])
  BY <1>4 DEF WorkingOf
<1>6. Made(w) \in Live /\ Made(w) \notin MappedConvs
      /\ \A v \in Workers : Made(w) \in WorkingOf(op[v]) => v = w
  BY <1>5 DEF Orderly, WorkingApart
<1>7. born[Made(w)] = op[w].birth /\ Serving(w) < Made(w)
  BY <1>4 DEF Orderly, ClonesHeld
<1>8. Made(w) \in ConvIds
  BY <1>6 DEF Live
<1> QED BY <1>4, <1>5, <1>6, <1>7, <1>8

LEMMA RegenerateForkOrderly ==
  ASSUME Orderly, Typed', NEW w \in Workers, RegenerateFork(w)
  PROVE  Orderly' /\ [StoreNext]_storeVars
<1> DEFINE s == Made(w)
           o == Span(s, NextHop(w))
<1>0. Typed
  BY DEF Orderly
<1>1. PICK c \in ConvIds :
            /\ Opens(c, o, {}) /\ o \in Opening
            /\ op[w].do = "fork" /\ op[w].temp = None /\ s \in Live
            /\ op'[w].do = "fork" /\ op'[w].made = op[w].made /\ op'[w].temp = c
            /\ op'[w].plans = op[w].plans /\ op'[w].line = op[w].line
            /\ op'[w].birth = op[w].birth
            /\ \A v \in Workers \ {w} : op'[v] = op[v]
            /\ UNCHANGED <<recorded, author, nulled, mapped, served, residual>>
  BY <1>0, RegenerateForkTakes
<1>2. /\ s \in ConvIds /\ s \in Live /\ s \in WorkingOf(op[w])
      /\ \A v \in Workers : s \in WorkingOf(op[v]) => v = w
      /\ born[s] = op[w].birth
  BY <1>1, MadeIs
<1>3. RefOf(o) \in References /\ o.parent = parent[s]
  BY <1>2, References1 DEF Span
<1>4. ClonesHeld(w)
  BY DEF Orderly
<1>5. Made(w)' = s /\ Serving(w)' = Serving(w)
  BY <1>1 DEF Made, Serving
<1> HIDE DEF s, o
<1>6. StoreMoves({c}, {}) /\ StoreNext /\ c \notin Live /\ parent'[c] = parent[s]
  BY <1>1, <1>3, OpensMoves
<1>7. MapMoves({c}, {}) /\ MappedConvs' = MappedConvs
  BY <1>0, <1>1, <1>6, MapRests
<1>8. c \notin MappedConvs'
  BY <1>6, <1>7, MappedIs
<1>9. /\ WorkingOf(op[w]) = Range(op[w].made)
      /\ WorkingOf(op'[w]) = Range(op[w].made) \cup {c}
  BY <1>1 DEF WorkingOf, ConvIds, None
<1>10. op'[w].temp \notin Range(op'[w].made)
  <2>1. \A d \in WorkingOf(op[w]) : d \in Live
    BY DEF Orderly, WorkingApart
  <2> QED BY <1>1, <1>6, <1>9, <2>1
<1>11. \A line \in LinesOf(op'[w]) : LineSound(line)
  <2>1. LinesOf(op'[w]) = LinesOf(op[w])
    BY <1>1 DEF LinesOf
  <2> QED BY <2>1 DEF Orderly, LinesSound
<1>12. ClonesHeld(w)'
  <2>1. born'[s] = born[s]
    BY <1>2, <1>6 DEF StoreMoves
  <2> QED BY <1>1, <1>2, <1>4, <1>5, <2>1 DEF ClonesHeld
<1>13. ParentsMove({c})
  <2>1. ASSUME parent[s] # None
        PROVE  /\ parent[s] \notin MappedConvs /\ parent[s] # c
               /\ \A v \in Workers : parent[s] \in WorkingOf(op[v]) => v = w
    <3>1. parent[s] \notin MappedConvs
          /\ \A v \in Workers : parent[s] \in WorkingOf(op[v]) => s \in WorkingOf(op[v])
      BY <1>2, <2>1, ParentFree
    <3>2. parent[s] < s /\ s < c /\ parent[s] \in ConvIds
      BY <1>2, <1>6, <2>1 DEF Orderly, PointsBelow, Typed, StoreTypeOK, StoreMoves
    <3>3. parent[s] # c
      BY <1>2, <3>2 DEF ConvIds
    <3> QED BY <1>2, <3>1, <3>3
  <2> QED BY <1>1, <1>6, <1>7, <1>9, <2>1 DEF ParentsMove
<1>14. Replaced({})
  BY DEF Replaced
<1> QED BY <1>1, <1>6, <1>7, <1>8, <1>9, <1>10, <1>11, <1>12, <1>13, <1>14, WorkerSteps

LEMMA RegenerateReadOrderly ==
  ASSUME Orderly, Typed', NEW w \in Workers, RegenerateRead(w)
  PROVE  Orderly' /\ [StoreNext]_storeVars
<1> DEFINE t == op[w].temp
<1>0. Typed
  BY DEF Orderly
<1>1. /\ op[w].do = "fork" /\ t \in ConvIds /\ Deletes({t})
      /\ op'[w].do = "digest" /\ op'[w].made = op[w].made /\ op'[w].temp = None
      /\ op'[w].plans = op[w].plans /\ op'[w].line = op[w].line
      /\ op'[w].birth = op[w].birth
      /\ \A v \in Workers \ {w} : op'[v] = op[v]
      /\ UNCHANGED <<recorded, author, nulled, mapped, served, residual>>
  BY <1>0, RegenerateReadTakes
<1>2. t \in WorkingOf(op[w]) /\ t \notin Range(op[w].made)
  BY <1>1 DEF WorkingOf, ConvIds, None, Orderly, TempApart
<1>3. /\ StoreMoves({}, {t}) /\ StoreNext /\ MapMoves({}, {t})
      /\ \A v \in Workers \ {w} : \A c \in WorkingOf(op[v]) : c \notin {t}
      /\ Replaced({t}) /\ ParentsMove({})
  BY <1>1, <1>2, OwnGone
<1>4. /\ WorkingOf(op[w]) = Range(op[w].made) \cup {t}
      /\ WorkingOf(op'[w]) = Range(op[w].made)
  BY <1>1 DEF WorkingOf, ConvIds, None
<1>5. op'[w].temp \notin Range(op'[w].made)
  <2>1. op[w].made \in Seq(ConvIds)
    BY <1>0, Reads DEF OpRecord, Typed
  <2>2. \A d \in Range(op[w].made) : d \in ConvIds
    BY <2>1 DEF Range
  <2> QED BY <1>1, <2>2 DEF ConvIds, None
<1>6. \A line \in LinesOf(op'[w]) : LineSound(line)
  <2>1. LinesOf(op'[w]) = LinesOf(op[w])
    BY <1>1 DEF LinesOf
  <2> QED BY <2>1 DEF Orderly, LinesSound
<1>7. ClonesHeld(w)'
  <2>1. Made(w)' = Made(w) /\ Serving(w)' = Serving(w)
    BY <1>1 DEF Made, Serving
  <2>2. /\ Made(w) \in ConvIds /\ Made(w) \in Range(op[w].made)
        /\ born[Made(w)] = op[w].birth
    BY <1>1, MadeIs
  <2>3. born'[Made(w)] = born[Made(w)]
    BY <1>2, <1>3, <2>2 DEF StoreMoves
  <2>4. ClonesHeld(w)
    BY DEF Orderly
  <2> QED BY <1>1, <2>1, <2>2, <2>3, <2>4 DEF ClonesHeld
<1> QED BY <1>1, <1>2, <1>3, <1>4, <1>5, <1>6, <1>7, WorkerSteps

LEMMA RebuildHopOrderly ==
  ASSUME Orderly, Typed', NEW w \in Workers, RebuildHop(w)
  PROVE  Orderly' /\ [StoreNext]_storeVars
<1> DEFINE s == Made(w)
           o == Rebuilt(w, NextHop(w))
<1>0. Typed
  BY DEF Orderly
<1>1. PICK c \in ConvIds :
            /\ Opens(c, o, {}) /\ o \in Opening
            /\ births + 1 \in Births /\ births' = births + 1
            /\ op[w].do = "digest"
            /\ op'[w].do = "fork" /\ op'[w].made = Append(op[w].made, c)
            /\ op'[w].temp = None
            /\ op'[w].plans = op[w].plans /\ op'[w].line = op[w].line
            /\ op'[w].birth = births + 1
            /\ \A v \in Workers \ {w} : op'[v] = op[v]
            /\ UNCHANGED <<recorded, author, nulled, mapped, served, residual>>
  BY <1>0, RebuildHopTakes
<1>2. /\ s \in ConvIds /\ s \in Live /\ s \in WorkingOf(op[w]) /\ s \notin MappedConvs
      /\ \A v \in Workers : s \in WorkingOf(op[v]) => v = w
      /\ born[s] = op[w].birth /\ Serving(w) < s
  BY <1>1, MadeIs
<1>3. RefOf(o) \in References /\ o.parent = s
  <2>1. o.parent = s /\ o.birth = born[s]
    BY <1>2 DEF Rebuilt
  <2> HIDE DEF s, o
  <2> QED BY <1>2, <2>1, LiveReference
<1>4. ClonesHeld(w) /\ Serving(w) \in ConvIds /\ op[w].temp = None
  <2>1. op[w].temp = None
    BY <1>0, <1>1, Reads DEF Shaped, Typed
  <2> QED BY <1>1, <2>1, ScrubReads DEF Orderly
<1>5. /\ op[w].made \in Seq(ConvIds) /\ Len(op[w].made) \in Nat
  BY <1>0, Reads DEF OpRecord, Typed
<1>6. Made(w)' = c /\ Serving(w)' = Serving(w)
  <2>1. Len(op'[w].made) = Len(op[w].made) + 1 /\ op'[w].made[Len(op[w].made) + 1] = c
    BY <1>1, <1>5, AppendProperties
  <2> QED BY <1>1, <2>1 DEF Made, Serving
<1>7. Range(op'[w].made) = Range(op[w].made) \cup {c}
  <2> DEFINE n == Len(op[w].made)
             more == op'[w].made
  <2>1. /\ DOMAIN more = 1 .. n + 1 /\ more[n + 1] = c
        /\ \A i \in 1 .. n : more[i] = op[w].made[i]
    BY <1>1, <1>5, AppendProperties
  <2>2. DOMAIN op[w].made = 1 .. n /\ n \in Nat
    BY <1>5
  <2> HIDE DEF more, n
  <2>3. \A i \in 1 .. n + 1 : i = n + 1 \/ i \in 1 .. n
    BY <2>2
  <2>4. n + 1 \in 1 .. n + 1 /\ \A i \in 1 .. n : i \in 1 .. n + 1
    BY <2>2
  <2>5. \A d : d \in Range(more) <=> d \in Range(op[w].made) \/ d = c
    BY <2>1, <2>2, <2>3, <2>4 DEF Range
  <2> QED BY <2>5 DEF more
<1> HIDE DEF s, o
<1>8. StoreMoves({c}, {}) /\ StoreNext /\ c \notin Live /\ parent'[c] = s
      /\ born'[c] = births + 1
  BY <1>1, <1>3, OpensMoves
<1>9. MapMoves({c}, {}) /\ MappedConvs' = MappedConvs
  BY <1>0, <1>1, <1>8, MapRests
<1>10. c \notin MappedConvs'
  BY <1>8, <1>9, MappedIs
<1>11. /\ WorkingOf(op[w]) = Range(op[w].made)
       /\ WorkingOf(op'[w]) = Range(op[w].made) \cup {c}
  BY <1>1, <1>4, <1>7 DEF WorkingOf
<1>12. op'[w].temp \notin Range(op'[w].made)
  <2>1. \A d \in Range(op[w].made) : d \in ConvIds
    BY <1>5 DEF Range
  <2> QED BY <1>1, <1>7, <2>1 DEF ConvIds, None
<1>13. \A line \in LinesOf(op'[w]) : LineSound(line)
  <2>1. LinesOf(op'[w]) = LinesOf(op[w])
    BY <1>1 DEF LinesOf
  <2> QED BY <2>1 DEF Orderly, LinesSound
<1>14. ClonesHeld(w)'
  <2>1. \A d \in Range(op[w].made) : Serving(w) < d
    BY <1>1, <1>4 DEF ClonesHeld
  <2>2. s < c
    BY <1>2, <1>8 DEF StoreMoves
  <2>3. Serving(w) < c
    BY <1>2, <1>4, <2>2 DEF ConvIds
  <2> QED BY <1>1, <1>6, <1>7, <1>8, <2>1, <2>3 DEF ClonesHeld
<1>15. ParentsMove({c})
  <2>1. \A v \in Workers : s \in WorkingOf(op'[v]) => v = w \/ s = c
    BY <1>1, <1>2
  <2>2. s # c
    BY <1>2, <1>8
  <2> QED BY <1>2, <1>8, <1>9, <1>11, <2>1, <2>2 DEF ParentsMove
<1>16. Replaced({})
  BY DEF Replaced
<1> QED BY <1>1, <1>8, <1>9, <1>10, <1>11, <1>12, <1>13, <1>14, <1>15, <1>16, WorkerSteps

LEMMA InstallScrubbedOrderly ==
  ASSUME Orderly, Typed', NEW w \in Workers, InstallScrubbedThread(w)
  PROVE  Orderly' /\ [StoreNext]_storeVars
<1> DEFINE s == Made(w)
           o == Rebuilt(w, Serving(w))
           gone == Range(op[w].line)
<1>1. /\ op[w].do = "digest" /\ op[w].ch \in Channels
      /\ mapped[op[w].ch] = Serving(w) /\ Serving(w) \in ConvIds
      /\ o \in Opening /\ ScrubOver(w)
  BY InstallScrubbedTakes DEF Orderly
<1>2. PICK c \in ConvIds : Opens(c, o, gone) /\ Serves(op[w].ch, c)
  BY InstallScrubbedTakes DEF Orderly
<1>3. /\ s \in ConvIds /\ s \in Live /\ s \in WorkingOf(op[w]) /\ s \notin MappedConvs
      /\ \A v \in Workers : s \in WorkingOf(op[v]) => v = w
      /\ born[s] = op[w].birth /\ Serving(w) < s
  BY <1>1, MadeIs
<1>4. Serving(w) \in MappedConvs
  BY <1>1 DEF MappedConvs, ConvIds, None
<1>5. \A d \in gone :
         \/ d = Serving(w)
         \/ /\ d < Serving(w) /\ d \notin MappedConvs
            /\ \A v \in Workers : d \notin WorkingOf(op[v])
  BY <1>1, ScrubReads
<1>6. \A v \in Workers : \A d \in WorkingOf(op[v]) : d \notin gone
  BY <1>4, <1>5, MappedIs
<1>7. RefOf(o) \in References /\ o.parent = s
  <2>1. o.parent = s /\ o.birth = born[s]
    BY <1>3 DEF Rebuilt
  <2> HIDE DEF s, o
  <2> QED BY <1>3, <2>1, LiveReference
<1>8. /\ op'[w].temp = None /\ op'[w].made = <<>>
      /\ \A v \in Workers \ {w} : op'[v] = op[v]
      /\ \A line \in LinesOf(op'[w]) : LineSound(line)
  BY <1>1, RestLines
<1>9. WorkingOf(op'[w]) = {}
  BY <1>8 DEF WorkingOf, Range
<1>10. \A d \in gone : d \in ConvIds
  <2>1. op[w].line \in Seq(ConvIds)
    BY Reads DEF Orderly, Typed
  <2> QED BY <2>1 DEF Range
<1> HIDE DEF s, o, gone
<1>11. StoreMoves({c}, gone) /\ StoreNext /\ c \notin Live /\ parent'[c] = s
  BY <1>2, <1>1, <1>7, OpensMoves
<1>12. /\ MapMoves({c}, gone)
       /\ \A d : d \in MappedConvs' <=>
             d = c \/ (d \in MappedConvs /\ d # mapped[op[w].ch])
  <2>1. \A a \in Channels \ {op[w].ch} : mapped[a] # None => mapped[a] \notin gone
    <3>1. ASSUME NEW a \in Channels \ {op[w].ch}, mapped[a] # None, mapped[a] \in gone
          PROVE  FALSE
      <4>1. mapped[a] \in MappedConvs
        BY <3>1 DEF MappedConvs
      <4>2. mapped[a] = Serving(w)
        BY <1>5, <3>1, <4>1
      <4> QED BY <1>1, <3>1, <4>2 DEF Orderly, MappedApart
    <3> QED BY <3>1
  <2> QED BY <1>1, <1>2, <1>11, <2>1, MapServes
<1>13. s # c /\ s \notin MappedConvs' /\ \A v \in Workers : s \notin WorkingOf(op'[v])
  BY <1>3, <1>8, <1>9, <1>11, <1>12
<1>14. ParentsMove({c})
  BY <1>11, <1>13 DEF ParentsMove
<1>15. Replaced(gone)
  <2>1. PICK v \in ConvIds : v = s
    BY <1>3
  <2>2. v \in Live'
    BY <1>3, <1>6, <1>11, <2>1 DEF StoreMoves
  <2>3. Stands(v)'
    BY <1>13, <2>1, <2>2 DEF Stands
  <2>4. ASSUME NEW u \in ConvIds, Stands(u), u \in gone PROVE u <= v
    <3>1. u < Serving(w)
      BY <1>4, <1>5, <2>4 DEF Stands
    <3>2. u \in Int /\ Serving(w) \in Int /\ v \in Int
      BY <1>1, StoreAssumption DEF ConvIds
    <3> QED BY <1>3, <2>1, <3>1, <3>2
  <2> QED BY <2>3, <2>4 DEF Replaced
<1> QED BY <1>6, <1>8, <1>11, <1>12, <1>14, <1>15, WorkerRests

LEMMA ScrubStandsDownOrderly ==
  ASSUME Orderly, Typed', NEW w \in Workers, ScrubStandsDown(w)
  PROVE  Orderly' /\ [StoreNext]_storeVars
<1> DEFINE gone == Range(op[w].made) \cup ({op[w].temp} \ {None})
<1>1. Deletes(gone) /\ ScrubOver(w) /\ UNCHANGED mapped
  BY DEF ScrubStandsDown
<1>2. gone = WorkingOf(op[w])
  BY DEF WorkingOf
<1> HIDE DEF gone
<1>3. /\ StoreMoves({}, gone) /\ StoreNext /\ MapMoves({}, gone)
      /\ \A v \in Workers \ {w} : \A c \in WorkingOf(op[v]) : c \notin gone
      /\ Replaced(gone) /\ ParentsMove({})
  BY <1>1, <1>2, OwnGone
<1>4. /\ op'[w].temp = None /\ op'[w].made = <<>>
      /\ \A v \in Workers \ {w} : op'[v] = op[v]
      /\ \A line \in LinesOf(op'[w]) : LineSound(line)
  BY <1>1, RestLines
<1> QED BY <1>3, <1>4, WorkerRests

LEMMA EraseOrderly ==
  ASSUME Orderly, Typed', NEW w \in Workers, NEW p \in People, Erase(w, p)
  PROVE  Orderly' /\ [StoreNext]_storeVars
<1> DEFINE gone == DirectConversationsOf(p)
<1>0. Typed
  BY DEF Orderly
<1>1. /\ Deletes(gone)
      /\ mapped' = [ch \in Channels |-> IF mapped[ch] \in gone THEN None ELSE mapped[ch]]
      /\ op'[w].do \in {"idle", "erase"} /\ op'[w].made = <<>> /\ op'[w].temp = None
      /\ op'[w].plans = LineagesOf(p)
      /\ \A v \in Workers \ {w} : op'[v] = op[v]
  BY <1>0, EraseTakes
<1>2. \A d \in gone : d \in MappedConvs
  BY SessionsAssumption DEF DirectConversationsOf, MappedConvs
<1> HIDE DEF gone
<1>3. StoreMoves({}, gone) /\ StoreNext
  BY <1>1, DeletesMoves
<1>4. MapMoves({}, gone)
  BY <1>1 DEF MapMoves
<1>5. \A v \in Workers \ {w} : \A c \in WorkingOf(op[v]) : c \notin gone
  BY <1>2, MappedIs
<1>6. Replaced(gone) /\ ParentsMove({})
  <2>1. Replaced(gone)
    BY <1>2, NothingToReplace
  <2> QED BY <2>1 DEF ParentsMove
<1>7. \A line \in LinesOf(op'[w]) : LineSound(line)
  <2>1. ASSUME NEW line \in LinesOf(op'[w]) PROVE LineSound(line)
    <3>1. PICK plan \in LineagesOf(p) : line = plan.line
      BY <1>1, <2>1 DEF LinesOf
    <3>2. PICK c \in MappedConvs : plan.line = Lineage(c) /\ Len(plan.line) >= 2
      BY <1>0, <3>1, LineagesTyped
    <3> QED BY <3>1, <3>2, ReadLineSound
  <2> QED BY <2>1
<1> QED BY <1>1, <1>3, <1>4, <1>5, <1>6, <1>7, WorkerRests

LEMMA CrashOrderly ==
  ASSUME Orderly, Typed', Crash
  PROVE  Orderly' /\ [StoreNext]_storeVars
<1>1. ProcessEnds /\ UNCHANGED storeVars /\ UNCHANGED mapped
  BY DEF Crash
<1>2. \A w \in Workers : op'[w] = Idle
  BY <1>1, AllIdle DEF Orderly, Typed
<1>3. StoreMoves({}, {}) /\ MapMoves({}, {})
  BY <1>1, StoreRests, MapRests DEF Orderly
<1>4. Replaced({}) /\ ParentsMove({})
  BY DEF Replaced, ParentsMove
<1> QED BY <1>1, <1>2, <1>3, <1>4, AllStop

LEMMA SwapTornOrderly ==
  ASSUME Orderly, Typed', NEW w \in Workers, NEW ch \in Channels, SwapTorn(w, ch)
  PROVE  Orderly' /\ [StoreNext]_storeVars
<1>0. Typed
  BY DEF Orderly
<1>1. PICK c \in ConvIds, o \in Opening : Torn(w, ch, c, o) /\ Opens(c, o, {})
  BY <1>0, SwapTornTakes
<1>2. mapped' = [mapped EXCEPT ![ch] = None] /\ ProcessEnds
  BY <1>0, SwapTornTakes
<1>3. \A v \in Workers : op'[v] = Idle
  BY <1>0, <1>2, AllIdle DEF Typed
<1>4. \A v \in Workers : WorkingOf(op'[v]) = {}
  BY <1>3, IdleIs DEF WorkingOf, Range
<1>5. /\ mapped'[ch] = None
      /\ \A a \in Channels \ {ch} : mapped'[a] = mapped[a]
  BY <1>0, <1>2 DEF Typed, Contents
<1>6. MapMoves({c}, {}) \/ c \in Live
  <2>1. \A a \in Channels : mapped[a] # None => mapped[a] \in Live
    BY DEF Orderly, MappedApart
  <2>2. c # None
    BY DEF ConvIds, None
  <2> QED BY <1>5, <2>1, <2>2 DEF MapMoves
<1>7. \A d : d \in MappedConvs' => d \in MappedConvs /\ d # mapped[ch]
  BY <1>5 DEF MappedConvs, Orderly, MappedApart
<1>8. op[w].strip \in SUBSET Msgs /\ mapped \in [Channels -> ConvIds \cup {None}]
  BY <1>0, Reads DEF Typed, Contents
<1>9. /\ RefOf(o) \in References
      /\ o.parent # None => o.parent \notin MappedConvs \/ o.parent = mapped[ch]
  <2>1. ASSUME op[w].do = "install", mapped[ch] = op[w].line[1], o = CompactedThread(w)
        PROVE  /\ RefOf(o) \in References
               /\ o.parent # None => o.parent \notin MappedConvs \/ o.parent = mapped[ch]
    <3>1. o.parent = mapped[ch] /\ o.birth = born[mapped[ch]]
      BY <2>1 DEF CompactedThread
    <3>2. mapped[ch] \in ConvIds
      BY <1>0, <2>1, Reads DEF Shaped, Typed
    <3>3. mapped[ch] \in Live
      BY <3>2 DEF Orderly, MappedApart, ConvIds, None
    <3> QED BY <3>1, <3>3, LiveReference
  <2>2. ASSUME op[w].do = "strip", mapped[ch] = Serving(w),
               o = Clone(Serving(w), op[w].strip)
        PROVE  /\ RefOf(o) \in References
               /\ o.parent # None => o.parent \notin MappedConvs \/ o.parent = mapped[ch]
    <3>1. Serving(w) \in ConvIds
      BY <1>0, <2>2, Reads DEF Shaped, Typed
    <3>2. RefOf(o) \in References /\ o.parent = parent[Serving(w)]
      BY <2>2, <3>1, References1 DEF Clone
    <3> QED BY <3>1, <3>2, ParentFree
  <2>3. ASSUME op[w].do = "digest", mapped[ch] = Serving(w), o = Rebuilt(w, Serving(w))
        PROVE  /\ RefOf(o) \in References
               /\ o.parent # None => o.parent \notin MappedConvs \/ o.parent = mapped[ch]
    <3>1. /\ Made(w) \in Live /\ Made(w) \notin MappedConvs
          /\ born[Made(w)] = op[w].birth
      BY <2>3, MadeIs
    <3>2. o.parent = Made(w) /\ o.birth = born[Made(w)]
      BY <2>3, <3>1 DEF Rebuilt
    <3> QED BY <3>1, <3>2, LiveReference
  <2> QED BY <1>1, <2>1, <2>2, <2>3 DEF Torn
<1>10. StoreMoves({c}, {}) /\ StoreNext /\ c \notin Live /\ parent'[c] = o.parent
  BY <1>1, <1>9, OpensMoves
<1>11. ParentsMove({c})
  BY <1>4, <1>7, <1>9, <1>10 DEF ParentsMove
<1>12. Replaced({})
  BY DEF Replaced
<1> QED BY <1>3, <1>6, <1>10, <1>11, <1>12, AllStop

\* The sweep deletes what a scrub built without its asking: the sessions keep
\* to the store's rules while it stays away from them.
LEMMA NextOrderly ==
  ASSUME "expire" \notin Ops
  PROVE  Orderly /\ [Next]_vars => Orderly' /\ [StoreNext]_storeVars
<1> SUFFICES ASSUME Orderly, [Next]_vars PROVE Orderly' /\ [StoreNext]_storeVars
  OBVIOUS
<1>0. Typed'
  BY NextTyped DEF Orderly
<1>1. ASSUME NEW w \in Workers, Starts(w) PROVE Orderly' /\ [StoreNext]_storeVars
  BY <1>0, <1>1, CompactOrderly, StripOrderly, EraseOrderly DEF Starts
<1>2. ASSUME NEW w \in Workers, Proceeds(w) PROVE Orderly' /\ [StoreNext]_storeVars
  BY <1>0, <1>2, CaptureOrderly, InstallCompactedOrderly, ReplaceOrderly,
     CloneFailsOrderly, StandDownOrderly, ScrubBeginsOrderly, RegenerateForkOrderly,
     RegenerateReadOrderly, RebuildHopOrderly, InstallScrubbedOrderly,
     ScrubStandsDownOrderly
  DEF Proceeds
<1>3. ASSUME NEW c \in ConvIds, Expire(c) PROVE FALSE
  BY <1>3 DEF Expire
<1>4. CASE UNCHANGED vars
  <2>1. UNCHANGED storeVars /\ UNCHANGED mapped /\ UNCHANGED op
    BY <1>4 DEF vars
  <2>2. StoreMoves({}, {}) /\ MapMoves({}, {})
    BY <2>1, StoreRests, MapRests DEF Orderly
  <2>3. ParentsMove({}) /\ Replaced({})
    BY DEF ParentsMove, Replaced
  <2> QED BY <1>0, <2>1, <2>2, <2>3, OthersStep
<1> QED BY <1>0, <1>1, <1>2, <1>3, <1>4, MessagesOrderly, CrashOrderly, SwapTornOrderly
        DEF Next

LEMMA InitOrderly == Init => Orderly
<1> SUFFICES ASSUME Init PROVE Orderly
  OBVIOUS
<1>1. Typed /\ PointsBelow /\ NeverAStranger
  BY InitTyped, InitIInv DEF Init, IInv
<1>2. FreeNameNothing /\ \A c \in ConvIds : c \notin Live
  BY DEF Init, StoreInit, FreeNameNothing, Live, None
<1>3. MappedApart
  BY DEF Init, MappedApart
<1>4. \A w \in Workers : op[w] = Idle
  BY DEF Init
<1>5. WorkingOf(Idle) = {} /\ LinesOf(Idle) = {} /\ Range(Idle.made) = {}
  BY IdleIs DEF WorkingOf, LinesOf, Range
<1>6. WorkingApart /\ TempApart /\ LinesSound
  BY <1>4, <1>5 DEF WorkingApart, TempApart, LinesSound
<1>7. ParentsStand
  BY <1>2 DEF ParentsStand, Live
<1>8. \A w \in Workers : ClonesHeld(w)
  BY <1>4, IdleIs DEF ClonesHeld
<1> QED BY <1>1, <1>2, <1>3, <1>6, <1>7, <1>8 DEF Orderly

\* What a compaction, a scrub and a swap rely on, at every step.
THEOREM SessionsOrderly ==
  ASSUME "expire" \notin Ops
  PROVE  Spec => []Orderly
<1>1. Orderly /\ [Next]_vars => Orderly'
  BY NextOrderly
<1> QED BY <1>1, InitOrderly, PTL DEF Spec

\* Every step of the sessions is a step of the store's, or none: its ids are
\* issued and its references written as ConversationStore describes
\* (session.rs, lineage.rs).
THEOREM SessionsKeepTheStore ==
  ASSUME "expire" \notin Ops
  PROVE  Spec => StoreKept
<1>1. Init => StoreInit
  BY DEF Init
<1>2. Orderly /\ [Next]_vars => [StoreNext]_storeVars
  BY NextOrderly
<1> QED BY <1>1, <1>2, SessionsOrderly, PTL DEF Spec, StoreKept, StoreSpec

\* So a lineage walk goes down, and never reads a stranger's ledger.
THEOREM SessionsLineageSound ==
  ASSUME "expire" \notin Ops
  PROVE  Spec => []LineageSound
<1>1. Orderly => LineageSound
  BY DEF Orderly, LineageSound
<1> QED BY <1>1, SessionsOrderly, PTL

-----------------------------------------------------------------------------
(* What a step does, value by value.                                         *)

\* Beside what is created and what is deleted, conversations stay as they are.
Kept(created, gone) ==
    \A d \in ConvIds : d \notin created =>
        /\ born'[d] = IF d \in gone THEN None ELSE born[d]
        /\ parent'[d] = IF d \in gone THEN None ELSE parent[d]
        /\ parentBirth'[d] = IF d \in gone THEN None ELSE parentBirth[d]
        /\ ledger'[d] = IF d \in gone THEN {} ELSE ledger[d]
        /\ digest'[d] = IF d \in gone THEN {} ELSE digest[d]

OpenedAs(c, o, gone) ==
    /\ c \in ConvIds /\ c \notin Live /\ (\A d \in Live : d < c)
    /\ StoreMoves({c}, gone) /\ Kept({c}, gone)
    /\ born'[c] = births + 1 /\ births + 1 \in Births /\ births' = births + 1
    /\ parent'[c] = o.parent /\ parentBirth'[c] = o.birth
    /\ ledger'[c] = o.ledger /\ digest'[c] = o.digest

LEMMA OpenedIs ==
  ASSUME Orderly, NEW c \in ConvIds, NEW o \in Opening, RefOf(o) \in References, NEW gone,
         Opens(c, o, gone)
  PROVE  OpenedAs(c, o, gone)
<1>0. StoreTypeOK /\ Contents
  BY DEF Orderly, Typed
<1>1. StoreMoves({c}, gone) /\ c \notin Live /\ born'[c] = births + 1 /\ parent'[c] = o.parent
  BY OpensMoves
<1>2. \A d \in Live : d < c
  BY <1>1 DEF StoreMoves
<1>3. births + 1 \in Births /\ births' = births + 1
  BY <1>0, OpensTyped
<1>4. parentBirth'[c] = o.birth /\ ledger'[c] = o.ledger /\ digest'[c] = o.digest
  BY DEF Opens, OpenedAndDropped
<1>5. Kept({c}, gone)
  BY DEF Opens, OpenedAndDropped, Kept
<1> QED BY <1>1, <1>2, <1>3, <1>4, <1>5 DEF OpenedAs

DeletedAs(gone) == StoreMoves({}, gone) /\ Kept({}, gone) /\ births' = births

LEMMA DeletedIs ==
  ASSUME Orderly, NEW gone, Deletes(gone)
  PROVE  DeletedAs(gone)
<1>1. StoreMoves({}, gone)
  BY DeletesMoves
<1>2. Kept({}, gone) /\ births' = births
  BY DEF Deletes, Dropped, Kept
<1> QED BY <1>1, <1>2 DEF DeletedAs

LEMMA RestedIs ==
  ASSUME Orderly, UNCHANGED storeVars, UNCHANGED <<ledger, digest>>
  PROVE  DeletedAs({})
<1>1. StoreMoves({}, {})
  BY StoreRests
<1>2. Kept({}, {}) /\ births' = births
  BY DEF storeVars, Kept
<1> QED BY <1>1, <1>2 DEF DeletedAs

\* Channel ch is served by c, which is new.
ServedBy(ch, c) ==
    /\ mapped'[ch] = c /\ \A a \in Channels \ {ch} : mapped'[a] = mapped[a]
    /\ served' = served \cup {births + 1}
    /\ \A d : d \in MappedConvs' <=> d = c \/ (d \in MappedConvs /\ d # mapped[ch])

LEMMA ServedIs ==
  ASSUME Orderly, NEW ch \in Channels, NEW c \in ConvIds, c \notin Live, Serves(ch, c)
  PROVE  ServedBy(ch, c)
<1>1. mapped \in [Channels -> ConvIds \cup {None}]
  BY DEF Orderly, Typed, Contents
<1>2. mapped'[ch] = c /\ \A a \in Channels \ {ch} : mapped'[a] = mapped[a]
  BY <1>1 DEF Serves
<1>3. \A d : d \in MappedConvs' <=> d = c \/ (d \in MappedConvs /\ d # mapped[ch])
  BY MapServesOnly
<1> QED BY <1>2, <1>3 DEF Serves, ServedBy

Others(w) == \A v \in Workers \ {w} : op'[v] = op[v]

\* A channel's steps.
LEMMA FreshDoes ==
  ASSUME Orderly, NEW ch \in Channels, FirstContact(ch) \/ Wipe(ch)
  PROVE  \E c \in ConvIds : OpenedAs(c, Blank, {}) /\ ServedBy(ch, c)
<1>1. PICK c \in ConvIds : Opens(c, Blank, {}) /\ Serves(ch, c)
  BY DEF FirstContact, Wipe
<1>2. OpenedAs(c, Blank, {})
  BY <1>1, Openings, References1, OpenedIs DEF Orderly, Typed
<1>3. ServedBy(ch, c)
  BY <1>1, <1>2, ServedIs DEF OpenedAs
<1> QED BY <1>2, <1>3

LEMMA MapFailsDoes ==
  ASSUME Orderly, NEW ch \in Channels, MapNewChannelFails(ch)
  PROVE  \E c \in ConvIds : OpenedAs(c, Blank, {})
<1>1. PICK c \in ConvIds : Opens(c, Blank, {})
  BY DEF MapNewChannelFails
<1> QED BY <1>1, Openings, References1, OpenedIs DEF Orderly, Typed

LEMMA IngestDoes ==
  ASSUME Orderly, NEW ch \in Channels, NEW p \in People, Ingest(ch, p)
  PROVE  /\ mapped[ch] \in MappedConvs /\ mapped[ch] \in ConvIds /\ mapped[ch] \in Live
         /\ recorded + 1 \in Msgs
         /\ ledger'[mapped[ch]] = ledger[mapped[ch]] \cup {recorded + 1}
         /\ \A d \in ConvIds : d # mapped[ch] => ledger'[d] = ledger[d]
         /\ StoreMoves({}, {})
         /\ born' = born /\ parent' = parent /\ parentBirth' = parentBirth
<1>1. mapped[ch] \in MappedConvs
  BY DEF Ingest, MappedConvs
<1>2. mapped[ch] \in ConvIds /\ mapped[ch] \in Live
  BY <1>1, MappedIs
<1>3. recorded + 1 \in Msgs
  BY SessionsAssumption DEF Ingest, Orderly, Typed, Contents, Msgs
<1>4. StoreMoves({}, {})
  BY StoreRests DEF Ingest
<1> QED BY <1>1, <1>2, <1>3, <1>4 DEF Ingest, Orderly, Typed, Contents, storeVars

LEMMA RetireStaleDoes ==
  ASSUME Orderly, NEW ch \in Channels, RetireStaleChannel(ch)
  PROVE  /\ mapped[ch] \in MappedConvs
         /\ \A w \in Workers : op[w] = Idle
         /\ \E c \in ConvIds : OpenedAs(c, Clone(mapped[ch], {}), {}) /\ ServedBy(ch, c)
<1> DEFINE s == mapped[ch]
           o == Clone(s, {})
<1>1. PICK c \in ConvIds : Opens(c, o, {}) /\ Serves(ch, c)
  BY DEF RetireStaleChannel
<1>2. s \in MappedConvs
  BY DEF RetireStaleChannel, MappedConvs
<1>3. s \in ConvIds
  BY <1>2, MappedIs
<1>4. o \in Opening /\ RefOf(o) \in References
  BY <1>3, Openings, References1 DEF Orderly, Typed
<1>5. \A w \in Workers : op[w] = Idle
  BY DEF RetireStaleChannel
<1> HIDE DEF s, o
<1>6. OpenedAs(c, o, {})
  BY <1>1, <1>4, OpenedIs
<1>7. ServedBy(ch, c)
  BY <1>1, <1>6, ServedIs DEF OpenedAs
<1> QED BY <1>2, <1>5, <1>6, <1>7 DEF s, o

\* A worker's steps.
LEMMA CompactDoes ==
  ASSUME Orderly, NEW w \in Workers, NEW ch \in Channels, Compact(w, ch)
  PROVE  /\ mapped[ch] \in MappedConvs /\ mapped[ch] \in ConvIds
         /\ op[w].do = "idle" /\ WorkingOf(op[w]) = {}
         /\ \E c \in ConvIds, cut \in ledger[mapped[ch]] :
               /\ OpenedAs(c, [Clone(mapped[ch], {}) EXCEPT
                                 !.ledger = {m \in ledger[mapped[ch]] : m <= cut}], {})
               /\ op'[w] = Compacting(ch, c, cut)
               /\ WorkingOf(op'[w]) = {c} /\ LinesOf(op'[w]) = {}
         /\ Others(w)
<1> DEFINE s == mapped[ch]
<1>0. Typed /\ StoreTypeOK /\ Contents
  BY DEF Orderly, Typed
<1>1. s \in MappedConvs
  BY DEF Compact, MappedConvs
<1>2. s \in ConvIds
  BY <1>1, MappedIs
<1>3. PICK c \in ConvIds, cut \in ledger[s] :
        /\ Opens(c, [Clone(s, {}) EXCEPT !.ledger = {m \in ledger[s] : m <= cut}], {})
        /\ Takes(w, Compacting(ch, c, cut))
  BY DEF Compact, Takes, Compacting
<1>4. ledger[s] \subseteq Msgs
  BY <1>0, <1>2 DEF Contents
<1> DEFINE o == [Clone(s, {}) EXCEPT !.ledger = {m \in ledger[s] : m <= cut}]
           r == Compacting(ch, c, cut)
<1>5. o \in Opening /\ RefOf(o) \in References
  <2>1. Clone(s, {}) \in Opening
    BY <1>0, <1>2, Openings
  <2>2. o \in Opening
    BY <1>4, <2>1 DEF Opening
  <2>3. o.parent = parent[s] /\ o.birth = parentBirth[s]
    BY DEF Clone
  <2>4. RefOf(Clone(s, {})) \in References
    BY <1>2, References1
  <2>5. RefOf(Clone(s, {})) = RefOf(o)
    BY <2>3 DEF RefOf, Clone
  <2> QED BY <2>2, <2>4, <2>5
<1>6. /\ r \in OpRecord /\ Shaped(r)
      /\ r.do = "capture" /\ r.made = <<>> /\ r.temp = c /\ r.plans = {}
  BY <1>0, <1>2, <1>4, CompactingIs
<1> HIDE DEF s, o, r
<1>7. OpenedAs(c, o, {})
  BY <1>3, <1>5, OpenedIs DEF o
<1>8. op'[w] = r /\ Others(w)
  BY <1>3, <1>6, OpTakes DEF r, Orderly, Typed, Others
<1>9. WorkingOf(op[w]) = {} /\ op[w].do = "idle"
  <2>1. op[w].do = "idle"
    BY DEF Compact
  <2> QED BY <1>0, <2>1, Reads DEF WorkingOf, Range, Shaped, Typed
<1>10. WorkingOf(op'[w]) = {c} /\ LinesOf(op'[w]) = {}
  BY <1>6, <1>8 DEF WorkingOf, LinesOf, Range, ConvIds, None
<1> QED BY <1>1, <1>2, <1>7, <1>8, <1>9, <1>10 DEF s, o, r

\* The fields a step leaves alone.
Same(r, q) ==
    /\ r.line = q.line /\ r.strip = q.strip /\ r.made = q.made /\ r.birth = q.birth
    /\ r.ch = q.ch /\ r.cut = q.cut /\ r.plans = q.plans

LEMMA CaptureDoes ==
  ASSUME Orderly, NEW w \in Workers, CaptureAndRetire(w)
  PROVE  /\ op[w].do = "capture" /\ op[w].temp \in ConvIds
         /\ DeletedAs({op[w].temp})
         /\ WorkingOf(op[w]) = {op[w].temp} /\ WorkingOf(op'[w]) = {}
         /\ op'[w].do = "install" /\ op'[w].temp = None /\ Same(op'[w], op[w])
         /\ op'[w].words = Readable(ledger[op[w].temp], digest[op[w].temp])
         /\ LinesOf(op'[w]) = LinesOf(op[w])
         /\ Others(w)
<1>0. Typed /\ Operations
  BY DEF Orderly, Typed
<1>1. Deletes({op[w].temp}) /\ op[w].do = "capture"
  BY DEF CaptureAndRetire
<1>2. op[w] \in OpRecord /\ Shaped(op[w]) /\ op[w].temp \in ConvIds /\ op[w].made = <<>>
  BY <1>0, <1>1, Reads DEF OpRecord, Shaped
<1> DEFINE r == HasRead(w, "install", Readable(ledger[op[w].temp], digest[op[w].temp]))
<1>3. Takes(w, r)
  BY DEF CaptureAndRetire, Takes, HasRead
<1>4. /\ r \in OpRecord /\ Shaped(r)
      /\ r.do = "install" /\ r.temp = None
  BY <1>0, <1>1, <1>2, ReadableTyped, HasReadIs DEF Typed
<1>5. Same(r, op[w]) /\ r.words = Readable(ledger[op[w].temp], digest[op[w].temp])
  BY <1>2 DEF HasRead, Same, OpRecord
<1> HIDE DEF r
<1>6. op'[w] = r /\ Others(w)
  BY <1>0, <1>3, <1>4, OpTakes DEF Others
<1>7. WorkingOf(op[w]) = {op[w].temp} /\ WorkingOf(op'[w]) = {}
  BY <1>2, <1>4, <1>5, <1>6 DEF WorkingOf, Range, ConvIds, None, Same
<1>8. LinesOf(op'[w]) = LinesOf(op[w])
  BY <1>1, <1>4, <1>5, <1>6 DEF LinesOf, Same
<1> QED BY <1>1, <1>2, <1>4, <1>5, <1>6, <1>7, <1>8, DeletedIs

\* What a worker that is done, or goes on with an erasure's other lineages, holds.
LEMMA RestDoes ==
  ASSUME Orderly, NEW w \in Workers, Idles(w) \/ ScrubOver(w)
  PROVE  /\ op'[w].do \in {"idle", "erase"} /\ op'[w].made = <<>> /\ op'[w].temp = None
         /\ op'[w].strip = {} /\ op'[w].words = {} /\ op'[w].line = <<>>
         /\ op'[w].plans \subseteq op[w].plans
         /\ ScrubOver(w) => op'[w].plans = op[w].plans
         /\ op'[w].do = "idle" => op'[w].plans = {}
         /\ WorkingOf(op'[w]) = {} /\ LinesOf(op'[w]) \subseteq LinesOf(op[w])
         /\ Others(w)
<1>0. Operations
  BY DEF Orderly, Typed
<1>1. /\ op'[w].do \in {"idle", "erase"} /\ op'[w].made = <<>> /\ op'[w].temp = None
      /\ op'[w].plans \subseteq op[w].plans /\ Others(w)
  BY <1>0, Rests DEF Others
<1>2. op \in [Workers -> OpRecord]
  BY <1>0 DEF Operations
<1>3. ASSUME Idles(w)
      PROVE  /\ op'[w].strip = {} /\ op'[w].words = {} /\ op'[w].line = <<>>
             /\ op'[w].plans = {}
  <2>1. op'[w] = Idle
    BY <1>2, <1>3 DEF Idles
  <2> QED BY <2>1 DEF Idle
<1>4. ASSUME ScrubOver(w)
      PROVE  /\ op'[w].strip = {} /\ op'[w].words = {} /\ op'[w].line = <<>>
             /\ op'[w].plans = op[w].plans
             /\ op'[w].do = "idle" => op'[w].plans = {}
  <2>1. op'[w] = IF op[w].plans = {} THEN Idle
                 ELSE [Idle EXCEPT !.do = "erase", !.plans = op[w].plans]
    BY <1>2, <1>4 DEF ScrubOver
  <2>2. CASE op[w].plans = {}
    BY <2>1, <2>2 DEF Idle
  <2>3. CASE op[w].plans # {}
    <3> DEFINE r == [Idle EXCEPT !.do = "erase", !.plans = op[w].plans]
    <3>1. op'[w] = r
      BY <2>1, <2>3
    <3>2. /\ r.strip = {} /\ r.words = {} /\ r.line = <<>> /\ r.plans = op[w].plans
          /\ r.do = "erase"
      BY DEF Idle
    <3> HIDE DEF r
    <3> QED BY <3>1, <3>2
  <2> QED BY <2>2, <2>3
<1>5. /\ op'[w].strip = {} /\ op'[w].words = {} /\ op'[w].line = <<>>
      /\ op'[w].do = "idle" => op'[w].plans = {}
  BY <1>3, <1>4
<1>6. WorkingOf(op'[w]) = {} /\ LinesOf(op'[w]) \subseteq LinesOf(op[w])
  BY <1>1 DEF WorkingOf, LinesOf, Range
<1> QED BY <1>1, <1>4, <1>5, <1>6

LEMMA UnsummarizedDoes ==
  ASSUME Orderly, NEW w \in Workers, Unsummarized(w)
  PROVE  /\ op[w].do = "capture" /\ op[w].temp \in ConvIds
         /\ DeletedAs({op[w].temp}) /\ WorkingOf(op[w]) = {op[w].temp}
         /\ Idles(w)
<1>1. Deletes({op[w].temp}) /\ op[w].do = "capture" /\ Idles(w)
  BY DEF Unsummarized
<1>2. op[w].temp \in ConvIds /\ op[w].made = <<>>
  BY <1>1, Reads DEF OpRecord, Shaped, Orderly, Typed
<1>3. WorkingOf(op[w]) = {op[w].temp}
  BY <1>2 DEF WorkingOf, Range, ConvIds, None
<1> QED BY <1>1, <1>2, <1>3, DeletedIs

\* A stage that has made nothing yet.
LEMMA NothingMade ==
  ASSUME Orderly, NEW w \in Workers, op[w].do \in {"idle", "install", "strip", "erase", "scrub"}
  PROVE  WorkingOf(op[w]) = {} /\ op[w].temp = None /\ op[w].made = <<>>
  BY Reads DEF WorkingOf, Range, Shaped, Orderly, Typed

LEMMA InstallDoes ==
  ASSUME Orderly, NEW w \in Workers, InstallCompactedThread(w)
  PROVE  /\ op[w].do = "install" /\ op[w].ch \in Channels /\ op[w].line[1] \in MappedConvs
         /\ op[w].line[1] \in ConvIds /\ mapped[op[w].ch] = op[w].line[1]
         /\ Idles(w) /\ WorkingOf(op[w]) = {}
         /\ \E c \in ConvIds : OpenedAs(c, CompactedThread(w), {}) /\ ServedBy(op[w].ch, c)
<1> DEFINE s == op[w].line[1]
           o == CompactedThread(w)
<1>0. Typed /\ op[w].do = "install" /\ mapped[op[w].ch] = s /\ Idles(w)
  BY DEF Orderly, InstallCompactedThread
<1>1. op[w].ch \in Channels /\ s \in ConvIds
  BY <1>0, Reads DEF Typed, Shaped
<1>2. PICK c \in ConvIds : Opens(c, o, {}) /\ Serves(op[w].ch, c)
  BY DEF InstallCompactedThread
<1>3. s \in MappedConvs
  BY <1>0, <1>1 DEF MappedConvs, ConvIds, None
<1>4. s \in Live
  BY <1>3, MappedIs
<1>5. o \in Opening /\ o.parent = s /\ o.birth = born[s]
  BY <1>0, CompactedThreadTyped DEF CompactedThread
<1> HIDE DEF s, o
<1>6. RefOf(o) \in References
  BY <1>4, <1>5, LiveReference
<1>7. OpenedAs(c, o, {})
  BY <1>2, <1>5, <1>6, OpenedIs
<1>8. ServedBy(op[w].ch, c)
  BY <1>1, <1>2, <1>7, ServedIs DEF OpenedAs
<1> QED BY <1>0, <1>1, <1>3, <1>7, <1>8, NothingMade DEF s, o

LEMMA StripDoes ==
  ASSUME Orderly, NEW w \in Workers, NEW ch \in Channels, NEW m \in Msgs,
         StripFromView(w, ch, m)
  PROVE  LET line == Lineage(mapped[ch])
             below == UNION {ledger[c] : c \in Range(Front(line))}
         IN /\ mapped[ch] \in MappedConvs /\ mapped[ch] \in ConvIds
            /\ op[w].do = "idle" /\ WorkingOf(op[w]) = {}
            /\ m \in ledger[mapped[ch]] \cup below
            /\ op'[w] = Retracting(IF m \in below THEN "scrub" ELSE "strip", line, {m})
            /\ WorkingOf(op'[w]) = {}
            /\ \/ m \notin below /\ op'[w].do = "strip" /\ LinesOf(op'[w]) = {}
               \/ /\ m \in below /\ op'[w].do = "scrub" /\ Len(line) >= 2
                  /\ LinesOf(op'[w]) = {line}
            /\ op'[w].line = line /\ op'[w].strip = {m} /\ op'[w].plans = {}
            /\ op'[w].made = <<>> /\ op'[w].temp = None /\ op'[w].words = {}
            /\ Others(w)
<1> DEFINE line == Lineage(mapped[ch])
           below == UNION {ledger[c] : c \in Range(Front(line))}
           stage == IF m \in below THEN "scrub" ELSE "strip"
           r == Retracting(stage, line, {m})
<1>0. Typed /\ Operations
  BY DEF Orderly, Typed
<1>1. mapped[ch] \in MappedConvs
  BY DEF StripFromView, MappedConvs
<1>2. mapped[ch] \in ConvIds
  BY <1>1, MappedIs
<1>3. /\ op[w].do = "idle" /\ m \in ledger[mapped[ch]] \cup below
      /\ Takes(w, r)
  BY DEF StripFromView, Takes, Retracting
<1>4. line \in Seq(ConvIds) /\ Len(line) >= 1
  BY <1>2, LineageClimbs DEF Climbs
<1>5. m \in below => Len(line) >= 2
  <2>1. m \in below => Range(Front(line)) # {}
    OBVIOUS
  <2> HIDE DEF line, below
  <2> QED BY <1>4, <2>1, FrontHolds DEF below
<1>6. stage \in {"strip", "scrub"} /\ {m} \in SUBSET Msgs /\ (m \in below <=> stage = "scrub")
  OBVIOUS
<1> HIDE DEF line, below, stage
<1>7. /\ r \in OpRecord /\ Shaped(r)
      /\ r.do = stage /\ r.made = <<>> /\ r.temp = None /\ r.plans = {}
      /\ r.line = line
  BY <1>4, <1>5, <1>6, RetractingIs
<1>8. r.strip = {m} /\ r.words = {}
  BY DEF Retracting, Idle
<1>10. r = Retracting(stage, line, {m})
  OBVIOUS
<1> HIDE DEF r
<1>9. op'[w] = r /\ Others(w)
  BY <1>0, <1>3, <1>7, OpTakes DEF Others
<1>11. WorkingOf(op'[w]) = {}
  BY <1>7, <1>9 DEF WorkingOf, Range
<1>12. \/ m \notin below /\ op'[w].do = "strip" /\ LinesOf(op'[w]) = {}
       \/ m \in below /\ op'[w].do = "scrub" /\ Len(line) >= 2 /\ LinesOf(op'[w]) = {line}
  BY <1>5, <1>6, <1>7, <1>9 DEF LinesOf
<1> QED BY <1>1, <1>2, <1>3, <1>7, <1>8, <1>9, <1>10, <1>11, <1>12, NothingMade
        DEF line, below, stage

LEMMA ReplaceDoes ==
  ASSUME Orderly, NEW w \in Workers, ReplaceWithClone(w)
  PROVE  /\ op[w].do = "strip" /\ Idles(w) /\ WorkingOf(op[w]) = {}
         /\ Serving(w) \in ConvIds
         /\ \/ /\ Serving(w) \notin MappedConvs
               /\ UNCHANGED <<storeVars, ledger, digest, mapped, served>>
            \/ /\ Serving(w) \in MappedConvs
               /\ \E ch \in Channels, c \in ConvIds :
                     /\ mapped[ch] = Serving(w)
                     /\ OpenedAs(c, Clone(Serving(w), op[w].strip), {Serving(w)})
                     /\ ServedBy(ch, c)
<1> DEFINE s == Serving(w)
           o == Clone(s, op[w].strip)
           ch == ChannelOf(s)
<1>0. Typed /\ op[w].do = "strip" /\ Idles(w)
  BY DEF Orderly, ReplaceWithClone
<1>1. Serving(w) \in ConvIds /\ op[w].strip \in SUBSET Msgs
  BY <1>0, Reads DEF Typed, Shaped
<1>3. ASSUME s \in MappedConvs, NEW c \in ConvIds, Opens(c, o, {s}), Serves(ch, c)
      PROVE  ch \in Channels /\ mapped[ch] = s /\ OpenedAs(c, o, {s}) /\ ServedBy(ch, c)
  <2>3. o \in Opening /\ RefOf(o) \in References
    BY <1>0, <1>1, Openings, References1 DEF Typed
  <2>4. ch \in Channels /\ mapped[ch] = s
    BY <1>3, SomeChannel
  <2> HIDE DEF s, o, ch
  <2>5. OpenedAs(c, o, {s})
    BY <1>3, <2>3, OpenedIs
  <2>6. ServedBy(ch, c)
    BY <1>3, <2>4, <2>5, ServedIs DEF OpenedAs
  <2> QED BY <2>4, <2>5, <2>6
<1> QED BY <1>0, <1>1, <1>3, NothingMade DEF ReplaceWithClone

LEMMA CloneFailsDoes ==
  ASSUME Orderly, NEW w \in Workers, CloneFails(w)
  PROVE  /\ op[w].do = "strip" /\ Idles(w) /\ WorkingOf(op[w]) = {}
         /\ \E c \in ConvIds : OpenedAs(c, Clone(Serving(w), {}), {})
<1> DEFINE s == Serving(w)
           o == Clone(s, {})
<1>0. Typed /\ Idles(w) /\ op[w].do = "strip"
  BY DEF Orderly, CloneFails
<1>1. PICK c \in ConvIds : Opens(c, o, {})
  BY DEF CloneFails
<1>2. s \in ConvIds
  BY <1>0, Reads DEF Typed, Shaped
<1>3. o \in Opening /\ RefOf(o) \in References
  BY <1>0, <1>2, Openings, References1 DEF Typed
<1> HIDE DEF s, o
<1>4. OpenedAs(c, o, {})
  BY <1>1, <1>3, OpenedIs
<1> QED BY <1>0, <1>4, NothingMade DEF s, o

LEMMA ScrubBeginsDoes ==
  ASSUME Orderly, NEW w \in Workers, ScrubBegins(w)
  PROVE  /\ op[w].do = "scrub" /\ WorkingOf(op[w]) = {} /\ op[w].line[1] \in ConvIds
         /\ \E c \in ConvIds :
               /\ OpenedAs(c, Clone(op[w].line[1], op[w].strip), {})
               /\ op'[w].made = <<c>> /\ WorkingOf(op'[w]) = {c}
         /\ Serving(w) \in MappedConvs
         /\ op'[w].do = "fork" /\ op'[w].temp = None
         /\ op'[w].line = op[w].line /\ op'[w].strip = op[w].strip
         /\ op'[w].plans = op[w].plans /\ op'[w].words = op[w].words
         /\ op'[w].birth = births + 1 /\ op'[w].ch = ChannelOf(Serving(w))
         /\ LinesOf(op'[w]) = LinesOf(op[w])
         /\ Others(w)
<1> DEFINE s == op[w].line[1]
           o == Clone(s, op[w].strip)
<1>0. Typed /\ Operations /\ op[w].do = "scrub" /\ op[w] \in OpRecord
  BY Reads DEF Orderly, Typed, ScrubBegins
<1>1. PICK c \in ConvIds :
        /\ Opens(c, o, {}) /\ Serving(w) \in MappedConvs
        /\ Takes(w, Begun(w, c, births + 1, ChannelOf(Serving(w))))
  BY DEF ScrubBegins, Takes, Begun
<1>2. s \in ConvIds /\ op[w].strip \in SUBSET Msgs
  BY <1>0, ScrubReads, Reads
<1>3. o \in Opening /\ RefOf(o) \in References
  BY <1>0, <1>2, Openings, References1 DEF Typed
<1> HIDE DEF s, o
<1>4. OpenedAs(c, o, {})
  BY <1>1, <1>3, OpenedIs
<1> DEFINE ch == ChannelOf(Serving(w))
           birth == births + 1
           r == Begun(w, c, birth, ch)
<1>5. ch \in Channels /\ birth \in Births
  BY <1>1, <1>4, SomeChannel DEF OpenedAs
<1>6. /\ r.strip = op[w].strip /\ r.words = op[w].words
  BY <1>0 DEF Begun, OpRecord
<1>11. Takes(w, r)
  BY <1>1
<1> HIDE DEF ch, birth
<1>7. /\ r \in OpRecord /\ Shaped(r)
      /\ r.do = "fork" /\ r.made = <<c>> /\ r.temp = None
      /\ r.plans = op[w].plans /\ r.line = op[w].line /\ r.birth = birth
      /\ r.ch = ch
  BY <1>0, <1>5, BegunIs
<1> HIDE DEF r
<1>8. op'[w] = r /\ Others(w)
  BY <1>0, <1>7, <1>11, OpTakes DEF Others
<1>9. WorkingOf(op'[w]) = {c}
  BY <1>7, <1>8 DEF WorkingOf, Range, ConvIds, None
<1>10. LinesOf(op'[w]) = LinesOf(op[w])
  BY <1>0, <1>7, <1>8 DEF LinesOf
<1> QED BY <1>0, <1>1, <1>2, <1>4, <1>6, <1>7, <1>8, <1>9, <1>10, NothingMade
        DEF s, o, birth, ch

LEMMA ForkDoes ==
  ASSUME Orderly, NEW w \in Workers, RegenerateFork(w)
  PROVE  /\ op[w].do = "fork" /\ op[w].temp = None /\ WorkingOf(op[w]) = Range(op[w].made)
         /\ \E c \in ConvIds :
               /\ OpenedAs(c, Span(Made(w), NextHop(w)), {})
               /\ op'[w].temp = c /\ WorkingOf(op'[w]) = Range(op[w].made) \cup {c}
         /\ op'[w].do = "fork" /\ Same(op'[w], op[w]) /\ op'[w].words = op[w].words
         /\ LinesOf(op'[w]) = LinesOf(op[w])
         /\ Others(w)
<1> DEFINE s == Made(w)
           o == Span(s, NextHop(w))
<1>0. Typed /\ Operations /\ op[w].do = "fork" /\ op[w].temp = None /\ op[w] \in OpRecord
  BY Reads DEF Orderly, Typed, RegenerateFork
<1>1. PICK c \in ConvIds : Opens(c, o, {}) /\ Takes(w, Forked(w, c))
  BY DEF RegenerateFork, Takes, Forked
<1>2. s \in ConvIds /\ NextHop(w) \in ConvIds
  BY <1>0, Reads
<1>3. o \in Opening /\ RefOf(o) \in References
  BY <1>0, <1>2, Openings, References1 DEF Typed
<1> HIDE DEF s, o
<1>4. OpenedAs(c, o, {})
  BY <1>1, <1>3, OpenedIs
<1> DEFINE r == Forked(w, c)
<1>5. r \in OpRecord /\ Shaped(r) /\ r.do = "fork" /\ r.temp = c
  BY <1>0, ForkedIs
<1>6. Same(r, op[w]) /\ r.words = op[w].words
  BY <1>0 DEF Forked, Same, OpRecord
<1>7. Takes(w, r)
  BY <1>1
<1> HIDE DEF r
<1>8. op'[w] = r /\ Others(w)
  BY <1>0, <1>5, <1>7, OpTakes DEF Others
<1>9. /\ WorkingOf(op[w]) = Range(op[w].made)
      /\ WorkingOf(op'[w]) = Range(op[w].made) \cup {c}
  BY <1>0, <1>5, <1>6, <1>8 DEF WorkingOf, ConvIds, None, Same
<1>10. LinesOf(op'[w]) = LinesOf(op[w])
  BY <1>0, <1>5, <1>6, <1>8 DEF LinesOf, Same
<1> QED BY <1>0, <1>4, <1>5, <1>6, <1>8, <1>9, <1>10 DEF s, o

LEMMA ReadDoes ==
  ASSUME Orderly, NEW w \in Workers, RegenerateRead(w)
  PROVE  /\ op[w].do = "fork" /\ op[w].temp \in ConvIds /\ op[w].temp \notin Range(op[w].made)
         /\ DeletedAs({op[w].temp})
         /\ WorkingOf(op[w]) = Range(op[w].made) \cup {op[w].temp}
         /\ WorkingOf(op'[w]) = Range(op[w].made)
         /\ op'[w].do = "digest" /\ op'[w].temp = None /\ Same(op'[w], op[w])
         /\ op'[w].words = Readable(ledger[op[w].temp], digest[op[w].temp])
         /\ LinesOf(op'[w]) = LinesOf(op[w])
         /\ Others(w)
<1>0. Typed /\ Operations /\ op[w].do = "fork" /\ op[w] \in OpRecord /\ op[w].temp # None
  BY Reads DEF Orderly, Typed, RegenerateRead
<1>1. Deletes({op[w].temp})
  BY DEF RegenerateRead
<1>2. op[w].temp \in ConvIds /\ op[w].temp \notin Range(op[w].made)
  BY <1>0 DEF Orderly, TempApart, OpRecord
<1> DEFINE r == HasRead(w, "digest", Readable(ledger[op[w].temp], digest[op[w].temp]))
<1>3. Takes(w, r)
  BY DEF RegenerateRead, Takes, HasRead
<1>4. r \in OpRecord /\ Shaped(r) /\ r.do = "digest" /\ r.temp = None
  BY <1>0, <1>2, ReadableTyped, HasReadIs DEF Typed
<1>5. Same(r, op[w]) /\ r.words = Readable(ledger[op[w].temp], digest[op[w].temp])
  BY <1>0 DEF HasRead, Same, OpRecord
<1> HIDE DEF r
<1>6. op'[w] = r /\ Others(w)
  BY <1>0, <1>3, <1>4, OpTakes DEF Others
<1>7. /\ WorkingOf(op[w]) = Range(op[w].made) \cup {op[w].temp}
      /\ WorkingOf(op'[w]) = Range(op[w].made)
  BY <1>0, <1>4, <1>5, <1>6 DEF WorkingOf, Same
<1>8. LinesOf(op'[w]) = LinesOf(op[w])
  BY <1>0, <1>4, <1>5, <1>6 DEF LinesOf, Same
<1> QED BY <1>0, <1>1, <1>2, <1>4, <1>5, <1>6, <1>7, <1>8, DeletedIs

LEMMA HopDoes ==
  ASSUME Orderly, NEW w \in Workers, RebuildHop(w)
  PROVE  /\ op[w].do = "digest" /\ NextHop(w) # Serving(w) /\ NextHop(w) \in ConvIds
         /\ WorkingOf(op[w]) = Range(op[w].made)
         /\ \E c \in ConvIds :
               /\ OpenedAs(c, Rebuilt(w, NextHop(w)), {})
               /\ op'[w].made = Append(op[w].made, c)
               /\ Range(op'[w].made) = Range(op[w].made) \cup {c}
               /\ WorkingOf(op'[w]) = Range(op[w].made) \cup {c}
         /\ op'[w].do = "fork" /\ op'[w].temp = None /\ op'[w].words = {}
         /\ op'[w].line = op[w].line /\ op'[w].strip = op[w].strip
         /\ op'[w].plans = op[w].plans /\ op'[w].ch = op[w].ch
         /\ op'[w].birth = births + 1
         /\ LinesOf(op'[w]) = LinesOf(op[w])
         /\ Others(w)
<1> DEFINE s == Made(w)
           o == Rebuilt(w, NextHop(w))
<1>0. /\ Typed /\ Operations /\ op[w].do = "digest" /\ NextHop(w) # Serving(w)
      /\ op[w] \in OpRecord /\ op[w].temp = None
  BY Reads DEF Orderly, Typed, RebuildHop, Shaped
<1>1. PICK c \in ConvIds : Opens(c, o, {}) /\ Takes(w, HopMade(w, c, births + 1))
  BY DEF RebuildHop, Takes, HopMade
<1>2. s \in ConvIds /\ NextHop(w) \in ConvIds
  BY <1>0, Reads
<1>3. o \in Opening /\ RefOf(o) \in References
  <2>1. o \in Opening
    BY <1>0, <1>2, RebuiltTyped
  <2>2. s \in Live /\ o.parent = s /\ o.birth = born[s]
    BY <1>0, MadeIs DEF Rebuilt
  <2> HIDE DEF s, o
  <2> QED BY <2>1, <2>2, LiveReference
<1> HIDE DEF s, o
<1>4. OpenedAs(c, o, {})
  BY <1>1, <1>3, OpenedIs
<1> DEFINE birth == births + 1
           r == HopMade(w, c, birth)
<1>5. birth \in Births
  BY <1>4 DEF OpenedAs
<1>6. r.strip = op[w].strip /\ r.words = {}
  BY <1>0 DEF HopMade, OpRecord
<1>7. Takes(w, r)
  BY <1>1
<1> HIDE DEF birth
<1>8. /\ r \in OpRecord /\ Shaped(r)
      /\ r.do = "fork" /\ r.made = Append(op[w].made, c) /\ r.temp = None
      /\ r.plans = op[w].plans /\ r.line = op[w].line /\ r.birth = birth
      /\ r.ch = op[w].ch
  BY <1>0, <1>5, HopMadeIs
<1> HIDE DEF r
<1>9. op'[w] = r /\ Others(w)
  BY <1>0, <1>7, <1>8, OpTakes DEF Others
<1>10. Range(op'[w].made) = Range(op[w].made) \cup {c}
  <2> DEFINE n == Len(op[w].made)
             more == op'[w].made
  <2>1. op[w].made \in Seq(ConvIds)
    BY <1>0 DEF OpRecord
  <2>2. /\ DOMAIN more = 1 .. n + 1 /\ more[n + 1] = c
        /\ \A i \in 1 .. n : more[i] = op[w].made[i]
    BY <1>8, <1>9, <2>1, AppendProperties
  <2>3. DOMAIN op[w].made = 1 .. n /\ n \in Nat
    BY <2>1
  <2> HIDE DEF more, n
  <2>4. \A i \in 1 .. n + 1 : i = n + 1 \/ i \in 1 .. n
    BY <2>3
  <2>5. n + 1 \in 1 .. n + 1 /\ \A i \in 1 .. n : i \in 1 .. n + 1
    BY <2>3
  <2>6. \A d : d \in Range(more) <=> d \in Range(op[w].made) \/ d = c
    BY <2>2, <2>3, <2>4, <2>5 DEF Range
  <2> QED BY <2>6 DEF more
<1>11. /\ WorkingOf(op[w]) = Range(op[w].made)
       /\ WorkingOf(op'[w]) = Range(op[w].made) \cup {c}
  BY <1>0, <1>8, <1>9, <1>10 DEF WorkingOf
<1>12. LinesOf(op'[w]) = LinesOf(op[w])
  BY <1>0, <1>8, <1>9 DEF LinesOf
<1> QED BY <1>0, <1>2, <1>4, <1>6, <1>8, <1>9, <1>10, <1>11, <1>12 DEF s, o, birth

LEMMA InstallScrubbedDoes ==
  ASSUME Orderly, NEW w \in Workers, InstallScrubbedThread(w)
  PROVE  /\ op[w].do = "digest" /\ op[w].ch \in Channels /\ NextHop(w) = Serving(w)
         /\ mapped[op[w].ch] = Serving(w) /\ Serving(w) \in ConvIds
         /\ Serving(w) \in MappedConvs
         /\ ScrubOver(w) /\ WorkingOf(op[w]) = Range(op[w].made)
         /\ \E c \in ConvIds : /\ OpenedAs(c, Rebuilt(w, Serving(w)), Range(op[w].line))
                               /\ ServedBy(op[w].ch, c)
<1> DEFINE s == Made(w)
           o == Rebuilt(w, Serving(w))
           gone == Range(op[w].line)
<1>1. /\ op[w].do = "digest" /\ op[w].ch \in Channels
      /\ mapped[op[w].ch] = Serving(w) /\ Serving(w) \in ConvIds
      /\ o \in Opening /\ ScrubOver(w)
  BY InstallScrubbedTakes DEF Orderly
<1>2. PICK c \in ConvIds : Opens(c, o, gone) /\ Serves(op[w].ch, c)
  BY InstallScrubbedTakes DEF Orderly
<1>3. RefOf(o) \in References
  <2>1. s \in Live /\ o.parent = s /\ o.birth = born[s]
    BY <1>1, MadeIs DEF Rebuilt
  <2> HIDE DEF s, o
  <2> QED BY <2>1, LiveReference
<1>6. op[w].temp = None
  BY <1>1, Reads DEF Orderly, Typed, Shaped
<1> HIDE DEF s, o, gone
<1>4. OpenedAs(c, o, gone)
  BY <1>1, <1>2, <1>3, OpenedIs
<1>5. ServedBy(op[w].ch, c)
  BY <1>1, <1>2, <1>4, ServedIs DEF OpenedAs
<1>7. WorkingOf(op[w]) = Range(op[w].made)
  BY <1>6 DEF WorkingOf
<1>8. NextHop(w) = Serving(w) /\ Serving(w) \in MappedConvs
  BY <1>1 DEF InstallScrubbedThread, MappedConvs, ConvIds, None
<1> QED BY <1>1, <1>4, <1>5, <1>7, <1>8 DEF s, o, gone

LEMMA StandsDownDoes ==
  ASSUME Orderly, NEW w \in Workers, ScrubStandsDown(w)
  PROVE  /\ op[w].do \in {"fork", "digest"}
         /\ DeletedAs(WorkingOf(op[w])) /\ ScrubOver(w)
<1>1. Deletes(WorkingOf(op[w])) /\ ScrubOver(w) /\ op[w].do \in {"fork", "digest"}
  BY DEF ScrubStandsDown, WorkingOf
<1> QED BY <1>1, DeletedIs

LEMMA EraseDoes ==
  ASSUME Orderly, NEW w \in Workers, NEW p \in People, Erase(w, p)
  PROVE  /\ op[w].do = "idle" /\ WorkingOf(op[w]) = {}
         /\ DeletedAs(DirectConversationsOf(p))
         /\ \A d \in DirectConversationsOf(p) : d \in MappedConvs
         /\ \A ch \in Channels : mapped'[ch] = IF mapped[ch] \in DirectConversationsOf(p)
                                               THEN None ELSE mapped[ch]
         /\ op'[w] = Rest(LineagesOf(p)) /\ op'[w].plans = LineagesOf(p)
         /\ op'[w].do \in {"idle", "erase"}
         /\ op'[w].do = "idle" => LineagesOf(p) = {}
         /\ op'[w].made = <<>> /\ op'[w].temp = None
         /\ op'[w].strip = {} /\ op'[w].words = {}
         /\ WorkingOf(op'[w]) = {}
         /\ LinesOf(op'[w]) = {plan.line : plan \in LineagesOf(p)}
         /\ Others(w)
<1>0. Typed /\ Operations
  BY DEF Orderly, Typed
<1>1. /\ op[w].do = "idle" /\ Deletes(DirectConversationsOf(p))
      /\ op'[w].do \in {"idle", "erase"} /\ op'[w].made = <<>> /\ op'[w].temp = None
      /\ op'[w].plans = LineagesOf(p)
      /\ mapped' = [ch \in Channels |-> IF mapped[ch] \in DirectConversationsOf(p)
                                        THEN None ELSE mapped[ch]]
      /\ Others(w)
  BY <1>0, EraseTakes DEF Others
<1>2. \A d \in DirectConversationsOf(p) : d \in MappedConvs
  BY SessionsAssumption DEF DirectConversationsOf, MappedConvs
<1>3. op'[w] = Rest(LineagesOf(p))
  BY <1>0 DEF Erase, Rest, Operations
<1> DEFINE plans == LineagesOf(p)
<1>4. /\ op'[w].strip = {} /\ op'[w].words = {}
      /\ op'[w].do = "idle" => plans = {}
  <2> HIDE DEF plans
  <2>1. CASE plans = {}
    BY <1>3, <2>1 DEF plans, Rest, Idle
  <2>2. CASE plans # {}
    <3> DEFINE r == [Idle EXCEPT !.do = "erase", !.plans = plans]
    <3>1. op'[w] = r
      BY <1>3, <2>2 DEF plans, Rest
    <3>2. r.strip = {} /\ r.words = {} /\ r.do = "erase"
      BY DEF Idle
    <3> HIDE DEF r
    <3> QED BY <3>1, <3>2
  <2> QED BY <2>1, <2>2
<1>5. DeletedAs(DirectConversationsOf(p))
  BY <1>1, DeletedIs
<1>6. WorkingOf(op'[w]) = {} /\ LinesOf(op'[w]) = {plan.line : plan \in LineagesOf(p)}
  BY <1>1 DEF WorkingOf, LinesOf, Range
<1> QED BY <1>1, <1>2, <1>3, <1>4, <1>5, <1>6, NothingMade

LEMMA ScrubsNextDoes ==
  ASSUME Orderly, NEW w \in Workers, EraseScrubsNext(w)
  PROVE  /\ op[w].do = "erase" /\ WorkingOf(op[w]) = {} /\ WorkingOf(op'[w]) = {}
         /\ \E plan \in op[w].plans :
               /\ op'[w].line = plan.line /\ op'[w].strip = plan.strip
               /\ op'[w].plans = op[w].plans \ {plan}
         /\ op'[w].do = "scrub" /\ op'[w].made = <<>> /\ op'[w].temp = None
         /\ LinesOf(op'[w]) \subseteq LinesOf(op[w])
         /\ Others(w)
<1>0. Typed /\ Operations /\ op[w].do = "erase" /\ op[w] \in OpRecord
  BY Reads DEF Orderly, Typed, EraseScrubsNext
<1>1. PICK plan \in op[w].plans : Takes(w, ScrubsNext(w, plan))
  BY DEF EraseScrubsNext, Takes, ScrubsNext
<1> DEFINE r == ScrubsNext(w, plan)
<1>2. /\ r \in OpRecord /\ Shaped(r)
      /\ r.do = "scrub" /\ r.made = <<>> /\ r.temp = None
      /\ r.plans = op[w].plans \ {plan} /\ r.line = plan.line
  BY <1>0, ScrubsNextIs
<1>3. r.strip = plan.strip
  BY <1>0 DEF ScrubsNext, OpRecord
<1>4. Takes(w, r)
  BY <1>1
<1> HIDE DEF r
<1>5. op'[w] = r /\ Others(w)
  BY <1>0, <1>2, <1>4, OpTakes DEF Others
<1>6. WorkingOf(op'[w]) = {} /\ LinesOf(op'[w]) \subseteq LinesOf(op[w])
  BY <1>2, <1>5 DEF WorkingOf, LinesOf, Range
<1> QED BY <1>0, <1>2, <1>3, <1>5, <1>6, NothingMade

LEMMA EndsDoes ==
  ASSUME Orderly, ProcessEnds
  PROVE  \A w \in Workers : /\ op'[w] = Idle /\ WorkingOf(op'[w]) = {}
                            /\ LinesOf(op'[w]) = {}
<1>1. \A w \in Workers : op'[w] = Idle
  BY AllIdle DEF Orderly, Typed
<1>2. WorkingOf(Idle) = {} /\ LinesOf(Idle) = {}
  BY IdleIs DEF WorkingOf, LinesOf, Range
<1> QED BY <1>1, <1>2

LEMMA TornDoes ==
  ASSUME Orderly, NEW w \in Workers, NEW ch \in Channels, SwapTorn(w, ch)
  PROVE  /\ \E c \in ConvIds, o \in Opening : Torn(w, ch, c, o) /\ OpenedAs(c, o, {})
         /\ mapped'[ch] = None /\ \A a \in Channels \ {ch} : mapped'[a] = mapped[a]
         /\ ProcessEnds
<1>0. Typed
  BY DEF Orderly
<1>1. PICK c \in ConvIds, o \in Opening : Torn(w, ch, c, o) /\ Opens(c, o, {})
  BY <1>0, SwapTornTakes
<1>2. mapped' = [mapped EXCEPT ![ch] = None] /\ ProcessEnds
  BY <1>0, SwapTornTakes
<1>3. /\ mapped'[ch] = None
      /\ \A a \in Channels \ {ch} : mapped'[a] = mapped[a]
  BY <1>0, <1>2 DEF Typed, Contents
<1>9. RefOf(o) \in References
  <2>1. ASSUME op[w].do = "install", mapped[ch] = op[w].line[1], o = CompactedThread(w)
        PROVE  RefOf(o) \in References
    <3>1. o.parent = mapped[ch] /\ o.birth = born[mapped[ch]]
      BY <2>1 DEF CompactedThread
    <3>2. mapped[ch] \in ConvIds
      BY <1>0, <2>1, Reads DEF Shaped, Typed
    <3>3. mapped[ch] \in Live
      BY <3>2 DEF Orderly, MappedApart, ConvIds, None
    <3> QED BY <3>1, <3>3, LiveReference
  <2>2. ASSUME op[w].do = "strip", o = Clone(Serving(w), op[w].strip)
        PROVE  RefOf(o) \in References
    BY <1>0, <2>2, Reads, References1 DEF Shaped, Typed
  <2>3. ASSUME op[w].do = "digest", o = Rebuilt(w, Serving(w))
        PROVE  RefOf(o) \in References
    <3>1. Made(w) \in Live /\ born[Made(w)] = op[w].birth
      BY <2>3, MadeIs
    <3>2. o.parent = Made(w) /\ o.birth = born[Made(w)]
      BY <2>3, <3>1 DEF Rebuilt
    <3> QED BY <3>1, <3>2, LiveReference
  <2> QED BY <1>1, <2>1, <2>2, <2>3 DEF Torn
<1> QED BY <1>1, <1>2, <1>3, <1>9, OpenedIs

-----------------------------------------------------------------------------
(* Where a lineage ends.                                                     *)

LEMMA WalkEnds ==
  ASSUME NEW s \in ConvIds, NEW f, Walks(f, s, MaxConv)
  PROVE  \A n \in ConvIds : \/ Len(f[n]) = n
                            \/ parent[Head(f[n])] \notin Live
                            \/ parent[Head(f[n])] \in Range(f[n])
<1> DEFINE Ended(line) == \/ parent[Head(line)] \notin Live
                          \/ parent[Head(line)] \in Range(line)
           Bad == {n \in ConvIds : Len(f[n]) # n /\ ~Ended(f[n])}
<1>1. SUFFICES ASSUME Bad # {} PROVE FALSE
  OBVIOUS
<1>2. Bad \subseteq Nat
  BY StoreAssumption DEF ConvIds
<1>3. PICK m \in Bad : \A n \in Bad : m <= n
  <2> HIDE DEF Bad
  <2> QED BY <1>1, <1>2, LeastNumber
<1>4. m \in ConvIds /\ Len(f[m]) # m /\ ~Ended(f[m])
  BY <1>3
<1>5. f[m] = IF m = 1 THEN <<s>> ELSE Hop(f[m - 1])
  BY <1>4 DEF Walks, ConvIds
<1>6. m # 1
  BY <1>4, <1>5
<1>7. m - 1 \in ConvIds /\ ~(m <= m - 1)
  BY <1>4, <1>6, StoreAssumption DEF ConvIds
<1>8. Len(f[m - 1]) = m - 1 \/ Ended(f[m - 1])
  <2>1. m - 1 \notin Bad
    BY <1>3, <1>7
  <2> QED BY <1>7, <2>1
<1>9. Climbs(f[m - 1], s)
  BY <1>7, WalkClimbs
<1> DEFINE line == f[m - 1]
<1>10. f[m] = Hop(line)
  BY <1>5, <1>6
<1>11. ~Ended(line)
  <2>1. Ended(line) => Hop(line) = line
    BY DEF Hop
  <2> QED BY <1>4, <1>10, <2>1
<1>12. Hop(line) = <<parent[Head(line)]>> \o line
  BY <1>11 DEF Hop
<1> HIDE DEF Ended, line
<1>13. Len(Hop(line)) = Len(line) + 1
  <2>1. line \in Seq(ConvIds)
    BY <1>9 DEF Climbs, line
  <2>2. parent[Head(line)] \in Live
    BY <1>11 DEF Ended
  <2>3. parent[Head(line)] \in ConvIds
    BY <2>2 DEF Live
  <2> QED BY <1>12, <2>1, <2>3
<1>14. Len(line) = m - 1
  BY <1>8, <1>11 DEF line
<1>15. Len(f[m]) = m
  BY <1>7, <1>10, <1>13, <1>14, StoreAssumption DEF ConvIds
<1> QED BY <1>4, <1>15

\* A line of live conversations goes up.
LEMMA LineAscends ==
  ASSUME Orderly, NEW s \in Live, NEW line, Climbs(line, s)
  PROVE  /\ \A i \in 1 .. Len(line) : line[i] \in Live /\ line[i] \in ConvIds
         /\ \A i \in 1 .. Len(line) - 1 : line[i] < line[i + 1]
         /\ \A i \in 1 .. Len(line) : line[1] + (i - 1) <= line[i]
<1> DEFINE n == Len(line)
<1>1. line \in Seq(ConvIds) /\ n \in Nat /\ n >= 1 /\ line[n] = s
  BY DEF Climbs
<1>2. \A i \in 1 .. n - 1 : line[i] \in Live /\ line[i] = parent[line[i + 1]]
  BY DEF Climbs
<1> HIDE DEF n
<1>3. ASSUME NEW i \in 1 .. n PROVE line[i] \in Live /\ line[i] \in ConvIds /\ line[i] \in Int
  <2>1. line[i] \in Live
    <3>1. CASE i = n
      BY <1>1, <3>1
    <3>2. CASE i # n
      <4>1. i \in 1 .. n - 1
        BY <1>1, <3>2
      <4> QED BY <1>2, <4>1
    <3> QED BY <3>1, <3>2
  <2> QED BY <2>1, StoreAssumption DEF Live, ConvIds
<1>4. ASSUME NEW i \in 1 .. n - 1 PROVE line[i] < line[i + 1]
  <2>1. i \in 1 .. n /\ i + 1 \in 1 .. n
    BY <1>1
  <2>2. line[i] = parent[line[i + 1]] /\ line[i + 1] \in Live /\ line[i] \in ConvIds
    BY <1>2, <1>3, <2>1
  <2>3. parent[line[i + 1]] # None
    BY <2>2 DEF ConvIds, None
  <2> QED BY <2>2, <2>3 DEF Orderly, PointsBelow
<1> DEFINE Bad == {i \in 1 .. n : ~(line[1] + (i - 1) <= line[i])}
<1>5. Bad = {}
  <2>1. SUFFICES ASSUME Bad # {} PROVE FALSE
    OBVIOUS
  <2>2. Bad \subseteq Nat
    BY <1>1
  <2>3. PICK m \in Bad : \A i \in Bad : m <= i
    <3> HIDE DEF Bad
    <3> QED BY <2>1, <2>2, LeastNumber
  <2>4. m \in 1 .. n /\ ~(line[1] + (m - 1) <= line[m])
    BY <2>3
  <2>5. 1 \in 1 .. n
    BY <1>1
  <2>6. m # 1
    <3>1. line[1] + (1 - 1) <= line[1]
      BY <1>3, <2>5
    <3> QED BY <2>4, <3>1
  <2>7. m - 1 \in 1 .. n - 1 /\ m - 1 \in 1 .. n /\ ~(m <= m - 1) /\ (m - 1) + 1 = m
    BY <1>1, <2>4, <2>6
  <2>8. line[1] + ((m - 1) - 1) <= line[m - 1]
    BY <2>3, <2>7
  <2>9. line[m - 1] < line[m]
    BY <1>4, <2>7
  <2>10. line[1] \in Int /\ line[m] \in Int /\ line[m - 1] \in Int /\ m \in Int
    BY <1>3, <2>4, <2>5, <2>7
  <2> QED BY <2>4, <2>8, <2>9, <2>10
<1> QED BY <1>3, <1>4, <1>5 DEF n

LEMMA LineageEnds ==
  ASSUME Orderly, NEW s \in Live
  PROVE  parent[Lineage(s)[1]] \notin Live
<1>0. s \in ConvIds
  BY DEF Live
<1>1. PICK f : Walks(f, s, MaxConv) /\ Lineage(s) = f[MaxConv]
  BY <1>0, LineageIsWalked
<1> DEFINE line == Lineage(s)
           n == Len(line)
<1>2. MaxConv \in ConvIds /\ MaxConv \in Nat
  BY <1>0, StoreAssumption DEF ConvIds
<1>3. \/ n = MaxConv \/ parent[Head(line)] \notin Live \/ parent[Head(line)] \in Range(line)
  BY <1>0, <1>1, <1>2, WalkEnds
<1>4. Climbs(line, s)
  BY <1>0, LineageClimbs
<1>5. line \in Seq(ConvIds) /\ n \in Nat /\ n >= 1 /\ line[n] = s
  BY <1>4 DEF Climbs
<1>6. Head(line) = line[1] /\ 1 \in 1 .. n /\ n \in 1 .. n
  BY <1>5
<1> HIDE DEF line
<1>7. SUFFICES ASSUME parent[line[1]] \in Live PROVE FALSE
  BY DEF line
<1>8. /\ \A i \in 1 .. n : line[i] \in Live /\ line[i] \in ConvIds
      /\ \A i \in 1 .. n : line[1] + (i - 1) <= line[i]
  BY <1>4, LineAscends
<1>9. parent[line[1]] < line[1] /\ parent[line[1]] \in ConvIds
  <2>1. parent[line[1]] \in ConvIds /\ parent[line[1]] # None
    BY <1>7 DEF Live, ConvIds, None
  <2> QED BY <1>6, <1>8, <2>1 DEF Orderly, PointsBelow
<1>10. CASE n = MaxConv
  <2>1. line[1] + (n - 1) <= line[n] /\ line[n] \in ConvIds /\ line[1] \in ConvIds
    BY <1>6, <1>8
  <2> QED BY <1>2, <1>9, <1>10, <2>1 DEF ConvIds
<1>11. CASE parent[line[1]] \in Range(line)
  <2>1. PICK j \in 1 .. n : parent[line[1]] = line[j]
    BY <1>5, <1>11 DEF Range
  <2>2. line[1] + (j - 1) <= line[j] /\ line[j] \in ConvIds /\ line[1] \in ConvIds
    BY <1>6, <1>8
  <2> QED BY <1>9, <2>1, <2>2 DEF ConvIds
<1> QED BY <1>3, <1>6, <1>7, <1>10, <1>11

-----------------------------------------------------------------------------
(* Mapped or retired.                                                        *)
(*                                                                           *)
(* A conversation that never served is a worker's own, and a worker drops    *)
(* it, installs it, or builds on it: a scrub's clones are continued by the   *)
(* one that takes the channel.  What must be carried is that a swap retires  *)
(* no conversation something else continues: a line in flight is linked from *)
(* its root to its last, and its ids are not reissued under it.              *)

\* Conversation d is no operation's own.
Apart(d) == \A w \in Workers : d \notin WorkingOf(op[w])

\* Conversation c is continued by one that is nobody's.
Continued(c) == \E d \in Live : parent[d] = c /\ parentBirth[d] = born[c] /\ Apart(d)

\* What stands has served, is a worker's, or is continued.
Accounted ==
    \A c \in Live : \/ born[c] \in served
                    \/ \E w \in Workers : c \in WorkingOf(op[w])
                    \/ Continued(c)

\* A line in flight is what its conversations name, and its id is not reissued.
Linked(line) ==
    /\ parent[line[1]] \notin Live
    /\ \A i \in 1 .. Len(line) - 1 : parent[line[i + 1]] \in {line[i], None}
    /\ \E v \in Live : line[Len(line)] <= v /\ Apart(v)

LinesLinked == \A w \in Workers : \A line \in LinesOf(op[w]) : Linked(line)

\* The clones of a scrub continue one another.
MadeLinked ==
    \A w \in Workers : \A i \in 1 .. Len(op[w].made) - 1 :
        /\ parent[op[w].made[i + 1]] = op[w].made[i]
        /\ parentBirth[op[w].made[i + 1]] = born[op[w].made[i]]

\* The inductive invariant.
AllAccounted == Accounted /\ LinesLinked /\ MadeLinked

LEMMA ReadLineLinked ==
  ASSUME Orderly, NEW s \in MappedConvs, Len(Lineage(s)) >= 2
  PROVE  LineSound(Lineage(s)) /\ Linked(Lineage(s))
<1>1. s \in Live /\ s \in ConvIds /\ Apart(s)
  BY MappedIs DEF Apart
<1>2. LineSound(Lineage(s))
  BY ReadLineSound
<1>3. Climbs(Lineage(s), s) /\ parent[Lineage(s)[1]] \notin Live
  BY <1>1, LineageClimbs, LineageEnds
<1> DEFINE line == Lineage(s)
<1> HIDE DEF line
<1>4. ASSUME NEW i \in 1 .. Len(line) - 1, Climbs(line, s)
      PROVE  parent[line[i + 1]] \in {line[i], None}
  BY <1>4 DEF Climbs
<1>5. Climbs(line, s) => line[Len(line)] <= s
  BY <1>1 DEF Climbs, ConvIds
<1> QED BY <1>1, <1>2, <1>3, <1>4, <1>5 DEF Linked, line

\* An operation's own are its own still, or new.
OwnMoves(created) ==
    \A w \in Workers : \A c \in WorkingOf(op'[w]) : c \in created \/ c \in WorkingOf(op[w])

LEMMA LineStaysLinked ==
  ASSUME Orderly, NEW created, NEW gone, NEW line, StoreMoves(created, gone),
         Kept(created, gone), OwnMoves(created), LineSound(line), Linked(line),
         \/ \A d \in gone : d \in Live => ~Apart(d)
         \/ \E c \in created : Apart(c)'
  PROVE  Linked(line)'
<1> DEFINE n == Len(line)
<1>1. line \in Seq(ConvIds) /\ n \in Nat /\ n >= 2 /\ line[n - 1] < line[n]
      /\ \A i \in 1 .. n - 1 : line[i] <= line[n - 1]
  BY DEF LineSound
<1> HIDE DEF n
<1>2. \A i \in 1 .. n : line[i] \in ConvIds /\ line[i] \in Int
  BY <1>1, StoreAssumption DEF n, ConvIds
<1>3. PICK v \in Live : line[n] <= v /\ Apart(v)
  BY DEF Linked, n
<1>4. v \in ConvIds /\ v \in Int
  BY StoreAssumption DEF Live, ConvIds
<1>5. \A c \in created : v < c /\ c \in ConvIds /\ c \in Int
  BY StoreAssumption DEF StoreMoves, ConvIds
<1>6. ASSUME NEW i \in 1 .. n PROVE line[i] <= line[n] /\ line[i] \notin created
  <2>1. n \in 1 .. n /\ n - 1 \in 1 .. n
    BY <1>1
  <2>2. line[i] <= line[n]
    <3>1. CASE i = n
      BY <1>2, <3>1
    <3>2. CASE i # n
      <4>1. i \in 1 .. n - 1
        BY <1>1, <3>2
      <4>2. line[i] \in Int /\ line[n] \in Int /\ line[n - 1] \in Int
        BY <1>2, <2>1
      <4> QED BY <1>1, <4>1, <4>2
    <3> QED BY <3>1, <3>2
  <2>3. line[i] \in Int /\ line[n] \in Int
    BY <1>2, <2>1
  <2>4. \A c \in created : line[i] < c
    BY <1>3, <1>4, <1>5, <2>2, <2>3
  <2>5. ~(line[i] < line[i])
    BY <2>3
  <2> QED BY <2>2, <2>4, <2>5
<1>7. \A i \in 1 .. n : parent'[line[i]] \in {parent[line[i]], None}
  BY <1>2, <1>6 DEF Kept
<1>8. parent'[line[1]] \notin Live'
  <2>1. SUFFICES ASSUME parent'[line[1]] \in Live' PROVE FALSE
    OBVIOUS
  <2>2. 1 \in 1 .. n /\ n \in 1 .. n
    BY <1>1
  <2>3. parent'[line[1]] \in ConvIds /\ parent'[line[1]] # None
    BY <2>1 DEF Live, ConvIds, None
  <2>4. parent'[line[1]] = parent[line[1]]
    BY <1>7, <2>2, <2>3
  <2>5. parent[line[1]] \notin Live
    BY DEF Linked
  <2>6. parent[line[1]] \in created
    BY <2>1, <2>3, <2>4, <2>5 DEF StoreMoves
  <2>7. line[1] \in Live
    BY <1>2, <2>2, <2>3, <2>4 DEF Orderly, FreeNameNothing
  <2>8. parent[line[1]] < line[1]
    BY <2>3, <2>4, <2>7 DEF Orderly, PointsBelow
  <2>9. line[1] <= line[n] /\ line[1] \in Int /\ line[n] \in Int
    BY <1>2, <1>6, <2>2
  <2> QED BY <1>3, <1>4, <1>5, <2>6, <2>8, <2>9
<1>9. ASSUME NEW i \in 1 .. n - 1 PROVE parent'[line[i + 1]] \in {line[i], None}
  <2>1. i + 1 \in 1 .. n
    BY <1>1
  <2>2. parent[line[i + 1]] \in {line[i], None}
    BY DEF Linked, n
  <2> QED BY <1>7, <2>1, <2>2
<1>10. \E u \in Live' : line[n] <= u /\ Apart(u)'
  <2>1. CASE v \notin gone
    <3>1. v \in Live' /\ v \notin created
      BY <1>4, <1>5, <2>1 DEF StoreMoves
    <3>2. Apart(v)'
      BY <1>3, <3>1 DEF Apart, OwnMoves
    <3> QED BY <1>3, <3>1, <3>2
  <2>2. CASE v \in gone
    <3>1. PICK c \in created : Apart(c)'
      BY <1>3, <2>2
    <3>2. c \in Live'
      BY DEF StoreMoves
    <3>3. n \in 1 .. n
      BY <1>1
    <3>4. line[n] <= c
      BY <1>2, <1>3, <1>4, <1>5, <3>3
    <3> QED BY <3>1, <3>2, <3>4
  <2> QED BY <2>1, <2>2
<1> QED BY <1>8, <1>9, <1>10 DEF Linked, n

\* Clones that stay a worker's stay linked.
LEMMA MadeStaysLinked ==
  ASSUME Orderly, MadeLinked, NEW created, NEW gone, StoreMoves(created, gone), Kept(created, gone),
         NEW w \in Workers, op'[w].made = op[w].made,
         \A c \in Range(op[w].made) : c \notin gone
  PROVE  \A i \in 1 .. Len(op'[w].made) - 1 :
            /\ parent'[op'[w].made[i + 1]] = op'[w].made[i]
            /\ parentBirth'[op'[w].made[i + 1]] = born'[op'[w].made[i]]
<1> DEFINE made == op[w].made
           n == Len(made)
<1>1. made \in Seq(ConvIds) /\ n \in Nat
  BY Reads DEF Orderly, Typed, OpRecord
<1>2. ASSUME NEW i \in 1 .. n PROVE made[i] \in ConvIds /\ made[i] \notin created /\ made[i] \notin gone
  <2>1. made[i] \in Range(made) /\ made[i] \in ConvIds
    BY <1>1 DEF Range
  <2>2. made[i] \in WorkingOf(op[w])
    BY <2>1 DEF WorkingOf
  <2>3. made[i] \in Live
    BY <2>2 DEF Orderly, WorkingApart
  <2>4. ~(made[i] < made[i])
    BY <2>1 DEF ConvIds
  <2> QED BY <2>1, <2>3, <2>4 DEF StoreMoves
<1>3. ASSUME NEW i \in 1 .. n - 1
      PROVE  parent'[made[i + 1]] = made[i] /\ parentBirth'[made[i + 1]] = born'[made[i]]
  <2>1. i \in 1 .. n /\ i + 1 \in 1 .. n
    BY <1>1
  <2>2. /\ made[i] \in ConvIds /\ made[i] \notin created /\ made[i] \notin gone
        /\ made[i + 1] \in ConvIds /\ made[i + 1] \notin created /\ made[i + 1] \notin gone
    <3> HIDE DEF made, n
    <3> QED BY <1>2, <2>1
  <2>3. parent[made[i + 1]] = made[i] /\ parentBirth[made[i + 1]] = born[made[i]]
    BY DEF MadeLinked
  <2> QED BY <2>2, <2>3 DEF Kept
<1> QED BY <1>3

LEMMA AccountKeeps ==
  ASSUME Orderly, AllAccounted, NEW created, NEW gone, StoreMoves(created, gone),
         Kept(created, gone), OwnMoves(created), served \subseteq served',
         \A c \in created : born'[c] \in served' \/ \E w \in Workers : c \in WorkingOf(op'[w]),
         \A w \in Workers : \A c \in WorkingOf(op[w]) :
            c \in gone \/ c \in WorkingOf(op'[w]) \/ Continued(c)',
         \A d \in gone : d \in Live /\ Apart(d) =>
            \/ parent[d] \in gone \/ parent[d] \notin Live
            \/ \E c \in created : /\ parent'[c] = parent[d] /\ parentBirth'[c] = parentBirth[d]
                                  /\ Apart(c)',
         \/ \A d \in gone : d \in Live => ~Apart(d)
         \/ \E c \in created : Apart(c)',
         \A w \in Workers : \A line \in LinesOf(op'[w]) : LineSound(line) /\ Linked(line),
         MadeLinked'
  PROVE  AllAccounted'
<1>0. \A c \in created : c \notin Live /\ c \in ConvIds
  <2>1. \A c \in created : ~(c < c)
    BY DEF StoreMoves, ConvIds
  <2> QED BY <2>1 DEF StoreMoves
<1>1. LinesLinked'
  <2>1. ASSUME NEW w \in Workers, NEW line \in LinesOf(op'[w]) PROVE Linked(line)'
    <3>1. LineSound(line) /\ Linked(line)
      BY <2>1
    <3> QED BY <3>1, LineStaysLinked
  <2> QED BY <2>1 DEF LinesLinked
<1>2. ASSUME NEW c \in Live'
      PROVE  \/ born'[c] \in served'
             \/ \E w \in Workers : c \in WorkingOf(op'[w])
             \/ Continued(c)'
  <2>1. CASE c \in created
    BY <2>1
  <2>2. CASE c \notin created
    <3>1. c \in Live /\ c \notin gone /\ c \in ConvIds
      BY <2>2 DEF StoreMoves, Live
    <3>2. born'[c] = born[c]
      BY <2>2, <3>1 DEF Kept
    <3>3. CASE born[c] \in served
      BY <3>2, <3>3
    <3>4. ASSUME NEW w \in Workers, c \in WorkingOf(op[w])
          PROVE  c \in WorkingOf(op'[w]) \/ Continued(c)'
      BY <3>1, <3>4
    <3>5. ASSUME Continued(c) PROVE Continued(c)'
      <4>1. PICK d \in Live : parent[d] = c /\ parentBirth[d] = born[c] /\ Apart(d)
        BY <3>5 DEF Continued
      <4>2. d \in ConvIds /\ d \notin created
        BY <1>0 DEF Live
      <4>3. CASE d \notin gone
        <5>1. d \in Live' /\ parent'[d] = parent[d] /\ parentBirth'[d] = parentBirth[d]
          BY <4>2, <4>3 DEF StoreMoves, Kept
        <5>2. Apart(d)'
          BY <4>1, <4>2 DEF Apart, OwnMoves
        <5> QED BY <3>2, <4>1, <5>1, <5>2 DEF Continued
      <4>4. CASE d \in gone
        <5>1. PICK e \in created : /\ parent'[e] = parent[d] /\ parentBirth'[e] = parentBirth[d]
                                   /\ Apart(e)'
          BY <3>1, <4>1, <4>4
        <5>2. e \in Live'
          BY <1>0 DEF StoreMoves
        <5> QED BY <3>2, <4>1, <5>1, <5>2 DEF Continued
      <4> QED BY <4>3, <4>4
    <3>6. born[c] \in served \/ (\E w \in Workers : c \in WorkingOf(op[w])) \/ Continued(c)
      BY <3>1 DEF AllAccounted, Accounted
    <3> QED BY <3>3, <3>4, <3>5, <3>6
  <2> QED BY <2>1, <2>2
<1>3. Accounted'
  BY <1>2 DEF Accounted
<1> QED BY <1>1, <1>3 DEF AllAccounted

\* A step of worker w.
LEMMA WorkerAccounts ==
  ASSUME Orderly, AllAccounted, NEW w \in Workers, NEW created, NEW gone,
         StoreMoves(created, gone), Kept(created, gone), Others(w),
         \A c \in WorkingOf(op'[w]) : c \in created \/ c \in WorkingOf(op[w]),
         served \subseteq served',
         \A c \in created : born'[c] \in served' \/ c \in WorkingOf(op'[w]),
         \A c \in WorkingOf(op[w]) : c \in gone \/ c \in WorkingOf(op'[w]) \/ Continued(c)',
         \A v \in Workers \ {w} : \A c \in WorkingOf(op[v]) : c \notin gone,
         \A d \in gone : d \in Live /\ Apart(d) =>
            \/ parent[d] \in gone \/ parent[d] \notin Live
            \/ \E c \in created : /\ parent'[c] = parent[d] /\ parentBirth'[c] = parentBirth[d]
                                  /\ Apart(c)',
         \/ \A d \in gone : d \in Live => ~Apart(d)
         \/ \E c \in created : Apart(c)',
         \A line \in LinesOf(op'[w]) : LineSound(line) /\ Linked(line),
         \A i \in 1 .. Len(op'[w].made) - 1 :
            /\ parent'[op'[w].made[i + 1]] = op'[w].made[i]
            /\ parentBirth'[op'[w].made[i + 1]] = born'[op'[w].made[i]]
  PROVE  AllAccounted'
<1>1. MadeLinked /\ LinesLinked
  BY DEF AllAccounted
<1>2. MadeLinked'
  <2>1. ASSUME NEW v \in Workers, v # w
        PROVE  \A i \in 1 .. Len(op'[v].made) - 1 :
                  /\ parent'[op'[v].made[i + 1]] = op'[v].made[i]
                  /\ parentBirth'[op'[v].made[i + 1]] = born'[op'[v].made[i]]
    <3>1. op'[v].made = op[v].made
      BY <2>1 DEF Others
    <3>2. \A c \in Range(op[v].made) : c \notin gone
      BY <2>1 DEF WorkingOf
    <3> QED BY <1>1, <3>1, <3>2, MadeStaysLinked
  <2> QED BY <2>1 DEF MadeLinked
<1>3. OwnMoves(created)
  BY DEF Others, OwnMoves
<1>4. \A v \in Workers : \A line \in LinesOf(op'[v]) : LineSound(line) /\ Linked(line)
  BY <1>1 DEF Others, Orderly, LinesSound, LinesLinked
<1>5. \A v \in Workers : \A c \in WorkingOf(op[v]) :
         c \in gone \/ c \in WorkingOf(op'[v]) \/ Continued(c)'
  BY DEF Others
<1>6. \A c \in created : born'[c] \in served' \/ \E v \in Workers : c \in WorkingOf(op'[v])
  OBVIOUS
<1> QED BY <1>2, <1>3, <1>4, <1>5, <1>6, AccountKeeps

\* What deletes nothing but a worker's own.
LEMMA OwnAccounts ==
  ASSUME Orderly, AllAccounted, NEW w \in Workers, NEW created, NEW gone,
         StoreMoves(created, gone), Kept(created, gone), Others(w),
         \A c \in gone : c \in WorkingOf(op[w]),
         \A c \in WorkingOf(op'[w]) : c \in created \/ c \in WorkingOf(op[w]),
         served \subseteq served',
         \A c \in created : born'[c] \in served' \/ c \in WorkingOf(op'[w]),
         \A c \in WorkingOf(op[w]) : c \in gone \/ c \in WorkingOf(op'[w]),
         \A line \in LinesOf(op'[w]) : LineSound(line) /\ Linked(line),
         \A i \in 1 .. Len(op'[w].made) - 1 :
            /\ parent'[op'[w].made[i + 1]] = op'[w].made[i]
            /\ parentBirth'[op'[w].made[i + 1]] = born'[op'[w].made[i]]
  PROVE  AllAccounted'
<1>1. \A v \in Workers \ {w} : \A c \in WorkingOf(op[v]) : c \notin gone
  BY DEF Orderly, WorkingApart
<1>2. \A d \in gone : ~Apart(d)
  BY DEF Apart
<1> QED BY <1>1, <1>2, WorkerAccounts

\* The lines of a worker that holds no new one.
LEMMA OldLines ==
  ASSUME Orderly, AllAccounted, NEW w \in Workers, LinesOf(op'[w]) \subseteq LinesOf(op[w])
  PROVE  \A line \in LinesOf(op'[w]) : LineSound(line) /\ Linked(line)
  BY DEF Orderly, LinesSound, AllAccounted, LinesLinked

LEMMA NothingLinked ==
  ASSUME NEW w \in Workers, op'[w].made = <<>>
  PROVE  \A i \in 1 .. Len(op'[w].made) - 1 :
            /\ parent'[op'[w].made[i + 1]] = op'[w].made[i]
            /\ parentBirth'[op'[w].made[i + 1]] = born'[op'[w].made[i]]
  OBVIOUS

LEMMA MessagesAccount ==
  ASSUME Orderly, AllAccounted, NEW ch \in Channels, "fault" \notin Ops, "restart" \notin Ops,
         \/ FirstContact(ch) \/ Wipe(ch) \/ MapNewChannelFails(ch) \/ RetireStaleChannel(ch)
         \/ \E p \in People : Ingest(ch, p)
  PROVE  AllAccounted'
<1>1. CASE FirstContact(ch) \/ Wipe(ch)
  <2>1. PICK c \in ConvIds : OpenedAs(c, Blank, {}) /\ ServedBy(ch, c)
    BY <1>1, FreshDoes
  <2>2. UNCHANGED op
    BY <1>1 DEF FirstContact, Wipe
  <2>3. StoreMoves({c}, {}) /\ Kept({c}, {}) /\ born'[c] \in served' /\ served \subseteq served'
    BY <2>1 DEF OpenedAs, ServedBy
  <2>4. OwnMoves({c})
    BY <2>2 DEF OwnMoves
  <2>5. MadeLinked'
    <3>1. ASSUME NEW w \in Workers
          PROVE  \A i \in 1 .. Len(op'[w].made) - 1 :
                    /\ parent'[op'[w].made[i + 1]] = op'[w].made[i]
                    /\ parentBirth'[op'[w].made[i + 1]] = born'[op'[w].made[i]]
      BY <2>2, <2>3, MadeStaysLinked DEF AllAccounted
    <3> QED BY <3>1 DEF MadeLinked
  <2>6. \A w \in Workers : \A line \in LinesOf(op'[w]) : LineSound(line) /\ Linked(line)
    BY <2>2 DEF Orderly, LinesSound, AllAccounted, LinesLinked
  <2> QED BY <2>2, <2>3, <2>4, <2>5, <2>6, AccountKeeps
<1>2. ASSUME NEW p \in People, Ingest(ch, p) PROVE AllAccounted'
  <2>1. born' = born /\ parent' = parent /\ parentBirth' = parentBirth /\ op' = op /\ served' = served
    BY <1>2 DEF Ingest, storeVars
  <2>2. Live' = Live
    BY <2>1 DEF Live
  <2>3. \A c : Apart(c)' <=> Apart(c)
    BY <2>1 DEF Apart
  <2>4. \A c : Continued(c)' <=> Continued(c)
    BY <2>1, <2>2, <2>3 DEF Continued
  <2>5. \A line : Linked(line)' <=> Linked(line)
    BY <2>1, <2>2, <2>3 DEF Linked
  <2>6. Accounted'
    BY <2>1, <2>2, <2>4 DEF AllAccounted, Accounted
  <2>7. LinesLinked' /\ MadeLinked'
    BY <2>1, <2>5 DEF AllAccounted, LinesLinked, MadeLinked
  <2> QED BY <2>6, <2>7 DEF AllAccounted
<1> QED BY <1>1, <1>2 DEF MapNewChannelFails, RetireStaleChannel

LEMMA CompactAccounts ==
  ASSUME Orderly, AllAccounted, NEW w \in Workers, NEW ch \in Channels, Compact(w, ch)
  PROVE  AllAccounted'
<1>1. /\ Others(w) /\ WorkingOf(op[w]) = {} /\ UNCHANGED served
      /\ \E c, cut, o : /\ c \in ConvIds /\ OpenedAs(c, o, {}) /\ op'[w] = Compacting(ch, c, cut)
                        /\ WorkingOf(op'[w]) = {c} /\ LinesOf(op'[w]) = {}
  BY CompactDoes DEF Compact
<1>2. PICK c, cut, o : /\ c \in ConvIds /\ OpenedAs(c, o, {}) /\ op'[w] = Compacting(ch, c, cut)
                       /\ WorkingOf(op'[w]) = {c} /\ LinesOf(op'[w]) = {}
  BY <1>1
<1>3. op'[w].made = <<>>
  BY <1>2 DEF Compacting, Idle
<1>4. StoreMoves({c}, {}) /\ Kept({c}, {})
  BY <1>2 DEF OpenedAs
<1> QED BY <1>1, <1>2, <1>3, <1>4, NothingLinked, OwnAccounts

LEMMA CaptureAccounts ==
  ASSUME Orderly, AllAccounted, NEW w \in Workers, CaptureAndRetire(w) \/ Unsummarized(w)
  PROVE  AllAccounted'
<1> DEFINE gone == {op[w].temp}
<1>1. /\ Others(w) /\ WorkingOf(op[w]) = gone /\ UNCHANGED served /\ DeletedAs(gone)
      /\ WorkingOf(op'[w]) = {} /\ LinesOf(op'[w]) \subseteq LinesOf(op[w])
      /\ op'[w].made = <<>>
  <2>1. CASE CaptureAndRetire(w)
    <3>1. op[w].made = <<>>
      BY <2>1, Reads DEF CaptureAndRetire, Shaped, Orderly, Typed
    <3> QED BY <2>1, <3>1, CaptureDoes DEF CaptureAndRetire, Same
  <2>2. CASE Unsummarized(w)
    <3>1. Idles(w) /\ UNCHANGED served
      BY <2>2 DEF Unsummarized
    <3> QED BY <2>2, <3>1, UnsummarizedDoes, RestDoes
  <2> QED BY <2>1, <2>2
<1> HIDE DEF gone
<1>2. StoreMoves({}, gone) /\ Kept({}, gone)
  BY <1>1 DEF DeletedAs
<1> QED BY <1>1, <1>2, OldLines, NothingLinked, OwnAccounts

\* A worker's quiet steps.
LEMMA QuietAccounts ==
  ASSUME Orderly, AllAccounted, NEW w \in Workers, UNCHANGED storeVars, UNCHANGED <<ledger, digest>>,
         served' = served, Others(w), WorkingOf(op[w]) = {}, WorkingOf(op'[w]) = {},
         op'[w].made = <<>>,
         \A line \in LinesOf(op'[w]) : LineSound(line) /\ Linked(line)
  PROVE  AllAccounted'
<1>1. StoreMoves({}, {}) /\ Kept({}, {})
  BY RestedIs DEF DeletedAs
<1> QED BY <1>1, NothingLinked, OwnAccounts

LEMMA StandDownAccounts ==
  ASSUME Orderly, AllAccounted, NEW w \in Workers,
         CompactionStandsDown(w) \/ ScrubHasNoChannel(w) \/ EraseScrubsNext(w)
  PROVE  AllAccounted'
<1>1. UNCHANGED storeVars /\ UNCHANGED <<ledger, digest>> /\ served' = served
  BY DEF CompactionStandsDown, ScrubHasNoChannel, EraseScrubsNext, content
<1>2. CASE CompactionStandsDown(w) \/ ScrubHasNoChannel(w)
  <2>1. (Idles(w) \/ ScrubOver(w)) /\ op[w].do \in {"install", "scrub"}
    BY <1>2 DEF CompactionStandsDown, ScrubHasNoChannel
  <2> QED BY <1>1, <2>1, NothingMade, RestDoes, OldLines, QuietAccounts
<1>3. CASE EraseScrubsNext(w)
  BY <1>1, <1>3, ScrubsNextDoes, OldLines, QuietAccounts
<1> QED BY <1>2, <1>3

LEMMA StripAccounts ==
  ASSUME Orderly, AllAccounted, NEW w \in Workers, NEW ch \in Channels, NEW m \in Msgs,
         StripFromView(w, ch, m)
  PROVE  AllAccounted'
<1>1. UNCHANGED storeVars /\ UNCHANGED <<ledger, digest>> /\ served' = served
  BY DEF StripFromView, content
<1>2. /\ mapped[ch] \in MappedConvs /\ WorkingOf(op[w]) = {} /\ WorkingOf(op'[w]) = {}
      /\ op'[w].made = <<>> /\ Others(w)
      /\ \/ LinesOf(op'[w]) = {}
         \/ /\ Len(Lineage(mapped[ch])) >= 2
            /\ LinesOf(op'[w]) = {Lineage(mapped[ch])}
  BY StripDoes
<1>3. \A line \in LinesOf(op'[w]) : LineSound(line) /\ Linked(line)
  BY <1>2, ReadLineLinked
<1> QED BY <1>1, <1>2, <1>3, QuietAccounts

LEMMA EraseAccounts ==
  ASSUME Orderly, AllAccounted, NEW w \in Workers, NEW p \in People, Direct = {}, Erase(w, p)
  PROVE  AllAccounted'
<1>1. DirectConversationsOf(p) = {}
  BY DEF DirectConversationsOf
<1>2. /\ WorkingOf(op[w]) = {} /\ DeletedAs({}) /\ WorkingOf(op'[w]) = {}
      /\ op'[w].made = <<>> /\ Others(w)
      /\ LinesOf(op'[w]) = {plan.line : plan \in LineagesOf(p)}
  BY <1>1, EraseDoes
<1>3. served' = served
  BY DEF Erase
<1>4. ASSUME NEW line \in LinesOf(op'[w]) PROVE LineSound(line) /\ Linked(line)
  <2>1. PICK plan \in LineagesOf(p) : line = plan.line
    BY <1>2
  <2>2. PICK c \in MappedConvs : plan.line = Lineage(c) /\ Len(plan.line) >= 2
    BY <2>1, LineagesTyped DEF Orderly
  <2> QED BY <2>1, <2>2, ReadLineLinked
<1>5. StoreMoves({}, {}) /\ Kept({}, {})
  BY <1>2 DEF DeletedAs
<1> QED BY <1>2, <1>3, <1>4, <1>5, NothingLinked, OwnAccounts

LEMMA InstallAccounts ==
  ASSUME Orderly, AllAccounted, NEW w \in Workers, InstallCompactedThread(w)
  PROVE  AllAccounted'
<1>1. /\ WorkingOf(op[w]) = {} /\ Idles(w) /\ op[w].ch \in Channels
      /\ \E c \in ConvIds : OpenedAs(c, CompactedThread(w), {}) /\ ServedBy(op[w].ch, c)
  BY InstallDoes
<1>2. PICK c \in ConvIds : OpenedAs(c, CompactedThread(w), {}) /\ ServedBy(op[w].ch, c)
  BY <1>1
<1>3. StoreMoves({c}, {}) /\ Kept({c}, {}) /\ born'[c] \in served' /\ served \subseteq served'
  BY <1>2 DEF OpenedAs, ServedBy
<1>4. /\ WorkingOf(op'[w]) = {} /\ op'[w].made = <<>> /\ Others(w)
      /\ LinesOf(op'[w]) \subseteq LinesOf(op[w])
  BY <1>1, RestDoes
<1> QED BY <1>1, <1>3, <1>4, OldLines, NothingLinked, OwnAccounts

\* What takes a channel is nobody's.
LEMMA NewIsApart ==
  ASSUME Orderly, NEW w \in Workers, NEW c \in ConvIds, c \notin Live, Others(w),
         WorkingOf(op'[w]) = {}
  PROVE  Apart(c)'
  BY DEF Orderly, WorkingApart, Others, Apart

LEMMA ReplaceAccounts ==
  ASSUME Orderly, AllAccounted, NEW w \in Workers, ReplaceWithClone(w)
  PROVE  AllAccounted'
<1> DEFINE s == Serving(w)
           o == Clone(s, op[w].strip)
<1>1. Idles(w) /\ WorkingOf(op[w]) = {} /\ s \in ConvIds
  BY ReplaceDoes
<1>2. /\ WorkingOf(op'[w]) = {} /\ op'[w].made = <<>> /\ Others(w)
      /\ LinesOf(op'[w]) \subseteq LinesOf(op[w])
  BY <1>1, RestDoes
<1>3. o.parent = parent[s] /\ o.birth = parentBirth[s]
  BY DEF Clone
<1>4. \/ UNCHANGED <<storeVars, ledger, digest, mapped, served>>
      \/ /\ s \in MappedConvs
         /\ \E ch \in Channels, c \in ConvIds : /\ mapped[ch] = s /\ OpenedAs(c, o, {s})
                                                /\ ServedBy(ch, c)
  BY ReplaceDoes
<1> HIDE DEF s, o
<1>5. CASE UNCHANGED <<storeVars, ledger, digest, mapped, served>>
  BY <1>1, <1>2, <1>5, OldLines, QuietAccounts
<1>6. ASSUME s \in MappedConvs, NEW ch \in Channels, NEW c \in ConvIds, OpenedAs(c, o, {s}),
             ServedBy(ch, c)
      PROVE  AllAccounted'
  <2>1. /\ StoreMoves({c}, {s}) /\ Kept({c}, {s}) /\ born'[c] \in served'
        /\ served \subseteq served' /\ c \notin Live
        /\ parent'[c] = parent[s] /\ parentBirth'[c] = parentBirth[s]
    BY <1>3, <1>6 DEF OpenedAs, ServedBy
  <2>2. Apart(c)'
    BY <1>2, <2>1, NewIsApart
  <2>3. \A v \in Workers \ {w} : \A d \in WorkingOf(op[v]) : d \notin {s}
    BY <1>6, MappedIs
  <2> QED BY <1>1, <1>2, <2>1, <2>2, <2>3, OldLines, NothingLinked, WorkerAccounts
<1> QED BY <1>4, <1>5, <1>6

LEMMA ScrubBeginsAccounts ==
  ASSUME Orderly, AllAccounted, NEW w \in Workers, ScrubBegins(w)
  PROVE  AllAccounted'
<1>1. /\ WorkingOf(op[w]) = {} /\ LinesOf(op'[w]) = LinesOf(op[w]) /\ Others(w)
      /\ \E c, o : /\ c \in ConvIds /\ OpenedAs(c, o, {})
                   /\ op'[w].made = <<c>> /\ WorkingOf(op'[w]) = {c}
  BY ScrubBeginsDoes
<1>2. PICK c, o : /\ c \in ConvIds /\ OpenedAs(c, o, {})
                  /\ op'[w].made = <<c>> /\ WorkingOf(op'[w]) = {c}
  BY <1>1
<1>3. StoreMoves({c}, {}) /\ Kept({c}, {}) /\ served' = served
  BY <1>2 DEF OpenedAs, ScrubBegins
<1>4. \A i \in 1 .. Len(op'[w].made) - 1 : FALSE
  <2>1. Len(op'[w].made) = 1
    BY <1>2
  <2> QED BY <2>1
<1> QED BY <1>1, <1>2, <1>3, <1>4, OldLines, OwnAccounts

LEMMA ForkAccounts ==
  ASSUME Orderly, AllAccounted, NEW w \in Workers, RegenerateFork(w)
  PROVE  AllAccounted'
<1>1. /\ WorkingOf(op[w]) = Range(op[w].made) /\ LinesOf(op'[w]) = LinesOf(op[w]) /\ Others(w)
      /\ op'[w].made = op[w].made
      /\ \E c, o : /\ c \in ConvIds /\ OpenedAs(c, o, {})
                   /\ WorkingOf(op'[w]) = Range(op[w].made) \cup {c}
  BY ForkDoes DEF Same
<1>2. PICK c, o : /\ c \in ConvIds /\ OpenedAs(c, o, {})
                  /\ WorkingOf(op'[w]) = Range(op[w].made) \cup {c}
  BY <1>1
<1>3. StoreMoves({c}, {}) /\ Kept({c}, {}) /\ served' = served
  BY <1>2 DEF OpenedAs, RegenerateFork
<1>4. \A i \in 1 .. Len(op'[w].made) - 1 :
            /\ parent'[op'[w].made[i + 1]] = op'[w].made[i]
            /\ parentBirth'[op'[w].made[i + 1]] = born'[op'[w].made[i]]
  BY <1>1, <1>3, MadeStaysLinked DEF AllAccounted
<1> QED BY <1>1, <1>2, <1>3, <1>4, OldLines, OwnAccounts

LEMMA ReadAccounts ==
  ASSUME Orderly, AllAccounted, NEW w \in Workers, RegenerateRead(w)
  PROVE  AllAccounted'
<1> DEFINE gone == {op[w].temp}
<1>1. /\ WorkingOf(op[w]) = Range(op[w].made) \cup gone /\ LinesOf(op'[w]) = LinesOf(op[w])
      /\ Others(w) /\ op'[w].made = op[w].made /\ DeletedAs(gone)
      /\ WorkingOf(op'[w]) = Range(op[w].made) /\ \A c \in Range(op[w].made) : c \notin gone
  BY ReadDoes DEF Same
<1>2. served' = served
  BY DEF RegenerateRead
<1> HIDE DEF gone
<1>3. StoreMoves({}, gone) /\ Kept({}, gone)
  BY <1>1 DEF DeletedAs
<1>4. \A i \in 1 .. Len(op'[w].made) - 1 :
            /\ parent'[op'[w].made[i + 1]] = op'[w].made[i]
            /\ parentBirth'[op'[w].made[i + 1]] = born'[op'[w].made[i]]
  BY <1>1, <1>3, MadeStaysLinked DEF AllAccounted
<1> QED BY <1>1, <1>2, <1>3, <1>4, OldLines, OwnAccounts

LEMMA HopAccounts ==
  ASSUME Orderly, AllAccounted, NEW w \in Workers, RebuildHop(w)
  PROVE  AllAccounted'
<1> DEFINE n == Len(op[w].made)
           o == Rebuilt(w, NextHop(w))
<1>1. /\ op[w].do = "digest" /\ WorkingOf(op[w]) = Range(op[w].made)
      /\ LinesOf(op'[w]) = LinesOf(op[w]) /\ Others(w)
  BY HopDoes
<1>2. PICK c \in ConvIds : /\ OpenedAs(c, o, {})
                           /\ op'[w].made = Append(op[w].made, c)
                           /\ WorkingOf(op'[w]) = Range(op[w].made) \cup {c}
  BY HopDoes
<1>3. o.parent = Made(w) /\ o.birth = op[w].birth
  BY DEF Rebuilt
<1> HIDE DEF o
<1>4. /\ StoreMoves({c}, {}) /\ Kept({c}, {}) /\ served' = served
      /\ parent'[c] = Made(w) /\ parentBirth'[c] = op[w].birth /\ c \notin Live
  BY <1>2, <1>3 DEF OpenedAs, RebuildHop
<1>5. op[w].made \in Seq(ConvIds) /\ n \in Nat /\ n >= 1
  BY <1>1, Reads DEF Orderly, Typed, OpRecord, Shaped
<1>6. /\ Len(op'[w].made) = n + 1 /\ op'[w].made[n + 1] = c
      /\ \A i \in 1 .. n : op'[w].made[i] = op[w].made[i]
  BY <1>2, <1>5, AppendProperties
<1>7. ASSUME NEW i \in 1 .. n
      PROVE  op[w].made[i] \in ConvIds /\ op[w].made[i] \in Live /\ op[w].made[i] # c
  <2>1. op[w].made[i] \in Range(op[w].made) /\ op[w].made[i] \in ConvIds
    BY <1>5 DEF Range
  <2>2. op[w].made[i] \in Live
    BY <1>1, <2>1 DEF Orderly, WorkingApart
  <2> QED BY <1>4, <2>1, <2>2
<1>8. born'[Made(w)] = op[w].birth /\ Made(w) = op[w].made[n]
  <2>1. born[Made(w)] = op[w].birth /\ Made(w) \in ConvIds /\ Made(w) \in Live
    BY <1>1, MadeIs
  <2> QED BY <1>4, <2>1 DEF Kept, Made
<1> HIDE DEF n
<1>9. ASSUME NEW i \in 1 .. n
      PROVE  /\ parent'[op'[w].made[i + 1]] = op'[w].made[i]
             /\ parentBirth'[op'[w].made[i + 1]] = born'[op'[w].made[i]]
  <2>1. CASE i = n
    BY <1>4, <1>5, <1>6, <1>8, <2>1
  <2>2. CASE i # n
    <3>1. i + 1 \in 1 .. n /\ i \in 1 .. n - 1
      BY <1>5, <2>2
    <3>2. /\ parent[op[w].made[i + 1]] = op[w].made[i]
          /\ parentBirth[op[w].made[i + 1]] = born[op[w].made[i]]
      BY <3>1 DEF AllAccounted, MadeLinked, n
    <3>3. /\ parent'[op[w].made[i + 1]] = parent[op[w].made[i + 1]]
          /\ parentBirth'[op[w].made[i + 1]] = parentBirth[op[w].made[i + 1]]
          /\ born'[op[w].made[i]] = born[op[w].made[i]]
      BY <1>4, <1>7, <3>1 DEF Kept
    <3>4. op'[w].made[i + 1] = op[w].made[i + 1] /\ op'[w].made[i] = op[w].made[i]
      BY <1>6, <3>1
    <3> QED BY <3>2, <3>3, <3>4
  <2> QED BY <2>1, <2>2
<1>10. \A i \in 1 .. Len(op'[w].made) - 1 :
            /\ parent'[op'[w].made[i + 1]] = op'[w].made[i]
            /\ parentBirth'[op'[w].made[i + 1]] = born'[op'[w].made[i]]
  <2>1. Len(op'[w].made) - 1 = n
    BY <1>5, <1>6
  <2> QED BY <1>9, <2>1
<1>11. /\ \A d \in WorkingOf(op'[w]) : d \in {c} \/ d \in WorkingOf(op[w])
       /\ \A d \in {c} : born'[d] \in served' \/ d \in WorkingOf(op'[w])
       /\ \A d \in WorkingOf(op[w]) : d \in {} \/ d \in WorkingOf(op'[w])
       /\ \A d \in {} : d \in WorkingOf(op[w])
  BY <1>1, <1>2
<1>12. \A line \in LinesOf(op'[w]) : LineSound(line) /\ Linked(line)
  BY <1>1, OldLines
<1> DEFINE created == {c}
           gone == {}
<1>13. /\ StoreMoves(created, gone) /\ Kept(created, gone)
       /\ \A d \in WorkingOf(op'[w]) : d \in created \/ d \in WorkingOf(op[w])
       /\ \A d \in created : born'[d] \in served' \/ d \in WorkingOf(op'[w])
       /\ \A d \in WorkingOf(op[w]) : d \in gone \/ d \in WorkingOf(op'[w])
       /\ \A d \in gone : d \in WorkingOf(op[w])
  BY <1>4, <1>11
<1>14. served \subseteq served' /\ Others(w)
  BY <1>1, <1>4
<1> HIDE DEF created, gone
<1> QED BY <1>10, <1>12, <1>13, <1>14, OwnAccounts

\* A scrub is installed: each clone is continued by the next, the last by what
\* takes the channel.
LEMMA InstallScrubbedAccounts ==
  ASSUME Orderly, AllAccounted, NEW w \in Workers, InstallScrubbedThread(w)
  PROVE  AllAccounted'
<1> DEFINE gone == Range(op[w].line)
           o == Rebuilt(w, Serving(w))
           made == op[w].made
           n == Len(made)
<1>1. /\ op[w].do = "digest" /\ op[w].ch \in Channels /\ ScrubOver(w)
      /\ Serving(w) \in MappedConvs /\ WorkingOf(op[w]) = Range(made)
  BY InstallScrubbedDoes
<1>2. PICK c \in ConvIds : OpenedAs(c, o, gone) /\ ServedBy(op[w].ch, c)
  BY InstallScrubbedDoes
<1>3. /\ WorkingOf(op'[w]) = {} /\ op'[w].made = <<>> /\ Others(w)
      /\ LinesOf(op'[w]) \subseteq LinesOf(op[w])
  BY <1>1, RestDoes
<1>4. o.parent = Made(w) /\ o.birth = op[w].birth
  BY DEF Rebuilt
<1>5. \A d \in gone : d \in ConvIds /\ \A v \in Workers : d \notin WorkingOf(op[v])
  <2>1. op[w].line \in Seq(ConvIds)
    BY Reads DEF Orderly, Typed
  <2>2. \A d \in gone : d \in ConvIds
    BY <2>1 DEF Range
  <2>3. \A d \in gone : \A v \in Workers : d \notin WorkingOf(op[v])
    BY <1>1, ScrubReads, MappedIs
  <2> QED BY <2>2, <2>3
<1>6. \A d \in gone : d \in Live => parent[d] \in gone \/ parent[d] \notin Live
  <2> DEFINE line == op[w].line
  <2>1. line \in LinesOf(op[w]) /\ line \in Seq(ConvIds) /\ Len(line) \in Nat
    BY <1>1, ScrubReads DEF LineSound
  <2>2. Linked(line)
    BY <2>1 DEF AllAccounted, LinesLinked
  <2> HIDE DEF line
  <2>3. ASSUME NEW i \in 1 .. Len(line)
        PROVE  parent[line[i]] \in Range(line) \/ parent[line[i]] \notin Live
    <3>1. CASE i = 1
      BY <2>2, <3>1 DEF Linked
    <3>2. CASE i # 1
      <4>1. i - 1 \in 1 .. Len(line) - 1 /\ (i - 1) + 1 = i /\ i - 1 \in 1 .. Len(line)
        BY <2>1, <3>2
      <4>2. parent[line[i]] \in {line[i - 1], None}
        BY <2>2, <4>1 DEF Linked
      <4>3. line[i - 1] \in Range(line)
        BY <2>1, <4>1 DEF Range
      <4> QED BY <4>2, <4>3 DEF Live, ConvIds, None
    <3> QED BY <3>1, <3>2
  <2>4. \A d \in Range(line) : \E i \in 1 .. Len(line) : d = line[i]
    BY <2>1 DEF Range
  <2> QED BY <2>3, <2>4 DEF line
<1>7. /\ made \in Seq(ConvIds) /\ n \in Nat /\ n >= 1 /\ Made(w) = made[n]
      /\ born[Made(w)] = op[w].birth
  BY <1>1, Reads, MadeIs DEF Orderly, Typed, OpRecord, Shaped, Made
<1> HIDE DEF gone, o
<1>8. /\ StoreMoves({c}, gone) /\ Kept({c}, gone) /\ born'[c] \in served'
      /\ served \subseteq served' /\ c \notin Live
      /\ parent'[c] = Made(w) /\ parentBirth'[c] = op[w].birth
  BY <1>2, <1>4 DEF OpenedAs, ServedBy
<1>9. Apart(c)'
  BY <1>3, <1>8, NewIsApart
<1>10. ASSUME NEW i \in 1 .. n
       PROVE  /\ made[i] \in ConvIds /\ made[i] \in Live' /\ made[i] # c
              /\ born'[made[i]] = born[made[i]] /\ parent'[made[i]] = parent[made[i]]
              /\ parentBirth'[made[i]] = parentBirth[made[i]]
              /\ \A v \in Workers : made[i] \notin WorkingOf(op'[v])
  <2>1. made[i] \in Range(made) /\ made[i] \in ConvIds
    BY <1>7 DEF Range
  <2>2. made[i] \in Live /\ \A v \in Workers : made[i] \in WorkingOf(op[v]) => v = w
    BY <1>1, <2>1 DEF Orderly, WorkingApart
  <2>3. made[i] \notin gone /\ made[i] # c
    BY <1>1, <1>5, <1>8, <2>1, <2>2
  <2>4. ASSUME NEW v \in Workers PROVE made[i] \notin WorkingOf(op'[v])
    <3>1. CASE v = w
      BY <1>3, <3>1
    <3>2. CASE v # w
      <4>1. op'[v] = op[v]
        BY <1>3, <3>2 DEF Others
      <4> QED BY <2>2, <3>2, <4>1
    <3> QED BY <3>1, <3>2
  <2> QED BY <1>8, <2>1, <2>2, <2>3, <2>4 DEF Kept, StoreMoves
<1>11. ASSUME NEW d \in Range(made) PROVE Continued(d)'
  <2>1. PICK i \in 1 .. n : d = made[i]
    BY <1>7 DEF Range
  <2>2. CASE i = n
    <3>1. parent'[c] = d /\ parentBirth'[c] = born'[d]
      BY <1>7, <1>8, <1>10, <2>1, <2>2
    <3>2. c \in Live'
      BY <1>8 DEF StoreMoves
    <3> QED BY <1>9, <3>1, <3>2 DEF Continued
  <2>3. CASE i # n
    <3>1. i \in 1 .. n - 1 /\ i + 1 \in 1 .. n
      BY <1>7, <2>3
    <3>2. parent[made[i + 1]] = made[i] /\ parentBirth[made[i + 1]] = born[made[i]]
      BY <3>1 DEF AllAccounted, MadeLinked
    <3> HIDE DEF made, n
    <3>3. PICK e \in ConvIds : e = made[i + 1]
      BY <1>10, <3>1
    <3>4. parent'[e] = d /\ parentBirth'[e] = born'[d]
      BY <1>10, <2>1, <3>1, <3>2, <3>3
    <3>5. e \in Live' /\ \A v \in Workers : e \notin WorkingOf(op'[v])
      BY <1>10, <3>1, <3>3
    <3>6. Apart(e)'
      BY <3>5 DEF Apart
    <3> QED BY <3>4, <3>5, <3>6 DEF Continued
  <2> QED BY <2>2, <2>3
<1>12. \A v \in Workers \ {w} : \A d \in WorkingOf(op[v]) : d \notin gone
  BY <1>5
<1> QED BY <1>1, <1>3, <1>6, <1>8, <1>9, <1>11, <1>12, OldLines, NothingLinked, WorkerAccounts

LEMMA StandsDownAccounts ==
  ASSUME Orderly, AllAccounted, NEW w \in Workers, ScrubStandsDown(w)
  PROVE  AllAccounted'
<1> DEFINE gone == WorkingOf(op[w])
<1>1. DeletedAs(gone) /\ ScrubOver(w) /\ served' = served
  BY StandsDownDoes DEF ScrubStandsDown
<1> HIDE DEF gone
<1>2. StoreMoves({}, gone) /\ Kept({}, gone)
  BY <1>1 DEF DeletedAs
<1>3. /\ WorkingOf(op'[w]) = {} /\ op'[w].made = <<>> /\ Others(w)
      /\ LinesOf(op'[w]) \subseteq LinesOf(op[w])
  BY <1>1, RestDoes
<1>4. \A c \in gone : c \in WorkingOf(op[w])
  BY DEF gone
<1>5. \A c \in WorkingOf(op[w]) : c \in gone
  BY DEF gone
<1> QED BY <1>1, <1>2, <1>3, <1>4, <1>5, OldLines, NothingLinked, OwnAccounts

\* Nothing fails, nothing is torn, and nothing starts again.
Undisturbed == Ops \cap {"fault", "torn", "restart", "expire"} = {} /\ Direct = {}

LEMMA NextAccounts ==
  ASSUME Undisturbed
  PROVE  Orderly /\ AllAccounted /\ [Next]_vars => AllAccounted'
<1> SUFFICES ASSUME Orderly, AllAccounted, [Next]_vars PROVE AllAccounted'
  OBVIOUS
<1>0. /\ "fault" \notin Ops /\ "torn" \notin Ops /\ "restart" \notin Ops
      /\ "expire" \notin Ops /\ Direct = {}
  BY DEF Undisturbed
<1>1. ASSUME NEW w \in Workers, Starts(w) PROVE AllAccounted'
  BY <1>0, <1>1, CompactAccounts, StripAccounts, EraseAccounts DEF Starts
<1>2. ASSUME NEW w \in Workers, Proceeds(w) PROVE AllAccounted'
  <2>1. ~CloneFails(w)
    BY <1>0 DEF CloneFails
  <2> QED BY <1>2, <2>1, CaptureAccounts, InstallAccounts, ReplaceAccounts,
       StandDownAccounts, ScrubBeginsAccounts, ForkAccounts, ReadAccounts, HopAccounts,
       InstallScrubbedAccounts, StandsDownAccounts DEF Proceeds
<1>3. ~Crash /\ (\A c \in ConvIds : ~Expire(c))
      /\ \A w \in Workers, ch \in Channels : ~SwapTorn(w, ch)
  BY <1>0 DEF Crash, Expire, SwapTorn
<1>4. CASE UNCHANGED vars
  <2>1. born' = born /\ parent' = parent /\ parentBirth' = parentBirth /\ op' = op /\ served' = served
    BY <1>4 DEF vars, storeVars
  <2>2. Live' = Live
    BY <2>1 DEF Live
  <2>3. \A c : Apart(c)' <=> Apart(c)
    BY <2>1 DEF Apart
  <2>4. \A c : Continued(c)' <=> Continued(c)
    BY <2>1, <2>2, <2>3 DEF Continued
  <2>5. \A line : Linked(line)' <=> Linked(line)
    BY <2>1, <2>2, <2>3 DEF Linked
  <2>6. Accounted'
    BY <2>1, <2>2, <2>4 DEF AllAccounted, Accounted
  <2>7. LinesLinked' /\ MadeLinked'
    BY <2>1, <2>5 DEF AllAccounted, LinesLinked, MadeLinked
  <2> QED BY <2>6, <2>7 DEF AllAccounted
<1>5. ASSUME NEW ch \in Channels,
             \/ FirstContact(ch) \/ Wipe(ch) \/ MapNewChannelFails(ch) \/ RetireStaleChannel(ch)
             \/ \E p \in People : Ingest(ch, p)
      PROVE  AllAccounted'
  BY <1>0, <1>5, MessagesAccount
<1> QED BY <1>1, <1>2, <1>3, <1>4, <1>5 DEF Next

(* With no operation under way, every conversation in the store has served a *)
(* channel or is continued by a live one: compaction, strip and scrub        *)
(* install what they make or delete it, and retire a lineage whole           *)
(* (session.rs, erasure.rs).  It is about the operations themselves: a fault,*)
(* a torn swap and a restart may leave a conversation behind, and so may the *)
(* sweep and the deletion of a direct chat.                                  *)
THEOREM NoneLeftBehind ==
  ASSUME Undisturbed
  PROVE  Spec => []MappedOrRetired
<1>1. Init => AllAccounted
  <2> SUFFICES ASSUME Init PROVE AllAccounted
    OBVIOUS
  <2>1. Live = {} /\ \A w \in Workers : op[w] = Idle
    BY DEF Init, StoreInit, Live
  <2>2. LinesOf(Idle) = {}
    BY IdleIs DEF LinesOf
  <2>3. Idle.made = <<>>
    BY IdleIs
  <2>4. MadeLinked
    BY <2>1, <2>3 DEF MadeLinked
  <2> QED BY <2>1, <2>2, <2>4 DEF AllAccounted, Accounted, LinesLinked
<1>2. Orderly /\ AllAccounted /\ [Next]_vars => AllAccounted'
  BY NextAccounts
<1>3. Orderly /\ AllAccounted => MappedOrRetired
  <2> SUFFICES ASSUME Orderly, AllAccounted, \A w \in Workers : op[w].do = "idle"
               PROVE  \A c \in Live : \/ born[c] \in served
                                      \/ \E d \in Live : parent[d] = c /\ parentBirth[d] = born[c]
    BY DEF MappedOrRetired
  <2>1. \A w \in Workers : WorkingOf(op[w]) = {}
    BY NothingMade
  <2> QED BY <2>1 DEF AllAccounted, Accounted, Continued
<1>4. "expire" \notin Ops
  BY DEF Undisturbed
<1> QED BY <1>1, <1>2, <1>3, <1>4, SessionsOrderly, PTL DEF Spec

-----------------------------------------------------------------------------
(* What a digest retells is in a ledger below.                               *)
(*                                                                           *)
(* An erasure strips a lineage it reads from the ledgers of its              *)
(* conversations: that every digest retells only what a ledger or a digest   *)
(* below it holds, down to a root that retells nothing, is why the strip     *)
(* reaches each serving thread that retells the erased words.  The chains    *)
(* are the proof's witness: for each channel, the conversations its serving  *)
(* thread stands on.                                                         *)

\* Conversation c stands on nothing and retells nothing, or retells what the
\* one below it, in S, holds and retells.
Based(c, S) ==
    \/ parent[c] = None /\ digest[c] = {}
    \/ /\ parent[c] \in S
       /\ digest[c] \subseteq ledger[parent[c]] \cup digest[parent[c]]

\* The conversations S stand, and on one another.
Rooted(S) == \A c \in S : c \in Live /\ Based(c, S)

\* What lies under a line in flight is under no channel but the one its last
\* conversation serves.
Clear(line, chain) ==
    \A ch \in Channels : \/ mapped[ch] = line[Len(line)]
                         \/ \A i \in 1 .. Len(line) - 1 : line[i] \notin chain[ch]

\* A line in flight was read down to its root.
Bare(line) == parent[line[1]] = None /\ digest[line[1]] = {}

\* Every channel has a chain of conversations of its own down to a root.
Founded(chain) ==
    /\ \A ch \in Channels : mapped[ch] = None => chain[ch] = {}
    /\ \A ch \in Channels : mapped[ch] # None => mapped[ch] \in chain[ch]
    /\ \A ch \in Channels : Rooted(chain[ch]) /\ \A c \in chain[ch] : Apart(c)
    /\ \A a, b \in Channels : \A c \in chain[a] : c \in chain[b] => a = b
    /\ \A w \in Workers : \A line \in LinesOf(op[w]) : Clear(line, chain)

\* One step, as far as the chains see it: only what is created or deleted
\* changes its digest or its parent, and only a mapped ledger grows.
Moves(created, gone) ==
    /\ StoreMoves(created, gone)
    /\ \A d \in ConvIds : d \notin created /\ d \notin gone =>
          /\ parent'[d] = parent[d] /\ digest'[d] = digest[d] /\ ledger[d] \subseteq ledger'[d]
          /\ (d \notin MappedConvs => ledger'[d] = ledger[d])
    /\ \A d \in ConvIds : d \notin created /\ d \in gone => parent'[d] = None /\ digest'[d] = {}

LEMMA KeptMoves ==
  ASSUME NEW created, NEW gone, StoreMoves(created, gone), Kept(created, gone)
  PROVE  Moves(created, gone)
  BY DEF Moves, Kept

LEMMA CreatedIsNew ==
  ASSUME NEW created, NEW gone, StoreMoves(created, gone)
  PROVE  \A c \in created : c \in ConvIds /\ c \notin Live /\ c \in Live'
<1>1. \A c \in created : ~(c < c)
  BY DEF StoreMoves, ConvIds
<1> QED BY <1>1 DEF StoreMoves

LEMMA RootedStays ==
  ASSUME NEW created, NEW gone, Moves(created, gone), NEW S, Rooted(S), \A d \in S : d \notin gone
  PROVE  Rooted(S)'
<1>1. ASSUME NEW d \in S
      PROVE  /\ d \in ConvIds /\ d \notin created /\ d \notin gone /\ d \in Live /\ d \in Live'
  <2>1. d \in Live /\ d \in ConvIds /\ d \notin gone
    BY DEF Rooted, Live
  <2>2. d \notin created
    BY <2>1, CreatedIsNew DEF Moves
  <2> QED BY <2>1, <2>2 DEF Moves, StoreMoves
<1>2. ASSUME NEW d \in S
      PROVE  /\ parent'[d] = parent[d] /\ digest'[d] = digest[d] /\ ledger[d] \subseteq ledger'[d]
  BY <1>1 DEF Moves
<1>3. ASSUME NEW d \in S PROVE Based(d, S)'
  <2>1. Based(d, S)
    BY DEF Rooted
  <2>2. CASE parent[d] = None /\ digest[d] = {}
    BY <1>2, <2>2 DEF Based
  <2>3. CASE parent[d] \in S /\ digest[d] \subseteq ledger[parent[d]] \cup digest[parent[d]]
    <3>1. /\ digest'[parent[d]] = digest[parent[d]]
          /\ ledger[parent[d]] \subseteq ledger'[parent[d]]
      BY <1>2, <2>3
    <3>2. parent'[d] = parent[d] /\ digest'[d] = digest[d]
      BY <1>2
    <3> QED BY <2>3, <3>1, <3>2 DEF Based
  <2> QED BY <2>1, <2>2, <2>3 DEF Based
<1> QED BY <1>1, <1>3 DEF Rooted

\* A set of conversations, and one on top of it.
LEMMA RootedGrows ==
  ASSUME NEW created, NEW gone, Moves(created, gone), NEW S, Rooted(S), \A d \in S : d \notin gone,
         NEW c \in created, NEW T, \A d : d \in T <=> d \in S \/ d = c,
         \/ parent'[c] = None /\ digest'[c] = {}
         \/ /\ parent'[c] \in S
            /\ digest'[c] \subseteq ledger'[parent'[c]] \cup digest'[parent'[c]]
  PROVE  Rooted(T)'
<1>1. Rooted(S)' /\ c \in Live'
  BY RootedStays, CreatedIsNew DEF Moves
<1>2. ASSUME NEW d \in S PROVE Based(d, T)'
  BY <1>1 DEF Rooted, Based
<1>3. Based(c, T)'
  BY DEF Based
<1> QED BY <1>1, <1>2, <1>3 DEF Rooted

\* A line's ids are not reissued.
LEMMA LineOld ==
  ASSUME NEW line, LineSound(line), NEW created, NEW gone, StoreMoves(created, gone)
  PROVE  \A i \in 1 .. Len(line) - 1 : line[i] \in ConvIds /\ line[i] \notin created
<1> DEFINE n == Len(line)
<1>1. /\ line \in Seq(ConvIds) /\ n \in Nat /\ n >= 2
      /\ \A i \in 1 .. n - 1 : line[i] <= line[n - 1]
  BY DEF LineSound
<1>2. PICK u \in ConvIds : u \in Live /\ line[n - 1] <= u
  BY DEF LineSound, Stands
<1>3. ASSUME NEW i \in 1 .. n - 1 PROVE line[i] \in ConvIds /\ line[i] \notin created
  <2>1. i \in 1 .. n /\ n - 1 \in 1 .. n
    BY <1>1
  <2>2. line[i] \in ConvIds /\ line[n - 1] \in ConvIds
    BY <1>1, <2>1
  <2>3. line[i] <= line[n - 1]
    BY <1>1
  <2> HIDE DEF n
  <2>4. ASSUME line[i] \in created PROVE FALSE
    <3>1. u < line[i]
      BY <1>2, <2>4 DEF StoreMoves
    <3> QED BY <1>2, <2>2, <2>3, <3>1, StoreAssumption DEF ConvIds
  <2> QED BY <2>2, <2>4
<1> QED BY <1>3

LEMMA BareStays ==
  ASSUME NEW line, LineSound(line), NEW created, NEW gone, Moves(created, gone), Bare(line)
  PROVE  Bare(line)'
<1>1. 1 \in 1 .. Len(line) - 1
  BY DEF LineSound
<1>2. line[1] \in ConvIds /\ line[1] \notin created
  BY <1>1, LineOld DEF Moves
<1>3. parent[line[1]] = None /\ digest[line[1]] = {}
  BY DEF Bare
<1>4. parent'[line[1]] = None /\ digest'[line[1]] = {}
  BY <1>2, <1>3 DEF Moves
<1> QED BY <1>4 DEF Bare

\* The lineage a channel's thread has lies in the channel's chain.
LEMMA LineFounded ==
  ASSUME Orderly, NEW chain, Founded(chain), NEW ch \in Channels, mapped[ch] # None
  PROVE  LET line == Lineage(mapped[ch])
         IN /\ \A i \in 1 .. Len(line) : line[i] \in chain[ch]
            /\ Bare(line) /\ Clear(line, chain)
            /\ line[Len(line)] = mapped[ch] /\ Len(line) \in Nat /\ Len(line) >= 1
<1> DEFINE s == mapped[ch]
           line == Lineage(s)
           n == Len(line)
           S == chain[ch]
<1>1. s \in MappedConvs /\ s \in Live /\ s \in ConvIds /\ s \in S /\ Rooted(S)
  <2>1. s \in MappedConvs
    BY DEF MappedConvs
  <2> QED BY <2>1, MappedIs DEF Founded
<1>2. Climbs(line, s) /\ parent[line[1]] \notin Live
  BY <1>1, LineageClimbs, LineageEnds
<1>3. /\ line \in Seq(ConvIds) /\ n \in Nat /\ n >= 1 /\ line[n] = s
      /\ \A i \in 1 .. n - 1 : line[i] \in Live /\ line[i] = parent[line[i + 1]]
  BY <1>2 DEF Climbs
<1>4. \A d \in S : Based(d, S) /\ d \in Live
  BY <1>1 DEF Rooted
<1>5. \A a \in Channels : a # ch => \A d \in S : d \notin chain[a]
  BY DEF Founded
<1> HIDE DEF line, S
<1> DEFINE Bad == {k \in 0 .. n - 1 : line[n - k] \notin S}
<1>6. Bad = {}
  <2>1. SUFFICES ASSUME Bad # {} PROVE FALSE
    OBVIOUS
  <2>2. Bad \subseteq Nat
    BY <1>3
  <2>3. PICK k \in Bad : \A j \in Bad : k <= j
    <3> HIDE DEF Bad
    <3> QED BY <2>1, <2>2, LeastNumber
  <2>4. k \in 0 .. n - 1 /\ line[n - k] \notin S
    BY <2>3
  <2>5. k # 0
    <3>1. k = 0 => n - k = n
      BY <1>3, <2>4
    <3> QED BY <1>1, <1>3, <2>4, <3>1
  <2>6. k - 1 \in 0 .. n - 1 /\ ~(k <= k - 1)
    BY <1>3, <2>4, <2>5
  <2>7. line[n - (k - 1)] \in S
    BY <2>3, <2>6
  <2>8. n - k \in 1 .. n - 1 /\ (n - k) + 1 = n - (k - 1)
    BY <1>3, <2>4, <2>5
  <2>9. line[n - k] = parent[line[n - (k - 1)]] /\ line[n - k] \in Live
    BY <1>3, <2>8
  <2>10. line[n - k] # None
    BY <2>9 DEF Live, ConvIds, None
  <2> QED BY <1>4, <2>4, <2>7, <2>9, <2>10 DEF Based
<1>7. ASSUME NEW i \in 1 .. n PROVE line[i] \in S
  <2>1. n - i \in 0 .. n - 1 /\ n - (n - i) = i
    BY <1>3
  <2>2. n - i \notin Bad
    BY <1>6
  <2> QED BY <2>1, <2>2
<1>8. Bare(line)
  <2>1. line[1] \in S
    BY <1>3, <1>7
  <2> QED BY <1>2, <1>4, <2>1 DEF Based, Bare
<1>9. Clear(line, chain)
  <2>1. ASSUME NEW a \in Channels, a # ch, NEW i \in 1 .. n - 1 PROVE line[i] \notin chain[a]
    <3>1. i \in 1 .. n
      BY <1>3
    <3> QED BY <1>5, <1>7, <2>1, <3>1
  <2>2. mapped[ch] = line[n]
    BY <1>3
  <2> QED BY <2>1, <2>2 DEF Clear
<1> QED BY <1>3, <1>7, <1>8, <1>9 DEF line, S

\* A message a serving thread's digest retells is in a ledger of its lineage.
LEMMA RetoldIsBelow ==
  ASSUME Orderly, NEW chain, Founded(chain), NEW c \in MappedConvs, NEW m \in digest[c]
  PROVE  /\ Len(Lineage(c)) > 1
         /\ \E d \in Range(Lineage(c)) : m \in ledger[d]
<1> DEFINE line == Lineage(c)
           n == Len(line)
<1>1. PICK ch \in Channels : mapped[ch] = c /\ c # None
  BY DEF MappedConvs
<1>2. /\ \A i \in 1 .. n : line[i] \in chain[ch]
      /\ Bare(line) /\ line[n] = c /\ n \in Nat /\ n >= 1
  BY <1>1, LineFounded
<1>3. c \in ConvIds
  BY MappedIs
<1>4. /\ line \in Seq(ConvIds)
      /\ \A i \in 1 .. n - 1 : line[i] \in Live /\ line[i] = parent[line[i + 1]]
  BY <1>3, LineageClimbs DEF Climbs
<1>5. \A d \in chain[ch] : Based(d, chain[ch])
  BY DEF Founded, Rooted
<1> HIDE DEF line
<1>6. n > 1
  <2>1. n # 1
    <3>1. SUFFICES ASSUME n = 1 PROVE FALSE
      OBVIOUS
    <3>2. line[1] = c /\ digest[line[1]] = {}
      BY <1>2, <3>1 DEF Bare
    <3> QED BY <3>2
  <2>2. n \in Nat /\ n >= 1
    BY <1>2
  <2> HIDE DEF n
  <2> QED BY <2>1, <2>2
<1> DEFINE Bad == {k \in 1 .. n : m \in digest[line[k]]}
<1>7. n \in Bad
  BY <1>2
<1>8. Bad \subseteq Nat
  BY <1>2
<1>9. PICK k \in Bad : \A j \in Bad : k <= j
  <2> HIDE DEF Bad
  <2> QED BY <1>7, <1>8, LeastNumber
<1>10. k \in 1 .. n /\ m \in digest[line[k]]
  BY <1>9
<1>11. k # 1
  BY <1>2, <1>10 DEF Bare
<1>12. k - 1 \in 1 .. n - 1 /\ k - 1 \in 1 .. n /\ (k - 1) + 1 = k /\ ~(k <= k - 1)
  BY <1>2, <1>10, <1>11
<1>13. line[k - 1] = parent[line[k]] /\ line[k - 1] \in Live
  BY <1>4, <1>12
<1>14. parent[line[k]] # None
  BY <1>13 DEF Live, ConvIds, None
<1>15. Based(line[k], chain[ch])
  BY <1>2, <1>5, <1>10
<1>16. digest[line[k]] \subseteq ledger[line[k - 1]] \cup digest[line[k - 1]]
  BY <1>13, <1>14, <1>15 DEF Based
<1>17. m \notin digest[line[k - 1]]
  BY <1>9, <1>12
<1>18. line[k - 1] \in Range(line)
  BY <1>4, <1>12 DEF Range
<1> QED BY <1>6, <1>10, <1>16, <1>17, <1>18 DEF line

\* No channel is handed anything; some are unmapped.
LEMMA FoundedRests ==
  ASSUME NEW chain \in [Channels -> SUBSET ConvIds], Founded(chain),
         NEW created, NEW gone, Moves(created, gone), OwnMoves(created),
         \A ch \in Channels : mapped'[ch] = None \/ mapped'[ch] = mapped[ch],
         \A ch \in Channels : mapped'[ch] # None => \A d \in gone : d \notin chain[ch],
         \A w \in Workers : \A line \in LinesOf(op'[w]) : Clear(line, chain)
  PROVE  \E new \in [Channels -> SUBSET ConvIds] : Founded(new)'
<1> DEFINE new == [ch \in Channels |-> IF mapped'[ch] = None THEN {} ELSE chain[ch]]
<1>1. new \in [Channels -> SUBSET ConvIds]
  OBVIOUS
<1>2. PICK n \in [Channels -> SUBSET ConvIds] : n = new
  BY <1>1
<1>3. \A ch \in Channels : mapped'[ch] = None => n[ch] = {}
  BY <1>2
<1>4. \A ch \in Channels : mapped'[ch] # None => n[ch] = chain[ch] /\ mapped'[ch] = mapped[ch]
  BY <1>2
<1> HIDE DEF new
<1>5. \A ch \in Channels : \A d \in n[ch] : d \in chain[ch]
  BY <1>3, <1>4
<1>6. \A ch \in Channels : mapped'[ch] # None => mapped'[ch] \in n[ch]
  BY <1>4 DEF Founded
<1>7. ASSUME NEW ch \in Channels PROVE Rooted(n[ch])' /\ \A d \in n[ch] : Apart(d)'
  <2>1. CASE mapped'[ch] = None
    <3>1. n[ch] = {}
      BY <1>3, <2>1
    <3> QED BY <3>1 DEF Rooted
  <2>2. CASE mapped'[ch] # None
    <3>1. n[ch] = chain[ch] /\ Rooted(chain[ch]) /\ \A d \in chain[ch] : Apart(d) /\ d \notin gone
      BY <1>4, <2>2 DEF Founded
    <3>2. Rooted(n[ch])'
      BY <3>1, RootedStays
    <3>3. ASSUME NEW d \in n[ch] PROVE Apart(d)'
      <4>1. d \in Live /\ Apart(d)
        BY <3>1, <3>3 DEF Rooted
      <4>2. d \notin created
        BY <4>1, CreatedIsNew DEF Moves
      <4> QED BY <4>1, <4>2 DEF Apart, OwnMoves
    <3> QED BY <3>2, <3>3
  <2> QED BY <2>1, <2>2
<1>8. \A a, b \in Channels : \A c \in n[a] : c \in n[b] => a = b
  BY <1>5 DEF Founded
<1>9. ASSUME NEW w \in Workers, NEW line \in LinesOf(op'[w]) PROVE Clear(line, n)'
  <2>1. \A ch \in Channels : \/ mapped[ch] = line[Len(line)]
                             \/ \A i \in 1 .. Len(line) - 1 : line[i] \notin chain[ch]
    BY DEF Clear
  <2>2. \A ch \in Channels : \/ mapped'[ch] = line[Len(line)]
                             \/ \A i \in 1 .. Len(line) - 1 : line[i] \notin n[ch]
    BY <1>3, <1>4, <2>1
  <2> QED BY <2>2 DEF Clear
<1>10. Founded(n)'
  BY <1>3, <1>6, <1>7, <1>8, <1>9 DEF Founded
<1> QED BY <1>10

\* Channel ch is handed c, which stands on T.
LEMMA FoundedServes ==
  ASSUME Orderly, NEW chain \in [Channels -> SUBSET ConvIds], Founded(chain),
         NEW created, NEW gone, Moves(created, gone), OwnMoves({}),
         NEW ch \in Channels, NEW c \in created, ServedBy(ch, c),
         NEW T \in SUBSET ConvIds, c \in T, Rooted(T)', \A d \in T : Apart(d)',
         \A d \in T : d = c \/ d \in chain[ch] \/ ~Apart(d),
         \A a \in Channels \ {ch} : \A d \in gone : d \notin chain[a],
         \A w \in Workers : \A line \in LinesOf(op'[w]) : line \in LinesOf(op[w]),
         \/ \A d \in T : d = c \/ ~Apart(d)
         \/ \A w \in Workers : LinesOf(op'[w]) = {}
  PROVE  \E new \in [Channels -> SUBSET ConvIds] : Founded(new)'
<1>0. c \notin Live /\ c \in ConvIds /\ c # None
  BY CreatedIsNew DEF Moves, ConvIds, None
<1> DEFINE new == [chain EXCEPT ![ch] = T]
<1>1. new \in [Channels -> SUBSET ConvIds]
  OBVIOUS
<1>2. PICK n \in [Channels -> SUBSET ConvIds] : n = new
  BY <1>1
<1>3. n[ch] = T /\ \A a \in Channels \ {ch} : n[a] = chain[a]
  BY <1>2
<1> HIDE DEF new
<1>4. mapped'[ch] = c /\ \A a \in Channels \ {ch} : mapped'[a] = mapped[a]
  BY DEF ServedBy
<1>5. \A a \in Channels : mapped'[a] = None => n[a] = {}
  BY <1>0, <1>3, <1>4 DEF Founded
<1>6. \A a \in Channels : mapped'[a] # None => mapped'[a] \in n[a]
  BY <1>3, <1>4 DEF Founded
<1>7. ASSUME NEW a \in Channels PROVE Rooted(n[a])' /\ \A d \in n[a] : Apart(d)'
  <2>1. CASE a = ch
    BY <1>3, <2>1
  <2>2. CASE a # ch
    <3>1. n[a] = chain[a] /\ Rooted(chain[a]) /\ \A d \in chain[a] : Apart(d) /\ d \notin gone
      BY <1>3, <2>2 DEF Founded
    <3>2. Rooted(n[a])'
      BY <3>1, RootedStays
    <3>3. ASSUME NEW d \in n[a] PROVE Apart(d)'
      <4>1. Apart(d)
        BY <3>1, <3>3
      <4> QED BY <4>1 DEF Apart, OwnMoves
    <3> QED BY <3>2, <3>3
  <2> QED BY <2>1, <2>2
<1>8. ASSUME NEW a \in Channels \ {ch}, NEW d \in chain[a] PROVE d \notin T
  <2>1. d \in Live /\ Apart(d)
    BY DEF Founded, Rooted
  <2>2. d \notin chain[ch]
    BY DEF Founded
  <2> QED BY <1>0, <2>1, <2>2
<1>9. \A a, b \in Channels : \A d \in n[a] : d \in n[b] => a = b
  <2>1. ASSUME NEW a \in Channels, NEW b \in Channels, NEW d \in n[a], d \in n[b], a # b
        PROVE  FALSE
    <3>1. CASE a = ch
      BY <1>3, <1>8, <2>1, <3>1
    <3>2. CASE b = ch
      BY <1>3, <1>8, <2>1, <3>2
    <3>3. CASE a # ch /\ b # ch
      BY <1>3, <2>1, <3>3 DEF Founded
    <3> QED BY <3>1, <3>2, <3>3
  <2> QED BY <2>1
<1>10. ASSUME NEW w \in Workers, NEW line \in LinesOf(op'[w]) PROVE Clear(line, n)'
  <2>1. line \in LinesOf(op[w]) /\ \A d \in T : d = c \/ ~Apart(d)
    BY <1>10
  <2>2. LineSound(line) /\ Clear(line, chain)
    BY <2>1 DEF Orderly, LinesSound, Founded
  <2>3. ASSUME NEW i \in 1 .. Len(line) - 1 PROVE line[i] \notin T
    <3>1. line[i] \notin created
      BY <2>2, LineOld DEF Moves
    <3>2. Apart(line[i])
      BY <2>2 DEF LineSound, Apart
    <3> QED BY <2>1, <3>1, <3>2
  <2>4. \A a \in Channels \ {ch} : \/ mapped'[a] = line[Len(line)]
                                   \/ \A i \in 1 .. Len(line) - 1 : line[i] \notin n[a]
    BY <1>3, <1>4, <2>2 DEF Clear
  <2>5. \A i \in 1 .. Len(line) - 1 : line[i] \notin n[ch]
    BY <1>3, <2>3
  <2>6. \A a \in Channels : \/ mapped'[a] = line[Len(line)]
                            \/ \A i \in 1 .. Len(line) - 1 : line[i] \notin n[a]
    BY <2>4, <2>5
  <2> QED BY <2>6 DEF Clear
<1>11. Founded(n)'
  BY <1>5, <1>6, <1>7, <1>9, <1>10 DEF Founded
<1> QED BY <1>11

-----------------------------------------------------------------------------
(* What an operation has read.                                               *)

\* A compaction's turn reads its source.
Sourced(w) ==
    /\ op[w].do \in {"capture", "install"} => op[w].line[1] \in Live
    /\ op[w].do = "capture" =>
          /\ op[w].line[1] # op[w].temp
          /\ ledger[op[w].temp] \subseteq ledger[op[w].line[1]]
          /\ digest[op[w].temp] \subseteq digest[op[w].line[1]]
          /\ digest[op[w].temp] \cap nulled \subseteq residual
    /\ op[w].do = "install" =>
          /\ op[w].words \subseteq ledger[op[w].line[1]] \cup digest[op[w].line[1]]
          /\ op[w].words \cap nulled \subseteq residual

\* A scrub's turn reads the clone below, and no clone retells erased words.
Built(w) ==
    op[w].do \in {"fork", "digest"} =>
        /\ Rooted(Range(op[w].made))
        /\ \A c \in WorkingOf(op[w]) : digest[c] \cap nulled = {}
        /\ op[w].temp # None =>
              /\ ledger[op[w].temp] \subseteq ledger[Made(w)]
              /\ digest[op[w].temp] \subseteq digest[Made(w)]
        /\ op[w].do = "digest" =>
              /\ op[w].words \subseteq ledger[Made(w)] \cup digest[Made(w)]
              /\ op[w].words \cap nulled = {}

\* What worker w holds agrees with what it has read.
Tidy(w) ==
    /\ op[w].do \in {"idle", "capture", "install", "strip"} => op[w].plans = {}
    /\ \A line \in LinesOf(op[w]) : Bare(line)
    /\ Sourced(w)
    /\ Built(w)

\* Record r is to take message m out of conversation c.
Awaits(r, c, m) ==
    \/ \E plan \in r.plans : plan.line[Len(plan.line)] = c /\ m \in plan.strip
    \/ r.do \in {"scrub", "fork", "digest"} /\ r.line[Len(r.line)] = c /\ m \in r.strip

\* Erased words a serving thread's digest retells are awaited, or said to be left.
Awaited ==
    \A c \in MappedConvs : \A m \in digest[c] \cap nulled :
        m \in residual \/ \E w \in Workers : Awaits(op[w], c, m)

\* The inductive invariant.
Retold ==
    /\ \E chain \in [Channels -> SUBSET ConvIds] : Founded(chain)
    /\ \A w \in Workers : Tidy(w)
    /\ Awaited

\* A worker whose operation does not move.
LEMMA TidyStays ==
  ASSUME Orderly, NEW created, NEW gone, Moves(created, gone), NEW w \in Workers, op'[w] = op[w],
         Tidy(w), nulled' = nulled, residual' = residual,
         \A d \in gone : d \notin WorkingOf(op[w]), op[w].line[1] \notin gone
  PROVE  Tidy(w)'
<1> DEFINE t == op[w].temp
           s == op[w].line[1]
           m == Made(w)
<1>0. op[w] \in OpRecord /\ Shaped(op[w])
  BY Reads DEF Orderly, Typed
<1>1. ASSUME NEW d \in WorkingOf(op[w])
      PROVE  digest'[d] = digest[d] /\ ledger'[d] = ledger[d]
  <2>1. d \in Live /\ d \notin MappedConvs /\ d \notin gone
    BY <1>1 DEF Orderly, WorkingApart
  <2>2. d \notin created /\ d \in ConvIds
    BY <2>1, CreatedIsNew DEF Moves, Live
  <2> QED BY <2>1, <2>2 DEF Moves
<1>2. t # None => t \in WorkingOf(op[w])
  BY DEF WorkingOf
<1>3. ASSUME s \in Live
      PROVE  s \in Live' /\ digest'[s] = digest[s] /\ ledger[s] \subseteq ledger'[s]
  <2>1. s \in ConvIds /\ s \notin created
    BY <1>3, CreatedIsNew DEF Moves, Live
  <2> QED BY <1>3, <2>1 DEF Moves, StoreMoves
<1>4. op[w].do \in {"fork", "digest"} => m \in WorkingOf(op[w])
  BY MadeIs
<1>5. \A line \in LinesOf(op'[w]) : Bare(line)'
  <2>1. \A line \in LinesOf(op[w]) : LineSound(line) /\ Bare(line)
    BY DEF Tidy, Orderly, LinesSound
  <2> QED BY <2>1, BareStays
<1>6. Sourced(w)'
  <2>1. Sourced(w)
    BY DEF Tidy
  <2>2. op[w].do = "capture" => t # None
    BY <1>0 DEF Shaped
  <2>3. op[w].do = "capture" => digest'[t] = digest[t] /\ ledger'[t] = ledger[t]
    BY <1>1, <1>2, <2>2
  <2> QED BY <1>3, <2>1, <2>3 DEF Sourced
<1>7. Built(w)'
  <2>1. Built(w) /\ Made(w)' = m
    BY DEF Tidy, Made
  <2>2. ASSUME op[w].do \in {"fork", "digest"} PROVE Rooted(Range(op[w].made))'
    <3>1. Rooted(Range(op[w].made))
      BY <2>1, <2>2 DEF Built
    <3>2. \A d \in Range(op[w].made) : d \notin gone
      BY DEF WorkingOf
    <3> DEFINE S == Range(op[w].made)
    <3>3. PICK T : T = S
      OBVIOUS
    <3>4. Rooted(T)'
      BY <3>1, <3>2, <3>3, RootedStays
    <3>5. T = Range(op'[w].made)
      BY <3>3
    <3> QED BY <3>4, <3>5 DEF Rooted, Based
  <2>3. op[w].do \in {"fork", "digest"} => digest'[m] = digest[m] /\ ledger'[m] = ledger[m]
    BY <1>1, <1>4
  <2>4. t # None => digest'[t] = digest[t] /\ ledger'[t] = ledger[t]
    BY <1>1, <1>2
  <2>5. ASSUME op[w].do \in {"fork", "digest"}
        PROVE  /\ Rooted(Range(op[w].made))'
               /\ \A d \in WorkingOf(op'[w]) : digest'[d] \cap nulled' = {}
               /\ op'[w].temp # None =>
                     /\ ledger'[op'[w].temp] \subseteq ledger'[Made(w)']
                     /\ digest'[op'[w].temp] \subseteq digest'[Made(w)']
               /\ op'[w].do = "digest" =>
                     /\ op'[w].words \subseteq ledger'[Made(w)'] \cup digest'[Made(w)']
                     /\ op'[w].words \cap nulled' = {}
    <3>1. /\ \A d \in WorkingOf(op[w]) : digest[d] \cap nulled = {}
          /\ t # None => ledger[t] \subseteq ledger[m] /\ digest[t] \subseteq digest[m]
          /\ op[w].do = "digest" =>
                op[w].words \subseteq ledger[m] \cup digest[m] /\ op[w].words \cap nulled = {}
      BY <2>1, <2>5 DEF Built
    <3>2. \A d \in WorkingOf(op'[w]) : digest'[d] \cap nulled' = {}
      BY <1>1, <3>1
    <3>3. op'[w].temp = t /\ op'[w].words = op[w].words /\ op'[w].do = op[w].do
      OBVIOUS
    <3> HIDE DEF t, m
    <3>4. op'[w].temp # None =>
                     /\ ledger'[op'[w].temp] \subseteq ledger'[Made(w)']
                     /\ digest'[op'[w].temp] \subseteq digest'[Made(w)']
      BY <2>1, <2>3, <2>4, <2>5, <3>1, <3>3
    <3>5. op'[w].do = "digest" =>
                     /\ op'[w].words \subseteq ledger'[Made(w)'] \cup digest'[Made(w)']
                     /\ op'[w].words \cap nulled' = {}
      BY <2>1, <2>3, <2>5, <3>1, <3>3
    <3> QED BY <2>2, <2>5, <3>2, <3>4, <3>5
  <2> QED BY <2>5 DEF Built
<1> QED BY <1>5, <1>6, <1>7 DEF Tidy

\* At most one operation on the sessions is under way.
OneWorker == \A v, w \in Workers : v = w

\* What a worker has made stays as it is.
LEMMA WorkKept ==
  ASSUME Orderly, NEW created, NEW gone, Moves(created, gone), NEW w \in Workers,
         NEW d \in WorkingOf(op[w]), d \notin gone
  PROVE  /\ digest'[d] = digest[d] /\ ledger'[d] = ledger[d] /\ parent'[d] = parent[d]
         /\ d \in Live' /\ d \in Live /\ d \in ConvIds /\ d \notin created
<1>1. d \in Live /\ d \notin MappedConvs
  BY DEF Orderly, WorkingApart
<1>2. d \notin created /\ d \in ConvIds
  BY <1>1, CreatedIsNew DEF Moves, Live
<1> QED BY <1>1, <1>2 DEF Moves, StoreMoves

LEMMA MappedKept ==
  ASSUME Orderly, NEW created, NEW gone, Moves(created, gone), NEW d \in MappedConvs, d \notin gone
  PROVE  digest'[d] = digest[d] /\ ledger[d] \subseteq ledger'[d] /\ d \in Live' /\ d \notin created
<1>1. d \in Live /\ d \in ConvIds
  BY MappedIs
<1>2. d \notin created
  BY <1>1, CreatedIsNew DEF Moves
<1> QED BY <1>1, <1>2 DEF Moves, StoreMoves

\* An operation that is over, or only begins.
LEMMA TidyRests ==
  ASSUME Orderly, NEW created, NEW gone, Moves(created, gone), NEW w \in Workers,
         op'[w].do \in {"idle", "erase", "scrub", "strip"},
         op'[w].do \in {"idle", "strip"} => op'[w].plans = {},
         \A line \in LinesOf(op'[w]) : LineSound(line) /\ Bare(line)
  PROVE  Tidy(w)'
<1>1. \A line \in LinesOf(op'[w]) : Bare(line)'
  BY BareStays
<1>2. Sourced(w)' /\ Built(w)'
  BY DEF Sourced, Built
<1> QED BY <1>1, <1>2 DEF Tidy

LEMMA TidyLines ==
  ASSUME Orderly, NEW w \in Workers, Tidy(w), LinesOf(op'[w]) \subseteq LinesOf(op[w])
  PROVE  \A line \in LinesOf(op'[w]) : LineSound(line) /\ Bare(line)
  BY DEF Tidy, Orderly, LinesSound

LEMMA NothingAwaited ==
  ASSUME OneWorker, NEW w \in Workers, Tidy(w), Awaited,
         op[w].do \in {"idle", "capture", "install", "strip"}
  PROVE  /\ LinesOf(op[w]) = {}
         /\ \A c \in MappedConvs : digest[c] \cap nulled \subseteq residual
<1>1. op[w].plans = {}
  BY DEF Tidy
<1>2. LinesOf(op[w]) = {}
  BY <1>1 DEF LinesOf
<1>3. \A c, m : ~Awaits(op[w], c, m)
  BY <1>1 DEF Awaits
<1>4. \A c \in MappedConvs : \A m \in digest[c] \cap nulled : m \in residual
  BY <1>3 DEF Awaited, OneWorker
<1> QED BY <1>2, <1>4

\* The worker's own claim is enough.
LEMMA AwaitedBy ==
  ASSUME NEW w \in Workers,
         \A c \in MappedConvs' : \A m \in digest'[c] \cap nulled' :
            m \in residual' \/ Awaits(op'[w], c, m)
  PROVE  Awaited'
<1>1. \A c \in MappedConvs' : \A m \in digest'[c] \cap nulled' :
            m \in residual' \/ \E v \in Workers : Awaits(op'[v], c, m)
  OBVIOUS
<1> QED BY <1>1 DEF Awaited, Awaits

\* A step of the one worker that hands no channel anything.
LEMMA RetoldRests ==
  ASSUME Orderly, OneWorker, Retold, NEW w \in Workers,
         NEW created, NEW gone, Moves(created, gone),
         \A c \in WorkingOf(op'[w]) : c \in created \/ c \in WorkingOf(op[w]),
         \A d \in gone : d \in WorkingOf(op[w]),
         mapped' = mapped, nulled' = nulled,
         LinesOf(op'[w]) \subseteq LinesOf(op[w]),
         \A c, m : m \in residual \/ Awaits(op[w], c, m) => m \in residual' \/ Awaits(op'[w], c, m),
         Tidy(w)'
  PROVE  Retold'
<1>1. \A v \in Workers : Tidy(v)'
  BY DEF OneWorker
<1>2. PICK chain \in [Channels -> SUBSET ConvIds] : Founded(chain)
  BY DEF Retold
<1>3. OwnMoves(created)
  BY DEF OneWorker, OwnMoves
<1>4. \A ch \in Channels : \A d \in gone : d \notin chain[ch]
  BY <1>2 DEF Founded, Apart
<1>5. \A v \in Workers : \A line \in LinesOf(op'[v]) : Clear(line, chain)
  BY <1>2 DEF OneWorker, Founded
<1>6. \A ch \in Channels : mapped'[ch] = mapped[ch]
  OBVIOUS
<1>7. \E new \in [Channels -> SUBSET ConvIds] : Founded(new)'
  BY <1>2, <1>3, <1>4, <1>5, <1>6, FoundedRests
<1>8. ASSUME NEW c \in MappedConvs', NEW m \in digest'[c] \cap nulled'
      PROVE  m \in residual' \/ Awaits(op'[w], c, m)
  <2>1. c \in MappedConvs
    BY DEF MappedConvs
  <2>2. c \notin gone
    BY <2>1, MappedIs
  <2>3. m \in digest[c] \cap nulled
    BY <2>1, <2>2, MappedKept
  <2>4. m \in residual \/ Awaits(op[w], c, m)
    BY <2>1, <2>3 DEF Retold, Awaited, OneWorker
  <2> QED BY <2>4
<1>9. Awaited'
  BY <1>8, AwaitedBy
<1> QED BY <1>1, <1>7, <1>9 DEF Retold

\* A step that hands channel ch conversation c.
LEMMA RetoldServes ==
  ASSUME Orderly, Retold, NEW chain \in [Channels -> SUBSET ConvIds], Founded(chain),
         NEW created, NEW gone, Moves(created, gone), OwnMoves({}),
         NEW ch \in Channels, NEW c \in created, ServedBy(ch, c),
         NEW T \in SUBSET ConvIds, c \in T, Rooted(T)', \A d \in T : Apart(d)',
         \A d \in T : d = c \/ d \in chain[ch] \/ ~Apart(d),
         \A a \in Channels \ {ch} : \A d \in gone : d \notin chain[a],
         \A w \in Workers : LinesOf(op'[w]) \subseteq LinesOf(op[w]),
         \/ \A d \in T : d = c \/ ~Apart(d)
         \/ \A w \in Workers : LinesOf(op'[w]) = {},
         nulled' = nulled, digest'[c] \cap nulled \subseteq residual',
         \A d \in MappedConvs : \A m \in digest[d] \cap nulled :
            d # mapped[ch] /\ (m \in residual \/ \E w \in Workers : Awaits(op[w], d, m)) =>
               m \in residual' \/ \E w \in Workers : Awaits(op'[w], d, m),
         \A w \in Workers : Tidy(w)'
  PROVE  Retold'
<1>1. \E new \in [Channels -> SUBSET ConvIds] : Founded(new)'
  <2>1. \A w \in Workers : \A line \in LinesOf(op'[w]) : line \in LinesOf(op[w])
    OBVIOUS
  <2> QED BY <2>1, FoundedServes
<1>2. ASSUME NEW d \in MappedConvs', NEW m \in digest'[d] \cap nulled'
      PROVE  m \in residual' \/ \E w \in Workers : Awaits(op'[w], d, m)
  <2>1. CASE d = c
    BY <2>1
  <2>2. CASE d # c
    <3>1. d \in MappedConvs /\ d # mapped[ch]
      BY <2>2 DEF ServedBy
    <3>2. PICK a \in Channels : a # ch /\ mapped[a] = d /\ d # None
      BY <3>1 DEF MappedConvs
    <3>3. d \in chain[a]
      BY <3>2 DEF Founded
    <3>4. d \notin gone
      BY <3>2, <3>3
    <3>5. m \in digest[d] \cap nulled
      BY <3>1, <3>4, MappedKept
    <3> QED BY <3>1, <3>5 DEF Retold, Awaited
  <2> QED BY <2>1, <2>2
<1>3. Awaited'
  BY <1>2 DEF Awaited, Awaits
<1> QED BY <1>1, <1>3 DEF Retold

\* A channel's steps move no operation.
LEMMA OpsTidy ==
  ASSUME Orderly, Retold, NEW created, Moves(created, {}), op' = op,
         nulled' = nulled, residual' = residual
  PROVE  \A w \in Workers : Tidy(w)'
<1>1. ASSUME NEW w \in Workers PROVE Tidy(w)'
  <2> DEFINE gone == {}
  <2>1. Moves(created, gone) /\ (\A d \in gone : d \notin WorkingOf(op[w])) /\ op[w].line[1] \notin gone
    OBVIOUS
  <2>2. op'[w] = op[w] /\ Tidy(w)
    BY DEF Retold
  <2> HIDE DEF gone
  <2> QED BY <2>1, <2>2, TidyStays
<1> QED BY <1>1

\* A conversation opens that no channel is on, or nothing does.
LEMMA AsideRetold ==
  ASSUME Orderly, Retold, NEW created, Moves(created, {}), op' = op,
         mapped' = mapped, nulled' = nulled, residual' = residual
  PROVE  Retold'
<1>1. \A w \in Workers : Tidy(w)'
  BY OpsTidy
<1>2. PICK chain \in [Channels -> SUBSET ConvIds] : Founded(chain)
  BY DEF Retold
<1> DEFINE gone == {}
<1>3. /\ Moves(created, gone) /\ OwnMoves(created)
      /\ \A ch \in Channels : mapped'[ch] = None \/ mapped'[ch] = mapped[ch]
      /\ \A ch \in Channels : mapped'[ch] # None => \A d \in gone : d \notin chain[ch]
      /\ \A w \in Workers : \A line \in LinesOf(op'[w]) : Clear(line, chain)
  BY <1>2 DEF OwnMoves, Founded
<1>4. \A d \in MappedConvs : d \notin gone
  OBVIOUS
<1> HIDE DEF gone
<1>5. \E new \in [Channels -> SUBSET ConvIds] : Founded(new)'
  BY <1>2, <1>3, FoundedRests
<1>6. \A c \in MappedConvs' : c \in MappedConvs /\ digest'[c] = digest[c]
  BY <1>3, <1>4, MappedKept DEF MappedConvs
<1>7. Awaited'
  BY <1>6 DEF Retold, Awaited, Awaits
<1> QED BY <1>1, <1>5, <1>7 DEF Retold

LEMMA FreshRetold ==
  ASSUME Orderly, Retold, NEW ch \in Channels, FirstContact(ch) \/ Wipe(ch)
  PROVE  Retold'
<1>1. PICK c \in ConvIds : OpenedAs(c, Blank, {}) /\ ServedBy(ch, c)
  BY FreshDoes
<1>2. op' = op /\ nulled' = nulled /\ residual' = residual
  BY DEF FirstContact, Wipe
<1>3. PICK chain \in [Channels -> SUBSET ConvIds] : Founded(chain)
  BY DEF Retold
<1> DEFINE created == {c}
           gone == {}
           T == {c}
<1>4. Moves(created, {}) /\ c \notin Live
  BY <1>1, KeptMoves DEF OpenedAs
<1>5. /\ c \in created /\ T \in SUBSET ConvIds /\ c \in T /\ \A d \in T : d = c
      /\ Moves(created, gone) /\ OwnMoves({})
      /\ \A a \in Channels \ {ch} : \A d \in gone : d \notin chain[a]
  BY <1>2, <1>4 DEF OwnMoves
<1>6. parent'[c] = None /\ digest'[c] = {} /\ c \in Live'
  BY <1>1 DEF OpenedAs, Blank, StoreMoves
<1>7. Rooted(T)'
  BY <1>6 DEF Rooted, Based
<1>8. Apart(c)'
  BY <1>2, <1>4 DEF Apart, Orderly, WorkingApart
<1>9. \A w \in Workers : Tidy(w)'
  BY <1>2, <1>4, OpsTidy
<1>10. \A w \in Workers : LinesOf(op'[w]) \subseteq LinesOf(op[w])
  BY <1>2
<1>11. \A d \in T : Apart(d)'
  BY <1>5, <1>8
<1>12. \A d \in MappedConvs : \A m \in digest[d] \cap nulled :
            d # mapped[ch] /\ (m \in residual \/ \E w \in Workers : Awaits(op[w], d, m)) =>
               m \in residual' \/ \E w \in Workers : Awaits(op'[w], d, m)
  BY <1>2
<1>13. digest'[c] \cap nulled \subseteq residual'
  BY <1>6
<1> HIDE DEF created, gone, T
<1> QED BY <1>1, <1>2, <1>3, <1>5, <1>7, <1>9, <1>10, <1>11, <1>12, <1>13, RetoldServes

LEMMA MessagesRetold ==
  ASSUME Orderly, Retold, NEW ch \in Channels,
         MapNewChannelFails(ch) \/ \E p \in People : Ingest(ch, p)
  PROVE  Retold'
<1>1. CASE MapNewChannelFails(ch)
  <2>1. PICK c \in ConvIds : OpenedAs(c, Blank, {})
    BY <1>1, MapFailsDoes
  <2>2. Moves({c}, {})
    BY <2>1, KeptMoves DEF OpenedAs
  <2>3. op' = op /\ mapped' = mapped /\ nulled' = nulled /\ residual' = residual
    BY <1>1 DEF MapNewChannelFails
  <2> QED BY <2>2, <2>3, AsideRetold
<1>2. ASSUME NEW p \in People, Ingest(ch, p) PROVE Retold'
  <2>1. /\ mapped[ch] \in MappedConvs
        /\ ledger'[mapped[ch]] = ledger[mapped[ch]] \cup {recorded + 1}
        /\ \A d \in ConvIds : d # mapped[ch] => ledger'[d] = ledger[d]
        /\ StoreMoves({}, {}) /\ parent' = parent
    BY <1>2, IngestDoes
  <2>2. digest' = digest /\ op' = op /\ mapped' = mapped /\ nulled' = nulled /\ residual' = residual
    BY <1>2 DEF Ingest
  <2>3. \A d \in ConvIds : ledger[d] \subseteq ledger'[d] /\ (d \notin MappedConvs => ledger'[d] = ledger[d])
    BY <2>1
  <2>4. Moves({}, {})
    BY <2>1, <2>2, <2>3 DEF Moves
  <2> QED BY <2>2, <2>4, AsideRetold
<1> QED BY <1>1, <1>2

\* A channel's chain, and the clone that joins it.
LEMMA CloneJoins ==
  ASSUME Orderly, NEW chain, Founded(chain), NEW ch \in Channels, mapped[ch] # None,
         NEW S, \A d \in S : d \in chain[ch], \A d \in chain[ch] : d = mapped[ch] \/ d \in S,
         NEW created, NEW gone, Moves(created, gone), \A d \in S : d \notin gone,
         NEW c \in created, parent'[c] = parent[mapped[ch]], digest'[c] = digest[mapped[ch]],
         NEW T, \A d : d \in T <=> d \in S \/ d = c
  PROVE  Rooted(T)'
<1> DEFINE s == mapped[ch]
<1>1. s \in MappedConvs /\ s \in chain[ch] /\ Rooted(chain[ch])
  BY DEF MappedConvs, Founded
<1>2. ASSUME NEW d \in chain[ch]
      PROVE  \/ parent[d] = None /\ digest[d] = {}
             \/ /\ parent[d] \in S
                /\ digest[d] \subseteq ledger[parent[d]] \cup digest[parent[d]]
  <2>1. Based(d, chain[ch]) /\ d \in Live
    BY <1>1, <1>2 DEF Rooted
  <2>2. CASE parent[d] \in chain[ch]
    <3>1. parent[d] \in Live
      BY <1>1, <2>2 DEF Rooted
    <3>2. parent[d] # None
      BY <3>1 DEF Live, ConvIds, None
    <3>3. parent[d] # s
      BY <1>1, <2>1, <3>2 DEF Orderly, ParentsStand
    <3> QED BY <2>1, <2>2, <3>2, <3>3 DEF Based
  <2> QED BY <2>1, <2>2 DEF Based
<1>3. Rooted(S)
  BY <1>1, <1>2 DEF Rooted, Based
<1>4. ASSUME NEW p \in S
      PROVE  digest'[p] = digest[p] /\ ledger[p] \subseteq ledger'[p]
  <2>1. p \in Live /\ p \notin gone
    BY <1>3 DEF Rooted
  <2>2. p \notin created /\ p \in ConvIds
    BY <2>1, CreatedIsNew DEF Moves, Live
  <2> QED BY <2>1, <2>2 DEF Moves
<1>5. \/ parent'[c] = None /\ digest'[c] = {}
      \/ /\ parent'[c] \in S
         /\ digest'[c] \subseteq ledger'[parent'[c]] \cup digest'[parent'[c]]
  <2>1. CASE parent[s] = None /\ digest[s] = {}
    BY <2>1
  <2>2. CASE /\ parent[s] \in S
             /\ digest[s] \subseteq ledger[parent[s]] \cup digest[parent[s]]
    BY <1>4, <2>2
  <2> QED BY <1>1, <1>2, <2>1, <2>2
<1> QED BY <1>3, <1>5, RootedGrows

LEMMA StaleRetold ==
  ASSUME Orderly, OneWorker, Retold, NEW ch \in Channels, RetireStaleChannel(ch)
  PROVE  Retold'
<1> DEFINE s == mapped[ch]
<1>1. PICK c \in ConvIds : OpenedAs(c, Clone(s, {}), {}) /\ ServedBy(ch, c)
  BY RetireStaleDoes
<1>2. s \in MappedConvs /\ \A w \in Workers : op[w] = Idle
  BY RetireStaleDoes
<1>3. op' = op /\ nulled' = nulled /\ residual' = residual
  BY DEF RetireStaleChannel
<1>4. PICK chain \in [Channels -> SUBSET ConvIds] : Founded(chain)
  BY DEF Retold
<1> DEFINE created == {c}
           gone == {}
           S == chain[ch]
           T == S \cup {c}
<1>5. Moves(created, {}) /\ c \notin Live
  BY <1>1, KeptMoves DEF OpenedAs
<1>6. /\ c \in created /\ T \in SUBSET ConvIds /\ c \in T /\ \A d \in T : d = c \/ d \in chain[ch]
      /\ Moves(created, gone) /\ OwnMoves({})
      /\ \A a \in Channels \ {ch} : \A d \in gone : d \notin chain[a]
      /\ \A d \in S : d \notin gone
      /\ \A d : d \in T <=> d \in S \/ d = c
  BY <1>3, <1>4, <1>5 DEF OwnMoves
<1>7. parent'[c] = parent[s] /\ digest'[c] = digest[s]
  BY <1>1 DEF OpenedAs, Clone
<1>8. Apart(c)' /\ \A d \in S : Apart(d)'
  <2>1. \A d : Apart(d)' <=> Apart(d)
    BY <1>3 DEF Apart
  <2> QED BY <1>4, <1>5, <2>1 DEF Apart, Orderly, WorkingApart, Founded
<1>9. \A w \in Workers : Tidy(w)'
  BY <1>3, <1>5, OpsTidy
<1>10. \A w \in Workers : LinesOf(op'[w]) = {} /\ LinesOf(op'[w]) \subseteq LinesOf(op[w])
  BY <1>2, <1>3, IdleIs DEF LinesOf
<1>11. \A d \in T : Apart(d)'
  BY <1>6, <1>8
<1>12. \A d \in MappedConvs : \A m \in digest[d] \cap nulled :
            d # mapped[ch] /\ (m \in residual \/ \E w \in Workers : Awaits(op[w], d, m)) =>
               m \in residual' \/ \E w \in Workers : Awaits(op'[w], d, m)
  BY <1>3
<1>13. digest'[c] \cap nulled \subseteq residual'
  <2>1. \A w \in Workers : \A d, m : ~Awaits(op[w], d, m)
    BY <1>2, IdleIs DEF Awaits
  <2>2. digest[s] \cap nulled \subseteq residual
    BY <1>2, <2>1 DEF Retold, Awaited
  <2> QED BY <1>3, <1>7, <2>2
<1>14. \A d \in T : d = c \/ d \in chain[ch] \/ ~Apart(d)
  BY <1>6
<1>15. /\ \A d \in S : d \in chain[ch]
       /\ \A d \in chain[ch] : d = mapped[ch] \/ d \in S
       /\ mapped[ch] # None
  BY <1>2, MappedIs
<1> HIDE DEF created, gone, S, T
<1>16. Rooted(T)'
  BY <1>4, <1>6, <1>7, <1>15, CloneJoins
<1> QED BY <1>1, <1>3, <1>4, <1>6, <1>9, <1>10, <1>11, <1>12, <1>13, <1>14, <1>16, RetoldServes

\* A channel's source read into a temporary conversation.
LEMMA CompactRetold ==
  ASSUME Orderly, OneWorker, Retold, NEW w \in Workers, NEW ch \in Channels, Compact(w, ch)
  PROVE  Retold'
<1> DEFINE s == mapped[ch]
           rows(cut) == {m \in ledger[s] : m <= cut}
<1>1. /\ s \in MappedConvs /\ op[w].do = "idle" /\ WorkingOf(op[w]) = {} /\ Others(w)
      /\ \E c \in ConvIds, cut \in ledger[s] :
               /\ OpenedAs(c, [Clone(s, {}) EXCEPT !.ledger = rows(cut)], {})
               /\ op'[w] = Compacting(ch, c, cut)
               /\ WorkingOf(op'[w]) = {c} /\ LinesOf(op'[w]) = {}
  BY CompactDoes
<1>2. PICK c \in ConvIds, cut \in ledger[s] :
               /\ OpenedAs(c, [Clone(s, {}) EXCEPT !.ledger = rows(cut)], {})
               /\ op'[w] = Compacting(ch, c, cut)
               /\ WorkingOf(op'[w]) = {c} /\ LinesOf(op'[w]) = {}
  BY <1>1
<1>3. ledger'[c] = rows(cut) /\ digest'[c] = digest[s] /\ StoreMoves({c}, {}) /\ Kept({c}, {})
  BY <1>2 DEF OpenedAs, Clone
<1>4. ledger'[c] \subseteq ledger[s]
  BY <1>3
<1> DEFINE created == {c}
           gone == {}
<1>5. Moves(created, gone) /\ s \notin gone
  BY <1>3, KeptMoves
<1>6. /\ op'[w].do = "capture" /\ op'[w].line = <<s>> /\ op'[w].temp = c /\ op'[w].plans = {}
  BY <1>2 DEF Compacting, Idle
<1>7. mapped' = mapped /\ nulled' = nulled /\ residual' = residual
  BY DEF Compact
<1>8. op'[w].line[1] = s
  BY <1>6
<1>9. c \in created /\ \A d \in created : d = c
  OBVIOUS
<1>10. (\A d \in WorkingOf(op'[w]) : d \in created) /\ \A d \in gone : d \in WorkingOf(op[w])
  BY <1>2
<1> HIDE DEF created, gone, s, rows
<1>11. s \in Live' /\ s \notin created /\ digest'[s] = digest[s] /\ ledger[s] \subseteq ledger'[s]
  BY <1>1, <1>5, MappedKept
<1>12. Tidy(w) /\ Awaited
  BY DEF Retold
<1>13. digest[s] \cap nulled \subseteq residual /\ LinesOf(op[w]) = {}
  BY <1>1, <1>12, NothingAwaited
<1>14. Sourced(w)'
  BY <1>3, <1>4, <1>6, <1>7, <1>8, <1>9, <1>11, <1>13 DEF Sourced
<1>15. Built(w)'
  BY <1>6 DEF Built
<1>16. Tidy(w)'
  BY <1>2, <1>6, <1>14, <1>15 DEF Tidy
<1>17. \A d, m : ~Awaits(op[w], d, m)
  <2>1. op[w].plans = {}
    BY <1>1, <1>12 DEF Tidy
  <2> QED BY <1>1, <2>1 DEF Awaits
<1>18. LinesOf(op'[w]) \subseteq LinesOf(op[w])
  BY <1>2
<1>19. \A d, m : m \in residual \/ Awaits(op[w], d, m) => m \in residual' \/ Awaits(op'[w], d, m)
  BY <1>7, <1>17
<1> QED BY <1>5, <1>7, <1>10, <1>16, <1>18, <1>19, RetoldRests

LEMMA CaptureRetold ==
  ASSUME Orderly, OneWorker, Retold, NEW w \in Workers, CaptureAndRetire(w)
  PROVE  Retold'
<1> DEFINE t == op[w].temp
           s == op[w].line[1]
           gone == {t}
<1>1. /\ op[w].do = "capture" /\ t \in ConvIds /\ DeletedAs(gone)
      /\ WorkingOf(op[w]) = gone /\ WorkingOf(op'[w]) = {}
      /\ op'[w].do = "install" /\ op'[w].temp = None /\ Same(op'[w], op[w])
      /\ op'[w].words = Readable(ledger[t], digest[t])
      /\ LinesOf(op'[w]) = LinesOf(op[w])
  BY CaptureDoes
<1>2. mapped' = mapped /\ nulled' = nulled /\ residual' = residual
  BY DEF CaptureAndRetire
<1>3. Tidy(w) /\ Sourced(w)
  BY DEF Retold, Tidy
<1>4. /\ s \in Live /\ s # t /\ ledger[t] \subseteq ledger[s] /\ digest[t] \subseteq digest[s]
      /\ digest[t] \cap nulled \subseteq residual
  BY <1>1, <1>3 DEF Sourced
<1>5. op'[w].words \subseteq ledger[s] \cup digest[s] /\ op'[w].words \cap nulled \subseteq residual
  BY <1>1, <1>4 DEF Readable
<1>6. s \in Live' /\ ledger'[s] = ledger[s] /\ digest'[s] = digest[s]
  <2>1. s \notin gone /\ s \in ConvIds
    BY <1>4 DEF Live
  <2> QED BY <1>1, <1>4, <2>1 DEF DeletedAs, Kept, StoreMoves
<1>7. op'[w].line[1] = s /\ op'[w].plans = op[w].plans
  BY <1>1 DEF Same
<1>8. op[w].plans = {}
  BY <1>1, <1>3 DEF Tidy
<1>9. LinesOf(op'[w]) = {}
  BY <1>1, <1>8 DEF LinesOf
<1> HIDE DEF s, t, gone
<1>10. Sourced(w)'
  BY <1>1, <1>2, <1>5, <1>6, <1>7 DEF Sourced
<1>11. Tidy(w)'
  BY <1>1, <1>7, <1>8, <1>9, <1>10 DEF Tidy, Built
<1>12. \A d, m : ~Awaits(op[w], d, m)
  BY <1>1, <1>8 DEF Awaits
<1>13. Moves({}, gone)
  BY <1>1, KeptMoves DEF DeletedAs
<1> DEFINE created == {}
<1>14. Moves(created, gone)
  BY <1>13
<1> HIDE DEF created
<1> QED BY <1>1, <1>2, <1>9, <1>11, <1>12, <1>14, RetoldRests

\* An operation that ends, giving up what it made.
LEMMA EndsRetold ==
  ASSUME Orderly, OneWorker, Retold, NEW w \in Workers, Idles(w) \/ ScrubOver(w),
         NEW created, NEW gone, Moves(created, gone), \A d \in gone : d \in WorkingOf(op[w]),
         mapped' = mapped, nulled' = nulled, residual \subseteq residual',
         \/ op[w].do \in {"capture", "install", "strip"}
         \/ ScrubOver(w) /\ op[w].strip \subseteq residual'
  PROVE  Retold'
<1>1. /\ op'[w].do \in {"idle", "erase"}
      /\ ScrubOver(w) => op'[w].plans = op[w].plans
      /\ op'[w].do = "idle" => op'[w].plans = {}
      /\ WorkingOf(op'[w]) = {} /\ LinesOf(op'[w]) \subseteq LinesOf(op[w])
  BY RestDoes
<1>2. Tidy(w)
  BY DEF Retold
<1>3. Tidy(w)'
  BY <1>1, <1>2, TidyLines, TidyRests
<1>4. ASSUME NEW d, NEW m, m \in residual \/ Awaits(op[w], d, m)
      PROVE  m \in residual' \/ Awaits(op'[w], d, m)
  <2>1. CASE op[w].do \in {"capture", "install", "strip"}
    <3>1. op[w].plans = {}
      BY <1>2, <2>1 DEF Tidy
    <3> QED BY <1>4, <2>1, <3>1 DEF Awaits
  <2>2. CASE ScrubOver(w) /\ op[w].strip \subseteq residual'
    <3>1. op'[w].plans = op[w].plans
      BY <1>1, <2>2
    <3> QED BY <1>4, <2>2, <3>1 DEF Awaits
  <2> QED BY <2>1, <2>2
<1>5. \A c \in WorkingOf(op'[w]) : c \in created \/ c \in WorkingOf(op[w])
  BY <1>1
<1>6. \A d, m : m \in residual \/ Awaits(op[w], d, m) => m \in residual' \/ Awaits(op'[w], d, m)
  BY <1>4
<1> QED BY <1>1, <1>3, <1>5, <1>6, RetoldRests

LEMMA StandsRetold ==
  ASSUME Orderly, OneWorker, Retold, NEW w \in Workers,
         \/ Unsummarized(w) \/ CompactionStandsDown(w) \/ CloneFails(w)
         \/ ScrubHasNoChannel(w) \/ ScrubStandsDown(w)
  PROVE  Retold'
<1> DEFINE none == {}
<1>1. CASE Unsummarized(w)
  <2>1. op[w].do = "capture" /\ DeletedAs({op[w].temp}) /\ WorkingOf(op[w]) = {op[w].temp} /\ Idles(w)
    BY <1>1, UnsummarizedDoes
  <2> DEFINE gone == {op[w].temp}
  <2>2. Moves(none, gone) /\ \A d \in gone : d \in WorkingOf(op[w])
    BY <2>1, KeptMoves DEF DeletedAs
  <2>3. mapped' = mapped /\ nulled' = nulled /\ residual \subseteq residual'
    BY <1>1 DEF Unsummarized
  <2> HIDE DEF gone, none
  <2> QED BY <2>1, <2>2, <2>3, EndsRetold
<1>2. CASE CompactionStandsDown(w)
  <2>1. DeletedAs(none)
    BY <1>2, RestedIs DEF CompactionStandsDown, content
  <2>2. Moves(none, none) /\ \A d \in none : d \in WorkingOf(op[w])
    BY <2>1, KeptMoves DEF DeletedAs
  <2>3. /\ mapped' = mapped /\ nulled' = nulled /\ residual \subseteq residual'
        /\ op[w].do = "install" /\ Idles(w)
    BY <1>2 DEF CompactionStandsDown, content
  <2> HIDE DEF none
  <2> QED BY <2>2, <2>3, EndsRetold
<1>3. CASE CloneFails(w)
  <2>1. PICK c \in ConvIds : OpenedAs(c, Clone(Serving(w), {}), {})
    BY <1>3, CloneFailsDoes
  <2> DEFINE created == {c}
  <2>2. Moves(created, none) /\ \A d \in none : d \in WorkingOf(op[w])
    BY <2>1, KeptMoves DEF OpenedAs
  <2>3. /\ mapped' = mapped /\ nulled' = nulled /\ residual \subseteq residual'
        /\ op[w].do = "strip" /\ Idles(w)
    BY <1>3 DEF CloneFails
  <2> HIDE DEF created, none
  <2> QED BY <2>2, <2>3, EndsRetold
<1>4. CASE ScrubHasNoChannel(w)
  <2>1. DeletedAs(none)
    BY <1>4, RestedIs DEF ScrubHasNoChannel, content
  <2>2. Moves(none, none) /\ \A d \in none : d \in WorkingOf(op[w])
    BY <2>1, KeptMoves DEF DeletedAs
  <2>3. /\ mapped' = mapped /\ nulled' = nulled /\ residual \subseteq residual'
        /\ ScrubOver(w) /\ op[w].strip \subseteq residual'
    BY <1>4 DEF ScrubHasNoChannel, content
  <2> HIDE DEF none
  <2> QED BY <2>2, <2>3, EndsRetold
<1>5. CASE ScrubStandsDown(w)
  <2> DEFINE gone == WorkingOf(op[w])
  <2>1. DeletedAs(gone) /\ ScrubOver(w)
    BY <1>5, StandsDownDoes
  <2>2. Moves(none, gone) /\ \A d \in gone : d \in WorkingOf(op[w])
    BY <2>1, KeptMoves DEF DeletedAs
  <2>3. /\ mapped' = mapped /\ nulled' = nulled /\ residual \subseteq residual'
        /\ op[w].strip \subseteq residual'
    BY <1>5 DEF ScrubStandsDown
  <2> HIDE DEF gone, none
  <2> QED BY <2>1, <2>2, <2>3, EndsRetold
<1> QED BY <1>1, <1>2, <1>3, <1>4, <1>5

LEMMA StripRetold ==
  ASSUME Orderly, OneWorker, Retold, NEW w \in Workers, NEW ch \in Channels, NEW x \in Msgs,
         StripFromView(w, ch, x)
  PROVE  Retold'
<1> DEFINE s == mapped[ch]
           line == Lineage(s)
<1>1. /\ s \in MappedConvs /\ op[w].do = "idle" /\ WorkingOf(op[w]) = {} /\ WorkingOf(op'[w]) = {}
      /\ \/ op'[w].do = "strip" /\ LinesOf(op'[w]) = {}
         \/ op'[w].do = "scrub" /\ Len(line) >= 2 /\ LinesOf(op'[w]) = {line}
      /\ op'[w].plans = {}
  BY StripDoes
<1>2. /\ mapped' = mapped /\ nulled' = nulled /\ residual' = residual
      /\ UNCHANGED storeVars /\ UNCHANGED <<ledger, digest>>
  BY DEF StripFromView, content
<1>3. PICK chain \in [Channels -> SUBSET ConvIds] : Founded(chain)
  BY DEF Retold
<1>4. s # None
  BY <1>1, MappedIs
<1>5. Bare(line) /\ Clear(line, chain)
  BY <1>3, <1>4, LineFounded
<1>6. LinesOf(op'[w]) # {} => LineSound(line)
  BY <1>1, ReadLineSound
<1> HIDE DEF line
<1>7. \A l \in LinesOf(op'[w]) : LineSound(l) /\ Bare(l) /\ Clear(l, chain)
  BY <1>1, <1>5, <1>6
<1> DEFINE none == {}
<1>8. Moves(none, none) /\ \A ch2 \in Channels : \A d \in none : d \notin chain[ch2]
  BY <1>2, RestedIs, KeptMoves DEF DeletedAs
<1>9. \A d \in MappedConvs : d \notin none
  OBVIOUS
<1> HIDE DEF none
<1>10. Tidy(w)'
  BY <1>1, <1>7, <1>8, TidyRests
<1>11. OwnMoves(none)
  BY <1>1 DEF OwnMoves, OneWorker
<1>12. \A v \in Workers : Tidy(v)' /\ \A l \in LinesOf(op'[v]) : Clear(l, chain)
  BY <1>7, <1>10 DEF OneWorker
<1>13. \A a \in Channels : mapped'[a] = mapped[a]
  BY <1>2
<1>14. \E new \in [Channels -> SUBSET ConvIds] : Founded(new)'
  BY <1>3, <1>8, <1>11, <1>12, <1>13, FoundedRests
<1>15. \A c \in MappedConvs : digest[c] \cap nulled \subseteq residual
  BY <1>1, NothingAwaited DEF Retold
<1>16. MappedConvs' = MappedConvs /\ digest' = digest
  BY <1>2 DEF MappedConvs
<1>17. Awaited'
  BY <1>2, <1>15, <1>16 DEF Awaited
<1> QED BY <1>12, <1>14, <1>17 DEF Retold

LEMMA NextLineRetold ==
  ASSUME Orderly, OneWorker, Retold, NEW w \in Workers, EraseScrubsNext(w)
  PROVE  Retold'
<1>1. PICK plan \in op[w].plans :
               /\ op'[w].line = plan.line /\ op'[w].strip = plan.strip
               /\ op'[w].plans = op[w].plans \ {plan}
  BY ScrubsNextDoes
<1>2. /\ op[w].do = "erase" /\ WorkingOf(op'[w]) = {} /\ op'[w].do = "scrub"
      /\ LinesOf(op'[w]) \subseteq LinesOf(op[w])
  BY ScrubsNextDoes
<1>3. /\ mapped' = mapped /\ nulled' = nulled /\ residual' = residual
      /\ UNCHANGED storeVars /\ UNCHANGED <<ledger, digest>>
  BY DEF EraseScrubsNext, content
<1> DEFINE none == {}
<1>4. Moves(none, none) /\ \A d \in none : d \in WorkingOf(op[w])
  BY <1>3, RestedIs, KeptMoves DEF DeletedAs
<1> HIDE DEF none
<1>5. Tidy(w)
  BY DEF Retold
<1>6. Tidy(w)'
  BY <1>2, <1>4, <1>5, TidyLines, TidyRests
<1>7. ASSUME NEW d, NEW m, Awaits(op[w], d, m) PROVE Awaits(op'[w], d, m)
  <2>1. PICK q \in op[w].plans : q.line[Len(q.line)] = d /\ m \in q.strip
    BY <1>2, <1>7 DEF Awaits
  <2>2. CASE q = plan
    BY <1>1, <1>2, <2>1, <2>2 DEF Awaits
  <2>3. CASE q # plan
    BY <1>1, <2>1, <2>3 DEF Awaits
  <2> QED BY <2>2, <2>3
<1>8. /\ \A d, m : m \in residual \/ Awaits(op[w], d, m) => m \in residual' \/ Awaits(op'[w], d, m)
      /\ \A c \in WorkingOf(op'[w]) : c \in none \/ c \in WorkingOf(op[w])
  BY <1>2, <1>3, <1>7
<1> QED BY <1>2, <1>3, <1>4, <1>6, <1>8, RetoldRests

\* A thread that takes a channel from an operation that ends.
LEMMA InstallRetold ==
  ASSUME Orderly, OneWorker, Retold, NEW w \in Workers, InstallCompactedThread(w)
  PROVE  Retold'
<1> DEFINE s == op[w].line[1]
           ch == op[w].ch
           o == CompactedThread(w)
<1>1. /\ op[w].do = "install" /\ ch \in Channels /\ s \in MappedConvs
      /\ mapped[ch] = s /\ Idles(w) /\ WorkingOf(op[w]) = {}
      /\ \E c \in ConvIds : OpenedAs(c, o, {}) /\ ServedBy(ch, c)
  BY InstallDoes
<1>2. PICK c \in ConvIds : OpenedAs(c, o, {}) /\ ServedBy(ch, c)
  BY <1>1
<1>3. PICK chain \in [Channels -> SUBSET ConvIds] : Founded(chain)
  BY DEF Retold
<1>4. o.parent = s /\ o.digest = op[w].words
  BY DEF CompactedThread
<1>5. nulled' = nulled /\ residual' = residual
  BY DEF InstallCompactedThread
<1>6. Tidy(w) /\ Sourced(w) /\ Awaited
  BY DEF Retold, Tidy
<1>7. op[w].words \subseteq ledger[s] \cup digest[s] /\ op[w].words \cap nulled \subseteq residual
  BY <1>1, <1>6 DEF Sourced
<1>8. /\ WorkingOf(op'[w]) = {} /\ LinesOf(op'[w]) \subseteq LinesOf(op[w])
      /\ op'[w].do \in {"idle", "erase"} /\ (op'[w].do = "idle" => op'[w].plans = {})
  BY <1>1, RestDoes
<1>9. LinesOf(op[w]) = {}
  BY <1>1, <1>6, NothingAwaited
<1>0. PICK T : T = chain[ch] \cup {c}
  OBVIOUS
<1> DEFINE S == chain[ch]
           created == {c}
           gone == {}
<1> HIDE DEF s, o, ch
<1>10. parent'[c] = s /\ digest'[c] = op[w].words /\ c \notin Live /\ StoreMoves({c}, {}) /\ Kept({c}, {})
  BY <1>2, <1>4 DEF OpenedAs
<1>11. /\ Moves(created, gone) /\ c \in created /\ T \in SUBSET ConvIds /\ c \in T
       /\ \A d : d \in T <=> d \in S \/ d = c
       /\ \A d \in S : d \notin gone
       /\ \A d \in T : d = c \/ d \in chain[ch] \/ ~Apart(d)
       /\ \A a \in Channels \ {ch} : \A d \in gone : d \notin chain[a]
       /\ s \notin gone
  BY <1>0, <1>1, <1>3, <1>10, KeptMoves
<1>12. Rooted(S) /\ s \in S /\ \A d \in S : Apart(d)
  BY <1>1, <1>3, MappedIs DEF Founded
<1>13. OwnMoves({})
  BY <1>8 DEF OwnMoves, OneWorker
<1>14. \A d \in T : Apart(d)'
  <2>1. \A v \in Workers : WorkingOf(op'[v]) = {}
    BY <1>8 DEF OneWorker
  <2> QED BY <2>1 DEF Apart
<1>15. \A v \in Workers : LinesOf(op'[v]) = {} /\ LinesOf(op'[v]) \subseteq LinesOf(op[v])
  BY <1>8, <1>9 DEF OneWorker
<1> HIDE DEF S, created, gone
<1>16. digest'[s] = digest[s] /\ ledger[s] \subseteq ledger'[s]
  BY <1>1, <1>11, MappedKept
<1>17. Rooted(T)'
  <2>1. /\ parent'[c] \in S
        /\ digest'[c] \subseteq ledger'[parent'[c]] \cup digest'[parent'[c]]
    BY <1>7, <1>10, <1>12, <1>16
  <2> QED BY <1>11, <1>12, <2>1, RootedGrows
<1>18. Tidy(w)'
  <2>1. \A line \in LinesOf(op'[w]) : LineSound(line) /\ Bare(line)
    BY <1>15
  <2>2. op'[w].do \in {"idle", "strip"} => op'[w].plans = {}
    BY <1>8
  <2> QED BY <1>8, <1>11, <2>1, <2>2, TidyRests
<1>19. \A v \in Workers : Tidy(v)'
  BY <1>18 DEF OneWorker
<1>20. \A d \in MappedConvs : digest[d] \cap nulled \subseteq residual
  BY <1>1, <1>6, NothingAwaited
<1>21. digest'[c] \cap nulled \subseteq residual'
  BY <1>5, <1>7, <1>10
<1>22. \A d \in MappedConvs : \A m \in digest[d] \cap nulled :
            d # mapped[ch] /\ (m \in residual \/ \E v \in Workers : Awaits(op[v], d, m)) =>
               m \in residual' \/ \E v \in Workers : Awaits(op'[v], d, m)
  BY <1>5, <1>20
<1> QED BY <1>1, <1>2, <1>3, <1>5, <1>11, <1>13, <1>14, <1>15, <1>17, <1>19, <1>21, <1>22,
       RetoldServes

LEMMA ReplaceRetold ==
  ASSUME Orderly, OneWorker, Retold, NEW w \in Workers, ReplaceWithClone(w)
  PROVE  Retold'
<1> DEFINE s == Serving(w)
           o == Clone(s, op[w].strip)
           none == {}
<1>1. /\ op[w].do = "strip" /\ Idles(w) /\ WorkingOf(op[w]) = {} /\ s \in ConvIds
      /\ \/ s \notin MappedConvs /\ UNCHANGED <<storeVars, ledger, digest, mapped, served>>
         \/ /\ s \in MappedConvs
            /\ \E ch \in Channels, c \in ConvIds :
                  mapped[ch] = s /\ OpenedAs(c, o, {s}) /\ ServedBy(ch, c)
  BY ReplaceDoes
<1>2. nulled' = nulled /\ residual' = residual
  BY DEF ReplaceWithClone
<1>3. o.parent = parent[s] /\ o.digest = digest[s]
  BY DEF Clone
<1> HIDE DEF s, o
<1>4. CASE UNCHANGED <<storeVars, ledger, digest, mapped, served>>
  <2>1. DeletedAs(none) /\ mapped' = mapped /\ residual \subseteq residual'
    BY <1>2, <1>4, RestedIs
  <2>2. Moves(none, none) /\ \A d \in none : d \in WorkingOf(op[w])
    BY <2>1, KeptMoves DEF DeletedAs
  <2> HIDE DEF none
  <2> QED BY <1>1, <1>2, <2>1, <2>2, EndsRetold
<1>5. ASSUME s \in MappedConvs, NEW ch \in Channels, NEW c \in ConvIds, mapped[ch] = s,
             OpenedAs(c, o, {s}), ServedBy(ch, c)
      PROVE  Retold'
  <2>1. PICK chain \in [Channels -> SUBSET ConvIds] : Founded(chain)
    BY DEF Retold
  <2>2. Tidy(w) /\ Awaited
    BY DEF Retold
  <2>3. /\ LinesOf(op[w]) = {}
        /\ \A d \in MappedConvs : digest[d] \cap nulled \subseteq residual
    BY <1>1, <2>2, NothingAwaited
  <2>4. /\ WorkingOf(op'[w]) = {} /\ LinesOf(op'[w]) \subseteq LinesOf(op[w])
        /\ op'[w].do \in {"idle", "erase"} /\ (op'[w].do = "idle" => op'[w].plans = {})
    BY <1>1, RestDoes
  <2>0. PICK S, T : S = chain[ch] \ {s} /\ T = S \cup {c}
    OBVIOUS
  <2> DEFINE created == {c}
             gone == {s}
  <2>5. parent'[c] = parent[s] /\ digest'[c] = digest[s] /\ StoreMoves(created, gone) /\ Kept(created, gone)
    BY <1>3, <1>5 DEF OpenedAs
  <2>6. s # None
    BY <1>5, MappedIs
  <2>7. \A a \in Channels \ {ch} : s \notin chain[a]
    BY <1>5, <2>1, <2>6 DEF Founded
  <2>8. /\ Moves(created, gone) /\ c \in created /\ T \in SUBSET ConvIds /\ c \in T
        /\ \A d : d \in T <=> d \in S \/ d = c
        /\ \A d \in S : d \notin gone
        /\ \A d \in S : d \in chain[ch]
        /\ \A d \in chain[ch] : d = mapped[ch] \/ d \in S
        /\ \A d \in T : d = c \/ d \in chain[ch] \/ ~Apart(d)
        /\ \A a \in Channels \ {ch} : \A d \in gone : d \notin chain[a]
    BY <1>5, <2>0, <2>1, <2>5, <2>7, KeptMoves
  <2>9. OwnMoves({})
    BY <2>4 DEF OwnMoves, OneWorker
  <2>10. \A d \in T : Apart(d)'
    <3>1. \A v \in Workers : WorkingOf(op'[v]) = {}
      BY <2>4 DEF OneWorker
    <3> QED BY <3>1 DEF Apart
  <2>11. \A v \in Workers : LinesOf(op'[v]) = {} /\ LinesOf(op'[v]) \subseteq LinesOf(op[v])
    BY <2>3, <2>4 DEF OneWorker
  <2> HIDE DEF created, gone
  <2>12. parent'[c] = parent[mapped[ch]] /\ digest'[c] = digest[mapped[ch]] /\ mapped[ch] # None
    BY <1>5, <2>5, <2>6
  <2>13. Rooted(T)'
    <3>1. /\ Moves(created, gone) /\ c \in created /\ Founded(chain)
          /\ \A d : d \in T <=> d \in S \/ d = c
          /\ \A d \in S : d \notin gone
          /\ \A d \in S : d \in chain[ch]
          /\ \A d \in chain[ch] : d = mapped[ch] \/ d \in S
      BY <2>1, <2>8
    <3>2. /\ parent'[c] = parent[mapped[ch]] /\ digest'[c] = digest[mapped[ch]]
          /\ mapped[ch] # None
      BY <2>12
    <3> QED BY <3>1, <3>2, CloneJoins
  <2>14. Tidy(w)'
    <3>1. \A line \in LinesOf(op'[w]) : LineSound(line) /\ Bare(line)
      BY <2>11
    <3>2. op'[w].do \in {"idle", "strip"} => op'[w].plans = {}
      BY <2>4
    <3> QED BY <2>4, <2>8, <3>1, <3>2, TidyRests
  <2>15. \A v \in Workers : Tidy(v)'
    BY <2>14 DEF OneWorker
  <2>16. digest'[c] \cap nulled \subseteq residual'
    BY <1>2, <1>5, <2>3, <2>5
  <2>17. \A d \in MappedConvs : \A m \in digest[d] \cap nulled :
            d # mapped[ch] /\ (m \in residual \/ \E v \in Workers : Awaits(op[v], d, m)) =>
               m \in residual' \/ \E v \in Workers : Awaits(op'[v], d, m)
    BY <1>2, <2>3
  <2> QED BY <1>2, <1>5, <2>1, <2>8, <2>9, <2>10, <2>11, <2>13, <2>15, <2>16, <2>17, RetoldServes
<1> QED BY <1>1, <1>4, <1>5

LEMMA ScrubBeginsRetold ==
  ASSUME Orderly, OneWorker, Retold, NEW w \in Workers, ScrubBegins(w)
  PROVE  Retold'
<1> DEFINE r == op[w].line[1]
           o == Clone(r, op[w].strip)
           none == {}
<1>1. /\ op[w].do = "scrub" /\ WorkingOf(op[w]) = {}
      /\ \E c \in ConvIds : /\ OpenedAs(c, o, {})
                            /\ op'[w].made = <<c>> /\ WorkingOf(op'[w]) = {c}
      /\ op'[w].do = "fork" /\ op'[w].temp = None
      /\ op'[w].line = op[w].line /\ op'[w].strip = op[w].strip /\ op'[w].plans = op[w].plans
      /\ LinesOf(op'[w]) = LinesOf(op[w])
  BY ScrubBeginsDoes
<1>2. PICK c \in ConvIds : OpenedAs(c, o, {}) /\ op'[w].made = <<c>> /\ WorkingOf(op'[w]) = {c}
  BY <1>1
<1>3. o.parent = parent[r] /\ o.digest = digest[r]
  BY DEF Clone
<1>4. Tidy(w) /\ op[w].line \in LinesOf(op[w])
  BY <1>1, ScrubReads DEF Retold
<1>5. parent[r] = None /\ digest[r] = {}
  BY <1>4 DEF Tidy, Bare
<1> HIDE DEF r, o
<1>6. parent'[c] = None /\ digest'[c] = {} /\ StoreMoves({c}, {}) /\ Kept({c}, {}) /\ c \in Live'
  BY <1>2, <1>3, <1>5 DEF OpenedAs, StoreMoves
<1>7. mapped' = mapped /\ nulled' = nulled /\ residual' = residual
  BY DEF ScrubBegins
<1> DEFINE created == {c}
<1>8. Moves(created, none)
  BY <1>6, KeptMoves
<1>9. (\A d \in WorkingOf(op'[w]) : d \in created /\ d = c) /\ \A d \in none : d \in WorkingOf(op[w])
  BY <1>2
<1> HIDE DEF created, none
<1>10. Range(op'[w].made) = {c}
  BY <1>2 DEF Range
<1>11. Rooted(Range(op[w].made))'
  BY <1>6, <1>10 DEF Rooted, Based
<1>12. Built(w)'
  BY <1>1, <1>6, <1>9, <1>11 DEF Built
<1>13. \A line \in LinesOf(op'[w]) : Bare(line)'
  <2>1. \A line \in LinesOf(op'[w]) : LineSound(line) /\ Bare(line)
    BY <1>1, <1>4, TidyLines
  <2> QED BY <1>8, <2>1, BareStays
<1>14. Tidy(w)'
  BY <1>1, <1>12, <1>13 DEF Tidy, Sourced
<1>15. \A d, m : m \in residual \/ Awaits(op[w], d, m) => m \in residual' \/ Awaits(op'[w], d, m)
  BY <1>1, <1>7 DEF Awaits
<1> QED BY <1>1, <1>7, <1>8, <1>9, <1>14, <1>15, RetoldRests

\* What the steps of a scrub under way share.
LEMMA BuiltGoesOn ==
  ASSUME Orderly, OneWorker, Retold, NEW w \in Workers, op[w].do \in {"fork", "digest"},
         op'[w].do \in {"fork", "digest"},
         op'[w].line = op[w].line, op'[w].strip = op[w].strip, op'[w].plans = op[w].plans,
         LinesOf(op'[w]) = LinesOf(op[w]),
         NEW created, NEW gone, Moves(created, gone),
         \A d \in gone : d \in WorkingOf(op[w]),
         \A c \in WorkingOf(op'[w]) : c \in created \/ c \in WorkingOf(op[w]),
         mapped' = mapped, nulled' = nulled, residual' = residual,
         Built(w)'
  PROVE  Retold'
<1>1. Tidy(w)
  BY DEF Retold
<1>2. \A line \in LinesOf(op'[w]) : Bare(line)'
  <2>1. \A line \in LinesOf(op'[w]) : LineSound(line) /\ Bare(line)
    BY <1>1, TidyLines
  <2> QED BY <2>1, BareStays
<1>3. Tidy(w)'
  BY <1>1, <1>2 DEF Tidy, Sourced
<1>4. \A d, m : m \in residual \/ Awaits(op[w], d, m) => m \in residual' \/ Awaits(op'[w], d, m)
  BY DEF Awaits
<1> QED BY <1>3, <1>4, RetoldRests

LEMMA ForkRetold ==
  ASSUME Orderly, OneWorker, Retold, NEW w \in Workers, RegenerateFork(w)
  PROVE  Retold'
<1> DEFINE p == Made(w)
           o == Span(p, NextHop(w))
           none == {}
<1>1. /\ op[w].do = "fork" /\ op[w].temp = None /\ WorkingOf(op[w]) = Range(op[w].made)
      /\ \E c \in ConvIds : /\ OpenedAs(c, o, {}) /\ op'[w].temp = c
                            /\ WorkingOf(op'[w]) = Range(op[w].made) \cup {c}
      /\ op'[w].do = "fork" /\ Same(op'[w], op[w])
      /\ LinesOf(op'[w]) = LinesOf(op[w])
  BY ForkDoes
<1>2. PICK c \in ConvIds : /\ OpenedAs(c, o, {}) /\ op'[w].temp = c
                           /\ WorkingOf(op'[w]) = Range(op[w].made) \cup {c}
  BY <1>1
<1>3. o.ledger \subseteq ledger[p] /\ o.digest = digest[p]
  BY DEF Span
<1>4. op'[w].line = op[w].line /\ op'[w].strip = op[w].strip /\ op'[w].plans = op[w].plans
      /\ op'[w].made = op[w].made /\ Made(w)' = p
  BY <1>1 DEF Same, Made
<1>5. mapped' = mapped /\ nulled' = nulled /\ residual' = residual
  BY DEF RegenerateFork
<1>6. p \in WorkingOf(op[w]) /\ Built(w)
  BY <1>1, MadeIs DEF Retold, Tidy
<1>7. /\ Rooted(Range(op[w].made)) /\ \A d \in WorkingOf(op[w]) : digest[d] \cap nulled = {}
  BY <1>1, <1>6 DEF Built
<1> HIDE DEF o, p
<1> DEFINE created == {c}
<1>8. /\ ledger'[c] \subseteq ledger[p] /\ digest'[c] = digest[p]
      /\ StoreMoves({c}, {}) /\ Kept({c}, {})
  BY <1>2, <1>3 DEF OpenedAs
<1>9. Moves(created, none)
  BY <1>8, KeptMoves
<1>10. /\ \A d \in WorkingOf(op'[w]) : d \in created \/ d \in WorkingOf(op[w])
       /\ \A d \in WorkingOf(op'[w]) : d = c \/ d \in WorkingOf(op[w])
       /\ \A d \in none : d \in WorkingOf(op[w])
       /\ \A d \in WorkingOf(op[w]) : d \notin none
  BY <1>1, <1>2
<1> HIDE DEF created, none
<1>11. \A d \in WorkingOf(op[w]) : digest'[d] = digest[d] /\ ledger'[d] = ledger[d]
  BY <1>9, <1>10, WorkKept
<1>12. \A d \in WorkingOf(op'[w]) : digest'[d] \cap nulled' = {}
  BY <1>5, <1>6, <1>7, <1>8, <1>10, <1>11
<1>13. Rooted(Range(op[w].made))'
  <2>1. PICK S : S = Range(op[w].made)
    OBVIOUS
  <2>2. Rooted(S) /\ \A d \in S : d \notin none
    BY <1>1, <1>7, <1>10, <2>1
  <2>3. Rooted(S)'
    BY <1>9, <2>2, RootedStays
  <2>4. S = Range(op'[w].made)
    BY <1>4, <2>1
  <2> QED BY <2>3, <2>4 DEF Rooted, Based
<1>14. ledger'[c] \subseteq ledger'[p] /\ digest'[c] \subseteq digest'[p]
  BY <1>6, <1>8, <1>11
<1>15. Built(w)'
  BY <1>1, <1>2, <1>4, <1>12, <1>13, <1>14 DEF Built
<1> QED BY <1>1, <1>4, <1>5, <1>9, <1>10, <1>15, BuiltGoesOn

LEMMA ReadRetold ==
  ASSUME Orderly, OneWorker, Retold, NEW w \in Workers, RegenerateRead(w)
  PROVE  Retold'
<1> DEFINE p == Made(w)
           t == op[w].temp
           none == {}
           gone == {t}
<1>1. /\ op[w].do = "fork" /\ t \in ConvIds /\ t \notin Range(op[w].made) /\ DeletedAs(gone)
      /\ WorkingOf(op[w]) = Range(op[w].made) \cup {t} /\ WorkingOf(op'[w]) = Range(op[w].made)
      /\ op'[w].do = "digest" /\ op'[w].temp = None /\ Same(op'[w], op[w])
      /\ op'[w].words = Readable(ledger[t], digest[t])
      /\ LinesOf(op'[w]) = LinesOf(op[w])
  BY ReadDoes
<1>2. op'[w].line = op[w].line /\ op'[w].strip = op[w].strip /\ op'[w].plans = op[w].plans
      /\ op'[w].made = op[w].made /\ Made(w)' = p
  BY <1>1 DEF Same, Made
<1>3. mapped' = mapped /\ nulled' = nulled /\ residual' = residual
  BY DEF RegenerateRead
<1>4. p \in Range(op[w].made) /\ Built(w) /\ t # None
  BY <1>1, MadeIs DEF Retold, Tidy, ConvIds, None
<1>5. /\ Rooted(Range(op[w].made)) /\ \A d \in WorkingOf(op[w]) : digest[d] \cap nulled = {}
      /\ ledger[t] \subseteq ledger[p] /\ digest[t] \subseteq digest[p]
  BY <1>1, <1>4 DEF Built
<1>6. Moves(none, gone)
  BY <1>1, KeptMoves DEF DeletedAs
<1>7. /\ \A d \in WorkingOf(op'[w]) : d \in none \/ d \in WorkingOf(op[w])
      /\ \A d \in WorkingOf(op'[w]) : d \in WorkingOf(op[w]) /\ d \notin gone
      /\ \A d \in gone : d \in WorkingOf(op[w])
  BY <1>1
<1>8. op'[w].words \subseteq ledger[p] \cup digest[p] /\ op'[w].words \cap nulled = {}
  BY <1>1, <1>5 DEF Readable
<1> HIDE DEF p, t, none, gone
<1>9. \A d \in WorkingOf(op'[w]) : digest'[d] = digest[d] /\ ledger'[d] = ledger[d]
  BY <1>6, <1>7, WorkKept
<1>10. \A d \in WorkingOf(op'[w]) : digest'[d] \cap nulled' = {}
  BY <1>3, <1>5, <1>7, <1>9
<1>11. Rooted(Range(op[w].made))'
  <2>1. PICK S : S = Range(op[w].made)
    OBVIOUS
  <2>2. Rooted(S) /\ \A d \in S : d \notin gone
    BY <1>1, <1>5, <1>7, <2>1
  <2>3. Rooted(S)'
    BY <1>6, <2>2, RootedStays
  <2>4. S = Range(op'[w].made)
    BY <1>2, <2>1
  <2> QED BY <2>3, <2>4 DEF Rooted, Based
<1>12. op'[w].words \subseteq ledger'[p] \cup digest'[p] /\ op'[w].words \cap nulled' = {}
  BY <1>1, <1>3, <1>4, <1>8, <1>9
<1>13. Built(w)'
  BY <1>1, <1>2, <1>10, <1>11, <1>12 DEF Built
<1> QED BY <1>1, <1>2, <1>3, <1>6, <1>7, <1>13, BuiltGoesOn

LEMMA HopRetold ==
  ASSUME Orderly, OneWorker, Retold, NEW w \in Workers, RebuildHop(w)
  PROVE  Retold'
<1> DEFINE p == Made(w)
           o == Rebuilt(w, NextHop(w))
           none == {}
<1>1. /\ op[w].do = "digest" /\ WorkingOf(op[w]) = Range(op[w].made)
      /\ \E c \in ConvIds : /\ OpenedAs(c, o, {})
                            /\ Range(op'[w].made) = Range(op[w].made) \cup {c}
                            /\ WorkingOf(op'[w]) = Range(op[w].made) \cup {c}
      /\ op'[w].do = "fork" /\ op'[w].temp = None
      /\ op'[w].line = op[w].line /\ op'[w].strip = op[w].strip /\ op'[w].plans = op[w].plans
      /\ LinesOf(op'[w]) = LinesOf(op[w])
  BY HopDoes
<1>2. PICK c \in ConvIds : /\ OpenedAs(c, o, {})
                           /\ Range(op'[w].made) = Range(op[w].made) \cup {c}
                           /\ WorkingOf(op'[w]) = Range(op[w].made) \cup {c}
  BY <1>1
<1>3. o.parent = p /\ o.digest = op[w].words
  BY DEF Rebuilt
<1>4. mapped' = mapped /\ nulled' = nulled /\ residual' = residual
  BY DEF RebuildHop
<1>5. p \in Range(op[w].made) /\ Built(w)
  BY <1>1, MadeIs DEF Retold, Tidy
<1>6. /\ Rooted(Range(op[w].made)) /\ \A d \in WorkingOf(op[w]) : digest[d] \cap nulled = {}
      /\ op[w].words \subseteq ledger[p] \cup digest[p] /\ op[w].words \cap nulled = {}
  BY <1>1, <1>5 DEF Built
<1> HIDE DEF o, p
<1> DEFINE created == {c}
<1>7. /\ parent'[c] = p /\ digest'[c] = op[w].words /\ StoreMoves({c}, {}) /\ Kept({c}, {})
  BY <1>2, <1>3 DEF OpenedAs
<1>8. Moves(created, none) /\ c \in created
  BY <1>7, KeptMoves
<1>9. /\ \A d \in WorkingOf(op'[w]) : d \in created \/ d \in WorkingOf(op[w])
      /\ \A d \in WorkingOf(op'[w]) : d = c \/ d \in WorkingOf(op[w])
      /\ \A d \in none : d \in WorkingOf(op[w])
      /\ \A d \in WorkingOf(op[w]) : d \notin none
  BY <1>1, <1>2
<1> HIDE DEF created, none
<1>10. \A d \in WorkingOf(op[w]) : digest'[d] = digest[d] /\ ledger'[d] = ledger[d]
  BY <1>8, <1>9, WorkKept
<1>11. \A d \in WorkingOf(op'[w]) : digest'[d] \cap nulled' = {}
  BY <1>4, <1>6, <1>7, <1>9, <1>10
<1>12. digest'[c] \subseteq ledger'[p] \cup digest'[p]
  BY <1>1, <1>5, <1>6, <1>7, <1>10
<1>13. Rooted(Range(op[w].made))'
  <2>1. PICK S, T : S = Range(op[w].made) /\ T = Range(op'[w].made)
    OBVIOUS
  <2>2. Rooted(S) /\ \A d \in S : d \notin none
    BY <1>1, <1>6, <1>9, <2>1
  <2>3. \A d : d \in T <=> d \in S \/ d = c
    BY <1>2, <2>1
  <2>4. parent'[c] \in S /\ digest'[c] \subseteq ledger'[parent'[c]] \cup digest'[parent'[c]]
    BY <1>5, <1>7, <1>12, <2>1
  <2>5. Rooted(T)'
    BY <1>8, <2>2, <2>3, <2>4, RootedGrows
  <2> QED BY <2>1, <2>5 DEF Rooted, Based
<1>14. Built(w)'
  BY <1>1, <1>11, <1>13 DEF Built
<1> QED BY <1>1, <1>4, <1>8, <1>9, <1>14, BuiltGoesOn

\* A scrub is installed.
LEMMA ScrubRetold ==
  ASSUME Orderly, OneWorker, Retold, NEW w \in Workers, InstallScrubbedThread(w)
  PROVE  Retold'
<1> DEFINE p == Made(w)
           s == Serving(w)
           ch == op[w].ch
           o == Rebuilt(w, s)
           gone == Range(op[w].line)
<1>1. /\ op[w].do = "digest" /\ ch \in Channels /\ mapped[ch] = s /\ s \in ConvIds
      /\ s \in MappedConvs /\ ScrubOver(w) /\ WorkingOf(op[w]) = Range(op[w].made)
      /\ \E c \in ConvIds : OpenedAs(c, o, gone) /\ ServedBy(ch, c)
  BY InstallScrubbedDoes
<1>2. PICK c \in ConvIds : OpenedAs(c, o, gone) /\ ServedBy(ch, c)
  BY <1>1
<1>3. PICK chain \in [Channels -> SUBSET ConvIds] : Founded(chain)
  BY DEF Retold
<1>4. o.parent = p /\ o.digest = op[w].words
  BY DEF Rebuilt
<1>5. /\ nulled' = nulled
      /\ residual' = {m \in residual : m \in op[w].strip =>
                        \E d \in MappedConvs \ {s} : m \in digest[d]}
  BY DEF InstallScrubbedThread
<1>6. Tidy(w) /\ Built(w) /\ p \in Range(op[w].made)
  BY <1>1, MadeIs DEF Retold, Tidy
<1>7. /\ Rooted(Range(op[w].made))
      /\ op[w].words \subseteq ledger[p] \cup digest[p] /\ op[w].words \cap nulled = {}
  BY <1>1, <1>6 DEF Built
<1>8. /\ WorkingOf(op'[w]) = {} /\ LinesOf(op'[w]) \subseteq LinesOf(op[w])
      /\ op'[w].do \in {"idle", "erase"} /\ (op'[w].do = "idle" => op'[w].plans = {})
      /\ op'[w].plans = op[w].plans
  BY <1>1, RestDoes
<1>9. /\ LineSound(op[w].line) /\ op[w].line \in LinesOf(op[w])
      /\ \A d \in gone : d = s \/ \A v \in Workers : d \notin WorkingOf(op[v])
  BY <1>1, ScrubReads
<1>10. \A a \in Channels \ {ch} : \A d \in gone : d \notin chain[a]
  <2> DEFINE line == op[w].line
             n == Len(line)
  <2>1. line \in Seq(ConvIds) /\ n \in Nat /\ Clear(line, chain) /\ line[n] = s
    BY <1>3, <1>9 DEF LineSound, Founded, Serving
  <2>2. ASSUME NEW a \in Channels \ {ch}, NEW i \in 1 .. n PROVE line[i] \notin chain[a]
    <3>1. mapped[a] # s /\ s # None
      BY <1>1, MappedIs DEF Orderly, MappedApart
    <3>2. CASE i = n
      <4>1. s \in chain[ch]
        BY <1>1, <1>3, <3>1 DEF Founded
      <4> QED BY <1>1, <1>3, <2>1, <3>2, <4>1 DEF Founded
    <3>3. CASE i # n
      <4>1. i \in 1 .. n - 1
        BY <2>1, <3>3
      <4> QED BY <2>1, <3>1, <4>1 DEF Clear
    <3> QED BY <3>2, <3>3
  <2>3. \A d \in gone : \E i \in 1 .. n : d = line[i]
    BY <2>1 DEF Range
  <2> HIDE DEF line, n, gone
  <2> QED BY <2>2, <2>3
<1>11. \A d \in Range(op[w].made) : d \notin gone
  BY <1>1, <1>9, MappedIs
<1>0. PICK S, T : S = Range(op[w].made) /\ T = S \cup {c}
  OBVIOUS
<1> DEFINE created == {c}
<1> HIDE DEF p, s, ch, o, gone
<1>12. /\ parent'[c] = p /\ digest'[c] = op[w].words /\ c \notin Live
       /\ StoreMoves(created, gone) /\ Kept(created, gone)
  BY <1>2, <1>4 DEF OpenedAs
<1>13. /\ Moves(created, gone) /\ c \in created /\ c \in T
       /\ \A d : d \in T <=> d \in S \/ d = c
       /\ \A d \in S : d \notin gone
  BY <1>0, <1>11, <1>12, KeptMoves
<1>14. \A d \in S : d \in ConvIds /\ ~Apart(d) /\ d \in WorkingOf(op[w])
  BY <1>0, <1>1, <1>7 DEF Apart, Rooted, Live
<1>15. T \in SUBSET ConvIds /\ \A d \in T : d = c \/ ~Apart(d)
  BY <1>13, <1>14
<1>16. OwnMoves({})
  BY <1>8 DEF OwnMoves, OneWorker
<1>17. \A d \in T : Apart(d)'
  <2>1. \A v \in Workers : WorkingOf(op'[v]) = {}
    BY <1>8 DEF OneWorker
  <2> QED BY <2>1 DEF Apart
<1>18. \A v \in Workers : LinesOf(op'[v]) \subseteq LinesOf(op[v])
  BY <1>8 DEF OneWorker
<1> HIDE DEF created
<1>19. digest'[p] = digest[p] /\ ledger'[p] = ledger[p]
  BY <1>0, <1>6, <1>13, <1>14, WorkKept
<1>20. Rooted(T)'
  <2>1. /\ parent'[c] \in S
        /\ digest'[c] \subseteq ledger'[parent'[c]] \cup digest'[parent'[c]]
    BY <1>0, <1>6, <1>7, <1>12, <1>19
  <2>2. Rooted(S)
    BY <1>0, <1>7
  <2> QED BY <1>13, <2>1, <2>2, RootedGrows
<1>21. Tidy(w)'
  <2>1. \A line \in LinesOf(op'[w]) : LineSound(line) /\ Bare(line)
    BY <1>6, <1>8, TidyLines
  <2>2. op'[w].do \in {"idle", "strip"} => op'[w].plans = {}
    BY <1>8
  <2> QED BY <1>8, <1>13, <2>1, <2>2, TidyRests
<1>22. \A v \in Workers : Tidy(v)'
  BY <1>21 DEF OneWorker
<1>23. digest'[c] \cap nulled \subseteq residual'
  BY <1>7, <1>12
<1>24. ASSUME NEW d \in MappedConvs, NEW m \in digest[d] \cap nulled, d # mapped[ch],
              m \in residual \/ \E v \in Workers : Awaits(op[v], d, m)
       PROVE  m \in residual' \/ \E v \in Workers : Awaits(op'[v], d, m)
  <2>1. CASE m \in residual
    BY <1>1, <1>5, <1>24, <2>1
  <2>2. CASE Awaits(op[w], d, m)
    <3>1. op[w].line[Len(op[w].line)] = s
      BY DEF s, Serving
    <3>2. Awaits(op'[w], d, m)
      BY <1>1, <1>8, <1>24, <2>2, <3>1 DEF Awaits
    <3> QED BY <3>2
  <2> QED BY <1>24, <2>1, <2>2 DEF OneWorker
<1>25. \A d \in MappedConvs : \A m \in digest[d] \cap nulled :
            d # mapped[ch] /\ (m \in residual \/ \E v \in Workers : Awaits(op[v], d, m)) =>
               m \in residual' \/ \E v \in Workers : Awaits(op'[v], d, m)
  BY <1>24
<1>26. \A d \in T : d = c \/ d \in chain[ch] \/ ~Apart(d)
  BY <1>15
<1> QED BY <1>1, <1>2, <1>3, <1>5, <1>10, <1>13, <1>15, <1>16, <1>17, <1>18, <1>20, <1>22,
       <1>23, <1>25, <1>26, RetoldServes

\* Every serving thread whose digest retells a person has its lineage noted.
LEMMA LineageNoted ==
  ASSUME Orderly, NEW chain, Founded(chain), NEW p \in People, NEW c \in MappedConvs,
         NEW m \in digest[c], m \in Authored(p)
  PROVE  \E plan \in LineagesOf(p) : plan.line[Len(plan.line)] = c /\ m \in plan.strip
<1> DEFINE line == Lineage(c)
           plan == [line |-> line, strip |-> Authored(p)]
<1>1. Len(line) > 1 /\ \E d \in Range(line) : m \in ledger[d]
  BY RetoldIsBelow
<1>2. \E d \in Range(line) : ledger[d] \cap Authored(p) # {}
  BY <1>1
<1>3. plan \in LineagesOf(p)
  BY <1>1, <1>2 DEF LineagesOf
<1>4. line[Len(line)] = c
  BY MappedIs, LineageClimbs DEF Climbs
<1>5. plan.line = line /\ plan.strip = Authored(p)
  OBVIOUS
<1> HIDE DEF line, plan
<1> QED BY <1>3, <1>4, <1>5

LEMMA EraseRetold ==
  ASSUME Orderly, OneWorker, Retold, NEW w \in Workers, NEW p \in People, Erase(w, p)
  PROVE  Retold'
<1> DEFINE gone == DirectConversationsOf(p)
           none == {}
<1>1. /\ op[w].do = "idle" /\ DeletedAs(gone) /\ (\A d \in gone : d \in MappedConvs)
      /\ \A ch \in Channels : mapped'[ch] = IF mapped[ch] \in gone THEN None ELSE mapped[ch]
      /\ op'[w].plans = LineagesOf(p) /\ op'[w].do \in {"idle", "erase"}
      /\ (op'[w].do = "idle" => LineagesOf(p) = {})
      /\ WorkingOf(op'[w]) = {}
      /\ LinesOf(op'[w]) = {plan.line : plan \in LineagesOf(p)}
  BY EraseDoes
<1>2. nulled' = nulled \cup Authored(p) /\ residual' = residual
  BY DEF Erase
<1>3. PICK chain \in [Channels -> SUBSET ConvIds] : Founded(chain)
  BY DEF Retold
<1>4. ASSUME NEW line \in LinesOf(op'[w])
      PROVE  LineSound(line) /\ Bare(line) /\ Clear(line, chain)
  <2>1. PICK plan \in LineagesOf(p) : line = plan.line
    BY <1>1
  <2>2. PICK c \in MappedConvs : line = Lineage(c) /\ Len(line) >= 2
    BY <2>1, LineagesTyped DEF Orderly
  <2>3. PICK ch \in Channels : mapped[ch] = c /\ c # None
    BY DEF MappedConvs
  <2>4. Bare(line) /\ Clear(line, chain)
    BY <1>3, <2>2, <2>3, LineFounded
  <2> QED BY <2>2, <2>4, ReadLineSound
<1> HIDE DEF gone
<1>5. Moves(none, gone)
  BY <1>1, KeptMoves DEF DeletedAs
<1>6. ASSUME NEW ch \in Channels, mapped'[ch] # None, NEW d \in gone PROVE d \notin chain[ch]
  <2>1. PICK a \in Channels : mapped[a] = d /\ d # None
    BY <1>1 DEF MappedConvs
  <2>2. d \in chain[a] /\ a # ch
    BY <1>1, <1>3, <1>6, <2>1 DEF Founded
  <2> QED BY <1>3, <2>2 DEF Founded
<1>7. OwnMoves(none)
  BY <1>1 DEF OwnMoves, OneWorker
<1>8. \A ch \in Channels : mapped'[ch] = None \/ (mapped'[ch] = mapped[ch] /\ mapped[ch] \notin gone)
  BY <1>1
<1>9. \A v \in Workers : \A line \in LinesOf(op'[v]) : Clear(line, chain)
  BY <1>4 DEF OneWorker
<1> HIDE DEF none
<1>10. \E new \in [Channels -> SUBSET ConvIds] : Founded(new)'
  BY <1>3, <1>5, <1>6, <1>7, <1>8, <1>9, FoundedRests
<1>11. Tidy(w)'
  <2>1. \A line \in LinesOf(op'[w]) : LineSound(line) /\ Bare(line)
    BY <1>4
  <2>2. op'[w].do \in {"idle", "strip"} => op'[w].plans = {}
    BY <1>1
  <2> QED BY <1>1, <1>5, <2>1, <2>2, TidyRests
<1>12. \A v \in Workers : Tidy(v)'
  BY <1>11 DEF OneWorker
<1>13. \A c \in MappedConvs : digest[c] \cap nulled \subseteq residual
  BY <1>1, NothingAwaited DEF Retold
<1>14. ASSUME NEW c \in MappedConvs', NEW m \in digest'[c] \cap nulled'
       PROVE  m \in residual' \/ Awaits(op'[w], c, m)
  <2>1. c \in MappedConvs /\ c \notin gone
    BY <1>8 DEF MappedConvs
  <2>2. digest'[c] = digest[c]
    BY <1>5, <2>1, MappedKept
  <2>3. CASE m \in nulled
    BY <1>2, <1>13, <2>1, <2>2, <2>3
  <2>4. CASE m \in Authored(p)
    <3>1. \E plan \in LineagesOf(p) : plan.line[Len(plan.line)] = c /\ m \in plan.strip
      BY <1>3, <2>1, <2>2, <2>4, LineageNoted
    <3> QED BY <1>1, <3>1 DEF Awaits
  <2> QED BY <1>2, <2>3, <2>4
<1>15. Awaited'
  BY <1>14, AwaitedBy
<1> QED BY <1>10, <1>12, <1>15 DEF Retold

\* The process ends.
LEMMA EndRetold ==
  ASSUME Orderly, Retold, ProcessEnds, NEW created, Moves(created, {}),
         \A ch \in Channels : mapped'[ch] = None \/ mapped'[ch] = mapped[ch], nulled' = nulled
  PROVE  Retold'
<1> DEFINE none == {}
<1>1. \A w \in Workers : op'[w] = Idle /\ WorkingOf(op'[w]) = {} /\ LinesOf(op'[w]) = {}
  BY EndsDoes
<1>2. PICK chain \in [Channels -> SUBSET ConvIds] : Founded(chain)
  BY DEF Retold
<1>3. /\ Moves(created, none) /\ OwnMoves(created)
      /\ \A ch \in Channels : mapped'[ch] # None => \A d \in none : d \notin chain[ch]
      /\ \A w \in Workers : \A line \in LinesOf(op'[w]) : Clear(line, chain)
      /\ \A c \in MappedConvs : c \notin none
  BY <1>1 DEF OwnMoves
<1> HIDE DEF none
<1>4. \E new \in [Channels -> SUBSET ConvIds] : Founded(new)'
  BY <1>2, <1>3, FoundedRests
<1>5. ASSUME NEW w \in Workers PROVE Tidy(w)'
  <2>1. op'[w].do = "idle" /\ op'[w].plans = {} /\ LinesOf(op'[w]) = {}
    BY <1>1, IdleIs DEF Idle
  <2> QED BY <2>1 DEF Tidy, Sourced, Built
<1>6. ASSUME NEW c \in MappedConvs', NEW m \in digest'[c] \cap nulled' PROVE m \in residual'
  <2>1. c \in MappedConvs
    BY DEF MappedConvs
  <2>2. m \in digest[c] \cap nulled
    BY <1>3, <2>1, MappedKept
  <2>3. CASE m \in residual
    BY <2>3 DEF ProcessEnds
  <2>4. ASSUME NEW w \in Workers, Awaits(op[w], c, m) PROVE m \in residual'
    <3>1. m \in op[w].strip \/ \E plan \in op[w].plans : m \in plan.strip
      BY <2>4 DEF Awaits
    <3> QED BY <3>1 DEF ProcessEnds
  <2> QED BY <2>1, <2>2, <2>3, <2>4 DEF Retold, Awaited
<1>7. Awaited'
  BY <1>6 DEF Awaited
<1> QED BY <1>4, <1>5, <1>7 DEF Retold

LEMMA CrashesRetold ==
  ASSUME Orderly, Retold, Crash \/ \E w \in Workers, ch \in Channels : SwapTorn(w, ch)
  PROVE  Retold'
<1>1. CASE Crash
  <2>1. DeletedAs({})
    BY <1>1, RestedIs DEF Crash, content
  <2>2. Moves({}, {})
    BY <2>1, KeptMoves DEF DeletedAs
  <2>3. /\ ProcessEnds /\ nulled' = nulled
        /\ \A ch \in Channels : mapped'[ch] = None \/ mapped'[ch] = mapped[ch]
    BY <1>1 DEF Crash, content
  <2> QED BY <2>2, <2>3, EndRetold
<1>2. ASSUME NEW w \in Workers, NEW ch \in Channels, SwapTorn(w, ch) PROVE Retold'
  <2>1. PICK c \in ConvIds, o \in Opening : OpenedAs(c, o, {})
    BY <1>2, TornDoes
  <2> DEFINE created == {c}
  <2>2. Moves(created, {})
    BY <2>1, KeptMoves DEF OpenedAs
  <2>3. \A a \in Channels : mapped'[a] = None \/ mapped'[a] = mapped[a]
    BY <1>2, TornDoes
  <2>4. ProcessEnds /\ nulled' = nulled
    BY <1>2, TornDoes DEF SwapTorn
  <2> HIDE DEF created
  <2> QED BY <2>2, <2>3, <2>4, EndRetold
<1> QED BY <1>1, <1>2

LEMMA NextRetold ==
  ASSUME OneWorker, "expire" \notin Ops
  PROVE  Orderly /\ Retold /\ [Next]_vars => Retold'
<1> SUFFICES ASSUME Orderly, Retold, [Next]_vars PROVE Retold'
  OBVIOUS
<1>1. ASSUME NEW w \in Workers, Starts(w) PROVE Retold'
  BY <1>1, CompactRetold, StripRetold, EraseRetold DEF Starts
<1>2. ASSUME NEW w \in Workers, Proceeds(w) PROVE Retold'
  BY <1>2, CaptureRetold, InstallRetold, ReplaceRetold, StandsRetold, NextLineRetold,
     ScrubBeginsRetold, ForkRetold, ReadRetold, HopRetold, ScrubRetold DEF Proceeds
<1>3. \A c \in ConvIds : ~Expire(c)
  BY DEF Expire
<1>4. CASE UNCHANGED vars
  <2>1. DeletedAs({})
    BY <1>4, RestedIs DEF vars, content
  <2>2. Moves({}, {})
    BY <2>1, KeptMoves DEF DeletedAs
  <2>3. op' = op /\ mapped' = mapped /\ nulled' = nulled /\ residual' = residual
    BY <1>4 DEF vars, content
  <2> QED BY <2>2, <2>3, AsideRetold
<1>5. ASSUME NEW ch \in Channels,
             \/ FirstContact(ch) \/ Wipe(ch) \/ MapNewChannelFails(ch) \/ RetireStaleChannel(ch)
             \/ \E p \in People : Ingest(ch, p)
      PROVE  Retold'
  BY <1>5, FreshRetold, MessagesRetold, StaleRetold
<1> QED BY <1>1, <1>2, <1>3, <1>4, <1>5, CrashesRetold DEF Next

LEMMA InitRetold == Init => Retold
<1> SUFFICES ASSUME Init PROVE Retold
  OBVIOUS
<1>1. \A w \in Workers : op[w] = Idle
  BY DEF Init
<1>2. /\ Idle.do = "idle" /\ Idle.plans = {} /\ LinesOf(Idle) = {}
  BY IdleIs DEF Idle, LinesOf
<1>3. \A ch \in Channels : mapped[ch] = None
  BY DEF Init
<1>4. PICK chain \in [Channels -> SUBSET ConvIds] : chain = [ch \in Channels |-> {}]
  OBVIOUS
<1>5. \A ch \in Channels : chain[ch] = {}
  BY <1>4
<1>6. Founded(chain)
  BY <1>1, <1>2, <1>3, <1>5 DEF Founded, Rooted
<1>7. \A w \in Workers : Tidy(w)
  BY <1>1, <1>2 DEF Tidy, Sourced, Built
<1>8. Awaited
  BY <1>3 DEF Awaited, MappedConvs
<1> QED BY <1>6, <1>7, <1>8 DEF Retold

(* With no operation under way, what was erased is out of the digest of      *)
(* every serving thread, or the erasure reported it as left there            *)
(* (erasure.rs: strip the lineage, then scrub every thread that retells it). *)
(* It stands through faults, torn swaps and restarts.  It is about one       *)
(* operation at a time: a compaction that read its source before the strip   *)
(* does install the erased words after it (run sess_race finds the steps).   *)
THEOREM ErasureTakesHold ==
  ASSUME OneWorker, "expire" \notin Ops
  PROVE  Spec => []ErasedWordsGone
<1>1. Orderly /\ Retold => ErasedWordsGone
  <2> SUFFICES ASSUME Retold, \A w \in Workers : op[w].do = "idle", NEW c \in MappedConvs
               PROVE  digest[c] \cap nulled \subseteq residual
    BY DEF ErasedWordsGone
  <2>1. \A w \in Workers : op[w].plans = {}
    BY DEF Retold, Tidy
  <2>2. \A w \in Workers : \A m : ~Awaits(op[w], c, m)
    BY <2>1 DEF Awaits
  <2> QED BY <2>2 DEF Retold, Awaited
<1>2. Orderly /\ Retold /\ [Next]_vars => Retold'
  BY NextRetold
<1> QED BY <1>1, <1>2, InitRetold, SessionsOrderly, PTL DEF Spec
===============================================================================
