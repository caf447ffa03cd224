-------------------------- MODULE ChannelMemoryProofs --------------------------
(***************************************************************************)
(* The sessions implement the channel's memory, for every number of        *)
(* channels, operations, ids and messages: whatever is compacted,          *)
(* stripped, scrubbed or begun again, what can be read of a channel        *)
(* changes only as ChannelMemory says.                                     *)
(***************************************************************************)
EXTENDS SessionsProofs

-----------------------------------------------------------------------------
(* What can be read of a channel.                                            *)
(*                                                                           *)
(* A swap keeps what a channel's thread holds and retells together, and      *)
(* moves some of it from the one to the other.  That a digest retells just   *)
(* what its thread did not inherit is what a scrub relies on: it rebuilds    *)
(* each digest from the clone below, over that very span.  Erased words are  *)
(* left out throughout: nothing that is read of a channel has them.          *)

\* The same messages, but for those whose words are nulled.
Alike(a, b) == \A m : m \notin nulled => (m \in a <=> m \in b)

\* Conversation c stands on nothing and retells nothing, or retells what it did
\* not inherit of the one below it, in S.
Exact(c, S) ==
    \/ parent[c] = None /\ Alike(digest[c], {})
    \/ /\ parent[c] \in S
       /\ Alike(digest[c], (ledger[parent[c]] \ ledger[c]) \cup digest[parent[c]])

\* The conversations T stand on one another, and are no operation's.
Carried(T) == \A c \in T : c \in Live /\ Apart(c) /\ Exact(c, T)

\* Every channel's thread is carried by conversations of its own.
Grounded(chain) ==
    /\ \A ch \in Channels : mapped[ch] = None => chain[ch] = {}
    /\ \A ch \in Channels : mapped[ch] # None => mapped[ch] \in chain[ch]
    /\ \A ch \in Channels : Carried(chain[ch])
    /\ \A a, b \in Channels : \A c \in chain[a] : c \in chain[b] => a = b

\* What is held, retold or written was recorded.
Known ==
    /\ \A c \in ConvIds : ledger[c] \subseteq 1 .. recorded /\ digest[c] \subseteq 1 .. recorded
    /\ \A w \in Workers : op[w].words \subseteq 1 .. recorded

\* The id of c is not issued again: one after it stands.
Older(c) == \E v \in Live : c <= v /\ Apart(v)

\* A line in flight is its channel's still, or its channel has moved on.
Held(line, chain) ==
    /\ Older(line[Len(line)])
    /\ \A ch \in Channels : mapped[ch] = line[Len(line)] =>
          /\ \A i \in 1 .. Len(line) : line[i] \in chain[ch]
          /\ parent[line[1]] = None
          /\ \A i \in 1 .. Len(line) - 1 : parent[line[i + 1]] = line[i]

\* The first half of conversation s, and its digest.
FirstHalf(s, cut) == {m \in ledger[s] : m <= cut} \cup digest[s]

\* What a compaction has read of its source.
SourceRead(w) ==
    op[w].do \in {"capture", "install"} =>
        LET s == op[w].line[1]
            t == op[w].temp
        IN /\ Older(s) /\ op[w].cut \in 1 .. recorded
           /\ s \in Live => born[s] = op[w].birth
           /\ s \in Live /\ op[w].do = "capture" =>
                 Alike(ledger[t] \cup digest[t], FirstHalf(s, op[w].cut))
           /\ s \in Live /\ op[w].do = "install" => Alike(op[w].words, FirstHalf(s, op[w].cut))

\* A strip's message is in its thread's ledger alone.
StripRead(w) ==
    op[w].do = "strip" =>
        LET s == Serving(w)
        IN /\ Older(s)
           /\ \E m \in 1 .. recorded :
                 /\ op[w].strip = {m}
                 /\ s \in Live => m \in nulled \/ m \notin digest[s]
                 /\ s \in Live /\ parent[s] # None => m \notin ledger[parent[s]]

\* The clones of a scrub continue one another, and hold and retell what the line
\* it read does, but for what it strips.
Copied(r) ==
    /\ parent[r.made[1]] = None
    /\ \A i \in 1 .. Len(r.made) - 1 : parent[r.made[i + 1]] = r.made[i]
    /\ \A i \in 1 .. Len(r.made) :
          /\ ledger[r.made[i]] = ledger[r.line[i]] \ r.strip
          /\ Alike(digest[r.made[i]], digest[r.line[i]] \ r.strip)

\* What a scrub has rebuilt of the line it read.
Rebuilding(w) ==
    op[w].do \in {"fork", "digest"} /\ Serving(w) \in MappedConvs =>
        LET t == op[w].temp
            next == digest[NextHop(w)] \ op[w].strip
        IN /\ Copied(op[w])
           /\ t # None => Alike(ledger[t] \cup digest[t], next)
           /\ op[w].do = "digest" => Alike(op[w].words, next)

\* An operation takes one message away, or erased ones.
Strips(w) ==
    /\ op[w].do = "idle" => op[w].strip = {}
    /\ op[w].strip \subseteq nulled \/ \E m \in 1 .. recorded : op[w].strip = {m}
    /\ \A plan \in op[w].plans : plan.strip \subseteq nulled

Fits(w, chain) ==
    /\ \A line \in LinesOf(op[w]) : Held(line, chain)
    /\ SourceRead(w) /\ StripRead(w) /\ Rebuilding(w) /\ Strips(w)

\* The inductive invariant, with its witness.
FaithfulAt(chain) == Known /\ Grounded(chain) /\ \A w \in Workers : Fits(w, chain)
Faithful == \E chain \in [Channels -> SUBSET ConvIds] : FaithfulAt(chain)

\* One step, as far as the invariant sees it.
Turn(chain, created, gone) ==
    /\ StoreMoves(created, gone) /\ OwnMoves(created)
    /\ \A d \in ConvIds : d \notin created /\ d \notin gone =>
          parent'[d] = parent[d] /\ digest'[d] = digest[d]
    /\ \A d \in ConvIds : d \notin created =>
          /\ digest'[d] \subseteq digest[d]
          /\ \A m \in ledger'[d] :
                m \in ledger[d] \/ (m = recorded + 1 /\ m = recorded' /\ d \in MappedConvs)
    /\ \A d \in ConvIds : d \notin created /\ d \notin gone => ledger[d] \subseteq ledger'[d]
    /\ recorded' \in {recorded, recorded + 1} /\ nulled \subseteq nulled'
    /\ \A ch \in Channels : mapped'[ch] = mapped[ch] \/ mapped'[ch] \in created
    /\ \A ch \in Channels : mapped'[ch] = mapped[ch] => \A d \in gone : d \notin chain[ch]
    /\ \/ \A d \in gone : d \in Live => ~Apart(d)
       \/ \E c \in created : Apart(c)'

LEMMA BelowIt ==
  ASSUME Orderly, NEW s \in ConvIds, parent[s] # None
  PROVE  parent[s] \in ConvIds /\ parent[s] < s
<1>1. s \in Live
  BY DEF Orderly, FreeNameNothing
<1>2. parent[s] \in ConvIds \cup {None}
  BY DEF Orderly, Typed, StoreTypeOK
<1> QED BY <1>1, <1>2 DEF Orderly, PointsBelow, Live

LEMMA OlderStays ==
  ASSUME Orderly, NEW chain, NEW created, NEW gone, Turn(chain, created, gone),
         NEW c \in ConvIds, Older(c)
  PROVE  Older(c)' /\ c \notin created
<1>1. PICK v \in Live : c <= v /\ Apart(v)
  BY DEF Older
<1>2. v \in ConvIds /\ \A x \in ConvIds : x \in Nat
  BY StoreAssumption DEF Live, ConvIds
<1>3. \A x \in created : x \in ConvIds /\ v < x /\ x \in Live'
  BY <1>1, CreatedIsNew DEF Turn, StoreMoves
<1>4. c \notin created
  BY <1>1, <1>2, <1>3
<1>5. CASE v \notin gone
  <2>1. v \in Live' /\ v \notin created
    BY <1>1, <1>2, <1>3, <1>5 DEF Turn, StoreMoves
  <2>2. Apart(v)'
    BY <1>1, <2>1 DEF Turn, OwnMoves, Apart
  <2> QED BY <1>1, <1>4, <2>1, <2>2 DEF Older
<1>6. CASE v \in gone
  <2>1. PICK x \in created : Apart(x)'
    BY <1>1, <1>6 DEF Turn
  <2>2. c <= x /\ x \in Live'
    BY <1>1, <1>2, <1>3, <2>1
  <2> QED BY <1>4, <2>1, <2>2 DEF Older
<1> QED BY <1>5, <1>6

\* What no longer reads does not come back.
LEMMA AliveBefore ==
  ASSUME Orderly, NEW chain, NEW created, NEW gone, Turn(chain, created, gone),
         NEW c \in ConvIds, c \notin created, c \in Live'
  PROVE  /\ c \in Live /\ c \notin gone
         /\ parent'[c] = parent[c] /\ digest'[c] = digest[c] /\ born'[c] = born[c]
         /\ ledger[c] \subseteq ledger'[c]
         /\ \A m \in ledger'[c] : m \in ledger[c] \/ (m = recorded + 1 /\ c \in MappedConvs)
  BY DEF Turn, StoreMoves

\* A conversation of a channel that stays where it is.
LEMMA ChainStays ==
  ASSUME Orderly, NEW chain, Grounded(chain), NEW created, NEW gone, Turn(chain, created, gone),
         NEW ch \in Channels, mapped'[ch] = mapped[ch], NEW c \in chain[ch],
         chain \in [Channels -> SUBSET ConvIds]
  PROVE  /\ c \in ConvIds /\ c \in Live /\ c \in Live' /\ c \notin created /\ c \notin gone /\ Apart(c)'
         /\ parent'[c] = parent[c] /\ digest'[c] = digest[c]
         /\ ledger[c] \subseteq ledger'[c]
         /\ \A m \in ledger'[c] : m \in ledger[c] \/ (m = recorded + 1 /\ c \in MappedConvs)
<1>1. c \in Live /\ Apart(c) /\ c \notin gone /\ c \in ConvIds
  BY DEF Grounded, Carried, Turn
<1>2. c \notin created
  BY <1>1, CreatedIsNew DEF Turn
<1>3. Apart(c)'
  BY <1>1, <1>2 DEF Apart, Turn, OwnMoves
<1> QED BY <1>1, <1>2, <1>3 DEF Turn, StoreMoves

LEMMA ExactStays ==
  ASSUME Orderly, Known, NEW chain \in [Channels -> SUBSET ConvIds], Grounded(chain),
         NEW created, NEW gone, Turn(chain, created, gone),
         NEW ch \in Channels, mapped'[ch] = mapped[ch]
  PROVE  Carried(chain[ch])'
<1> SUFFICES ASSUME NEW c \in chain[ch]
             PROVE  c \in Live' /\ Apart(c)' /\ Exact(c, chain[ch])'
  BY DEF Carried
<1>1. /\ c \in ConvIds /\ c \in Live /\ c \in Live' /\ Apart(c)'
      /\ parent'[c] = parent[c] /\ digest'[c] = digest[c]
      /\ ledger[c] \subseteq ledger'[c]
      /\ \A m \in ledger'[c] : m \in ledger[c] \/ m = recorded + 1
  BY ChainStays
<1>2. nulled \subseteq nulled' /\ Exact(c, chain[ch])
  BY DEF Turn, Grounded, Carried
<1>3. CASE parent[c] = None
  <2>1. None \notin chain[ch]
    BY DEF ConvIds, None
  <2>2. Alike(digest[c], {})
    BY <1>2, <1>3, <2>1 DEF Exact
  <2>3. Alike(digest[c], {})'
    BY <1>1, <1>2, <2>2 DEF Alike
  <2> QED BY <1>1, <1>3, <2>3 DEF Exact
<1>4. CASE parent[c] # None
  <2>0. PICK p : p = parent[c]
    OBVIOUS
  <2>1. p \in chain[ch] /\ Alike(digest[c], (ledger[p] \ ledger[c]) \cup digest[p])
    BY <1>2, <1>4, <2>0 DEF Exact
  <2>2. p \notin MappedConvs
    BY <1>1, <1>4, <2>0 DEF Orderly, ParentsStand
  <2>3. /\ digest'[p] = digest[p] /\ ledger[p] \subseteq ledger'[p]
        /\ \A m \in ledger'[p] : m \in ledger[p]
        /\ p \in ConvIds
    BY <2>1, <2>2, ChainStays
  <2>4. \A m \in ledger[p] : m # recorded + 1
    <3>1. ledger[p] \subseteq 1 .. recorded /\ recorded \in Nat
      BY <2>3 DEF Known, Orderly, Typed, Contents
    <3> QED BY <3>1
  <2>5. \A m : m \in ledger'[p] \ ledger'[c] <=> m \in ledger[p] \ ledger[c]
    BY <1>1, <2>3, <2>4
  <2>6. Alike(digest[c], (ledger[p] \ ledger[c]) \cup digest[p])'
    BY <1>1, <1>2, <2>1, <2>3, <2>5 DEF Alike
  <2> QED BY <1>1, <2>0, <2>1, <2>6 DEF Exact
<1> QED BY <1>1, <1>3, <1>4

\* The chains after a step: a channel that moves has a new one.
Moved(chain, new) ==
    /\ new \in [Channels -> SUBSET ConvIds]
    /\ \A ch \in Channels : mapped'[ch] = mapped[ch] => new[ch] = chain[ch]

LEMMA HeldStays ==
  ASSUME Orderly, NEW chain \in [Channels -> SUBSET ConvIds], Grounded(chain),
         NEW created, NEW gone, Turn(chain, created, gone),
         NEW new, Moved(chain, new), NEW line, LineSound(line), Held(line, chain)
  PROVE  Held(line, new)' /\ line[Len(line)] \notin created
<1> DEFINE s == line[Len(line)]
<1>1. s \in ConvIds /\ Len(line) \in Nat /\ Len(line) >= 2
  BY DEF LineSound
<1>2. Older(s)' /\ s \notin created
  BY <1>1, OlderStays DEF Held
<1>3. ASSUME NEW ch \in Channels, mapped'[ch] = s
      PROVE  /\ \A i \in 1 .. Len(line) : line[i] \in new[ch]
             /\ parent'[line[1]] = None
             /\ \A i \in 1 .. Len(line) - 1 : parent'[line[i + 1]] = line[i]
  <2>1. mapped'[ch] = mapped[ch] /\ mapped[ch] = s
    BY <1>2, <1>3 DEF Turn
  <2>2. /\ \A i \in 1 .. Len(line) : line[i] \in chain[ch]
        /\ parent[line[1]] = None
        /\ \A i \in 1 .. Len(line) - 1 : parent[line[i + 1]] = line[i]
    BY <2>1 DEF Held
  <2>3. new[ch] = chain[ch]
    BY <2>1 DEF Moved
  <2>4. \A c \in chain[ch] : parent'[c] = parent[c]
    BY <2>1, ChainStays
  <2>5. 1 \in 1 .. Len(line) /\ \A i \in 1 .. Len(line) - 1 : i + 1 \in 1 .. Len(line)
    BY <1>1
  <2> QED BY <2>2, <2>3, <2>4, <2>5
<1> QED BY <1>2, <1>3 DEF Held

LEMMA AlikeStays ==
  ASSUME NEW a, NEW b, Alike(a, b), nulled \subseteq nulled'
  PROVE  \A m : m \notin nulled' => (m \in a <=> m \in b)
  BY DEF Alike

LEMMA OwnStays ==
  ASSUME Orderly, NEW chain, NEW created, NEW gone, Turn(chain, created, gone),
         NEW w \in Workers, NEW c \in WorkingOf(op[w]), c \notin gone
  PROVE  /\ c \in ConvIds /\ c \notin created
         /\ parent'[c] = parent[c] /\ digest'[c] = digest[c]
         /\ ledger[c] \subseteq ledger'[c] /\ ledger'[c] \subseteq ledger[c]
<1>1. c \in Live /\ c \notin MappedConvs /\ c \in ConvIds
  BY DEF Orderly, WorkingApart, Live
<1>2. c \notin created
  BY <1>1, CreatedIsNew DEF Turn
<1> QED BY <1>1, <1>2 DEF Turn

\* A worker whose operation does not move.
LEMMA SourceStays ==
  ASSUME Orderly, NEW chain, NEW created, NEW gone, Turn(chain, created, gone),
         NEW w \in Workers, op'[w] = op[w], \A d \in gone : d \notin WorkingOf(op[w]),
         SourceRead(w)
  PROVE  SourceRead(w)'
<1> SUFFICES ASSUME op[w].do \in {"capture", "install"} PROVE SourceRead(w)'
  BY DEF SourceRead
<1> DEFINE s == op[w].line[1]
           t == op[w].temp
           cut == op[w].cut
<1>0. op[w] \in OpRecord /\ Shaped(op[w]) /\ recorded \in Nat
  BY Reads DEF Orderly, Typed, Contents
<1>1. s \in ConvIds
  BY <1>0, Reads DEF Shaped, Orderly, Typed
<1>2. /\ Older(s) /\ cut \in 1 .. recorded
      /\ s \in Live => born[s] = op[w].birth
      /\ s \in Live /\ op[w].do = "capture" => Alike(ledger[t] \cup digest[t], FirstHalf(s, cut))
      /\ s \in Live /\ op[w].do = "install" => Alike(op[w].words, FirstHalf(s, cut))
  BY DEF SourceRead
<1>3. Older(s)' /\ s \notin created
  BY <1>1, <1>2, OlderStays
<1>4. cut \in 1 .. recorded'
  BY <1>0, <1>2 DEF Turn
<1>5. s \in Live' => /\ s \in Live /\ born'[s] = born[s]
                     /\ \A m : m \in FirstHalf(s, cut)' <=> m \in FirstHalf(s, cut)
  <2> SUFFICES ASSUME s \in Live'
               PROVE  /\ s \in Live /\ born'[s] = born[s]
                      /\ \A m : m \in FirstHalf(s, cut)' <=> m \in FirstHalf(s, cut)
    OBVIOUS
  <2>1. /\ s \in Live /\ born'[s] = born[s] /\ digest'[s] = digest[s]
        /\ ledger[s] \subseteq ledger'[s]
        /\ \A m \in ledger'[s] : m \in ledger[s] \/ m = recorded + 1
    BY <1>1, <1>3, AliveBefore
  <2>2. ~(recorded + 1 <= cut)
    BY <1>0, <1>2
  <2> QED BY <2>1, <2>2 DEF FirstHalf
<1>6. op[w].do = "capture" => /\ digest'[t] = digest[t]
                              /\ ledger[t] \subseteq ledger'[t] /\ ledger'[t] \subseteq ledger[t]
  <2>1. op[w].do = "capture" => t \in WorkingOf(op[w])
    BY <1>0 DEF Shaped, WorkingOf
  <2> QED BY <2>1, OwnStays
<1>7. nulled \subseteq nulled'
  BY DEF Turn
<1>8. s \in Live' /\ op[w].do = "capture" => Alike(ledger[t] \cup digest[t], FirstHalf(s, cut))'
  BY <1>2, <1>5, <1>6, <1>7 DEF Alike
<1>9. s \in Live' /\ op[w].do = "install" => Alike(op[w].words, FirstHalf(s, cut))'
  BY <1>2, <1>5, <1>7 DEF Alike
<1> QED BY <1>2, <1>3, <1>4, <1>5, <1>8, <1>9 DEF SourceRead

LEMMA StripStays ==
  ASSUME Orderly, NEW chain, NEW created, NEW gone, Turn(chain, created, gone),
         NEW w \in Workers, op'[w] = op[w], StripRead(w)
  PROVE  StripRead(w)'
<1> SUFFICES ASSUME op[w].do = "strip" PROVE StripRead(w)'
  BY DEF StripRead
<1> DEFINE s == Serving(w)
<1>1. s \in ConvIds /\ recorded \in Nat /\ Serving(w)' = s
  <2>1. Shaped(op[w])
    BY Reads DEF Orderly, Typed
  <2> QED BY <2>1, Reads DEF Shaped, Orderly, Typed, Contents, Serving
<1>2. Older(s)
  BY DEF StripRead
<1>3. PICK m \in 1 .. recorded :
         /\ op[w].strip = {m}
         /\ s \in Live => m \in nulled \/ m \notin digest[s]
         /\ s \in Live /\ parent[s] # None => m \notin ledger[parent[s]]
  BY DEF StripRead
<1>4. Older(s)' /\ s \notin created
  BY <1>1, <1>2, OlderStays
<1>5. m \in 1 .. recorded' /\ nulled \subseteq nulled'
  BY <1>1, <1>3 DEF Turn
<1>6. s \in Live' => m \in nulled' \/ m \notin digest'[s]
  BY <1>1, <1>3, <1>4, <1>5, AliveBefore
<1>7. ASSUME s \in Live', parent'[s] # None PROVE m \notin ledger'[parent'[s]]
  <2> DEFINE p == parent[s]
  <2>1. s \in Live /\ parent'[s] = p /\ p # None
    BY <1>1, <1>4, <1>7, AliveBefore
  <2>2. p < s /\ p \in ConvIds
    BY <1>1, <2>1, BelowIt
  <2>3. p \notin created
    <3>1. \A x \in created : s < x /\ x \in ConvIds
      BY <2>1, CreatedIsNew DEF Turn, StoreMoves
    <3> QED BY <1>1, <2>2, <3>1 DEF ConvIds
  <2>4. m # recorded + 1 /\ m \notin ledger[p]
    BY <1>1, <1>3, <2>1
  <2>5. \A x \in ledger'[p] : x \in ledger[p] \/ x = recorded + 1
    BY <2>2, <2>3 DEF Turn
  <2> QED BY <2>1, <2>4, <2>5
<1> QED BY <1>1, <1>3, <1>4, <1>5, <1>6, <1>7 DEF StripRead

-----------------------------------------------------------------------------
(* An operation that does not move, and a channel that does.                *)

LEMMA RebuildingStays ==
  ASSUME Orderly, NEW chain \in [Channels -> SUBSET ConvIds], Grounded(chain),
         NEW created, NEW gone, Turn(chain, created, gone),
         NEW w \in Workers, op'[w] = op[w], \A d \in gone : d \notin WorkingOf(op[w]),
         \A line \in LinesOf(op[w]) : Held(line, chain), Rebuilding(w)
  PROVE  Rebuilding(w)'
<1> SUFFICES ASSUME op[w].do \in {"fork", "digest"}, Serving(w)' \in MappedConvs'
             PROVE  Rebuilding(w)'
  BY DEF Rebuilding
<1>0. PICK r : r = op[w]
  OBVIOUS
<1>1. r \in OpRecord /\ Shaped(r) /\ Serving(w) \in ConvIds
  BY <1>0, Reads, ScrubReads DEF Orderly, Typed
<1> DEFINE made == r.made
           line == r.line
           t == r.temp
           k == Len(made)
           n == Len(line)
           s == line[n]
<1>2. /\ made \in Seq(ConvIds) /\ line \in Seq(ConvIds) /\ k \in Nat /\ n \in Nat /\ k >= 1 /\ k < n
      /\ t \in ConvIds \cup {None}
  BY <1>0, <1>1 DEF OpRecord, Shaped
<1>3. LineSound(line) /\ Held(line, chain) /\ line \in LinesOf(op[w])
  BY <1>0, ScrubReads
<1>4. s \notin created
  <2>1. Older(s) /\ s \in ConvIds
    BY <1>0, <1>1, <1>3 DEF Held, Serving
  <2> QED BY <2>1, OlderStays
<1>5. PICK ch \in Channels : mapped'[ch] = s /\ s # None
  BY <1>0 DEF MappedConvs, Serving
<1>6. mapped'[ch] = mapped[ch] /\ mapped[ch] = s
  BY <1>4, <1>5 DEF Turn
<1>7. /\ Serving(w) \in MappedConvs
      /\ \A i \in 1 .. n : line[i] \in chain[ch]
  BY <1>0, <1>3, <1>5, <1>6 DEF MappedConvs, Serving, Held
<1>8. \A i \in 1 .. n : digest'[line[i]] = digest[line[i]]
  BY <1>6, <1>7, ChainStays
<1>9. \A i \in 1 .. k : ledger'[line[i]] = ledger[line[i]]
  <2> SUFFICES ASSUME NEW i \in 1 .. k PROVE ledger'[line[i]] = ledger[line[i]]
    OBVIOUS
  <2>1. i \in 1 .. n /\ i \in 1 .. n - 1
    BY <1>2
  <2>2. line[i] \notin MappedConvs
    BY <1>3, <2>1 DEF LineSound
  <2>3. /\ ledger[line[i]] \subseteq ledger'[line[i]]
        /\ \A m \in ledger'[line[i]] : m \in ledger[line[i]]
    BY <1>6, <1>7, <2>1, <2>2, ChainStays
  <2> QED BY <2>3
<1>10. \A c \in WorkingOf(r) : /\ parent'[c] = parent[c] /\ digest'[c] = digest[c]
                               /\ ledger'[c] = ledger[c]
  <2> SUFFICES ASSUME NEW c \in WorkingOf(r)
               PROVE  /\ parent'[c] = parent[c] /\ digest'[c] = digest[c]
                      /\ ledger'[c] = ledger[c]
    OBVIOUS
  <2>1. c \in WorkingOf(op[w]) /\ c \notin gone
    BY <1>0
  <2>2. /\ parent'[c] = parent[c] /\ digest'[c] = digest[c]
        /\ ledger[c] \subseteq ledger'[c] /\ ledger'[c] \subseteq ledger[c]
    BY <2>1, OwnStays
  <2> QED BY <2>2
<1>11. \A i \in 1 .. k : made[i] \in WorkingOf(r)
  BY <1>2 DEF WorkingOf, Range
<1>12. t # None => t \in WorkingOf(r)
  BY DEF WorkingOf
<1>13. /\ parent[made[1]] = None
       /\ \A i \in 1 .. k - 1 : parent[made[i + 1]] = made[i]
       /\ \A i \in 1 .. k :
             /\ ledger[made[i]] = ledger[line[i]] \ r.strip
             /\ Alike(digest[made[i]], digest[line[i]] \ r.strip)
       /\ t # None => Alike(ledger[t] \cup digest[t], digest[line[k + 1]] \ r.strip)
       /\ r.do = "digest" => Alike(r.words, digest[line[k + 1]] \ r.strip)
  BY <1>0, <1>7 DEF Rebuilding, NextHop, Copied
<1>14. nulled \subseteq nulled' /\ k + 1 \in 1 .. n /\ 1 \in 1 .. k
  BY <1>2 DEF Turn
<1>15. /\ parent'[made[1]] = None
       /\ \A i \in 1 .. k - 1 : parent'[made[i + 1]] = made[i]
  <2>1. \A i \in 1 .. k - 1 : i + 1 \in 1 .. k
    BY <1>2
  <2> QED BY <1>10, <1>11, <1>13, <1>14, <2>1
<1>16. \A i \in 1 .. k : /\ ledger'[made[i]] = ledger'[line[i]] \ r.strip
                         /\ Alike(digest[made[i]], digest[line[i]] \ r.strip)'
  <2> SUFFICES ASSUME NEW i \in 1 .. k
               PROVE /\ ledger'[made[i]] = ledger'[line[i]] \ r.strip
                     /\ Alike(digest[made[i]], digest[line[i]] \ r.strip)'
    OBVIOUS
  <2>1. i \in 1 .. n
    BY <1>2
  <2>2. Alike(digest[made[i]], digest[line[i]] \ r.strip)
    BY <1>13
  <2>3. digest'[made[i]] = digest[made[i]] /\ digest'[line[i]] = digest[line[i]]
    BY <1>8, <1>10, <1>11, <2>1
  <2>4. Alike(digest[made[i]], digest[line[i]] \ r.strip)'
    BY <1>14, <2>2, <2>3 DEF Alike
  <2> QED BY <1>9, <1>10, <1>11, <1>13, <2>4
<1>17. t # None => Alike(ledger[t] \cup digest[t], digest[line[k + 1]] \ r.strip)'
  <2> SUFFICES ASSUME t # None
               PROVE  Alike(ledger[t] \cup digest[t], digest[line[k + 1]] \ r.strip)'
    OBVIOUS
  <2>1. ledger'[t] = ledger[t] /\ digest'[t] = digest[t]
        /\ digest'[line[k + 1]] = digest[line[k + 1]]
    BY <1>8, <1>10, <1>12, <1>14
  <2>2. Alike(ledger[t] \cup digest[t], digest[line[k + 1]] \ r.strip)
    BY <1>13
  <2> QED BY <1>14, <2>1, <2>2 DEF Alike
<1>18. r.do = "digest" => Alike(r.words, digest[line[k + 1]] \ r.strip)'
  <2>1. digest'[line[k + 1]] = digest[line[k + 1]]
    BY <1>8, <1>14
  <2> QED BY <1>13, <1>14, <2>1 DEF Alike
<1>19. op'[w] = r
  BY <1>0
<1>20. Copied(r)'
  BY <1>15, <1>16 DEF Copied
<1> QED BY <1>17, <1>18, <1>19, <1>20 DEF Rebuilding, NextHop

\* What is kept of a strip stays what it was.
LEMMA StripsStays ==
  ASSUME Orderly, NEW w \in Workers, op'[w] = op[w], Strips(w),
         nulled \subseteq nulled', recorded' \in {recorded, recorded + 1}
  PROVE  Strips(w)'
<1>1. 1 .. recorded \subseteq 1 .. recorded'
  BY DEF Orderly, Typed, Contents
<1> QED BY <1>1 DEF Strips

\* A worker whose operation does not move.
LEMMA FitsStays ==
  ASSUME Orderly, NEW chain \in [Channels -> SUBSET ConvIds], Grounded(chain),
         NEW created, NEW gone, Turn(chain, created, gone), NEW new, Moved(chain, new),
         NEW w \in Workers, op'[w] = op[w], \A d \in gone : d \notin WorkingOf(op[w]),
         Fits(w, chain)
  PROVE  Fits(w, new)'
<1>1. \A line \in LinesOf(op'[w]) : Held(line, new)'
  BY HeldStays DEF Fits, Orderly, LinesSound
<1>2. SourceRead(w)' /\ StripRead(w)' /\ Rebuilding(w)'
  BY SourceStays, StripStays, RebuildingStays DEF Fits
<1>3. Strips(w)'
  BY StripsStays DEF Fits, Turn
<1> QED BY <1>1, <1>2, <1>3 DEF Fits

\* A worker that is done, or goes on with an erasure's other lineages.
Rested(w) ==
    /\ op'[w].do \in {"idle", "erase"} /\ op'[w].strip = {}
    /\ op'[w].plans \subseteq op[w].plans /\ LinesOf(op'[w]) \subseteq LinesOf(op[w])

LEMMA FitsRests ==
  ASSUME Orderly, NEW chain \in [Channels -> SUBSET ConvIds], Grounded(chain),
         NEW created, NEW gone, Turn(chain, created, gone), NEW new, Moved(chain, new),
         NEW w \in Workers, Rested(w), Fits(w, chain)
  PROVE  Fits(w, new)'
<1>1. \A line \in LinesOf(op'[w]) : Held(line, new)'
  BY HeldStays DEF Fits, Orderly, LinesSound, Rested
<1>2. SourceRead(w)' /\ StripRead(w)' /\ Rebuilding(w)'
  BY DEF Rested, SourceRead, StripRead, Rebuilding
<1>3. Strips(w)'
  BY DEF Fits, Strips, Rested, Turn
<1> QED BY <1>1, <1>2, <1>3 DEF Fits

LEMMA KnownStays ==
  ASSUME Orderly, Known, NEW chain, NEW created, NEW gone, Turn(chain, created, gone),
         \A c \in created : ledger'[c] \subseteq 1 .. recorded /\ digest'[c] \subseteq 1 .. recorded,
         \A w \in Workers : op'[w].words \subseteq 1 .. recorded
  PROVE  Known'
<1>1. 1 .. recorded \subseteq 1 .. recorded'
  BY DEF Orderly, Typed, Contents, Turn
<1>2. ASSUME NEW c \in ConvIds, c \notin created
      PROVE  ledger'[c] \subseteq 1 .. recorded' /\ digest'[c] \subseteq 1 .. recorded'
  <2>1. ledger[c] \subseteq 1 .. recorded /\ digest[c] \subseteq 1 .. recorded
    BY DEF Known
  <2>2. digest'[c] \subseteq digest[c]
        /\ \A m \in ledger'[c] : m \in ledger[c] \/ (m = recorded + 1 /\ m = recorded')
    BY <1>2 DEF Turn
  <2>3. recorded + 1 = recorded' => recorded + 1 \in 1 .. recorded'
    BY DEF Orderly, Typed, Contents
  <2> QED BY <1>1, <2>1, <2>2, <2>3
<1> QED BY <1>1, <1>2 DEF Known

LEMMA GroundedRests ==
  ASSUME Orderly, Known, NEW chain \in [Channels -> SUBSET ConvIds], Grounded(chain),
         NEW created, NEW gone, Turn(chain, created, gone), mapped' = mapped
  PROVE  Grounded(chain)'
<1>1. \A ch \in Channels : Carried(chain[ch])'
  BY ExactStays
<1> QED BY <1>1 DEF Grounded

\* The chain of the channel that is served anew.
LEMMA GroundedServes ==
  ASSUME Orderly, Known, NEW chain \in [Channels -> SUBSET ConvIds], Grounded(chain),
         NEW created, NEW gone, Turn(chain, created, gone),
         NEW ch \in Channels, NEW c \in created, ServedBy(ch, c),
         NEW T \in SUBSET ConvIds, c \in T, Carried(T)',
         \A d \in T : d = c \/ d \in chain[ch] \/ ~Apart(d)
  PROVE  \E new \in [Channels -> SUBSET ConvIds] : Moved(chain, new) /\ Grounded(new)'
<1>0. c \notin Live /\ c \in ConvIds /\ c # None
  BY CreatedIsNew DEF Turn, ConvIds, None
<1>1. PICK n \in [Channels -> SUBSET ConvIds] : n = [chain EXCEPT ![ch] = T]
  OBVIOUS
<1>2. n[ch] = T /\ \A a \in Channels \ {ch} : n[a] = chain[a]
  BY <1>1
<1>3. mapped'[ch] = c /\ \A a \in Channels \ {ch} : mapped'[a] = mapped[a]
  BY DEF ServedBy
<1>4. mapped[ch] # c
  <2>1. mapped[ch] # None => mapped[ch] \in Live
    BY DEF Orderly, MappedApart
  <2> QED BY <1>0, <2>1
<1>5. Moved(chain, n)
  BY <1>2, <1>3, <1>4 DEF Moved
<1>6. \A a \in Channels : mapped'[a] = None => n[a] = {}
  BY <1>0, <1>2, <1>3 DEF Grounded
<1>7. \A a \in Channels : mapped'[a] # None => mapped'[a] \in n[a]
  BY <1>2, <1>3 DEF Grounded
<1>8. ASSUME NEW a \in Channels PROVE Carried(n[a])'
  <2>1. CASE a = ch
    BY <1>2, <2>1
  <2>2. CASE a # ch
    <3>1. n[a] = chain[a] /\ mapped'[a] = mapped[a]
      BY <1>2, <1>3, <2>2
    <3>2. Carried(chain[a])'
      BY <3>1, ExactStays
    <3> QED BY <3>1, <3>2
  <2> QED BY <2>1, <2>2
<1>9. ASSUME NEW a \in Channels \ {ch}, NEW d \in chain[a] PROVE d \notin T
  <2>1. d \in Live /\ Apart(d)
    BY DEF Grounded, Carried
  <2>2. d \notin chain[ch]
    BY DEF Grounded
  <2> QED BY <1>0, <2>1, <2>2
<1>10. \A a, b \in Channels : \A d \in n[a] : d \in n[b] => a = b
  <2>1. ASSUME NEW a \in Channels, NEW b \in Channels, NEW d \in n[a], d \in n[b], a # b
        PROVE  FALSE
    <3>1. CASE a = ch
      BY <1>2, <1>9, <2>1, <3>1
    <3>2. CASE b = ch
      BY <1>2, <1>9, <2>1, <3>2
    <3>3. CASE a # ch /\ b # ch
      BY <1>2, <2>1, <3>3 DEF Grounded
    <3> QED BY <3>1, <3>2, <3>3
  <2> QED BY <2>1
<1>11. Grounded(n)'
  BY <1>6, <1>7, <1>8, <1>10 DEF Grounded
<1> QED BY <1>5, <1>11

\* No channel is handed anything.
LEMMA AsideFaithful ==
  ASSUME Orderly, NEW chain \in [Channels -> SUBSET ConvIds], FaithfulAt(chain),
         NEW created, NEW gone, Turn(chain, created, gone), mapped' = mapped, Known',
         \A w \in Workers : \/ op'[w] = op[w] /\ \A d \in gone : d \notin WorkingOf(op[w])
                            \/ Rested(w)
                            \/ Fits(w, chain)'
  PROVE  FaithfulAt(chain)'
<1>1. Known /\ Grounded(chain) /\ \A w \in Workers : Fits(w, chain)
  BY DEF FaithfulAt
<1>2. Grounded(chain)'
  BY <1>1, GroundedRests
<1>3. Moved(chain, chain)
  BY DEF Moved
<1>4. \A w \in Workers : Fits(w, chain)'
  BY <1>1, <1>3, FitsStays, FitsRests
<1> QED BY <1>2, <1>4 DEF FaithfulAt

\* One channel is handed c.
LEMMA ServeFaithful ==
  ASSUME Orderly, NEW chain \in [Channels -> SUBSET ConvIds], FaithfulAt(chain),
         NEW created, NEW gone, Turn(chain, created, gone), Known',
         \A w \in Workers : \/ op'[w] = op[w] /\ \A d \in gone : d \notin WorkingOf(op[w])
                            \/ Rested(w),
         NEW ch \in Channels, NEW c \in created, ServedBy(ch, c),
         NEW T \in SUBSET ConvIds, c \in T, Carried(T)',
         \A d \in T : d = c \/ d \in chain[ch] \/ ~Apart(d)
  PROVE  Faithful'
<1>1. Known /\ Grounded(chain) /\ \A w \in Workers : Fits(w, chain)
  BY DEF FaithfulAt
<1>2. PICK new \in [Channels -> SUBSET ConvIds] : Moved(chain, new) /\ Grounded(new)'
  BY <1>1, GroundedServes
<1>3. \A w \in Workers : Fits(w, new)'
  BY <1>1, <1>2, FitsStays, FitsRests
<1>4. FaithfulAt(new)'
  BY <1>2, <1>3 DEF FaithfulAt
<1> QED BY <1>4 DEF Faithful

-----------------------------------------------------------------------------
(* Compactions and strips, beside the channels.                             *)

\* An operation goes on beside the channels.
LEMMA WorkerTurns ==
  ASSUME Orderly, NEW chain \in [Channels -> SUBSET ConvIds], Grounded(chain),
         NEW w \in Workers, Others(w), NEW created, NEW gone,
         StoreMoves(created, gone), Kept(created, gone),
         WorkingOf(op'[w]) \subseteq created \cup WorkingOf(op[w]), gone \subseteq WorkingOf(op[w]),
         recorded' = recorded, nulled \subseteq nulled', mapped' = mapped
  PROVE  Turn(chain, created, gone)
<1>1. OwnMoves(created)
  BY DEF Others, OwnMoves
<1>2. \A d \in gone : ~Apart(d)
  BY DEF Apart
<1>3. ASSUME NEW ch \in Channels, NEW d \in gone PROVE d \notin chain[ch]
  BY <1>2 DEF Grounded, Carried
<1>4. \A d \in ConvIds : d \notin created =>
          /\ d \notin gone => parent'[d] = parent[d] /\ digest'[d] = digest[d]
          /\ digest'[d] \subseteq digest[d] /\ ledger'[d] \subseteq ledger[d]
          /\ d \notin gone => ledger[d] \subseteq ledger'[d]
  BY DEF Kept
<1> QED BY <1>1, <1>2, <1>3, <1>4 DEF Turn

LEMMA WorkerAside ==
  ASSUME Orderly, NEW chain \in [Channels -> SUBSET ConvIds], FaithfulAt(chain),
         NEW w \in Workers, Others(w), NEW created, NEW gone, Turn(chain, created, gone),
         gone \subseteq WorkingOf(op[w]), mapped' = mapped,
         \A c \in created : ledger'[c] \subseteq 1 .. recorded /\ digest'[c] \subseteq 1 .. recorded,
         op'[w].words \subseteq 1 .. recorded,
         Rested(w) \/ Fits(w, chain)'
  PROVE  FaithfulAt(chain)'
<1>1. Known'
  <2>1. \A v \in Workers : op'[v].words \subseteq 1 .. recorded
    BY DEF Others, FaithfulAt, Known
  <2> QED BY <2>1, KnownStays DEF FaithfulAt
<1>2. ASSUME NEW v \in Workers \ {w}
      PROVE  op'[v] = op[v] /\ \A d \in gone : d \notin WorkingOf(op[v])
  BY DEF Others, Orderly, WorkingApart
<1> QED BY <1>1, <1>2, AsideFaithful

\* What a conversation is opened with was recorded.
LEMMA ClonesKnown ==
  ASSUME Known, NEW s \in ConvIds, NEW S
  PROVE  Clone(s, S).ledger \subseteq 1 .. recorded /\ Clone(s, S).digest \subseteq 1 .. recorded
  BY DEF Known, Clone

\* A serving thread is older than what is created, and no operation's.
LEMMA ServingOlder ==
  ASSUME Orderly, NEW c \in MappedConvs
  PROVE  Older(c)
  BY MappedIs DEF Older, Apart, ConvIds

LEMMA CompactFaithful ==
  ASSUME Orderly, NEW chain \in [Channels -> SUBSET ConvIds], FaithfulAt(chain),
         NEW w \in Workers, NEW ch \in Channels, Compact(w, ch)
  PROVE  FaithfulAt(chain)'
<1>0. PICK s : s = mapped[ch]
  OBVIOUS
<1>1. /\ s \in MappedConvs /\ s \in ConvIds
      /\ op[w].do = "idle" /\ WorkingOf(op[w]) = {} /\ Others(w)
  BY <1>0, CompactDoes
<1>2. PICK c \in ConvIds, cut \in ledger[s] :
         /\ OpenedAs(c, [Clone(s, {}) EXCEPT !.ledger = {m \in ledger[s] : m <= cut}], {})
         /\ op'[w] = Compacting(ch, c, cut)
         /\ WorkingOf(op'[w]) = {c} /\ LinesOf(op'[w]) = {}
  BY <1>0, CompactDoes
<1>3. /\ recorded' = recorded /\ nulled' = nulled /\ mapped' = mapped
  BY DEF Compact
<1>4. Known /\ Grounded(chain)
  BY DEF FaithfulAt
<1> DEFINE created == {c}
           gone == {}
<1>5. /\ StoreMoves(created, gone) /\ Kept(created, gone) /\ c \notin Live
      /\ ledger'[c] = {m \in ledger[s] : m <= cut} /\ digest'[c] = digest[s]
  BY <1>2 DEF OpenedAs, Clone
<1>6. /\ WorkingOf(op'[w]) \subseteq created \cup WorkingOf(op[w]) /\ gone \subseteq WorkingOf(op[w])
      /\ c \in created /\ created = {c} /\ gone = {}
  BY <1>2
<1> HIDE DEF created, gone
<1>7. Turn(chain, created, gone)
  BY <1>1, <1>3, <1>4, <1>5, <1>6, WorkerTurns
<1>8. ledger[s] \subseteq 1 .. recorded /\ digest[s] \subseteq 1 .. recorded
  BY <1>1, <1>4 DEF Known
<1>9. /\ op'[w].do = "capture" /\ op'[w].line = <<s>> /\ op'[w].birth = born[s]
      /\ op'[w].temp = c /\ op'[w].cut = cut /\ op'[w].strip = {} /\ op'[w].plans = {}
      /\ op'[w].words = {}
  BY <1>0, <1>2 DEF Compacting, Idle
<1>10. SourceRead(w)'
  <2>1. Older(s)'
    BY <1>1, <1>7, ServingOlder, OlderStays
  <2>2. s # c /\ s \in Live
    BY <1>1, <1>5, MappedIs
  <2>3. born'[s] = born[s] /\ ledger'[s] = ledger[s] /\ digest'[s] = digest[s]
    BY <1>1, <1>5, <1>6, <2>2 DEF Kept
  <2>4. Alike(ledger[c] \cup digest[c], FirstHalf(s, cut))'
    BY <1>5, <2>3 DEF Alike, FirstHalf
  <2>5. cut \in 1 .. recorded'
    BY <1>3, <1>8
  <2>6. <<s>>[1] = s
    OBVIOUS
  <2> QED BY <1>9, <2>1, <2>3, <2>4, <2>5, <2>6 DEF SourceRead
<1>11. Fits(w, chain)'
  BY <1>2, <1>9, <1>10 DEF Fits, StripRead, Rebuilding, Strips
<1>12. \A x \in created : ledger'[x] \subseteq 1 .. recorded /\ digest'[x] \subseteq 1 .. recorded
  BY <1>5, <1>6, <1>8
<1>13. op'[w].words \subseteq 1 .. recorded
  BY <1>9
<1> QED BY <1>1, <1>3, <1>6, <1>7, <1>11, <1>12, <1>13, WorkerAside

LEMMA CaptureFaithful ==
  ASSUME Orderly, NEW chain \in [Channels -> SUBSET ConvIds], FaithfulAt(chain),
         NEW w \in Workers, CaptureAndRetire(w)
  PROVE  FaithfulAt(chain)'
<1>0. PICK r : r = op[w]
  OBVIOUS
<1> DEFINE t == r.temp
           s == r.line[1]
<1>1. /\ r.do = "capture" /\ t \in ConvIds
      /\ DeletedAs({t}) /\ WorkingOf(r) = {t} /\ WorkingOf(op'[w]) = {}
      /\ op'[w].do = "install" /\ op'[w].temp = None /\ Same(op'[w], r)
      /\ op'[w].words = Readable(ledger[t], digest[t])
      /\ LinesOf(op'[w]) = LinesOf(r) /\ Others(w)
  BY <1>0, CaptureDoes
<1>2. recorded' = recorded /\ nulled' = nulled /\ mapped' = mapped
  BY DEF CaptureAndRetire
<1>3. Known /\ Grounded(chain) /\ Fits(w, chain)
  BY DEF FaithfulAt
<1> DEFINE created == {}
           gone == {t}
<1>4. /\ StoreMoves(created, gone) /\ Kept(created, gone)
      /\ WorkingOf(op'[w]) \subseteq created \cup WorkingOf(op[w]) /\ gone \subseteq WorkingOf(op[w])
      /\ created = {}
  BY <1>0, <1>1 DEF DeletedAs
<1> HIDE DEF created, gone
<1>5. Turn(chain, created, gone)
  BY <1>1, <1>2, <1>3, <1>4, WorkerTurns
<1>6. /\ Older(s) /\ r.cut \in 1 .. recorded
      /\ s \in Live => born[s] = r.birth
      /\ s \in Live => Alike(ledger[t] \cup digest[t], FirstHalf(s, r.cut))
  BY <1>0, <1>1, <1>3 DEF Fits, SourceRead
<1>7. s \in ConvIds
  BY <1>0, <1>1, Reads DEF Orderly, Typed, Shaped
<1>8. Older(s)'
  BY <1>5, <1>6, <1>7, OlderStays
<1>9. s \in Live' => /\ s \in Live /\ s \notin gone
                     /\ born'[s] = born[s] /\ ledger'[s] = ledger[s] /\ digest'[s] = digest[s]
  BY <1>4, <1>7 DEF StoreMoves, Kept
<1>10. PICK words : words = Readable(ledger[t], digest[t])
  OBVIOUS
<1>11. s \in Live' => Alike(words, FirstHalf(s, r.cut))'
  BY <1>2, <1>6, <1>9, <1>10 DEF Alike, Readable, FirstHalf
<1>12. r.line = op'[w].line /\ r.cut = op'[w].cut /\ r.birth = op'[w].birth
       /\ r.strip = op'[w].strip /\ r.plans = op'[w].plans
  BY <1>1 DEF Same
<1>13. SourceRead(w)'
  BY <1>1, <1>2, <1>6, <1>8, <1>9, <1>10, <1>11, <1>12 DEF SourceRead
<1>14. ASSUME NEW line \in LinesOf(op'[w]) PROVE Held(line, chain)'
  <2>1. LineSound(line) /\ Held(line, chain)
    BY <1>0, <1>1, <1>3, <1>14 DEF Fits, Orderly, LinesSound
  <2>2. Moved(chain, chain)
    BY DEF Moved
  <2> QED BY <1>3, <1>5, <2>1, <2>2, HeldStays
<1>15. Strips(w)'
  BY <1>0, <1>1, <1>2, <1>3, <1>12 DEF Fits, Strips
<1>16. Fits(w, chain)'
  BY <1>1, <1>13, <1>14, <1>15 DEF Fits, StripRead, Rebuilding
<1>17. op'[w].words \subseteq 1 .. recorded
  BY <1>1, <1>3 DEF Known, Readable
<1> QED BY <1>1, <1>2, <1>4, <1>5, <1>16, <1>17, WorkerAside

\* An operation is over, and drops what it made; or it made nothing.
LEMMA RestFaithful ==
  ASSUME Orderly, NEW chain \in [Channels -> SUBSET ConvIds], FaithfulAt(chain),
         NEW w \in Workers, Idles(w) \/ ScrubOver(w), NEW gone, gone \subseteq WorkingOf(op[w]),
         NEW created, StoreMoves(created, gone), Kept(created, gone),
         \A c \in created : ledger'[c] \subseteq 1 .. recorded /\ digest'[c] \subseteq 1 .. recorded,
         recorded' = recorded, nulled' = nulled, mapped' = mapped
  PROVE  FaithfulAt(chain)'
<1>1. Rested(w) /\ Others(w) /\ op'[w].words = {} /\ WorkingOf(op'[w]) = {}
  BY RestDoes DEF Rested
<1>2. Grounded(chain)
  BY DEF FaithfulAt
<1>3. Turn(chain, created, gone)
  BY <1>1, <1>2, WorkerTurns
<1> QED BY <1>1, <1>3, WorkerAside

LEMMA UnsummarizedFaithful ==
  ASSUME Orderly, NEW chain \in [Channels -> SUBSET ConvIds], FaithfulAt(chain),
         NEW w \in Workers, Unsummarized(w)
  PROVE  FaithfulAt(chain)'
<1>1. DeletedAs({op[w].temp}) /\ WorkingOf(op[w]) = {op[w].temp} /\ Idles(w)
  BY UnsummarizedDoes
<1>2. PICK gone : gone = {op[w].temp}
  OBVIOUS
<1>3. recorded' = recorded /\ nulled' = nulled /\ mapped' = mapped
  BY DEF Unsummarized
<1>4. PICK created : created = {}
  OBVIOUS
<1>5. StoreMoves(created, gone) /\ Kept(created, gone) /\ gone \subseteq WorkingOf(op[w])
  BY <1>1, <1>2, <1>4 DEF DeletedAs
<1> QED BY <1>1, <1>3, <1>4, <1>5, RestFaithful

LEMMA StandsFaithful ==
  ASSUME Orderly, NEW chain \in [Channels -> SUBSET ConvIds], FaithfulAt(chain),
         NEW w \in Workers,
         \/ CompactionStandsDown(w)
         \/ ScrubHasNoChannel(w)
         \/ ReplaceWithClone(w) /\ Serving(w) \notin MappedConvs
  PROVE  FaithfulAt(chain)'
<1>1. /\ Idles(w) \/ ScrubOver(w)
      /\ UNCHANGED storeVars /\ UNCHANGED <<ledger, digest>>
      /\ recorded' = recorded /\ nulled' = nulled /\ mapped' = mapped
  BY DEF CompactionStandsDown, ScrubHasNoChannel, ReplaceWithClone, content
<1>2. PICK none : none = {}
  OBVIOUS
<1>3. StoreMoves(none, none) /\ Kept(none, none) /\ none \subseteq WorkingOf(op[w])
  BY <1>1, <1>2, RestedIs DEF DeletedAs
<1> QED BY <1>1, <1>2, <1>3, RestFaithful

LEMMA CloneFailsFaithful ==
  ASSUME Orderly, NEW chain \in [Channels -> SUBSET ConvIds], FaithfulAt(chain),
         NEW w \in Workers, CloneFails(w)
  PROVE  FaithfulAt(chain)'
<1>1. PICK c \in ConvIds : OpenedAs(c, Clone(Serving(w), {}), {})
  BY CloneFailsDoes
<1>2. Idles(w) /\ recorded' = recorded /\ nulled' = nulled /\ mapped' = mapped
  BY DEF CloneFails
<1>3. PICK created, gone : created = {c} /\ gone = {}
  OBVIOUS
<1>4. StoreMoves(created, gone) /\ Kept(created, gone) /\ gone \subseteq WorkingOf(op[w])
  BY <1>1, <1>3 DEF OpenedAs
<1>5. Serving(w) \in ConvIds /\ Known
  BY MappedIs DEF CloneFails, FaithfulAt
<1>6. ledger'[c] \subseteq 1 .. recorded /\ digest'[c] \subseteq 1 .. recorded
  <2>1. /\ Clone(Serving(w), {}).ledger \subseteq 1 .. recorded
        /\ Clone(Serving(w), {}).digest \subseteq 1 .. recorded
    BY <1>5, ClonesKnown
  <2> QED BY <1>1, <2>1 DEF OpenedAs
<1>7. \A x \in created : ledger'[x] \subseteq 1 .. recorded /\ digest'[x] \subseteq 1 .. recorded
  BY <1>3, <1>6
<1> QED BY <1>2, <1>4, <1>7, RestFaithful

LEMMA StandsDownFaithful ==
  ASSUME Orderly, NEW chain \in [Channels -> SUBSET ConvIds], FaithfulAt(chain),
         NEW w \in Workers, ScrubStandsDown(w)
  PROVE  FaithfulAt(chain)'
<1>1. DeletedAs(WorkingOf(op[w])) /\ ScrubOver(w)
  BY StandsDownDoes
<1>2. PICK created, gone : created = {} /\ gone = WorkingOf(op[w])
  OBVIOUS
<1>3. StoreMoves(created, gone) /\ Kept(created, gone) /\ gone \subseteq WorkingOf(op[w])
  BY <1>1, <1>2 DEF DeletedAs
<1>4. recorded' = recorded /\ nulled' = nulled /\ mapped' = mapped
  BY DEF ScrubStandsDown
<1> QED BY <1>1, <1>2, <1>3, <1>4, RestFaithful

-----------------------------------------------------------------------------
(* The line a scrub or an erasure reads.                                    *)

\* A lineage stays among conversations that stand on one another.
LEMMA LineWithin ==
  ASSUME Orderly, NEW s \in Live, NEW S, s \in S,
         \A d \in S : d \in Live /\ (parent[d] = None \/ parent[d] \in S)
  PROVE  LET line == Lineage(s)
         IN /\ \A i \in 1 .. Len(line) : line[i] \in S
            /\ parent[line[1]] = None /\ line[Len(line)] = s
            /\ \A i \in 1 .. Len(line) - 1 : parent[line[i + 1]] = line[i]
            /\ line \in Seq(ConvIds) /\ Len(line) \in Nat /\ Len(line) >= 1
<1> DEFINE line == Lineage(s)
           n == Len(line)
<1>1. s \in ConvIds
  BY DEF Live
<1>2. Climbs(line, s) /\ parent[line[1]] \notin Live
  BY <1>1, LineageClimbs, LineageEnds
<1>3. /\ line \in Seq(ConvIds) /\ n \in Nat /\ n >= 1 /\ line[n] = s
      /\ \A i \in 1 .. n - 1 : line[i] \in Live /\ line[i] = parent[line[i + 1]]
  BY <1>2 DEF Climbs
<1> HIDE DEF line
<1> DEFINE Bad == {k \in 0 .. n - 1 : line[n - k] \notin S}
<1>4. Bad = {}
  <2>1. SUFFICES ASSUME Bad # {} PROVE FALSE
    OBVIOUS
  <2>2. Bad \subseteq Nat
    BY <1>3
  <2>3. PICK k \in Bad : \A j \in Bad : k <= j
    <3> HIDE DEF Bad
    <3> QED BY <2>1, <2>2, LeastNumber
  <2>4. k \in 0 .. n - 1 /\ line[n - k] \notin S
    BY <2>3
  <2>5. k # 0
    <3>1. k = 0 => n - k = n
      BY <1>3, <2>4
    <3> QED BY <1>3, <2>4, <3>1
  <2>6. k - 1 \in 0 .. n - 1 /\ ~(k <= k - 1)
    BY <1>3, <2>4, <2>5
  <2>7. line[n - (k - 1)] \in S
    BY <2>3, <2>6
  <2>8. n - k \in 1 .. n - 1 /\ (n - k) + 1 = n - (k - 1)
    BY <1>3, <2>4, <2>5
  <2>9. line[n - k] = parent[line[n - (k - 1)]] /\ line[n - k] \in Live
    BY <1>3, <2>8
  <2>10. line[n - k] # None
    BY <2>9 DEF Live, ConvIds, None
  <2> QED BY <2>4, <2>7, <2>9, <2>10
<1>5. ASSUME NEW i \in 1 .. n PROVE line[i] \in S
  <2>1. n - i \in 0 .. n - 1 /\ n - (n - i) = i
    BY <1>3
  <2>2. n - i \notin Bad
    BY <1>4
  <2> QED BY <2>1, <2>2
<1>6. parent[line[1]] = None
  <2>1. line[1] \in S
    BY <1>3, <1>5
  <2> QED BY <1>2, <2>1
<1> QED BY <1>3, <1>5, <1>6 DEF line

LEMMA LineGrounded ==
  ASSUME Orderly, NEW chain, Grounded(chain), NEW ch \in Channels, mapped[ch] # None
  PROVE  LET line == Lineage(mapped[ch])
         IN /\ \A i \in 1 .. Len(line) : line[i] \in chain[ch]
            /\ parent[line[1]] = None /\ line[Len(line)] = mapped[ch]
            /\ \A i \in 1 .. Len(line) - 1 : parent[line[i + 1]] = line[i]
            /\ line \in Seq(ConvIds) /\ Len(line) \in Nat /\ Len(line) >= 1
<1>1. mapped[ch] \in Live
  BY DEF Orderly, MappedApart
<1>2. mapped[ch] \in chain[ch]
  BY DEF Grounded
<1>3. \A d \in chain[ch] : d \in Live /\ (parent[d] = None \/ parent[d] \in chain[ch])
  BY DEF Grounded, Carried, Exact
<1> QED BY <1>1, <1>2, <1>3, LineWithin

\* A lineage that is read is its channel's.
LEMMA LineHeld ==
  ASSUME Orderly, NEW chain, Grounded(chain), NEW s \in MappedConvs
  PROVE  Held(Lineage(s), chain)
<1>1. PICK ch \in Channels : mapped[ch] = s /\ s # None
  BY DEF MappedConvs
<1>2. /\ \A i \in 1 .. Len(Lineage(s)) : Lineage(s)[i] \in chain[ch]
      /\ parent[Lineage(s)[1]] = None /\ Lineage(s)[Len(Lineage(s))] = s
      /\ \A i \in 1 .. Len(Lineage(s)) - 1 : parent[Lineage(s)[i + 1]] = Lineage(s)[i]
  BY <1>1, LineGrounded
<1>3. \A a \in Channels : mapped[a] = s => a = ch
  BY <1>1 DEF Orderly, MappedApart
<1>4. Older(s)
  BY ServingOlder
<1> QED BY <1>2, <1>3, <1>4 DEF Held

\* What a digest retells and no erasure nulled is in a ledger below.
LEMMA RetoldBelow ==
  ASSUME Orderly, NEW chain, Grounded(chain), NEW s \in MappedConvs,
         NEW m \in digest[s], m \notin nulled
  PROVE  LET line == Lineage(s)
         IN \E i \in 1 .. Len(line) - 1 : m \in ledger[line[i]]
<1> DEFINE line == Lineage(s)
           n == Len(line)
<1>1. PICK ch \in Channels : mapped[ch] = s /\ s # None
  BY DEF MappedConvs
<1>2. /\ \A i \in 1 .. n : line[i] \in chain[ch]
      /\ parent[line[1]] = None /\ line[n] = s
      /\ \A i \in 1 .. n - 1 : parent[line[i + 1]] = line[i]
      /\ line \in Seq(ConvIds) /\ n \in Nat /\ n >= 1
  BY <1>1, LineGrounded
<1>3. \A d \in chain[ch] : Exact(d, chain[ch]) /\ d # None
  BY DEF Grounded, Carried, Live, ConvIds, None
<1> HIDE DEF line
<1> DEFINE Bad == {k \in 1 .. n : m \in digest[line[k]]}
<1>4. n \in Bad
  BY <1>2
<1>5. Bad \subseteq Nat
  BY <1>2
<1>6. PICK k \in Bad : \A j \in Bad : k <= j
  <2> HIDE DEF Bad
  <2> QED BY <1>4, <1>5, LeastNumber
<1>7. k \in 1 .. n /\ m \in digest[line[k]] /\ line[k] \in chain[ch]
  BY <1>2, <1>6
<1>8. k # 1
  <2>1. ~Alike(digest[line[k]], {})
    BY <1>7 DEF Alike
  <2>2. parent[line[k]] # None
    BY <1>3, <1>7, <2>1 DEF Exact
  <2> QED BY <1>2, <2>2
<1>9. k - 1 \in 1 .. n - 1 /\ k - 1 \in 1 .. n /\ (k - 1) + 1 = k /\ ~(k <= k - 1)
  BY <1>2, <1>7, <1>8
<1>10. parent[line[k]] = line[k - 1] /\ line[k - 1] # None
  BY <1>2, <1>3, <1>9
<1>11. Alike(digest[line[k]],
             (ledger[line[k - 1]] \ ledger[line[k]]) \cup digest[line[k - 1]])
  BY <1>3, <1>7, <1>10 DEF Exact
<1>12. m \notin digest[line[k - 1]]
  BY <1>6, <1>9
<1>13. m \in ledger[line[k - 1]]
  BY <1>7, <1>11, <1>12 DEF Alike
<1> QED BY <1>9, <1>13 DEF line

LEMMA FrontIs ==
  ASSUME NEW line \in Seq(ConvIds), Len(line) >= 1
  PROVE  \A c : c \in Range(Front(line)) <=> \E i \in 1 .. Len(line) - 1 : c = line[i]
<1>1. Len(line) \in Nat
  OBVIOUS
<1>2. Front(line) = [i \in 1 .. Len(line) - 1 |-> line[i]]
  BY <1>1 DEF Front
<1> QED BY <1>2 DEF Range

LEMMA StripFaithful ==
  ASSUME Orderly, NEW chain \in [Channels -> SUBSET ConvIds], FaithfulAt(chain),
         NEW w \in Workers, NEW ch \in Channels, NEW m \in Msgs, StripFromView(w, ch, m)
  PROVE  FaithfulAt(chain)'
<1> DEFINE below == UNION {ledger[c] : c \in Range(Front(Lineage(mapped[ch])))}
<1>0. PICK s, line : s = mapped[ch] /\ line = Lineage(s)
  OBVIOUS
<1>1. /\ s \in MappedConvs /\ s \in ConvIds /\ op[w].do = "idle" /\ WorkingOf(op[w]) = {}
      /\ m \in ledger[s] \cup below
      /\ WorkingOf(op'[w]) = {}
      /\ \/ m \notin below /\ op'[w].do = "strip" /\ LinesOf(op'[w]) = {}
         \/ /\ m \in below /\ op'[w].do = "scrub" /\ Len(line) >= 2 /\ LinesOf(op'[w]) = {line}
      /\ op'[w].line = line /\ op'[w].strip = {m} /\ op'[w].plans = {}
      /\ op'[w].made = <<>> /\ op'[w].temp = None /\ op'[w].words = {}
      /\ Others(w)
  BY <1>0, StripDoes
<1>2. /\ UNCHANGED storeVars /\ UNCHANGED <<ledger, digest>>
      /\ recorded' = recorded /\ nulled' = nulled /\ mapped' = mapped
  BY DEF StripFromView, content
<1>3. Known /\ Grounded(chain)
  BY DEF FaithfulAt
<1>4. PICK none : none = {}
  OBVIOUS
<1>5. StoreMoves(none, none) /\ Kept(none, none)
  BY <1>2, <1>4, RestedIs DEF DeletedAs
<1>6. Turn(chain, none, none)
  BY <1>1, <1>2, <1>3, <1>4, <1>5, WorkerTurns
<1>7. s \in Live /\ Older(s)
  BY <1>1, MappedIs, ServingOlder
<1>8. Older(s)'
  BY <1>1, <1>6, <1>7, OlderStays
<1>9. /\ parent[line[1]] = None /\ line[Len(line)] = s
      /\ \A i \in 1 .. Len(line) : line[i] \in chain[ch]
      /\ \A i \in 1 .. Len(line) - 1 : parent[line[i + 1]] = line[i]
      /\ line \in Seq(ConvIds) /\ Len(line) \in Nat /\ Len(line) >= 1
  <2>1. s # None
    BY <1>1 DEF MappedConvs
  <2> QED BY <1>0, <1>3, <2>1, LineGrounded
<1>10. \A i \in 1 .. Len(line) - 1 : ledger[line[i]] \subseteq below
  <2> SUFFICES ASSUME NEW i \in 1 .. Len(line) - 1, NEW x \in ledger[line[i]]
               PROVE  x \in below
    OBVIOUS
  <2>1. line[i] \in Range(Front(line))
    BY <1>9, FrontIs
  <2> QED BY <1>0, <2>1
<1>11. m \in 1 .. recorded
  <2>1. CASE m \in ledger[s]
    BY <1>1, <1>3, <2>1 DEF Known
  <2>2. CASE m \in below
    <3>1. PICK c \in Range(Front(line)) : m \in ledger[c]
      BY <1>0, <2>2
    <3>2. c \in ConvIds
      <4>1. PICK i \in 1 .. Len(line) - 1 : c = line[i]
        BY <1>9, <3>1, FrontIs
      <4>2. i \in 1 .. Len(line)
        BY <1>9
      <4> QED BY <1>9, <4>1, <4>2
    <3> QED BY <1>3, <3>1, <3>2 DEF Known
  <2> QED BY <1>1, <2>1, <2>2
<1> HIDE DEF below
<1>12. CASE m \notin below
  <2>1. op'[w].do = "strip" /\ LinesOf(op'[w]) = {}
    BY <1>1, <1>12
  <2>2. m \in nulled \/ m \notin digest[s]
    BY <1>0, <1>1, <1>3, <1>10, <1>12, RetoldBelow
  <2>3. ASSUME parent[s] # None PROVE m \notin ledger[parent[s]]
    <3>1. Len(line) # 1
      BY <1>9, <2>3
    <3>2. Len(line) - 1 \in 1 .. Len(line) - 1 /\ (Len(line) - 1) + 1 = Len(line)
      <4>1. PICK n : n = Len(line) /\ n \in Nat /\ n >= 1 /\ n # 1
        BY <1>9, <3>1
      <4>2. n - 1 \in 1 .. n - 1 /\ (n - 1) + 1 = n
        BY <4>1
      <4> QED BY <4>1, <4>2
    <3>3. parent[s] = line[Len(line) - 1]
      BY <1>9, <3>2
    <3> QED BY <1>10, <1>12, <3>2, <3>3
  <2>4. Serving(w)' = s
    BY <1>1, <1>9 DEF Serving
  <2>5. StripRead(w)'
    BY <1>1, <1>2, <1>7, <1>8, <1>11, <2>2, <2>3, <2>4 DEF StripRead, storeVars
  <2>6. Fits(w, chain)'
    BY <1>1, <1>2, <1>11, <2>1, <2>5 DEF Fits, SourceRead, Rebuilding, Strips
  <2> QED BY <1>1, <1>2, <1>4, <1>6, <2>6, WorkerAside
<1>13. CASE m \in below
  <2>1. op'[w].do = "scrub" /\ LinesOf(op'[w]) = {line} /\ Len(line) >= 2
    BY <1>1, <1>13
  <2>2. Held(line, chain) /\ LineSound(line)
    BY <1>0, <1>1, <1>3, <2>1, LineHeld, ReadLineSound
  <2>3. Moved(chain, chain)
    BY DEF Moved
  <2>4. Held(line, chain)'
    BY <1>3, <1>6, <2>2, <2>3, HeldStays
  <2>5. Fits(w, chain)'
    BY <1>1, <1>2, <1>11, <2>1, <2>4 DEF Fits, SourceRead, StripRead, Rebuilding, Strips
  <2> QED BY <1>1, <1>2, <1>4, <1>6, <2>5, WorkerAside
<1> QED BY <1>12, <1>13

LEMMA EraseFaithful ==
  ASSUME Orderly, Direct = {}, NEW chain \in [Channels -> SUBSET ConvIds], FaithfulAt(chain),
         NEW w \in Workers, NEW p \in People, Erase(w, p)
  PROVE  FaithfulAt(chain)'
<1>1. /\ op[w].do = "idle" /\ DeletedAs(DirectConversationsOf(p))
      /\ op'[w].plans = LineagesOf(p) /\ op'[w].do \in {"idle", "erase"}
      /\ op'[w].strip = {} /\ op'[w].words = {} /\ WorkingOf(op'[w]) = {}
      /\ LinesOf(op'[w]) = {plan.line : plan \in LineagesOf(p)}
      /\ Others(w)
  BY EraseDoes
<1>2. DirectConversationsOf(p) = {}
  BY DEF DirectConversationsOf
<1>3. PICK none : none = {}
  OBVIOUS
<1>4. StoreMoves(none, none) /\ Kept(none, none)
  BY <1>1, <1>2, <1>3 DEF DeletedAs
<1>5. nulled' = nulled \cup Authored(p) /\ recorded' = recorded /\ mapped' = mapped
  <2>1. mapped' = [ch \in Channels |-> mapped[ch]]
    BY <1>2 DEF Erase
  <2> QED BY <2>1 DEF Erase, Orderly, Typed, Contents
<1>6. Known /\ Grounded(chain)
  BY DEF FaithfulAt
<1>7. Turn(chain, none, none)
  BY <1>1, <1>3, <1>4, <1>5, <1>6, WorkerTurns
<1>8. ASSUME NEW plan \in LineagesOf(p) PROVE Held(plan.line, chain)' /\ plan.strip \subseteq nulled'
  <2>1. PICK c \in MappedConvs : plan.line = Lineage(c) /\ Len(plan.line) >= 2
    BY LineagesTyped DEF Orderly
  <2>2. Held(plan.line, chain) /\ LineSound(plan.line)
    BY <1>6, <2>1, LineHeld, ReadLineSound
  <2>3. Moved(chain, chain)
    BY DEF Moved
  <2>4. Held(plan.line, chain)'
    BY <1>6, <1>7, <2>2, <2>3, HeldStays
  <2>5. plan.strip = Authored(p)
    BY DEF LineagesOf
  <2> QED BY <1>5, <2>1, <2>4, <2>5
<1>9. Fits(w, chain)'
  <2>1. ASSUME NEW line \in LinesOf(op'[w]) PROVE Held(line, chain)'
    BY <1>1, <1>8, <2>1
  <2>2. Strips(w)'
    BY <1>1, <1>8 DEF Strips
  <2> QED BY <1>1, <2>1, <2>2 DEF Fits, SourceRead, StripRead, Rebuilding
<1> QED BY <1>1, <1>3, <1>5, <1>7, <1>9, WorkerAside

LEMMA NextLineFaithful ==
  ASSUME Orderly, NEW chain \in [Channels -> SUBSET ConvIds], FaithfulAt(chain),
         NEW w \in Workers, EraseScrubsNext(w)
  PROVE  FaithfulAt(chain)'
<1>1. /\ op[w].do = "erase" /\ WorkingOf(op[w]) = {} /\ WorkingOf(op'[w]) = {}
      /\ op'[w].do = "scrub" /\ LinesOf(op'[w]) \subseteq LinesOf(op[w]) /\ Others(w)
  BY ScrubsNextDoes
<1>2. PICK plan \in op[w].plans :
         /\ op'[w].line = plan.line /\ op'[w].strip = plan.strip
         /\ op'[w].plans = op[w].plans \ {plan}
  BY ScrubsNextDoes
<1>3. /\ UNCHANGED storeVars /\ UNCHANGED <<ledger, digest>>
      /\ recorded' = recorded /\ nulled' = nulled /\ mapped' = mapped
  BY DEF EraseScrubsNext, content
<1>4. Known /\ Grounded(chain) /\ Fits(w, chain)
  BY DEF FaithfulAt
<1>5. PICK none : none = {}
  OBVIOUS
<1>6. StoreMoves(none, none) /\ Kept(none, none)
  BY <1>3, <1>5, RestedIs DEF DeletedAs
<1>7. Turn(chain, none, none)
  BY <1>1, <1>3, <1>4, <1>5, <1>6, WorkerTurns
<1>8. op'[w].words = op[w].words
  BY DEF EraseScrubsNext, Orderly, Typed, Operations, OpRecord
<1>9. Fits(w, chain)'
  <2>1. ASSUME NEW line \in LinesOf(op'[w]) PROVE Held(line, chain)'
    <3>1. LineSound(line) /\ Held(line, chain)
      BY <1>1, <1>4, <2>1 DEF Fits, Orderly, LinesSound
    <3>2. Moved(chain, chain)
      BY DEF Moved
    <3> QED BY <1>4, <1>7, <3>1, <3>2, HeldStays
  <2>2. Strips(w)'
    BY <1>1, <1>2, <1>3, <1>4 DEF Fits, Strips
  <2> QED BY <1>1, <2>1, <2>2 DEF Fits, SourceRead, StripRead, Rebuilding
<1> QED BY <1>1, <1>3, <1>4, <1>5, <1>7, <1>8, <1>9, WorkerAside DEF Known

-----------------------------------------------------------------------------
(* A scrub under way.                                                       *)

\* The line a scrub read, while its channel has not moved.
LEMMA LineStands ==
  ASSUME Orderly, NEW chain \in [Channels -> SUBSET ConvIds], Grounded(chain),
         NEW w \in Workers, op[w].do \in {"scrub", "fork", "digest"},
         Serving(w) \in MappedConvs, Held(op[w].line, chain)
  PROVE  \E ch \in Channels :
            LET line == op[w].line
            IN /\ mapped[ch] = Serving(w)
               /\ \A i \in 1 .. Len(line) : line[i] \in chain[ch] /\ line[i] \in ConvIds
               /\ \A i \in 1 .. Len(line) : line[i] \in Live /\ Apart(line[i])
               /\ parent[line[1]] = None /\ Alike(digest[line[1]], {})
               /\ \A i \in 1 .. Len(line) - 1 :
                     /\ parent[line[i + 1]] = line[i]
                     /\ Alike(digest[line[i + 1]],
                              (ledger[line[i]] \ ledger[line[i + 1]]) \cup digest[line[i]])
<1> DEFINE line == op[w].line
           n == Len(line)
<1>1. PICK ch \in Channels : mapped[ch] = Serving(w)
  BY DEF MappedConvs
<1>2. /\ \A i \in 1 .. n : line[i] \in chain[ch]
      /\ parent[line[1]] = None
      /\ \A i \in 1 .. n - 1 : parent[line[i + 1]] = line[i]
  BY <1>1 DEF Held, Serving
<1>3. line \in Seq(ConvIds) /\ n \in Nat /\ n >= 2
  BY ScrubReads DEF LineSound
<1>4. \A i \in 1 .. n : line[i] \in ConvIds /\ line[i] # None
  <2>1. \A i \in 1 .. n : line[i] \in ConvIds
    BY <1>3
  <2> QED BY <2>1 DEF ConvIds, None
<1>5. \A i \in 1 .. n : line[i] \in Live /\ Apart(line[i]) /\ Exact(line[i], chain[ch])
  BY <1>2 DEF Grounded, Carried
<1> HIDE DEF line
<1>6. Alike(digest[line[1]], {})
  <2>1. 1 \in 1 .. n /\ None \notin chain[ch]
    BY <1>3 DEF ConvIds, None
  <2> QED BY <1>2, <1>5, <2>1 DEF Exact
<1>7. ASSUME NEW i \in 1 .. n - 1
      PROVE  Alike(digest[line[i + 1]],
                   (ledger[line[i]] \ ledger[line[i + 1]]) \cup digest[line[i]])
  <2>1. i \in 1 .. n /\ i + 1 \in 1 .. n
    BY <1>3
  <2>2. parent[line[i + 1]] = line[i] /\ line[i] # None /\ Exact(line[i + 1], chain[ch])
    BY <1>2, <1>4, <1>5, <2>1
  <2> QED BY <2>2 DEF Exact
<1> QED BY <1>1, <1>2, <1>4, <1>5, <1>6, <1>7 DEF line

\* A worker goes on with the line it read.
LEMMA LineKept ==
  ASSUME Orderly, NEW chain \in [Channels -> SUBSET ConvIds], Grounded(chain),
         NEW created, NEW gone, Turn(chain, created, gone),
         NEW w \in Workers, Fits(w, chain), LinesOf(op'[w]) = LinesOf(op[w]),
         op'[w].do \in {"fork", "digest"}, op[w].do \notin {"idle"},
         op'[w].strip = op[w].strip, op'[w].plans = op[w].plans, recorded' = recorded,
         Rebuilding(w)'
  PROVE  Fits(w, chain)'
<1>1. ASSUME NEW line \in LinesOf(op'[w]) PROVE Held(line, chain)'
  <2>1. LineSound(line) /\ Held(line, chain)
    BY <1>1 DEF Fits, Orderly, LinesSound
  <2>2. Moved(chain, chain)
    BY DEF Moved
  <2> QED BY <2>1, <2>2, HeldStays
<1>2. Strips(w)'
  BY DEF Fits, Strips, Turn
<1> QED BY <1>1, <1>2 DEF Fits, SourceRead, StripRead

LEMMA ScrubBeginsFaithful ==
  ASSUME Orderly, NEW chain \in [Channels -> SUBSET ConvIds], FaithfulAt(chain),
         NEW w \in Workers, ScrubBegins(w)
  PROVE  FaithfulAt(chain)'
<1>1. /\ op[w].do = "scrub" /\ WorkingOf(op[w]) = {} /\ op[w].line[1] \in ConvIds
      /\ Serving(w) \in MappedConvs
      /\ op'[w].do = "fork" /\ op'[w].temp = None
      /\ op'[w].line = op[w].line /\ op'[w].strip = op[w].strip
      /\ op'[w].plans = op[w].plans /\ op'[w].words = op[w].words
      /\ LinesOf(op'[w]) = LinesOf(op[w]) /\ Others(w)
  BY ScrubBeginsDoes
<1>2. PICK c \in ConvIds : /\ OpenedAs(c, Clone(op[w].line[1], op[w].strip), {})
                           /\ op'[w].made = <<c>> /\ WorkingOf(op'[w]) = {c}
  BY ScrubBeginsDoes
<1>3. recorded' = recorded /\ nulled' = nulled /\ mapped' = mapped
  BY DEF ScrubBegins
<1>4. PICK r : r = op[w]
  OBVIOUS
<1> DEFINE b == r.line[1]
<1>5. PICK created, gone : created = {c} /\ gone = {}
  OBVIOUS
<1>6. /\ StoreMoves(created, gone) /\ Kept(created, gone) /\ c \notin Live
      /\ ledger'[c] = ledger[b] \ r.strip /\ digest'[c] = digest[b] /\ parent'[c] = parent[b]
  BY <1>2, <1>4, <1>5 DEF OpenedAs, Clone
<1>7. Known /\ Grounded(chain) /\ Fits(w, chain)
  BY DEF FaithfulAt
<1>8. Turn(chain, created, gone)
  BY <1>1, <1>2, <1>3, <1>5, <1>6, <1>7, WorkerTurns
<1>9. Held(r.line, chain)
  <2>1. r.line \in LinesOf(op[w])
    BY <1>1, <1>4, ScrubReads
  <2> QED BY <1>7, <2>1 DEF Fits
<1>10. /\ parent[b] = None /\ Alike(digest[b], {}) /\ b \in Live /\ b \in ConvIds
  <2>1. Len(r.line) >= 2 /\ Len(r.line) \in Nat
    BY <1>1, <1>4, ScrubReads DEF LineSound
  <2>2. 1 \in 1 .. Len(r.line)
    BY <2>1
  <2> QED BY <1>1, <1>4, <1>7, <1>9, <2>2, LineStands
<1>11. ledger'[b] = ledger[b] /\ digest'[b] = digest[b]
  BY <1>5, <1>6, <1>10 DEF Kept
<1>12. Alike(digest[c], digest[b] \ r.strip)'
  BY <1>3, <1>6, <1>10, <1>11 DEF Alike
<1>13. Rebuilding(w)'
  <2>1. op'[w].made = <<c>> /\ <<c>>[1] = c /\ Len(<<c>>) = 1 /\ op'[w].line[1] = b
        /\ op'[w].strip = r.strip
    BY <1>1, <1>2, <1>4
  <2>2. \A i \in 1 .. 1 : i = 1
    OBVIOUS
  <2>3. \A i \in 1 .. 1 - 1 : FALSE
    OBVIOUS
  <2>4. Copied(op[w])'
    BY <1>6, <1>10, <1>11, <1>12, <2>1, <2>2, <2>3 DEF Copied
  <2> QED BY <1>1, <2>4 DEF Rebuilding
<1>14. Fits(w, chain)'
  BY <1>1, <1>3, <1>7, <1>8, <1>13, LineKept
<1>15. \A x \in created : ledger'[x] \subseteq 1 .. recorded /\ digest'[x] \subseteq 1 .. recorded
  BY <1>5, <1>6, <1>7, <1>10 DEF Known
<1>16. op'[w].words \subseteq 1 .. recorded /\ gone \subseteq WorkingOf(op[w])
  BY <1>1, <1>5, <1>7 DEF Known
<1> QED BY <1>1, <1>3, <1>8, <1>14, <1>15, <1>16, WorkerAside

\* What a scrub under way has, its channel where it was.
View(r) ==
    LET line == r.line
        made == r.made
        k == Len(made)
    IN /\ k \in 1 .. Len(line) - 1 /\ Len(line) \in Nat
       /\ \A i \in 1 .. Len(line) : line[i] \in Live /\ line[i] \in ConvIds /\ Apart(line[i])
       /\ \A i \in 1 .. k : made[i] \in Live /\ made[i] \in ConvIds /\ made[i] \in Range(made)
       /\ Copied(r)
       /\ parent[line[1]] = None /\ Alike(digest[line[1]], {})
       /\ \A i \in 1 .. Len(line) - 1 :
             Alike(digest[line[i + 1]],
                   (ledger[line[i]] \ ledger[line[i + 1]]) \cup digest[line[i]])
       /\ r.temp # None =>
             Alike(ledger[r.temp] \cup digest[r.temp], digest[line[k + 1]] \ r.strip)
       /\ r.do = "digest" => Alike(r.words, digest[line[k + 1]] \ r.strip)

LEMMA ScrubView ==
  ASSUME Orderly, NEW chain \in [Channels -> SUBSET ConvIds], Grounded(chain),
         NEW w \in Workers, op[w].do \in {"fork", "digest"}, Fits(w, chain),
         Serving(w) \in MappedConvs, NEW r, r = op[w]
  PROVE  View(r)
<1> DEFINE line == r.line
           made == r.made
           k == Len(made)
<1>1. /\ made \in Seq(ConvIds) /\ line \in Seq(ConvIds)
      /\ k \in Nat /\ Len(line) \in Nat /\ k >= 1 /\ k < Len(line)
  BY Reads DEF Orderly, Typed, OpRecord, Shaped
<1>2. Held(op[w].line, chain)
  BY ScrubReads DEF Fits
<1>3. /\ \A i \in 1 .. Len(line) : line[i] \in Live /\ line[i] \in ConvIds /\ Apart(line[i])
      /\ parent[line[1]] = None /\ Alike(digest[line[1]], {})
      /\ \A i \in 1 .. Len(line) - 1 :
            Alike(digest[line[i + 1]],
                  (ledger[line[i]] \ ledger[line[i + 1]]) \cup digest[line[i]])
  BY <1>2, LineStands
<1>4. \A i \in 1 .. k : made[i] \in Live /\ made[i] \in ConvIds /\ made[i] \in Range(made)
  <2>1. \A i \in 1 .. k : made[i] \in Range(made)
    BY <1>1 DEF Range
  <2> QED BY <2>1 DEF WorkingOf, Orderly, WorkingApart, Live
<1>5. /\ Copied(r)
      /\ r.temp # None => Alike(ledger[r.temp] \cup digest[r.temp], digest[line[k + 1]] \ r.strip)
      /\ r.do = "digest" => Alike(r.words, digest[line[k + 1]] \ r.strip)
  BY DEF Fits, Rebuilding, NextHop
<1>6. k \in 1 .. Len(line) - 1
  BY <1>1
<1> QED BY <1>1, <1>3, <1>4, <1>5, <1>6 DEF View

\* Beside what is created, a scrub's clones and the line it read are what they were.
LEMMA ViewStays ==
  ASSUME Orderly, NEW w \in Workers, NEW r, r = op[w], View(r),
         NEW created, NEW gone, StoreMoves(created, gone), Kept(created, gone),
         gone \subseteq WorkingOf(op[w]), \A d \in gone : d \notin Range(r.made), nulled' = nulled
  PROVE  LET h == r.line[Len(r.made) + 1]
         IN Copied(r)' /\ digest'[h] = digest[h] /\ ledger'[h] = ledger[h]
<1> DEFINE k == Len(r.made)
           h == r.line[k + 1]
<1>1. /\ k \in 1 .. Len(r.line) - 1 /\ Len(r.line) \in Nat
      /\ \A i \in 1 .. Len(r.line) :
            r.line[i] \in Live /\ r.line[i] \in ConvIds /\ Apart(r.line[i])
      /\ \A i \in 1 .. k :
            r.made[i] \in Live /\ r.made[i] \in ConvIds /\ r.made[i] \in Range(r.made)
      /\ parent[r.made[1]] = None
      /\ \A i \in 1 .. k - 1 : parent[r.made[i + 1]] = r.made[i]
      /\ \A i \in 1 .. k : /\ ledger[r.made[i]] = ledger[r.line[i]] \ r.strip
                           /\ Alike(digest[r.made[i]], digest[r.line[i]] \ r.strip)
  BY DEF View, Copied
<1>2. \A d \in ConvIds : d \in Live /\ d \notin gone =>
          ledger'[d] = ledger[d] /\ digest'[d] = digest[d] /\ parent'[d] = parent[d]
  BY CreatedIsNew DEF Kept
<1>3. \A i \in 1 .. k :
         /\ ledger'[r.made[i]] = ledger[r.made[i]] /\ digest'[r.made[i]] = digest[r.made[i]]
         /\ parent'[r.made[i]] = parent[r.made[i]]
  BY <1>1, <1>2
<1>4. \A i \in 1 .. Len(r.line) :
         /\ ledger'[r.line[i]] = ledger[r.line[i]] /\ digest'[r.line[i]] = digest[r.line[i]]
  <2>1. \A i \in 1 .. Len(r.line) : r.line[i] \notin gone
    BY <1>1 DEF Apart
  <2> QED BY <1>1, <1>2, <2>1
<1>5. /\ \A i \in 1 .. k : i \in 1 .. Len(r.line)
      /\ k + 1 \in 1 .. Len(r.line)
      /\ 1 \in 1 .. k /\ \A i \in 1 .. k - 1 : i + 1 \in 1 .. k
  BY <1>1
<1>6. \A i \in 1 .. k : /\ ledger'[r.made[i]] = ledger'[r.line[i]] \ r.strip
                        /\ Alike(digest[r.made[i]], digest[r.line[i]] \ r.strip)'
  <2> SUFFICES ASSUME NEW i \in 1 .. k
               PROVE  /\ ledger'[r.made[i]] = ledger'[r.line[i]] \ r.strip
                      /\ Alike(digest[r.made[i]], digest[r.line[i]] \ r.strip)'
    OBVIOUS
  <2> QED BY <1>1, <1>3, <1>4, <1>5 DEF Alike
<1>7. parent'[r.made[1]] = None /\ \A i \in 1 .. k - 1 : parent'[r.made[i + 1]] = r.made[i]
  BY <1>1, <1>3, <1>5
<1>8. Copied(r)'
  BY <1>6, <1>7 DEF Copied
<1> QED BY <1>4, <1>5, <1>8

LEMMA ForkFaithful ==
  ASSUME Orderly, NEW chain \in [Channels -> SUBSET ConvIds], FaithfulAt(chain),
         NEW w \in Workers, RegenerateFork(w)
  PROVE  FaithfulAt(chain)'
<1>0. PICK r : r = op[w]
  OBVIOUS
<1> DEFINE k == Len(r.made)
           a == r.made[k]
           h == r.line[k + 1]
<1>1. /\ r.do = "fork" /\ r.temp = None /\ WorkingOf(op[w]) = Range(r.made)
      /\ op'[w].do = "fork" /\ Same(op'[w], r) /\ op'[w].words = r.words
      /\ LinesOf(op'[w]) = LinesOf(op[w]) /\ Others(w)
  BY <1>0, ForkDoes
<1>2. PICK c \in ConvIds :
         /\ OpenedAs(c, Span(a, h), {})
         /\ op'[w].temp = c /\ WorkingOf(op'[w]) = Range(r.made) \cup {c}
  BY <1>0, ForkDoes DEF Made, NextHop
<1>3. recorded' = recorded /\ nulled' = nulled /\ mapped' = mapped
  BY DEF RegenerateFork
<1>4. PICK created, gone : created = {c} /\ gone = {}
  OBVIOUS
<1>5. /\ StoreMoves(created, gone) /\ Kept(created, gone) /\ c \notin Live
      /\ ledger'[c] = ledger[a] \ ledger[h] /\ digest'[c] = digest[a]
  BY <1>2, <1>4 DEF OpenedAs, Span
<1>6. Known /\ Grounded(chain) /\ Fits(w, chain)
  BY DEF FaithfulAt
<1>7. Turn(chain, created, gone)
  BY <1>0, <1>1, <1>2, <1>3, <1>4, <1>5, <1>6, WorkerTurns
<1>8. a \in ConvIds
  BY <1>0, <1>1, MadeIs DEF Made
<1>9. Rebuilding(w)'
  <2> SUFFICES ASSUME Serving(w)' \in MappedConvs' PROVE Rebuilding(w)'
    BY DEF Rebuilding
  <2>1. op'[w].line = r.line /\ op'[w].made = r.made /\ op'[w].strip = r.strip
    BY <1>1 DEF Same
  <2>2. Serving(w) \in MappedConvs /\ op[w].do \in {"fork", "digest"}
    BY <1>0, <1>1, <1>3, <2>1 DEF Serving, MappedConvs
  <2>3. View(r)
    BY <1>0, <1>6, <2>2, ScrubView
  <2>4. Copied(r)' /\ digest'[h] = digest[h]
    <3>1. gone \subseteq WorkingOf(op[w]) /\ \A d \in gone : d \notin Range(r.made)
      BY <1>4
    <3> QED BY <1>0, <1>3, <1>5, <2>3, <3>1, ViewStays
  <2>5. Alike(ledger[c] \cup digest[c], digest[h] \ r.strip)'
    <3>1. Alike(digest[h], (ledger[r.line[k]] \ ledger[h]) \cup digest[r.line[k]])
      BY <2>3 DEF View
    <3>2. ledger[a] = ledger[r.line[k]] \ r.strip /\ Alike(digest[a], digest[r.line[k]] \ r.strip)
      <4>1. k \in 1 .. k
        BY <2>3 DEF View
      <4> QED BY <2>3, <4>1 DEF View, Copied
    <3> HIDE DEF a, h
    <3> QED BY <1>3, <1>5, <2>4, <3>1, <3>2 DEF Alike
  <2>6. op'[w].temp = c
    BY <1>2
  <2>7. Copied(op[w])'
    BY <2>1, <2>4 DEF Copied
  <2> QED BY <1>1, <2>1, <2>5, <2>6, <2>7 DEF Rebuilding, NextHop
<1>10. Fits(w, chain)'
  <2>1. op'[w].strip = op[w].strip /\ op'[w].plans = op[w].plans
    BY <1>0, <1>1 DEF Same
  <2> QED BY <1>0, <1>1, <1>3, <1>6, <1>7, <1>9, <2>1, LineKept
<1>11. \A x \in created : ledger'[x] \subseteq 1 .. recorded /\ digest'[x] \subseteq 1 .. recorded
  BY <1>4, <1>5, <1>6, <1>8 DEF Known
<1>12. op'[w].words \subseteq 1 .. recorded /\ gone \subseteq WorkingOf(op[w])
  BY <1>0, <1>1, <1>4, <1>6 DEF Known
<1> QED BY <1>1, <1>3, <1>7, <1>10, <1>11, <1>12, WorkerAside

LEMMA ReadFaithful ==
  ASSUME Orderly, NEW chain \in [Channels -> SUBSET ConvIds], FaithfulAt(chain),
         NEW w \in Workers, RegenerateRead(w)
  PROVE  FaithfulAt(chain)'
<1>0. PICK r : r = op[w]
  OBVIOUS
<1> DEFINE k == Len(r.made)
           t == r.temp
           h == r.line[k + 1]
<1>1. /\ r.do = "fork" /\ t \in ConvIds /\ t \notin Range(r.made) /\ DeletedAs({t})
      /\ WorkingOf(op[w]) = Range(r.made) \cup {t} /\ WorkingOf(op'[w]) = Range(r.made)
      /\ op'[w].do = "digest" /\ op'[w].temp = None /\ Same(op'[w], r)
      /\ op'[w].words = Readable(ledger[t], digest[t])
      /\ LinesOf(op'[w]) = LinesOf(op[w]) /\ Others(w)
  BY <1>0, ReadDoes
<1>2. recorded' = recorded /\ nulled' = nulled /\ mapped' = mapped
  BY DEF RegenerateRead
<1>3. PICK created, gone : created = {} /\ gone = {t}
  OBVIOUS
<1>4. StoreMoves(created, gone) /\ Kept(created, gone)
  BY <1>1, <1>3 DEF DeletedAs
<1>5. Known /\ Grounded(chain) /\ Fits(w, chain)
  BY DEF FaithfulAt
<1>6. /\ WorkingOf(op'[w]) \subseteq created \cup WorkingOf(op[w]) /\ gone \subseteq WorkingOf(op[w])
      /\ \A d \in gone : d \notin Range(r.made)
  BY <1>1, <1>3
<1>7. Turn(chain, created, gone)
  BY <1>1, <1>2, <1>4, <1>5, <1>6, WorkerTurns
<1>8. PICK words : words = op'[w].words
  OBVIOUS
<1>9. Rebuilding(w)'
  <2> SUFFICES ASSUME Serving(w)' \in MappedConvs' PROVE Rebuilding(w)'
    BY DEF Rebuilding
  <2>1. op'[w].line = r.line /\ op'[w].made = r.made /\ op'[w].strip = r.strip
    BY <1>1 DEF Same
  <2>2. Serving(w) \in MappedConvs /\ op[w].do \in {"fork", "digest"}
    BY <1>0, <1>1, <1>2, <2>1 DEF Serving, MappedConvs
  <2>3. View(r)
    BY <1>0, <1>5, <2>2, ScrubView
  <2>4. Copied(r)' /\ digest'[h] = digest[h]
    BY <1>0, <1>2, <1>4, <1>6, <2>3, ViewStays
  <2>5. Alike(words, digest[h] \ r.strip)'
    <3>1. t # None
      BY <1>1 DEF ConvIds, None
    <3>2. Alike(ledger[t] \cup digest[t], digest[h] \ r.strip)
      BY <2>3, <3>1 DEF View
    <3> HIDE DEF h
    <3> QED BY <1>1, <1>2, <1>8, <2>4, <3>2 DEF Alike, Readable
  <2>6. Copied(op[w])'
    BY <2>1, <2>4 DEF Copied
  <2> QED BY <1>1, <1>8, <2>1, <2>5, <2>6 DEF Rebuilding, NextHop
<1>10. Fits(w, chain)'
  <2>1. op'[w].strip = op[w].strip /\ op'[w].plans = op[w].plans
    BY <1>0, <1>1 DEF Same
  <2> QED BY <1>0, <1>1, <1>2, <1>5, <1>7, <1>9, <2>1, LineKept
<1>11. op'[w].words \subseteq 1 .. recorded
  BY <1>1, <1>5 DEF Known, Readable
<1> QED BY <1>1, <1>2, <1>3, <1>6, <1>7, <1>10, <1>11, WorkerAside

LEMMA HopFaithful ==
  ASSUME Orderly, NEW chain \in [Channels -> SUBSET ConvIds], FaithfulAt(chain),
         NEW w \in Workers, RebuildHop(w)
  PROVE  FaithfulAt(chain)'
<1>0. PICK r : r = op[w]
  OBVIOUS
<1> DEFINE k == Len(r.made)
           h == r.line[k + 1]
<1>1. /\ r.do = "digest" /\ h \in ConvIds /\ WorkingOf(op[w]) = Range(r.made)
      /\ op'[w].do = "fork" /\ op'[w].temp = None /\ op'[w].words = {}
      /\ op'[w].line = r.line /\ op'[w].strip = r.strip /\ op'[w].plans = r.plans
      /\ LinesOf(op'[w]) = LinesOf(op[w]) /\ Others(w)
  BY <1>0, HopDoes DEF NextHop
<1>2. PICK c \in ConvIds :
         /\ OpenedAs(c, Rebuilt(w, h), {}) /\ op'[w].made = Append(r.made, c)
         /\ WorkingOf(op'[w]) = Range(r.made) \cup {c}
  BY <1>0, HopDoes DEF NextHop
<1>3. recorded' = recorded /\ nulled' = nulled /\ mapped' = mapped
  BY DEF RebuildHop
<1>4. PICK created, gone : created = {c} /\ gone = {}
  OBVIOUS
<1>5. /\ StoreMoves(created, gone) /\ Kept(created, gone) /\ c \notin Live
      /\ ledger'[c] = ledger[h] \ r.strip /\ digest'[c] = r.words /\ parent'[c] = r.made[k]
  BY <1>0, <1>2, <1>4 DEF OpenedAs, Rebuilt, Made
<1>6. Known /\ Grounded(chain) /\ Fits(w, chain)
  BY DEF FaithfulAt
<1>7. /\ WorkingOf(op'[w]) \subseteq created \cup WorkingOf(op[w]) /\ gone \subseteq WorkingOf(op[w])
      /\ \A d \in gone : d \notin Range(r.made)
  BY <1>1, <1>2, <1>4
<1>8. Turn(chain, created, gone)
  BY <1>1, <1>3, <1>5, <1>6, <1>7, WorkerTurns
<1>9. Rebuilding(w)'
  <2> SUFFICES ASSUME Serving(w)' \in MappedConvs' PROVE Rebuilding(w)'
    BY DEF Rebuilding
  <2>1. PICK made : made = op'[w].made
    OBVIOUS
  <2>2. r.made \in Seq(ConvIds) /\ k \in Nat /\ k >= 1
    BY <1>0, <1>1, Reads DEF Orderly, Typed, OpRecord, Shaped
  <2>3. /\ Len(made) = k + 1 /\ made[k + 1] = c
        /\ \A i \in 1 .. k : made[i] = r.made[i]
    BY <1>2, <2>1, <2>2
  <2>4. Serving(w) \in MappedConvs /\ op[w].do \in {"fork", "digest"}
    BY <1>0, <1>1, <1>3 DEF Serving, MappedConvs
  <2>5. View(r)
    BY <1>0, <1>6, <2>4, ScrubView
  <2>6. Copied(r)' /\ digest'[h] = digest[h] /\ ledger'[h] = ledger[h]
    BY <1>0, <1>3, <1>5, <1>7, <2>5, ViewStays
  <2>7. Alike(digest[c], digest[h] \ r.strip)' /\ ledger'[c] = ledger'[h] \ r.strip
    <3>1. Alike(r.words, digest[h] \ r.strip)
      BY <1>1, <2>5 DEF View
    <3> HIDE DEF h
    <3> QED BY <1>3, <1>5, <2>6, <3>1 DEF Alike
  <2>8. parent'[made[1]] = None
    <3>1. 1 \in 1 .. k
      BY <2>2
    <3> QED BY <2>3, <2>6, <3>1 DEF Copied
  <2>9. ASSUME NEW i \in 1 .. (k + 1) - 1 PROVE parent'[made[i + 1]] = made[i]
    <3>1. CASE i = k
      <4>1. made[i + 1] = c /\ made[i] = r.made[k]
        <5>1. k \in 1 .. k
          BY <2>2
        <5> QED BY <2>3, <3>1, <5>1
      <4> QED BY <1>5, <4>1
    <3>2. CASE i # k
      <4>1. i \in 1 .. k - 1 /\ i \in 1 .. k /\ i + 1 \in 1 .. k
        BY <2>2, <3>2
      <4> QED BY <2>3, <2>6, <4>1 DEF Copied
    <3> QED BY <3>1, <3>2
  <2>10. ASSUME NEW i \in 1 .. k + 1
         PROVE  /\ ledger'[made[i]] = ledger'[r.line[i]] \ r.strip
                /\ Alike(digest[made[i]], digest[r.line[i]] \ r.strip)'
    <3>1. CASE i = k + 1
      BY <2>3, <2>7, <3>1
    <3>2. CASE i # k + 1
      <4>1. i \in 1 .. k
        BY <2>2, <3>2
      <4>2. made[i] = r.made[i]
        BY <2>3, <4>1
      <4> QED BY <2>6, <4>1, <4>2 DEF Copied
    <3> QED BY <3>1, <3>2
  <2>11. Len(op'[w].made) = k + 1
    BY <2>1, <2>3
  <2>12. Copied(op[w])'
    BY <1>1, <2>1, <2>8, <2>9, <2>10, <2>11 DEF Copied
  <2> QED BY <1>1, <2>12 DEF Rebuilding
<1>10. Fits(w, chain)'
  BY <1>0, <1>1, <1>3, <1>6, <1>8, <1>9, LineKept
<1>11. \A x \in created : ledger'[x] \subseteq 1 .. recorded /\ digest'[x] \subseteq 1 .. recorded
  BY <1>0, <1>1, <1>4, <1>5, <1>6 DEF Known
<1>12. op'[w].words \subseteq 1 .. recorded
  BY <1>1
<1> QED BY <1>1, <1>3, <1>7, <1>8, <1>10, <1>11, <1>12, WorkerAside

-----------------------------------------------------------------------------
(* Messages, restarts, and what is handed to a channel.                     *)

LEMMA IngestFaithful ==
  ASSUME Orderly, NEW chain \in [Channels -> SUBSET ConvIds], FaithfulAt(chain),
         NEW ch \in Channels, NEW p \in People, Ingest(ch, p)
  PROVE  FaithfulAt(chain)'
<1>1. /\ mapped[ch] \in MappedConvs /\ mapped[ch] \in ConvIds
      /\ ledger'[mapped[ch]] = ledger[mapped[ch]] \cup {recorded + 1}
      /\ \A d \in ConvIds : d # mapped[ch] => ledger'[d] = ledger[d]
      /\ StoreMoves({}, {})
      /\ parent' = parent
  BY IngestDoes
<1>2. /\ recorded' = recorded + 1 /\ digest' = digest /\ nulled' = nulled
      /\ mapped' = mapped /\ op' = op
  BY DEF Ingest
<1>3. PICK none : none = {}
  OBVIOUS
<1>4. Turn(chain, none, none)
  BY <1>1, <1>2, <1>3 DEF Turn, OwnMoves
<1>5. Known'
  BY <1>2, <1>3, <1>4, KnownStays DEF FaithfulAt, Known
<1> QED BY <1>2, <1>3, <1>4, <1>5, AsideFaithful

LEMMA MapFailsFaithful ==
  ASSUME Orderly, NEW chain \in [Channels -> SUBSET ConvIds], FaithfulAt(chain),
         NEW ch \in Channels, MapNewChannelFails(ch)
  PROVE  FaithfulAt(chain)'
<1>1. PICK c \in ConvIds : OpenedAs(c, Blank, {})
  BY MapFailsDoes
<1>2. recorded' = recorded /\ nulled' = nulled /\ mapped' = mapped /\ op' = op
  BY DEF MapNewChannelFails
<1>3. PICK created, gone : created = {c} /\ gone = {}
  OBVIOUS
<1>4. /\ StoreMoves(created, gone) /\ Kept(created, gone)
      /\ ledger'[c] = {} /\ digest'[c] = {}
  BY <1>1, <1>3 DEF OpenedAs, Blank
<1>5. \A d \in ConvIds : d \notin created =>
         /\ parent'[d] = parent[d] /\ digest'[d] = digest[d] /\ ledger'[d] = ledger[d]
  BY <1>3, <1>4 DEF Kept
<1>6. Turn(chain, created, gone)
  BY <1>2, <1>3, <1>4, <1>5 DEF Turn, OwnMoves
<1>7. Known'
  BY <1>2, <1>3, <1>4, <1>6, KnownStays DEF FaithfulAt, Known
<1> QED BY <1>2, <1>3, <1>6, <1>7, AsideFaithful

LEMMA CrashFaithful ==
  ASSUME Orderly, NEW chain \in [Channels -> SUBSET ConvIds], FaithfulAt(chain), Crash
  PROVE  FaithfulAt(chain)'
<1>1. \A w \in Workers : op'[w] = Idle /\ WorkingOf(op'[w]) = {} /\ LinesOf(op'[w]) = {}
  BY EndsDoes DEF Crash
<1>2. /\ UNCHANGED storeVars /\ UNCHANGED <<ledger, digest>>
      /\ recorded' = recorded /\ nulled' = nulled /\ mapped' = mapped
  BY DEF Crash, content
<1>3. PICK none : none = {}
  OBVIOUS
<1>4. StoreMoves(none, none) /\ Kept(none, none)
  BY <1>2, <1>3, RestedIs DEF DeletedAs
<1>5. \A d \in ConvIds :
         /\ parent'[d] = parent[d] /\ digest'[d] = digest[d] /\ ledger'[d] = ledger[d]
  BY <1>2 DEF storeVars
<1>6. Turn(chain, none, none)
  BY <1>1, <1>2, <1>3, <1>4, <1>5 DEF Turn, OwnMoves
<1>7. \A w \in Workers : Rested(w) /\ op'[w].words = {}
  BY <1>1 DEF Rested, Idle
<1>8. Known'
  BY <1>3, <1>6, <1>7, KnownStays DEF FaithfulAt
<1> QED BY <1>2, <1>6, <1>7, <1>8, AsideFaithful

\* One channel is handed c, and conversations of its own are deleted.
LEMMA ServeTurns ==
  ASSUME Orderly, NEW chain \in [Channels -> SUBSET ConvIds], Grounded(chain),
         NEW ch \in Channels, NEW c \in ConvIds, NEW created, created = {c}, NEW gone,
         StoreMoves(created, gone), Kept(created, gone), ServedBy(ch, c), OwnMoves({}),
         gone \subseteq chain[ch], recorded' = recorded, nulled' = nulled
  PROVE  /\ Turn(chain, created, gone) /\ Apart(c)' /\ c \notin Live
         /\ \A w \in Workers : \A d \in gone : d \notin WorkingOf(op[w])
<1>1. c \notin Live /\ c # None
  BY CreatedIsNew DEF ConvIds, None
<1>2. Apart(c)'
  BY <1>1 DEF OwnMoves, Apart, Orderly, WorkingApart
<1>3. OwnMoves(created)
  BY DEF OwnMoves
<1>4. /\ mapped'[ch] = c /\ \A a \in Channels \ {ch} : mapped'[a] = mapped[a]
  BY DEF ServedBy
<1>5. mapped[ch] # c
  BY <1>1 DEF Orderly, MappedApart
<1>6. ASSUME NEW a \in Channels, mapped'[a] = mapped[a], NEW d \in gone PROVE d \notin chain[a]
  <2>1. a # ch
    BY <1>4, <1>5, <1>6
  <2> QED BY <2>1 DEF Grounded
<1>7. \A d \in ConvIds : d \notin created =>
          /\ d \notin gone => parent'[d] = parent[d] /\ digest'[d] = digest[d]
          /\ digest'[d] \subseteq digest[d] /\ ledger'[d] \subseteq ledger[d]
          /\ d \notin gone => ledger[d] \subseteq ledger'[d]
  BY DEF Kept
<1>8. \A a \in Channels : mapped'[a] = mapped[a] \/ mapped'[a] \in created
  BY <1>4
<1>9. \E x \in created : Apart(x)'
  BY <1>2
<1>10. Turn(chain, created, gone)
  BY <1>3, <1>6, <1>7, <1>8, <1>9 DEF Turn
<1>11. \A d \in gone : Apart(d)
  BY DEF Grounded, Carried
<1> QED BY <1>1, <1>2, <1>10, <1>11 DEF Apart

LEMMA FreshFaithful ==
  ASSUME Orderly, NEW chain \in [Channels -> SUBSET ConvIds], FaithfulAt(chain),
         NEW ch \in Channels, FirstContact(ch) \/ Wipe(ch)
  PROVE  Faithful'
<1>1. PICK c \in ConvIds : OpenedAs(c, Blank, {}) /\ ServedBy(ch, c)
  BY FreshDoes
<1>2. recorded' = recorded /\ nulled' = nulled /\ op' = op
  BY DEF FirstContact, Wipe
<1>3. PICK created, gone : created = {c} /\ gone = {}
  OBVIOUS
<1>4. /\ StoreMoves(created, gone) /\ Kept(created, gone)
      /\ ledger'[c] = {} /\ digest'[c] = {} /\ parent'[c] = None
  BY <1>1, <1>3 DEF OpenedAs, Blank
<1>5. Grounded(chain) /\ OwnMoves({}) /\ gone \subseteq chain[ch]
  BY <1>2, <1>3 DEF FaithfulAt, OwnMoves
<1>6. Turn(chain, created, gone) /\ Apart(c)'
  BY <1>1, <1>2, <1>3, <1>4, <1>5, ServeTurns
<1>7. Known'
  BY <1>2, <1>3, <1>4, <1>6, KnownStays DEF FaithfulAt, Known
<1>8. PICK T \in SUBSET ConvIds : T = {c}
  OBVIOUS
<1>9. Carried(T)'
  <2>1. c \in Live'
    BY <1>3, <1>4, CreatedIsNew
  <2>2. Exact(c, T)'
    BY <1>4 DEF Exact, Alike
  <2> QED BY <1>6, <1>8, <2>1, <2>2 DEF Carried
<1>10. \A w \in Workers : op'[w] = op[w] /\ \A d \in gone : d \notin WorkingOf(op[w])
  BY <1>2, <1>3
<1>11. c \in T /\ c \in created /\ \A d \in T : d = c \/ d \in chain[ch] \/ ~Apart(d)
  BY <1>3, <1>8
<1> QED BY <1>1, <1>6, <1>7, <1>9, <1>10, <1>11, ServeFaithful

\* The thread below s holds nothing of S.
NotBelow(s, S) == parent[s] # None => \A m \in S : m \notin ledger[parent[s]]

\* A clone without a block the thread below does not hold stands on what the
\* thread it replaces stood on.
LEMMA CloneCarries ==
  ASSUME Orderly, NEW chain \in [Channels -> SUBSET ConvIds], Grounded(chain),
         NEW ch \in Channels, NEW s \in ConvIds, mapped[ch] = s, NEW S,
         NotBelow(s, S),
         NEW c \in ConvIds, NEW gone, OpenedAs(c, Clone(s, S), gone), gone \subseteq {s},
         OwnMoves({}), nulled' = nulled,
         NEW T, T = (chain[ch] \ {s}) \cup {c}
  PROVE  Carried(T)'
<1>1. /\ Kept({c}, gone) /\ c \notin Live /\ c \in Live'
      /\ ledger'[c] = ledger[s] \ S /\ digest'[c] = digest[s] /\ parent'[c] = parent[s]
      /\ \A d \in ConvIds : d \in Live' <=> d \in {c} \/ (d \in Live /\ d \notin gone)
  BY DEF OpenedAs, Clone, StoreMoves
<1>2. \A d \in chain[ch] : d \in ConvIds /\ d \in Live /\ Apart(d) /\ Exact(d, chain[ch])
  BY DEF Grounded, Carried
<1>3. s \in chain[ch] /\ s \in MappedConvs
  <2>1. s # None
    BY DEF ConvIds, None
  <2> QED BY <2>1 DEF Grounded, MappedConvs
<1>4. ASSUME NEW d \in chain[ch], d # s
      PROVE  /\ d \in Live' /\ Apart(d)' /\ d \in T
             /\ parent'[d] = parent[d] /\ ledger'[d] = ledger[d] /\ digest'[d] = digest[d]
  <2>1. d \in ConvIds /\ d # c /\ d \notin gone
    BY <1>1, <1>2, <1>4
  <2>2. Apart(d)'
    BY <1>2 DEF OwnMoves, Apart
  <2> QED BY <1>1, <1>2, <1>4, <2>1, <2>2 DEF Kept
<1>5. ASSUME NEW d \in chain[ch], parent[d] # None
      PROVE  /\ parent[d] \in chain[ch] /\ parent[d] # s
             /\ Alike(digest[d], (ledger[parent[d]] \ ledger[d]) \cup digest[parent[d]])
  BY <1>2, <1>3, <1>5 DEF Exact, Orderly, ParentsStand
<1>6. ASSUME NEW d \in chain[ch], parent[d] = None PROVE Alike(digest[d], {})
  <2>1. None \notin chain[ch]
    BY DEF ConvIds, None
  <2> QED BY <1>2, <1>6, <2>1 DEF Exact
<1>7. ASSUME NEW d \in chain[ch], d # s PROVE Exact(d, T)'
  <2>1. CASE parent[d] = None
    BY <1>4, <1>6, <1>7, <2>1 DEF Exact, Alike
  <2>2. CASE parent[d] # None
    <3>1. PICK p : p = parent[d]
      OBVIOUS
    <3>2. /\ p \in T /\ parent'[d] = p
          /\ Alike(digest[d], (ledger[p] \ ledger[d]) \cup digest[p])
          /\ ledger'[p] = ledger[p] /\ digest'[p] = digest[p]
          /\ ledger'[d] = ledger[d] /\ digest'[d] = digest[d]
      BY <1>4, <1>5, <1>7, <2>2, <3>1
    <3>3. Alike(digest[d], (ledger[p] \ ledger[d]) \cup digest[p])'
      BY <3>2 DEF Alike
    <3> QED BY <3>2, <3>3 DEF Exact
  <2> QED BY <2>1, <2>2
<1>8. Exact(c, T)'
  <2>1. CASE parent[s] = None
    BY <1>1, <1>3, <1>6, <2>1 DEF Exact, Alike
  <2>2. CASE parent[s] # None
    <3>1. PICK p : p = parent[s]
      OBVIOUS
    <3>2. /\ p \in chain[ch] /\ p # s
          /\ Alike(digest[s], (ledger[p] \ ledger[s]) \cup digest[p])
          /\ \A m \in S : m \notin ledger[p]
      BY <1>3, <1>5, <2>2, <3>1 DEF NotBelow
    <3>3. p \in T /\ parent'[c] = p /\ ledger'[p] = ledger[p] /\ digest'[p] = digest[p]
      BY <1>1, <1>4, <3>1, <3>2
    <3>4. Alike(digest[c], (ledger[p] \ ledger[c]) \cup digest[p])'
      BY <1>1, <3>2, <3>3 DEF Alike
    <3> QED BY <3>3, <3>4 DEF Exact
  <2> QED BY <2>1, <2>2
<1>9. Apart(c)'
  BY <1>1 DEF OwnMoves, Apart, Orderly, WorkingApart
<1> QED BY <1>1, <1>4, <1>7, <1>8, <1>9 DEF Carried

LEMMA StaleFaithful ==
  ASSUME Orderly, NEW chain \in [Channels -> SUBSET ConvIds], FaithfulAt(chain),
         NEW ch \in Channels, RetireStaleChannel(ch)
  PROVE  Faithful'
<1>0. PICK s : s = mapped[ch]
  OBVIOUS
<1>1. s \in MappedConvs /\ s \in ConvIds
  BY <1>0, RetireStaleDoes, MappedIs
<1>2. PICK c \in ConvIds : OpenedAs(c, Clone(s, {}), {}) /\ ServedBy(ch, c)
  BY <1>0, RetireStaleDoes
<1>3. recorded' = recorded /\ nulled' = nulled /\ op' = op
  BY DEF RetireStaleChannel
<1>4. PICK created, gone : created = {c} /\ gone = {}
  OBVIOUS
<1>5. /\ StoreMoves(created, gone) /\ Kept(created, gone)
      /\ ledger'[c] = ledger[s] /\ digest'[c] = digest[s]
  BY <1>2, <1>4 DEF OpenedAs, Clone
<1>6. Grounded(chain) /\ Known /\ OwnMoves({}) /\ gone \subseteq chain[ch]
  BY <1>3, <1>4 DEF FaithfulAt, OwnMoves
<1>7. Turn(chain, created, gone)
  BY <1>2, <1>3, <1>4, <1>5, <1>6, ServeTurns
<1>8. Known'
  <2>1. \A x \in created : ledger'[x] \subseteq 1 .. recorded /\ digest'[x] \subseteq 1 .. recorded
    BY <1>1, <1>4, <1>5, <1>6 DEF Known
  <2> QED BY <1>3, <1>6, <1>7, <2>1, KnownStays DEF Known
<1>9. PICK T \in SUBSET ConvIds : T = (chain[ch] \ {s}) \cup {c}
  OBVIOUS
<1>10. Carried(T)'
  <2>1. OpenedAs(c, Clone(s, {}), gone) /\ gone \subseteq {s} /\ NotBelow(s, {})
    BY <1>2, <1>4 DEF NotBelow
  <2> QED BY <1>0, <1>1, <1>3, <1>6, <1>9, <2>1, CloneCarries
<1>11. \A w \in Workers : op'[w] = op[w] /\ \A d \in gone : d \notin WorkingOf(op[w])
  BY <1>3, <1>4
<1>12. c \in T /\ c \in created /\ \A d \in T : d = c \/ d \in chain[ch] \/ ~Apart(d)
  BY <1>4, <1>9
<1> QED BY <1>2, <1>7, <1>8, <1>10, <1>11, <1>12, ServeFaithful

\* A worker that is done.
LEMMA WorkerServes ==
  ASSUME Orderly, NEW chain \in [Channels -> SUBSET ConvIds], FaithfulAt(chain),
         NEW w \in Workers, Idles(w) \/ ScrubOver(w),
         NEW ch \in Channels, NEW c \in ConvIds, NEW created, created = {c}, NEW gone,
         StoreMoves(created, gone), Kept(created, gone), ServedBy(ch, c),
         gone \subseteq chain[ch], recorded' = recorded, nulled' = nulled,
         ledger'[c] \subseteq 1 .. recorded, digest'[c] \subseteq 1 .. recorded,
         NEW T \in SUBSET ConvIds, c \in T, Carried(T)',
         \A d \in T : d = c \/ d \in chain[ch] \/ ~Apart(d)
  PROVE  Faithful'
<1>1. Rested(w) /\ Others(w) /\ op'[w].words = {} /\ WorkingOf(op'[w]) = {}
  BY RestDoes DEF Rested
<1>2. OwnMoves({}) /\ Grounded(chain) /\ Known
  BY <1>1 DEF OwnMoves, Others, FaithfulAt
<1>3. /\ Turn(chain, created, gone)
      /\ \A v \in Workers : \A d \in gone : d \notin WorkingOf(op[v])
  BY <1>2, ServeTurns
<1>4. Known'
  <2>1. \A v \in Workers : op'[v].words \subseteq 1 .. recorded
    BY <1>1, <1>2 DEF Others, Known
  <2> QED BY <1>2, <1>3, <2>1, KnownStays
<1>5. \A v \in Workers : \/ op'[v] = op[v] /\ \A d \in gone : d \notin WorkingOf(op[v])
                         \/ Rested(v)
  BY <1>1, <1>3 DEF Others
<1> QED BY <1>3, <1>4, <1>5, ServeFaithful

-----------------------------------------------------------------------------
(* The swaps.                                                               *)

LEMMA RestOwns ==
  ASSUME Orderly, NEW w \in Workers, Idles(w) \/ ScrubOver(w)
  PROVE  OwnMoves({})
  BY RestDoes DEF OwnMoves, Others

LEMMA InstallFaithful ==
  ASSUME Orderly, NEW chain \in [Channels -> SUBSET ConvIds], FaithfulAt(chain),
         NEW w \in Workers, InstallCompactedThread(w)
  PROVE  Faithful'
<1>0. PICK r, s, ch : r = op[w] /\ s = op[w].line[1] /\ ch = op[w].ch
  OBVIOUS
<1>1. /\ r.do = "install" /\ ch \in Channels /\ s \in MappedConvs /\ s \in ConvIds
      /\ mapped[ch] = s /\ Idles(w)
  BY <1>0, InstallDoes
<1>2. PICK c \in ConvIds : OpenedAs(c, CompactedThread(w), {}) /\ ServedBy(ch, c)
  BY <1>0, InstallDoes
<1>3. recorded' = recorded /\ nulled' = nulled
  BY DEF InstallCompactedThread
<1>4. PICK created, gone : created = {c} /\ gone = {}
  OBVIOUS
<1>5. /\ StoreMoves(created, gone) /\ Kept(created, gone) /\ c \notin Live
      /\ ledger'[c] = {m \in ledger[s] : m > r.cut} /\ digest'[c] = r.words /\ parent'[c] = s
  BY <1>0, <1>2, <1>4 DEF OpenedAs, CompactedThread
<1>6. Grounded(chain) /\ Known /\ Fits(w, chain)
  BY DEF FaithfulAt
<1>7. r.cut \in 1 .. recorded /\ s \in Live /\ Alike(r.words, FirstHalf(s, r.cut))
  BY <1>0, <1>1, <1>6, MappedIs DEF Fits, SourceRead
<1>8. ledger[s] \subseteq 1 .. recorded /\ digest[s] \subseteq 1 .. recorded
      /\ r.words \subseteq 1 .. recorded /\ recorded \in Nat
  BY <1>0, <1>1, <1>6 DEF Known, Orderly, Typed, Contents
<1>9. PICK T \in SUBSET ConvIds : T = chain[ch] \cup {c}
  <2>1. chain[ch] \cup {c} \in SUBSET ConvIds
    BY <1>1
  <2> QED BY <2>1
<1>10. ASSUME NEW d \in chain[ch]
       PROVE  /\ d \in Live' /\ Apart(d)' /\ d \in T /\ d \in ConvIds
              /\ parent'[d] = parent[d] /\ ledger'[d] = ledger[d] /\ digest'[d] = digest[d]
  <2>1. d \in ConvIds /\ d \in Live /\ Apart(d)
    BY <1>1, <1>6 DEF Grounded, Carried
  <2>2. d \notin created /\ d \notin gone
    BY <1>4, <1>5, <2>1
  <2>3. Apart(d)'
    BY <1>1, <2>1, RestOwns DEF OwnMoves, Apart
  <2> QED BY <1>5, <1>9, <2>1, <2>2, <2>3 DEF Kept, StoreMoves
<1>11. ASSUME NEW d \in chain[ch] PROVE Exact(d, T)'
  <2>1. Exact(d, chain[ch])
    BY <1>1, <1>6 DEF Grounded, Carried
  <2>2. CASE parent[d] = None
    <3>1. None \notin chain[ch]
      BY <1>1 DEF ConvIds, None
    <3>2. Alike(digest[d], {})
      BY <2>1, <2>2, <3>1 DEF Exact
    <3> QED BY <1>3, <1>10, <2>2, <3>2 DEF Exact, Alike
  <2>3. CASE parent[d] # None
    <3>1. PICK p : p = parent[d]
      OBVIOUS
    <3>2. p \in chain[ch] /\ Alike(digest[d], (ledger[p] \ ledger[d]) \cup digest[p])
      BY <2>1, <2>3, <3>1 DEF Exact
    <3>3. /\ p \in T /\ parent'[d] = p
          /\ ledger'[p] = ledger[p] /\ digest'[p] = digest[p]
          /\ ledger'[d] = ledger[d] /\ digest'[d] = digest[d]
      BY <1>10, <3>1, <3>2
    <3>4. Alike(digest[d], (ledger[p] \ ledger[d]) \cup digest[p])'
      BY <1>3, <3>2, <3>3 DEF Alike
    <3> QED BY <3>3, <3>4 DEF Exact
  <2> QED BY <2>2, <2>3
<1>12. s \in chain[ch]
  <2>1. s # None
    BY <1>1 DEF ConvIds, None
  <2> QED BY <1>1, <1>6, <2>1 DEF Grounded
<1>13. Exact(c, T)'
  <2>1. ledger'[s] = ledger[s] /\ digest'[s] = digest[s] /\ s \in T
    BY <1>10, <1>12
  <2>2. \A m \in ledger[s] : ~(m > r.cut) <=> m <= r.cut
    BY <1>7, <1>8
  <2>3. Alike(digest[c], (ledger[s] \ ledger[c]) \cup digest[s])'
    BY <1>3, <1>5, <1>7, <2>1, <2>2 DEF Alike, FirstHalf
  <2> QED BY <1>5, <2>1, <2>3 DEF Exact
<1>14. c \in Live' /\ Apart(c)'
  <2>1. c \in Live'
    BY <1>4, <1>5, CreatedIsNew
  <2>2. Apart(c)'
    BY <1>1, <1>5, RestOwns DEF OwnMoves, Apart, Orderly, WorkingApart
  <2> QED BY <2>1, <2>2
<1>15. Carried(T)'
  BY <1>9, <1>10, <1>11, <1>13, <1>14 DEF Carried
<1>16. /\ ledger'[c] \subseteq 1 .. recorded /\ digest'[c] \subseteq 1 .. recorded
       /\ gone \subseteq chain[ch] /\ c \in T
       /\ \A d \in T : d = c \/ d \in chain[ch] \/ ~Apart(d)
  BY <1>4, <1>5, <1>8, <1>9
<1> QED BY <1>1, <1>2, <1>3, <1>4, <1>5, <1>15, <1>16, WorkerServes

LEMMA ReplaceFaithful ==
  ASSUME Orderly, NEW chain \in [Channels -> SUBSET ConvIds], FaithfulAt(chain),
         NEW w \in Workers, ReplaceWithClone(w), Serving(w) \in MappedConvs
  PROVE  Faithful'
<1>0. PICK r, s : r = op[w] /\ s = Serving(w)
  OBVIOUS
<1>1. r.do = "strip" /\ Idles(w) /\ s \in ConvIds /\ s \in Live
  BY <1>0, ReplaceDoes, MappedIs
<1>2. PICK ch \in Channels, c \in ConvIds :
         mapped[ch] = s /\ OpenedAs(c, Clone(s, r.strip), {s}) /\ ServedBy(ch, c)
  BY <1>0, ReplaceDoes
<1>3. recorded' = recorded /\ nulled' = nulled
  BY DEF ReplaceWithClone
<1>4. PICK created, gone : created = {c} /\ gone = {s}
  OBVIOUS
<1>5. /\ StoreMoves(created, gone) /\ Kept(created, gone)
      /\ ledger'[c] = ledger[s] \ r.strip /\ digest'[c] = digest[s]
  BY <1>2, <1>4 DEF OpenedAs, Clone
<1>6. Grounded(chain) /\ Known /\ Fits(w, chain)
  BY DEF FaithfulAt
<1>7. parent[s] # None => \A m \in r.strip : m \notin ledger[parent[s]]
  BY <1>0, <1>1, <1>6 DEF Fits, StripRead
<1>8. s \in chain[ch]
  <2>1. s # None
    BY <1>1 DEF ConvIds, None
  <2> QED BY <1>2, <1>6, <2>1 DEF Grounded
<1>9. PICK T \in SUBSET ConvIds : T = (chain[ch] \ {s}) \cup {c}
  OBVIOUS
<1>10. Carried(T)'
  <2>1. OpenedAs(c, Clone(s, r.strip), gone) /\ gone \subseteq {s} /\ OwnMoves({})
        /\ mapped[ch] = s
    BY <1>1, <1>2, <1>4, RestOwns
  <2>2. PICK S : S = r.strip
    OBVIOUS
  <2>3. NotBelow(s, S)
    BY <1>7, <2>2 DEF NotBelow
  <2>4. OpenedAs(c, Clone(s, S), gone)
    BY <2>1, <2>2
  <2> QED BY <1>1, <1>3, <1>6, <1>9, <2>1, <2>3, <2>4, CloneCarries
<1>11. /\ ledger'[c] \subseteq 1 .. recorded /\ digest'[c] \subseteq 1 .. recorded
       /\ gone \subseteq chain[ch] /\ c \in T
       /\ \A d \in T : d = c \/ d \in chain[ch] \/ ~Apart(d)
  BY <1>1, <1>4, <1>5, <1>6, <1>8, <1>9 DEF Known
<1> QED BY <1>1, <1>2, <1>3, <1>4, <1>5, <1>10, <1>11, WorkerServes

LEMMA ScrubFaithful ==
  ASSUME Orderly, NEW chain \in [Channels -> SUBSET ConvIds], FaithfulAt(chain),
         NEW w \in Workers, InstallScrubbedThread(w)
  PROVE  Faithful'
<1>0. PICK r, s, ch : r = op[w] /\ s = Serving(w) /\ ch = op[w].ch
  OBVIOUS
<1> DEFINE k == Len(r.made)
<1>1. /\ r.do = "digest" /\ ch \in Channels /\ NextHop(w) = s /\ mapped[ch] = s
      /\ s \in ConvIds /\ s \in MappedConvs /\ ScrubOver(w)
      /\ WorkingOf(op[w]) = Range(r.made)
  BY <1>0, InstallScrubbedDoes
<1>2. PICK c \in ConvIds : OpenedAs(c, Rebuilt(w, s), Range(r.line)) /\ ServedBy(ch, c)
  BY <1>0, InstallScrubbedDoes
<1>3. recorded' = recorded /\ nulled' = nulled
  BY DEF InstallScrubbedThread
<1>4. PICK created, gone : created = {c} /\ gone = Range(r.line)
  OBVIOUS
<1>5. /\ StoreMoves(created, gone) /\ Kept(created, gone) /\ c \notin Live
      /\ ledger'[c] = ledger[s] \ r.strip /\ digest'[c] = r.words /\ parent'[c] = r.made[k]
  BY <1>0, <1>2, <1>4 DEF OpenedAs, Rebuilt, Made
<1>6. Grounded(chain) /\ Known /\ Fits(w, chain)
  BY DEF FaithfulAt
<1>7. op[w].do \in {"fork", "digest"} /\ Serving(w) \in MappedConvs
  BY <1>0, <1>1
<1>8. View(r) /\ r.line[k + 1] = s
  <2>1. View(r)
    BY <1>0, <1>6, <1>7, ScrubView
  <2> QED BY <1>0, <1>1, <2>1 DEF NextHop
<1>9. /\ k \in 1 .. Len(r.line) - 1 /\ Len(r.line) \in Nat
      /\ \A i \in 1 .. k : r.made[i] \in Live /\ r.made[i] \in ConvIds /\ r.made[i] \in Range(r.made)
      /\ parent[r.made[1]] = None
      /\ \A i \in 1 .. k - 1 : parent[r.made[i + 1]] = r.made[i]
      /\ \A i \in 1 .. k : /\ ledger[r.made[i]] = ledger[r.line[i]] \ r.strip
                           /\ Alike(digest[r.made[i]], digest[r.line[i]] \ r.strip)
      /\ Alike(digest[r.line[1]], {})
      /\ \A i \in 1 .. Len(r.line) - 1 :
            Alike(digest[r.line[i + 1]],
                  (ledger[r.line[i]] \ ledger[r.line[i + 1]]) \cup digest[r.line[i]])
      /\ Alike(r.words, digest[s] \ r.strip)
  BY <1>1, <1>8 DEF View, Copied
<1>10. r.made \in Seq(ConvIds) /\ r.line \in Seq(ConvIds)
  BY <1>0, Reads DEF Orderly, Typed, OpRecord
<1>11. /\ 1 \in 1 .. k /\ k \in 1 .. k
       /\ \A i \in 1 .. k : i \in 1 .. Len(r.line) - 1
       /\ \A i \in 1 .. k - 1 : i \in 1 .. k /\ i + 1 \in 1 .. k
  BY <1>9
<1>12. gone \subseteq chain[ch]
  <2>1. Held(r.line, chain) /\ mapped[ch] = r.line[Len(r.line)]
    <3>1. r.line \in LinesOf(op[w])
      BY <1>0, <1>7, ScrubReads
    <3> QED BY <1>0, <1>1, <1>6, <3>1 DEF Fits, Serving
  <2>2. \A i \in 1 .. Len(r.line) : r.line[i] \in chain[ch]
    BY <1>1, <2>1 DEF Held
  <2> QED BY <1>4, <1>10, <2>2 DEF Range
<1>13. PICK T \in SUBSET ConvIds : T = Range(r.made) \cup {c}
  <2>1. Range(r.made) \subseteq ConvIds
    BY <1>10 DEF Range
  <2> QED BY <2>1
<1>14. OwnMoves({}) /\ WorkingOf(op'[w]) = {} /\ Others(w)
  BY <1>1, RestOwns, RestDoes
<1>15. ASSUME NEW d \in Range(r.made)
       PROVE  /\ d \in Live' /\ Apart(d)' /\ d \in T /\ ~Apart(d)
              /\ parent'[d] = parent[d] /\ ledger'[d] = ledger[d] /\ digest'[d] = digest[d]
  <2>1. d \in WorkingOf(op[w]) /\ d \in Live /\ d \in ConvIds /\ ~Apart(d)
        /\ \A v \in Workers : d \in WorkingOf(op[v]) => v = w
    BY <1>1 DEF Orderly, WorkingApart, Apart, Live
  <2>2. d \notin created /\ d \notin gone
    BY <1>1, <1>4, <1>5, <1>6, <1>12, <2>1 DEF Grounded, Carried
  <2>3. Apart(d)'
    BY <1>14, <2>1 DEF Apart, Others
  <2> QED BY <1>5, <1>13, <2>1, <2>2, <2>3 DEF Kept, StoreMoves
<1>16. ASSUME NEW i \in 1 .. k PROVE Exact(r.made[i], T)'
  <2>1. CASE i = 1
    <3>1. Alike(digest[r.made[1]], {})
      BY <1>9, <1>11 DEF Alike
    <3>2. digest'[r.made[1]] = digest[r.made[1]] /\ parent'[r.made[1]] = None
      BY <1>9, <1>11, <1>15
    <3> QED BY <1>3, <2>1, <3>1, <3>2 DEF Exact, Alike
  <2>2. CASE i # 1
    <3>1. PICK j : j = i - 1
      OBVIOUS
    <3>2. j \in 1 .. k - 1 /\ j \in 1 .. k /\ j + 1 = i /\ j \in 1 .. Len(r.line) - 1
      BY <1>9, <2>2, <3>1
    <3>3. PICK a, p, x, y : a = r.made[i] /\ p = r.made[j] /\ x = r.line[i] /\ y = r.line[j]
      OBVIOUS
    <3>4. /\ a \in Range(r.made) /\ p \in Range(r.made) /\ parent[a] = p
          /\ ledger[a] = ledger[x] \ r.strip /\ Alike(digest[a], digest[x] \ r.strip)
          /\ ledger[p] = ledger[y] \ r.strip /\ Alike(digest[p], digest[y] \ r.strip)
          /\ Alike(digest[x], (ledger[y] \ ledger[x]) \cup digest[y])
      BY <1>9, <3>2, <3>3
    <3>5. Alike(digest[a], (ledger[p] \ ledger[a]) \cup digest[p])
      BY <3>4 DEF Alike
    <3>6. /\ parent'[a] = p /\ ledger'[a] = ledger[a] /\ digest'[a] = digest[a]
          /\ ledger'[p] = ledger[p] /\ digest'[p] = digest[p] /\ p \in T
      BY <1>15, <3>4
    <3>7. Alike(digest[a], (ledger[p] \ ledger[a]) \cup digest[p])'
      BY <1>3, <3>5, <3>6 DEF Alike
    <3> QED BY <3>3, <3>6, <3>7 DEF Exact
  <2> QED BY <2>1, <2>2
<1>17. Exact(c, T)'
  <2>1. PICK p, y : p = r.made[k] /\ y = r.line[k]
    OBVIOUS
  <2>2. /\ p \in Range(r.made)
        /\ ledger[p] = ledger[y] \ r.strip /\ Alike(digest[p], digest[y] \ r.strip)
        /\ Alike(digest[s], (ledger[y] \ ledger[s]) \cup digest[y])
    BY <1>8, <1>9, <1>11, <2>1
  <2>3. parent'[c] = p /\ ledger'[p] = ledger[p] /\ digest'[p] = digest[p] /\ p \in T
    BY <1>5, <1>15, <2>1, <2>2
  <2>4. Alike(digest[c], (ledger[p] \ ledger[c]) \cup digest[p])'
    BY <1>3, <1>5, <1>9, <2>2, <2>3 DEF Alike
  <2> QED BY <2>3, <2>4 DEF Exact
<1>18. c \in Live' /\ Apart(c)'
  <2>1. c \in Live'
    BY <1>4, <1>5, CreatedIsNew
  <2>2. Apart(c)'
    BY <1>5, <1>14 DEF OwnMoves, Apart, Orderly, WorkingApart
  <2> QED BY <2>1, <2>2
<1>19. Carried(T)'
  <2> SUFFICES ASSUME NEW d \in T PROVE d \in Live' /\ Apart(d)' /\ Exact(d, T)'
    BY DEF Carried
  <2>1. CASE d = c
    BY <1>17, <1>18, <2>1
  <2>2. CASE d \in Range(r.made)
    <3>1. PICK i \in 1 .. k : d = r.made[i]
      BY <1>10, <2>2 DEF Range
    <3>2. Exact(d, T)'
      BY <1>16, <3>1
    <3> QED BY <1>15, <2>2, <3>2
  <2> QED BY <1>13, <2>1, <2>2
<1>20. /\ ledger'[c] \subseteq 1 .. recorded /\ digest'[c] \subseteq 1 .. recorded /\ c \in T
       /\ \A d \in T : d = c \/ d \in chain[ch] \/ ~Apart(d)
  BY <1>0, <1>1, <1>5, <1>6, <1>13, <1>15 DEF Known
<1> QED BY <1>1, <1>2, <1>3, <1>4, <1>5, <1>12, <1>19, <1>20, WorkerServes

LEMMA StillFaithful ==
  ASSUME Orderly, NEW chain \in [Channels -> SUBSET ConvIds], FaithfulAt(chain), UNCHANGED vars
  PROVE  FaithfulAt(chain)'
<1>1. /\ UNCHANGED storeVars /\ UNCHANGED <<ledger, digest>>
      /\ recorded' = recorded /\ nulled' = nulled /\ mapped' = mapped /\ op' = op
  BY DEF vars, content
<1>2. PICK none : none = {}
  OBVIOUS
<1>3. StoreMoves(none, none)
  BY <1>1, <1>2, RestedIs DEF DeletedAs
<1>4. parent' = parent /\ ledger' = ledger /\ digest' = digest
  BY <1>1 DEF storeVars
<1>5. Turn(chain, none, none)
  BY <1>1, <1>2, <1>3, <1>4 DEF Turn, OwnMoves
<1>6. Known'
  BY <1>1, <1>4 DEF FaithfulAt, Known
<1> QED BY <1>1, <1>2, <1>5, <1>6, AsideFaithful

\* The channels are never torn from their threads, and no direct one is erased.
Undivided == {"torn", "expire"} \cap Ops = {} /\ ("erase" \in Ops => Direct = {})

LEMMA NextFaithful ==
  ASSUME Undivided, Orderly, Faithful, [Next]_vars
  PROVE  Faithful'
<1>0. PICK chain \in [Channels -> SUBSET ConvIds] : FaithfulAt(chain)
  BY DEF Faithful
<1> SUFFICES FaithfulAt(chain)' \/ Faithful'
  BY DEF Faithful
<1>1. CASE UNCHANGED vars
  BY <1>0, <1>1, StillFaithful
<1>2. ASSUME NEW w \in Workers, Starts(w) PROVE FaithfulAt(chain)'
  BY <1>0, <1>2, CompactFaithful, StripFaithful, EraseFaithful DEF Starts, Undivided, Erase
<1>3. ASSUME NEW w \in Workers, Proceeds(w) PROVE FaithfulAt(chain)' \/ Faithful'
  <2>1. CASE CaptureAndRetire(w) \/ Unsummarized(w) \/ CompactionStandsDown(w) \/ CloneFails(w)
    BY <1>0, <2>1, CaptureFaithful, UnsummarizedFaithful, StandsFaithful, CloneFailsFaithful
  <2>2. CASE InstallCompactedThread(w) \/ InstallScrubbedThread(w)
    BY <1>0, <2>2, InstallFaithful, ScrubFaithful
  <2>3. CASE ReplaceWithClone(w)
    BY <1>0, <2>3, ReplaceFaithful, StandsFaithful
  <2>4. CASE EraseScrubsNext(w) \/ ScrubBegins(w) \/ ScrubHasNoChannel(w) \/ ScrubStandsDown(w)
    BY <1>0, <2>4, NextLineFaithful, ScrubBeginsFaithful, StandsFaithful, StandsDownFaithful
  <2>5. CASE RegenerateFork(w) \/ RegenerateRead(w) \/ RebuildHop(w)
    BY <1>0, <2>5, ForkFaithful, ReadFaithful, HopFaithful
  <2> QED BY <1>3, <2>1, <2>2, <2>3, <2>4, <2>5 DEF Proceeds
<1>4. ASSUME NEW ch \in Channels,
             \/ FirstContact(ch) \/ Wipe(ch) \/ MapNewChannelFails(ch)
             \/ (\E p \in People : Ingest(ch, p)) \/ RetireStaleChannel(ch)
      PROVE  FaithfulAt(chain)' \/ Faithful'
  BY <1>0, <1>4, FreshFaithful, MapFailsFaithful, IngestFaithful, StaleFaithful
<1>5. CASE Crash
  BY <1>0, <1>5, CrashFaithful
<1>6. ASSUME NEW c \in ConvIds, Expire(c) PROVE FALSE
  BY <1>6 DEF Expire, Undivided
<1>7. ASSUME NEW w \in Workers, NEW ch \in Channels, SwapTorn(w, ch) PROVE FALSE
  BY <1>7 DEF SwapTorn, Undivided
<1> QED BY <1>1, <1>2, <1>3, <1>4, <1>5, <1>6, <1>7 DEF Next

LEMMA InitFaithful == Init => Faithful
<1> SUFFICES ASSUME Init PROVE Faithful
  OBVIOUS
<1>1. PICK chain \in [Channels -> SUBSET ConvIds] : chain = [ch \in Channels |-> {}]
  OBVIOUS
<1>2. Known
  BY DEF Init, Known, Idle
<1>3. Grounded(chain)
  BY <1>1 DEF Init, Grounded, Carried
<1>4. \A w \in Workers : Fits(w, chain)
  BY DEF Init, Idle, Fits, LinesOf, SourceRead, StripRead, Rebuilding, Strips
<1> QED BY <1>2, <1>3, <1>4 DEF FaithfulAt, Faithful

-----------------------------------------------------------------------------
(* What is read of a channel after a step.                                  *)

\* What is read of one channel.
Seen(ch) == IF mapped[ch] = None THEN {} ELSE (ledger[mapped[ch]] \cup digest[mapped[ch]]) \ nulled

LEMMA SeenIs ==
  ASSUME NEW ch \in Channels
  PROVE  memory[ch] = Seen(ch) /\ memory'[ch] = Seen(ch)'
  BY DEF memory, Seen

\* What is being taken away was recorded.
LEMMA RetractingKnown == Orderly /\ Faithful => retracting \in SUBSET (1 .. recorded)
<1> SUFFICES ASSUME Orderly, Faithful PROVE \A w \in Workers : op[w].strip \subseteq 1 .. recorded
  BY DEF retracting
<1>1. PICK chain \in [Channels -> SUBSET ConvIds] : FaithfulAt(chain)
  BY DEF Faithful
<1>2. nulled \subseteq 1 .. recorded
  BY DEF Orderly, Typed, Contents
<1> QED BY <1>1, <1>2 DEF FaithfulAt, Fits, Strips

\* Nothing is done to a thread that serves.
LEMMA AsideRemembers ==
  ASSUME Orderly, NEW created, NEW gone, StoreMoves(created, gone), Kept(created, gone),
         mapped' = mapped, nulled' = nulled, \A d \in gone : d \notin MappedConvs
  PROVE  memory' = memory
<1> SUFFICES ASSUME NEW ch \in Channels PROVE Seen(ch)' = Seen(ch)
  BY DEF memory, Seen
<1>1. CASE mapped[ch] = None
  BY <1>1 DEF Seen
<1>2. CASE mapped[ch] # None
  <2>1. PICK s : s = mapped[ch]
    OBVIOUS
  <2>2. s \in MappedConvs
    BY <1>2, <2>1 DEF MappedConvs
  <2>3. s \in Live /\ s \in ConvIds /\ s \notin gone
    BY <2>2, MappedIs
  <2>4. s \notin created
    BY <2>3, CreatedIsNew
  <2>5. ledger'[s] = ledger[s] /\ digest'[s] = digest[s]
    BY <2>3, <2>4 DEF Kept
  <2> QED BY <1>2, <2>1, <2>5 DEF Seen
<1> QED BY <1>1, <1>2

\* Channel ch reads what c holds and retells; the others read what they did.
Becomes(ch, c) == memory' = [memory EXCEPT ![ch] = (ledger'[c] \cup digest'[c]) \ nulled]

\* One channel is handed c: the others read what they did.
LEMMA ServedRemembers ==
  ASSUME Orderly, NEW chain, Grounded(chain),
         NEW ch \in Channels, NEW c \in ConvIds, NEW created, created = {c}, NEW gone,
         StoreMoves(created, gone), Kept(created, gone), ServedBy(ch, c), nulled' = nulled,
         gone \subseteq chain[ch]
  PROVE  Becomes(ch, c)
<1>0. mapped'[ch] = c /\ c # None /\ \A a \in Channels \ {ch} : mapped'[a] = mapped[a]
  BY DEF ServedBy, ConvIds, None
<1>1. Seen(ch)' = (ledger'[c] \cup digest'[c]) \ nulled
  BY <1>0 DEF Seen
<1>2. ASSUME NEW a \in Channels \ {ch} PROVE Seen(a)' = Seen(a)
  <2>1. CASE mapped[a] = None
    BY <1>0, <2>1 DEF Seen
  <2>2. CASE mapped[a] # None
    <3>1. PICK s : s = mapped[a]
      OBVIOUS
    <3>2. s \in MappedConvs
      BY <2>2, <3>1 DEF MappedConvs
    <3>3. s \in Live /\ s \in ConvIds
      BY <3>2, MappedIs
    <3>4. s \notin created /\ s \notin gone
      BY <2>2, <3>1, <3>3, CreatedIsNew DEF Grounded
    <3>5. ledger'[s] = ledger[s] /\ digest'[s] = digest[s]
      BY <3>3, <3>4 DEF Kept
    <3> QED BY <1>0, <2>2, <3>1, <3>5 DEF Seen
  <2> QED BY <2>1, <2>2
<1> QED BY <1>1, <1>2 DEF memory, Seen, Becomes

\* Nothing is read that was not, and nothing is lost.
LEMMA QuietRemembers ==
  ASSUME memory' = memory, recorded' = recorded, author' = author,
         retracting' \in SUBSET (1 .. recorded')
  PROVE  Memory!MemoryNext
<1>1. Memory!Reconsider
  BY DEF Memory!Reconsider
<1> QED BY <1>1 DEF Memory!MemoryNext

\* A worker that is done retracts no more.
LEMMA DoneRetracting ==
  ASSUME Orderly, NEW w \in Workers, Idles(w) \/ ScrubOver(w)
  PROVE  retracting' \in SUBSET retracting
<1>1. op'[w].strip = {} /\ Others(w)
  BY RestDoes
<1> QED BY <1>1 DEF Others, retracting

\* A step that records nothing and forgets nothing.
Unread == memory' = memory /\ recorded' = recorded /\ author' = author

LEMMA IngestRemembers ==
  ASSUME Orderly, NEW ch \in Channels, NEW p \in People, Ingest(ch, p)
  PROVE  Memory!Record(ch, p)
<1>0. PICK s : s = mapped[ch]
  OBVIOUS
<1>1. /\ s \in MappedConvs /\ s \in ConvIds /\ s # None /\ mapped[ch] = s
      /\ ledger'[s] = ledger[s] \cup {recorded + 1}
      /\ \A d \in ConvIds : d # s => ledger'[d] = ledger[d]
  BY <1>0, IngestDoes, MappedIs
<1>2. /\ recorded' = recorded + 1 /\ author' = Append(author, p)
      /\ digest' = digest /\ nulled' = nulled /\ mapped' = mapped /\ op' = op
  BY DEF Ingest
<1>3. recorded + 1 \notin nulled
  BY DEF Orderly, Typed, Contents
<1>4. Seen(ch)' = Seen(ch) \cup {recorded + 1}
  BY <1>1, <1>2, <1>3 DEF Seen
<1>5. ASSUME NEW a \in Channels \ {ch} PROVE Seen(a)' = Seen(a)
  <2>1. mapped[a] # None => mapped[a] \in ConvIds /\ mapped[a] # s
    BY <1>1 DEF Orderly, MappedApart, Typed, Contents
  <2> QED BY <1>1, <1>2, <2>1 DEF Seen
<1>6. memory' = [memory EXCEPT ![ch] = memory[ch] \cup {recorded + 1}]
  BY <1>4, <1>5 DEF memory, Seen
<1>7. retracting' = retracting
  BY <1>2 DEF retracting
<1> QED BY <1>2, <1>6, <1>7 DEF Memory!Record

LEMMA GroundedIs ==
  ASSUME NEW chain, FaithfulAt(chain)
  PROVE  Grounded(chain)
  BY DEF FaithfulAt

LEMMA FreshRemembers ==
  ASSUME Orderly, Faithful, NEW ch \in Channels, FirstContact(ch) \/ Wipe(ch)
  PROVE  Unread \/ Memory!StartOver(ch)
<1>0. PICK chain \in [Channels -> SUBSET ConvIds] : FaithfulAt(chain)
  BY DEF Faithful
<1>1. PICK c \in ConvIds : OpenedAs(c, Blank, {}) /\ ServedBy(ch, c)
  BY FreshDoes
<1>2. recorded' = recorded /\ author' = author /\ nulled' = nulled /\ op' = op
  BY DEF FirstContact, Wipe
<1>3. PICK created, gone : created = {c} /\ gone = {}
  OBVIOUS
<1>4. /\ StoreMoves(created, gone) /\ Kept(created, gone) /\ gone \subseteq chain[ch]
      /\ ledger'[c] = {} /\ digest'[c] = {}
  BY <1>1, <1>3 DEF OpenedAs, Blank
<1>5. Becomes(ch, c)
  <2>1. /\ Grounded(chain) /\ ServedBy(ch, c) /\ nulled' = nulled
        /\ ch \in Channels /\ c \in ConvIds /\ created = {c}
    BY <1>0, <1>1, <1>2, <1>3, <1>4, GroundedIs
  <2>2. StoreMoves(created, gone) /\ Kept(created, gone) /\ gone \subseteq chain[ch]
    BY <1>0, <1>1, <1>2, <1>3, <1>4
  <2> QED BY <1>4, <2>1, <2>2, ServedRemembers
<1>6. memory' = [memory EXCEPT ![ch] = {}]
  BY <1>4, <1>5 DEF Becomes
<1>7. CASE FirstContact(ch)
  <2>1. memory[ch] = {}
    BY <1>7 DEF FirstContact, memory
  <2>2. memory' = memory
    BY <1>6, <2>1 DEF memory
  <2> QED BY <1>2, <2>2 DEF Unread
<1>8. CASE Wipe(ch)
  <2>1. "wipe" \in Ops
    BY <1>8 DEF Wipe
  <2>2. retracting' = retracting
    BY <1>2 DEF retracting
  <2> QED BY <1>2, <1>6, <2>1, <2>2 DEF Memory!StartOver
<1> QED BY <1>7, <1>8

\* A channel that is handed what its thread read reads what it did.
LEMMA SameRead ==
  ASSUME NEW ch \in Channels, NEW c, NEW s, mapped[ch] = s, s # None,
         Becomes(ch, c),
         Alike(ledger'[c] \cup digest'[c], ledger[s] \cup digest[s])
  PROVE  memory' = memory
<1>1. memory[ch] = (ledger'[c] \cup digest'[c]) \ nulled
  BY DEF memory, Alike
<1> QED BY <1>1 DEF memory, Becomes

LEMMA StaleRemembers ==
  ASSUME Orderly, Faithful, NEW ch \in Channels, RetireStaleChannel(ch)
  PROVE  Unread
<1>0. PICK s, chain : /\ s = mapped[ch] /\ chain \in [Channels -> SUBSET ConvIds]
                      /\ FaithfulAt(chain)
  BY DEF Faithful
<1>1. mapped[ch] = s /\ s # None
  BY <1>0, RetireStaleDoes, MappedIs
<1>2. PICK c \in ConvIds : OpenedAs(c, Clone(s, {}), {}) /\ ServedBy(ch, c)
  BY <1>0, RetireStaleDoes
<1>3. recorded' = recorded /\ author' = author /\ nulled' = nulled
  BY DEF RetireStaleChannel
<1>4. PICK created, gone : created = {c} /\ gone = {}
  OBVIOUS
<1>5. /\ StoreMoves(created, gone) /\ Kept(created, gone) /\ gone \subseteq chain[ch]
      /\ ledger'[c] = ledger[s] /\ digest'[c] = digest[s]
  BY <1>2, <1>4 DEF OpenedAs, Clone
<1>6. Becomes(ch, c)
  <2>1. /\ Grounded(chain) /\ ServedBy(ch, c) /\ nulled' = nulled
        /\ ch \in Channels /\ c \in ConvIds /\ created = {c}
    BY <1>0, <1>2, <1>3, <1>4, <1>5, GroundedIs
  <2>2. StoreMoves(created, gone) /\ Kept(created, gone) /\ gone \subseteq chain[ch]
    BY <1>0, <1>2, <1>3, <1>4, <1>5
  <2> QED BY <1>4, <2>1, <2>2, ServedRemembers
<1>7. Alike(ledger'[c] \cup digest'[c], ledger[s] \cup digest[s])
  BY <1>5 DEF Alike
<1> QED BY <1>1, <1>3, <1>6, <1>7, SameRead DEF Unread

LEMMA InstallRemembers ==
  ASSUME Orderly, Faithful, NEW w \in Workers, InstallCompactedThread(w)
  PROVE  Unread
<1>0. PICK r, s, ch, chain : /\ r = op[w] /\ s = op[w].line[1] /\ ch = op[w].ch
                             /\ chain \in [Channels -> SUBSET ConvIds] /\ FaithfulAt(chain)
  BY DEF Faithful
<1>1. /\ r.do = "install" /\ ch \in Channels /\ s \in MappedConvs /\ s \in ConvIds
      /\ mapped[ch] = s /\ s # None /\ s \in Live
  BY <1>0, InstallDoes, MappedIs
<1>2. PICK c \in ConvIds : OpenedAs(c, CompactedThread(w), {}) /\ ServedBy(ch, c)
  BY <1>0, InstallDoes
<1>3. recorded' = recorded /\ author' = author /\ nulled' = nulled
  BY DEF InstallCompactedThread
<1>4. PICK created, gone : created = {c} /\ gone = {}
  OBVIOUS
<1>5. /\ StoreMoves(created, gone) /\ Kept(created, gone) /\ gone \subseteq chain[ch]
      /\ ledger'[c] = {m \in ledger[s] : m > r.cut} /\ digest'[c] = r.words
  BY <1>0, <1>2, <1>4 DEF OpenedAs, CompactedThread
<1>6. Becomes(ch, c)
  <2>1. /\ Grounded(chain) /\ ServedBy(ch, c) /\ nulled' = nulled
        /\ ch \in Channels /\ c \in ConvIds /\ created = {c}
    BY <1>0, <1>1, <1>2, <1>3, <1>4, <1>5, GroundedIs
  <2>2. StoreMoves(created, gone) /\ Kept(created, gone) /\ gone \subseteq chain[ch]
    BY <1>0, <1>1, <1>2, <1>3, <1>4, <1>5
  <2> QED BY <1>4, <2>1, <2>2, ServedRemembers
<1>7. r.cut \in 1 .. recorded /\ Alike(r.words, FirstHalf(s, r.cut)) /\ Known
  BY <1>0, <1>1 DEF FaithfulAt, Fits, SourceRead
<1>8. \A m \in ledger[s] : ~(m > r.cut) <=> m <= r.cut
  <2>1. ledger[s] \subseteq 1 .. recorded /\ recorded \in Nat
    BY <1>1, <1>7 DEF Known, Orderly, Typed, Contents
  <2> QED BY <1>7, <2>1
<1>9. Alike(ledger'[c] \cup digest'[c], ledger[s] \cup digest[s])
  BY <1>5, <1>7, <1>8 DEF Alike, FirstHalf
<1> QED BY <1>1, <1>3, <1>6, <1>9, SameRead DEF Unread

\* A channel that is handed what its thread read but for m forgets m.
LEMMA LessRead ==
  ASSUME NEW ch \in Channels, NEW c, NEW s, mapped[ch] = s, s # None, NEW m,
         Becomes(ch, c),
         Alike(ledger'[c] \cup digest'[c], (ledger[s] \cup digest[s]) \ {m}),
         recorded' = recorded, author' = author, m \in retracting,
         retracting' \in SUBSET retracting
  PROVE  Memory!Retract(ch, m)
<1>1. memory[ch] \ {m} = (ledger'[c] \cup digest'[c]) \ nulled
  BY DEF memory, Alike
<1>2. memory' = [memory EXCEPT ![ch] = memory[ch] \ {m}]
  BY <1>1 DEF Becomes
<1> QED BY <1>2 DEF Memory!Retract

LEMMA ReplaceRemembers ==
  ASSUME Orderly, Faithful, NEW w \in Workers, ReplaceWithClone(w), Serving(w) \in MappedConvs
  PROVE  Unread \/ \E ch \in Channels : \E m \in retracting : Memory!Retract(ch, m)
<1>0. PICK r, s, chain : /\ r = op[w] /\ s = Serving(w)
                         /\ chain \in [Channels -> SUBSET ConvIds] /\ FaithfulAt(chain)
  BY DEF Faithful
<1>1. r.do = "strip" /\ Idles(w) /\ s \in ConvIds /\ s \in Live /\ s # None
  BY <1>0, ReplaceDoes, MappedIs
<1>2. PICK ch \in Channels, c \in ConvIds :
         mapped[ch] = s /\ OpenedAs(c, Clone(s, r.strip), {s}) /\ ServedBy(ch, c)
  BY <1>0, ReplaceDoes
<1>3. recorded' = recorded /\ author' = author /\ nulled' = nulled
  BY DEF ReplaceWithClone
<1>4. PICK created, gone : created = {c} /\ gone = {s}
  OBVIOUS
<1>5. /\ StoreMoves(created, gone) /\ Kept(created, gone) /\ gone \subseteq chain[ch]
      /\ ledger'[c] = ledger[s] \ r.strip /\ digest'[c] = digest[s]
  BY <1>0, <1>1, <1>2, <1>4 DEF OpenedAs, Clone, FaithfulAt, Grounded
<1>6. Becomes(ch, c)
  <2>1. /\ Grounded(chain) /\ ServedBy(ch, c) /\ nulled' = nulled
        /\ ch \in Channels /\ c \in ConvIds /\ created = {c}
    BY <1>0, <1>2, <1>3, <1>4, <1>5, GroundedIs
  <2>2. StoreMoves(created, gone) /\ Kept(created, gone) /\ gone \subseteq chain[ch]
    BY <1>0, <1>2, <1>3, <1>4, <1>5
  <2> QED BY <1>4, <2>1, <2>2, ServedRemembers
<1>7. PICK m : r.strip = {m} /\ (m \in nulled \/ m \notin digest[s])
  BY <1>0, <1>1 DEF FaithfulAt, Fits, StripRead
<1>8. Alike(ledger'[c] \cup digest'[c], (ledger[s] \cup digest[s]) \ {m})
  BY <1>5, <1>7 DEF Alike
<1>9. m \in retracting /\ retracting' \in SUBSET retracting
  BY <1>0, <1>1, <1>7, DoneRetracting DEF retracting
<1>10. Memory!Retract(ch, m)
  BY <1>1, <1>2, <1>3, <1>6, <1>8, <1>9, LessRead
<1> QED BY <1>9, <1>10

LEMMA ScrubRemembers ==
  ASSUME Orderly, Faithful, NEW w \in Workers, InstallScrubbedThread(w)
  PROVE  Unread \/ \E ch \in Channels : \E m \in retracting : Memory!Retract(ch, m)
<1>0. PICK r, s, ch, chain : /\ r = op[w] /\ s = Serving(w) /\ ch = op[w].ch
                             /\ chain \in [Channels -> SUBSET ConvIds] /\ FaithfulAt(chain)
  BY DEF Faithful
<1>1. /\ r.do = "digest" /\ ch \in Channels /\ NextHop(w) = s /\ mapped[ch] = s
      /\ s \in ConvIds /\ s \in MappedConvs /\ ScrubOver(w) /\ s # None
  BY <1>0, InstallScrubbedDoes, MappedIs
<1>2. PICK c \in ConvIds : OpenedAs(c, Rebuilt(w, s), Range(r.line)) /\ ServedBy(ch, c)
  BY <1>0, InstallScrubbedDoes
<1>3. recorded' = recorded /\ author' = author /\ nulled' = nulled
  BY DEF InstallScrubbedThread
<1>4. PICK created, gone : created = {c} /\ gone = Range(r.line)
  OBVIOUS
<1>5. /\ StoreMoves(created, gone) /\ Kept(created, gone)
      /\ ledger'[c] = ledger[s] \ r.strip /\ digest'[c] = r.words
  BY <1>0, <1>2, <1>4 DEF OpenedAs, Rebuilt
<1>6. gone \subseteq chain[ch]
  <2>1. r.line \in LinesOf(op[w])
    BY <1>0, <1>1, ScrubReads
  <2>2. r.line \in Seq(ConvIds)
    BY <1>0, Reads DEF Orderly, Typed, OpRecord
  <2>3. Held(r.line, chain) /\ mapped[ch] = r.line[Len(r.line)]
    BY <1>0, <1>1, <2>1 DEF FaithfulAt, Fits, Serving
  <2>4. \A i \in 1 .. Len(r.line) : r.line[i] \in chain[ch]
    BY <1>1, <2>3 DEF Held
  <2> QED BY <1>4, <2>2, <2>4 DEF Range
<1>7. Becomes(ch, c)
  <2>1. /\ Grounded(chain) /\ ServedBy(ch, c) /\ nulled' = nulled
        /\ ch \in Channels /\ c \in ConvIds /\ created = {c}
    BY <1>0, <1>1, <1>2, <1>3, <1>4, <1>5, <1>6, GroundedIs
  <2>2. StoreMoves(created, gone) /\ Kept(created, gone) /\ gone \subseteq chain[ch]
    BY <1>0, <1>1, <1>2, <1>3, <1>4, <1>5, <1>6
  <2> QED BY <1>4, <2>1, <2>2, ServedRemembers
<1>8. Alike(r.words, digest[s] \ r.strip)
  BY <1>0, <1>1 DEF FaithfulAt, Fits, Rebuilding
<1>9. Alike(ledger'[c] \cup digest'[c], (ledger[s] \cup digest[s]) \ r.strip)
  BY <1>5, <1>8 DEF Alike
<1>10. CASE r.strip \subseteq nulled
  <2>1. Alike(ledger'[c] \cup digest'[c], ledger[s] \cup digest[s])
    BY <1>9, <1>10 DEF Alike
  <2> QED BY <1>1, <1>3, <1>7, <2>1, SameRead DEF Unread
<1>11. CASE ~(r.strip \subseteq nulled)
  <2>1. PICK m : r.strip = {m}
    BY <1>0, <1>11 DEF FaithfulAt, Fits, Strips
  <2>2. m \in retracting /\ retracting' \in SUBSET retracting
    BY <1>0, <1>1, <2>1, DoneRetracting DEF retracting
  <2>3. Alike(ledger'[c] \cup digest'[c], (ledger[s] \cup digest[s]) \ {m})
    BY <1>9, <2>1
  <2>4. Memory!Retract(ch, m)
    BY <1>1, <1>3, <1>7, <2>2, <2>3, LessRead
  <2> QED BY <1>1, <2>2, <2>4
<1> QED BY <1>10, <1>11

\* Nothing is forgotten of a person who has no chat of their own.
LEMMA EraseRemembers ==
  ASSUME Orderly, Faithful, Direct = {}, NEW w \in Workers, NEW p \in People, Erase(w, p)
  PROVE  Memory!Forget(p, {})
<1>1. "erase" \in Ops /\ recorded' = recorded /\ author' = author
      /\ nulled' = nulled \cup Authored(p)
  BY DEF Erase
<1>2. DirectConversationsOf(p) = {}
  BY DEF DirectConversationsOf
<1>3. PICK created, gone : created = {} /\ gone = {}
  OBVIOUS
<1>4. Kept(created, gone) /\ \A ch \in Channels : mapped'[ch] = mapped[ch]
  <2>1. \A ch \in Channels : mapped[ch] \notin DirectConversationsOf(p)
    BY <1>2
  <2>2. DeletedAs(DirectConversationsOf(p))
        /\ \A ch \in Channels : mapped'[ch] = IF mapped[ch] \in DirectConversationsOf(p)
                                              THEN None ELSE mapped[ch]
    BY EraseDoes
  <2> QED BY <1>2, <1>3, <2>1, <2>2 DEF DeletedAs
<1>5. \A d \in ConvIds : ledger'[d] = ledger[d] /\ digest'[d] = digest[d]
  BY <1>3, <1>4 DEF Kept
<1>6. \A d \in ConvIds : ledger[d] \subseteq 1 .. recorded /\ digest[d] \subseteq 1 .. recorded
  BY DEF Faithful, FaithfulAt, Known
<1>7. ASSUME NEW ch \in Channels PROVE Seen(ch)' = {m \in Seen(ch) : author[m] # p}
  <2>1. CASE mapped[ch] = None
    BY <1>4, <2>1 DEF Seen
  <2>2. CASE mapped[ch] # None
    <3>1. PICK s : s = mapped[ch]
      OBVIOUS
    <3>2. s \in ConvIds /\ mapped'[ch] = s /\ s # None
      BY <1>4, <2>2, <3>1 DEF Orderly, Typed, Contents
    <3>3. \A m \in ledger[s] \cup digest[s] : m \in Authored(p) <=> author[m] = p
      BY <1>6, <3>2 DEF Authored
    <3>4. ledger'[s] = ledger[s] /\ digest'[s] = digest[s]
      BY <1>5, <3>2
    <3>5. Seen(ch) = (ledger[s] \cup digest[s]) \ nulled
      BY <3>1, <3>2 DEF Seen
    <3>6. Seen(ch)' = (ledger[s] \cup digest[s]) \ nulled'
      BY <3>2, <3>4 DEF Seen
    <3> QED BY <1>1, <3>3, <3>5, <3>6
  <2> QED BY <2>1, <2>2
<1>8. memory' = [ch \in Channels |-> IF ch \in {} THEN {} ELSE {m \in memory[ch] : author[m] # p}]
  BY <1>7, SeenIs DEF memory, Seen
<1>9. retracting' = retracting
  <2>1. op[w].strip = {}
    BY EraseDoes DEF Faithful, FaithfulAt, Fits, Strips
  <2>2. op'[w].strip = {} /\ Others(w)
    BY EraseDoes
  <2> QED BY <2>1, <2>2 DEF Others, retracting
<1> QED BY <1>1, <1>8, <1>9 DEF Memory!Forget

\* What an operation opens and retires for itself.
LEMMA OpenedRemembers ==
  ASSUME Orderly, NEW c, NEW o, OpenedAs(c, o, {}), mapped' = mapped, nulled' = nulled
  PROVE  memory' = memory
<1>1. PICK created, gone : created = {c} /\ gone = {}
  OBVIOUS
<1>2. StoreMoves(created, gone) /\ Kept(created, gone) /\ \A d \in gone : d \notin MappedConvs
  BY <1>1 DEF OpenedAs
<1> QED BY <1>2, AsideRemembers

LEMMA DeletedRemembers ==
  ASSUME Orderly, NEW w \in Workers, NEW gone, DeletedAs(gone), gone \subseteq WorkingOf(op[w]),
         mapped' = mapped, nulled' = nulled
  PROVE  memory' = memory
<1>1. PICK created : created = {}
  OBVIOUS
<1>2. StoreMoves(created, gone) /\ Kept(created, gone)
  BY <1>1 DEF DeletedAs
<1>3. \A d \in gone : d \notin MappedConvs
  BY MappedIs
<1> QED BY <1>2, <1>3, AsideRemembers

LEMMA UnmovedRemembers ==
  ASSUME ledger' = ledger, digest' = digest, mapped' = mapped, nulled' = nulled
  PROVE  memory' = memory
  BY DEF memory

LEMMA StartsRemember ==
  ASSUME Orderly, NEW w \in Workers,
         \/ \E ch \in Channels : Compact(w, ch)
         \/ \E ch \in Channels, m \in Msgs : StripFromView(w, ch, m)
  PROVE  Unread
<1>1. ASSUME NEW ch \in Channels, Compact(w, ch) PROVE Unread
  <2>1. mapped' = mapped /\ nulled' = nulled /\ recorded' = recorded /\ author' = author
    BY <1>1 DEF Compact
  <2>2. PICK c, o : OpenedAs(c, o, {})
    BY <1>1, CompactDoes
  <2> QED BY <2>1, <2>2, OpenedRemembers DEF Unread
<1>2. ASSUME NEW ch \in Channels, NEW m \in Msgs, StripFromView(w, ch, m) PROVE Unread
  <2>1. /\ mapped' = mapped /\ nulled' = nulled /\ recorded' = recorded /\ author' = author
        /\ ledger' = ledger /\ digest' = digest
    BY <1>2 DEF StripFromView, content
  <2> QED BY <2>1, UnmovedRemembers DEF Unread
<1> QED BY <1>1, <1>2

\* The steps of an operation that hand no channel anything.
AsideStep(w) ==
    \/ CaptureAndRetire(w) \/ Unsummarized(w) \/ CompactionStandsDown(w)
    \/ CloneFails(w) \/ EraseScrubsNext(w)
    \/ ScrubBegins(w) \/ ScrubHasNoChannel(w)
    \/ RegenerateFork(w) \/ RegenerateRead(w) \/ RebuildHop(w) \/ ScrubStandsDown(w)

LEMMA AsidesRemember ==
  ASSUME Orderly, NEW w \in Workers, AsideStep(w)
  PROVE  Unread
<1>0. mapped' = mapped /\ nulled' = nulled /\ recorded' = recorded /\ author' = author
  BY DEF AsideStep, CaptureAndRetire, Unsummarized, CompactionStandsDown, CloneFails,
         EraseScrubsNext, ScrubBegins, ScrubHasNoChannel, RegenerateFork, RegenerateRead,
         RebuildHop, ScrubStandsDown, content
<1>1. CASE CaptureAndRetire(w) \/ Unsummarized(w) \/ RegenerateRead(w) \/ ScrubStandsDown(w)
  <2>1. PICK gone : DeletedAs(gone) /\ gone \subseteq WorkingOf(op[w])
    BY <1>1, CaptureDoes, UnsummarizedDoes, ReadDoes, StandsDownDoes
  <2> QED BY <1>0, <2>1, DeletedRemembers DEF Unread
<1>2. CASE CompactionStandsDown(w) \/ EraseScrubsNext(w) \/ ScrubHasNoChannel(w)
  <2>1. ledger' = ledger /\ digest' = digest
    BY <1>2 DEF CompactionStandsDown, EraseScrubsNext, ScrubHasNoChannel, content
  <2> QED BY <1>0, <2>1, UnmovedRemembers DEF Unread
<1>3. CASE CloneFails(w) \/ ScrubBegins(w) \/ RegenerateFork(w) \/ RebuildHop(w)
  <2>1. PICK c, o : OpenedAs(c, o, {})
    BY <1>3, CloneFailsDoes, ScrubBeginsDoes, ForkDoes, HopDoes
  <2> QED BY <1>0, <2>1, OpenedRemembers DEF Unread
<1> QED BY <1>1, <1>2, <1>3 DEF AsideStep

LEMMA ProceedsRemembers ==
  ASSUME Orderly, Faithful, NEW w \in Workers, Proceeds(w)
  PROVE  Unread \/ \E ch \in Channels : \E m \in retracting : Memory!Retract(ch, m)
<1>1. CASE AsideStep(w)
  BY <1>1, AsidesRemember
<1>2. CASE InstallCompactedThread(w) \/ InstallScrubbedThread(w)
  BY <1>2, InstallRemembers, ScrubRemembers
<1>3. CASE ReplaceWithClone(w)
  <2>1. CASE Serving(w) \in MappedConvs
    BY <1>3, <2>1, ReplaceRemembers
  <2>2. CASE Serving(w) \notin MappedConvs
    <3>1. ledger' = ledger /\ digest' = digest /\ mapped' = mapped
      BY <1>3, <2>2, ReplaceDoes
    <3>2. nulled' = nulled /\ recorded' = recorded /\ author' = author
      BY <1>3 DEF ReplaceWithClone
    <3> QED BY <3>1, <3>2, UnmovedRemembers DEF Unread
  <2> QED BY <2>1, <2>2
<1> QED BY <1>1, <1>2, <1>3 DEF Proceeds, AsideStep

LEMMA NextRemembers ==
  ASSUME Undivided, Orderly, Faithful, [Next]_vars, retracting' \in SUBSET (1 .. recorded')
  PROVE  [Memory!MemoryNext]_Memory!memoryVars
<1>1. CASE UNCHANGED vars
  <2>1. UNCHANGED <<ledger, digest, mapped, nulled, op, recorded, author>>
    BY <1>1 DEF vars, content
  <2>2. memory' = memory /\ retracting' = retracting
    BY <2>1, UnmovedRemembers DEF retracting
  <2> QED BY <2>1, <2>2 DEF Memory!memoryVars
<1>2. Unread => Memory!MemoryNext
  BY QuietRemembers DEF Unread
<1>3. (\E ch \in Channels : \E m \in retracting : Memory!Retract(ch, m)) => Memory!MemoryNext
  BY DEF Memory!MemoryNext
<1>4. ASSUME NEW w \in Workers, Starts(w) PROVE Memory!MemoryNext
  <2>1. ASSUME NEW p \in People, Erase(w, p) PROVE Memory!MemoryNext
    <3>1. Direct = {}
      BY <2>1 DEF Erase, Undivided
    <3>2. Memory!Forget(p, {})
      BY <2>1, <3>1, EraseRemembers
    <3> QED BY <3>2 DEF Memory!MemoryNext
  <2> QED BY <1>2, <1>4, <2>1, StartsRemember DEF Starts
<1>5. ASSUME NEW w \in Workers, Proceeds(w) PROVE Memory!MemoryNext
  BY <1>2, <1>3, <1>5, ProceedsRemembers
<1>6. ASSUME NEW ch \in Channels PROVE
         /\ FirstContact(ch) \/ Wipe(ch) => Memory!MemoryNext
         /\ MapNewChannelFails(ch) => Memory!MemoryNext
         /\ (\E p \in People : Ingest(ch, p)) => Memory!MemoryNext
         /\ RetireStaleChannel(ch) => Memory!MemoryNext
  <2>1. FirstContact(ch) \/ Wipe(ch) => Memory!MemoryNext
    BY <1>2, FreshRemembers DEF Memory!MemoryNext
  <2>2. MapNewChannelFails(ch) => Memory!MemoryNext
    <3> SUFFICES ASSUME MapNewChannelFails(ch) PROVE Unread
      BY <1>2
    <3>1. PICK c : OpenedAs(c, Blank, {})
      BY MapFailsDoes
    <3>2. mapped' = mapped /\ nulled' = nulled /\ recorded' = recorded /\ author' = author
      BY DEF MapNewChannelFails
    <3> QED BY <3>1, <3>2, OpenedRemembers DEF Unread
  <2>3. (\E p \in People : Ingest(ch, p)) => Memory!MemoryNext
    BY IngestRemembers DEF Memory!MemoryNext
  <2>4. RetireStaleChannel(ch) => Memory!MemoryNext
    BY <1>2, StaleRemembers
  <2> QED BY <2>1, <2>2, <2>3, <2>4
<1>7. Crash => Memory!MemoryNext
  <2> SUFFICES ASSUME Crash PROVE Unread
    BY <1>2
  <2> QED BY UnmovedRemembers DEF Crash, content, Unread
<1>8. ASSUME NEW c \in ConvIds, Expire(c) PROVE FALSE
  BY <1>8 DEF Expire, Undivided
<1>9. ASSUME NEW w \in Workers, NEW ch \in Channels, SwapTorn(w, ch) PROVE FALSE
  BY <1>9 DEF SwapTorn, Undivided
<1> QED BY <1>1, <1>4, <1>5, <1>6, <1>7, <1>8, <1>9 DEF Next

LEMMA InitRemembers == Init => Memory!MemoryInit
<1> SUFFICES ASSUME Init PROVE Memory!MemoryInit
  OBVIOUS
<1>1. memory = [ch \in Channels |-> {}] /\ recorded = 0 /\ author = <<>>
  BY DEF Init, memory
<1>2. retracting = {}
  BY DEF Init, Idle, retracting
<1> QED BY <1>1, <1>2 DEF Memory!MemoryInit

\* The sessions implement the channel's memory: whatever is compacted,
\* retracted, scrubbed or started again under it, what can be read of a channel
\* changes only by a message recorded, a message retracted, an erased person's
\* words, or a wipe (session.rs, erasure.rs).
THEOREM MemoryIsKept ==
  ASSUME Undivided
  PROVE  Spec => MemoryKept
<1>1. Orderly /\ Faithful /\ [Next]_vars => Faithful'
  BY NextFaithful
<1>2. Orderly /\ Faithful /\ [Next]_vars /\ Orderly' /\ Faithful'
         => [Memory!MemoryNext]_Memory!memoryVars
  <2>1. Orderly' /\ Faithful' => (retracting \in SUBSET (1 .. recorded))'
    BY RetractingKnown, PTL
  <2> QED BY <2>1, NextRemembers
<1>3. "expire" \notin Ops
  BY DEF Undivided
<1>4. Spec => []Orderly
  BY <1>3, SessionsOrderly
<1> QED BY <1>1, <1>2, <1>4, InitFaithful, InitRemembers, PTL
        DEF Spec, MemoryKept, Memory!MemorySpec

\* A summary is installed on the conversation it was written from: while one
\* channel's thread is summarised, its id is not issued to another (session.rs).
THEOREM InstallsOnItsSource ==
  ASSUME Undivided
  PROVE  Spec => InstallContinuesItsSource
<1>1. Orderly /\ Faithful /\ [Next]_vars => Faithful'
  BY NextFaithful
<1>2. Orderly /\ Faithful =>
         [\A w \in Workers :
            InstallCompactedThread(w) => born[op[w].line[1]] = op[w].birth]_vars
  <2> SUFFICES ASSUME Orderly, Faithful, NEW w \in Workers, InstallCompactedThread(w)
               PROVE  born[op[w].line[1]] = op[w].birth
    OBVIOUS
  <2>1. op[w].do = "install" /\ op[w].line[1] \in Live
    BY InstallDoes, MappedIs
  <2> QED BY <2>1 DEF Faithful, FaithfulAt, Fits, SourceRead
<1>3. Spec => []Orderly
  BY SessionsOrderly DEF Undivided
<1> QED BY <1>1, <1>2, <1>3, InitFaithful, PTL DEF Spec, InstallContinuesItsSource
=============================================================================
