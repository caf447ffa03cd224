-------------------------------- MODULE Sessions --------------------------------
(***************************************************************************)
(* A channel's sessions (core/src/session.rs, with erasure.rs, lineage.rs, *)
(* mapping.rs and retention.rs): which conversation serves a channel, what *)
(* a compaction, a strip, a scrub, an erasure, the retention sweep and a   *)
(* restart do to it, and what the model serving it can still read.         *)
(*                                                                         *)
(* A ledger is the set of the messages its junction rows name; a digest is *)
(* the set of the messages whose words its prose retells.  What runs under *)
(* the erasure fence and the stamp lock is one step; a model turn runs     *)
(* outside both, so a compaction and a scrub are several.                  *)
(***************************************************************************)
EXTENDS ConversationStore, Sequences, SequencesExt

CONSTANTS
    Channels,   \* the chats
    Direct,     \* those that are two-party
    People,     \* the principals writing in them
    Workers,    \* bound: the operations that may run at once
    MaxMsgs,    \* bound: messages ever recorded
    Ops         \* what may happen in this instance

ASSUME SessionsAssumption ==
    /\ MaxMsgs \in Nat
    /\ Direct \subseteq Channels
    /\ Ops \subseteq {"wipe", "compact", "retract", "erase", "expire", "restart",
                      "silence", "fault", "torn"}

Msgs == 1..MaxMsgs

VARIABLES
    \* the store, beside the conversations' ids and references
    ledger,    \* conversation -> the messages it holds
    digest,    \* conversation -> the messages its opening summary retells
    mapped,    \* channel -> the conversation serving it
    recorded,  \* messages recorded so far
    author,    \* message -> who wrote it
    nulled,    \* messages whose stored words an erasure nulled
    \* the operations in progress
    op,        \* worker -> what it is doing
    \* for the properties (ghosts)
    served,    \* births that have served a channel
    residual   \* messages whose scrub failed or stood down, and a digest retells yet

content == <<ledger, digest, recorded, author, nulled>>
vars == <<storeVars, content, mapped, op, served, residual>>

\* A lineage to scrub: its conversations from the root up to the serving one,
\* and the messages it must lose.
Plans == [line : Seq(ConvIds), strip : SUBSET Msgs]

Idle == [do |-> "idle", ch |-> None, line |-> <<>>, birth |-> None, strip |-> {},
         made |-> <<>>, temp |-> None, cut |-> None, words |-> {}, plans |-> {}]

Stages == {"idle", "capture", "install", "strip", "erase", "scrub", "fork", "digest"}

TypeOK ==
    /\ StoreTypeOK
    /\ ledger \in [ConvIds -> SUBSET Msgs]
    /\ digest \in [ConvIds -> SUBSET Msgs]
    /\ mapped \in [Channels -> ConvIds \cup {None}]
    /\ recorded \in 0..MaxMsgs
    /\ author \in [1..recorded -> People]
    /\ nulled \subseteq 1..recorded
    /\ DOMAIN op = Workers
    /\ \A w \in Workers :
          /\ op[w].do \in Stages
          /\ op[w].ch \in Channels \cup {None}
          /\ op[w].line \in Seq(ConvIds)
          /\ op[w].birth \in Births \cup {None}
          /\ op[w].strip \subseteq Msgs
          /\ op[w].made \in Seq(ConvIds)
          /\ op[w].temp \in ConvIds \cup {None}
          /\ op[w].cut \in Msgs \cup {None}
          /\ op[w].words \subseteq Msgs
          /\ op[w].plans \subseteq Plans
    /\ served \subseteq Births
    /\ residual \subseteq Msgs

Init ==
    /\ StoreInit
    /\ ledger = [c \in ConvIds |-> {}]
    /\ digest = [c \in ConvIds |-> {}]
    /\ mapped = [ch \in Channels |-> None]
    /\ recorded = 0
    /\ author = <<>>
    /\ nulled = {}
    /\ op = [w \in Workers |-> Idle]
    /\ served = {}
    /\ residual = {}

-----------------------------------------------------------------------------
(* The store *)

MappedConvs == {mapped[ch] : ch \in Channels} \ {None}
ChannelOf(c) == CHOOSE ch \in Channels : mapped[ch] = c

\* What a new conversation opens with: nothing but its prompt, or ...
Blank == [ledger |-> {}, digest |-> {}, parent |-> None, birth |-> None]

\* ... as a fork: its source's rows, the opening of a compacted thread among
\* them, minus what is stripped.
Clone(s, strip) == [ledger |-> ledger[s] \ strip, digest |-> digest[s],
                    parent |-> parent[s], birth |-> parentBirth[s]]

\* Conversation c is created with opening o; the conversations in gone are
\* deleted in the same stretch.
Opens(c, o, gone) ==
    LET At(f, new) == [d \in ConvIds |-> IF d = c THEN new
                                         ELSE IF d \in gone THEN {} ELSE f[d]]
    IN /\ OpenedAndDropped(c, [conv |-> o.parent, birth |-> o.birth], gone)
       /\ ledger' = At(ledger, o.ledger)
       /\ digest' = At(digest, o.digest)

Deletes(gone) ==
    LET Left(f) == [d \in ConvIds |-> IF d \in gone THEN {} ELSE f[d]]
    IN /\ Dropped(gone)
       /\ ledger' = Left(ledger)
       /\ digest' = Left(digest)

\* Channel ch is served by the conversation born in this step as c.
Serves(ch, c) ==
    /\ mapped' = [mapped EXCEPT ![ch] = c]
    /\ served' = served \cup {births + 1}

\* Faulty variant: the walk stops after one hop.
OneHop(serving) ==
    IF parent[serving] \in Live THEN <<parent[serving], serving>> ELSE <<serving>>

\* The conversations a thread stands on, root first: the walk ends at a
\* conversation that continues nothing, at a reference that no longer reads,
\* and before one it has already walked.
Lineage(serving) ==
    LET walk[n \in ConvIds] ==
          IF n = 1 THEN <<serving>>
          ELSE LET below == walk[n - 1]
                   a == parent[Head(below)]
               IN IF a \in Live /\ a \notin Range(below) THEN <<a>> \o below
                                                          ELSE below
    IN walk[MaxConv]

\* Faulty variant: an opening digest is left out of the next one.
RowsOnly(rows, prose) == rows \ nulled

\* The words a model turn over rows and an opening digest can retell.
Readable(rows, prose) == (rows \ nulled) \cup prose

Idles(w) == op' = [op EXCEPT ![w] = Idle]

\* A scrub is over: the erasure it belongs to goes on with its other lineages.
ScrubOver(w) ==
    op' = [op EXCEPT ![w] = IF op[w].plans = {} THEN Idle
                            ELSE [Idle EXCEPT !.do = "erase", !.plans = op[w].plans]]

-----------------------------------------------------------------------------
(* Ingestion and the wipe *)

\* First contact creates and maps a conversation ...
FirstContact(ch) ==
    /\ mapped[ch] = None
    /\ \E c \in ConvIds : Opens(c, Blank, {}) /\ Serves(ch, c)
    /\ UNCHANGED <<recorded, author, nulled, op, residual>>

\* ... and every message is recorded in the one its channel is on, under the
\* two holds.
Ingest(ch, p) ==
    /\ mapped[ch] # None
    /\ recorded < MaxMsgs
    /\ recorded' = recorded + 1
    /\ author' = Append(author, p)
    /\ ledger' = [ledger EXCEPT ![mapped[ch]] = @ \cup {recorded + 1}]
    /\ UNCHANGED <<storeVars, digest, nulled, mapped, op, served, residual>>

\* /wipe points the channel at a fresh conversation; the old one stands.
Wipe(ch) ==
    /\ "wipe" \in Ops
    /\ mapped[ch] # None
    /\ \E c \in ConvIds : Opens(c, Blank, {}) /\ Serves(ch, c)
    /\ UNCHANGED <<recorded, author, nulled, op, residual>>

\* A write after the creation fails: the call returns its error, and the
\* conversation it created is neither mapped nor retired.
MapNewChannelFails(ch) ==
    /\ "fault" \in Ops
    /\ mapped[ch] = None
    /\ \E c \in ConvIds : Opens(c, Blank, {})
    /\ UNCHANGED <<recorded, author, nulled, mapped, op, served, residual>>

-----------------------------------------------------------------------------
(* Compaction *)

\* compact: the source's first half is forked into a temporary conversation ...
Compact(w, ch) ==
    LET source == mapped[ch]
    IN /\ "compact" \in Ops
       /\ op[w].do = "idle"
       /\ source # None
       /\ \E c \in ConvIds, cut \in ledger[source] :
             /\ Opens(c, [Clone(source, {}) EXCEPT
                            !.ledger = {m \in ledger[source] : m <= cut}], {})
             /\ op' = [op EXCEPT ![w] = [Idle EXCEPT
                         !.do = "capture", !.ch = ch, !.line = <<source>>,
                         !.birth = born[source], !.temp = c, !.cut = cut]]
    /\ UNCHANGED <<recorded, author, nulled, mapped, served, residual>>

\* ... a model turn reads it, and it is retired ...
CaptureAndRetire(w) ==
    LET t == op[w].temp
    IN /\ op[w].do = "capture"
       /\ Deletes({t})
       /\ op' = [op EXCEPT ![w] = [@ EXCEPT
                   !.do = "install", !.temp = None,
                   !.words = Readable(ledger[t], digest[t])]]
       /\ UNCHANGED <<recorded, author, nulled, mapped, served, residual>>

\* Faulty variant: the temporary conversation is not retired.
UnsummarizedKept(w) ==
    /\ "silence" \in Ops
    /\ op[w].do = "capture"
    /\ Idles(w)
    /\ UNCHANGED <<storeVars, content, mapped, served, residual>>

\* ... or the turn writes nothing, and nothing is swapped ...
Unsummarized(w) ==
    /\ "silence" \in Ops
    /\ op[w].do = "capture"
    /\ Deletes({op[w].temp})
    /\ Idles(w)
    /\ UNCHANGED <<recorded, author, nulled, mapped, served, residual>>

CompactedThread(w) ==
    LET source == op[w].line[1]
    IN [ledger |-> {m \in ledger[source] : m > op[w].cut}, digest |-> op[w].words,
        parent |-> source, birth |-> born[source]]

\* ... and the thread opened on the summary and the second half takes the
\* channel, if the channel is still on the source.
InstallCompactedThread(w) ==
    LET source == op[w].line[1]
    IN /\ op[w].do = "install"
       /\ mapped[op[w].ch] = source
       /\ \E c \in ConvIds : Opens(c, CompactedThread(w), {}) /\ Serves(op[w].ch, c)
       /\ Idles(w)
       /\ UNCHANGED <<recorded, author, nulled, residual>>

\* Faulty variant: a channel that is on no conversation is waited for.
WaitsForChannel(w) ==
    /\ op[w].do = "install"
    /\ mapped[op[w].ch] \notin {None, op[w].line[1]}
    /\ Idles(w)
    /\ UNCHANGED <<storeVars, content, mapped, served, residual>>

CompactionStandsDown(w) ==
    /\ op[w].do = "install"
    /\ mapped[op[w].ch] # op[w].line[1]
    /\ Idles(w)
    /\ UNCHANGED <<storeVars, content, mapped, served, residual>>

-----------------------------------------------------------------------------
(* The retraction's strip *)

\* strip_from_view reads the lineage.  A stripped block below the serving
\* thread has reached a digest: the lineage is scrubbed.
StripFromView(w, ch, m) ==
    LET line == Lineage(mapped[ch])
        below == UNION {ledger[c] : c \in Range(Front(line))}
    IN /\ "retract" \in Ops
       /\ op[w].do = "idle"
       /\ mapped[ch] # None
       /\ m \in ledger[mapped[ch]] \cup below
       /\ op' = [op EXCEPT ![w] = [Idle EXCEPT
                   !.do = IF m \in below THEN "scrub" ELSE "strip",
                   !.line = line, !.strip = {m}]]
       /\ UNCHANGED <<storeVars, content, mapped, served, residual>>

Serving(w) == op[w].line[Len(op[w].line)]

\* replace_with_clone: the channel is handed a clone without the block and
\* what it replaces is retired, if a channel is still on it.
ReplaceWithClone(w) ==
    LET serving == Serving(w)
    IN /\ op[w].do = "strip"
       /\ \/ /\ serving \in MappedConvs
             /\ \E c \in ConvIds :
                   /\ Opens(c, Clone(serving, op[w].strip), {serving})
                   /\ Serves(ChannelOf(serving), c)
          \/ /\ serving \notin MappedConvs
             /\ UNCHANGED <<storeVars, ledger, digest, mapped, served>>
       /\ Idles(w)
       /\ UNCHANGED <<recorded, author, nulled, residual>>

\* cloned_without fails between the fork and the detaching.
CloneFails(w) ==
    /\ "fault" \in Ops
    /\ op[w].do = "strip"
    /\ Serving(w) \in MappedConvs
    /\ \E c \in ConvIds : Opens(c, Clone(Serving(w), {}), {})
    /\ Idles(w)
    /\ UNCHANGED <<recorded, author, nulled, mapped, served, residual>>

-----------------------------------------------------------------------------
(* The scrub of a compacted lineage *)

\* What a thread inherited from the one it continues is the complement of
\* the span its digest retells.
Span(clone, hop) == [ledger |-> ledger[clone] \ ledger[hop],
                     digest |-> digest[clone],
                     parent |-> parent[clone], birth |-> parentBirth[clone]]

\* The root is cloned without the stripped messages, if the lineage still
\* serves a channel.  (A root deleted since clones to an empty conversation,
\* which the next step reads nothing from.)
ScrubBegins(w) ==
    LET line == op[w].line
    IN /\ op[w].do = "scrub"
       /\ Serving(w) \in MappedConvs
       /\ \E c \in ConvIds :
             /\ Opens(c, Clone(line[1], op[w].strip), {})
             /\ op' = [op EXCEPT ![w] = [@ EXCEPT
                         !.do = "fork", !.made = <<c>>, !.birth = births + 1,
                         !.ch = ChannelOf(Serving(w))]]
       /\ UNCHANGED <<recorded, author, nulled, mapped, served, residual>>

ScrubHasNoChannel(w) ==
    /\ op[w].do = "scrub"
    /\ Serving(w) \notin MappedConvs
    /\ ScrubOver(w)
    /\ residual' = residual \cup op[w].strip
    /\ UNCHANGED <<storeVars, content, mapped, served>>

\* How many conversations of the lineage are rebuilt, and the next one.
Made(w) == op[w].made[Len(op[w].made)]
NextHop(w) == op[w].line[Len(op[w].made) + 1]

\* regenerated_digest: a temporary fork of the clone below, over what the next
\* conversation never inherited ...
RegenerateFork(w) ==
    /\ op[w].do = "fork"
    /\ op[w].temp = None
    /\ Made(w) \in Live
    /\ \E c \in ConvIds :
          /\ Opens(c, Span(Made(w), NextHop(w)), {})
          /\ op' = [op EXCEPT ![w] = [@ EXCEPT !.temp = c]]
    /\ UNCHANGED <<recorded, author, nulled, mapped, served, residual>>

\* ... read by a model turn and retired.
RegenerateRead(w) ==
    LET t == op[w].temp
    IN /\ op[w].do = "fork"
       /\ t # None
       /\ Deletes({t})
       /\ op' = [op EXCEPT ![w] = [@ EXCEPT
                   !.do = "digest", !.temp = None,
                   !.words = Readable(ledger[t], digest[t])]]
       /\ UNCHANGED <<recorded, author, nulled, mapped, served, residual>>

\* Faulty variant: the rebuilt thread keeps the reference to what the clone
\* below it replaces.
RebuiltOnOld(w, hop) ==
    [ledger |-> ledger[hop] \ op[w].strip, digest |-> op[w].words,
     parent |-> op[w].line[Len(op[w].made)], birth |-> op[w].birth]

\* The thread rebuilt for conversation hop on the clone below it.
Rebuilt(w, hop) == [ledger |-> ledger[hop] \ op[w].strip, digest |-> op[w].words,
                    parent |-> Made(w), birth |-> op[w].birth]

\* An intermediate conversation's clone, holds-free.
RebuildHop(w) ==
    /\ op[w].do = "digest"
    /\ NextHop(w) # Serving(w)
    /\ \E c \in ConvIds :
          /\ Opens(c, Rebuilt(w, NextHop(w)), {})
          /\ op' = [op EXCEPT ![w] = [@ EXCEPT
                      !.do = "fork", !.made = Append(op[w].made, c),
                      !.birth = births + 1, !.words = {}]]
    /\ UNCHANGED <<recorded, author, nulled, mapped, served, residual>>

\* The serving thread's clone takes the channel, if the channel is still on
\* that thread, and the whole old lineage is retired.  What it stripped is residual
\* no more, unless another channel's digest still retells it.
InstallScrubbedThread(w) ==
    /\ op[w].do = "digest"
    /\ NextHop(w) = Serving(w)
    /\ mapped[op[w].ch] = Serving(w)
    /\ \E c \in ConvIds :
          /\ Opens(c, Rebuilt(w, Serving(w)), Range(op[w].line))
          /\ Serves(op[w].ch, c)
    /\ ScrubOver(w)
    /\ residual' = {m \in residual : m \in op[w].strip =>
                      \E c \in MappedConvs \ {Serving(w)} : m \in digest[c]}
    /\ UNCHANGED <<recorded, author, nulled>>

\* The channel moved on, a regeneration wrote nothing, or there is no clone to
\* read: what was built goes and the old lineage stands.
ScrubStandsDown(w) ==
    /\ \/ /\ op[w].do = "digest"
          /\ NextHop(w) = Serving(w)
          /\ mapped[op[w].ch] # Serving(w)
       \/ /\ op[w].do = "fork"
          /\ \/ "silence" \in Ops /\ op[w].temp # None
             \/ Made(w) \notin Live /\ op[w].temp = None
    /\ Deletes(Range(op[w].made) \cup ({op[w].temp} \ {None}))
    /\ ScrubOver(w)
    /\ residual' = residual \cup op[w].strip
    /\ UNCHANGED <<recorded, author, nulled, mapped, served>>

-----------------------------------------------------------------------------
(* Erasure, retention, restart *)

\* A person is erased behind the fence: the lineages their messages reached
\* are noted, their words nulled, and every mapped direct conversation that
\* carries them unmapped and deleted.  The scrubs follow, past the fence.
Authored(p) == {m \in 1..recorded : author[m] = p}

LineagesOf(p) ==
    {[line |-> line, strip |-> Authored(p)] :
        line \in {l \in {Lineage(c) : c \in MappedConvs} :
                    /\ Len(l) > 1
                    /\ \E c \in Range(l) : ledger[c] \cap Authored(p) # {}}}

DirectConversationsOf(p) ==
    {mapped[ch] : ch \in {d \in Direct : /\ mapped[d] # None
                                         /\ ledger[mapped[d]] \cap Authored(p) # {}}}

Erase(w, p) ==
    LET plans == LineagesOf(p)
        gone == DirectConversationsOf(p)
    IN /\ "erase" \in Ops
       /\ op[w].do = "idle"
       /\ Authored(p) # {}
       /\ nulled' = nulled \cup Authored(p)
       /\ Deletes(gone)
       /\ mapped' = [ch \in Channels |-> IF mapped[ch] \in gone THEN None ELSE mapped[ch]]
       /\ op' = [op EXCEPT ![w] = IF plans = {} THEN Idle
                                  ELSE [Idle EXCEPT !.do = "erase", !.plans = plans]]
       /\ UNCHANGED <<recorded, author, served, residual>>

EraseScrubsNext(w) ==
    /\ op[w].do = "erase"
    /\ \E plan \in op[w].plans :
          op' = [op EXCEPT ![w] = [@ EXCEPT
                   !.do = "scrub", !.line = plan.line,
                   !.strip = plan.strip, !.plans = op[w].plans \ {plan}]]
    /\ UNCHANGED <<storeVars, content, mapped, served, residual>>

\* An operation lasts minutes, so what it wrote is never old enough to expire;
\* the clone of a scrub's root holds no block of its own.
Written(w) == {op[w].temp} \cup Range(SubSeq(op[w].made, 2, Len(op[w].made)))

\* The sweep unmaps and deletes a conversation whose newest block is older
\* than the span.
Expire(c) ==
    /\ "expire" \in Ops
    /\ c \in Live
    /\ \A w \in Workers : c \notin Written(w)
    /\ Deletes({c})
    /\ mapped' = [ch \in Channels |-> IF mapped[ch] = c THEN None ELSE mapped[ch]]
    /\ UNCHANGED <<recorded, author, nulled, op, served, residual>>

ProcessEnds ==
    /\ op' = [w \in Workers |-> Idle]
    /\ residual' = residual
                     \cup (UNION {op[w].strip : w \in Workers})
                     \cup (UNION {UNION {plan.strip : plan \in op[w].plans} :
                                    w \in Workers})

\* The process ends; what its operations had built stands.
Crash ==
    /\ "restart" \in Ops
    /\ op # [w \in Workers |-> Idle]
    /\ ProcessEnds
    /\ UNCHANGED <<storeVars, content, mapped, served>>

\* swap_channel unmaps the replaced thread and claims the channel for the new
\* one in two writes; the process ends between them.  Both threads stand.
SwapTorn(w, ch) ==
    /\ "torn" \in Ops
    /\ \E c \in ConvIds :
          \/ /\ op[w].do = "install" /\ mapped[ch] = op[w].line[1]
             /\ Opens(c, CompactedThread(w), {})
          \/ /\ op[w].do = "strip" /\ mapped[ch] = Serving(w)
             /\ Opens(c, Clone(Serving(w), op[w].strip), {})
          \/ /\ op[w].do = "digest" /\ NextHop(w) = Serving(w) /\ mapped[ch] = Serving(w)
             /\ Opens(c, Rebuilt(w, Serving(w)), {})
    /\ mapped' = [mapped EXCEPT ![ch] = None]
    /\ ProcessEnds
    /\ UNCHANGED <<recorded, author, nulled, served>>

\* It starts with another prompt or model, before anything is served: a stale
\* channel is handed a fork of its conversation, which stands.
RetireStaleChannel(ch) ==
    /\ "restart" \in Ops
    /\ op = [w \in Workers |-> Idle]
    /\ mapped[ch] # None
    /\ \E c \in ConvIds : Opens(c, Clone(mapped[ch], {}), {}) /\ Serves(ch, c)
    /\ UNCHANGED <<recorded, author, nulled, op, residual>>

\* An operation starts ...
Starts(w) ==
    \/ \E ch \in Channels : Compact(w, ch)
    \/ \E ch \in Channels, m \in Msgs : StripFromView(w, ch, m)
    \/ \E p \in People : Erase(w, p)

\* ... and goes on.
Proceeds(w) ==
    \/ CaptureAndRetire(w) \/ Unsummarized(w)
    \/ InstallCompactedThread(w) \/ CompactionStandsDown(w)
    \/ ReplaceWithClone(w) \/ CloneFails(w)
    \/ EraseScrubsNext(w)
    \/ ScrubBegins(w) \/ ScrubHasNoChannel(w)
    \/ RegenerateFork(w) \/ RegenerateRead(w) \/ RebuildHop(w)
    \/ InstallScrubbedThread(w) \/ ScrubStandsDown(w)

Next ==
    \/ \E ch \in Channels : \/ FirstContact(ch) \/ Wipe(ch)
                            \/ MapNewChannelFails(ch)
                            \/ \E p \in People : Ingest(ch, p)
                            \/ RetireStaleChannel(ch)
    \/ \E w \in Workers : Starts(w) \/ Proceeds(w)
    \/ \E c \in ConvIds : Expire(c)
    \/ Crash
    \/ \E w \in Workers, ch \in Channels : SwapTorn(w, ch)

Spec == Init /\ [][Next]_vars

\* An operation under way is scheduled again: a capture ends at its bound, and
\* the two holds are granted in turn.
FairSpec == Spec /\ \A w \in Workers : WF_vars(Proceeds(w))
-----------------------------------------------------------------------------
(* Properties *)

\* What the model serving a channel can read of it.
memory == [ch \in Channels |->
             IF mapped[ch] = None THEN {}
             ELSE (ledger[mapped[ch]] \cup digest[mapped[ch]]) \ nulled]

\* The messages a strip or a scrub under way is to take away.
retracting == UNION {op[w].strip : w \in Workers}

\* Whatever happens to a channel's sessions, its memory changes only as the
\* abstract memory does: no swap loses a message, and none brings one back.
Memory == INSTANCE ChannelMemory WITH memory <- memory, retracting <- retracting
MemoryKept == Memory!MemorySpec

\* As long as the sweep leaves a scrub's clones alone, the sessions use the
\* store's ids as ConversationStore describes, whose references are sound
\* (LineageSound): the lineage walk reads what a thread stands on.
StoreKept == StoreSpec

\* Once an erasure's scrubs are over, no serving thread's digest retells an
\* erased person's words, unless a scrub failed and said so.
ErasedWordsGone ==
    (\A w \in Workers : op[w].do = "idle") =>
        \A c \in MappedConvs : digest[c] \cap nulled \subseteq residual

\* "A thread this module opens is MAPPED or RETIRED before the call that built
\* it returns" (session.rs): what stands has served a channel, or another
\* conversation continues it.
MappedOrRetired ==
    (\A w \in Workers : op[w].do = "idle") =>
        \A c \in Live : \/ born[c] \in served
                        \/ \E d \in Live : parent[d] = c /\ parentBirth[d] = born[c]

\* A summary is installed on the conversation it was written from.
InstallContinuesItsSource ==
    [][\A w \in Workers :
         InstallCompactedThread(w) => born[op[w].line[1]] = op[w].birth]_vars

\* A conversation no channel is on is "reachable by erasure" (session.rs): its
\* digest retells nothing of an erased person.
UnmappedReachable ==
    (\A w \in Workers : op[w].do = "idle") =>
        \A c \in Live \ MappedConvs : digest[c] \cap nulled = {}

\* Every operation ends, whatever is deleted or re-pointed under it: a reset's
\* caller gets an answer.  (An instance out of ids or births is full.)
Full == births = MaxBirths \/ MaxConv \in Live
OperationsEnd ==
    \A w \in Workers : (op[w].do # "idle") ~> (op[w].do = "idle" \/ Full)
=============================================================================
