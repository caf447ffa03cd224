----------------------------- MODULE OutboundEdge -----------------------------
(***************************************************************************)
(* The outbound edge of one adapter (core/src/outbound.rs): a task that is *)
(* woken by the event bus, re-reads what a conversation stores, and hands  *)
(* every item filed since its in-memory cursor to the adapter.             *)
(*                                                                         *)
(* Beside the edge stands what moves under it while it runs: turns that    *)
(* file items, and the resets and deletions of session.rs, erasure.rs and  *)
(* retention.rs, which share blocks between conversations and free ids the *)
(* store issues again.                                                     *)
(*                                                                         *)
(* A ledger is the SET of the blocks its junction rows name.  Deliverable  *)
(* blocks ascend by id along junction order, so the set keeps what the     *)
(* edge reads; only a thread's opening blocks stand out of order, and they *)
(* are never deliverable.                                                  *)
(***************************************************************************)
EXTENDS Integers, FiniteSets, Sequences

CONSTANTS
    Channels,   \* the adapter's chats
    MaxConv,    \* bound: conversation ids
    MaxBlock,   \* bound: block ids
    MaxBirths,  \* bound: conversations ever created
    MaxItems,   \* bound: items ever filed
    BusDepth,   \* events the bus keeps for the edge
    Resets,     \* the operations of this instance that replace or delete
    Faults      \* what may go wrong in this instance

ASSUME EdgeAssumption ==
    /\ MaxConv \in Nat \ {0}
    /\ MaxBlock \in Nat \ {0}
    /\ MaxBirths \in Nat \ {0}
    /\ MaxItems \in Nat \ {0}
    /\ BusDepth \in Nat \ {0}
    /\ Resets \subseteq {"wipe", "compact", "strip", "erase", "expire", "null"}
    /\ Faults \subseteq {"restart", "overrun", "store"}

ConvIds  == 1..MaxConv
BlockIds == 1..MaxBlock
Items    == 1..MaxItems
Births   == 1..MaxBirths

\* No conversation, no item, no birth.
None == 0
\* A conversation the cursor map has no entry for.
Vacant == -1

\* "send": an outgoing message; "line": a report line or a mark; "blank": a
\* line whose target was nulled; "open": a thread's opening blocks; "plain":
\* anything else.
Kinds == {"free", "open", "plain", "send", "line", "blank"}
Deliverables == {"send", "line", "blank"}

VARIABLES
    \* the store
    ledger,    \* conversation -> its blocks
    kind,      \* block -> its kind, "free" when the id names no block
    item,      \* block -> the item it stores (ghost: ids are issued again)
    mapped,    \* channel -> the conversation serving it
    born,      \* conversation id -> the birth holding it (ghost)
    births,    \* conversations created so far
    capture,   \* the compaction in progress: its source and its temporary fork
    retiring,  \* the conversation a strip has replaced and not yet deleted
    \* the items
    filed,     \* items filed so far
    home,      \* item -> the birth it was filed in, None once it is history
    handed,    \* item -> how often the edge handed it to the adapter
    \* the bus
    turns,     \* conversations whose model turn is running
    wakes,     \* the conversations that events the edge has not read name, in order
    lagged,    \* whether the oldest of them were lost
    \* the edge's own memory
    todo,      \* conversations a lag recovery still has to visit
    cursor,    \* conversation id -> the highest block accounted for
    seatOf,    \* conversation id -> the birth its cursor was written for (ghost)
    pass       \* the delivery pass in progress

store == <<ledger, kind, item, mapped, born, births, capture, retiring>>
items == <<filed, home, handed>>
bus   == <<turns, wakes, lagged>>
edge  == <<todo, cursor, seatOf, pass>>
vars  == <<store, items, bus, edge>>

NoCapture == [source |-> None, temporary |-> None, cut |-> None]
Idle == [stage |-> "idle", conv |-> None, birth |-> None, rows |-> {}]

Row == [block : BlockIds, kind : Kinds, item : Items \cup {None}]

TypeOK ==
    /\ ledger \in [ConvIds -> SUBSET BlockIds]
    /\ kind \in [BlockIds -> Kinds]
    /\ item \in [BlockIds -> Items \cup {None}]
    /\ mapped \in [Channels -> ConvIds \cup {None}]
    /\ born \in [ConvIds -> Births \cup {None}]
    /\ births \in 0..MaxBirths
    /\ capture \in [source : ConvIds \cup {None}, temporary : ConvIds \cup {None},
                    cut : BlockIds \cup {None}]
    /\ retiring \in ConvIds \cup {None}
    /\ filed \in 0..MaxItems
    /\ home \in [Items -> Births \cup {None}]
    /\ handed \in [Items -> Nat]
    /\ turns \subseteq ConvIds
    /\ wakes \in Seq(ConvIds)
    /\ lagged \in BOOLEAN
    /\ todo \subseteq ConvIds
    /\ cursor \in [ConvIds -> BlockIds \cup {0, Vacant}]
    /\ seatOf \in [ConvIds -> Births \cup {None}]
    /\ pass \in [stage : {"idle", "named", "listed", "handing"},
                 conv : ConvIds \cup {None},
                 birth : Births \cup {None},
                 rows : SUBSET Row]

-----------------------------------------------------------------------------
(* The store *)

Live == {c \in ConvIds : born[c] # None}
Used == {b \in BlockIds : kind[b] # "free"}
MappedConvs == {mapped[ch] : ch \in Channels} \ {None}

Newest(blocks) == IF blocks = {} THEN 0
                  ELSE CHOOSE b \in blocks : \A other \in blocks : other <= b

\* The store issues the id above the highest one alive, so a freed highest id
\* comes back.
IsNext(id, alive) ==
    /\ \A other \in alive : other < id
    /\ id = 1 \/ id - 1 \in alive

NextConv(c)  == c \in ConvIds /\ IsNext(c, Live)
NextBlock(b) == b \in BlockIds /\ IsNext(b, Used)

\* A conversation c is born holding `inherited` and one opening block b.
BornWith(c, b, inherited) ==
    /\ births < MaxBirths
    /\ births' = births + 1
    /\ born' = [born EXCEPT ![c] = births + 1]
    /\ ledger' = [ledger EXCEPT ![c] = inherited \cup {b}]
    /\ kind' = [kind EXCEPT ![b] = "open"]
    /\ UNCHANGED item

\* Delete conversation c and collect every block nothing holds any more.
Deleted(c) ==
    LET kept == UNION {ledger[d] : d \in ConvIds \ {c}}
    IN /\ born' = [born EXCEPT ![c] = None]
       /\ ledger' = [ledger EXCEPT ![c] = {}]
       /\ kind' = [b \in BlockIds |-> IF b \in kept THEN kind[b] ELSE "free"]
       /\ item' = [b \in BlockIds |-> IF b \in kept THEN item[b] ELSE None]
       /\ UNCHANGED births

Init ==
    /\ ledger = [c \in ConvIds |-> {}]
    /\ kind = [b \in BlockIds |-> "free"]
    /\ item = [b \in BlockIds |-> None]
    /\ mapped = [ch \in Channels |-> None]
    /\ born = [c \in ConvIds |-> None]
    /\ births = 0
    /\ capture = NoCapture
    /\ retiring = None
    /\ filed = 0
    /\ home = [i \in Items |-> None]
    /\ handed = [i \in Items |-> 0]
    /\ turns = {}
    /\ wakes = <<>>
    /\ lagged = FALSE
    /\ todo = {}
    /\ cursor = [c \in ConvIds |-> Vacant]
    /\ seatOf = [c \in ConvIds |-> None]
    /\ pass = Idle

-----------------------------------------------------------------------------
(* The bus: first in, first out, and bounded.  Of what it had no room to keep *)
(* for a subscriber it tells only that it was lost. *)

Emit(c) ==
    IF Len(wakes) < BusDepth
    THEN wakes' = Append(wakes, c) /\ UNCHANGED lagged
    ELSE wakes' = Append(Tail(wakes), c) /\ lagged' = TRUE

\* The stream of c is settled: its end is an event, where it was running.
Settled(c) ==
    /\ turns' = turns \ {c}
    /\ IF c \in turns THEN Emit(c) ELSE UNCHANGED <<wakes, lagged>>

-----------------------------------------------------------------------------
(* What happens around the edge *)

\* First contact: a fresh conversation takes an unmapped channel.
FirstContact(ch) ==
    /\ mapped[ch] = None
    /\ \E c \in ConvIds, b \in BlockIds :
          /\ NextConv(c) /\ NextBlock(b)
          /\ BornWith(c, b, {})
          /\ mapped' = [mapped EXCEPT ![ch] = c]
    /\ UNCHANGED <<capture, retiring, items, bus, edge>>

\* A message is recorded and its conversation's turn starts.
Ingest(ch) ==
    LET c == mapped[ch]
    IN /\ c # None
       /\ \E b \in BlockIds :
             /\ NextBlock(b)
             /\ kind' = [kind EXCEPT ![b] = "plain"]
             /\ ledger' = [ledger EXCEPT ![c] = @ \cup {b}]
       /\ turns' = turns \cup {c}
       /\ UNCHANGED <<item, mapped, born, births, capture, retiring, items,
                      wakes, lagged, edge>>

\* A running turn files an item.  Only an outgoing message wakes the edge at
\* once; a report line or a mark waits for the stream's end.
File(c, k) ==
    /\ c \in turns
    /\ filed < MaxItems
    /\ filed' = filed + 1
    /\ \E b \in BlockIds :
          /\ NextBlock(b)
          /\ kind' = [kind EXCEPT ![b] = k]
          /\ item' = [item EXCEPT ![b] = filed + 1]
          /\ ledger' = [ledger EXCEPT ![c] = @ \cup {b}]
    /\ home' = [home EXCEPT ![filed + 1] = born[c]]
    /\ IF k = "send" THEN Emit(c) ELSE UNCHANGED <<wakes, lagged>>
    /\ UNCHANGED <<mapped, born, births, capture, retiring, handed, turns, edge>>

\* The stream ends, completed or failed: one event either way.
TurnEnds(c) ==
    /\ c \in turns
    /\ Settled(c)
    /\ UNCHANGED <<store, items, edge>>

\* The change watcher names a conversation holding a send: a fork's own
\* junction rows, for one.  (Behind an event that names it already, one more
\* asks for what the first one's pass does.)
Echo(c) ==
    /\ \E b \in ledger[c] : kind[b] = "send"
    /\ \A i \in 1..Len(wakes) : wakes[i] # c
    /\ Emit(c)
    /\ UNCHANGED <<store, items, turns, edge>>

\* Everybody's events take room on the bus: a burst of them may cost the edge
\* its oldest.
Overrun ==
    /\ "overrun" \in Faults
    /\ \E lost \in 0..Len(wakes) : wakes' = SubSeq(wakes, lost + 1, Len(wakes))
    /\ lagged' = TRUE
    /\ UNCHANGED <<store, items, turns, edge>>

\* /wipe: the channel starts over; the old conversation stays on record.
Wipe(ch) ==
    /\ "wipe" \in Resets
    /\ mapped[ch] # None
    /\ \E c \in ConvIds, b \in BlockIds :
          /\ NextConv(c) /\ NextBlock(b)
          /\ BornWith(c, b, {})
          /\ mapped' = [mapped EXCEPT ![ch] = c]
    /\ UNCHANGED <<capture, retiring, items, bus, edge>>

\* A compaction forks a temporary conversation over the first half of the
\* source's ledger and drives a model turn on it, outside every hold.  (The
\* blocks the fork is born with and its answer are left out.)
CaptureBegins(ch) ==
    LET source == mapped[ch]
    IN /\ "compact" \in Resets
       /\ source # None
       /\ capture = NoCapture
       /\ births < MaxBirths
       /\ births' = births + 1
       /\ \E c \in ConvIds, cut \in ledger[source] :
             /\ NextConv(c)
             /\ kind[cut] # "open"
             /\ born' = [born EXCEPT ![c] = births + 1]
             /\ ledger' = [ledger EXCEPT ![c] =
                             {b \in ledger[source] : b <= cut \/ kind[b] = "open"}]
             /\ capture' = [source |-> source, temporary |-> c, cut |-> cut]
    /\ UNCHANGED <<kind, item, mapped, retiring, items, bus, edge>>

\* The summary is read and the fork retired, junction only.
CaptureEnds ==
    LET c == capture.temporary
    IN /\ c # None
       /\ born' = [born EXCEPT ![c] = None]
       /\ ledger' = [ledger EXCEPT ![c] = {}]
       /\ capture' = [capture EXCEPT !.temporary = None]
       /\ UNCHANGED <<kind, item, mapped, births, retiring, items, bus, edge>>

\* The install stands down if the channel left the source; otherwise it
\* settles the source, opens a thread that shares what lies past the cut, and
\* hands it the channel.
Installs ==
    LET source == capture.source
    IN \E ch \in Channels :
          /\ mapped[ch] = source
          /\ \E c \in ConvIds, b \in BlockIds :
                /\ NextConv(c) /\ NextBlock(b)
                /\ BornWith(c, b, {t \in ledger[source] :
                                     t > capture.cut /\ kind[t] # "open"})
                /\ mapped' = [mapped EXCEPT ![ch] = c]
          /\ Settled(source)

StandsDown ==
    /\ capture.source \notin MappedConvs
    /\ UNCHANGED <<ledger, kind, item, mapped, born, births, bus>>

CompactionInstalls ==
    /\ capture.source # None
    /\ capture.temporary = None
    /\ Installs \/ StandsDown
    /\ capture' = NoCapture
    /\ UNCHANGED <<retiring, items, edge>>

\* A strip: settle the serving conversation and hand its channel a clone that
\* shares every block but the retracted answer ...
Strip(ch) ==
    LET serving == mapped[ch]
    IN /\ "strip" \in Resets
       /\ serving # None
       /\ retiring = None
       /\ births < MaxBirths
       /\ births' = births + 1
       /\ \E c \in ConvIds, stripped \in ledger[serving] :
             /\ NextConv(c)
             /\ kind[stripped] = "send" /\ handed[item[stripped]] > 0
             /\ born' = [born EXCEPT ![c] = births + 1]
             /\ ledger' = [ledger EXCEPT ![c] = ledger[serving] \ {stripped}]
             /\ mapped' = [mapped EXCEPT ![ch] = c]
       /\ retiring' = serving
       /\ Settled(serving)
       /\ UNCHANGED <<kind, item, capture, items, edge>>

\* ... and then delete what the clone replaced.
StripRetires ==
    /\ retiring # None
    /\ Deleted(retiring)
    /\ retiring' = None
    /\ UNCHANGED <<mapped, capture, items, bus, edge>>

\* A conversation is unmapped, settled and deleted: a person's direct
\* conversation by an erasure, a quiet one by the retention sweep.
Delete(c) ==
    /\ Deleted(c)
    /\ mapped' = [ch \in Channels |->
                    IF mapped[ch] = c THEN None ELSE mapped[ch]]
    /\ Settled(c)
    /\ UNCHANGED <<capture, retiring, items, edge>>

Erase(c)  == "erase" \in Resets /\ c \in MappedConvs /\ Delete(c)
Expire(c) == "expire" \in Resets /\ c \in Live \ {retiring, capture.temporary} /\ Delete(c)

\* An erasure or the deletion mirror nulls the target of a filed line.
NullTarget(b) ==
    /\ "null" \in Resets
    /\ kind[b] = "line"
    /\ kind' = [kind EXCEPT ![b] = "blank"]
    /\ UNCHANGED <<ledger, item, mapped, born, births, capture, retiring, items,
                   bus, edge>>

\* The process ends and starts again: the edge seeds the cursor of every
\* mapped conversation past all it stores, so whatever was not handed over is
\* history.
Restart ==
    /\ "restart" \in Faults
    /\ turns' = {} /\ wakes' = <<>> /\ lagged' = FALSE
    /\ todo' = {} /\ pass' = Idle
    /\ cursor' = [c \in ConvIds |->
                    IF c \in MappedConvs THEN Newest(ledger[c]) ELSE Vacant]
    /\ seatOf' = [c \in ConvIds |-> IF c \in MappedConvs THEN born[c] ELSE None]
    /\ home' = [i \in Items |-> None]
    /\ capture' = NoCapture
    /\ retiring' = None
    /\ UNCHANGED <<ledger, kind, item, mapped, born, births, filed, handed>>

-----------------------------------------------------------------------------
(* The edge *)

\* Faulty variant: the lag is acknowledged and nothing is visited.
RecoverNothing ==
    /\ pass = Idle /\ todo = {} /\ lagged
    /\ lagged' = FALSE
    /\ UNCHANGED <<store, items, turns, wakes, todo, cursor, seatOf, pass>>

\* A lag is answered before any event behind it: every mapped conversation is
\* visited.
RecoverFromLag ==
    /\ pass = Idle /\ todo = {} /\ lagged
    /\ lagged' = FALSE
    /\ todo' = MappedConvs
    /\ UNCHANGED <<store, items, turns, wakes, cursor, seatOf, pass>>

\* A pass is owed to what a recovery still has to visit, else to the oldest
\* event.  It begins by resolving the channel; a conversation no channel maps
\* to has nothing to deliver to.
PassBegins(c) ==
    /\ pass = Idle
    /\ \/ /\ c \in todo
          /\ todo' = todo \ {c}
          /\ UNCHANGED wakes
       \/ /\ todo = {} /\ ~lagged /\ wakes # <<>> /\ c = Head(wakes)
          /\ wakes' = Tail(wakes)
          /\ UNCHANGED todo
    /\ pass' = IF c \in MappedConvs
               THEN [Idle EXCEPT !.stage = "named", !.conv = c]
               ELSE Idle
    /\ UNCHANGED <<store, items, turns, lagged, cursor, seatOf>>

\* It reads the ledger ...
PassLists ==
    /\ pass.stage = "named"
    /\ pass' = [pass EXCEPT
                 !.stage = "listed",
                 !.birth = born[pass.conv],
                 !.rows = {[block |-> b, kind |-> kind[b], item |-> item[b]] :
                             b \in ledger[pass.conv]}]
    /\ UNCHANGED <<store, items, bus, todo, cursor, seatOf>>

\* Faulty variant: an unseated cursor starts before everything.
BoundaryAtZero(c) == 0

\* The newest block this conversation shares with another one.
InheritedBoundary(c) ==
    Newest({b \in ledger[c] : \E d \in ConvIds \ {c} : b \in ledger[d]})

\* Faulty variant: a cursor on the newest block is taken for a stranger's.
SeatedBelowNewest(c, newest) ==
    IF cursor[c] = Vacant \/ cursor[c] >= newest THEN InheritedBoundary(c)
                                                 ELSE cursor[c]

\* Faulty variant: an unseated cursor starts past everything stored.
SeatedPastAll(c, newest) ==
    IF cursor[c] = Vacant \/ cursor[c] > newest THEN newest ELSE cursor[c]

\* ... and seats the cursor: an absent entry, or one above everything the
\* conversation holds, starts at the inherited boundary.
SeatedCursor(c, newest) ==
    IF cursor[c] = Vacant \/ cursor[c] > newest THEN InheritedBoundary(c)
                                                ELSE cursor[c]

PassSeats ==
    /\ pass.stage = "listed"
    /\ cursor' = [cursor EXCEPT ![pass.conv] =
                    SeatedCursor(pass.conv, Newest({r.block : r \in pass.rows}))]
    /\ seatOf' = [seatOf EXCEPT ![pass.conv] = pass.birth]
    /\ pass' = [pass EXCEPT !.stage = "handing"]
    /\ UNCHANGED <<store, items, bus, todo>>

Owed == {r \in pass.rows : r.kind \in Deliverables
                           /\ r.block > cursor[pass.conv]}

\* One deliverable at a time, in ledger order; a blank one is stepped over.
PassHands ==
    /\ pass.stage = "handing"
    /\ \E r \in Owed :
          /\ \A other \in Owed : r.block <= other.block
          /\ cursor' = [cursor EXCEPT ![pass.conv] = r.block]
          /\ handed' = IF r.kind = "blank" THEN handed
                       ELSE [handed EXCEPT ![r.item] = @ + 1]
    /\ UNCHANGED <<store, filed, home, bus, todo, seatOf, pass>>

PassEnds ==
    /\ pass.stage = "handing"
    /\ Owed = {}
    /\ pass' = Idle
    /\ UNCHANGED <<store, items, bus, todo, cursor, seatOf>>

\* The introduction's write fails: the pass ends before the message is handed
\* over and the cursor stands in front of it.
PassFails ==
    /\ "store" \in Faults
    /\ pass.stage = "handing"
    /\ \E r \in Owed : r.kind = "send" /\ \A other \in Owed : r.block <= other.block
    /\ pass' = Idle
    /\ UNCHANGED <<store, items, bus, todo, cursor, seatOf>>

EdgeStep ==
    \/ RecoverFromLag
    \/ \E c \in ConvIds : PassBegins(c)
    \/ PassLists
    \/ PassSeats
    \/ PassHands
    \/ PassEnds
    \/ PassFails

Next ==
    \/ \E ch \in Channels : FirstContact(ch) \/ Ingest(ch) \/ Wipe(ch) \/ CaptureBegins(ch)
                            \/ Strip(ch)
    \/ \E c \in ConvIds : \/ \E k \in {"send", "line"} : File(c, k)
                          \/ TurnEnds(c) \/ Echo(c) \/ Erase(c) \/ Expire(c)
    \/ \E b \in BlockIds : NullTarget(b)
    \/ CaptureEnds \/ CompactionInstalls
    \/ StripRetires
    \/ Overrun
    \/ Restart
    \/ EdgeStep

Spec == Init /\ [][Next]_vars

\* The edge task is never starved, and a model turn ends.
FairSpec ==
    /\ Spec
    /\ WF_vars(EdgeStep)
    /\ \A c \in ConvIds : WF_vars(TurnEnds(c))

-----------------------------------------------------------------------------
(* Properties *)

\* No item reaches the adapter twice: "the contract refuses re-delivered
\* reports above all" (outbound.rs, the report's delivery).
AtMostOnce == \A i \in Items : handed[i] <= 1

\* The step takes the cursor of c past an item that c's own turns filed and
\* that was not handed over.
StepsOver(c, b) ==
    /\ kind[b] \in {"send", "line"}
    /\ home'[item[b]] = born[c] /\ handed'[item[b]] = 0
    /\ cursor[c] < b /\ b <= cursor'[c]

\* Nothing a conversation filed itself is stepped over once the edge has
\* visited that conversation, whatever shares its blocks, whoever held its id
\* and its blocks' ids before, and however its items and its pass interleave.
\* Stepped over it may be by a pass that was listed for an earlier holder,
\* which leaves the entry a stranger's, and at the first visit where the item,
\* or a newer block, is shared at that instant.
OwnItemsKept ==
    [][\A c \in Live : \A b \in ledger[c] : StepsOver(c, b) =>
          \/ seatOf'[c] # born[c]
          \/ /\ seatOf[c] # born[c]
             /\ \E d \in ConvIds \ {c} : \E s \in ledger[c] \cap ledger[d] : b <= s]_vars

\* "A block two conversations hold is one this conversation was forked with"
\* (outbound.rs, inherited_boundary): no boundary goes past what its
\* conversation filed itself.
BoundaryIsInherited ==
    [][PassSeats =>
         \A r \in pass.rows :
            r.kind \in {"send", "line"} /\ home[r.item] = pass.birth /\ handed[r.item] = 0
                => r.block > cursor'[pass.conv]]_vars

\* "Equality is the one shape ids alone cannot decide" (outbound.rs,
\* seated_cursor): of an earlier holder's entries only one that stands exactly
\* at the newest block is taken for the conversation's own.
StrangersTold ==
    [][PassSeats /\ pass.birth # None /\ seatOf[pass.conv] \notin {None, pass.birth} =>
         \/ cursor'[pass.conv] = InheritedBoundary(pass.conv)
         \/ cursor[pass.conv] = Newest({r.block : r \in pass.rows})]_vars

\* A cursor is moved back only when it was written for a previous holder of
\* the id: re-seating a living conversation would send its history again.
Reseating ==
    \A c \in ConvIds :
        (PassSeats /\ pass.birth # None /\ cursor'[c] < cursor[c])
            => seatOf[c] # pass.birth
ReseatsOnlyStrangers == [][Reseating]_vars

\* An item filed in a conversation that keeps its channel and its process is
\* handed over, whatever the bus forgot.
Standing(i) ==
    /\ home[i] # None
    /\ \E c \in MappedConvs : born[c] = home[i]
EventuallyHanded ==
    \A i \in Items : (Standing(i) /\ handed[i] = 0) ~>
                         (handed[i] > 0 \/ ~Standing(i))
=============================================================================
