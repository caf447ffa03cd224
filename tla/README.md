# A TLA+ model of xos-assistant

xos-assistant is a chat assistant for Telegram groups. A core crate
(`src/crates/core`) keeps every chat's history as an append-only *ledger* of
blocks in a framework's store, runs model turns over it, and lets the model
speak by calling tools. An adapter crate (`src/crates/adapters/telegram`)
brings messages in and carries messages out; a third (`src/crates/assistant`)
assembles and serves the two.

The models here cover what is hard in it: what becomes of a message the model
asked to send, what becomes of a chat's memory when its conversation is
compacted, wiped, stripped, scrubbed, erased, expired or restarted under
everything else, and the parts of the service around the two: its locks, its
intake, its budgets, what a person may ask for, what a group's session is told,
who is owed an answer. They are checked by TLC on small instances; for all but
a few of the safety properties TLAPS proves that they hold of every instance.

Paths below are relative to `src/crates/core/src/` unless they start otherwise.

## 1. Inventory

For each component: the state it keeps, its operations, with whom it
interacts, what is hard about it, and what makes it correct.

### The store and the sessions

* **Conversation store** (framework; `schema.rs`, `lineage.rs` lean on it).
  State: conversations with ids, junction rows from conversations to shared
  blocks, ancestor references. Operations: create, fork (shares blocks), open a
  compacted thread, delete with garbage collection. Hard: the id above the
  highest live one is issued next, so a deleted id *comes back*. Correct: a
  reference never names a stranger, and points below its holder.
* **Channel mapping** (`mapping.rs`). State: one row channel -> conversation and
  kind. Operations: find, first-wins claim, delete by conversation, list all.
  Everything that moves a chat goes through it. Correct: a channel resolves to
  one live conversation, a conversation serves one channel at most.
* **Sessions** (`session.rs`). State: none of its own but what is in the store and
  in running operations. Operations: first contact, wipe, compact (fork a
  temporary conversation, drive a model turn on it, install a thread that opens
  with the summary), strip a retracted answer (clone without it, swap, delete),
  scrub a compacted lineage (clone the root, regenerate each digest by a model
  turn, install), retire, retire expired. Two holds - the erasure fence and the
  stamp lock - exclude each other's writers, but a model turn runs outside
  both. Hard: what was read before the turn is used after it. Correct: no
  message is lost or brought back, no conversation is left behind, every
  operation ends.
* **Lineage walk** (`lineage.rs`). Pure reading over ancestor references.
* **Erasure** (`erasure.rs`; `assembly.rs` spawns and fences it). Operations: plan,
  null a person's words, delete their direct conversations, scrub each lineage
  their words reached - the scrubs after the fence is released. Correct: no
  serving digest retells an erased person.
* **Retention sweep** (`retention.rs`). Deletes conversations quiet for longer than
  the span, under the fence and the lock; collects principals nothing names.
* **Streams** (`streams.rs`). State: the observer's set of open streams, fed by a
  lossy bus. `settle_stream` interrupts and waits, bounded. Hard: the
  observation, the stored tail and the wait race the stream's own end.
* **Automatic compaction** (`compaction.rs`, `session.rs` 1556-2087). Arms at a
  threshold of context use, driven by bus events that can be missed.

### Speaking

* **Sending tools** (`tools/sending.rs`, `send.rs`, `reply.rs`, `outgoing.rs`). State:
  tool-call blocks and outgoing-message blocks of the ledger. Operations:
  admission under three caps, asked once; filing, idempotent on the call;
  settling a call; failing what is pending at start-up. Hard: admission and
  filing are apart; the body may run again; the platform's answer arrives in
  another session than the one that asks. Correct: one message per call, in
  order, within the caps, never after its call is recorded unsent.
* **Outbound edge** (`outbound.rs`). State: a cursor per conversation, in memory.
  Woken by a bounded bus, it re-reads the ledger and hands every item past the
  cursor to the adapter. Hard: conversations are replaced by ones that share
  their blocks, ids are issued again, the bus forgets. Correct: every item at
  most once, and none left behind.
* **Delivery report** (`assembly.rs` 1958, `delivery.rs`). Records receipts, settles
  the call, stops the cue. `delivery.rs` also keeps the retraction record.
* **Composing cue** (`composing.rs`). State: open signals with a count of unfinished
  sends and a deadline. Two lossy carriers; a five-minute lifetime. Correct: a
  cue always ends, and is not darkened while a counted send runs.
* **Disclosure** (`disclosure.rs`). The first message to each person opens with a
  line, remembered only by the stored message itself. Hard: the line is written
  before the hand-over, and calls of one round are looked up alike. Correct:
  nobody is spoken to unintroduced, nobody introduced again.
* **Retraction** (`delivery.rs`, `quoting.rs`, `session.rs` 1075-1230). An
  administrator's reply takes an answer back: its recorded messages from the
  chat, the answer and every quote of it from the lineage. Receipts come one by
  one, beside it; a quote is resolved by what the whole store still holds. Correct:
  asked back once, and no thread shows its words again.
* **Filing door** (`filing.rs`, `mirror.rs`, `tools/mark.rs`, `tools/report.rs`). Three
  writers hold copies of a message's origin; the fence, the lock and the door
  are taken in one order. Correct: one reaction and one report per message, no
  copy after the mirror deleted it, no lock cycle.

### Coming in

* **Ingestion** (`assembly.rs` 1216-1414). One message under the fence and the stamp
  lock: authorization, principal, first contact, block, commands, budget.
* **Budgets** (`window.rs`, `kind.rs`, `assembly.rs` 3294-3372). Windowed grants with
  hand-back after a failure; the debt a message carries until it is answered.
* **Privacy commands and rights tool** (`privacy.rs`, `tools/rights.rs`,
  `identity.rs`). Two-step deletion, suppression flag, spawned erasure.
* **Shutdown** (`stopping.rs`, `assembly.rs` 1030). A flag raised once; new erasures
  and pending deletions are refused after it.
* **Group authorization** (`authorization.rs`), **joins** (`join.rs`), **notes and rules
  acknowledgment** (`note.rs`, `acknowledgment.rs`, `contract.rs`): append-on-change
  rows, written under the stamp lock.
* **Telegram intake** (`src/crates/adapters/telegram/src/driver.rs`, `webhook.rs`).
  Poll: an offset persisted after each batch. Webhook: a bounded queue, one
  consumer, an answer deadline, a bounded memory of acknowledged updates.
  At-least-once either way.
* **Telegram outbound** (`client.rs`, `driver.rs`). One consumer, one item at a time;
  a long message goes out in chunks.

### The rest

* **Web search** (`tools/search/mod.rs`, `tools/lookup.rs`). State: a cache of pages
  with a span and a cap, a budget per person. Hard: the request runs under no
  lock, between the cache's reading and its writing. Correct: what is shown is
  recent and the vendor's, a failed request costs nothing.
* **Start of a deployment** (`assembly.rs` 1614-1744 and 3176-3241, `contract.rs`).
  State: each session's prompt, tool choice and notice. Operations: the walk that
  forks stale sessions, the reconciliation on a session's first activity. Hard:
  several writes each, no transaction over them, deaths between. Correct: served
  under the current prompt with its whole past, told once what changed.

Admission by authority (`tools/admission.rs`, `tools/provenance.rs`), lookups,
quotes, teaching, commands, prompt, configuration: readings, tables of words
and single bounded requests. `PROJECT.json` lists each with its status.

## 2. What interacts with what

    chat -> intake -> ingestion -> ledger -> model turn -> sending tools -> ledger
                                     ^                                        |
        sessions / erasure / retention (fork, swap, delete)                   v
                                     |                                  outbound edge
             settlement <- delivery report <- adapter's consumer <------------+

The ledger is the only thing that outlives the process. The mapping decides
which ledger a chat is on; the edge's cursors, the observer's set, the cue and
the pending deletions live in memory. Everything is joined by a broadcast bus
whose subscribers may miss events, so each of them re-reads the store.

## 3. Modules

| module | models | uses |
|---|---|---|
| `OutboundEdge` | `outbound.rs` under every reset, deletion and fault | |
| `OutboundEdgeProofs` | theorems about it | `OutboundEdge` |
| `ConversationStore` | abstract: conversation ids, births, ancestor references | |
| `ChannelMemory` | abstract: what can be read of each channel | |
| `Sessions` | `session.rs`, `mapping.rs`, `lineage.rs`, `erasure.rs`, the sweep | extends `ConversationStore`, refines it and `ChannelMemory` |
| `SessionsProofs` | theorems about the store and the sessions | `Sessions` |
| `ChannelMemoryProofs` | that the sessions implement `ChannelMemory` | `SessionsProofs` |
| `MCSessions` | its small instances | `Sessions` |
| `Sending` | `tools/sending.rs`, `outgoing.rs`, `report_delivery`, the adapter's send | |
| `SendingProofs` | theorems about it | `Sending` |
| `MCSending` | its small instances | `Sending` |
| `Filing` | `filing.rs`, the react and report tools, the deletion mirror, the erasure's passes, over fence, lock and door | |
| `FilingProofs` | theorems about it | `Filing` |
| `MCFiling` | its small scenes | `Filing` |
| `Intake` | the poll loop and the webhook over the platform's queue | |
| `Contact` | a group's authorization, lookups, notes and joins: the driver's stages over the core's appends | |
| `Debts` | the stamp, the walk past transparent rows, the minimum a tool call is admitted at | |
| `Rights` | privacy commands and tool, spawned erasures, the collection of people, the shutdown | |
| `Streams` | the stream observer and the settlement over a lossy bus | |
| `Composing` | the counted signal over two lossy carriers, the adapter's indicator | |
| `AutoCompaction` | the driver of compactions nobody asks for | |
| `Capture` | how a compaction learns what its turn wrote | |
| `Wire` | one message's chunks, fallbacks and retries | |
| `Budgets` | one key's windowed grants and hand-backs | |
| `Search` | web searches under a person's budget, over the cache of pages | extends `Budgets` |
| `Revisions` | edits, redeliveries, deletions and erasures of one message's versions | |
| `Retraction` | the deletion command on an answer, its receipts, its quotes, the strip | |
| `Disclosure` | whom the assistant has introduced itself to: the line the edge writes into a message | |
| `Deployments` | what a session knows of the deployment that serves it: prompt, tool choice, notice | |
| `RightsProofs` | theorems about it | `Rights` |
| `ChatProofs` | theorems about what a chat is told and owed: answers, budgets, introductions, its group, its deployment | `Budgets`, `Debts`, `Disclosure`, `Contact`, `Deployments` |
| `ServiceProofs` | theorems about the other parts of the service | `Intake` to `Deployments`, but for those five and `Rights` |
| `MCService` | `Filing` and `Intake` to `Deployments` side by side: which one a behaviour is about is chosen at first | all of them |

The modules from `Filing` to `Deployments` share no variable (`Search` has
`Budgets` for its own); where two of them
touch the same thing each takes the other's result as a choice. `Streams` is
the reason `Sessions` may take a settlement for one step; `Capture` is what
`Sessions` calls a model turn; `Rights` takes an erasure's scope from `Sessions` and
its order from `Filing`; `Budgets` is the choice "granted or not" of `Rights`; `Wire`
is the outcome of a send in `Sending`; `Disclosure` takes the edge's passes from
`OutboundEdge` and the order of a round's calls from `Sending`; `Deployments` is
what `Sessions` has in one step as `RetireStaleChannel`.

Operators named "Faulty variant" in a comment are not used by the
specifications. Each is a plausible wrong version of the definition after it,
kept so that a property can be shown to fail on it (`PROJECT.json`, "mutants").

### OutboundEdge

`ledger`, `kind`, `item` are the store's rows, `mapped` the mapping, `cursor` the
edge's map (`Vacant` where it has no entry), `pass` the delivery pass in
progress. `wakes` is the bus, first in first out: past `BusDepth` it loses its
oldest event and `lagged` says so, which a recovery answers (`todo`) before any
event behind it. A pass is four steps, as its awaits are: resolve the channel
(`PassBegins`), list the ledger (`PassLists`), seat the cursor (`PassSeats`), hand
over one item at a time (`PassHands`). `Resets` picks what replaces or deletes
conversations, `Faults` what goes wrong. `born`, `seatOf`, `home`, `item` are history
variables: ids are issued again, so identity needs the birth behind an id.
A restart clears `home`, because what is stored when the edge is seeded is
history by decision (`outbound.rs` 396-399).

Left out: the blocks a temporary fork is born with and its answer (never
deliverable); the text, thread and introduction of an item.

### ConversationStore, ChannelMemory, Sessions

`ConversationStore` states only what `docs/units/63` argues the lineage walk
from: ids are issued above the highest live one, references are written to
live conversations or copied by forks, anything may be deleted.
`ChannelMemory` states what a user is promised: messages are added, a channel
starts over if a wipe or the sweep is part of the instance, a retraction *under
way* (the variable `retracting`) removes its one message, an erasure one
person's; nothing else changes what can be read.

`Sessions` is the code. A ledger is a set of messages, a digest the set of
messages whose words it may retell; `nulled` are the erased. `op[w]` is operation
w's local state across its model turns. What runs under both holds is one
action; a compaction is therefore three (`Compact`, `CaptureAndRetire` or
`Unsummarized`, `InstallCompactedThread` or `CompactionStandsDown`), a scrub
several per lineage, an erasure one step followed by its scrubs. `residual`
records the scrubs that failed or stood down, which the code logs as residuals;
a later scrub takes a message out of it once no other serving digest retells it.
A swap's two writes are one action, and `SwapTorn` is the death between them
(`"torn"`, in `sess_live`): the chat is then on no conversation.
`Sessions` INSTANCEs `ChannelMemory` with `memory` mapped to what the serving
conversation's rows and digest hold and `retracting` to what the operations
under way are to strip, and EXTENDS `ConversationStore`, whose
specification is a property of it (`StoreKept`).

### Sending

The ledger of the session the chat is on: `call[c]` is how it reads call c,
`filed[c]` when its message was filed. `passed` is the edge's cursor, here a set
because only this chat's messages count; `queue` and `result` are the adapter's
consumer; `chat` is what the platform shows. A handle carries the conversation
that filed it, as `DeliveryHandle` does, so a receipt may come back to a session
the chat has left, where it changes nothing the model reads. A compaction or a
stale start copies the calls past its cut; a wipe copies none.

Left out: what still runs in a session after the chat has left it (its edge
pass finds no channel, its calls are read by no model), the strip (what it does
to the edge is in section 7), the reply's target, the chunks of a message other
than whether the first of them posted.

### Filing

`at[a]` is where an actor is: a tool call (`Ask`, `EnterFence`, `TakeDoor`, `Scan`,
`File`), an ingestion (fence, `TakeStamp`, and with a deletion command the door and
the mirror's passes, then `Record`), an erasure (fence exclusively, `Settle`, its
passes). `line` and `inside` are the fence: a fair read-write lock, so a reader
that asks behind a waiting writer waits. `stamp` and `door` are mutexes. Every
transaction of the mirror and of the erasure is a step, and either may be cut
short between two of them (`MirrorFails`, `ErasureFails`) and handed in again.
`filings` are the stored marks and reports, each with the id and the person it
names. A `scene` fixes what the calls and the ingestion are about.

### Intake

`pending` and `arrived` are the platform's queue. `Polls` reads a batch, takes it
update by update and writes the offset; `Listens` is the webhook's one consumer
over a queue of `Depth`, with a memory of `Memory` acknowledged ids; `HandOver` is
the platform's delivery, refused where the queue is full. A step acknowledges,
halts, or ends the run; an answer may be lost or the door's deadline pass while
the consumer still works. A process may restart with the other intake.

### Contact

`platform` is what the group shows, `updates` what it sent, `taken` and `saved` the
poll loop's two offsets. The driver's stages for one update are `stages`:
looking the group up where it is neither answered nor resting (`found` is what
the lookup saw, which may be ahead of the queue), then the fact itself. The
core's part is `admitted`, `session`, `noted`, `joined`: append on change.

### Debts

`ledger` is one conversation's blocks with what the stamp wrote on them.
`Compose` reads the tail, `Stamp` writes behind it, two writers may be between the
two. `OwingTailDebt` is the walk past what is transparent to it; `TurnReading` the
minimum over a live turn's chain, which ends at a completed answer and passes
dead turns, erased rows and rows that owe nothing.

### Rights

`principals` is the identity table (ids by AUTOINCREMENT, a flag that survives an
erasure), `filed` the pending deletions in memory, `slots` ingestions between their
two readings of the flag, `tool` the privacy tool between its reading and its
write, `tasks` the spawned erasures, `awaited` what the shutdown took from their
list. The fence is `MayEnter`: no writer holds it or waits. `objects` is the
history variable the flag is measured against.

### Streams, Composing, AutoCompaction, Capture

`Streams`: the framework's one stream with its tail, statuses and interrupts;
`heard` and `waits` are the two subscriptions, which keep `BusDepth` events and
then a lag mark; `open` and `measured` the observer's state; `settle` the settlement
with what it has read so far, one read per step. A start may find a dead process's
tail in the store; `residue` and `settle.stale` are history and say whose tail it was.

`Composing`: `said` (the bus) and `endings` (the ending channel) are the carriers,
`unfinished` the count of the open signal; an ending does not name its send.
`clean` says that nothing was lost or miscounted since the last terminal.

`AutoCompaction`: `readings` age in sweeps; the wake door reads markers of forced
ends in the serving thread's own life, the sweep door the two thresholds. The
driver is one task, away while it compacts another chat.

`Capture`: a turn of up to `MaxRounds` streams beside a capture that subscribes,
reads the over-predicate, lists the blocks and judges. The two readings are two
steps, and a round may fit between them: `reading.early` remembers that the
predicate was read before the turn had stored anything.

### Wire, Budgets, Search, Revisions, Retraction

`Wire`: `form` and `attempt` are the request under way; the platform's verdict comes
as a rate limit, a refusal in one of two shapes, or is lost, in which case the
chunk may be in the chat.

`Budgets`: one entry per key, opened by the first grant, swept by the next ask
once expired; a failed change hands its grant to whatever entry is there.

`Search`: an ask is `FindsCached`; or `MissesCache`, then reads whom to bill
(`NobodyToBill`), takes a grant of `Budgets` and is out at the vendor until
`VendorAnswers` or `VendorFails`, whatever others have cached meanwhile; `Renders`
reads the cache once more for the page before. `cache` is the pages held, `vendor` what was ever answered.
The pages are those of one query; the key, the vendor's decoding and the guard
on the query's words are left out.

`Revisions`: `versions` are the rows of a message, `held` those the serving session
reads. `Records` is the reading under the lock that decides whether an edit is
one. A restart takes again what was not saved.

`Retraction`: one channel's `lineage` of threads with rows `answer`, `receipt`, `quote`
and `fact`. `ResolveRetraction` is the ingestion's part, `StripReads` and `StripSwaps`
the strip outside and under the holds, `Retract` the adapter's directive. A strip
may stand down (`StripStandsDown`), fail ahead of its swap (`StripFails`), or fail
behind it (`StripTears`), which leaves replaced threads `standing`. `inStore` is the
answers whose words are stored, whoever holds them: a thread of the lineage, one
left standing, a conversation built in vain (`strays`), or the temporary fork of
the compaction under way (`CompactionForks`, `CompactionCaptures`,
`CompactionInstalls`). A collection removes what nothing holds, and `Quoted` asks
`inStore`, not the lineage. History variables: `excused`, the answers whose last
strip stood down or failed; `lingering`, those stored still when it had ended;
`unreceipted` and `refused`, what it could not take back.

### Disclosure

`blocks` are the calls and the messages of every chat under ids that grow across
all of them, each with the persons its turn answers; `serving` and `deleted` say
which threads still stand, `reached` is the edge's cursor. `StoreLine` writes the
line, `HandsLined` and `HandsBare` hand over; `lining` is the write a death may
strand (`lost`).

### Deployments

One chat. `ledgers` are its conversations, `served` the one it is mapped to, the
first one of them left by an earlier build (`Ledgers`). A start composes some
`wording` and walks: `Passes`, or `Forks`, `ClonesRows`, `Unmaps`, `Claims`, a death
being possible between any two. Then messages come in, each behind the tool
choice's reconciliation (`AppendsNotice`, `AppendsChoice`, `AppendsMessage`, any of
which may fail), and compactions (`InstallsThread`). `leftBehind` is the history
variable of the words the walk is known to drop. The cap of the memory of
reconciled conversations, which only makes it read again, is left out.

## 4. Runs

All with `tlc -workers 2 -config <name>.cfg <module>`; each takes a few seconds
to about three minutes (`service` and `live`, at 1.9 and 0.5 million states).

| run | expects | asks |
|---|---|---|
| `edge_core` | pass | under wipes, compactions with their forks, nulled targets, restarts, overruns and a failing write: is any item handed over twice? |
| `edge_live` | pass | is everything filed handed over, with an item in each of two chats and a bus that loses its oldest events? |
| `edge_deletions` | pass | where compactions and strips share blocks, and strips, erasures and the sweep free ids that are issued again: is a cursor moved back only for a re-issued id, and none taken past an item of its own? |
| `sess_memory` | pass | do two operations at once, wipes and restarts keep every channel's memory and the store's rules? |
| `sess_erase` | pass | after erasures and retractions, is nothing retold and nothing left behind? |
| `sess_live` | pass | does every operation end, whatever is deleted under it? |
| `sess_race` | violation | the same as `sess_erase`, with a compaction running |
| `send_core` | pass | one message per call, in order, within the caps, none late, each settled where it was filed? |
| `send_stuck` | violation | does a chat ever stay with a send nothing will settle? |
| `live` | pass | what must end, of filing, intake, rights and streams, with the safety of filing, intake and streams |
| `service` | pass | the safety of contact, debts, rights, composing, automatic compaction, capture, wire, search and its budget, revisions, retraction, disclosure and deployments |
| `wire_formatting` | violation | does a message fail over its markup although a plain form was to be tried? |

`live` and `service` are runs of `MCService`: its first step picks a part out of
`Parts`, and only that part moves, so the state count is the sum of the parts'
and not their product.

### Bounds, and why they are enough

Every bound is a CONSTANT, named in its module as one.

* `edge_*`: three conversations, 5-6 blocks, two items, 1-2 chats, a bus of one
  or two events. Three conversations are a source, a temporary fork and a successor, or
  a deleted one, its replacement and a bystander; five blocks are two openings,
  a message and two items, and the six of `edge_live` an opening, a message and
  an item in each of its two chats. A bus of two is overrun by the third event,
  the bus of one in `edge_deletions` by the second.
* `sess_*`: one channel, 5-7 conversation ids (a source, two operations'
  temporaries, clones and successors), 1-3 messages, one or two people and
  workers. Two workers are the least at which operations race. People and
  workers are interchangeable, so symmetry is used where no liveness property is
  checked.
* `send_core`: three calls, three sessions, clock 0..3 and two tiers of which
  one (1 send in 1 tick) is spent by one call and freed by a tick, the other (2
  in 3) by two calls. Three calls are the least at which one parks behind
  another while a third has been posted.
* Filing: two calls of one round, an ingestion and an erasure, in five scenes: a
  reaction and a report of one message, two reactions, two reports, two reports
  of a join event, two calls in the direct chat an erasure is to settle. Four
  actors are three lock classes and a writer waiting between readers.
* Intake: three updates, queue and memory of two (so a third overruns either),
  three starts, two mishaps.
* Contact: four updates (addition, change, message, and one to spare), one fault
  at any step of any of them, two joiners. Debts: four blocks, two writers, two
  standings: a summons, a dead turn, an absorbed message, an answer. Rights: two
  people, two ingestions in flight, four of them and tool calls in all, three row
  ids (so a person can come back under a new one), two erasures; in `live` one
  person, and a store that fails once.
* Streams: a bus of one event, so that everything it can lose is lost; two
  streams, two settlements. Composing: two sends, carriers of two. AutoCompaction:
  a cache of four sweeps with a margin of one and a quiet window of two, one
  incident, two compactions. Capture: three rounds over a carrier of two. Wire:
  three chunks, three attempts.
* Budgets and search: three asks for two pages, a cap of one, a window of one
  tick, a cache of two pages and two ticks, a clock 0..2: a grant may come back
  two windows later, an entry expire between the look-up and the rendering.
  Revisions: four updates of one message in two wordings, one restart, one reset,
  one erasure. Retraction: an answer of two chunks, two replies (a command, and its
  repeat or one that would quote), four threads, one compaction under way at a
  time, one refusal or failure. With a third reply and a second fault of Contact the
  run passes as well, at 3.1 million states.
* Disclosure: two chats, two persons, four blocks, rounds of two calls, one death
  or moved session: a person met elsewhere, and one met in a thread that is gone.
  Deployments: two wordings, three starts, two messages, a compaction, over four
  ledgers: one an older build answered in, one with a prompt further in, one with
  none, and one of this build.

`CHECK_DEADLOCK FALSE` everywhere: a bounded instance runs out of ids, births,
calls, updates or clock, and then rightly stops. What must not stop is stated
as liveness.

### Fairness

Weak fairness, on loops that take what is there: the edge's task; a model turn,
which ends by completion, error or the framework's bound (of the edge one
condition on the whole task, as its loop is one: that no chat waits for ever is
the bus's order, not the fairness); an operation under
way, whose capture is bounded and whose two holds are fair tokio locks; the
adapter's consumer, whose request has a time-out. In `live`: every tool call,
ingestion and erasure on its way through the fence, the lock and the door
(`CallStep`, `IngestStep`, `ErasureStep`), not their being cut short; the process
supervisor's start, the poll loop, the webhook's consumer and the platform's
redelivery of each pending update (`Start`, `Polls`, `Listens`, `HandOver`), not an
update's arrival and no mishap; the ingestions, erasures, tool and shutdown of
a process that is up (`Ingestion`, `Erasure`, `ToolActs`, `Leaves`); the
observer, the settlement and the framework's interrupt handling (`Observes`,
`Settles`, `HandlesInterrupt`), but not the stream itself, which may never end. None
on people, resets, faults or the clock.

## 5. Properties

* `AtMostOnce`, `OwnItemsKept`, `EventuallyHanded` (edge): delivery. The second is an
  action property, of one step of a cursor: it goes past no item that its
  conversation's own turns filed and that was not handed over. Two exceptions are
  the code's: a pass that was listed for an earlier holder of the id, whose entry
  the next visit re-seats or takes for its own, and the first visit to a
  conversation that shares the item, or a newer block, with another at that
  instant. The third holds although the bus may forget any wake, because a lag is
  answered by visiting every mapped conversation, before any event behind it.
* `ReseatsOnlyStrangers` (edge): a cursor is moved back only if an earlier holder
  of the id left it.
* `MemoryKept` (sessions): refinement of `ChannelMemory`. The property behind
  compaction: whatever races, a swap loses no message and revives none.
* `StoreKept`, `LineageSound`: refinement of `ConversationStore` and its safety.
* `MappedOrRetired`, `OperationsEnd`, `ErasedWordsGone`.
* `PostedInOrder`, `AllowanceKept`, `NoLatePost`, `SettledWhereFiled` (sending).
* `OneFilingEach`, `NoMarkBesideReport`, `NamesGone`, `EveryHoldEnds` (filing): what
  the door is for, what the mirror and the erasure take back, and that the
  three holds close no circle.
* `TakenOnce` (`NothingLost` and `SeldomTwice`), `EveryUpdateTaken` (intake): at
  least once, and a second time only across a restart or an eviction.
* `RulesAheadOfMessages`, `NotesAgree` (contact): a message enters a session that
  holds the group's title and rules; the notes converge to what the platform
  shows.
* `DebtStands`, `AdmittedAtMinimum` (debts): no summons is lost behind what others
  write, and no tool call acts at more than the least of those it serves.
* `OnlyAskersErased`, `ObjectionOutlives`, `ShutdownEnds` (rights): a deletion takes
  the person who asked, an objection outlives the deletion, a shutdown awaits
  what people were told has started, and ends.
* `SettleTruthful`, `NotMarkedForEver` (streams): a settlement says "settled" of a
  stream that writes no more, and "unsettled" only of a deaf provider, a newer
  stream, or where it took a dead process's tail for the stream's own.
* `IntroducedOnce` (disclosure): nobody is spoken to before the line was handed to
  them, in whatever chat, and it is said again only within a round of calls or
  after its thread is gone.
* `ServesCurrent`, `ContractTold` (deployments): whatever start, death or message
  comes when, a chat is served under the current prompt with everything said to
  it, and the notice stands once, between the answers that were posted as they
  stood and the first message of this build.
* `SearchTruthful` (search): a turn is shown what the vendor answered for its page
  not a cache's span ago, and told the results ended only on the vendor's word.
* `CueTruthful` (composing), `UnattendedKept` (`IncidentOnce` and `EdgeKept`, automatic
  compaction),
  `ReportMatchesChat` (wire), `BudgetKept` (budgets), `VersionsTruthful` (revisions).
* `CaptureTruthful` (capture): it concludes from what a turn that is over wrote, or,
  where it had asked before the turn began, from what one of its rounds wrote;
  from silence only at the end.
* `RetractionWhole` (retraction): an answer is asked back once; past its commands no
  thread of the lineage holds it, unless the last strip stood down or failed; none
  shows a quote of it, unless its words were still in the store when that strip
  had ended; and the chat shows what was refused or had no receipt, nothing else.

## 6. What is proved

Eight modules hold theorems, `PROJECT.json` lists those to know. Each is about
the specification the runs check, for every value of its constants that meets
the ASSUME in its module; where a theorem needs more of a constant it says so
in an ASSUME of its own, and this section says why. Every proof has the same
frame: an inductive invariant, that the initial states have it, that each action
keeps it (one lemma per action), and that it implies the property. TLC checked
each invariant on an instance before it was proved. What follows is what each
invariant adds to its property, which is the reason the code is right.

### The edge and the store

* `EdgeType`, `ReseatsStrangersOnly` (`OutboundEdgeProofs`). A step that moves a
  cursor back re-seats it, so the cursor stood above everything the listing
  held. The invariant says where such a cursor can come from: as long as the
  birth that seated it holds the id, the cursor is at or below the newest block
  of that conversation's ledger, and a pass's listing is a subset of the ledger
  as long as its birth stands. Both halves are needed, as the ledger moves
  between the listing and the seating.
* `HandedOnce` (`OutboundEdgeProofs`). An item's copies in a fork are what could be
  handed again, so the invariant is about inheritance: the cursor of a served
  conversation is past every block it inherited, and a handed item is behind
  the cursor of each served conversation that carries it, or is among what that
  conversation inherited and its first seating skips. It assumes that `Resets`
  holds no deletion (`NoDeletion`): with a strip's, an erasure's or the sweep's
  the property is false of the code, and section 7 has the runs that show it.
  Wipes, compactions, nulled targets, faults, overruns and restarts are in.
* `OwnItemsAreKept` (`OutboundEdgeProofs`), with every reset, deletion and fault in and
  nothing assumed. `KeepInv` says that a ledger holds blocks that are stored
  (`HeldUsed`), each to be handed over with its item (`ItemsStored`), that a cursor
  written for somebody stands somewhere (`EntriesSeated`), and, while the
  conversation it was listed for is there, that a pass has a row of each of its
  blocks, with all later ones behind them (`RowsWhole`). So the row a pass hands
  over is the only one its step of the cursor passes, and a seating that passes
  anything takes the inherited boundary: a stranger's entry that stands above the
  newest block is re-seated, one that does not stays where it is. What a ledger
  may do between the listing and the seating is one lemma per action (`Takes`).
* `StoreType`, `LineageIsSound` (`SessionsProofs`). `NeverAStranger` alone is
  not inductive: a reference to a deleted conversation could be waiting for the
  id being issued. `PointsBelow` says it is not, since the id is above every
  live holder. This is the argument `docs/units/63` makes in a sentence.
* `SessionsTypeCorrect`, `SessionsKeepTheStore`, `SessionsLineageSound`
  (`SessionsProofs`): the sessions implement the store, step by step, so the store's
  theorem is theirs. The hard step is a scrub's, which rebuilds a lineage outside
  the holds and deletes the old one by id at its end. Three facts carry it: what a
  worker made is alive, unmapped and its own; the ids of a lineage below its
  serving thread stay below a conversation that stands, so none of them is issued
  again; and a conversation another one continues is unmapped. The last two
  theorems assume `"expire" \notin Ops`: the retention sweep may delete the root
  clone of a scrub under way, and section 7 has what follows. The first does not.
* `NoneLeftBehind` (`SessionsProofs`). `MappedOrRetired` speaks of the quiet states
  only, so the invariant (`AllAccounted`) says of every other state that a
  conversation that never served is a worker's own or is continued by one that is
  nobody's. A swap retires a lineage at once, and the clone that takes the channel
  continues none of it: so the lines in flight are linked from the root to their
  last (`LinesLinked`), and the clones of a scrub from the first to the newest
  (`MadeLinked`). It holds for any number of workers at once. It assumes
  `Undisturbed`: no fault, no torn swap, no restart, no expiry, no direct chat; each
  of them can leave a conversation behind (section 7).
* `ErasureTakesHold` (`SessionsProofs`). The strip takes the erased messages out of a
  lineage's ledgers, the scrubs rebuild the digests that retold them. The invariant
  (`Retold`) says that each serving thread stands on a chain of conversations of its
  own in which a digest retells only what the one below it holds or retells
  (`Founded`); that a worker's source, clones and words agree with what it read
  (`Tidy`); and that an erased message a serving digest still retells is in a plan
  or a scrub under way, or is residual (`Awaited`). Faults, torn swaps, restarts and
  direct chats are in. It assumes that the sweep is out, as before, and `OneWorker`:
  with a second one the property is false of the code, which is finding 1 of
  section 7.
* `MemoryIsKept`, `InstallsOnItsSource` (`ChannelMemoryProofs`): the sessions
  implement `ChannelMemory`, for any number of workers at once. Each step is mapped:
  a message to `Record`, a wipe to `StartOver`, an erasure to `Forget`, a strip and a
  scrub to `Retract` or, where all they strip is nulled, to a quiet step, and
  everything else to a quiet step. What a swap must not change is the union of what
  a thread holds and retells, so the invariant (`Faithful`) is an equation where
  `Founded` of `ErasureTakesHold` is an inclusion: each channel has a chain of
  conversations of its own, and in it a digest retells exactly what its thread did
  not inherit of the one below, but for nulled words (`Exact`). Beside the chains,
  a compaction's words are the half of its source up to the cut (`SourceRead`), a
  scrub's clones hold and retell what the line it read does without what it strips
  (`Rebuilding`), a strip's message is in its thread's own ledger (`StripRead`), and a
  line that is being worked on is its channel's whole chain as long as the channel
  has not moved (`Held`). A check by id is enough since a conversation older than one
  that stands is not issued again (`Older`). The theorems assume `Undivided`: no torn
  swap, which leaves a chat on nothing, and no expiry, which may delete a scrub's
  clone (section 7 has both); and no direct chat where there are erasures, because
  deleting one frees ids that a plan or a compaction still names. Faults, silent
  turns, restarts, wipes, retractions and erasures are in.

### Speaking

* `SendingType`, `AllowanceIsKept` (`SendingProofs`). The caps are asked at
  admission and the count changes at filing. The invariant adds that an admitted
  call which has not filed has room in every tier (`RoomForNext`), which stands
  because no other call is admitted meanwhile (`OneAtATime`): the in-order rule,
  and the reason the code gives for having no filing lock. `NotYet` (a call
  beyond those recorded is in no ledger) makes a call's number its order.
* `PostsInOrder`, `NothingPostedLate` (`SendingProofs`). A message is handed over
  while its call is the one admitted, so every call that may still hand one over
  is a later one, and the queue continues what the chat shows; a copy of a call in
  a later session is behind that session's cursor.
* `WireReportsTheChat`: at each stage of a send the chunks on the chat are a prefix
  of the message, those the client has receipts of, and one more only while an
  answer is unknown.
* `AnswersGoWhole` (`Retraction`): a chunk whose deletion was asked back is not listed
  again. An answer that was asked back is gone or has a strip yet to come
  (`ShownRight`), and gone (`Gone`) is more than shown nowhere: it is in no thread of
  the lineage, and not in the store either unless it lingered, so that no later
  reply can quote it and no compaction bring it back; what a strip under way has
  read still covers what the lineage holds of it, since a reply that would add to
  it is another ingestion (`SwapRight`). It assumes `Intakes <= 1`: the adapter hands
  over one ingestion at a time (section 7).
* `CueTellsTheTruth` (`Composing`): what the edge has counted, and what the carriers
  still hold, add up to the sends that are not over, unless a terminal, a loss or a
  failed read came between.
* `RowsTellTheChat` (`Revisions`): the newest row the session can read of a message
  is its newest ingested update or a repetition of its first.

### Coming in

* `OneFiling`, `NoMarkBeside`, `NamesAreGone`, `TypeCorrect` (`FilingProofs`) are about
  who may be where. The fence keeps an erasure alone, the door keeps a scan and
  its append, and the passes of a mirror, apart from one another; so what a scan
  found is still so at the append. What names an id no row carries any more is
  accounted for by whoever took the row and is not through with it. `Scenes`,
  `Author`, `RepliesTo` are typed functions, the sets of actors disjoint: nothing of
  what the calls are about is fixed.
* `UpdatesAreTaken` (`Intake`): whatever is below an offset, asked for or written,
  was ingested; what the consumer remembers is the newest of what its run took.
* `NotesTellTheGroup`, `RulesComeFirst` (`Contact`): what the session's newest note
  of a kind says is what the last update taken of that kind said, or what a later
  lookup read, and a joiner's notice belongs to the event under way or to one
  that was left whole or cut short.
* `DebtsAreKept`, `AdmittedAtTheLeast` (`Debts`): behind a summons that
  stands, every message that owes an answer owes it at no more than the
  summoner's authority, and so does the stamp an ingestion has computed and not
  written yet, because only one ingestion holds one at a time. Assumed of the
  authorities: they are numbers, and `FLOOR` is the least.
* `BudgetIsKept`: an entry's count is never more than the grants of its window that
  stand, and what it falls short of is what came back too late.
* `IntroducedJustOnce`: a stored line that was not handed over is the one in hand or
  was lost with a process, and no other is stored meanwhile.
* `OnlyWhoAsked`, `ObjectionHolds` (`RightsProofs`): an id of a row is issued once,
  so what was filed or confirmed under it stays with the row also when that is
  gone; and the fence keeps an ingestion's row there until it has used it.
* `SearchesAreTrue`: what the cache holds is what the vendor answered when it was
  put there, and an ask that has its page has what was answered for it.

### Compactions, streams, deployments

* `UnattendedInTime` (`AutoCompaction`): a driver that has neither tried nor been away
  is free, has a tick to take where a chat is near its edge, and takes it before
  the next one. Assumed: `Margin < Ttl`, and `Never` is no instant.
* `CaptureTellsTheTurn` (`Capture`), nothing assumed: what a reading found behind a
  predicate that was not early is all the turn wrote, as a turn that is over stays
  over; and a capture that waits on a turn that is over has an event to take.
* `SettlementsTellTheTruth` (`Streams`), nothing assumed: a settlement that waits on a
  tail of its own stream has that stream's end ahead of it on the bus, or a lag,
  or the stream is still there. On a dead process's tail it may have nothing, which
  is the property's exception.
* `ServesTheDeployment`, `TellsTheContract` (`Deployments`): the walk's successor is
  nobody else's until it is mapped; every ledger's words are in the served one, in
  the successor being composed or left behind; and where the older contract was
  recorded, a ledger with an answer posted under it has the notice or still has
  the older choice as its newest, through forks, repairs and compactions. A new
  ledger is the head it was given and a stretch of an older one (`Carries`), and
  each part of the invariant is shown once for such a ledger. The ASSUME on
  `Ledgers` says what earlier builds may have left: rows, one prompt at most,
  no notice, and no answer ahead of a misplaced prompt whose older choice is
  behind it (section 7 has what happens to such a one).

### How the proofs are laid out

`ServiceProofs` holds nine models that share no variable and `ChatProofs` five, one
section each; the bullets above name the model where the theorem's module is one
of these two. Some definitions of the models are stated the way
the provers can use them rather than with a fold or a filter: `Capture.Unlagged`,
`Intake.InOrder`, `Composing.Remaining`, `Streams.Kept`, `Deployments.NewestChoice`.
The greatest element of a bounded set (`LastExists`) comes from the library's
well-foundedness of the numbers, as induction over data cannot be instantiated.

### What is only model-checked

Every liveness property, as the proof system has neither fairness nor ENABLED
for them: `EventuallyHanded`, `OperationsEnd`, `EveryHoldEnds`, `EveryUpdateTaken`,
`ShutdownEnds`, `NotMarkedForEver`, `SettledWhereFiled`. `EdgeType` and
`InstallContinuesItsSource` are theorems only: no run checks them. Where a theorem
assumes less may happen than a property's run lets happen, the run is what there is.

## 7. Where code and text disagree

Three runs show one each (`PROJECT.json`, "findings"):

1. `sess_race`. A compaction's summary is captured outside the fence; an erasure
   in between does not reach it, and the install brings the words back.
2. `send_stuck`. A compaction settles its source's stream but no sends. A filed
   send whose receipt is out is copied open into the successor; the receipt
   settles the source's call, nothing settles the copy, and the in-order rule
   parks every later send of the chat until the next start.
3. `wire_formatting`. A refusal of the markup that arrives with a client-error
   status is never read as one, so the send fails and the plain form is not
   tried (`client.rs` 773 and 932, of the adapter).

Met while modelling, reproducible with an instance but not kept as runs:

* *Edge.* `AtMostOnce` fails on `edge_core` with `"strip"` in `Resets`: a strip
  deletes the conversation it replaced before the edge first visits the clone,
  nothing is shared any more, the inherited boundary is zero, and every item
  the clone carries is handed over again.
* *Edge, seating.* `BoundaryIsInherited` fails on `edge_core` with `Resets = {"compact"}`:
  the boundary of a first visit is the newest block another conversation holds at
  that instant (`outbound.rs` 622), and while a compaction's temporary fork stands
  that is a block the conversation filed itself, though 615 says it "is one this
  conversation was forked with"; its item is passed over. `StrangersTold` fails on
  `edge_deletions` with `Resets = {"erase"}`: a stranger's cursor that the next holder
  of the id has outgrown before its first visit is kept (597), though 580 says
  "Equality is the one shape ids alone cannot decide".
* *Sessions.* `UnmappedReachable` fails: the earlier thread of a compacted direct
  chat is mapped by no channel, so an erasure deletes the serving one only.
  `MappedOrRetired` fails with `Ops = {"compact", "retract", "fault"}`, 4 ids, 5
  births, 2 messages: a clone whose detaching fails (`session.rs` 1169-1171) or a
  first contact whose mapping write fails is neither mapped nor retired.
  `LineageSound` fails with `Ops = {"compact", "retract", "expire"}`, 5 ids, 7
  births, 1 message: the sweep may delete a scrub's root clone, which holds no
  block of its own, while the scrub keeps its id. `MappedLives` fails likewise
  with `{"compact", "retract", "wipe", "expire", "silence"}` and 8 births: the
  discard then deletes whatever holds the id by now. `ErasedWordsGone` fails with
  `"expire"`: an expired source ends the lineage chain the plan walks.
  `MemoryKept` fails with `Ops = {"compact", "retract", "torn"}`: a swap that is cut
  between its two writes (`session.rs` 1038-1040) leaves the chat on nothing, and
  its next message starts over, though both threads stand.
  `InstallContinuesItsSource` fails with a direct channel, two workers,
  `{"compact", "erase"}`, 3 ids, 5 births, 2 messages: the check at `session.rs` 956
  compares ids, and an erased chat's new conversation can have the old one's.
* *Sending.* A send that was cut short, or whose last answer was lost, counts as
  failed, though `tools/sending.rs` 34-36 says a failed send "posted nothing". A
  reset starts a session's count from what it carries, while the caps are
  described as per chat (`tools/sending.rs` 159-161). A re-run whose ledger read
  fails answers that nothing was sent, though the first run filed.
* *Filing.* `NamesGone` fails without its exception for a mirror that was cut
  short: the last three passes run only where the first two found a row, and
  handed in again the command finds none (`assembly.rs` 2432).
* *Rights.* `FromThatMoment` fails: the privacy tool raises the flag under the
  fence's shared side and not under the stamp lock (`tools/rights.rs` 194), so an
  ingestion that has read the flag under its lock still appends after it;
  `assembly.rs` 2697 says "once the lock is held the flag is settled", and
  `docs/privacy/records-of-processing.md` 69 "from the moment it stands, the
  person's new messages are dropped at ingestion".
* *Contact.* `RulesAheadAlways` fails: retention takes a quiet group's session
  (`session.rs` 341) and tells the driver nothing, so the next session lacks the
  rules until something else asks. A join event that fails between two joiners
  loses the rest (`assembly.rs` 2106); `NotesAgree` excepts it.
* *Debts.* A summons absorbed while the answering text streams stands before it in
  the ledger: the turn's walk counts it, the next turn's ends at the text
  (`tools/provenance.rs` 353).
* *Streams.* `SettleTruthful` fails without the exception `settle.stale`: a dead
  process's tail is taken for a live stream's, and the settlement waits for an end
  that has passed. `OwnMeasure` fails: an end queued before `forget`
  re-creates a deleted id's measurement. The status of a forced end counts as
  the interrupt's own, hence the exception `forced = 0`.
* *Composing.* The adapter stops the indicator before the platform call, so a
  turn's second message is written under a quiet chat; the refresher's bound is
  not restarted by a second begin; an ending that comes late from an earlier
  stream's send counts down the next signal.
* *AutoCompaction.* What was measured is forgotten after a *failed* compaction too
  (`session.rs` 1763-1767), so in a chat that stays silent the next wake does not
  retry. A forced end during a compaction is inherited by the successor and
  answered by nobody. A driver busy with other chats may miss a cache's edge.
* *Capture.* `DurablyCaptured` fails on `service`: the over-predicate and the blocks are
  read at two awaits (`session.rs` 895 and 898), and a fork whose turn has not begun
  reads as over; a round that commits in between has its text taken for the
  summary of a turn that goes on, though 763 asks that the turn be durably over.
* *Budgets.* `CapHeld` fails: a late hand-back enlarges the next window.
* *Search.* Nothing joins two asks for one page that is not in the cache: both are
  requested and both are billed.
* *Disclosure.* A line that is in the store when the process dies counts as said,
  though its message was never handed over; and the messages of one round of
  calls each carry the line, as the receipt is looked for before the call.
* *Deployments.* `ServesCurrent` fails without `leftBehind`: a repair lifts out the
  rows ahead of a misplaced prompt and leaves those behind it (`assembly.rs`
  1699-1703), and a death between 1730 and 1731 starts the chat over.
  `ContractTold` fails with the ledger `<<Relayed(1), Prompt(1), OlderChoice,
  SaidRow(1)>>`: the choice behind the prompt is dropped with the rest, the
  successor holds an answer that was relayed and no older choice, and no notice
  is written. No door of this build writes a ledger with such a prompt.
* *Revisions.* `EditsRecord` fails: `newest_recorded_version` reads the serving
  conversation only, so after a compaction an edit back to an earlier wording
  has nothing to differ from. A first version that is taken a second time after
  an erasure brings its words back, and the mirror reaches no row below a cut.
* *Retraction.* `NothingStranded` fails: a strip between two receipts leaves a chunk
  no repeat can take back, though `docs/units/telegram/04-deleting-messages.md`
  says "Every message the assistant sends now records its delivery".
  `SpokenFromNoMore` fails on `service`: a quote is resolved by block id alone,
  store-wide (`delivery.rs` 263), and the temporary fork of a compaction in flight,
  or one that was not deleted, keeps a stripped answer in the store. A reply to a
  chunk that stayed on the chat is then stored behind a quote of it, though
  `assembly.rs` 2595 says "an answer that was retracted is one the assistant no
  longer speaks from, whether or not the chat still shows it".
  `RetractionWhole` fails with `Intakes = 2`: it stands on the adapter's handing
  over one update at a time. Where a strip tears behind its swap the answer is
  stored still and a repeat does not find it (`session.rs` 1190 and 1293, said of
  it at 1107); `excused` has it.

## 8. Plan

Done: the edge, the sessions over their two abstract specifications, sending,
filing, intake, contact, debts, rights, streams, composing, automatic
compaction, capture, wire, budgets, search, revisions, retraction, disclosure,
deployments.

Next, to model: the migrations of the store (`schema.rs`), the acknowledgment of
changed rules (`acknowledgment.rs`), the adapter's cache of standings
(`authority.rs`), the translation of an update (`translate.rs`).

Next, to prove: `MemoryKept` with direct chats and erasures, for plans whose
conversations are told by their births.

## 9. Not modelled

Wording, prompts, parsing, formatting, logging, configuration, the model, the
platform's own behaviour beyond what an answer can be, and the lookups other than
the search: single requests or tables. SQL is modelled by what its statement does. `PROJECT.json`
names every component with its status, and under "hazards" what a property
excepts and why.
