-------------------------------- MODULE Streams --------------------------------
(* Whether a conversation's model stream is over, as whoever is about to      *)
(* replace or delete the conversation finds out (streams.rs).  The framework, *)
(* which is external, runs one stream at a time, stores a tail while it is    *)
(* written, and tells of its statuses and its end on a bus; an observer keeps *)
(* an open mark from what it hears there.  The bus is bounded: a subscriber   *)
(* that falls behind loses the oldest events and learns only that it did.     *)
EXTENDS Naturals, Sequences

CONSTANTS
    BusDepth,        \* events the bus keeps for a subscriber
    MaxStreams,      \* bound: streams the framework starts
    MaxSettles,      \* bound: settlements asked for
    MaxForcedEnds,   \* bound: streams ended over a spent tool-call window
    MaxOthers        \* bound: events of other conversations

ASSUME StreamsAssumption ==
    BusDepth \in Nat \ {0} /\ {MaxStreams, MaxSettles, MaxForcedEnds, MaxOthers} \subseteq Nat

VARIABLES
    stream,          \* the framework's: [at, n, deaf], n numbers the streams
    tail,            \* whether the ledger holds a streaming tail
    statuses,        \* the status blocks it holds
    interrupts,      \* interrupts asked for and not yet handled
    heard,           \* events the observer has not taken yet
    open,            \* the observer's mark
    measured,        \* the holder of the id whose usage it remembers; 0 for none
    settle,          \* the settlement: [at, observed, tail, stale, before, n], stale
                     \* where the tail it read was a dead process's
    waits,           \* events it has not taken yet
    holder,          \* which conversation has the id
    residue,         \* history: the tail is a dead process's
    forced, settles, others

fromFramework == <<stream, tail, statuses, interrupts>>
observer    == <<heard, open, measured>>
settling    == <<settle, waits, settles>>
streamVars  == <<fromFramework, observer, settling, holder, residue, forced, others>>

Live  == stream.at # "none"
NoSettle == [at |-> "idle", observed |-> FALSE, tail |-> FALSE, stale |-> FALSE,
             before |-> 0, n |-> 0]

StreamsInit ==
    /\ stream = [at |-> "none", n |-> 0, deaf |-> FALSE]
    /\ tail \in BOOLEAN /\ residue = tail
    /\ statuses = 0 /\ interrupts = 0
    /\ heard = <<>> /\ open = FALSE /\ measured = 0
    /\ settle = NoSettle /\ waits = <<>> /\ settles = 0
    /\ holder = 1 /\ forced = 0 /\ others = 0

-----------------------------------------------------------------------------
(* The bus: every event goes to the observer and to a settlement under way.   *)

(* Of what is gone only the first place tells.                                *)
Kept(queue) == IF queue # <<>> /\ Head(queue).kind = "lag" THEN Tail(queue) ELSE queue
Lag == [kind |-> "lag", of |-> 0]

OnBus(queue, event) ==
    IF Len(Kept(queue)) < BusDepth THEN Append(queue, event)
    ELSE <<Lag>> \o Tail(Kept(queue)) \o <<event>>

Subscribed == settle.at \in {"reads", "counts", "waits", "confirms"}

Emit(kind) ==
    LET event == [kind |-> kind, of |-> holder] IN
    /\ heard' = OnBus(heard, event)
    /\ waits' = IF Subscribed THEN OnBus(waits, event) ELSE waits

-----------------------------------------------------------------------------
(* The framework.                                                             *)

Goes(at) == stream' = [stream EXCEPT !.at = at]

Dispatches ==
    /\ stream.at = "none" /\ stream.n < MaxStreams
    /\ \E deaf \in BOOLEAN : stream' = [at |-> "dispatched", n |-> stream.n + 1, deaf |-> deaf]
    /\ UNCHANGED <<tail, statuses, interrupts, observer, settling, holder,
                   residue, forced, others>>

(* The first status, and those that follow it.                                *)
Connects ==
    /\ stream.at \in {"dispatched", "streams"}
    /\ Goes(IF stream.at = "dispatched" THEN "connected" ELSE "streams")
    /\ Emit("status")
    /\ UNCHANGED <<tail, statuses, interrupts, open, measured, settle, settles,
                   holder, residue, forced, others>>

StoresTail ==
    /\ stream.at = "connected"
    /\ Goes("streams") /\ tail' = TRUE /\ residue' = FALSE
    /\ UNCHANGED <<statuses, interrupts, observer, settling, holder, forced, others>>

Commits ==
    /\ stream.at = "streams"
    /\ Goes("committed") /\ tail' = FALSE
    /\ UNCHANGED <<statuses, interrupts, observer, settling, holder, residue,
                   forced, others>>

(* A stream ends once its text is committed, or with an error before that; an *)
(* end over a spent tool-call window leaves a status of its own.              *)
EndsStream ==
    /\ stream.at \in {"dispatched", "connected", "streams", "committed", "orphaned"}
    /\ Goes("none") /\ Emit("end")
    /\ tail' = (tail /\ residue)
    /\ \/ UNCHANGED <<statuses, forced>>
       \/ /\ stream.at = "committed" /\ forced < MaxForcedEnds
          /\ statuses' = statuses + 1 /\ forced' = forced + 1
    /\ UNCHANGED <<interrupts, open, measured, settle, settles, holder, residue,
                   others>>

(* An interrupt sweeps the tail, records itself, and ends the stream, unless  *)
(* the provider is deaf to it: that one is cut off from the ledger and tells  *)
(* nothing any more.                                                          *)
HandlesInterrupt ==
    /\ interrupts > 0
    /\ interrupts' = interrupts - 1
    /\ tail' = FALSE /\ residue' = FALSE
    /\ statuses' = statuses + 1
    /\ IF ~Live \/ stream.at = "orphaned" THEN UNCHANGED <<stream, heard, waits>>
       ELSE IF stream.deaf THEN Goes("none") /\ UNCHANGED <<heard, waits>>
       ELSE Goes("none") /\ Emit("end")
    /\ UNCHANGED <<open, measured, settle, settles, holder, forced, others>>

(* The bus is everyone's: what is said of other conversations takes its room. *)
OtherTraffic ==
    /\ others < MaxOthers /\ others' = others + 1
    /\ Emit("other")
    /\ UNCHANGED <<fromFramework, open, measured, settle, settles, holder,
                   residue, forced>>

-----------------------------------------------------------------------------
(* The observer.                                                              *)

\* Faulty variant: a subscriber that lost events goes on with the next.
Unsynced == UNCHANGED open

(* A live stream marks itself again; an end lost in the lag stays cleared.    *)
Resync == open' = FALSE

Observes ==
    /\ heard # <<>> /\ heard' = Tail(heard)
    /\ LET event == Head(heard) IN
       \/ event.kind = "lag" /\ Resync /\ UNCHANGED measured
       \/ event.kind = "other" /\ UNCHANGED <<open, measured>>
       \/ event.kind = "status" /\ open' = TRUE /\ UNCHANGED measured
       \/ event.kind = "end" /\ open' = FALSE /\ measured' \in {measured, event.of}
    /\ UNCHANGED <<fromFramework, settling, holder, residue, forced, others>>

Forget == open' = FALSE /\ measured' = 0

-----------------------------------------------------------------------------
(* The settlement.                                                            *)

(* It subscribes, then reads the mark ...                                     *)
SettleBegins ==
    /\ settle.at \in {"idle", "failed"} /\ settles < MaxSettles
    /\ settles' = settles + 1
    /\ settle' = [at |-> "reads", observed |-> open, tail |-> FALSE, stale |-> FALSE,
                  before |-> 0, n |-> IF open \/ tail THEN stream.n ELSE 0]
    /\ waits' = <<>>
    /\ UNCHANGED <<fromFramework, observer, holder, residue, forced, others>>

(* ... then the stored tail: with neither there is nothing to settle.         *)
ReadsTail ==
    /\ settle.at = "reads"
    /\ settle' = [settle EXCEPT !.tail = tail, !.stale = tail /\ residue,
                    !.at = IF ~settle.observed /\ ~tail THEN "settled" ELSE "counts"]
    /\ waits' = IF ~settle.observed /\ ~tail THEN <<>> ELSE waits
    /\ UNCHANGED <<fromFramework, observer, settles, holder, residue, forced, others>>

\* Faulty variant: the mark alone says that there is an end to wait for.
AwaitsMarked(s) == s.observed

(* Only a stream that is marked and stored has an end still to come.          *)
AwaitsEnd(s) == s.observed /\ s.tail

Interrupts ==
    /\ settle.at = "counts"
    /\ interrupts' = interrupts + 1
    /\ settle' = [settle EXCEPT !.before = statuses,
                    !.at = IF AwaitsEnd(settle) THEN "waits" ELSE "confirms"]
    /\ UNCHANGED <<stream, tail, statuses, observer, waits, settles, holder,
                   residue, forced, others>>

(* An end ends the wait, and so does a lag, which may have held it.           *)
Wakes ==
    /\ settle.at = "waits" /\ waits # <<>>
    /\ waits' = Tail(waits)
    /\ settle' = IF Head(waits).kind \in {"status", "other"} THEN settle
                 ELSE [settle EXCEPT !.at = "confirms"]
    /\ UNCHANGED <<fromFramework, observer, settles, holder, residue, forced, others>>

Confirmed == ~tail /\ statuses > settle.before

ConfirmsSettled ==
    /\ settle.at = "confirms" /\ Confirmed
    /\ settle' = [settle EXCEPT !.at = "settled"] /\ waits' = <<>>
    /\ UNCHANGED <<fromFramework, observer, settles, holder, residue, forced, others>>

(* The bound is generous: the interrupt is handled by then, and what there is *)
(* to hear is heard.                                                          *)
GivesUp ==
    /\ interrupts = 0
    /\ \/ settle.at = "waits" /\ waits = <<>> /\ Forget
       \/ settle.at = "confirms" /\ ~Confirmed /\ UNCHANGED <<open, measured>>
    /\ settle' = [settle EXCEPT !.at = "failed"] /\ waits' = <<>>
    /\ UNCHANGED <<fromFramework, heard, settles, holder, residue, forced, others>>

(* The caller deletes the conversation it settled, and another one gets its   *)
(* id; a stream dispatched unseen meanwhile fails on its first write.         *)
DeletesSettled ==
    /\ settle.at = "settled" /\ holder < MaxSettles
    /\ Forget
    /\ tail' = FALSE /\ residue' = FALSE /\ statuses' = 0
    /\ IF Live THEN Goes("orphaned") ELSE UNCHANGED stream
    /\ holder' = holder + 1 /\ settle' = NoSettle
    /\ UNCHANGED <<interrupts, heard, waits, settles, forced, others>>

(* Or it leaves it standing, unmapped.                                        *)
LeavesStanding ==
    /\ settle.at = "settled"
    /\ settle' = NoSettle
    /\ UNCHANGED <<fromFramework, observer, waits, settles, holder, residue,
                   forced, others>>

Settles == ReadsTail \/ Interrupts \/ Wakes \/ ConfirmsSettled \/ GivesUp

StreamsNext ==
    \/ Dispatches \/ Connects \/ StoresTail \/ Commits \/ EndsStream \/ HandlesInterrupt
    \/ OtherTraffic \/ Observes
    \/ SettleBegins \/ ReadsTail \/ Interrupts \/ Wakes \/ ConfirmsSettled \/ GivesUp
    \/ DeletesSettled \/ LeavesStanding

StreamsSpec == StreamsInit /\ [][StreamsNext]_streamVars

(* The observer and the settlement are tasks that take what is there; a       *)
(* stream need not end.                                                       *)
StreamsFairSpec ==
    /\ StreamsSpec
    /\ WF_streamVars(Observes) /\ WF_streamVars(Settles) /\ WF_streamVars(HandlesInterrupt)

-----------------------------------------------------------------------------
(* Properties.                                                                *)

Writing == stream.at \in {"dispatched", "connected", "streams"}

(* A settlement tells the truth.  Settled: the stream that was marked or      *)
(* stored when it began writes no more, and no interrupt of its own is still  *)
(* to be recorded in a ledger its caller is about to delete.  Not settled:    *)
(* the provider was deaf, or another stream has begun, never a turn that had  *)
(* committed its answer and whose end came before anyone listened; unless the *)
(* tail that made it wait was not that turn's, but one a dead process left.   *)
SettleTruthful ==
    /\ settle.at = "settled" =>
         /\ settle.n = stream.n /\ settle.n # 0 => ~Writing
         /\ forced = 0 => interrupts = 0
    /\ settle.at = "failed" =>
         stream.deaf \/ stream.n # settle.n \/ (settle.observed /\ settle.stale)

(* A mark does not outlive its stream for ever: an end that was lost with the *)
(* bus's oldest events clears it, and so does a deletion.                     *)
NotMarkedForEver == (open /\ ~Live /\ ~stream.deaf) ~> (Live \/ ~open)

(* What is remembered of a conversation was measured on it, not on an earlier *)
(* holder of its id.                                                          *)
OwnMeasure == measured \in {0, holder}
=============================================================================
