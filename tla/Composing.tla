------------------------------- MODULE Composing -------------------------------
(* The composing cue of one conversation: the core's edge counts sends that   *)
(* have begun and not ended (composing.rs), and the adapter shows the chat a  *)
(* typing indicator while the edge's signal holds (driver.rs).  Begins and    *)
(* the stream's terminals arrive on the framework's bus, endings on a channel *)
(* of their own; both are bounded, and neither an ending nor its carrier      *)
(* names the send it is of.                                                   *)
EXTENDS Naturals, Sequences, FiniteSets

CONSTANTS
    SendCalls,           \* the sending calls the model makes
    CarrierDepth,    \* what either carrier keeps for a slow edge
    MaxTerminals     \* bound: streams that end

ASSUME ComposingAssumption == CarrierDepth \in Nat \ {0} /\ MaxTerminals \in Nat

VARIABLES
    send,            \* each send: "unmade", "begun", "filed", "leaving", "over"
    current,         \* the sends of the stream that has not ended yet
    terminals,
    said,            \* bus events the edge has not taken: a begin, or a terminal
    endings,         \* endings it has not taken
    unfinished,      \* what the open signal counts; 0 when none is open
    transitions,     \* what the adapter has not taken: composing or not
    refreshing,      \* whether the chat's refresher runs
    counted,         \* history: the sends whose begins the open signal counted
    clean            \* history: nothing was lost or miscounted since a terminal

cueVars == <<send, current, terminals, said, endings, unfinished, transitions,
             refreshing, counted, clean>>

Unfinished == {s \in SendCalls : send[s] \in {"begun", "filed", "leaving"}}

ComposingInit ==
    /\ send = [s \in SendCalls |-> "unmade"]
    /\ current = {} /\ terminals = 0
    /\ said = <<>> /\ endings = <<>>
    /\ unfinished = 0 /\ transitions = <<>> /\ refreshing = FALSE
    /\ counted = {} /\ clean = TRUE

(* What a slow edge finds: the oldest is gone, and it learns that much.       *)
Missed == [of |-> {}, lagged |-> TRUE]
Told(of) == [of |-> of, lagged |-> FALSE]

(* What is gone is told of in the first place only.                           *)
Remaining(queue) == IF queue # <<>> /\ Head(queue).lagged THEN Tail(queue) ELSE queue

Carried(queue, event) ==
    LET kept == Remaining(queue) IN
    IF Len(kept) < CarrierDepth THEN Append(queue, event)
    ELSE <<Missed>> \o Tail(kept) \o <<event>>

-----------------------------------------------------------------------------
(* The calls.                                                                 *)

(* The framework records a sending call: its start is on the bus first.       *)
RecordsCall(s) ==
    /\ send[s] = "unmade"
    /\ send' = [send EXCEPT ![s] = "begun"]
    /\ current' = current \cup {s}
    /\ said' = Carried(said, Told({s}))
    /\ UNCHANGED <<terminals, endings, unfinished, transitions, refreshing,
                   counted, clean>>

StreamEnds ==
    /\ terminals < MaxTerminals /\ terminals' = terminals + 1
    /\ current' = {}
    /\ said' = Carried(said, Told({}))
    /\ UNCHANGED <<send, endings, unfinished, transitions, refreshing, counted, clean>>

FilesSend(s) ==
    /\ send[s] = "begun" /\ send' = [send EXCEPT ![s] = "filed"]
    /\ UNCHANGED <<current, terminals, said, endings, unfinished, transitions,
                   refreshing, counted, clean>>

(* The adapter darkens the chat itself before the platform call.              *)
CallsPlatform(s) ==
    /\ send[s] = "filed" /\ send' = [send EXCEPT ![s] = "leaving"]
    /\ refreshing' = FALSE
    /\ UNCHANGED <<current, terminals, said, endings, unfinished, transitions,
                   counted, clean>>

(* Refused before it was filed, or reported on, however it went.              *)
SendOver(s) ==
    /\ send[s] \in {"begun", "leaving"} /\ send' = [send EXCEPT ![s] = "over"]
    /\ endings' = Carried(endings, Told({s}))
    /\ UNCHANGED <<current, terminals, said, unfinished, transitions, refreshing,
                   counted, clean>>

-----------------------------------------------------------------------------
(* The edge.                                                                  *)

StopsSignal ==
    /\ unfinished' = 0 /\ counted' = {}
    /\ transitions' = IF unfinished = 0 THEN transitions ELSE Append(transitions, FALSE)

(* The edge answers a lag on either carrier by stopping what it holds.        *)
StopsEverything == StopsSignal /\ clean' = FALSE

(* Where no signal is open the channel is looked up, and a begin whose        *)
(* conversation is not mapped then, or not readable, is dropped.              *)
CountsBegin(s) ==
    IF unfinished > 0
    THEN /\ unfinished' = unfinished + 1 /\ counted' = counted \cup {s}
         /\ UNCHANGED <<transitions, clean>>
    ELSE \/ /\ unfinished' = 1 /\ counted' = {s}
            /\ transitions' = Append(transitions, TRUE)
            /\ UNCHANGED clean
         \/ clean' = FALSE /\ UNCHANGED <<unfinished, counted, transitions>>

TakesBus ==
    /\ said # <<>> /\ said' = Tail(said)
    /\ LET event == Head(said) IN
       \/ event.lagged /\ StopsEverything
       \/ ~event.lagged /\ event.of = {} /\ StopsSignal /\ clean' = TRUE
       \/ ~event.lagged /\ \E s \in event.of : CountsBegin(s)
    /\ UNCHANGED <<send, current, terminals, endings, refreshing>>

CountsDown ==
    IF unfinished > 1 THEN unfinished' = unfinished - 1 /\ UNCHANGED <<counted, transitions>>
    ELSE StopsSignal

\* Faulty variant: the carriers are read in no particular order.
AnyOrder == endings # <<>>

(* What the bus holds is taken before an ending is.                           *)
BusFirst == endings # <<>> /\ said = <<>>

TakesEnding ==
    /\ BusFirst
    /\ endings' = Tail(endings)
    /\ IF Head(endings).lagged THEN StopsEverything
       ELSE /\ CountsDown
            /\ clean' = (clean /\ (unfinished > 0 => Head(endings).of \subseteq counted))
    /\ UNCHANGED <<send, current, terminals, said, refreshing>>

(* A signal that has stood for its lifetime.                                  *)
SignalExpires ==
    /\ unfinished > 0
    /\ StopsEverything
    /\ UNCHANGED <<send, current, terminals, said, endings, refreshing>>

-----------------------------------------------------------------------------
(* The adapter.                                                               *)

ConsumesTransition ==
    /\ transitions # <<>> /\ transitions' = Tail(transitions)
    /\ refreshing' = Head(transitions)
    /\ UNCHANGED <<send, current, terminals, said, endings, unfinished, counted, clean>>

(* A refresher's own bound.                                                   *)
RefresherRunsOut ==
    /\ refreshing /\ refreshing' = FALSE
    /\ UNCHANGED <<send, current, terminals, said, endings, unfinished, transitions,
                   counted, clean>>

ComposingNext ==
    \/ \E s \in SendCalls : RecordsCall(s) \/ FilesSend(s) \/ CallsPlatform(s) \/ SendOver(s)
    \/ StreamEnds
    \/ TakesBus \/ TakesEnding \/ SignalExpires
    \/ ConsumesTransition \/ RefresherRunsOut

ComposingSpec == ComposingInit /\ [][ComposingNext]_cueVars

-----------------------------------------------------------------------------
(* Once the edge has taken what it was told, its signal counts the sends of   *)
(* the stream that are not over: two sends keep the chat busy until the       *)
(* second ends, and an ending never overtakes its begin.  What a lag, an      *)
(* expiry, a failed read or a send that outlives its stream may spoil, the    *)
(* next terminal mends.  And an indicator stands only under a signal, or      *)
(* until the adapter has read that it is over.                                *)
CueTruthful ==
    /\ clean /\ said = <<>> /\ endings = <<>> => unfinished = Cardinality(current \cap Unfinished)
    /\ refreshing /\ transitions = <<>> => unfinished > 0
=============================================================================
