-------------------------------- MODULE Capture --------------------------------
(* The one turn of a temporary conversation, and how a compaction learns what *)
(* it wrote (session.rs: capture_summary, CaptureWakes).  The capture reads   *)
(* the ledger again on every wake and concludes from stored state; the events *)
(* only wake it, but for one fact: that a stream of this conversation ended.  *)
EXTENDS Naturals, Sequences

CONSTANTS
    WakeDepth,       \* events the bus keeps for the capture
    MaxRounds        \* bound: streams of the turn

ASSUME CaptureAssumption == {WakeDepth, MaxRounds} \subseteq Nat \ {0}

VARIABLES
    temporary,       \* "latched", "asked", "streams", "round" (outcomes await
                     \* the next one), "over"
    rounds,
    prose,           \* the newest text past the instructions: "none", "answer", "broken"
    wakes,           \* events the capture has not taken
    ended,           \* whether it has seen a stream's end
    capture,         \* "starts", "reads", "lists", "judges", "waits",
                     \* "settles", "summary", "nothing", "failed"
    reading          \* what it read: [early, prose], early where the predicate
                     \* was read before the turn had stored anything

captureVars == <<temporary, rounds, prose, wakes, ended, capture, reading>>
temporaryVars == <<temporary, rounds, prose>>

CaptureInit ==
    /\ temporary = "latched" /\ rounds = 0 /\ prose = "none"
    /\ wakes = <<>> /\ ended = FALSE
    /\ capture = "starts" /\ reading = [early |-> FALSE, prose |-> "none"]

(* "lag" stands for the oldest when there were too many.                      *)
Unlagged == IF wakes # <<>> /\ Head(wakes) = "lag" THEN Tail(wakes) ELSE wakes

Woken(events) ==
    LET kept == Unlagged \o events
        lost == Len(kept) - WakeDepth IN
    wakes' = IF capture = "starts" THEN <<>>
             ELSE IF lost > 0 THEN <<"lag">> \o SubSeq(kept, lost + 1, Len(kept))
             ELSE wakes \o events

-----------------------------------------------------------------------------
(* The framework's turn.                                                      *)

StreamOpens ==
    /\ temporary \in {"asked", "round"} /\ rounds < MaxRounds
    /\ temporary' = "streams" /\ rounds' = rounds + 1
    /\ Woken(<<"change">>)
    /\ UNCHANGED <<prose, ended, capture, reading>>

(* What it wrote is committed, with the calls that summon another round; its  *)
(* end is told after that.                                                    *)
StreamCommits ==
    /\ temporary = "streams"
    /\ prose' \in {prose, "answer", "broken"}
    /\ temporary' \in {"round", "over"}
    /\ Woken(<<"change", "end">>)
    /\ UNCHANGED <<rounds, ended, capture, reading>>

(* A provider's error ends the turn, before or within a stream.               *)
StreamFails ==
    /\ temporary \in {"asked", "streams", "round"}
    /\ temporary' = "over" /\ Woken(<<"end">>)
    /\ UNCHANGED <<rounds, prose, ended, capture, reading>>

-----------------------------------------------------------------------------
(* The capture.                                                               *)

(* It has subscribed, and asks for the turn.                                  *)
Unlatches ==
    /\ capture = "starts" /\ capture' = "reads" /\ temporary' = "asked"
    /\ UNCHANGED <<rounds, prose, wakes, ended, reading>>

(* A fork's ledger is all durable: the predicate holds until the turn has     *)
(* stored something.                                                          *)
DurablyOver == temporary \in {"latched", "asked", "over"}

ReadsPredicate ==
    /\ capture = "reads"
    /\ reading' = [reading EXCEPT !.early = temporary \in {"latched", "asked"}]
    /\ capture' = IF DurablyOver THEN "lists" ELSE "waits"
    /\ UNCHANGED <<temporaryVars, wakes, ended>>

ListsBlocks ==
    /\ capture = "lists"
    /\ reading' = [reading EXCEPT !.prose = prose]
    /\ capture' = "judges"
    /\ UNCHANGED <<temporaryVars, wakes, ended>>

\* Faulty variant: a turn that is over and silent has written nothing.
SilentAtOnce == reading.prose = "none"

(* Silence alone is also what a turn that has not started looks like.         *)
SilentAfterAll == reading.prose = "none" /\ ended

Judges ==
    /\ capture = "judges"
    /\ capture' = CASE reading.prose = "answer" -> "summary"
                    [] reading.prose = "broken" -> "nothing"
                    [] SilentAfterAll           -> "nothing"
                    [] OTHER                    -> "waits"
    /\ UNCHANGED <<temporaryVars, wakes, ended, reading>>

(* One wake, and all that are queued behind it: a burst is one reading.       *)
TakesWakes ==
    /\ capture = "waits" /\ wakes # <<>>
    /\ ended' = (ended \/ \E i \in DOMAIN wakes : wakes[i] = "end")
    /\ wakes' = <<>> /\ capture' = "reads"
    /\ UNCHANGED <<temporaryVars, reading>>

(* The bound: the turn is interrupted and settled, or will not settle.        *)
BoundPasses ==
    /\ capture = "waits" /\ wakes = <<>>
    /\ \/ capture' = "settles" /\ temporary' = "over"
       \/ capture' = "failed" /\ UNCHANGED temporary
    /\ UNCHANGED <<rounds, prose, wakes, ended, reading>>

LastReading ==
    /\ capture = "settles"
    /\ capture' = IF prose = "answer" THEN "summary" ELSE "nothing"
    /\ UNCHANGED <<temporaryVars, wakes, ended, reading>>

Captures ==
    \/ Unlatches \/ ReadsPredicate \/ ListsBlocks \/ Judges
    \/ TakesWakes \/ BoundPasses \/ LastReading

CaptureNext ==
    \/ StreamOpens \/ StreamCommits \/ StreamFails
    \/ Captures

CaptureSpec == CaptureInit /\ [][CaptureNext]_captureVars

-----------------------------------------------------------------------------
(* What the capture concludes is what the turn came to, and it concludes once *)
(* the turn is over: not between its rounds, whatever it has heard.  Where it *)
(* asked before the turn had begun, and the turn went through a round before  *)
(* the capture listed the blocks, it concludes from what that round wrote,    *)
(* though the turn may go on; never from silence.  And a turn that is over    *)
(* and whose end it has heard is not waited for to the bound, which would     *)
(* stall every other chat's.                                                  *)
CaptureTruthful ==
    /\ capture = "summary" => \/ temporary = "over" /\ prose = "answer"
                              \/ reading = [early |-> TRUE, prose |-> "answer"]
    /\ capture = "nothing" => \/ temporary = "over" /\ prose # "answer"
                              \/ reading = [early |-> TRUE, prose |-> "broken"]
    /\ capture = "waits" /\ wakes = <<>> /\ temporary = "over" => ~ended

(* "The capture is over when the summary is DURABLE ... which is two stored   *)
(* facts and needs both.  The framework answers the first - the turn is       *)
(* durably over" (session.rs, capture_summary).                               *)
DurablyCaptured == capture = "summary" => temporary = "over"
=============================================================================
