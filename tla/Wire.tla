--------------------------------- MODULE Wire ----------------------------------
(* One message on its way to the platform (client.rs, and send_recording of   *)
(* driver.rs): in chunks, the first onto the message it answers, each first   *)
(* formatted; with a retry where the platform limits the rate, a second form  *)
(* where it refuses the first, and no retry where the fate is unknown.  What  *)
(* the client believes reached the chat is what the core is told.             *)
EXTENDS Naturals, Sequences

CONSTANTS
    MaxChunks,       \* bound: chunks of a message
    Attempts,        \* RATE_LIMIT_ATTEMPTS
    Shapes           \* how a refusal arrives: "status" (a client error), "body" (ok: false)

ASSUME WireAssumption ==
    /\ {MaxChunks, Attempts} \subseteq Nat \ {0} /\ Shapes \subseteq {"status", "body"}

Causes == {"formatting", "thread", "chat"}

VARIABLES
    chunks,          \* how many the message takes
    thread,          \* "plain", "ontoOrPlainly", "ontoOnly"
    unparsed,        \* chunks whose markup the platform cannot parse
    threadless,      \* whether it refuses the message's target
    form,            \* the request under way: [formatted, targeted]
    attempt,         \* of that request, under the rate limit
    delivered,       \* the chunks it was told the platform took
    outcome,         \* "sending", "whole", "failed"
    why,             \* what it failed with: a cause, "limited", "unknown"
    chat             \* the chunks the chat has

wireVars == <<chunks, thread, unparsed, threadless, form, attempt, delivered,
              outcome, why, chat>>
message == <<chunks, thread, unparsed, threadless>>

chunk == Len(delivered) + 1
Opening(n, how) == [formatted |-> TRUE, targeted |-> n = 1 /\ how # "plain"]

WireInit ==
    /\ chunks \in 1 .. MaxChunks
    /\ thread \in {"plain", "ontoOrPlainly", "ontoOnly"}
    /\ unparsed \in SUBSET (1 .. chunks) /\ threadless \in BOOLEAN
    /\ form = Opening(1, thread) /\ attempt = 1
    /\ delivered = <<>> /\ outcome = "sending" /\ why = "none"
    /\ chat = <<>>

-----------------------------------------------------------------------------
(* The platform.                                                              *)

Objections ==
    {"chat"} \cup (IF form.formatted /\ chunk \in unparsed THEN {"formatting"} ELSE {})
             \cup (IF form.targeted /\ threadless THEN {"thread"} ELSE {})

Postable == Objections = {"chat"}

-----------------------------------------------------------------------------
(* The client.                                                                *)

SendFails(cause) ==
    /\ outcome' = "failed" /\ why' = cause
    /\ UNCHANGED <<form, attempt, delivered>>

Tries(next) ==
    /\ form' = next /\ attempt' = 1
    /\ UNCHANGED <<delivered, outcome, why>>

(* The chunk is in the chat, and the answer names it.                         *)
Accepted ==
    /\ outcome = "sending" /\ Postable
    /\ chat' = Append(chat, chunk)
    /\ delivered' = Append(delivered, chunk)
    /\ IF chunk = chunks THEN outcome' = "whole" /\ UNCHANGED <<form, attempt>>
       ELSE form' = Opening(chunk + 1, thread) /\ attempt' = 1 /\ UNCHANGED outcome
    /\ UNCHANGED <<message, why>>

(* A wait past the ceiling is not waited, and a bound of attempts is spent.   *)
RateLimited ==
    /\ outcome = "sending"
    /\ \/ SendFails("limited")
       \/ /\ attempt < Attempts /\ attempt' = attempt + 1
          /\ UNCHANGED <<form, delivered, outcome, why>>
    /\ UNCHANGED <<message, chat>>

\* Faulty variant: an answer outside the success range is a refusal.
AnyStatus(shape) == shape \in {"status", "body", "lost"}

(* The platform declined and did nothing.                                     *)
IsRefusal(shape) == shape \in {"status", "body"}

(* The markup goes where it was refused, as far as that is read ...           *)
RejectsFormatting(shape, cause) == form.formatted /\ shape = "body" /\ cause = "formatting"

(* ... and the thread, where the core lets it, together with a fresh attempt  *)
(* at the markup.                                                             *)
RejectsThread(shape) == form.targeted /\ thread = "ontoOrPlainly" /\ IsRefusal(shape)

Decides(shape, cause) ==
    IF RejectsFormatting(shape, cause) THEN Tries([form EXCEPT !.formatted = FALSE])
    ELSE IF RejectsThread(shape) THEN Tries([formatted |-> TRUE, targeted |-> FALSE])
    ELSE SendFails(cause)

Declined ==
    /\ outcome = "sending"
    /\ \E shape \in Shapes, cause \in Objections : Decides(shape, cause)
    /\ UNCHANGED <<message, chat>>

(* A transport failure, a server's error, an answer that does not decode: the *)
(* chunk may be in the chat or not.                                           *)
AnswerLost ==
    /\ outcome = "sending"
    /\ chat' \in {chat} \cup (IF Postable THEN {Append(chat, chunk)} ELSE {})
    /\ Decides("lost", "unknown")
    /\ UNCHANGED message

WireNext == Accepted \/ RateLimited \/ Declined \/ AnswerLost

WireSpec == WireInit /\ [][WireNext]_wireVars

-----------------------------------------------------------------------------
(* The report matches the chat: no chunk twice and none after a gap, and what *)
(* is reported is what is there, but for the one chunk whose fate is unknown. *)
(* And a reply that may go plainly is not lost to its thread.                 *)
ReportMatchesChat ==
    /\ \A i, j \in DOMAIN chat : i < j => chat[i] < chat[j]
    /\ outcome = "whole" => Len(delivered) = chunks
    /\ delivered # chat => why = "unknown" /\ chat = Append(delivered, chunk)
    /\ why = "thread" => thread = "ontoOnly"

(* "The formatting was refused, so the formatting is what goes": "an answer   *)
(* not arriving is the bug this fallback exists for" (client.rs).             *)
FormattingGoes == why # "formatting"
=============================================================================
