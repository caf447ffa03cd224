-------------------------------- MODULE Sending --------------------------------
(***************************************************************************)
(* Speaking in one chat: what becomes of a sending tool's call             *)
(* (core/src/tools/sending.rs, outgoing.rs, assembly.rs report_delivery,   *)
(* the adapter's send, and the settlement at start-up).                    *)
(*                                                                         *)
(* The model records calls in the session serving the chat.  A call is     *)
(* admitted under the caps, its body files one message, the outbound edge  *)
(* hands it to the adapter, the adapter posts it, and the report settles   *)
(* the call in the session the handle names.  Meanwhile a reset may move   *)
(* the chat to another session, which carries copies of the calls; a       *)
(* restart forgets everything that is not in a ledger.                     *)
(*                                                                         *)
(* Only the ledger of the session the chat is on is kept: what still runs  *)
(* in one it has left files messages nobody hands over and settles calls   *)
(* no model reads.                                                         *)
(***************************************************************************)
EXTENDS Naturals, Sequences, FiniteSets, SequencesExt

CONSTANTS
    Tiers,        \* the caps: records [sends, span]
    MaxCalls,     \* bound: calls the model ever makes
    MaxSessions,  \* bound: sessions the chat ever has
    MaxNow,       \* bound: the clock
    Ops           \* what may happen in this instance

ASSUME SendingAssumption ==
    /\ MaxCalls \in Nat /\ MaxSessions \in Nat \ {0} /\ MaxNow \in Nat
    /\ \A t \in Tiers : t.sends \in Nat \ {0} /\ t.span \in Nat \ {0}
    /\ Ops \subseteq {"wipe", "compact", "restart", "cut", "fault"}

Calls == 1..MaxCalls
Sessions == 1..MaxSessions
Never == MaxNow + 1

\* How the ledger reads a call: it does not hold it, it is recorded, it is
\* admitted, or a result or an error answers it.
States == {"absent", "ready", "admitted", "delivered", "failed"}

VARIABLES
    now,      \* the clock
    issued,   \* calls recorded so far; a call's number is its order
    session,  \* the session the chat is on; its ledger and cursor are ...
    call,     \* ... call -> how the ledger reads it
    filed,    \* ... call -> when its message was filed, or Never
    passed,   \* ... the messages the edge's cursor is past
    queue,    \* handles on their way to the adapter
    result,   \* what the platform made of the first: "none yet", or its report
    chat,     \* the messages the chat shows some of, in order
    unwritten \* calls whose settlement failed to write (for the properties)

ledger == <<call, filed>>
edge == <<passed, queue, result>>
vars == <<now, issued, session, ledger, edge, chat, unwritten>>

TypeOK ==
    /\ now \in 0..MaxNow
    /\ issued \in 0..MaxCalls
    /\ session \in Sessions
    /\ call \in [Calls -> States]
    /\ filed \in [Calls -> 0..Never]
    /\ passed \subseteq Calls
    /\ queue \in Seq([conv : Sessions, call : Calls])
    /\ result \in {"none yet", "whole", "failed"}
    /\ chat \in Seq(Calls)
    /\ unwritten \subseteq Calls

Init ==
    /\ now = 0
    /\ issued = 0
    /\ session = 1
    /\ call = [c \in Calls |-> "absent"]
    /\ filed = [c \in Calls |-> Never]
    /\ passed = {}
    /\ queue = <<>>
    /\ result = "none yet"
    /\ chat = <<>>
    /\ unwritten = {}

Open(c) == call[c] \in {"ready", "admitted"}
Filed == {c \in Calls : filed[c] # Never}

-----------------------------------------------------------------------------
(* A call, up to the filed message *)

\* A filed message whose call did not fail counts, delivered or pending.
Counted == {c \in Filed : call[c] # "failed"}
Inside(tier) == {c \in Counted : now - filed[c] < tier.span}

\* Faulty variant: a spent tier is seen one send late.
SpentLate == \E tier \in Tiers : Cardinality(Inside(tier)) > tier.sends

\* spent_tier: some tier's allowance is gone.
Spent == \E tier \in Tiers : Cardinality(Inside(tier)) >= tier.sends

\* runs_in_order: every earlier call of the session is resolved.
ItsTurn(c) == \A d \in 1..(c - 1) : ~ Open(d)

\* The model records a sending call in the session it is serving.
Issue ==
    /\ issued < MaxCalls
    /\ issued' = issued + 1
    /\ call' = [call EXCEPT ![issued + 1] = "ready"]
    /\ UNCHANGED <<now, session, filed, edge, chat, unwritten>>

\* The runner's admission pass asks the caps once, over the ledger as it is,
\* and records the answer.
Admit(c) ==
    /\ call[c] = "ready"
    /\ ItsTurn(c)
    /\ call' = [call EXCEPT ![c] = IF Spent THEN "failed" ELSE "admitted"]
    /\ UNCHANGED <<now, issued, session, filed, edge, chat, unwritten>>

\* Faulty variant: a re-run files a second message, which the cursor is not past.
FilesAgain(c) ==
    /\ call[c] = "admitted"
    /\ filed' = [filed EXCEPT ![c] = now]
    /\ passed' = passed \ {c}
    /\ UNCHANGED <<now, issued, session, call, queue, result, chat, unwritten>>

\* The body files the message.  It may run again while the call is open, and
\* then finds the message it has filed and leaves it at that.
Files(c) ==
    /\ call[c] = "admitted"
    /\ c \notin Filed
    /\ filed' = [filed EXCEPT ![c] = now]
    /\ UNCHANGED <<now, issued, session, call, edge, chat, unwritten>>

\* Bad input, an unknown reply target, or a read or an append that failed.
FilesNothing(c) ==
    /\ call[c] = "admitted"
    /\ c \notin Filed
    /\ call' = [call EXCEPT ![c] = "failed"]
    /\ UNCHANGED <<now, issued, session, filed, edge, chat, unwritten>>

-----------------------------------------------------------------------------
(* Delivery and the report *)

\* The edge hands over what the session has filed past its cursor.
Hands(c) ==
    /\ c \in Filed \ passed
    /\ passed' = passed \cup {c}
    /\ queue' = Append(queue, [conv |-> session, call |-> c])
    /\ UNCHANGED <<now, issued, session, ledger, result, chat, unwritten>>

\* The adapter sends the first item.  A send that failed put nothing in the
\* chat, or its first chunks, or all of it with the last answer lost.
Posts ==
    /\ queue # <<>>
    /\ result = "none yet"
    /\ \/ result' = "whole" /\ chat' = Append(chat, Head(queue).call)
       \/ result' = "failed" /\ chat' = chat
       \/ /\ "cut" \in Ops
          /\ result' = "failed" /\ chat' = Append(chat, Head(queue).call)
    /\ UNCHANGED <<now, issued, session, ledger, passed, queue, unwritten>>

\* The first item's call as answered; one that is already answered is left as
\* it stands, and one in a session the chat has left is out of the picture.
Answered(answer) ==
    LET h == Head(queue)
    IN [call EXCEPT ![h.call] = IF h.conv = session /\ Open(h.call) THEN answer ELSE @]

ItemDone == queue' = Tail(queue) /\ result' = "none yet"

\* Faulty variant: only a whole send is reported.
ReportsWhole ==
    /\ result # "none yet"
    /\ call' = IF result = "whole" THEN Answered("delivered") ELSE call
    /\ ItemDone
    /\ UNCHANGED <<now, issued, session, filed, passed, chat, unwritten>>

\* report_delivery settles the call in the conversation the handle names; a
\* settlement that fails to write leaves it open.
Reports ==
    /\ result # "none yet"
    /\ \/ /\ call' = Answered(IF result = "whole" THEN "delivered" ELSE "failed")
          /\ UNCHANGED unwritten
       \/ /\ "fault" \in Ops
          /\ unwritten' = unwritten \cup {Head(queue).call}
          /\ UNCHANGED call
    /\ ItemDone
    /\ UNCHANGED <<now, issued, session, filed, passed, chat>>

-----------------------------------------------------------------------------
(* Resets and restarts *)

\* The chat moves on to a new session, which carries the calls kept as the
\* old one reads them; the edge starts past the messages it inherits.
MovesOn(kept, reading) ==
    /\ session < MaxSessions
    /\ session' = session + 1
    /\ call' = [c \in Calls |-> IF c \in kept THEN reading[c] ELSE "absent"]
    /\ filed' = [c \in Calls |-> IF c \in kept THEN filed[c] ELSE Never]
    /\ passed' = kept \cap Filed

\* /wipe opens a fresh session.
Wipe ==
    /\ "wipe" \in Ops
    /\ MovesOn({}, call)
    /\ UNCHANGED <<now, issued, queue, result, chat, unwritten>>

\* A compaction installs a thread that carries what is past its cut.
Compaction ==
    /\ "compact" \in Ops
    /\ \E cut \in 0..issued : MovesOn((cut + 1)..issued, call)
    /\ UNCHANGED <<now, issued, queue, result, chat, unwritten>>

\* fail_pending_sends: what is filed and open is failed.
PendingFailed ==
    [c \in Calls |-> IF c \in Filed /\ Open(c) THEN "failed" ELSE call[c]]

\* Faulty variant: the edge starts where it was.
SeededNowhere == passed

\* seed_cursors: the edge starts past everything that is stored.
Seeded == passed \cup Filed

\* The process ends and starts.  Before it serves, a stale session is settled
\* and forked, and what is still unconfirmed is failed.
Restart ==
    /\ "restart" \in Ops
    /\ \/ /\ call' = PendingFailed
          /\ passed' = Seeded
          /\ UNCHANGED <<session, filed>>
       \/ MovesOn(1..issued, PendingFailed)
    /\ queue' = <<>>
    /\ result' = "none yet"
    /\ UNCHANGED <<now, issued, chat, unwritten>>

Tick ==
    /\ now < MaxNow
    /\ now' = now + 1
    /\ UNCHANGED <<issued, session, ledger, edge, chat, unwritten>>

Next ==
    \/ Issue
    \/ \E c \in Calls : Admit(c) \/ Files(c) \/ FilesNothing(c) \/ Hands(c)
    \/ Posts \/ Reports
    \/ Wipe \/ Compaction \/ Restart \/ Tick

Spec == Init /\ [][Next]_vars

\* The edge and the adapter's consumer are loops that take what is there, and
\* the platform's answer is bounded by the client's time-out.
FairSpec ==
    /\ Spec
    /\ WF_vars(\E c \in Calls : Hands(c))
    /\ WF_vars(Posts)
    /\ WF_vars(Reports)
-----------------------------------------------------------------------------
(* Properties *)

\* A call's message reaches the chat once at most, through re-runs of its body,
\* resets that copy it and restarts (sending.rs: a re-run "never doubles a
\* message in the chat"), and "the messages reach the group in the order the
\* model issued them", across the sessions the chat has had.
PostedInOrder ==
    \A i, j \in DOMAIN chat : i < j => chat[i] < chat[j]

\* The count taken once, at admission, is exact (sending.rs): the session never
\* holds more counted sends in a tier's trailing span than the tier admits.
AllowanceKept ==
    \A tier \in Tiers : Cardinality(Inside(tier)) <= tier.sends

\* A send recorded as unsent is never delivered late (outgoing.rs): what the
\* session the chat is on reads as failed is not posted after that.
NoLatePost ==
    [][chat' # chat => call[Last(chat')] # "failed"]_vars

\* A message the session filed itself is settled there, unless the chat moves
\* on to another session or the settlement fails to write (assembly.rs).
SettledWhereFiled ==
    \A s \in Sessions, c \in Calls :
        (session = s /\ c \in Filed \ passed)
            ~> (session # s \/ ~ Open(c) \/ c \in unwritten)

\* No session the chat is on stays with an open send, which would park every
\* later one: "Retiring a conversation settles it first, and the settle fails
\* any pending send it holds" (docs/units/55).
SendsSettle ==
    \A c \in Calls : (c \in Filed /\ Open(c)) ~> ~ Open(c)
=============================================================================
