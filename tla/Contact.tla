-------------------------------- MODULE Contact --------------------------------
(* What the core learns of one group, and when.  The adapter's driver takes   *)
(* the updates one at a time (telegram: driver.rs take, observed,             *)
(* first_contact), looking a group up once per process before it reports or   *)
(* delivers anything of it; the core judges each fact, and keeps a note of    *)
(* the title, the rules and every join in the group's session (assembly.rs    *)
(* observe, note.rs, join.rs, authorization.rs).  Updates are taken in the    *)
(* order of the poll loop, from the last offset it wrote.                     *)
EXTENDS Naturals, Sequences

CONSTANTS
    MaxUpdates,      \* bound: updates the group ever sends
    MaxFaults,       \* bound: failed lookups, store errors, refused leaves, restarts,
                     \* retirements
    Joiners          \* members one join event names, none of them opted out

ASSUME ContactAssumption ==
    /\ MaxUpdates \in Nat /\ MaxFaults \in Nat /\ Joiners \in Nat \ {0}

VARIABLES
    platform,        \* the group on the platform: [title, rules], what it shows now,
                     \* numbered as they change (rules 0: no pin), and [member], the bot is in it
    updates,         \* the updates it sent: [kind, value]
    taken,           \* how many of them are acknowledged
    saved,           \* the offset in the state file
    stages,          \* what is left to do of the next: "contact", "fact"
    found,           \* what a lookup found and is not yet reported: <<topic, value>>
    answered,        \* the driver's memories of the group: looked up,
    failed,          \* a lookup failed and rests,
    withdrawn,       \* a leave was sent and rests
    admitted,        \* the group's row of group_authorizations
    session,         \* whether it is mapped to a conversation
    noted,           \* the newest note of each topic in it; 0 for none
    joined,          \* how many notices each update left in it
    retired,         \* history: retention took its session since it was last looked up
    cut,             \* history: the join events that failed between two joiners
    faults

memories    == <<answered, failed, withdrawn>>
record      == <<session, noted, joined>>
progress    == <<taken, saved, stages, found>>
history     == <<retired, cut>>
contactVars == <<platform, updates, progress, memories, admitted, record,
                 history, faults>>

Topics  == {"title", "rules"}
NoNotes == [topic \in Topics |-> 0]
NoJoins == [i \in 1 .. MaxUpdates |-> 0]

ContactInit ==
    /\ platform = [title |-> 1, rules |-> 0, member |-> FALSE]
    /\ updates = <<>> /\ taken = 0 /\ saved = 0
    /\ stages = <<>> /\ found = <<>>
    /\ answered = FALSE /\ failed = FALSE /\ withdrawn = FALSE
    /\ admitted = FALSE
    /\ session = FALSE /\ noted = NoNotes /\ joined = NoJoins
    /\ retired = FALSE /\ cut = {}
    /\ faults = 0

Fault == faults < MaxFaults /\ faults' = faults + 1

-----------------------------------------------------------------------------
(* The platform.                                                              *)

Sends(kind, value) ==
    /\ Len(updates) < MaxUpdates
    /\ updates' = Append(updates, [kind |-> kind, value |-> value])
    /\ UNCHANGED <<progress, memories, admitted, record, history, faults>>

(* Somebody adds the bot: the operator (1) or anyone else (0).                *)
AddsBot ==
    /\ ~platform.member
    /\ \E by \in {0, 1} : Sends("added", by)
    /\ platform' = [platform EXCEPT !.member = TRUE]

Changes(topic) ==
    /\ platform.member
    /\ Sends(topic, platform[topic] + 1)
    /\ platform' = [platform EXCEPT ![topic] = @ + 1]

(* A message, a wipe by someone who may wipe, or a join.                      *)
Speaks ==
    /\ platform.member
    /\ \E kind \in {"message", "wipe", "join"} : Sends(kind, 0)
    /\ UNCHANGED platform

-----------------------------------------------------------------------------
(* The driver.                                                                *)

Current == updates[taken + 1]

\* Faulty variant: an update is taken before its group is looked up.
FactFirst(kind) == <<"fact", "contact">>

(* An addition is judged first, and the group looked up once it is admitted.  *)
StagesOf(kind) == IF kind = "added" THEN <<"fact", "contact">> ELSE <<"contact", "fact">>

TakeNext ==
    /\ stages = <<>> /\ taken < Len(updates)
    /\ stages' = StagesOf(Current.kind)
    /\ UNCHANGED <<platform, updates, taken, saved, found, memories, admitted,
                   record, history, faults>>

(* What follows a stage: the next one, or the update is acknowledged.         *)
NextStage ==
    /\ stages' = Tail(stages)
    /\ taken' = IF Len(stages) = 1 THEN taken + 1 ELSE taken
    /\ UNCHANGED saved

Acknowledged ==
    /\ stages' = <<>> /\ found' = <<>>
    /\ taken' = taken + 1
    /\ UNCHANGED saved

(* The store failed: the update is not acknowledged, and comes again.         *)
Halted ==
    /\ Fault
    /\ stages' = <<>> /\ found' = <<>>
    /\ UNCHANGED <<taken, saved>>

(* The leave is sent once per rest; it may be refused.                        *)
LeaveGroup ==
    IF withdrawn
    THEN UNCHANGED <<platform, withdrawn, faults>>
    ELSE /\ withdrawn' = TRUE
         /\ \/ platform' = [platform EXCEPT !.member = FALSE] /\ UNCHANGED faults
            \/ Fault /\ UNCHANGED platform

AtContact == stages # <<>> /\ Head(stages) = "contact"
Skips     == answered \/ failed

ContactSkipped ==
    /\ AtContact /\ Skips /\ found = <<>>
    /\ NextStage
    /\ UNCHANGED <<platform, updates, found, memories, admitted, record, history,
                   faults>>

(* A pin is looked up for the title only: its own event brings the rules.     *)
LookupFinds(kind) ==
    <<<<"title", platform.title>>>>
        \o (IF kind # "rules" /\ platform.rules > 0
            THEN <<<<"rules", platform.rules>>>> ELSE <<>>)

Lookup ==
    /\ AtContact /\ ~Skips /\ found = <<>>
    /\ found' = LookupFinds(Current.kind)
    /\ retired' = FALSE
    /\ UNCHANGED <<platform, updates, taken, saved, stages, memories, admitted,
                   record, cut, faults>>

\* Faulty variant: a lookup that failed is not tried again.
RecordAnswered == answered' = TRUE /\ UNCHANGED failed

RecordFailure == failed' = TRUE /\ UNCHANGED answered

LookupFails ==
    /\ AtContact /\ ~Skips /\ found = <<>>
    /\ Fault /\ RecordFailure /\ NextStage
    /\ UNCHANGED <<platform, updates, found, withdrawn, admitted, record, history>>

-----------------------------------------------------------------------------
(* The core.                                                                  *)

(* The session the group is mapped to, a fresh one where there is none.       *)
Mapped == session' = TRUE

(* A note is appended when it differs from the newest of its topic.           *)
Note(topic, value) ==
    /\ Mapped /\ UNCHANGED joined
    /\ noted' = [noted EXCEPT ![topic] = value]

Report ==
    /\ AtContact /\ found # <<>>
    /\ \/ /\ admitted /\ Note(Head(found)[1], Head(found)[2])
          /\ found' = Tail(found)
          /\ IF Len(found) = 1
             THEN NextStage /\ answered' = TRUE /\ failed' = FALSE
             ELSE UNCHANGED <<taken, saved, stages, answered, failed>>
          /\ UNCHANGED <<platform, withdrawn, faults>>
       \/ /\ ~admitted /\ LeaveGroup /\ Acknowledged
          /\ answered' = TRUE /\ failed' = FALSE
          /\ UNCHANGED record
       \/ Halted /\ UNCHANGED <<platform, memories, record>>
    /\ UNCHANGED <<updates, admitted, history>>

AtFact(kinds) == stages # <<>> /\ Head(stages) = "fact" /\ Current.kind \in kinds

Void == answered' = FALSE /\ failed' = FALSE

(* Only the operator's own addition admits a group.                           *)
Added ==
    /\ AtFact({"added"})
    /\ \/ /\ Current.value = 1
          /\ admitted' = TRUE
          /\ Void /\ withdrawn' = FALSE
          /\ NextStage
          /\ UNCHANGED <<platform, found, faults>>
       \/ /\ Current.value = 0
          /\ LeaveGroup /\ Acknowledged
          /\ UNCHANGED <<answered, failed, admitted>>
       \/ Halted /\ UNCHANGED <<platform, memories, admitted>>
    /\ UNCHANGED <<updates, record, history>>

(* Everything else of a group that was not admitted makes the bot leave.      *)
Refused ==
    /\ AtFact({"title", "rules", "join", "message", "wipe"}) /\ ~admitted
    /\ LeaveGroup /\ Acknowledged
    /\ UNCHANGED <<updates, answered, failed, admitted, record, history>>

FactFails ==
    /\ AtFact({"title", "rules", "join", "message", "wipe"})
    /\ Halted
    /\ UNCHANGED <<platform, updates, memories, admitted, record, history>>

Observe ==
    /\ AtFact(Topics) /\ admitted
    /\ Note(Current.kind, Current.value)
    /\ Acknowledged
    /\ UNCHANGED <<platform, updates, memories, admitted, history, faults>>

EventRecorded(i) == joined[i] > 0

(* One notice per joiner under the event's origin, unless the origin is known.*)
RecordJoins(i, count) ==
    joined' = IF EventRecorded(i) THEN joined ELSE [joined EXCEPT ![i] = count]

RecordJoinEvent ==
    /\ AtFact({"join"}) /\ admitted
    /\ Mapped /\ UNCHANGED noted
    /\ \/ RecordJoins(taken + 1, Joiners) /\ Acknowledged /\ UNCHANGED <<cut, faults>>
       \/ /\ ~EventRecorded(taken + 1)
          /\ \E count \in 1 .. Joiners - 1 : RecordJoins(taken + 1, count)
          /\ cut' = cut \cup {taken + 1}
          /\ Halted
    /\ UNCHANGED <<platform, updates, memories, admitted, retired>>

IngestMessage ==
    /\ AtFact({"message"}) /\ admitted
    /\ Mapped /\ UNCHANGED <<noted, joined>>
    /\ Acknowledged
    /\ UNCHANGED <<platform, updates, memories, admitted, history, faults>>

(* ChannelReset::Replaced: what was looked up was for a session that is gone. *)
Replaced == Void

Wipe ==
    /\ AtFact({"wipe"}) /\ admitted
    /\ session' = TRUE /\ noted' = NoNotes /\ joined' = NoJoins
    /\ Replaced
    /\ Acknowledged
    /\ UNCHANGED <<platform, updates, withdrawn, admitted, history, faults>>

-----------------------------------------------------------------------------
(* Around them.                                                               *)

SaveOffset ==
    /\ stages = <<>> /\ saved # taken
    /\ saved' = taken
    /\ UNCHANGED <<platform, updates, taken, stages, found, memories, admitted,
                   record, history, faults>>

Restart ==
    /\ Fault
    /\ taken' = saved /\ stages' = <<>> /\ found' = <<>>
    /\ answered' = FALSE /\ failed' = FALSE /\ withdrawn' = FALSE
    /\ UNCHANGED <<platform, updates, saved, admitted, record, history>>

(* Each update reads a rest at most once, so that it may as well end between. *)
RestEnds ==
    /\ stages = <<>>
    /\ \/ failed /\ failed' = FALSE /\ UNCHANGED withdrawn
       \/ withdrawn /\ withdrawn' = FALSE /\ UNCHANGED failed
    /\ UNCHANGED <<platform, updates, progress, answered, admitted, record,
                   history, faults>>

(* Retention retires a session nothing was written to, with its mapping; the  *)
(* driver is told of nothing.                                                 *)
ExpireSession ==
    /\ session /\ Fault
    /\ session' = FALSE /\ noted' = NoNotes /\ joined' = NoJoins
    /\ retired' = TRUE
    /\ UNCHANGED <<platform, updates, progress, memories, admitted, cut>>

ContactNext ==
    \/ AddsBot \/ (\E topic \in Topics : Changes(topic)) \/ Speaks
    \/ TakeNext \/ ContactSkipped \/ Lookup \/ LookupFails \/ Report
    \/ Added \/ Refused \/ FactFails \/ Observe \/ RecordJoinEvent \/ IngestMessage \/ Wipe
    \/ SaveOffset \/ Restart \/ RestEnds \/ ExpireSession

ContactSpec == ContactInit /\ [][ContactNext]_contactVars

-----------------------------------------------------------------------------
(* Properties.                                                                *)

(* What the updates acknowledged so far last said of a topic.                 *)
LastTold(topic) ==
    LET told == {i \in 1 .. taken : updates[i].kind = topic}
    IN  IF told = {} THEN (IF topic = "title" THEN 1 ELSE 0)
        ELSE updates[CHOOSE i \in told : \A j \in told : j <= i].value

HoldsTheRules == \A topic \in Topics : noted[topic] >= LastTold(topic)

MessageTaken == AtFact({"message"}) /\ taken' = taken + 1 /\ admitted /\ ~failed

(* A message enters a session that already holds the group's title and rules, *)
(* no older than what the updates before it told, unless the group's lookup   *)
(* failed and rests, or retention took the session looked up for: whatever    *)
(* was wiped, restarted, redelivered or readmitted since, the model does not  *)
(* answer without the group's rules.                                          *)
RulesAheadOfMessages == [][MessageTaken => HoldsTheRules \/ retired]_contactVars

(* The same of every session, the one that follows a retirement included.     *)
RulesAheadAlways == [][MessageTaken => HoldsTheRules]_contactVars

(* Once every update is taken and the lookup answered, the newest notes are   *)
(* what the platform shows: a lookup that saw more than the updates queued    *)
(* behind it, or an update delivered twice, leaves no stale note standing in  *)
(* the session it was made for.  And an acknowledged join event left one      *)
(* notice for each joiner in the session, or none (another session had it, or *)
(* the group was not admitted), never one of them twice; some of them only    *)
(* where it failed between two, which its redelivery takes for recorded.      *)
NotesAgree ==
    /\ (/\ taken = Len(updates) /\ stages = <<>>
        /\ admitted /\ answered /\ session /\ ~retired)
           => \A topic \in Topics : noted[topic] = platform[topic]
    /\ \A i \in 1 .. taken : \/ joined[i] \in {0, Joiners}
                             \/ i \in cut /\ joined[i] < Joiners
=============================================================================
