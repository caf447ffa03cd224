-------------------------------- MODULE Intake --------------------------------
(* The two intakes of the Telegram adapter, feeding one step per update: the  *)
(* poll loop, which acknowledges by the offset it asks for next and keeps in  *)
(* a file, and the webhook, which acknowledges by its response code.          *)
(* (telegram: driver.rs poll_loop, webhook.rs, state.rs; the platform's       *)
(* queue of updates is external.)  The step either acknowledges an update,    *)
(* which is then ingested, or halts on it, or ends the run.                   *)
EXTENDS Naturals, Sequences, SequencesExt

CONSTANTS
    MaxUpdate,       \* bound: updates that ever arrive, numbered 1, 2, ...
    Depth,           \* QUEUE_DEPTH: deliveries the webhook queues
    Memory,          \* ACKNOWLEDGED_MEMORY: ids the consumer remembers
    MaxRuns,         \* bound: starts of the process
    MaxMishaps       \* bound: halted or ended steps, lost answers, failed writes, deadlines

Updates == 1 .. MaxUpdate

ASSUME IntakeAssumption ==
    {MaxUpdate, Depth, Memory, MaxRuns, MaxMishaps} \subseteq Nat \ {0}

VARIABLES
    arrived,         \* how many updates the platform has received
    pending,         \* those it still holds for the bot
    feeder,          \* what this run feeds from: "poll", "hook", or "down"
    run,             \* how often the process started
    file,            \* the next offset in the state file; 0 for none
    phase,           \* where the poll loop is: "ask" or "take"
    next,            \* its next offset; 0 for none
    before,          \* what that was when the batch came in
    batch,           \* what is left of the batch
    ending,          \* the core stated that it cannot serve
    queue,           \* deliveries before the one consumer: [update, heard], heard while
                     \* the platform still waits for the answer
    known,           \* the consumer's memory of what it acknowledged, oldest first
    log,             \* what was ingested, in order, and in which run
    mishaps

fromPlatform == <<arrived, pending>>
poll     == <<phase, next, before, batch, ending>>
hook     == <<queue, known>>
intakeVars == <<fromPlatform, feeder, run, file, poll, hook, log, mishaps>>

Fresh(offset) ==
    /\ phase' = "ask" /\ next' = offset /\ before' = offset
    /\ batch' = <<>> /\ ending' = FALSE
    /\ queue' = <<>> /\ known' = <<>>

IntakeInit ==
    /\ arrived = 0 /\ pending = {}
    /\ feeder = "down" /\ run = 0 /\ file = 0
    /\ phase = "ask" /\ next = 0 /\ before = 0 /\ batch = <<>> /\ ending = FALSE
    /\ queue = <<>> /\ known = <<>>
    /\ log = <<>> /\ mishaps = 0

Arrive ==
    /\ arrived < MaxUpdate
    /\ arrived' = arrived + 1
    /\ pending' = pending \cup {arrived + 1}
    /\ UNCHANGED <<feeder, run, file, poll, hook, log, mishaps>>

(* A run polls or listens, as it is configured; only a poll reads the file.   *)
Start ==
    /\ feeder = "down"
    /\ run' = run + 1
    /\ \/ feeder' = "poll" /\ Fresh(file)
       \/ feeder' = "hook" /\ Fresh(0)
    /\ UNCHANGED <<fromPlatform, file, log, mishaps>>

Crash ==
    /\ feeder # "down" /\ run < MaxRuns
    /\ feeder' = "down" /\ Fresh(0)
    /\ UNCHANGED <<fromPlatform, run, file, log, mishaps>>

Mishap == mishaps < MaxMishaps /\ mishaps' = mishaps + 1

Ingest(u) == log' = Append(log, [update |-> u, run |-> run, by |-> feeder])

-----------------------------------------------------------------------------
(* The poll loop.                                                             *)

(* The platform answers in the order of their numbers.                        *)
InOrder(some) ==
    {order \in [1 .. Cardinality(some) -> some] :
        ToSet(order) = some /\ \A i, j \in DOMAIN order : i < j => order[i] < order[j]}

(* Asking from an offset tells the platform that everything below it is done; *)
(* the answer may be lost.                                                    *)
GetUpdates ==
    /\ feeder = "poll" /\ phase = "ask"
    /\ pending' = {u \in pending : u >= next}
    /\ \/ /\ pending' # {}
          /\ batch' \in InOrder(pending')
          /\ phase' = "take" /\ before' = next
          /\ UNCHANGED mishaps
       \/ Mishap /\ UNCHANGED <<batch, phase, before>>
    /\ UNCHANGED <<arrived, feeder, run, file, next, ending, hook, log>>

Past(u) == u + 1

\* Faulty variant: the rest of the batch is taken past a halted update.
BreakNever == batch' = Tail(batch)

(* The batch ends at an update that is not acknowledged.                      *)
Break == batch' = <<>>

Take ==
    /\ feeder = "poll" /\ batch # <<>>
    /\ \/ /\ Ingest(Head(batch))
          /\ next' = Past(Head(batch))
          /\ batch' = Tail(batch)
          /\ UNCHANGED <<ending, mishaps>>
       \/ /\ Mishap /\ Break
          /\ ending' \in {FALSE, run < MaxRuns}
          /\ UNCHANGED <<log, next>>
    /\ UNCHANGED <<fromPlatform, feeder, run, file, phase, before, hook>>

\* Faulty variant: a batch without progress is waited on for ever.
ResumedOnProgress == IF next = before THEN phase ELSE "ask"

(* After the backoff the loop polls again.                                    *)
Resumed == "ask"

(* The offset earned is written once the batch is done, and a write that      *)
(* fails is only logged.                                                      *)
Persist ==
    /\ feeder = "poll" /\ phase = "take" /\ batch = <<>>
    /\ IF next = before
       THEN UNCHANGED <<file, mishaps>>
       ELSE \/ file' = next /\ UNCHANGED mishaps
            \/ Mishap /\ UNCHANGED file
    /\ phase' = Resumed
    /\ feeder' = IF ending THEN "down" ELSE "poll"
    /\ UNCHANGED <<fromPlatform, run, next, before, batch, ending, hook, log>>

-----------------------------------------------------------------------------
(* The webhook.                                                               *)

Queued(u) == [update |-> u, heard |-> TRUE]

(* A full queue refuses the delivery, and the platform comes back.            *)
HandOver(u) ==
    /\ feeder = "hook"
    /\ u \in pending
    /\ \A i \in DOMAIN queue : queue[i] # Queued(u)
    /\ Len(queue) < Depth
    /\ queue' = Append(queue, Queued(u))
    /\ UNCHANGED <<fromPlatform, feeder, run, file, poll, known, log, mishaps>>

(* The platform is told to come back; the consumer still takes what is queued. *)
AnswerDeadline(i) ==
    /\ i \in DOMAIN queue /\ queue[i].heard
    /\ Mishap
    /\ queue' = [queue EXCEPT ![i].heard = FALSE]
    /\ UNCHANGED <<fromPlatform, feeder, run, file, poll, known, log>>

Remember(u) ==
    IF Len(known) < Memory THEN Append(known, u) ELSE Append(Tail(known), u)

Consume ==
    /\ feeder = "hook" /\ queue # <<>>
    /\ LET u == Head(queue).update
           answered == IF Head(queue).heard THEN pending \ {u} ELSE pending
       IN  \/ /\ u \in ToSet(known)
              /\ pending' = answered /\ queue' = Tail(queue)
              /\ UNCHANGED <<feeder, log, known, mishaps>>
           \/ /\ u \notin ToSet(known)
              /\ Ingest(u) /\ known' = Remember(u)
              /\ pending' = answered /\ queue' = Tail(queue)
              /\ UNCHANGED <<feeder, mishaps>>
           \/ /\ u \notin ToSet(known)
              /\ Mishap
              /\ \/ queue' = Tail(queue) /\ UNCHANGED <<feeder, known>>
                 \/ run < MaxRuns /\ feeder' = "down" /\ queue' = <<>> /\ known' = <<>>
              /\ UNCHANGED <<pending, log>>
    /\ UNCHANGED <<arrived, run, file, poll>>

-----------------------------------------------------------------------------
Polls   == GetUpdates \/ Take \/ Persist
Listens == Consume

IntakeNext ==
    \/ Arrive \/ Start \/ Crash
    \/ GetUpdates \/ Take \/ Persist
    \/ \E u \in Updates : HandOver(u)
    \/ \E i \in 1 .. Depth : AnswerDeadline(i)
    \/ Consume

IntakeSpec == IntakeInit /\ [][IntakeNext]_intakeVars

IntakeFairSpec ==
    /\ IntakeSpec
    /\ WF_intakeVars(Start) /\ WF_intakeVars(Polls) /\ WF_intakeVars(Listens)
    /\ \A u \in Updates : WF_intakeVars(HandOver(u))

-----------------------------------------------------------------------------
(* Properties.                                                                *)

Ingested(u) == \E i \in DOMAIN log : log[i].update = u

(* An update the platform no longer holds was ingested, and so was every one  *)
(* below the offset in the file: no acknowledgement, of either kind, runs     *)
(* ahead of the step, through crashes and changes of the intake.              *)
NothingLost ==
    /\ \A u \in 1 .. arrived : u \in pending \/ Ingested(u)
    /\ \A u \in Updates : u < file => Ingested(u)

(* A run that polls ingests in the platform's order and nothing twice; one    *)
(* that listens ingests an update a second time only after as many others     *)
(* went through as its memory holds, however late the answers are.            *)
SeldomTwice ==
    \A i, j \in DOMAIN log : i < j /\ log[i].by = log[j].by /\ log[i].run = log[j].run =>
        IF log[i].by = "poll" THEN log[i].update < log[j].update
        ELSE log[i].update = log[j].update => j - i > Memory

(* At least once, and seldom twice.                                           *)
TakenOnce == NothingLost /\ SeldomTwice

(* Whatever arrived is ingested in the end, through every halt, deadline and  *)
(* restart: time and again there is nothing that was not.                     *)
EveryUpdateTaken == []<>(\A u \in 1 .. arrived : Ingested(u))
===============================================================================
