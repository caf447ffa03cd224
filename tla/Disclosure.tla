------------------------------ MODULE Disclosure ------------------------------
(* The first-interaction disclosure (disclosure.rs, and the edge's pass over  *)
(* the messages the model files): the first message to each person opens with *)
(* the line that names the assistant an AI system.  Who was introduced is     *)
(* read from the ledgers, where the edge writes the line into the stored      *)
(* message before it hands the message over.                                  *)
EXTENDS Naturals, Sequences, FiniteSets, FiniteSetsExt, SequencesExt

CONSTANTS
    Rooms,           \* the adapter's chats
    Newcomers,       \* the persons who speak in them
    MaxBlocks,       \* bound: blocks, of every ledger together
    MaxRound,        \* bound: the calls of one round of the model
    MaxTurnovers     \* bound: deaths of the process, and sessions that move on

ASSUME DisclosureAssumption ==
    /\ MaxRound \in Nat \ {0}
    /\ {MaxBlocks, MaxTurnovers} \subseteq Nat

VARIABLES
    blocks,          \* the blocks of every thread: [thread, call (0 for a call),
                     \* to (whom the call answers), lined]
    serving,         \* the thread each room is mapped to
    deleted,         \* the threads no ledger holds any more
    reached,         \* the cursor of each thread
    lining,          \* the block the edge has just lined; 0 for none
    handed,          \* history: what was handed over: [block, opening]
    atStart,         \* the newest block the process found when it started
    lost,            \* history: lined blocks whose hand-over a death prevented
    turnovers

disclosureVars ==
    <<blocks, serving, deleted, reached, lining, handed, atStart, lost, turnovers>>

Threads == 1 .. Cardinality(Rooms) + MaxTurnovers
BlockIds == DOMAIN blocks
IsCall(i) == blocks[i].call = 0

DisclosureInit ==
    /\ blocks = <<>> /\ handed = <<>> /\ deleted = {} /\ lost = {}
    /\ turnovers = 0 /\ atStart = 0
    /\ serving = CHOOSE f \in [Rooms -> 1 .. Cardinality(Rooms)] : IsInjective(f)
    /\ reached = [t \in Threads |-> 0] /\ lining = 0

-----------------------------------------------------------------------------
(* The model and the sending tools.                                           *)

(* A turn's round of calls: all of them answer whoever summoned the turn; a   *)
(* turn whose provenance cannot be read answers nobody one can name.          *)
Round ==
    \E r \in Rooms, to \in SUBSET Newcomers, n \in 1 .. MaxRound :
        /\ Len(blocks) + n <= MaxBlocks
        /\ blocks' = blocks \o [i \in 1 .. n |->
               [thread |-> serving[r], call |-> 0, to |-> to, lined |-> FALSE]]
        /\ UNCHANGED <<serving, deleted, reached, lining, handed, atStart, lost,
                       turnovers>>

(* A call files its message behind the whole round, once every earlier send   *)
(* of its thread has gone out (or was given up with the process).             *)
FilesMessage ==
    \E c \in BlockIds :
        /\ IsCall(c) /\ c > atStart /\ Len(blocks) < MaxBlocks
        /\ blocks[c].thread \notin deleted
        /\ ~\E i \in BlockIds : blocks[i].call = c
        /\ \A b \in atStart + 1 .. c - 1 :
               IsCall(b) /\ blocks[b].thread = blocks[c].thread =>
                   \E i \in BlockIds : blocks[i].call = b /\ i <= reached[blocks[b].thread]
        /\ blocks' = Append(blocks, [blocks[c] EXCEPT !.call = c])
        /\ UNCHANGED <<serving, deleted, reached, lining, handed, atStart, lost,
                       turnovers>>

-----------------------------------------------------------------------------
(* The edge.                                                                  *)

Stored(thread) == {i \in BlockIds : blocks[i].thread = thread /\ thread \notin deleted}

(* The messages of a mapped thread go out one by one; OutboundEdge has the    *)
(* passes they go out in.                                                     *)
Undelivered(thread) == {i \in Stored(thread) : i > reached[thread] /\ ~IsCall(i)}

NextOut(r) == Min(Undelivered(serving[r]))
Waits(r) == lining = 0 /\ Undelivered(serving[r]) # {}

\* Faulty variant: the receipt is read in the message's own thread only.
IntroducedHere(p, thread, before) ==
    \E i \in Stored(thread) : i < before /\ blocks[i].lined /\ p \in blocks[i].to

(* A lined message older than the call, which p was one of the summoners of:  *)
(* in the message's own thread, or in one p has spoken in.                    *)
IntroducedBefore(p, thread, before) ==
    LET spokeIn == {blocks[i].thread : i \in {j \in BlockIds : p \in blocks[j].to}}
    IN  \E t \in spokeIn \cup {thread} : \E i \in Stored(t) :
            i < before /\ blocks[i].lined /\ p \in blocks[i].to

(* The line opens a message one of whose summoners is new, and one whose      *)
(* summoners cannot be read.                                                  *)
FirstMessageToSomeone(i) ==
    \/ blocks[i].to = {}
    \/ \E p \in blocks[i].to : ~IntroducedBefore(p, blocks[i].thread, blocks[i].call)

HandOff(i, opening) ==
    /\ handed' = Append(handed, [block |-> i, opening |-> opening])
    /\ reached' = [reached EXCEPT ![blocks[i].thread] = i]
    /\ lining' = 0
    /\ UNCHANGED <<blocks, serving, deleted, atStart, lost, turnovers>>

(* Its line is in the store before a message is handed over ...               *)
StoreLine ==
    \E r \in Rooms :
        /\ Waits(r) /\ ~blocks[NextOut(r)].lined /\ FirstMessageToSomeone(NextOut(r))
        /\ blocks' = [blocks EXCEPT ![NextOut(r)].lined = TRUE]
        /\ lining' = NextOut(r)
        /\ UNCHANGED <<serving, deleted, reached, handed, atStart, lost,
                       turnovers>>

HandsLined == lining # 0 /\ HandOff(lining, "lined")

HandsBare ==
    \E r \in Rooms :
        /\ Waits(r) /\ ~FirstMessageToSomeone(NextOut(r))
        /\ HandOff(NextOut(r), "bare")

(* The next process's cursors begin at the newest block of every thread.      *)
ProcessDies ==
    /\ turnovers < MaxTurnovers /\ turnovers' = turnovers + 1
    /\ lost' = lost \cup ({lining} \ {0})
    /\ reached' = [t \in Threads |-> Len(blocks)] /\ atStart' = Len(blocks)
    /\ lining' = 0
    /\ UNCHANGED <<blocks, serving, deleted, handed>>

(* A room's session moves on to a new thread; the one before it stays in the  *)
(* store, or is deleted with everything in it.                                *)
MovesOn ==
    \E r \in Rooms, gone \in BOOLEAN :
        LET new == Max({serving[q] : q \in Rooms} \cup deleted) + 1 IN
        /\ turnovers < MaxTurnovers /\ turnovers' = turnovers + 1
        /\ Stored(serving[r]) # {}
        /\ serving' = [serving EXCEPT ![r] = new]
        /\ deleted' = IF gone THEN deleted \cup {serving[r]} ELSE deleted
        /\ UNCHANGED <<blocks, reached, lining, handed, atStart, lost>>

DisclosureNext ==
    \/ Round \/ FilesMessage \/ MovesOn
    \/ StoreLine \/ HandsLined \/ HandsBare \/ ProcessDies

DisclosureSpec == DisclosureInit /\ [][DisclosureNext]_disclosureVars

-----------------------------------------------------------------------------
(* Whoever a bare message speaks to had the line handed to them earlier, in   *)
(* whatever chat, or in a message that was lost with the process between the  *)
(* writing of the line and the hand-over.                                     *)
BareOnlyToTheIntroduced ==
    \A n \in DOMAIN handed : handed[n].opening = "bare" =>
        \A p \in blocks[handed[n].block].to :
            \E i \in BlockIds :
                /\ p \in blocks[i].to
                /\ i \in lost \/ \E m \in 1 .. n - 1 :
                               handed[m] = [block |-> i, opening |-> "lined"]

(* The line is repeated to those who had it only where the message's call was *)
(* made before the earlier lined message was filed, or where that message is  *)
(* deleted.                                                                   *)
RepeatedWithinARound ==
    \A n \in DOMAIN handed :
        LET now == handed[n].block IN
        handed[n].opening = "lined" /\ blocks[now].to # {} =>
            \E p \in blocks[now].to : \A m \in 1 .. n - 1 :
                handed[m].opening = "lined" /\ p \in blocks[handed[m].block].to =>
                    \/ blocks[now].call < handed[m].block
                    \/ blocks[handed[m].block].thread \in deleted

(* Nobody is spoken to before the line, and the line is not said again.       *)
IntroducedOnce == BareOnlyToTheIntroduced /\ RepeatedWithinARound
===============================================================================
