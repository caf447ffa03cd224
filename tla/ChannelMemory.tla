----------------------------- MODULE ChannelMemory -----------------------------
(***************************************************************************)
(* What the sessions of a channel promise: the messages the assistant can  *)
(* still read of it.  A message is added when it is recorded; a channel    *)
(* starts over when that is asked; a retraction under way takes its one    *)
(* message away, and an erasure everything one person wrote, in every      *)
(* channel at once.  Compactions, strips, scrubs and restarts change none  *)
(* of it.                                                                  *)
(***************************************************************************)
EXTENDS Integers, Sequences

CONSTANTS
    Channels, People,
    Direct,     \* the two-party channels
    Ops         \* what may be asked for in this instance

VARIABLES
    memory,     \* channel -> the messages that can be read of it
    recorded,   \* messages recorded so far
    author,     \* message -> who wrote it
    retracting  \* the messages whose retraction is under way

memoryVars == <<memory, recorded, author, retracting>>

MemoryInit ==
    /\ memory = [ch \in Channels |-> {}]
    /\ recorded = 0
    /\ author = <<>>
    /\ retracting = {}

Record(ch, p) ==
    /\ recorded' = recorded + 1
    /\ author' = Append(author, p)
    /\ memory' = [memory EXCEPT ![ch] = @ \cup {recorded + 1}]
    /\ UNCHANGED retracting

\* A wipe, or the end of a quiet channel's conversation.
StartOver(ch) ==
    /\ {"wipe", "expire"} \cap Ops # {}
    /\ memory' = [memory EXCEPT ![ch] = {}]
    /\ UNCHANGED <<recorded, author, retracting>>

\* Retractions are begun, done, or given up.
Reconsider ==
    /\ retracting' \in SUBSET (1..recorded)
    /\ UNCHANGED <<memory, recorded, author>>

Retract(ch, m) ==
    /\ m \in retracting
    /\ memory' = [memory EXCEPT ![ch] = @ \ {m}]
    /\ retracting' \in SUBSET retracting
    /\ UNCHANGED <<recorded, author>>

\* An erased person's direct chats start over.
Forget(p, started) ==
    /\ "erase" \in Ops
    /\ memory' = [ch \in Channels |->
                    IF ch \in started THEN {}
                    ELSE {m \in memory[ch] : author[m] # p}]
    /\ UNCHANGED <<recorded, author, retracting>>

MemoryNext ==
    \/ \E ch \in Channels : \/ \E p \in People : Record(ch, p)
                            \/ StartOver(ch)
                            \/ \E m \in retracting : Retract(ch, m)
    \/ Reconsider
    \/ \E p \in People, started \in SUBSET Direct : Forget(p, started)

MemorySpec == MemoryInit /\ [][MemoryNext]_memoryVars
=============================================================================
