------------------------------- MODULE Retraction -------------------------------
(* An administrator replies to one of the assistant's messages with the       *)
(* deletion command: the recorded send goes from the chat, and the answer,    *)
(* with every quote of it, from what the session shows the model.             *)
(* (delivery.rs; quoting.rs land_reply_quote; assembly.rs report_delivery,    *)
(* resolve_retraction, retraction_answer; session.rs strip_from_view;         *)
(* the adapter's retract.)                                                    *)
(*                                                                            *)
(* One channel's lineage, oldest thread first, the serving one last.  Reports *)
(* are recorded beside the intake, one receipt at a time, under no hold; the  *)
(* strip reads outside the holds and swaps under them.  What no conversation  *)
(* holds any more is in the store until a collection removes it.  One         *)
(* compaction is under way at a time, a bound of the model.                   *)
EXTENDS Integers, FiniteSets, Sequences, SequencesExt

CONSTANTS
    Answers,         \* the assistant's answers, each sent in Chunks messages
    Chunks,
    Intakes,         \* bound: ingestions at once; the adapter has one at a time
    MaxThreads,      \* bound: threads
    MaxReplies,      \* bound: replies to those messages, numbered as they come
    MaxRefused       \* bound: deletions the platform refuses, writes that fail

ASSUME RetractionAssumption ==
    /\ {Chunks, MaxThreads} \subseteq Nat \ {0}
    /\ {Intakes, MaxReplies, MaxRefused} \subseteq Nat

VARIABLES
    lineage,         \* thread numbers, oldest first
    standing,        \* replaced threads that were not deleted
    held,            \* [1 .. MaxThreads -> rows: <<what, answer, chunk or reply>>]
    threads,         \* how many were made
    home,            \* [Answers -> the thread that filed it, 0 before]
    receipted,       \* [Answers -> receipts written, or -1 once a write failed]
    onChat,          \* <<answer, chunk>>: what the chat shows
    reply,           \* [Replying -> the command's progress]
    compaction,      \* the one under way: [at, source, cut], cut its first half
    inStore,         \* answers whose words are in the store
    strays,          \* answers that a conversation built in vain still holds
    excused,         \* history: answers whose last strip stood down or failed
    lingering,       \* history: answers stored when their last strip had ended
    unreceipted,     \* history: what had no receipt when its answer was last retracted
    refused          \* history: what the platform would not take back

descent  == <<lineage, standing, held, threads>>
outward  == <<home, receipted, onChat, refused>>
keeping  == <<inStore, strays>>
outcomes == <<excused, lingering, unreceipted>>
retractionVars == <<descent, outward, reply, compaction, keeping, outcomes>>

Replying == 1 .. MaxReplies

Serving == Last(lineage)
LineageRows == UNION {held[t] : t \in ToSet(lineage)}
Unanswered == [at |-> "idle", of |-> 0, thread |-> 0, origins |-> {},
               gone |-> {}, built |-> <<>>]
NoCompaction == [at |-> "none", source |-> 0, cut |-> {}]

RetractionInit ==
    /\ lineage = <<1>> /\ threads = 1 /\ standing = {}
    /\ held = [t \in 1 .. MaxThreads |-> {}]
    /\ home = [k \in Answers |-> 0]
    /\ receipted = [k \in Answers |-> 0]
    /\ onChat = {}
    /\ reply = [d \in Replying |-> Unanswered]
    /\ compaction = NoCompaction /\ inStore = {} /\ strays = {}
    /\ excused = {} /\ lingering = {} /\ unreceipted = {} /\ refused = {}

Holding(t, row) == held' = [held EXCEPT ![t] = @ \cup {row}]

-----------------------------------------------------------------------------
(* The store: a block stays as long as a conversation holds it or a quote     *)
(* that refers to it.                                                         *)

SpokenIn(rows) == {row[2] : row \in {x \in rows : x[1] \in {"answer", "quote"}}}

Referred ==
    strays \cup SpokenIn(UNION {held[t] : t \in ToSet(lineage) \cup standing}
                            \cup (IF compaction.at = "forked" THEN compaction.cut ELSE {})
                            \cup UNION {UNION ToSet(reply[d].built) : d \in Replying})

(* A retention tick, an erasure.                                              *)
Collects ==
    /\ ~(inStore \subseteq Referred)
    /\ inStore' = inStore \cap Referred
    /\ UNCHANGED <<descent, outward, reply, compaction, strays, outcomes>>

-----------------------------------------------------------------------------
(* The send and its report.                                                   *)

FilesAnswer(k) ==
    /\ home[k] = 0
    /\ home' = [home EXCEPT ![k] = Serving]
    /\ Holding(Serving, <<"answer", k, 0>>)
    /\ inStore' = inStore \cup {k}
    /\ onChat' = onChat \cup {<<k, i>> : i \in 1 .. Chunks}
    /\ UNCHANGED <<lineage, standing, threads, receipted, refused, reply, compaction,
                   strays, outcomes>>

(* One receipt after the other, into the conversation of the handle; the      *)
(* first write that fails is the last one tried.                              *)
RecordsReceipt(k) ==
    /\ home[k] # 0 /\ receipted[k] \in 0 .. Chunks - 1
    /\ IF home[k] \in ToSet(lineage) \cup standing
       THEN /\ receipted' = [receipted EXCEPT ![k] = @ + 1]
            /\ Holding(home[k], <<"receipt", k, receipted[k] + 1>>)
       ELSE receipted' = [receipted EXCEPT ![k] = -1] /\ UNCHANGED held
    /\ UNCHANGED <<lineage, standing, threads, home, onChat, refused, reply, compaction,
                   keeping, outcomes>>

-----------------------------------------------------------------------------
(* An ingestion, under its holds.                                             *)

Ready(d) ==
    /\ reply[d].at = "idle" /\ (d > 1 => reply[d - 1].at # "idle")
    /\ Cardinality({e \in Replying : reply[e].at \in {"strip", "swap", "directive"}}) < Intakes

(* A reply to an answer the session has the receipt of is stored behind a     *)
(* quote of it, where the answer's words are stored at all, whoever holds     *)
(* them.                                                                      *)
Quoted(d, k, i) ==
    IF <<"receipt", k, i>> \in held[Serving] /\ k \in inStore THEN {<<"quote", k, d>>} ELSE {}

RepliesOnly(d) ==
    /\ Ready(d)
    /\ \E shown \in onChat :
          held' = [held EXCEPT ![Serving] = @ \cup Quoted(d, shown[1], shown[2])]
    /\ reply' = [reply EXCEPT ![d].at = "over"]
    /\ UNCHANGED <<lineage, standing, threads, outward, compaction, keeping, outcomes>>

Facts(k) == {row \in LineageRows : row[1] = "fact" /\ row[2] = k}

RetractionStands(k) == Facts(k) # {}

(* The command, on a message that may have left the chat since it was sent.   *)
ResolveRetraction(d) ==
    /\ Ready(d)
    /\ \E k \in Answers, i \in 1 .. Chunks :
          /\ home[k] # 0
          /\ IF <<"receipt", k, i>> \in LineageRows
             THEN LET origins == {j \in 1 .. Chunks : <<"receipt", k, j>> \in LineageRows} IN
                  /\ held' = [held EXCEPT ![Serving] = @ \cup Quoted(d, k, i)
                                 \cup (IF RetractionStands(k) THEN {} ELSE {<<"fact", k, d>>})]
                  /\ reply' = [reply EXCEPT ![d] =
                        [at |-> "strip", of |-> k, thread |-> Serving,
                         origins |-> {<<k, j>> : j \in origins},
                         gone |-> {}, built |-> <<>>]]
                  /\ excused' = excused \ {k}
                  /\ unreceipted' = {o \in unreceipted : o[1] # k}
                                       \cup {<<k, j>> : j \in 1 .. Chunks \ origins}
             ELSE /\ reply' = [reply EXCEPT ![d].at = "over"]
                  /\ UNCHANGED <<held, excused, unreceipted>>
    /\ UNCHANGED <<lineage, standing, threads, outward, compaction, keeping, lingering>>

-----------------------------------------------------------------------------
(* The strip.                                                                 *)

(* The answer and every quote of it; the receipts stay.                       *)
Without(k, rows) == {row \in rows : row[2] # k \/ row[1] \notin {"answer", "quote"}}

\* Faulty variant: a digest's thread is never reached.
ServingOnly(k, t) == FALSE

ReachesADigest(k, t) ==
    \E i \in 1 .. Len(lineage) - 1 : Without(k, held[lineage[i]]) # held[lineage[i]]

(* How an answer stands at the end of its strip.                              *)
StripEnds(k, words) == lingering' = (lingering \ {k}) \cup (words \cap {k})

ToTheDirective(d) ==
    reply' = [reply EXCEPT ![d] = [@ EXCEPT !.at = "directive", !.thread = 0,
                                            !.gone = {}, !.built = <<>>]]

StandsDown(d) ==
    /\ reply[d].thread # Serving
    /\ excused' = excused \cup {reply[d].of}
    /\ UNCHANGED <<descent, keeping, lingering>>

(* Read outside the holds: which rows of the serving thread go, and, of the   *)
(* threads no channel serves, the clones that replace them.                   *)
StripReads(d) ==
    LET r == reply[d]
        scrubbed == ReachesADigest(r.of, r.thread)
        replaced == IF scrubbed THEN SubSeq(lineage, 1, Len(lineage) - 1) ELSE <<>>
        gone == held[Serving] \ Without(r.of, held[Serving])
    IN
    /\ r.at = "strip" /\ r.thread = Serving
    /\ IF scrubbed \/ gone # {}
       THEN /\ reply' = [reply EXCEPT ![d].at = "swap", ![d].gone = gone, ![d].built =
                             [i \in DOMAIN replaced |-> Without(r.of, held[replaced[i]])]]
            /\ UNCHANGED lingering
       ELSE ToTheDirective(d) /\ StripEnds(r.of, inStore)
    /\ UNCHANGED <<descent, outward, compaction, keeping, excused, unreceipted>>

(* Under the holds: the clones take the place of what they were made from,    *)
(* and that is deleted but for what is left.                                  *)
Swaps(r, left) ==
    LET n == Len(r.built) + 1
        kept == SubSeq(lineage, 1, Len(lineage) - n)
        clones == [i \in 1 .. n |-> threads + i]
        rows == Append(r.built, held[Serving] \ r.gone)
    IN
    /\ r.at = "swap" /\ r.thread = Serving
    /\ threads + n <= MaxThreads /\ threads' = threads + n
    /\ lineage' = kept \o clones
    /\ standing' = standing \cup left
    /\ held' = [t \in 1 .. MaxThreads |->
                   IF t \in ToSet(clones) THEN rows[t - threads]
                   ELSE IF t \in ToSet(kept) \cup standing' THEN held[t] ELSE {}]

StripSwaps(d) ==
    /\ Swaps(reply[d], {})
    /\ ToTheDirective(d)
    /\ UNCHANGED <<outward, compaction, strays, excused, unreceipted>>
    /\ inStore' = inStore \cap Referred' /\ StripEnds(reply[d].of, inStore')

(* The threads are deleted oldest first, and a failure between two of them,   *)
(* or of the collection, leaves the rest standing, swapped already.           *)
StripTears(d) ==
    LET n == Len(reply[d].built) + 1 IN
    /\ Cardinality(refused) < MaxRefused
    /\ \E deleted \in 0 .. n :
          Swaps(reply[d], {lineage[i] : i \in Len(lineage) - n + 1 + deleted .. Len(lineage)})
    /\ ToTheDirective(d)
    /\ excused' = excused \cup {reply[d].of}
    /\ UNCHANGED <<outward, compaction, keeping, lingering, unreceipted>>

(* The channel moved on, before the reading or before the holds.              *)
StripStandsDown(d) ==
    /\ reply[d].at \in {"strip", "swap"}
    /\ StandsDown(d) /\ ToTheDirective(d)
    /\ UNCHANGED <<outward, compaction, unreceipted>>

(* A stream that does not settle, a write that fails: the directive goes out, *)
(* and clones may be left that would not be deleted again.                    *)
StripFails(d) ==
    /\ reply[d].at \in {"strip", "swap"} /\ Cardinality(refused) < MaxRefused
    /\ \E left \in SUBSET SpokenIn(Without(reply[d].of, LineageRows)) : strays' = strays \cup left
    /\ ToTheDirective(d)
    /\ excused' = excused \cup {reply[d].of}
    /\ UNCHANGED <<descent, outward, compaction, inStore, lingering, unreceipted>>

(* The adapter: what the platform refuses stays.                              *)
Retract(d) ==
    /\ reply[d].at = "directive"
    /\ \E no \in SUBSET (reply[d].origins \cap onChat) :
          /\ Cardinality(refused \cup no) <= MaxRefused
          /\ onChat' = onChat \ (reply[d].origins \ no)
          /\ refused' = (refused \ reply[d].origins) \cup no
    /\ reply' = [reply EXCEPT ![d] = [Unanswered EXCEPT !.at = "over"]]
    /\ UNCHANGED <<descent, home, receipted, compaction, keeping, outcomes>>

-----------------------------------------------------------------------------
(* A compaction, the unattended one beside any command.                       *)

(* A fork of the first half, which a model turn reads; the cut falls before   *)
(* an answer, behind it, or behind all that was stored for it.                *)
CompactionForks ==
    /\ compaction = NoCompaction /\ threads < MaxThreads
    /\ \E below \in {{}, {"answer"}, {"answer", "receipt", "quote", "fact"}} :
          compaction' = [at |-> "forked", source |-> Serving,
                         cut |-> {row \in held[Serving] : row[1] \in below}]
    /\ UNCHANGED <<descent, outward, reply, keeping, outcomes>>

(* The fork is deleted, with a summary or without one, or stands on where     *)
(* that failed; what it held waits for the next collection.                   *)
CompactionCaptures ==
    /\ compaction.at = "forked"
    /\ \/ compaction' = [compaction EXCEPT !.at = "captured"] /\ UNCHANGED strays
       \/ /\ compaction' = NoCompaction
          /\ strays' \in {strays, strays \cup SpokenIn(compaction.cut)}
    /\ UNCHANGED <<descent, outward, reply, inStore, outcomes>>

(* The successor shares what is past the cut as it stands now.  It stands     *)
(* down from a channel that moved on, and a failure may leave the successor.  *)
CompactionInstalls ==
    LET second == held[compaction.source] \ compaction.cut IN
    /\ compaction.at = "captured" /\ compaction' = NoCompaction
    /\ \/ compaction.source # Serving /\ UNCHANGED <<descent, strays>>
       \/ /\ compaction.source = Serving
          /\ strays' \in {strays, strays \cup SpokenIn(second)} /\ UNCHANGED descent
       \/ /\ compaction.source = Serving /\ threads < MaxThreads
          /\ held' = [held EXCEPT ![threads + 1] = second]
          /\ lineage' = Append(lineage, threads + 1) /\ threads' = threads + 1
          /\ UNCHANGED <<standing, strays>>
    /\ UNCHANGED <<outward, reply, inStore, outcomes>>

RetractionNext ==
    \/ \E k \in Answers : FilesAnswer(k) \/ RecordsReceipt(k)
    \/ \E d \in Replying : RepliesOnly(d) \/ ResolveRetraction(d)
    \/ \E d \in Replying : StripReads(d) \/ StripSwaps(d) \/ StripTears(d)
                              \/ StripStandsDown(d) \/ StripFails(d) \/ Retract(d)
    \/ CompactionForks \/ CompactionCaptures \/ CompactionInstalls
    \/ Collects

RetractionSpec == RetractionInit /\ [][RetractionNext]_retractionVars

-----------------------------------------------------------------------------
\* What shows the model an answer's words.
Shows(k) == {row \in LineageRows : row[2] = k /\ row[1] \in {"answer", "quote"}}

(* An answer is asked back once, however often it is asked; and past its      *)
(* commands no thread of the lineage holds it, unless the last strip stood    *)
(* down or failed, nor a quote of it, so that a later reply to what the chat  *)
(* may still show brings none of its words back, unless they were in the      *)
(* store still when that strip had ended; and the chat shows none of its      *)
(* messages but those the platform refused to take back and those that had no *)
(* receipt when it was last asked.                                            *)
RetractionWhole ==
    \A k \in Answers : Facts(k) # {} =>
        /\ Cardinality(Facts(k)) = 1
        /\ (\A d \in Replying : reply[d].at \in {"idle", "over"}) =>
              /\ k \in excused \/ <<"answer", k, 0>> \notin LineageRows
              /\ k \in excused \cup lingering \/ Shows(k) = {}
              /\ \A i \in 1 .. Chunks :
                    <<k, i>> \in onChat => <<k, i>> \in refused \cup unreceipted

(* "an answer that was retracted is one the assistant no longer speaks from,  *)
(* whether or not the chat still shows it" (assembly.rs retraction_answer):   *)
(* past commands of which the last neither stood down nor failed, no thread   *)
(* of the lineage shows its words.                                            *)
SpokenFromNoMore ==
    \A k \in Answers :
        /\ Facts(k) # {} /\ k \notin excused
        /\ \A d \in Replying : reply[d].at \in {"idle", "over"}
        => Shows(k) = {}

(* "Every message the assistant sends now records its delivery" (docs/units/  *)
(* telegram/04-deleting-messages.md), so that a repeat can take it back: a    *)
(* retracted answer's message that stays on the chat has its receipt, or will *)
(* have it.                                                                   *)
NothingStranded ==
    \A k \in Answers, i \in 1 .. Chunks :
        Facts(k) # {} /\ <<k, i>> \in onChat =>
            <<"receipt", k, i>> \in LineageRows \/ receipted[k] \in 0 .. Chunks - 1
===============================================================================
