-------------------------------- MODULE Filing --------------------------------
(* The writers that file a block against another record's platform id, and    *)
(* the passes that take such a copy back: the react and report tools, the     *)
(* deletion mirror inside an ingestion, and the person-wide erasure.          *)
(* (filing.rs, tools/mark.rs, tools/report.rs, join.rs, erasure.rs, and the   *)
(* ingestion's holds of assembly.rs.)                                         *)
(*                                                                            *)
(* Three holds order them: the erasure fence, a read-write lock that is fair  *)
(* (a reader that asks behind a waiting writer waits), then the stamp lock,   *)
(* then the filing door.  Every read and every write of the store is a step   *)
(* of its own; whatever keeps two of them together is a hold.                 *)
EXTENDS Naturals, FiniteSets, Sequences

CONSTANTS
    Messages,        \* ids of messages the turn's calls assess
    Joins,           \* ids of join events they assess
    People,
    Author,          \* [Messages -> People]
    Joined,          \* [Joins -> SUBSET People]: who a join event announced
    RepliesTo,       \* [Messages -> Messages \cup Joins \cup {None}]
    Private,         \* the messages of their author's direct chat
    Calls,           \* tool calls of one round, run at once
    Ingestions,      \* messages on their way in
    Scenes,          \* [tool, names, deletes]: the rounds and the ingestions they meet
    Erased,          \* SUBSET People: whom an erasure runs for
    MaxCutShort,     \* bound: mirrors and erasures cut short
    None, Free

Ids == Messages \cup Joins
Actors == Calls \cup Ingestions \cup Erased

ASSUME FilingAssumption ==
    /\ Author \in [Messages -> People]
    /\ Joined \in [Joins -> (SUBSET People) \ {{}}]
    /\ RepliesTo \in [Messages -> Ids \cup {None}]
    /\ Scenes \subseteq [tool : [Calls -> {"react", "report"}],
                         names : [Calls -> Ids],
                         deletes : [Ingestions -> Ids \cup {None}]]
    /\ Private \subseteq Messages /\ Erased \subseteq People
    /\ Messages \cap Joins = {} /\ MaxCutShort \in Nat
    /\ None \notin Ids \cup People /\ Free \notin Actors
    /\ Calls \cap (Ingestions \cup Erased) = {} /\ Ingestions \cap Erased = {}

VARIABLES
    scene,           \* what each call and each ingestion is about
    stored,          \* the messages whose rows still carry their id
    present,         \* [Joins -> SUBSET People]: the joiners' rows that still do
    replyTo,         \* [Messages -> id or None]: the reply references
    filings,         \* marks and reports: [by, target, person], target None once nulled
    at,              \* [Actors -> where each of them is]
    line,            \* who waits for the fence, in the order they asked
    inside,          \* who holds it
    stamp, door,     \* who holds the stamp lock and the filing door, or Free
    verdict,         \* [Calls -> what the call's scan came to]
    cutShort         \* how many mirrors and erasures were cut short

rows  == <<stored, present, replyTo, filings>>
holds == <<line, inside, stamp, door>>
vars  == <<scene, rows, holds, at, verdict, cutShort>>

Tool    == scene.tool
Names   == scene.names
Deletes == scene.deletes

Init ==
    /\ scene \in Scenes
    /\ stored = Messages
    /\ present = Joined
    /\ replyTo = RepliesTo
    /\ filings = {}
    /\ at = [a \in Actors |-> "idle"]
    /\ line = <<>> /\ inside = {}
    /\ stamp = Free /\ door = Free
    /\ verdict = [c \in Calls |-> None]
    /\ cutShort = [mirror |-> 0, erasure |-> 0]

CutShort(pass) ==
    /\ cutShort.mirror + cutShort.erasure < MaxCutShort
    /\ cutShort' = [cutShort EXCEPT ![pass] = @ + 1]

-----------------------------------------------------------------------------
(* What the ledger holds against an id.                                       *)

Marks(o)   == {f \in filings : Tool[f.by] = "react" /\ f.target = o}
Reports(o) == {f \in filings : Tool[f.by] = "report" /\ f.target = o}

(* A message only one person wrote, or a join event: what the turn assesses,  *)
(* by the id it still carries.                                                *)
Assessed(o) ==
    \/ o \in stored
    \/ o \in Joins /\ present[o] # {}

(* Whom a filing names: the message's author, the one joiner of an event, or  *)
(* nobody where several share it.                                             *)
PersonOf(o) ==
    CASE o \in Messages -> Author[o]
      [] o \in Joins /\ Cardinality(present[o]) = 1 -> CHOOSE p \in present[o] : TRUE
      [] OTHER -> None

\* Faulty variant: only another reaction declines one.
MarkableBeside(o) == o \in stored /\ Marks(o) = {}

(* A reaction lands on a message the turn assesses, where no reaction and no  *)
(* report of it stands.                                                       *)
Markable(o) ==
    /\ o \in stored
    /\ Marks(o) = {} /\ Reports(o) = {}

(* A report lands on a message or a join event, in a group, where no report   *)
(* of it stands.                                                              *)
Reportable(o) ==
    /\ o \notin Private
    /\ Assessed(o)
    /\ Reports(o) = {}

-----------------------------------------------------------------------------
(* The holds.                                                                 *)

Ask(a) ==
    /\ at[a] = "idle"
    /\ at' = [at EXCEPT ![a] = "fence"]
    /\ line' = Append(line, a)
    /\ UNCHANGED <<scene, rows, inside, stamp, door, verdict, cutShort>>

Inside(a) ==
    CASE a \in Calls -> "door"
      [] a \in Ingestions -> "stamp"
      [] OTHER -> "settle"

(* The fence answers in the order it was asked: a writer alone, readers       *)
(* together.                                                                  *)
EnterFence(a) ==
    /\ at[a] = "fence"
    /\ Head(line) = a
    /\ IF a \in Erased THEN inside = {} ELSE inside \cap Erased = {}
    /\ line' = Tail(line)
    /\ inside' = inside \cup {a}
    /\ at' = [at EXCEPT ![a] = Inside(a)]
    /\ UNCHANGED <<scene, rows, stamp, door, verdict, cutShort>>

\* Faulty variant: the mirror runs under the stamp lock alone.
TakeStampOnly(d) ==
    /\ at[d] = "stamp"
    /\ stamp = Free
    /\ stamp' = d
    /\ at' = [at EXCEPT ![d] = IF Deletes[d] = None THEN "record" ELSE "messages"]
    /\ UNCHANGED <<scene, rows, line, inside, door, verdict, cutShort>>

TakeStamp(d) ==
    /\ at[d] = "stamp"
    /\ stamp = Free
    /\ stamp' = d
    /\ at' = [at EXCEPT ![d] = IF Deletes[d] = None THEN "record" ELSE "door"]
    /\ UNCHANGED <<scene, rows, line, inside, door, verdict, cutShort>>

\* Faulty variant: the door is a count, not a lock.
TakeDoorOpen(a) ==
    /\ at[a] = "door"
    /\ door' = a
    /\ at' = [at EXCEPT ![a] = IF a \in Calls THEN "scan" ELSE "messages"]
    /\ UNCHANGED <<scene, rows, line, inside, stamp, verdict, cutShort>>

TakeDoor(a) ==
    /\ at[a] = "door"
    /\ door = Free
    /\ door' = a
    /\ at' = [at EXCEPT ![a] = IF a \in Calls THEN "scan" ELSE "messages"]
    /\ UNCHANGED <<scene, rows, line, inside, stamp, verdict, cutShort>>

(* Every hold an actor has drops with the scope that took it.                 *)
Leave(a, where) ==
    /\ at' = [at EXCEPT ![a] = where]
    /\ inside' = inside \ {a}
    /\ stamp' = IF stamp = a THEN Free ELSE stamp
    /\ door' = IF door = a THEN Free ELSE door
    /\ UNCHANGED line

-----------------------------------------------------------------------------
(* One filing call: scan, then append.                                        *)

Scan(c) ==
    /\ at[c] = "scan"
    /\ LET o == Names[c]
           lands == IF Tool[c] = "react" THEN Markable(o) ELSE Reportable(o)
       IN  IF lands
           THEN /\ verdict' = [verdict EXCEPT ![c] = PersonOf(o)]
                /\ at' = [at EXCEPT ![c] = "append"]
                /\ UNCHANGED <<line, inside, stamp, door>>
           ELSE Leave(c, "done") /\ UNCHANGED verdict
    /\ UNCHANGED <<scene, rows, cutShort>>

File(c) ==
    /\ at[c] = "append"
    /\ \/ filings' = filings \cup {[by |-> c, target |-> Names[c], person |-> verdict[c]]}
       \/ UNCHANGED filings                      \* the append failed
    /\ Leave(c, "done")
    /\ UNCHANGED <<scene, stored, present, replyTo, verdict, cutShort>>

-----------------------------------------------------------------------------
(* The deletion mirror: five passes, each a transaction of its own, the last  *)
(* three only where the first two found a row.                                *)

Moves(a, here, there) == at[a] = here /\ at' = [at EXCEPT ![a] = there]

MirrorMessage(d) ==
    LET o == Deletes[d] IN
    /\ Moves(d, "messages", IF o \in stored THEN "events, rows found" ELSE "events")
    /\ stored' = stored \ {o}
    /\ replyTo' = IF o \in stored THEN [replyTo EXCEPT ![o] = None] ELSE replyTo
    /\ UNCHANGED <<scene, present, filings, holds, verdict, cutShort>>

(* Nothing found: the door is left with no reference touched.                 *)
MirrorEvent(d) ==
    LET o == Deletes[d]
        hit == o \in Joins /\ present[o] # {}
    IN
    /\ at[d] \in {"events", "events, rows found"}
    /\ present' = IF hit THEN [present EXCEPT ![o] = {}] ELSE present
    /\ IF hit \/ at[d] = "events, rows found"
       THEN at' = [at EXCEPT ![d] = "replies"] /\ UNCHANGED door
       ELSE at' = [at EXCEPT ![d] = "record"] /\ door' = Free
    /\ UNCHANGED <<scene, stored, replyTo, filings, line, inside, stamp, verdict,
                   cutShort>>

Unnamed(refs, o) == [m \in Messages |-> IF refs[m] = o THEN None ELSE refs[m]]

Nulled(gone) == {IF f \in gone THEN [f EXCEPT !.target = None] ELSE f : f \in filings}

MirrorReplies(d) ==
    /\ Moves(d, "replies", "reports")
    /\ replyTo' = Unnamed(replyTo, Deletes[d])
    /\ UNCHANGED <<scene, stored, present, filings, holds, verdict, cutShort>>

MirrorReports(d) ==
    /\ Moves(d, "reports", "marks")
    /\ filings' = Nulled(Reports(Deletes[d]))
    /\ UNCHANGED <<scene, stored, present, replyTo, holds, verdict, cutShort>>

MirrorMarks(d) ==
    /\ Moves(d, "marks", "record")
    /\ filings' = Nulled(Marks(Deletes[d]))
    /\ door' = Free
    /\ UNCHANGED <<scene, stored, present, replyTo, line, inside, stamp, verdict,
                   cutShort>>

(* The message's own row, and the end of the ingestion's holds.               *)
Record(d) ==
    /\ at[d] = "record"
    /\ Leave(d, "done")
    /\ UNCHANGED <<scene, rows, verdict, cutShort>>

(* A pass fails, or the process ends in it: the adapter hands the update over *)
(* again.                                                                     *)
MirrorFails(d) ==
    /\ at[d] \in {"messages", "events", "events, rows found", "replies", "reports", "marks"}
    /\ CutShort("mirror")
    /\ Leave(d, "idle")
    /\ UNCHANGED <<scene, rows, verdict>>

-----------------------------------------------------------------------------
(* The erasure, behind the fence's exclusive side.                            *)

Wrote(p, o) ==
    \/ o \in stored /\ Author[o] = p
    \/ o \in Joins /\ p \in present[o]

(* The direct chat's turn is settled first: there is none to settle (a call   *)
(* that waits for the fence holds no stream open), the framework ends it and  *)
(* its calls, or the bound passes and the erasure gives up.                   *)
CallsOf(p) == {c \in Calls : Names[c] \in Private /\ Author[Names[c]] = p}

\* Faulty variant: the settlement waits for the chat's calls.
SettleUnbounded(p) ==
    /\ at[p] = "settle"
    /\ \A c \in CallsOf(p) : at[c] # "fence"
    /\ at' = [at EXCEPT ![p] = "replies"]
    /\ UNCHANGED <<scene, rows, holds, verdict, cutShort>>

Settle(p) ==
    /\ at[p] = "settle"
    /\ \/ /\ at' = [at EXCEPT ![p] = "replies"]
          /\ UNCHANGED <<holds, cutShort>>
       \/ /\ \E c \in CallsOf(p) : at[c] = "fence"
          /\ at' = [a \in Actors |->
                      IF a = p THEN "replies"
                      ELSE IF a \in CallsOf(p) /\ at[a] = "fence" THEN "done" ELSE at[a]]
          /\ line' = SelectSeq(line, LAMBDA a : a \notin CallsOf(p))
          /\ UNCHANGED <<inside, stamp, door, cutShort>>
       \/ CutShort("erasure") /\ Leave(p, "idle")
    /\ UNCHANGED <<scene, rows, verdict>>

ErasesReplies(p) ==
    /\ Moves(p, "replies", "reports")
    /\ replyTo' = [m \in Messages |-> IF Wrote(p, replyTo[m]) THEN None ELSE replyTo[m]]
    /\ UNCHANGED <<scene, stored, present, filings, holds, verdict, cutShort>>

ErasesReports(p) ==
    /\ Moves(p, "reports", "content")
    /\ filings' = Nulled({f \in filings : Tool[f.by] = "report" /\ Wrote(p, f.target)})
    /\ UNCHANGED <<scene, stored, present, replyTo, holds, verdict, cutShort>>

ErasesContent(p) ==
    /\ Moves(p, "content", "joins")
    /\ stored' = {m \in stored : Author[m] # p}
    /\ replyTo' = [m \in Messages |-> IF Author[m] = p THEN None ELSE replyTo[m]]
    /\ UNCHANGED <<scene, present, filings, holds, verdict, cutShort>>

ErasesJoins(p) ==
    /\ Moves(p, "joins", "named")
    /\ present' = [j \in Joins |-> present[j] \ {p}]
    /\ UNCHANGED <<scene, stored, replyTo, filings, holds, verdict, cutShort>>

(* The filings that name the person, reports and then marks; the direct chats *)
(* and what only they held go with them.                                      *)
ErasesNamed(p) ==
    /\ at[p] = "named"
    /\ filings' = {f \in Nulled({g \in filings : g.person = p}) :
                     Names[f.by] \in Private => Author[Names[f.by]] # p}
    /\ Leave(p, "done")
    /\ UNCHANGED <<scene, stored, present, replyTo, verdict, cutShort>>

(* A pass fails, or the process ends in it: the person asks again.            *)
ErasureFails(p) ==
    /\ at[p] \in {"replies", "reports", "content", "joins", "named"}
    /\ CutShort("erasure")
    /\ Leave(p, "idle")
    /\ UNCHANGED <<scene, rows, verdict>>

-----------------------------------------------------------------------------
CallStep(c) == Ask(c) \/ EnterFence(c) \/ TakeDoor(c) \/ Scan(c) \/ File(c)

Mirror(d) ==
    \/ MirrorMessage(d) \/ MirrorEvent(d)
    \/ MirrorReplies(d) \/ MirrorReports(d) \/ MirrorMarks(d)

IngestStep(d) == Ask(d) \/ EnterFence(d) \/ TakeStamp(d) \/ TakeDoor(d) \/ Mirror(d) \/ Record(d)

ErasureStep(p) ==
    \/ Ask(p) \/ EnterFence(p) \/ Settle(p)
    \/ ErasesReplies(p) \/ ErasesReports(p) \/ ErasesContent(p)
    \/ ErasesJoins(p) \/ ErasesNamed(p)

Next ==
    \/ \E c \in Calls : CallStep(c)
    \/ \E d \in Ingestions : IngestStep(d) \/ MirrorFails(d)
    \/ \E p \in Erased : ErasureStep(p) \/ ErasureFails(p)

Spec == Init /\ [][Next]_vars

FairSpec ==
    /\ Spec
    /\ \A c \in Calls : WF_vars(CallStep(c))
    /\ \A d \in Ingestions : WF_vars(IngestStep(d))
    /\ \A p \in Erased : WF_vars(ErasureStep(p))
-----------------------------------------------------------------------------
(* Properties.                                                                *)

(* Whatever calls and passes interleave, an id stands in at most one mark and *)
(* at most one report.  The scan and the append are two steps: the door and   *)
(* nothing else keeps a second call out of the gap.                           *)
OneFilingEach ==
    \A o \in Ids : Cardinality(Marks(o)) <= 1 /\ Cardinality(Reports(o)) <= 1

(* No reaction lands on a message a report of which stands by then (a report  *)
(* may still follow a reaction).                                              *)
NoMarkBesideReport ==
    [][\A f \in filings' \ filings :
          (Tool[f.by] = "react" /\ f.target # None) => Reports(f.target) = {}]_vars

Named(o) ==
    \/ \E f \in filings : f.target = o
    \/ \E m \in Messages : replyTo[m] = o

(* A message that was taken back is named by no filing and no reply any more: *)
(* a filing's scan and append do not straddle the nulls.  Taken back once a   *)
(* deletion command for it was served, or once its author's erasure           *)
(* concluded, which also leaves no filing with the person, and may have had   *)
(* to run again over what its first half left.  Two exceptions: while an      *)
(* erasure that was cut short waits for its repeat, what names a message it   *)
(* took is left to that; and a mirror cut short past its first pass has no    *)
(* such repeat: run again, it finds no row and leaves the references alone.   *)
LeftByMirror(m) == cutShort.mirror > 0 /\ \E d \in Ingestions : Deletes[d] = m

NamesGone ==
    /\ \A d \in Ingestions :
          (/\ at[d] = "done" /\ Deletes[d] # None
           /\ cutShort.mirror = 0
           /\ cutShort.erasure = 0 \/ \A p \in Erased : at[p] = "done")
          => ~Named(Deletes[d])
    /\ \A p \in Erased : at[p] = "done" =>
          /\ \A m \in Messages : Author[m] = p => ~Named(m) \/ LeftByMirror(m)
          /\ \A f \in filings : f.person = p => f.target = None

(* Whoever asks for the fence gets through every hold it needs and leaves:    *)
(* the three holds never close a circle, with writers waiting or not, and all *)
(* there is to do gets done.                                                  *)
EveryHoldEnds ==
    (\E a \in Actors : at[a] # "idle") ~> (\A a \in Actors : at[a] = "done")
===============================================================================
