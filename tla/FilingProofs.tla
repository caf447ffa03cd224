------------------------------ MODULE FilingProofs ------------------------------
(***************************************************************************)
(* For every set of messages, join events, people, calls, ingestions and   *)
(* erasures: no id stands in two marks or two reports, no mark lands       *)
(* beside a report, and what was taken back is named no more.              *)
(*                                                                         *)
(* The argument is about who may be where.  The fence keeps an erasure     *)
(* alone (Alone), the door keeps a scan and its append, and the five       *)
(* passes of a mirror, apart from one another (AtDoor); so what a scan     *)
(* found is still so at the append (ScanStands).  What names an id no row  *)
(* carries any more is then accounted for by whoever took the row and is   *)
(* not through with it (Accounted): a mirror under way, a mirror that was  *)
(* cut short, or, of the marks, an erasure that has not reached them.      *)
(***************************************************************************)
EXTENDS Filing, FiniteSetTheorems, TLAPS

CallPlaces == {"idle", "fence", "door", "scan", "append", "done"}
MirrorPlaces == {"messages", "events", "events, rows found", "replies", "reports", "marks"}
IngestionPlaces == {"idle", "fence", "stamp", "door", "record", "done"} \cup MirrorPlaces
ErasurePlaces == {"idle", "fence", "settle", "replies", "reports", "content",
                  "joins", "named", "done"}

\* Where each actor may be, and what the rows hold; the waiting line is left
\* to whoever stands in it.
FilingType ==
    /\ scene \in Scenes
    /\ stored \subseteq Messages
    /\ present \in [Joins -> SUBSET People]
    /\ replyTo \in [Messages -> Ids \cup {None}]
    /\ filings \subseteq [by : Calls, target : Ids \cup {None}, person : People \cup {None}]
    /\ at \in [Actors -> CallPlaces \cup IngestionPlaces \cup ErasurePlaces]
    /\ \A c \in Calls : at[c] \in CallPlaces
    /\ \A d \in Ingestions : at[d] \in IngestionPlaces
    /\ \A p \in Erased : at[p] \in ErasurePlaces
    /\ verdict \in [Calls -> People \cup {None}]
    /\ cutShort \in [mirror : Nat, erasure : Nat]

-----------------------------------------------------------------------------
(* Who may be where.                                                          *)

Behind(a) == at[a] \notin {"idle", "fence", "done"}

\* Whoever is past the fence holds it, and an erasure holds it alone.
Alone ==
    /\ \A a \in Actors : Behind(a) => a \in inside
    /\ \A p \in Erased : p \in inside => inside = {p}

\* A scan, an append and the passes of a mirror are behind the door.
AtDoor ==
    /\ \A c \in Calls : at[c] \in {"scan", "append"} => door = c
    /\ \A d \in Ingestions : at[d] \in MirrorPlaces => door = d

\* What a scan found is so until its call files or leaves.
ScanStands ==
    \A c \in Calls : at[c] = "append" =>
        /\ Assessed(Names[c]) /\ Names[c] \in Ids
        /\ verdict[c] = PersonOf(Names[c])
        /\ Reports(Names[c]) = {}
        /\ Tool[c] = "react" => Names[c] \in stored /\ Marks(Names[c]) = {}

-----------------------------------------------------------------------------
(* What the ledger holds.                                                     *)

\* Two filings of one tool do not name one id.
NoTwo ==
    \A f, g \in filings :
        f.target # None /\ f.target = g.target /\ Tool[f.by] = Tool[g.by] => f = g

\* A filing about a message names its author, and a mark is about a message.
Attributed ==
    \A f \in filings :
        /\ f.target \in Messages => f.person = Author[f.target]
        /\ f.target # None /\ Tool[f.by] = "react" => f.target \in Messages

\* A mirror past its second pass has left no row that carries the id.
MirrorTook ==
    \A d \in Ingestions : Deletes[d] # None =>
        /\ at[d] \in {"events", "events, rows found"} => Deletes[d] \notin stored
        /\ at[d] \in {"replies", "reports", "marks", "record", "done"} => ~Assessed(Deletes[d])

\* The mirrors that found a row and are not through with what names it.
Underway == {"events, rows found", "replies", "reports", "marks"}

\* They are the first to find it gone.
FoundFirst ==
    \A d \in Ingestions : at[d] \in Underway =>
        /\ Deletes[d] # None
        /\ \A e \in Ingestions : Deletes[e] = Deletes[d] => at[e] \notin {"record", "done"}
        /\ \A p \in Erased : Deletes[d] \in Messages /\ Author[Deletes[d]] = p => at[p] # "done"

\* How far an erasure has come.
ErasureTook ==
    \A p \in Erased :
        /\ at[p] \in {"reports", "content", "joins"} =>
              \A m \in Messages : ~Wrote(p, replyTo[m])
        /\ at[p] \in {"content", "joins"} =>
              \A f \in filings : Tool[f.by] = "report" => ~Wrote(p, f.target)
        /\ at[p] \in {"joins", "named", "done"} => \A m \in stored : Author[m] # p
        /\ at[p] \in {"named", "done"} => \A j \in Joins : p \notin present[j]
        /\ at[p] = "done" => \A f \in filings : f.person = p => f.target = None

Mirrors(o, places) == \E d \in Ingestions : Deletes[d] = o /\ at[d] \in places

\* The marks of a message whose row an erasure took, until it gets to them.
ErasureOwes(o) ==
    /\ o \in Messages
    /\ \E p \in Erased :
         /\ Author[o] = p
         /\ \/ /\ at[p] \in {"joins", "named"}
               /\ \A d \in Ingestions : Deletes[d] = o => at[d] # "done"
            \/ cutShort.erasure > 0 /\ at[p] # "done"

\* Whatever still names an id no row carries is somebody's to null, or was
\* left by a mirror that was cut short.
RepliesAccounted(o) ==
    \/ \A m \in Messages : replyTo[m] # o
    \/ Mirrors(o, {"events, rows found", "replies"})
    \/ LeftByMirror(o)

ReportsAccounted(o) ==
    \/ Reports(o) = {}
    \/ Mirrors(o, {"events, rows found", "replies", "reports"})
    \/ LeftByMirror(o)

MarksAccounted(o) ==
    \/ Marks(o) = {}
    \/ Mirrors(o, Underway)
    \/ LeftByMirror(o)
    \/ ErasureOwes(o)

Accounted ==
    \A o \in Ids : ~Assessed(o) =>
        RepliesAccounted(o) /\ ReportsAccounted(o) /\ MarksAccounted(o)

IInv ==
    /\ FilingType /\ Alone /\ AtDoor /\ ScanStands /\ NoTwo /\ Attributed
    /\ MirrorTook /\ FoundFirst /\ ErasureTook /\ Accounted

-----------------------------------------------------------------------------
\* The scene and the constants, in the forms the steps use them.
LEMMA Cast ==
  ASSUME FilingType
  PROVE  /\ Tool \in [Calls -> {"react", "report"}]
         /\ Names \in [Calls -> Ids]
         /\ Deletes \in [Ingestions -> Ids \cup {None}]
         /\ None \notin Ids /\ None \notin People
         /\ Free \notin Actors
         /\ Messages \cap Joins = {}
         /\ Ids = Messages \cup Joins
         /\ Author \in [Messages -> People]
         /\ Calls \subseteq Actors /\ Ingestions \subseteq Actors /\ Erased \subseteq Actors
         /\ Actors = Calls \cup Ingestions \cup Erased
         /\ Calls \cap Ingestions = {} /\ Calls \cap Erased = {} /\ Ingestions \cap Erased = {}
  BY FilingAssumption DEF FilingType, Tool, Names, Deletes, Ids, Actors


-----------------------------------------------------------------------------
(* Who still accounts for an id after a step that does not touch it.          *)

LEMMA StaysNulled ==
  ASSUME NEW o \in Ids, scene' = scene,
         \A m \in Messages : replyTo'[m] = o => replyTo[m] = o,
         Reports(o) = {} => Reports(o)' = {},
         cutShort.mirror > 0 => cutShort'.mirror > 0,
         \A d \in Ingestions : Deletes[d] = o /\ at[d] \in Underway => at'[d] = at[d],
         RepliesAccounted(o), ReportsAccounted(o)
  PROVE  RepliesAccounted(o)' /\ ReportsAccounted(o)'
<1>1. LeftByMirror(o) => LeftByMirror(o)'
  BY DEF LeftByMirror, Deletes
<1>2. RepliesAccounted(o)'
  BY <1>1 DEF RepliesAccounted, Mirrors, Underway, Deletes
<1>3. ReportsAccounted(o)'
  BY <1>1 DEF ReportsAccounted, Mirrors, Underway, Deletes
<1> QED BY <1>2, <1>3

LEMMA StaysMarked ==
  ASSUME NEW o \in Ids, scene' = scene,
         Marks(o) = {} => Marks(o)' = {},
         cutShort.mirror > 0 => cutShort'.mirror > 0,
         \A d \in Ingestions : Deletes[d] = o /\ at[d] \in Underway => at'[d] = at[d],
         ErasureOwes(o) => ErasureOwes(o)',
         MarksAccounted(o)
  PROVE  MarksAccounted(o)'
<1>1. LeftByMirror(o) => LeftByMirror(o)'
  BY DEF LeftByMirror, Deletes
<1> QED BY <1>1 DEF MarksAccounted, Mirrors, Underway, Deletes

LEMMA StaysOwed ==
  ASSUME NEW o \in Ids, scene' = scene, ErasureOwes(o),
         cutShort.erasure > 0 => cutShort'.erasure > 0,
         \A d \in Ingestions : Deletes[d] = o /\ at'[d] = "done" => at[d] = "done",
         \A p \in Erased : Author[o] = p =>
            /\ at[p] # "done" => at'[p] # "done"
            /\ at[p] \in {"joins", "named"} =>
                  \/ at'[p] \in {"joins", "named"}
                  \/ cutShort'.erasure > 0
  PROVE  ErasureOwes(o)'
<1>1. PICK p \in Erased :
         /\ Author[o] = p
         /\ \/ /\ at[p] \in {"joins", "named"}
               /\ \A d \in Ingestions : Deletes[d] = o => at[d] # "done"
            \/ cutShort.erasure > 0 /\ at[p] # "done"
  BY DEF ErasureOwes
<1>2. \A d \in Ingestions : Deletes[d]' = Deletes[d]
  BY DEF Deletes
<1>3. o \in Messages
  BY DEF ErasureOwes
<1>4. CASE cutShort.erasure > 0 /\ at[p] # "done"
  BY <1>1, <1>3, <1>4 DEF ErasureOwes
<1>5. CASE at[p] \in {"joins", "named"} /\ \A d \in Ingestions : Deletes[d] = o => at[d] # "done"
  BY <1>1, <1>2, <1>3, <1>5 DEF ErasureOwes
<1> QED BY <1>1, <1>4, <1>5

LEMMA StaysAccounted ==
  ASSUME Accounted, NEW o \in Ids, ~Assessed(o), scene' = scene,
         \A m \in Messages : replyTo'[m] = o => replyTo[m] = o,
         Reports(o)' \subseteq Reports(o), Marks(o)' \subseteq Marks(o),
         cutShort' = cutShort,
         \A d \in Ingestions : Deletes[d] = o /\ at[d] \in Underway => at'[d] = at[d],
         \A d \in Ingestions : Deletes[d] = o /\ at'[d] = "done" => at[d] = "done",
         \A p \in Erased : Author[o] = p =>
            /\ at[p] # "done" => at'[p] # "done"
            /\ at[p] \in {"joins", "named"} => at'[p] \in {"joins", "named"}
  PROVE  RepliesAccounted(o)' /\ ReportsAccounted(o)' /\ MarksAccounted(o)'
<1>1. RepliesAccounted(o) /\ ReportsAccounted(o) /\ MarksAccounted(o)
  BY DEF Accounted
<1>2. /\ Reports(o) = {} => Reports(o)' = {}
      /\ Marks(o) = {} => Marks(o)' = {}
  OBVIOUS
<1>3. ErasureOwes(o) => ErasureOwes(o)'
  BY StaysOwed
<1>4. RepliesAccounted(o)' /\ ReportsAccounted(o)'
  BY <1>1, <1>2, StaysNulled
<1>5. MarksAccounted(o)'
  BY <1>1, <1>2, <1>3, StaysMarked
<1> QED BY <1>4, <1>5

-----------------------------------------------------------------------------
(* Steps that touch no row.                                                   *)

\* Where an actor owes the ledger nothing, and the ledger nothing to it.
Light(a) ==
    \/ a \in Calls
    \/ /\ a \in Ingestions
       /\ \/ at[a] \in {"idle", "fence", "stamp", "door", "messages"}
          \/ at[a] = "events" /\ Deletes[a] \notin stored
          \/ Deletes[a] = None /\ at[a] \in {"record", "done"}
    \/ a \in Erased /\ at[a] \in {"idle", "fence", "settle", "replies"}

\* Between such places an actor moves without a word in the ledger.
LEMMA LedgerStays ==
  ASSUME IInv,
         UNCHANGED <<scene, stored, present, replyTo, filings>>,
         \A a \in Actors : at'[a] = at[a] \/ (Light(a) /\ Light(a)'),
         cutShort.mirror > 0 => cutShort'.mirror > 0,
         cutShort.erasure > 0 => cutShort'.erasure > 0
  PROVE  NoTwo' /\ Attributed' /\ MirrorTook' /\ FoundFirst' /\ ErasureTook' /\ Accounted'
<1>0. FilingType
  BY DEF IInv
<1>1. /\ Ingestions \subseteq Actors /\ Erased \subseteq Actors
      /\ Calls \cap Ingestions = {} /\ Calls \cap Erased = {} /\ Ingestions \cap Erased = {}
      /\ None \notin Ids
  BY <1>0, Cast
<1>2. \A o : (Assessed(o) <=> Assessed(o)') /\ Reports(o)' = Reports(o) /\ Marks(o)' = Marks(o)
  BY DEF Assessed, Reports, Marks, Tool
<1>3. /\ \A d \in Ingestions : Deletes[d]' = Deletes[d]
      /\ \A d \in Ingestions : Deletes[d] # None =>
            \/ at'[d] = at[d]
            \/ /\ at[d] \in {"idle", "fence", "stamp", "door", "messages", "events"}
               /\ at'[d] \in {"idle", "fence", "stamp", "door", "messages", "events"}
               /\ at'[d] = "events" => Deletes[d] \notin stored
  BY <1>1 DEF Light, Deletes
<1>4. \A p \in Erased :
         \/ at'[p] = at[p]
         \/ /\ at[p] \in {"idle", "fence", "settle", "replies"}
            /\ at'[p] \in {"idle", "fence", "settle", "replies"}
  BY <1>1 DEF Light
<1>5. \A d \in Ingestions :
         \/ at'[d] = at[d]
         \/ /\ at[d] \in {"idle", "fence", "stamp", "door", "messages", "events", "record", "done"}
            /\ at'[d] \in {"idle", "fence", "stamp", "door", "messages", "events", "record", "done"}
  BY <1>1 DEF Light
<1>a. NoTwo' /\ Attributed'
  BY DEF IInv, NoTwo, Attributed, Tool
<1>b. MirrorTook'
  BY <1>2, <1>3 DEF IInv, MirrorTook
<1>c. FoundFirst'
  <2> SUFFICES ASSUME NEW d \in Ingestions, at'[d] \in Underway
               PROVE  /\ Deletes[d] # None
                      /\ \A e \in Ingestions : Deletes[e] = Deletes[d] => at'[e] \notin {"record", "done"}
                      /\ \A p \in Erased :
                           Deletes[d] \in Messages /\ Author[Deletes[d]] = p => at'[p] # "done"
    BY <1>3 DEF FoundFirst, Underway
  <2>1. at[d] \in Underway
    BY <1>5 DEF Underway
  <2> QED BY <2>1, <1>3, <1>4 DEF IInv, FoundFirst
<1>d. ErasureTook'
  BY <1>4 DEF IInv, ErasureTook, Wrote, Tool
<1>e. Accounted'
  <2> SUFFICES ASSUME NEW o \in Ids, ~Assessed(o)'
               PROVE  RepliesAccounted(o)' /\ ReportsAccounted(o)' /\ MarksAccounted(o)'
    BY DEF Accounted
  <2>1. RepliesAccounted(o) /\ ReportsAccounted(o) /\ MarksAccounted(o)
    BY <1>2 DEF IInv, Accounted
  <2>2. o # None
    BY <1>1
  <2>3. RepliesAccounted(o)' /\ ReportsAccounted(o)'
    BY <1>2, <1>3, <2>1, <2>2, StaysNulled DEF Underway
  <2>4. ErasureOwes(o) => ErasureOwes(o)'
    BY <1>3, <1>4, <2>2, StaysOwed
  <2>5. MarksAccounted(o)'
    BY <1>2, <1>3, <2>1, <2>2, <2>4, StaysMarked DEF Underway
  <2> QED BY <2>3, <2>5
<1> QED BY <1>a, <1>b, <1>c, <1>d, <1>e

\* Every actor is in a place of its kind.
InPlace ==
    /\ at \in [Actors -> CallPlaces \cup IngestionPlaces \cup ErasurePlaces]
    /\ \A c \in Calls : at[c] \in CallPlaces
    /\ \A d \in Ingestions : at[d] \in IngestionPlaces
    /\ \A p \in Erased : at[p] \in ErasurePlaces

MovesTo(a, w) == at' = [at EXCEPT ![a] = w]

LEMMA OneMoves ==
  ASSUME FilingType, NEW a \in Actors, NEW w,
         a \in Calls => w \in CallPlaces,
         a \in Ingestions => w \in IngestionPlaces,
         a \in Erased => w \in ErasurePlaces,
         MovesTo(a, w)
  PROVE  /\ InPlace'
         /\ \A b \in Actors : at'[b] = IF b = a THEN w ELSE at[b]
<1>1. \A b \in Actors : at'[b] = IF b = a THEN w ELSE at[b]
  BY DEF FilingType, MovesTo
<1>2. w \in CallPlaces \cup IngestionPlaces \cup ErasurePlaces
  BY Cast
<1>3. at' \in [Actors -> CallPlaces \cup IngestionPlaces \cup ErasurePlaces]
  BY <1>2 DEF FilingType, MovesTo
<1>4. /\ \A c \in Calls : at'[c] \in CallPlaces
      /\ \A d \in Ingestions : at'[d] \in IngestionPlaces
      /\ \A p \in Erased : at'[p] \in ErasurePlaces
  BY <1>1, Cast DEF FilingType
<1> QED BY <1>1, <1>3, <1>4 DEF InPlace

\* What a scan found stands as long as the rows do.
LEMMA ScanStays ==
  ASSUME IInv,
         UNCHANGED <<scene, stored, present, filings>>,
         \A c \in Calls : at'[c] = "append" => at[c] = "append" /\ verdict'[c] = verdict[c]
  PROVE  ScanStands'
BY DEF IInv, ScanStands, Assessed, PersonOf, Reports, Marks, Names, Tool


LEMMA AskKeeps == ASSUME IInv, NEW a \in Actors, Ask(a) PROVE IInv'
<1>0. FilingType
  BY DEF IInv
<1>2. /\ Calls \subseteq Actors /\ Ingestions \subseteq Actors /\ Erased \subseteq Actors
      /\ Calls \cap Ingestions = {} /\ Calls \cap Erased = {} /\ Ingestions \cap Erased = {}
      /\ Actors = Calls \cup Ingestions \cup Erased /\ Free \notin Actors
  BY <1>0, Cast
<1> DEFINE w == "fence"
<1>3. InPlace' /\ \A b \in Actors : at'[b] = IF b = a THEN w ELSE at[b]
  <2>1. /\ a \in Calls => w \in CallPlaces
        /\ a \in Ingestions => w \in IngestionPlaces
        /\ a \in Erased => w \in ErasurePlaces
    BY <1>2 DEF CallPlaces, IngestionPlaces, MirrorPlaces, ErasurePlaces
  <2>2. MovesTo(a, w)
    BY DEF Ask, MovesTo
  <2> HIDE DEF w
  <2> QED BY <1>0, <1>2, <2>1, <2>2, OneMoves
<1>1. /\ UNCHANGED <<scene, stored, present, replyTo, filings, inside, stamp, door, verdict, cutShort>>
      /\ at[a] = "idle"
  BY DEF Ask, rows
<1>a. FilingType'
  BY <1>0, <1>1, <1>3 DEF FilingType, InPlace
<1>b. Alone'
  BY <1>1, <1>2, <1>3 DEF IInv, Alone, Behind
<1>c. AtDoor'
  BY <1>1, <1>2, <1>3 DEF IInv, AtDoor, MirrorPlaces
<1>d. ScanStands'
  BY <1>1, <1>2, <1>3, ScanStays
<1>e. \A b \in Actors : at'[b] = at[b] \/ (Light(b) /\ Light(b)')
  BY <1>1, <1>2, <1>3 DEF Light, Deletes
<1>f. NoTwo' /\ Attributed' /\ MirrorTook' /\ FoundFirst' /\ ErasureTook' /\ Accounted'
  BY <1>1, <1>e, LedgerStays
<1> QED BY <1>a, <1>b, <1>c, <1>d, <1>f DEF IInv

LEMMA EnterFenceKeeps == ASSUME IInv, NEW a \in Actors, EnterFence(a) PROVE IInv'
<1>0. FilingType
  BY DEF IInv
<1>2. /\ Calls \subseteq Actors /\ Ingestions \subseteq Actors /\ Erased \subseteq Actors
      /\ Calls \cap Ingestions = {} /\ Calls \cap Erased = {} /\ Ingestions \cap Erased = {}
      /\ Actors = Calls \cup Ingestions \cup Erased /\ Free \notin Actors
  BY <1>0, Cast
<1> DEFINE w == Inside(a)
<1>3. InPlace' /\ \A b \in Actors : at'[b] = IF b = a THEN w ELSE at[b]
  <2>1. /\ a \in Calls => w \in CallPlaces
        /\ a \in Ingestions => w \in IngestionPlaces
        /\ a \in Erased => w \in ErasurePlaces
    BY <1>2 DEF CallPlaces, IngestionPlaces, MirrorPlaces, ErasurePlaces, Inside
  <2>2. MovesTo(a, w)
    BY DEF EnterFence, MovesTo
  <2> HIDE DEF w
  <2> QED BY <1>0, <1>2, <2>1, <2>2, OneMoves
<1>1. /\ UNCHANGED <<scene, stored, present, replyTo, filings, stamp, door, verdict, cutShort>>
      /\ at[a] = "fence"
      /\ IF a \in Erased THEN inside = {} ELSE inside \cap Erased = {}
      /\ inside' = inside \cup {a}
  BY DEF EnterFence, rows
<1>a. FilingType'
  BY <1>0, <1>1, <1>3 DEF FilingType, InPlace
<1>b. Alone'
  BY <1>1, <1>2, <1>3 DEF IInv, Alone, Behind, Inside
<1>c. AtDoor'
  BY <1>1, <1>2, <1>3 DEF IInv, AtDoor, MirrorPlaces, Inside
<1>d. ScanStands'
  BY <1>1, <1>2, <1>3, ScanStays DEF Inside
<1>e. \A b \in Actors : at'[b] = at[b] \/ (Light(b) /\ Light(b)')
  BY <1>1, <1>2, <1>3 DEF Light, Deletes, Inside
<1>f. NoTwo' /\ Attributed' /\ MirrorTook' /\ FoundFirst' /\ ErasureTook' /\ Accounted'
  BY <1>1, <1>e, LedgerStays
<1> QED BY <1>a, <1>b, <1>c, <1>d, <1>f DEF IInv

LEMMA TakeStampKeeps == ASSUME IInv, NEW d \in Ingestions, TakeStamp(d) PROVE IInv'
<1>0. FilingType
  BY DEF IInv
<1>2. /\ Calls \subseteq Actors /\ Ingestions \subseteq Actors /\ Erased \subseteq Actors
      /\ Calls \cap Ingestions = {} /\ Calls \cap Erased = {} /\ Ingestions \cap Erased = {}
      /\ Actors = Calls \cup Ingestions \cup Erased /\ Free \notin Actors
  BY <1>0, Cast
<1> DEFINE w == IF Deletes[d] = None THEN "record" ELSE "door"
<1>3. InPlace' /\ \A b \in Actors : at'[b] = IF b = d THEN w ELSE at[b]
  <2>1. /\ d \in Calls => w \in CallPlaces
        /\ d \in Ingestions => w \in IngestionPlaces
        /\ d \in Erased => w \in ErasurePlaces
    BY <1>2 DEF CallPlaces, IngestionPlaces, MirrorPlaces, ErasurePlaces
  <2>2. MovesTo(d, w)
    BY DEF TakeStamp, MovesTo
  <2> HIDE DEF w
  <2> QED BY <1>0, <1>2, <2>1, <2>2, OneMoves
<1>1. /\ UNCHANGED <<scene, stored, present, replyTo, filings, inside, door, verdict, cutShort>>
      /\ at[d] = "stamp"
  BY DEF TakeStamp, rows
<1>a. FilingType'
  BY <1>0, <1>1, <1>3 DEF FilingType, InPlace
<1>b. Alone'
  BY <1>1, <1>2, <1>3 DEF IInv, Alone, Behind
<1>c. AtDoor'
  BY <1>1, <1>2, <1>3 DEF IInv, AtDoor, MirrorPlaces
<1>d. ScanStands'
  BY <1>1, <1>2, <1>3, ScanStays
<1>e. \A b \in Actors : at'[b] = at[b] \/ (Light(b) /\ Light(b)')
  BY <1>1, <1>2, <1>3 DEF Light, Deletes
<1>f. NoTwo' /\ Attributed' /\ MirrorTook' /\ FoundFirst' /\ ErasureTook' /\ Accounted'
  BY <1>1, <1>e, LedgerStays
<1> QED BY <1>a, <1>b, <1>c, <1>d, <1>f DEF IInv

LEMMA TakeDoorKeeps == ASSUME IInv, NEW a \in Calls \cup Ingestions, TakeDoor(a) PROVE IInv'
<1>0. FilingType
  BY DEF IInv
<1>2. /\ Calls \subseteq Actors /\ Ingestions \subseteq Actors /\ Erased \subseteq Actors
      /\ Calls \cap Ingestions = {} /\ Calls \cap Erased = {} /\ Ingestions \cap Erased = {}
      /\ Actors = Calls \cup Ingestions \cup Erased /\ Free \notin Actors
  BY <1>0, Cast
<1> DEFINE w == IF a \in Calls THEN "scan" ELSE "messages"
<1>3. InPlace' /\ \A b \in Actors : at'[b] = IF b = a THEN w ELSE at[b]
  <2>1. /\ a \in Calls => w \in CallPlaces
        /\ a \in Ingestions => w \in IngestionPlaces
        /\ a \in Erased => w \in ErasurePlaces
    BY <1>2 DEF CallPlaces, IngestionPlaces, MirrorPlaces, ErasurePlaces
  <2>2. MovesTo(a, w)
    BY DEF TakeDoor, MovesTo
  <2> HIDE DEF w
  <2> QED BY <1>0, <1>2, <2>1, <2>2, OneMoves
<1>1. /\ UNCHANGED <<scene, stored, present, replyTo, filings, inside, stamp, verdict, cutShort>>
      /\ at[a] = "door" /\ door = Free /\ door' = a
  BY DEF TakeDoor, rows
<1>a. FilingType'
  BY <1>0, <1>1, <1>3 DEF FilingType, InPlace
<1>b. Alone'
  BY <1>1, <1>2, <1>3 DEF IInv, Alone, Behind
<1>c. AtDoor'
  BY <1>1, <1>2, <1>3 DEF IInv, AtDoor, MirrorPlaces
<1>d. ScanStands'
  BY <1>1, <1>2, <1>3, ScanStays
<1>e. \A b \in Actors : at'[b] = at[b] \/ (Light(b) /\ Light(b)')
  BY <1>1, <1>2, <1>3 DEF Light, Deletes
<1>f. NoTwo' /\ Attributed' /\ MirrorTook' /\ FoundFirst' /\ ErasureTook' /\ Accounted'
  BY <1>1, <1>e, LedgerStays
<1> QED BY <1>a, <1>b, <1>c, <1>d, <1>f DEF IInv

-----------------------------------------------------------------------------
(* What keeps the others out.                                                 *)

LEMMA ByDoor ==
  ASSUME IInv, NEW d \in Ingestions, at[d] \in MirrorPlaces
  PROVE  /\ door = d /\ d \in Actors /\ d \notin Erased /\ d \notin Calls
         /\ \A c \in Calls : at[c] \notin {"scan", "append"} /\ c # d
         /\ \A e \in Ingestions : at[e] \in MirrorPlaces => e = d
         /\ \A p \in Erased : at[p] \in {"idle", "fence", "done"} /\ p # d
<1>1. FilingType /\ Alone /\ AtDoor
  BY DEF IInv
<1>2. /\ Ingestions \subseteq Actors /\ Erased \subseteq Actors
      /\ Calls \cap Ingestions = {} /\ Ingestions \cap Erased = {}
  BY <1>1, Cast
<1>3. Behind(d)
  BY DEF Behind, MirrorPlaces
<1>4. \A p \in Erased : ~Behind(p)
  BY <1>1, <1>2, <1>3 DEF Alone
<1>5. door = d
  BY <1>1 DEF AtDoor
<1> QED BY <1>1, <1>2, <1>4, <1>5 DEF AtDoor, Behind

LEMMA ByFence ==
  ASSUME IInv, NEW p \in Erased, Behind(p)
  PROVE  /\ inside = {p} /\ p \in Actors /\ p \notin Calls /\ p \notin Ingestions
         /\ \A b \in Actors : b # p => at[b] \in {"idle", "fence", "done"}
  BY Cast DEF IInv, Alone, Behind

\* Going on behind the holds one has.
LEMMA PassHolds ==
  ASSUME IInv, NEW a \in Actors, NEW w, Behind(a),
         a \in Calls => w \in CallPlaces,
         a \in Ingestions => w \in IngestionPlaces,
         a \in Erased => w \in ErasurePlaces,
         MovesTo(a, w), inside' = inside, door' = door \/ door = a,
         a \in Calls /\ w \in {"scan", "append"} => door' = a,
         a \in Ingestions /\ w \in MirrorPlaces => door' = a
  PROVE  /\ InPlace' /\ Alone' /\ AtDoor'
         /\ \A b \in Actors : at'[b] = IF b = a THEN w ELSE at[b]
<1>1. FilingType /\ Alone /\ AtDoor
  BY DEF IInv
<1>2. InPlace' /\ \A b \in Actors : at'[b] = IF b = a THEN w ELSE at[b]
  BY <1>1, OneMoves
<1>3. Calls \subseteq Actors /\ Ingestions \subseteq Actors /\ Erased \subseteq Actors
  BY <1>1, Cast
<1>4. Alone'
  BY <1>1, <1>2, <1>3 DEF Alone, Behind
<1>5. AtDoor'
  BY <1>1, <1>2, <1>3 DEF AtDoor
<1> QED BY <1>2, <1>4, <1>5

\* Leaving them.
LEMMA LeaveHolds ==
  ASSUME IInv, NEW a \in Actors, NEW w, w \in {"idle", "done"}, Leave(a, w)
  PROVE  /\ InPlace' /\ Alone' /\ AtDoor'
         /\ \A b \in Actors : at'[b] = IF b = a THEN w ELSE at[b]
<1>1. FilingType /\ Alone /\ AtDoor
  BY DEF IInv
<1>2. w \in CallPlaces /\ w \in IngestionPlaces /\ w \in ErasurePlaces
  BY DEF CallPlaces, IngestionPlaces, ErasurePlaces
<1>3. MovesTo(a, w) /\ inside' = inside \ {a} /\ door' = IF door = a THEN Free ELSE door
  BY DEF Leave, MovesTo
<1>4. InPlace' /\ \A b \in Actors : at'[b] = IF b = a THEN w ELSE at[b]
  BY <1>1, <1>2, <1>3, OneMoves
<1>5. Calls \subseteq Actors /\ Ingestions \subseteq Actors /\ Erased \subseteq Actors
  BY <1>1, Cast
<1>6. Alone'
  BY <1>1, <1>3, <1>4, <1>5 DEF Alone, Behind
<1>7. AtDoor'
  BY <1>1, <1>3, <1>4, <1>5 DEF AtDoor, MirrorPlaces
<1> QED BY <1>4, <1>6, <1>7

-----------------------------------------------------------------------------
(* A settlement, and what leaves with no row touched.                         *)

LEMMA SettleKeeps == ASSUME IInv, NEW p \in Erased, Settle(p) PROVE IInv'
<1>0. FilingType
  BY DEF IInv
<1>2. /\ Calls \subseteq Actors /\ Ingestions \subseteq Actors /\ Erased \subseteq Actors
      /\ Calls \cap Ingestions = {} /\ Calls \cap Erased = {} /\ Ingestions \cap Erased = {}
      /\ None \notin Ids /\ None \notin People
  BY <1>0, Cast
<1>1. /\ UNCHANGED <<scene, stored, present, replyTo, filings, verdict>>
      /\ at[p] = "settle" /\ p \in Actors /\ Behind(p)
  BY <1>2 DEF Settle, rows, Behind
<1>3. /\ InPlace' /\ Alone' /\ AtDoor'
      /\ at'[p] \in {"replies", "idle"}
      /\ \A b \in Actors : b # p => at'[b] = at[b] \/ (b \in Calls /\ at'[b] = "done")
      /\ cutShort' \in [mirror : Nat, erasure : Nat]
      /\ cutShort.mirror > 0 => cutShort'.mirror > 0
      /\ cutShort.erasure > 0 => cutShort'.erasure > 0
  <2>1. CASE MovesTo(p, "replies") /\ UNCHANGED <<holds, cutShort>>
    <3>1. InPlace' /\ Alone' /\ AtDoor' /\ \A b \in Actors : at'[b] = IF b = p THEN "replies" ELSE at[b]
      BY <1>1, <1>2, <2>1, PassHolds DEF holds, ErasurePlaces
    <3> QED BY <1>0, <1>1, <2>1, <3>1 DEF FilingType
  <2>2. CASE /\ \A b \in Actors :
                   at'[b] = IF b = p THEN "replies"
                            ELSE IF b \in CallsOf(p) /\ at[b] = "fence" THEN "done" ELSE at[b]
             /\ at' \in [Actors -> CallPlaces \cup IngestionPlaces \cup ErasurePlaces]
             /\ UNCHANGED <<inside, stamp, door, cutShort>>
    <3>1. CallsOf(p) \subseteq Calls
      BY DEF CallsOf
    <3>2. InPlace'
      BY <1>0, <1>1, <1>2, <2>2, <3>1 DEF FilingType, InPlace, CallPlaces, ErasurePlaces
    <3>3. Alone' /\ AtDoor'
      BY <1>1, <1>2, <2>2, <3>1 DEF IInv, Alone, AtDoor, Behind, MirrorPlaces
    <3> QED BY <1>0, <1>1, <2>2, <3>1, <3>2, <3>3 DEF FilingType
  <2>3. CASE CutShort("erasure") /\ Leave(p, "idle")
    <3>1. InPlace' /\ Alone' /\ AtDoor' /\ \A b \in Actors : at'[b] = IF b = p THEN "idle" ELSE at[b]
      BY <1>1, <1>2, <2>3, LeaveHolds
    <3>2. /\ cutShort' \in [mirror : Nat, erasure : Nat]
          /\ cutShort'.mirror = cutShort.mirror /\ cutShort'.erasure > 0
      BY <1>0, <2>3 DEF FilingType, CutShort
    <3> QED BY <1>1, <3>1, <3>2
  <2>4. \/ /\ at' = [at EXCEPT ![p] = "replies"] /\ UNCHANGED <<holds, cutShort>>
        \/ /\ at' = [a \in Actors |->
                       IF a = p THEN "replies"
                       ELSE IF a \in CallsOf(p) /\ at[a] = "fence" THEN "done" ELSE at[a]]
           /\ UNCHANGED <<inside, stamp, door, cutShort>>
        \/ CutShort("erasure") /\ Leave(p, "idle")
    BY DEF Settle
  <2>5. ASSUME at' = [a \in Actors |->
                        IF a = p THEN "replies"
                        ELSE IF a \in CallsOf(p) /\ at[a] = "fence" THEN "done" ELSE at[a]]
        PROVE  /\ \A b \in Actors :
                    at'[b] = IF b = p THEN "replies"
                             ELSE IF b \in CallsOf(p) /\ at[b] = "fence" THEN "done" ELSE at[b]
               /\ at' \in [Actors -> CallPlaces \cup IngestionPlaces \cup ErasurePlaces]
    BY <1>0, <2>5 DEF FilingType, CallPlaces, ErasurePlaces
  <2> QED BY <2>1, <2>2, <2>3, <2>4, <2>5 DEF MovesTo
<1>a. FilingType'
  BY <1>0, <1>1, <1>3 DEF FilingType, InPlace
<1>d. ScanStands'
  BY <1>1, <1>2, <1>3, ScanStays
<1>e. \A b \in Actors : at'[b] = at[b] \/ (Light(b) /\ Light(b)')
  BY <1>1, <1>2, <1>3 DEF Light
<1>f. NoTwo' /\ Attributed' /\ MirrorTook' /\ FoundFirst' /\ ErasureTook' /\ Accounted'
  BY <1>1, <1>3, <1>e, LedgerStays
<1> QED BY <1>a, <1>3, <1>d, <1>f DEF IInv

LEMMA RecordKeeps == ASSUME IInv, NEW d \in Ingestions, Record(d) PROVE IInv'
<1>0. FilingType
  BY DEF IInv
<1>2. /\ Calls \subseteq Actors /\ Ingestions \subseteq Actors /\ Erased \subseteq Actors
      /\ Calls \cap Ingestions = {} /\ Calls \cap Erased = {} /\ Ingestions \cap Erased = {}
      /\ None \notin Ids /\ None \notin People
  BY <1>0, Cast
<1>1. /\ UNCHANGED <<scene, stored, present, replyTo, filings, verdict, cutShort>>
      /\ at[d] = "record" /\ d \in Actors /\ Leave(d, "done")
  BY <1>2 DEF Record, rows
<1>3. InPlace' /\ Alone' /\ AtDoor' /\ \A b \in Actors : at'[b] = IF b = d THEN "done" ELSE at[b]
  BY <1>1, LeaveHolds
<1>a. FilingType'
  BY <1>0, <1>1, <1>3 DEF FilingType, InPlace
<1>d. ScanStands'
  BY <1>1, <1>2, <1>3, ScanStays
<1>4. CASE Deletes[d] = None
  <2>1. \A b \in Actors : at'[b] = at[b] \/ (Light(b) /\ Light(b)')
    BY <1>1, <1>2, <1>3, <1>4 DEF Light, Deletes
  <2> QED BY <1>1, <1>3, <1>a, <1>d, <2>1, LedgerStays DEF IInv
<1>5. CASE Deletes[d] # None
  <2>1. NoTwo' /\ Attributed'
    BY <1>1 DEF IInv, NoTwo, Attributed, Tool
  <2>2. MirrorTook'
    BY <1>1, <1>2, <1>3 DEF IInv, MirrorTook, Assessed, Deletes
  <2>3. FoundFirst'
    BY <1>1, <1>2, <1>3 DEF IInv, FoundFirst, Underway, Deletes
  <2>4. ErasureTook'
    BY <1>1, <1>2, <1>3 DEF IInv, ErasureTook, Wrote, Tool
  <2>5. \A p \in Erased : at[p] \notin {"joins", "named"}
    BY <1>1, <1>2 DEF IInv, Alone, Behind
  <2>6. Accounted'
    <3> SUFFICES ASSUME NEW o \in Ids, ~Assessed(o)'
                 PROVE  RepliesAccounted(o)' /\ ReportsAccounted(o)' /\ MarksAccounted(o)'
      BY DEF Accounted
    <3>1. Reports(o)' = Reports(o) /\ Marks(o)' = Marks(o)
      BY <1>1 DEF Reports, Marks, Tool
    <3>2. RepliesAccounted(o) /\ ReportsAccounted(o) /\ MarksAccounted(o)
      BY <1>1 DEF IInv, Accounted, Assessed
    <3>3. \A e \in Ingestions : at[e] \in Underway => at'[e] = at[e]
      BY <1>1, <1>2, <1>3 DEF Underway
    <3>4. RepliesAccounted(o)' /\ ReportsAccounted(o)'
      BY <1>1, <3>1, <3>2, <3>3, StaysNulled
    <3>5. ErasureOwes(o) => ErasureOwes(o)'
      BY <1>1, <1>2, <1>3, <2>5 DEF ErasureOwes
    <3>6. MarksAccounted(o)'
      BY <1>1, <3>1, <3>2, <3>3, <3>5, StaysMarked
    <3> QED BY <3>4, <3>6
  <2> QED BY <1>3, <1>a, <1>d, <2>1, <2>2, <2>3, <2>4, <2>6 DEF IInv
<1> QED BY <1>4, <1>5

LEMMA MirrorFailsKeeps == ASSUME IInv, NEW d \in Ingestions, MirrorFails(d) PROVE IInv'
<1>0. FilingType
  BY DEF IInv
<1>2. /\ Calls \subseteq Actors /\ Ingestions \subseteq Actors /\ Erased \subseteq Actors
      /\ Calls \cap Ingestions = {} /\ Calls \cap Erased = {} /\ Ingestions \cap Erased = {}
      /\ None \notin Ids /\ None \notin People
  BY <1>0, Cast
<1>1. /\ UNCHANGED <<scene, stored, present, replyTo, filings, verdict>>
      /\ at[d] \in MirrorPlaces /\ d \in Actors /\ Leave(d, "idle")
  BY <1>2 DEF MirrorFails, rows, MirrorPlaces
<1>3. InPlace' /\ Alone' /\ AtDoor' /\ \A b \in Actors : at'[b] = IF b = d THEN "idle" ELSE at[b]
  BY <1>1, LeaveHolds
<1>4. /\ cutShort' \in [mirror : Nat, erasure : Nat]
      /\ cutShort'.mirror > 0 /\ cutShort'.erasure = cutShort.erasure
  <2>1. CutShort("mirror") /\ cutShort \in [mirror : Nat, erasure : Nat]
    BY <1>0 DEF FilingType, MirrorFails
  <2>2. cutShort' = [cutShort EXCEPT !.mirror = cutShort.mirror + 1]
    BY <2>1 DEF CutShort
  <2> QED BY <2>1, <2>2
<1>a. FilingType'
  BY <1>0, <1>1, <1>3, <1>4 DEF FilingType, InPlace
<1>d. ScanStands'
  BY <1>1, <1>2, <1>3, ScanStays
<1>5. NoTwo' /\ Attributed'
  BY <1>1 DEF IInv, NoTwo, Attributed, Tool
<1>6. MirrorTook'
  BY <1>1, <1>2, <1>3 DEF IInv, MirrorTook, Assessed, Deletes
<1>7. FoundFirst'
  BY <1>1, <1>2, <1>3 DEF IInv, FoundFirst, Underway, Deletes
<1>8. ErasureTook'
  BY <1>1, <1>2, <1>3 DEF IInv, ErasureTook, Wrote, Tool
<1>9. Accounted'
  <2> SUFFICES ASSUME NEW o \in Ids, ~Assessed(o)'
               PROVE  RepliesAccounted(o)' /\ ReportsAccounted(o)' /\ MarksAccounted(o)'
    BY DEF Accounted
  <2>1. Reports(o)' = Reports(o) /\ Marks(o)' = Marks(o)
    BY <1>1 DEF Reports, Marks, Tool
  <2>2. RepliesAccounted(o) /\ ReportsAccounted(o) /\ MarksAccounted(o)
    BY <1>1 DEF IInv, Accounted, Assessed
  <2>3. CASE Deletes[d] = o
    <3>1. LeftByMirror(o)'
      BY <1>1, <1>4, <2>3 DEF LeftByMirror, Deletes
    <3> QED BY <3>1 DEF RepliesAccounted, ReportsAccounted, MarksAccounted
  <2>4. CASE Deletes[d] # o
    <3>1. \A e \in Ingestions : Deletes[e] = o => at'[e] = at[e]
      BY <1>2, <1>3, <2>4
    <3>2. \A p \in Erased : at'[p] = at[p]
      BY <1>2, <1>3
    <3>3. RepliesAccounted(o)' /\ ReportsAccounted(o)'
      BY <1>1, <1>4, <2>1, <2>2, <3>1, StaysNulled
    <3>4. ErasureOwes(o) => ErasureOwes(o)'
      BY <1>1, <1>4, <3>1, <3>2, StaysOwed
    <3>5. MarksAccounted(o)'
      BY <1>1, <1>4, <2>1, <2>2, <3>1, <3>4, StaysMarked
    <3> QED BY <3>3, <3>5
  <2> QED BY <2>3, <2>4
<1> QED BY <1>3, <1>a, <1>d, <1>5, <1>6, <1>7, <1>8, <1>9 DEF IInv

LEMMA ErasureFailsKeeps == ASSUME IInv, NEW p \in Erased, ErasureFails(p) PROVE IInv'
<1>0. FilingType
  BY DEF IInv
<1>2. /\ Calls \subseteq Actors /\ Ingestions \subseteq Actors /\ Erased \subseteq Actors
      /\ Calls \cap Ingestions = {} /\ Calls \cap Erased = {} /\ Ingestions \cap Erased = {}
      /\ None \notin Ids /\ None \notin People
  BY <1>0, Cast
<1>1. /\ UNCHANGED <<scene, stored, present, replyTo, filings, verdict>>
      /\ Behind(p) /\ p \in Actors /\ Leave(p, "idle")
  BY <1>2 DEF ErasureFails, rows, Behind
<1>3. InPlace' /\ Alone' /\ AtDoor' /\ \A b \in Actors : at'[b] = IF b = p THEN "idle" ELSE at[b]
  BY <1>1, LeaveHolds
<1>4. /\ cutShort' \in [mirror : Nat, erasure : Nat]
      /\ cutShort'.erasure > 0 /\ cutShort'.mirror = cutShort.mirror
  BY <1>0 DEF FilingType, ErasureFails, CutShort
<1>a. FilingType'
  BY <1>0, <1>1, <1>3, <1>4 DEF FilingType, InPlace
<1>d. ScanStands'
  BY <1>1, <1>2, <1>3, ScanStays
<1>5. NoTwo' /\ Attributed'
  BY <1>1 DEF IInv, NoTwo, Attributed, Tool
<1>6. MirrorTook'
  BY <1>1, <1>2, <1>3 DEF IInv, MirrorTook, Assessed, Deletes
<1>7. FoundFirst'
  BY <1>1, <1>2, <1>3 DEF IInv, FoundFirst, Underway, Deletes
<1>8. ErasureTook'
  BY <1>1, <1>2, <1>3 DEF IInv, ErasureTook, Wrote, Tool
<1>9. Accounted'
  <2> SUFFICES ASSUME NEW o \in Ids, ~Assessed(o)'
               PROVE  RepliesAccounted(o)' /\ ReportsAccounted(o)' /\ MarksAccounted(o)'
    BY DEF Accounted
  <2>1. Reports(o)' = Reports(o) /\ Marks(o)' = Marks(o)
    BY <1>1 DEF Reports, Marks, Tool
  <2>2. RepliesAccounted(o) /\ ReportsAccounted(o) /\ MarksAccounted(o)
    BY <1>1 DEF IInv, Accounted, Assessed
  <2>3. \A e \in Ingestions : at'[e] = at[e]
    BY <1>2, <1>3
  <2>4. \A q \in Erased : at'[q] = at[q] \/ at'[q] = "idle"
    BY <1>2, <1>3
  <2>5. RepliesAccounted(o)' /\ ReportsAccounted(o)'
    BY <1>1, <1>4, <2>1, <2>2, <2>3, StaysNulled
  <2>6. ErasureOwes(o) => ErasureOwes(o)'
    BY <1>1, <1>4, <2>3, <2>4, StaysOwed
  <2>7. MarksAccounted(o)'
    BY <1>1, <1>4, <2>1, <2>2, <2>3, <2>6, StaysMarked
  <2> QED BY <2>5, <2>7
<1> QED BY <1>3, <1>a, <1>d, <1>5, <1>6, <1>7, <1>8, <1>9 DEF IInv

-----------------------------------------------------------------------------
(* A filing call.                                                             *)

LEMMA PersonKnown ==
  ASSUME FilingType, NEW o \in Ids, Assessed(o)
  PROVE  /\ PersonOf(o) \in People \cup {None}
         /\ o \in Messages => PersonOf(o) = Author[o] /\ o \in stored
         /\ o \in Joins /\ PersonOf(o) # None => PersonOf(o) \in present[o]
<1>1. /\ Ids = Messages \cup Joins /\ Messages \cap Joins = {}
      /\ Author \in [Messages -> People] /\ stored \subseteq Messages
      /\ present \in [Joins -> SUBSET People]
  BY Cast DEF FilingType
<1>2. CASE o \in Messages
  BY <1>1, <1>2 DEF PersonOf, Assessed
<1>3. CASE o \in Joins
  <2>1. CASE Cardinality(present[o]) = 1
    <3>1. present[o] # {}
      BY <2>1, FS_EmptySet
    <3>2. (CHOOSE p \in present[o] : TRUE) \in present[o]
      BY <3>1
    <3>3. PersonOf(o) = CHOOSE p \in present[o] : TRUE
      BY <1>1, <1>3, <2>1 DEF PersonOf
    <3>4. present[o] \subseteq People
      BY <1>1, <1>3
    <3> HIDE DEF PersonOf
    <3> QED BY <1>1, <1>3, <3>2, <3>3, <3>4
  <2>2. CASE Cardinality(present[o]) # 1
    <3>1. PersonOf(o) = None
      BY <1>1, <1>3, <2>2 DEF PersonOf
    <3> QED BY <1>1, <1>3, <3>1
  <2> QED BY <2>1, <2>2
<1> QED BY <1>1, <1>2, <1>3

LEMMA ScanKeeps == ASSUME IInv, NEW c \in Calls, Scan(c) PROVE IInv'
<1>0. FilingType
  BY DEF IInv
<1>2. /\ Calls \subseteq Actors /\ Ingestions \subseteq Actors /\ Erased \subseteq Actors
      /\ Calls \cap Ingestions = {} /\ Calls \cap Erased = {} /\ Ingestions \cap Erased = {}
      /\ None \notin Ids /\ None \notin People /\ Names \in [Calls -> Ids]
      /\ Ids = Messages \cup Joins /\ Messages \cap Joins = {} /\ Author \in [Messages -> People]
  BY <1>0, Cast
<1>1. /\ UNCHANGED <<scene, stored, present, replyTo, filings, cutShort>>
      /\ at[c] = "scan" /\ c \in Actors /\ door = c /\ Behind(c)
  BY <1>2 DEF Scan, rows, IInv, AtDoor, Behind
<1>3. CASE ~(IF Tool[c] = "react" THEN Markable(Names[c]) ELSE Reportable(Names[c]))
  <2>1. Leave(c, "done") /\ UNCHANGED verdict
    BY <1>3 DEF Scan
  <2>2. InPlace' /\ Alone' /\ AtDoor' /\ \A b \in Actors : at'[b] = IF b = c THEN "done" ELSE at[b]
    BY <1>1, <2>1, LeaveHolds
  <2>3. FilingType'
    BY <1>0, <1>1, <2>1, <2>2 DEF FilingType, InPlace
  <2>4. ScanStands'
    BY <1>1, <1>2, <2>1, <2>2, ScanStays
  <2>5. \A b \in Actors : at'[b] = at[b] \/ (Light(b) /\ Light(b)')
    BY <1>1, <1>2, <2>2 DEF Light
  <2>6. NoTwo' /\ Attributed' /\ MirrorTook' /\ FoundFirst' /\ ErasureTook' /\ Accounted'
    BY <1>1, <2>5, LedgerStays
  <2> QED BY <2>2, <2>3, <2>4, <2>6 DEF IInv
<1>4. CASE IF Tool[c] = "react" THEN Markable(Names[c]) ELSE Reportable(Names[c])
  <2>1. /\ MovesTo(c, "append") /\ UNCHANGED <<line, inside, stamp, door>>
        /\ verdict' = [verdict EXCEPT ![c] = PersonOf(Names[c])]
    BY <1>4 DEF Scan, MovesTo
  <2>2. InPlace' /\ Alone' /\ AtDoor' /\ \A b \in Actors : at'[b] = IF b = c THEN "append" ELSE at[b]
    BY <1>1, <1>2, <2>1, PassHolds DEF CallPlaces
  <2>3. /\ Names[c] \in Ids /\ Assessed(Names[c]) /\ Reports(Names[c]) = {}
        /\ Tool[c] = "react" => Names[c] \in stored /\ Marks(Names[c]) = {}
    BY <1>2, <1>4 DEF Markable, Reportable, Assessed
  <2>4. PersonOf(Names[c]) \in People \cup {None}
    BY <1>0, <2>3, PersonKnown
  <2>5. /\ verdict' \in [Calls -> People \cup {None}]
        /\ verdict'[c] = PersonOf(Names[c])
    BY <1>0, <2>1, <2>4 DEF FilingType
  <2>6. FilingType'
    BY <1>0, <1>1, <2>2, <2>5 DEF FilingType, InPlace
  <2>7. ScanStands'
    <3> SUFFICES ASSUME NEW e \in Calls, at'[e] = "append"
                 PROVE  (/\ Assessed(Names[e]) /\ Names[e] \in Ids
                         /\ verdict[e] = PersonOf(Names[e])
                         /\ Reports(Names[e]) = {}
                         /\ Tool[e] = "react" => Names[e] \in stored /\ Marks(Names[e]) = {})'
      BY DEF ScanStands
    <3>1. e = c
      BY <1>1, <1>2, <2>2 DEF IInv, AtDoor
    <3>2. /\ Assessed(Names[c])' /\ PersonOf(Names[c])' = PersonOf(Names[c])
          /\ Reports(Names[c])' = Reports(Names[c]) /\ Marks(Names[c])' = Marks(Names[c])
          /\ Names' = Names /\ Tool' = Tool /\ stored' = stored
      BY <1>1, <2>3 DEF Assessed, PersonOf, Reports, Marks, Names, Tool
    <3> QED BY <3>1, <3>2, <2>3, <2>5
  <2>8. \A b \in Actors : at'[b] = at[b] \/ (Light(b) /\ Light(b)')
    BY <1>1, <1>2, <2>2 DEF Light
  <2>9. NoTwo' /\ Attributed' /\ MirrorTook' /\ FoundFirst' /\ ErasureTook' /\ Accounted'
    BY <1>1, <2>8, LedgerStays
  <2> QED BY <2>2, <2>6, <2>7, <2>9 DEF IInv
<1> QED BY <1>3, <1>4

LEMMA FileKeeps == ASSUME IInv, NEW c \in Calls, File(c) PROVE IInv'
<1>0. FilingType
  BY DEF IInv
<1>2. /\ Calls \subseteq Actors /\ Ingestions \subseteq Actors /\ Erased \subseteq Actors
      /\ Calls \cap Ingestions = {} /\ Calls \cap Erased = {} /\ Ingestions \cap Erased = {}
      /\ None \notin Ids /\ None \notin People /\ Names \in [Calls -> Ids]
      /\ Ids = Messages \cup Joins /\ Messages \cap Joins = {} /\ Author \in [Messages -> People]
  BY <1>0, Cast
<1>1. /\ UNCHANGED <<scene, stored, present, replyTo, verdict, cutShort>>
      /\ at[c] = "append" /\ c \in Actors /\ Leave(c, "done")
  BY <1>2 DEF File
<1>3. InPlace' /\ Alone' /\ AtDoor' /\ \A b \in Actors : at'[b] = IF b = c THEN "done" ELSE at[b]
  BY <1>1, LeaveHolds
<1>4. /\ \A e \in Calls : at[e] = "append" => e = c
      /\ \A p \in Erased : at[p] \in {"idle", "fence", "done"} /\ at'[p] = at[p]
      /\ \A d \in Ingestions : at'[d] = at[d]
  BY <1>1, <1>2, <1>3 DEF IInv, Alone, AtDoor, Behind
<1>5. CASE UNCHANGED filings
  <2>1. \A b \in Actors : at'[b] = at[b] \/ (Light(b) /\ Light(b)')
    BY <1>2, <1>3 DEF Light
  <2>2. NoTwo' /\ Attributed' /\ MirrorTook' /\ FoundFirst' /\ ErasureTook' /\ Accounted'
    BY <1>1, <1>5, <2>1, LedgerStays
  <2>3. ScanStands'
    BY <1>1, <1>2, <1>3, <1>5, ScanStays
  <2>4. FilingType'
    BY <1>0, <1>1, <1>3, <1>5 DEF FilingType, InPlace
  <2> QED BY <1>3, <2>2, <2>3, <2>4 DEF IInv
<1> DEFINE o == Names[c]
           new == [by |-> c, target |-> o, person |-> verdict[c]]
<1>6. CASE filings' = filings \cup {new}
  <2>1. /\ o \in Ids /\ Assessed(o) /\ verdict[c] = PersonOf(o) /\ Reports(o) = {}
        /\ Tool[c] = "react" => o \in stored /\ Marks(o) = {}
    BY <1>1 DEF IInv, ScanStands
  <2>2. /\ PersonOf(o) \in People \cup {None}
        /\ o \in Messages => PersonOf(o) = Author[o] /\ o \in stored
        /\ o \in Joins /\ PersonOf(o) # None => PersonOf(o) \in present[o]
    BY <1>0, <2>1, PersonKnown
  <2>3. /\ new.by = c /\ new.target = o /\ new.person = verdict[c]
        /\ new \in [by : Calls, target : Ids \cup {None}, person : People \cup {None}]
    BY <2>1, <2>2
  <2> HIDE DEF new
  <2> HIDE DEF o
  <2>4. FilingType'
    BY <1>0, <1>1, <1>3, <1>6, <2>3 DEF FilingType, InPlace
  <2>5. ScanStands'
    BY <1>2, <1>3, <1>4 DEF ScanStands
  <2>6. NoTwo'
    <3>1. \A f \in filings : f.target = o => Tool[f.by] # Tool[c]
      <4>1. Tool[c] \in {"react", "report"}
        BY <1>0, Cast
      <4> QED BY <2>1, <4>1 DEF Marks, Reports
    <3>2. Tool' = Tool
      BY <1>1 DEF Tool
    <3>3. NoTwo
      BY DEF IInv
    <3> QED BY <1>6, <2>3, <3>1, <3>2, <3>3 DEF NoTwo
  <2>7. Attributed'
    BY <1>0, <1>1, <1>6, <2>1, <2>2, <2>3 DEF IInv, Attributed, Tool, FilingType
  <2>8. MirrorTook'
    BY <1>1, <1>4 DEF IInv, MirrorTook, Assessed, Deletes
  <2>9. FoundFirst'
    BY <1>1, <1>4 DEF IInv, FoundFirst, Underway, Deletes
  <2>10. ErasureTook'
    <3> SUFFICES ASSUME NEW p \in Erased, at[p] = "done"
                 PROVE  /\ \A m \in stored : Author[m] # p
                        /\ \A j \in Joins : p \notin present[j]
                        /\ \A f \in filings' : f.person = p => f.target = None
      BY <1>1, <1>4 DEF ErasureTook
    <3>1. /\ \A m \in stored : Author[m] # p
          /\ \A j \in Joins : p \notin present[j]
          /\ \A f \in filings : f.person = p => f.target = None
      BY DEF IInv, ErasureTook
    <3>2. p # None
      BY <1>2, FilingAssumption
    <3>3. new.person # p
      BY <1>2, <2>1, <2>2, <2>3, <3>1, <3>2
    <3> QED BY <1>6, <3>1, <3>3
  <2>11. Accounted'
    <3> SUFFICES ASSUME NEW q \in Ids, ~Assessed(q)'
                 PROVE  RepliesAccounted(q)' /\ ReportsAccounted(q)' /\ MarksAccounted(q)'
      BY DEF Accounted
    <3>1. ~Assessed(q)
      BY <1>1 DEF Assessed
    <3>2. q # o
      BY <2>1, <3>1
    <3>3. Reports(q)' = Reports(q) /\ Marks(q)' = Marks(q)
      BY <1>1, <1>6, <2>3, <3>2 DEF Reports, Marks, Tool
    <3>4. RepliesAccounted(q) /\ ReportsAccounted(q) /\ MarksAccounted(q)
      BY <3>1 DEF IInv, Accounted
    <3>5. RepliesAccounted(q)' /\ ReportsAccounted(q)'
      BY <1>1, <1>4, <3>3, <3>4, StaysNulled
    <3>6. ErasureOwes(q) => ErasureOwes(q)'
      BY <1>1, <1>4, StaysOwed
    <3>7. MarksAccounted(q)'
      BY <1>1, <1>4, <3>3, <3>4, <3>6, StaysMarked
    <3> QED BY <3>5, <3>7
  <2> QED BY <1>3, <2>4, <2>5, <2>6, <2>7, <2>8, <2>9, <2>10, <2>11 DEF IInv
<1> QED BY <1>5, <1>6 DEF File

-----------------------------------------------------------------------------
(* Nulling.                                                                   *)

LEMMA NullingKeeps ==
  ASSUME FilingType, NoTwo, Attributed, scene' = scene,
         NEW G, filings' \subseteq Nulled(G)
  PROVE  /\ filings' \subseteq [by : Calls, target : Ids \cup {None}, person : People \cup {None}]
         /\ NoTwo' /\ Attributed'
         /\ \A f \in filings' : f.target # None => f \in filings /\ f \notin G
         /\ \A f \in filings' : \E g \in filings :
               f.by = g.by /\ f.person = g.person /\ ((f = g /\ g \notin G) \/ f.target = None)
         /\ \A q \in Ids : /\ Reports(q)' \subseteq Reports(q) \ G
                           /\ Marks(q)' \subseteq Marks(q) \ G
<1>1. None \notin Ids /\ Ids = Messages \cup Joins
  BY Cast
<1>2. \A f \in filings' : \E g \in filings :
         /\ f.by = g.by /\ f.person = g.person
         /\ (f = g /\ g \notin G) \/ f.target = None
         /\ f \in [by : Calls, target : Ids \cup {None}, person : People \cup {None}]
  <2> SUFFICES ASSUME NEW f \in filings'
               PROVE  \E g \in filings :
                        /\ f.by = g.by /\ f.person = g.person
                        /\ (f = g /\ g \notin G) \/ f.target = None
                        /\ f \in [by : Calls, target : Ids \cup {None}, person : People \cup {None}]
    OBVIOUS
  <2>1. PICK g \in filings : f = IF g \in G THEN [g EXCEPT !.target = None] ELSE g
    BY DEF Nulled
  <2>2. g \in [by : Calls, target : Ids \cup {None}, person : People \cup {None}]
    BY DEF FilingType
  <2> QED BY <2>1, <2>2
<1>3. \A f \in filings' : f.target # None => f \in filings /\ f \notin G
  BY <1>2
<1>4. NoTwo'
  BY <1>3 DEF NoTwo, Tool
<1>5. Attributed'
  BY <1>1, <1>3 DEF Attributed, Tool
<1>6. \A q \in Ids : Reports(q)' \subseteq Reports(q) \ G /\ Marks(q)' \subseteq Marks(q) \ G
  BY <1>1, <1>3 DEF Reports, Marks, Tool
<1> QED BY <1>2, <1>3, <1>4, <1>5, <1>6

-----------------------------------------------------------------------------
(* The deletion mirror, pass by pass.                                         *)

\* A pass of one mirror leaves the erasures and the other actors where they are.
LEMMA MirrorMoves ==
  ASSUME IInv, NEW d \in Ingestions, at[d] \in MirrorPlaces, NEW w \in MirrorPlaces \cup {"record"},
         MovesTo(d, w), inside' = inside, door' = IF w = "record" THEN Free ELSE door
  PROVE  /\ InPlace' /\ Alone' /\ AtDoor'
         /\ \A b \in Actors : at'[b] = IF b = d THEN w ELSE at[b]
         /\ at'[d] = w
         /\ \A c \in Calls : at'[c] = at[c]
         /\ \A p \in Erased : at'[p] = at[p] /\ at[p] \in {"idle", "fence", "done"}
         /\ \A e \in Ingestions : e # d => at'[e] = at[e] /\ at[e] \notin MirrorPlaces
         /\ scene' = scene => ScanStands'
<1>1. /\ door = d /\ d \in Actors /\ d \notin Erased /\ d \notin Calls
      /\ \A c \in Calls : at[c] \notin {"scan", "append"} /\ c # d
      /\ \A e \in Ingestions : at[e] \in MirrorPlaces => e = d
      /\ \A p \in Erased : at[p] \in {"idle", "fence", "done"} /\ p # d
  BY ByDoor
<1>2. Behind(d) /\ w \in IngestionPlaces
  BY DEF Behind, MirrorPlaces, IngestionPlaces
<1>3. w \in MirrorPlaces => w # "record"
  BY DEF MirrorPlaces
<1>4. /\ InPlace' /\ Alone' /\ AtDoor'
      /\ \A b \in Actors : at'[b] = IF b = d THEN w ELSE at[b]
  BY <1>1, <1>2, <1>3, PassHolds
<1>5. Calls \subseteq Actors /\ Ingestions \subseteq Actors /\ Erased \subseteq Actors
  BY Cast DEF IInv
<1>6. ScanStands'
  BY <1>1, <1>4, <1>5 DEF ScanStands
<1> QED BY <1>1, <1>4, <1>5, <1>6

LEMMA MirrorMessageKeeps == ASSUME IInv, NEW d \in Ingestions, MirrorMessage(d) PROVE IInv'
<1>0. FilingType
  BY DEF IInv
<1>2. /\ Calls \subseteq Actors /\ Ingestions \subseteq Actors /\ Erased \subseteq Actors
      /\ None \notin Ids /\ Deletes \in [Ingestions -> Ids \cup {None}]
      /\ Ids = Messages \cup Joins /\ Messages \cap Joins = {} /\ Author \in [Messages -> People]
  BY <1>0, Cast
<1> DEFINE o == Deletes[d]
           w == IF o \in stored THEN "events, rows found" ELSE "events"
<1>1. /\ UNCHANGED <<scene, present, filings, verdict, cutShort, inside, door>>
      /\ at[d] = "messages" /\ MovesTo(d, w) /\ stored' = stored \ {o}
  BY DEF MirrorMessage, Moves, holds, MovesTo
<1>3. /\ w \in MirrorPlaces /\ at[d] \in MirrorPlaces /\ w # "record"
      /\ w = "events" <=> o \notin stored
  BY <1>1 DEF MirrorPlaces
<1>4. replyTo' = IF o \in stored THEN [replyTo EXCEPT ![o] = None] ELSE replyTo
  BY DEF MirrorMessage
<1> HIDE DEF w
<1>5. /\ InPlace' /\ Alone' /\ AtDoor' /\ ScanStands'
      /\ \A b \in Actors : at'[b] = IF b = d THEN w ELSE at[b]
      /\ at'[d] = w
      /\ \A p \in Erased : at'[p] = at[p] /\ at[p] \in {"idle", "fence", "done"}
      /\ \A e \in Ingestions : e # d => at'[e] = at[e] /\ at[e] \notin MirrorPlaces
  BY <1>1, <1>3, MirrorMoves
<1>6. /\ replyTo' \in [Messages -> Ids \cup {None}]
      /\ \A m \in Messages : replyTo'[m] # None => replyTo'[m] = replyTo[m]
  BY <1>0, <1>2, <1>4 DEF FilingType
<1>7. FilingType'
  BY <1>0, <1>1, <1>5, <1>6 DEF FilingType, InPlace
<1>8. CASE o \notin stored
  <2>1. UNCHANGED <<stored, replyTo>>
    BY <1>1, <1>4, <1>8
  <2>2. \A b \in Actors : at'[b] = at[b] \/ (Light(b) /\ Light(b)')
    BY <1>1, <1>3, <1>5, <1>8, <2>1 DEF Light, Deletes
  <2>3. NoTwo' /\ Attributed' /\ MirrorTook' /\ FoundFirst' /\ ErasureTook' /\ Accounted'
    BY <1>1, <2>1, <2>2, LedgerStays
  <2> QED BY <1>5, <1>7, <2>3 DEF IInv
<1>9. CASE o \in stored
  <2>0. o \in Messages /\ o \in Ids /\ o # None /\ w = "events, rows found" /\ Assessed(o)
    BY <1>0, <1>2, <1>3, <1>9 DEF FilingType, Assessed, w
  <2>1. NoTwo' /\ Attributed'
    BY <1>1 DEF IInv, NoTwo, Attributed, Tool
  <2>2. \A q : Assessed(q)' => Assessed(q)
    BY <1>1 DEF Assessed
  <2>3. MirrorTook'
    BY <1>1, <1>5, <2>0, <2>2 DEF IInv, MirrorTook, Deletes
  <2>4. FoundFirst'
    <3> SUFFICES ASSUME NEW e \in Ingestions, at'[e] \in Underway
                 PROVE  (/\ Deletes[e] # None
                         /\ \A k \in Ingestions :
                              Deletes[k] = Deletes[e] => at[k] \notin {"record", "done"}
                         /\ \A p \in Erased :
                              Deletes[e] \in Messages /\ Author[Deletes[e]] = p => at[p] # "done")'
      BY <1>1 DEF FoundFirst, Deletes
    <3>1. e = d
      BY <1>5 DEF Underway, MirrorPlaces
    <3>2. \A k \in Ingestions : Deletes[k] = o => at[k] \notin {"record", "done"}
      BY <2>0 DEF IInv, MirrorTook
    <3>3. \A p \in Erased : Author[o] = p => at[p] # "done"
      BY <1>9 DEF IInv, ErasureTook
    <3>4. Deletes' = Deletes
      BY <1>1 DEF Deletes
    <3> HIDE DEF o
    <3>5. \A k \in Ingestions : Deletes[k] = o => at'[k] \notin {"record", "done"}
      BY <1>5, <2>0, <3>2
    <3> QED BY <1>5, <2>0, <3>1, <3>3, <3>4, <3>5 DEF o
  <2>5. ErasureTook'
    BY <1>1, <1>5 DEF IInv, ErasureTook
  <2>6. Accounted'
    <3> SUFFICES ASSUME NEW q \in Ids, ~Assessed(q)'
                 PROVE  RepliesAccounted(q)' /\ ReportsAccounted(q)' /\ MarksAccounted(q)'
      BY DEF Accounted
    <3>1. CASE q = o
      <4>1. Mirrors(q, {"events, rows found"})'
        BY <1>1, <1>5, <2>0, <3>1 DEF Mirrors, Deletes
      <4> QED BY <4>1 DEF RepliesAccounted, ReportsAccounted, MarksAccounted, Mirrors, Underway
    <3>2. CASE q # o
      <4>1. ~Assessed(q)
        BY <1>1, <3>2 DEF Assessed
      <4>2. RepliesAccounted(q) /\ ReportsAccounted(q) /\ MarksAccounted(q)
        BY <4>1 DEF IInv, Accounted
      <4>3. Reports(q)' = Reports(q) /\ Marks(q)' = Marks(q)
        BY <1>1 DEF Reports, Marks, Tool
      <4>4. \A e \in Ingestions : Deletes[e] = q => at'[e] = at[e]
        BY <1>5, <3>2
      <4>5. q # None
        BY <1>2
      <4>6. RepliesAccounted(q)' /\ ReportsAccounted(q)'
        BY <1>1, <1>6, <4>2, <4>3, <4>4, <4>5, StaysNulled
      <4>7. ErasureOwes(q) => ErasureOwes(q)'
        BY <1>1, <1>5, <4>4, StaysOwed
      <4>8. MarksAccounted(q)'
        BY <1>1, <4>2, <4>3, <4>4, <4>7, StaysMarked
      <4> QED BY <4>6, <4>8
    <3> QED BY <3>1, <3>2
  <2> QED BY <1>5, <1>7, <2>1, <2>3, <2>4, <2>5, <2>6 DEF IInv
<1> QED BY <1>8, <1>9

LEMMA MirrorEventKeeps == ASSUME IInv, NEW d \in Ingestions, MirrorEvent(d) PROVE IInv'
<1>0. FilingType
  BY DEF IInv
<1>2. /\ Calls \subseteq Actors /\ Ingestions \subseteq Actors /\ Erased \subseteq Actors
      /\ None \notin Ids /\ Deletes \in [Ingestions -> Ids \cup {None}]
      /\ Ids = Messages \cup Joins /\ Messages \cap Joins = {} /\ Author \in [Messages -> People]
  BY <1>0, Cast
<1> DEFINE o == Deletes[d]
           hit == o \in Joins /\ present[o] # {}
           w == IF hit \/ at[d] = "events, rows found" THEN "replies" ELSE "record"
<1>1. /\ UNCHANGED <<scene, stored, replyTo, filings, verdict, cutShort, inside>>
      /\ at[d] \in {"events", "events, rows found"} /\ MovesTo(d, w)
      /\ present' = IF hit THEN [present EXCEPT ![o] = {}] ELSE present
      /\ door' = IF w = "record" THEN Free ELSE door
  BY DEF MirrorEvent, MovesTo
<1>3. /\ w \in MirrorPlaces \cup {"record"} /\ at[d] \in MirrorPlaces
      /\ w = "record" => at[d] = "events" /\ ~hit
      /\ w # "record" => w = "replies" /\ (hit \/ at[d] = "events, rows found")
  BY <1>1 DEF MirrorPlaces
<1> HIDE DEF w
<1>5. /\ at'[d] = w
      /\ InPlace' /\ Alone' /\ AtDoor' /\ ScanStands'
      /\ \A p \in Erased : at'[p] = at[p] /\ at[p] \in {"idle", "fence", "done"}
      /\ \A e \in Ingestions : e # d => at'[e] = at[e] /\ at[e] \notin MirrorPlaces
  BY <1>1, <1>3, MirrorMoves
<1>6. /\ present' \in [Joins -> SUBSET People]
      /\ hit => present'[o] = {}
      /\ \A j \in Joins : present'[j] \subseteq present[j]
      /\ \A j \in Joins : j # o => present'[j] = present[j]
      /\ ~hit => present' = present
  BY <1>0, <1>1 DEF FilingType
<1>7. FilingType'
  BY <1>0, <1>1, <1>5, <1>6 DEF FilingType, InPlace
<1>8. NoTwo' /\ Attributed'
  BY <1>1 DEF IInv, NoTwo, Attributed, Tool
<1>9. o # None => o \notin stored
  BY <1>1 DEF IInv, MirrorTook
<1>10. at[d] = "events, rows found" => o # None
  BY DEF IInv, FoundFirst, Underway
<1>11. ~Assessed(o)' /\ (~hit => ~Assessed(o)) /\ (hit => Assessed(o))
  BY <1>0, <1>1, <1>2, <1>6, <1>9 DEF FilingType, Assessed, Deletes
<1>12. \A q : Assessed(q)' => Assessed(q)
  BY <1>1, <1>6 DEF Assessed
<1>a. MirrorTook'
  BY <1>1, <1>3, <1>5, <1>11, <1>12 DEF IInv, MirrorTook, Deletes, MirrorPlaces
<1>b. FoundFirst'
  <2> SUFFICES ASSUME NEW e \in Ingestions, at'[e] \in Underway
               PROVE  /\ Deletes[e] # None
                      /\ \A k \in Ingestions :
                           Deletes[k] = Deletes[e] => at'[k] \notin {"record", "done"}
                      /\ \A p \in Erased :
                           Deletes[e] \in Messages /\ Author[Deletes[e]] = p => at'[p] # "done"
    BY <1>1 DEF FoundFirst, Deletes
  <2>1. e = d /\ w = "replies"
    BY <1>3, <1>5 DEF Underway, MirrorPlaces
  <2>2. CASE at[d] = "events, rows found"
    BY <1>5, <2>1, <2>2 DEF IInv, FoundFirst, Underway
  <2>3. CASE hit
    <3>1. o # None /\ o \notin Messages /\ Assessed(o)
      BY <1>2, <1>11, <2>3
    <3>2. \A k \in Ingestions : Deletes[k] = o => at[k] \notin {"record", "done"}
      BY <3>1 DEF IInv, MirrorTook
    <3> HIDE DEF o, hit
    <3>3. \A k \in Ingestions : Deletes[k] = o => at'[k] \notin {"record", "done"}
      BY <1>5, <2>1, <3>2
    <3> QED BY <2>1, <3>1, <3>3 DEF o
  <2> QED BY <1>3, <2>1, <2>2, <2>3
<1>c. ErasureTook'
  BY <1>1, <1>5, <1>6 DEF IInv, ErasureTook
<1>d. Accounted'
  <2> SUFFICES ASSUME NEW q \in Ids, ~Assessed(q)'
               PROVE  RepliesAccounted(q)' /\ ReportsAccounted(q)' /\ MarksAccounted(q)'
    BY DEF Accounted
  <2>1. CASE q = o /\ w = "replies"
    <3>1. Mirrors(q, {"replies"})'
      BY <1>1, <1>5, <2>1 DEF Mirrors, Deletes
    <3> QED BY <3>1 DEF RepliesAccounted, ReportsAccounted, MarksAccounted, Mirrors, Underway
  <2>3. CASE q = o /\ w = "record"
    <3>1. ~Assessed(q) /\ q # None
      BY <1>2, <1>3, <1>11, <2>3
    <3>2. \A e \in Ingestions : at[e] \in Underway => at'[e] = at[e]
      BY <1>3, <1>5, <2>3 DEF Underway
    <3>3. \A e \in Ingestions : at'[e] = "done" => at[e] = "done"
      BY <1>5, <2>3
    <3>4. Reports(q)' = Reports(q) /\ Marks(q)' = Marks(q)
      BY <1>1 DEF Reports, Marks, Tool
    <3>5. \A p \in Erased : at'[p] = at[p]
      BY <1>5
    <3> QED BY <1>1, <3>1, <3>2, <3>3, <3>4, <3>5, StaysAccounted DEF IInv
  <2>2. CASE q # o
    <3>1. \A e \in Ingestions : Deletes[e] = q => at'[e] = at[e]
      BY <1>5, <2>2
    <3>2. \A p \in Erased : at'[p] = at[p]
      BY <1>5
    <3>3. Reports(q)' = Reports(q) /\ Marks(q)' = Marks(q)
      BY <1>1 DEF Reports, Marks, Tool
    <3>4. ~Assessed(q)
      BY <1>1, <1>6, <2>2 DEF Assessed
    <3> QED BY <1>1, <3>1, <3>2, <3>3, <3>4, StaysAccounted DEF IInv
  <2> QED BY <1>3, <2>1, <2>2, <2>3
<1> QED BY <1>5, <1>7, <1>8, <1>a, <1>b, <1>c, <1>d DEF IInv

LEMMA MirrorRepliesKeeps == ASSUME IInv, NEW d \in Ingestions, MirrorReplies(d) PROVE IInv'
<1>0. FilingType
  BY DEF IInv
<1>2. /\ Calls \subseteq Actors /\ Ingestions \subseteq Actors /\ Erased \subseteq Actors
      /\ None \notin Ids /\ Deletes \in [Ingestions -> Ids \cup {None}]
      /\ Ids = Messages \cup Joins /\ Messages \cap Joins = {} /\ Author \in [Messages -> People]
  BY <1>0, Cast
<1> DEFINE o == Deletes[d]
<1>1. /\ UNCHANGED <<scene, stored, present, filings, verdict, cutShort, inside, door>>
      /\ at[d] = "replies" /\ at[d] \in MirrorPlaces /\ MovesTo(d, "reports")
  BY DEF MirrorReplies, Moves, holds, MovesTo, MirrorPlaces
<1>5. /\ at'[d] = "reports"
      /\ InPlace' /\ Alone' /\ AtDoor' /\ ScanStands'
      /\ \A p \in Erased : at'[p] = at[p] /\ at[p] \in {"idle", "fence", "done"}
      /\ \A e \in Ingestions : e # d => at'[e] = at[e] /\ at[e] \notin MirrorPlaces
  BY <1>1, MirrorMoves DEF MirrorPlaces
<1>6. /\ replyTo' \in [Messages -> Ids \cup {None}]
      /\ \A m \in Messages : replyTo'[m] # o \/ o = None
      /\ \A m \in Messages : replyTo'[m] # None => replyTo'[m] = replyTo[m]
  BY <1>0 DEF FilingType, MirrorReplies, Unnamed
<1>7. FilingType'
  BY <1>0, <1>1, <1>5, <1>6 DEF FilingType, InPlace
<1>8. NoTwo' /\ Attributed'
  BY <1>1 DEF IInv, NoTwo, Attributed, Tool
<1>a. MirrorTook'
  BY <1>1, <1>5 DEF IInv, MirrorTook, Deletes, Assessed, MirrorPlaces
<1>b. FoundFirst'
  BY <1>1, <1>5 DEF IInv, FoundFirst, Deletes, Underway, MirrorPlaces
<1>c. ErasureTook'
  BY <1>1, <1>5 DEF IInv, ErasureTook
<1>d. Accounted'
  <2> SUFFICES ASSUME NEW q \in Ids, ~Assessed(q)'
               PROVE  RepliesAccounted(q)' /\ ReportsAccounted(q)' /\ MarksAccounted(q)'
    BY DEF Accounted
  <2>0. Reports(q)' = Reports(q) /\ Marks(q)' = Marks(q) /\ ~Assessed(q) /\ q # None
    BY <1>1, <1>2 DEF Reports, Marks, Tool, Assessed
  <2>1. CASE q = o
    <3>1. Mirrors(q, {"reports"})'
      BY <1>1, <1>5, <2>1 DEF Mirrors, Deletes
    <3>2. \A m \in Messages : replyTo'[m] # q
      BY <1>6, <2>0, <2>1
    <3> QED BY <3>1, <3>2 DEF RepliesAccounted, ReportsAccounted, MarksAccounted, Mirrors, Underway
  <2>2. CASE q # o
    <3>1. \A e \in Ingestions : Deletes[e] = q => at'[e] = at[e]
      BY <1>5, <2>2
    <3>2. \A p \in Erased : at'[p] = at[p]
      BY <1>5
    <3>3. \A m \in Messages : replyTo'[m] = q => replyTo[m] = q
      BY <1>6, <2>0
    <3>4. Reports(q)' \subseteq Reports(q) /\ Marks(q)' \subseteq Marks(q) /\ ~Assessed(q)
      BY <2>0
    <3> QED BY <1>1, <3>1, <3>2, <3>3, <3>4, StaysAccounted DEF IInv
  <2> QED BY <2>1, <2>2
<1> QED BY <1>5, <1>7, <1>8, <1>a, <1>b, <1>c, <1>d DEF IInv

LEMMA MirrorReportsKeeps == ASSUME IInv, NEW d \in Ingestions, MirrorReports(d) PROVE IInv'
<1>0. FilingType
  BY DEF IInv
<1>2. /\ Calls \subseteq Actors /\ Ingestions \subseteq Actors /\ Erased \subseteq Actors
      /\ None \notin Ids /\ Deletes \in [Ingestions -> Ids \cup {None}]
      /\ Ids = Messages \cup Joins /\ Messages \cap Joins = {} /\ Author \in [Messages -> People]
  BY <1>0, Cast
<1> DEFINE o == Deletes[d]
<1>1. /\ UNCHANGED <<scene, stored, present, replyTo, verdict, cutShort, inside>>
      /\ at[d] = "reports" /\ at[d] \in MirrorPlaces /\ MovesTo(d, "marks")
      /\ filings' = Nulled(Reports(o)) /\ door' = door
  BY DEF MirrorReports, Moves, holds, MovesTo, MirrorPlaces
<1>5. /\ at'[d] = "marks"
      /\ InPlace' /\ Alone' /\ AtDoor' /\ ScanStands'
      /\ \A p \in Erased : at'[p] = at[p] /\ at[p] \in {"idle", "fence", "done"}
      /\ \A e \in Ingestions : e # d => at'[e] = at[e] /\ at[e] \notin MirrorPlaces
  BY <1>1, MirrorMoves DEF MirrorPlaces
<1>6. /\ filings' \subseteq [by : Calls, target : Ids \cup {None}, person : People \cup {None}]
      /\ NoTwo' /\ Attributed'
      /\ \A f \in filings' : \E g \in filings :
            f.by = g.by /\ f.person = g.person /\ ((f = g /\ g \notin Reports(o)) \/ f.target = None)
      /\ \A q \in Ids : /\ Reports(q)' \subseteq Reports(q) \ Reports(o)
                        /\ Marks(q)' \subseteq Marks(q) \ Reports(o)
  BY <1>0, <1>1, NullingKeeps DEF IInv
<1>7. FilingType'
  BY <1>0, <1>1, <1>5, <1>6 DEF FilingType, InPlace
<1>8. o # None /\ ~Assessed(o)
  BY <1>1 DEF IInv, FoundFirst, MirrorTook, Underway
<1>a. MirrorTook'
  BY <1>1, <1>5 DEF IInv, MirrorTook, Deletes, Assessed, MirrorPlaces
<1>b. FoundFirst'
  BY <1>1, <1>5 DEF IInv, FoundFirst, Deletes, Underway, MirrorPlaces
<1>c. ErasureTook'
  <2>1. \A p \in Erased : at[p] = "done" => \A f \in filings' : f.person = p => f.target = None
    BY <1>6 DEF IInv, ErasureTook
  <2> QED BY <1>1, <1>5, <2>1 DEF IInv, ErasureTook
<1>d. Accounted'
  <2> SUFFICES ASSUME NEW q \in Ids, ~Assessed(q)'
               PROVE  RepliesAccounted(q)' /\ ReportsAccounted(q)' /\ MarksAccounted(q)'
    BY DEF Accounted
  <2>0. /\ Reports(q)' \subseteq Reports(q) /\ Marks(q)' \subseteq Marks(q)
        /\ ~Assessed(q) /\ q # None
    BY <1>1, <1>2, <1>6 DEF Assessed
  <2>1. CASE q = o
    <3>1. RepliesAccounted(q) /\ ReportsAccounted(q) /\ MarksAccounted(q)
      BY <2>0 DEF IInv, Accounted
    <3>2. ~Mirrors(q, {"events, rows found", "replies"})
      BY <1>1, <1>5 DEF Mirrors, MirrorPlaces
    <3>3. LeftByMirror(q) => LeftByMirror(q)'
      BY <1>1 DEF LeftByMirror, Deletes
    <3>4. RepliesAccounted(q)'
      BY <1>1, <3>1, <3>2, <3>3 DEF RepliesAccounted, Mirrors
    <3>5. Reports(q)' = {} /\ Mirrors(q, {"marks"})'
      BY <1>1, <1>5, <1>6, <2>1 DEF Mirrors, Deletes
    <3> QED BY <3>4, <3>5 DEF ReportsAccounted, MarksAccounted, Mirrors, Underway
  <2>2. CASE q # o
    <3>1. \A e \in Ingestions : Deletes[e] = q => at'[e] = at[e]
      BY <1>5, <2>2
    <3>2. \A p \in Erased : at'[p] = at[p]
      BY <1>5
    <3>3. \A m \in Messages : replyTo'[m] = q => replyTo[m] = q
      BY <1>1
    <3>4. Reports(q)' \subseteq Reports(q) /\ Marks(q)' \subseteq Marks(q) /\ ~Assessed(q)
      BY <2>0
    <3> QED BY <1>1, <3>1, <3>2, <3>3, <3>4, StaysAccounted DEF IInv
  <2> QED BY <2>1, <2>2
<1> QED BY <1>5, <1>6, <1>7, <1>a, <1>b, <1>c, <1>d DEF IInv

LEMMA MirrorMarksKeeps == ASSUME IInv, NEW d \in Ingestions, MirrorMarks(d) PROVE IInv'
<1>0. FilingType
  BY DEF IInv
<1>2. /\ Calls \subseteq Actors /\ Ingestions \subseteq Actors /\ Erased \subseteq Actors
      /\ None \notin Ids /\ Deletes \in [Ingestions -> Ids \cup {None}]
      /\ Ids = Messages \cup Joins /\ Messages \cap Joins = {} /\ Author \in [Messages -> People]
  BY <1>0, Cast
<1> DEFINE o == Deletes[d]
<1>1. /\ UNCHANGED <<scene, stored, present, replyTo, verdict, cutShort, inside>>
      /\ at[d] = "marks" /\ at[d] \in MirrorPlaces /\ MovesTo(d, "record")
      /\ filings' = Nulled(Marks(o)) /\ door' = Free
  BY DEF MirrorMarks, Moves, holds, MovesTo, MirrorPlaces
<1>5. /\ at'[d] = "record"
      /\ InPlace' /\ Alone' /\ AtDoor' /\ ScanStands'
      /\ \A p \in Erased : at'[p] = at[p] /\ at[p] \in {"idle", "fence", "done"}
      /\ \A e \in Ingestions : e # d => at'[e] = at[e] /\ at[e] \notin MirrorPlaces
  BY <1>1, MirrorMoves DEF MirrorPlaces
<1>6. /\ filings' \subseteq [by : Calls, target : Ids \cup {None}, person : People \cup {None}]
      /\ NoTwo' /\ Attributed'
      /\ \A f \in filings' : \E g \in filings :
            f.by = g.by /\ f.person = g.person /\ ((f = g /\ g \notin Marks(o)) \/ f.target = None)
      /\ \A q \in Ids : /\ Reports(q)' \subseteq Reports(q) \ Marks(o)
                        /\ Marks(q)' \subseteq Marks(q) \ Marks(o)
  BY <1>0, <1>1, NullingKeeps DEF IInv
<1>7. FilingType'
  BY <1>0, <1>1, <1>5, <1>6 DEF FilingType, InPlace
<1>8. o # None /\ ~Assessed(o)
  BY <1>1 DEF IInv, FoundFirst, MirrorTook, Underway
<1>a. MirrorTook'
  BY <1>1, <1>5 DEF IInv, MirrorTook, Deletes, Assessed, MirrorPlaces
<1>b. FoundFirst'
  BY <1>1, <1>5 DEF FoundFirst, Underway, MirrorPlaces
<1>c. ErasureTook'
  <2>1. \A p \in Erased : at[p] = "done" => \A f \in filings' : f.person = p => f.target = None
    BY <1>6 DEF IInv, ErasureTook
  <2> QED BY <1>1, <1>5, <2>1 DEF IInv, ErasureTook
<1>d. Accounted'
  <2> SUFFICES ASSUME NEW q \in Ids, ~Assessed(q)'
               PROVE  RepliesAccounted(q)' /\ ReportsAccounted(q)' /\ MarksAccounted(q)'
    BY DEF Accounted
  <2>0. /\ Reports(q)' \subseteq Reports(q) /\ Marks(q)' \subseteq Marks(q)
        /\ ~Assessed(q) /\ q # None
    BY <1>1, <1>2, <1>6 DEF Assessed
  <2>1. CASE q = o
    <3>1. RepliesAccounted(q) /\ ReportsAccounted(q) /\ MarksAccounted(q)
      BY <2>0 DEF IInv, Accounted
    <3>2. ~Mirrors(q, {"events, rows found", "replies", "reports"})
      BY <1>1, <1>5 DEF Mirrors, MirrorPlaces
    <3>3. LeftByMirror(q) => LeftByMirror(q)'
      BY <1>1 DEF LeftByMirror, Deletes
    <3>4. RepliesAccounted(q)'
      BY <1>1, <3>1, <3>2, <3>3 DEF RepliesAccounted, Mirrors
    <3>5. Marks(q)' = {}
      BY <1>6, <2>1
    <3>6. ReportsAccounted(q)'
      BY <2>0, <3>1, <3>2, <3>3 DEF ReportsAccounted, Mirrors
    <3> QED BY <3>4, <3>5, <3>6 DEF MarksAccounted
  <2>2. CASE q # o
    <3>1. \A e \in Ingestions : Deletes[e] = q => at'[e] = at[e]
      BY <1>5, <2>2
    <3>2. \A p \in Erased : at'[p] = at[p]
      BY <1>5
    <3>3. \A m \in Messages : replyTo'[m] = q => replyTo[m] = q
      BY <1>1
    <3>4. Reports(q)' \subseteq Reports(q) /\ Marks(q)' \subseteq Marks(q) /\ ~Assessed(q)
      BY <2>0
    <3> QED BY <1>1, <3>1, <3>2, <3>3, <3>4, StaysAccounted DEF IInv
  <2> QED BY <2>1, <2>2
<1> QED BY <1>5, <1>6, <1>7, <1>a, <1>b, <1>c, <1>d DEF IInv

-----------------------------------------------------------------------------
(* The erasure, pass by pass.                                                 *)

\* While one runs, everybody else is before the fence or through.
LEMMA ErasureMoves ==
  ASSUME IInv, NEW p \in Erased, Behind(p), NEW w \in ErasurePlaces,
         \/ MovesTo(p, w) /\ inside' = inside /\ door' = door
         \/ Leave(p, w) /\ w = "done"
  PROVE  /\ InPlace' /\ Alone' /\ AtDoor'
         /\ at'[p] = w
         /\ \A e \in Erased : e # p => at'[e] = at[e] /\ at[e] \in {"idle", "fence", "done"}
         /\ \A d \in Ingestions : at'[d] = at[d] /\ at[d] \in {"idle", "fence", "done"}
         /\ scene' = scene => ScanStands'
<1>1. /\ inside = {p} /\ p \in Actors /\ p \notin Calls /\ p \notin Ingestions
      /\ \A b \in Actors : b # p => at[b] \in {"idle", "fence", "done"}
  BY ByFence
<1>2. Calls \subseteq Actors /\ Ingestions \subseteq Actors /\ Erased \subseteq Actors
  BY Cast DEF IInv
<1>3. /\ InPlace' /\ Alone' /\ AtDoor'
      /\ \A b \in Actors : at'[b] = IF b = p THEN w ELSE at[b]
  <2>1. CASE MovesTo(p, w) /\ inside' = inside /\ door' = door
    BY <1>1, <2>1, PassHolds
  <2>2. CASE Leave(p, w) /\ w = "done"
    BY <1>1, <2>2, LeaveHolds
  <2> QED BY <2>1, <2>2
<1>4. ScanStands'
  BY <1>1, <1>2, <1>3 DEF ScanStands
<1> QED BY <1>1, <1>2, <1>3, <1>4

LEMMA ErasesRepliesKeeps == ASSUME IInv, NEW p \in Erased, ErasesReplies(p) PROVE IInv'
<1>0. FilingType
  BY DEF IInv
<1>2. /\ None \notin Ids /\ Deletes \in [Ingestions -> Ids \cup {None}]
      /\ Ids = Messages \cup Joins /\ Messages \cap Joins = {} /\ Author \in [Messages -> People]
  BY <1>0, Cast
<1>1. /\ UNCHANGED <<scene, stored, present, filings, verdict, cutShort, inside, door>>
      /\ at[p] = "replies" /\ MovesTo(p, "reports") /\ Behind(p)
  BY DEF ErasesReplies, Moves, holds, MovesTo, Behind
<1>5. /\ at'[p] = "reports"
      /\ InPlace' /\ Alone' /\ AtDoor' /\ ScanStands'
      /\ \A e \in Erased : e # p => at'[e] = at[e] /\ at[e] \in {"idle", "fence", "done"}
      /\ \A d \in Ingestions : at'[d] = at[d] /\ at[d] \in {"idle", "fence", "done"}
  BY <1>1, ErasureMoves DEF ErasurePlaces
<1>6. /\ replyTo' \in [Messages -> Ids \cup {None}]
      /\ \A m \in Messages : replyTo'[m] # None =>
            replyTo'[m] = replyTo[m] /\ ~Wrote(p, replyTo[m])
  BY <1>0 DEF FilingType, ErasesReplies
<1>7. FilingType'
  BY <1>0, <1>1, <1>5, <1>6 DEF FilingType, InPlace
<1>8. NoTwo' /\ Attributed'
  BY <1>1 DEF IInv, NoTwo, Attributed, Tool
<1>a. MirrorTook'
  BY <1>1, <1>5 DEF IInv, MirrorTook, Deletes, Assessed
<1>b. FoundFirst'
  BY <1>5 DEF FoundFirst, Underway
<1>c. ErasureTook'
  <2>1. ~Wrote(p, None)
    BY <1>0, <1>2 DEF Wrote, FilingType
  <2>2. \A o : Wrote(p, o)' <=> Wrote(p, o)
    BY <1>1 DEF Wrote
  <2>3. \A m \in Messages : ~Wrote(p, replyTo[m])'
    BY <1>1, <1>6, <2>1 DEF Wrote
  <2> QED BY <1>1, <1>5, <2>3 DEF IInv, ErasureTook
<1>d. Accounted'
  <2> SUFFICES ASSUME NEW q \in Ids, ~Assessed(q)'
               PROVE  RepliesAccounted(q)' /\ ReportsAccounted(q)' /\ MarksAccounted(q)'
    BY DEF Accounted
  <2>1. /\ Reports(q)' = Reports(q) /\ Marks(q)' = Marks(q) /\ ~Assessed(q) /\ q # None
        /\ \A m \in Messages : replyTo'[m] = q => replyTo[m] = q
    BY <1>1, <1>2, <1>6 DEF Reports, Marks, Tool, Assessed
  <2>2. \A e \in Erased : e # p => at'[e] = at[e]
    BY <1>5
  <2>3. \A d \in Ingestions : at'[d] = at[d]
    BY <1>5
  <2> QED BY <1>1, <1>5, <2>1, <2>2, <2>3, StaysAccounted DEF IInv
<1> QED BY <1>5, <1>7, <1>8, <1>a, <1>b, <1>c, <1>d DEF IInv

LEMMA ErasesReportsKeeps == ASSUME IInv, NEW p \in Erased, ErasesReports(p) PROVE IInv'
<1>0. FilingType
  BY DEF IInv
<1>2. /\ None \notin Ids /\ Deletes \in [Ingestions -> Ids \cup {None}]
      /\ Ids = Messages \cup Joins /\ Messages \cap Joins = {} /\ Author \in [Messages -> People]
  BY <1>0, Cast
<1> DEFINE G == {f \in filings : Tool[f.by] = "report" /\ Wrote(p, f.target)}
<1>1. /\ UNCHANGED <<scene, stored, present, replyTo, verdict, cutShort, inside, door>>
      /\ at[p] = "reports" /\ MovesTo(p, "content") /\ Behind(p) /\ filings' = Nulled(G)
  BY DEF ErasesReports, Moves, holds, MovesTo, Behind
<1>5. /\ at'[p] = "content"
      /\ InPlace' /\ Alone' /\ AtDoor' /\ ScanStands'
      /\ \A e \in Erased : e # p => at'[e] = at[e] /\ at[e] \in {"idle", "fence", "done"}
      /\ \A d \in Ingestions : at'[d] = at[d] /\ at[d] \in {"idle", "fence", "done"}
  BY <1>1, ErasureMoves DEF ErasurePlaces
<1> HIDE DEF G
<1>6. /\ filings' \subseteq [by : Calls, target : Ids \cup {None}, person : People \cup {None}]
      /\ NoTwo' /\ Attributed'
      /\ \A f \in filings' : f.target # None => f \in filings /\ f \notin G
      /\ \A f \in filings' : \E g \in filings :
            f.by = g.by /\ f.person = g.person /\ ((f = g /\ g \notin G) \/ f.target = None)
      /\ \A q \in Ids : Reports(q)' \subseteq Reports(q) \ G /\ Marks(q)' \subseteq Marks(q) \ G
  BY <1>0, <1>1, NullingKeeps DEF IInv
<1>7. FilingType'
  BY <1>0, <1>1, <1>5, <1>6 DEF FilingType, InPlace
<1>a. MirrorTook'
  BY <1>1, <1>5 DEF IInv, MirrorTook, Deletes, Assessed
<1>b. FoundFirst'
  BY <1>5 DEF FoundFirst, Underway
<1>c. ErasureTook'
  <2>1. \A e \in Erased : at[e] = "done" => \A f \in filings' : f.person = e => f.target = None
    BY <1>6 DEF IInv, ErasureTook
  <2>2. \A f \in filings' : Tool[f.by] = "report" => ~Wrote(p, f.target)
    <3>1. ~Wrote(p, None)
      BY <1>0, <1>2 DEF Wrote, FilingType
    <3> QED BY <1>6, <3>1 DEF G
  <2>3. \A m \in Messages : ~Wrote(p, replyTo[m])
    BY <1>1 DEF IInv, ErasureTook
  <2>4. \A o : Wrote(p, o)' <=> Wrote(p, o)
    BY <1>1 DEF Wrote
  <2>5. Tool' = Tool /\ replyTo' = replyTo /\ stored' = stored /\ present' = present
    BY <1>1 DEF Tool
  <2>6. \A f \in filings' : Tool'[f.by] = "report" => ~Wrote(p, f.target)'
    BY <2>2, <2>4, <2>5
  <2>7. (\A m \in Messages : ~Wrote(p, replyTo[m]))'
    BY <2>3, <2>4, <2>5
  <2>8. ErasureTook
    BY DEF IInv
  <2> QED BY <1>5, <2>1, <2>5, <2>6, <2>7, <2>8 DEF ErasureTook
<1>d. Accounted'
  <2> SUFFICES ASSUME NEW q \in Ids, ~Assessed(q)'
               PROVE  RepliesAccounted(q)' /\ ReportsAccounted(q)' /\ MarksAccounted(q)'
    BY DEF Accounted
  <2>1. /\ Reports(q)' \subseteq Reports(q) /\ Marks(q)' \subseteq Marks(q)
        /\ ~Assessed(q) /\ replyTo' = replyTo
    BY <1>1, <1>6 DEF Assessed
  <2>2. \A e \in Erased : e # p => at'[e] = at[e]
    BY <1>5
  <2>3. \A d \in Ingestions : at'[d] = at[d]
    BY <1>5
  <2> QED BY <1>1, <1>5, <2>1, <2>2, <2>3, StaysAccounted DEF IInv
<1> QED BY <1>5, <1>6, <1>7, <1>a, <1>b, <1>c, <1>d DEF IInv

LEMMA ErasesContentKeeps == ASSUME IInv, NEW p \in Erased, ErasesContent(p) PROVE IInv'
<1>0. FilingType
  BY DEF IInv
<1>2. /\ None \notin Ids /\ Deletes \in [Ingestions -> Ids \cup {None}]
      /\ Ids = Messages \cup Joins /\ Messages \cap Joins = {} /\ Author \in [Messages -> People]
  BY <1>0, Cast
<1>1. /\ UNCHANGED <<scene, present, filings, verdict, cutShort, inside, door>>
      /\ at[p] = "content" /\ MovesTo(p, "joins") /\ Behind(p)
      /\ stored' = {m \in stored : Author[m] # p}
  BY DEF ErasesContent, Moves, holds, MovesTo, Behind
<1>5. /\ at'[p] = "joins"
      /\ InPlace' /\ Alone' /\ AtDoor' /\ ScanStands'
      /\ \A e \in Erased : e # p => at'[e] = at[e] /\ at[e] \in {"idle", "fence", "done"}
      /\ \A d \in Ingestions : at'[d] = at[d] /\ at[d] \in {"idle", "fence", "done"}
  BY <1>1, ErasureMoves DEF ErasurePlaces
<1>6. /\ replyTo' \in [Messages -> Ids \cup {None}]
      /\ \A m \in Messages : replyTo'[m] # None => replyTo'[m] = replyTo[m]
  BY <1>0 DEF FilingType, ErasesContent
<1>7. FilingType'
  BY <1>0, <1>1, <1>5, <1>6 DEF FilingType, InPlace
<1>8. NoTwo' /\ Attributed'
  BY <1>1 DEF IInv, NoTwo, Attributed, Tool
<1>9. \A q : Assessed(q)' => Assessed(q)
  BY <1>1 DEF Assessed
<1>10. /\ \A m \in Messages : ~Wrote(p, replyTo[m])
       /\ \A f \in filings : Tool[f.by] = "report" => ~Wrote(p, f.target)
  BY <1>1 DEF IInv, ErasureTook
<1>a. MirrorTook'
  BY <1>1, <1>5, <1>9 DEF IInv, MirrorTook, Deletes
<1>b. FoundFirst'
  BY <1>5 DEF FoundFirst, Underway
<1>c. ErasureTook'
  <2>1. /\ \A o : Wrote(p, o)' => Wrote(p, o)
        /\ ~Wrote(p, None)
    BY <1>0, <1>1, <1>2 DEF Wrote, FilingType
  <2>2. (\A m \in Messages : ~Wrote(p, replyTo[m]))'
    BY <1>6, <1>10, <2>1
  <2>3. Tool' = Tool /\ filings' = filings /\ present' = present
    BY <1>1 DEF Tool
  <2>4. \A f \in filings' : Tool'[f.by] = "report" => ~Wrote(p, f.target)'
    BY <1>10, <2>1, <2>3
  <2>5. stored' \subseteq stored /\ \A m \in stored' : Author[m] # p
    BY <1>1
  <2>6. ErasureTook
    BY DEF IInv
  <2> QED BY <1>5, <2>2, <2>3, <2>4, <2>5, <2>6 DEF ErasureTook
<1>d. Accounted'
  <2> SUFFICES ASSUME NEW q \in Ids, ~Assessed(q)'
               PROVE  RepliesAccounted(q)' /\ ReportsAccounted(q)' /\ MarksAccounted(q)'
    BY DEF Accounted
  <2>0. /\ Reports(q)' = Reports(q) /\ Marks(q)' = Marks(q) /\ q # None
        /\ \A m \in Messages : replyTo'[m] = q => replyTo[m] = q
    BY <1>1, <1>2, <1>6 DEF Reports, Marks, Tool
  <2>1. CASE ~Assessed(q)
    <3>2. \A e \in Erased : e # p => at'[e] = at[e]
      BY <1>5
    <3>3. \A d \in Ingestions : at'[d] = at[d]
      BY <1>5
    <3> QED BY <1>1, <1>5, <2>0, <2>1, <3>2, <3>3, StaysAccounted DEF IInv
  <2>2. CASE Assessed(q)
    <3>1. q \in stored /\ q \in Messages /\ Author[q] = p /\ Wrote(p, q)
      BY <1>0, <1>1, <2>2 DEF Assessed, FilingType, Wrote
    <3>2. RepliesAccounted(q)'
      BY <1>10, <2>0, <3>1 DEF RepliesAccounted
    <3>3. ReportsAccounted(q)'
      BY <1>10, <2>0, <3>1 DEF ReportsAccounted, Reports
    <3>4. \A d \in Ingestions : Deletes[d] = q => at[d] # "done"
      BY <2>0, <2>2 DEF IInv, MirrorTook
    <3>5. \A d \in Ingestions : Deletes'[d] = q => at'[d] # "done"
      BY <1>1, <1>5, <3>4 DEF Deletes
    <3>6. MarksAccounted(q)'
      BY <1>5, <3>1, <3>5 DEF MarksAccounted, ErasureOwes
    <3> QED BY <3>2, <3>3, <3>6
  <2> QED BY <2>1, <2>2
<1> QED BY <1>5, <1>7, <1>8, <1>a, <1>b, <1>c, <1>d DEF IInv

LEMMA ErasesJoinsKeeps == ASSUME IInv, NEW p \in Erased, ErasesJoins(p) PROVE IInv'
<1>0. FilingType
  BY DEF IInv
<1>2. /\ None \notin Ids /\ Deletes \in [Ingestions -> Ids \cup {None}]
      /\ Ids = Messages \cup Joins /\ Messages \cap Joins = {} /\ Author \in [Messages -> People]
  BY <1>0, Cast
<1>1. /\ UNCHANGED <<scene, stored, replyTo, filings, verdict, cutShort, inside, door>>
      /\ at[p] = "joins" /\ MovesTo(p, "named") /\ Behind(p)
      /\ present' = [j \in Joins |-> present[j] \ {p}]
  BY DEF ErasesJoins, Moves, holds, MovesTo, Behind
<1>5. /\ at'[p] = "named"
      /\ InPlace' /\ Alone' /\ AtDoor' /\ ScanStands'
      /\ \A e \in Erased : e # p => at'[e] = at[e] /\ at[e] \in {"idle", "fence", "done"}
      /\ \A d \in Ingestions : at'[d] = at[d] /\ at[d] \in {"idle", "fence", "done"}
  BY <1>1, ErasureMoves DEF ErasurePlaces
<1>6. /\ present' \in [Joins -> SUBSET People]
      /\ \A j \in Joins : present'[j] = present[j] \ {p}
  BY <1>0, <1>1 DEF FilingType
<1>7. FilingType'
  BY <1>0, <1>1, <1>5, <1>6 DEF FilingType, InPlace
<1>8. NoTwo' /\ Attributed'
  BY <1>1 DEF IInv, NoTwo, Attributed, Tool
<1>9. \A q : Assessed(q)' => Assessed(q)
  BY <1>1, <1>6 DEF Assessed
<1>10. /\ \A m \in Messages : ~Wrote(p, replyTo[m])
       /\ \A f \in filings : Tool[f.by] = "report" => ~Wrote(p, f.target)
  BY <1>1 DEF IInv, ErasureTook
<1>a. MirrorTook'
  BY <1>1, <1>5, <1>9 DEF IInv, MirrorTook, Deletes
<1>b. FoundFirst'
  BY <1>5 DEF FoundFirst, Underway
<1>c. ErasureTook'
  BY <1>1, <1>5, <1>6 DEF IInv, ErasureTook
<1>d. Accounted'
  <2> SUFFICES ASSUME NEW q \in Ids, ~Assessed(q)'
               PROVE  RepliesAccounted(q)' /\ ReportsAccounted(q)' /\ MarksAccounted(q)'
    BY DEF Accounted
  <2>0. /\ Reports(q)' = Reports(q) /\ Marks(q)' = Marks(q) /\ replyTo' = replyTo
    BY <1>1 DEF Reports, Marks, Tool
  <2>1. CASE ~Assessed(q)
    <3>2. \A e \in Erased : e # p => at'[e] = at[e]
      BY <1>5
    <3>3. \A d \in Ingestions : at'[d] = at[d]
      BY <1>5
    <3> QED BY <1>1, <1>5, <2>0, <2>1, <3>2, <3>3, StaysAccounted DEF IInv
  <2>2. CASE Assessed(q)
    <3>1. q \in Joins /\ Wrote(p, q)
      BY <1>1, <1>6, <2>2 DEF Assessed, Wrote
    <3>2. RepliesAccounted(q)'
      BY <1>10, <2>0, <3>1 DEF RepliesAccounted
    <3>3. ReportsAccounted(q)'
      BY <1>10, <2>0, <3>1 DEF ReportsAccounted, Reports
    <3>4. Marks(q) = {}
      BY <1>2, <3>1 DEF IInv, Attributed, Marks
    <3> QED BY <2>0, <3>2, <3>3, <3>4 DEF MarksAccounted
  <2> QED BY <2>1, <2>2
<1> QED BY <1>5, <1>7, <1>8, <1>a, <1>b, <1>c, <1>d DEF IInv

LEMMA ErasesNamedKeeps == ASSUME IInv, NEW p \in Erased, ErasesNamed(p) PROVE IInv'
<1>0. FilingType
  BY DEF IInv
<1>2. /\ None \notin Ids /\ Deletes \in [Ingestions -> Ids \cup {None}]
      /\ Ids = Messages \cup Joins /\ Messages \cap Joins = {} /\ Author \in [Messages -> People]
  BY <1>0, Cast
<1> DEFINE G == {g \in filings : g.person = p}
<1>1. /\ UNCHANGED <<scene, stored, present, replyTo, verdict, cutShort>>
      /\ at[p] = "named" /\ Leave(p, "done") /\ Behind(p) /\ filings' \subseteq Nulled(G)
  BY DEF ErasesNamed, Behind
<1>5. /\ at'[p] = "done"
      /\ InPlace' /\ Alone' /\ AtDoor' /\ ScanStands'
      /\ \A e \in Erased : e # p => at'[e] = at[e] /\ at[e] \in {"idle", "fence", "done"}
      /\ \A d \in Ingestions : at'[d] = at[d] /\ at[d] \in {"idle", "fence", "done"}
  BY <1>1, ErasureMoves DEF ErasurePlaces
<1> HIDE DEF G
<1>6. /\ filings' \subseteq [by : Calls, target : Ids \cup {None}, person : People \cup {None}]
      /\ NoTwo' /\ Attributed'
      /\ \A f \in filings' : \E g \in filings :
            f.by = g.by /\ f.person = g.person /\ ((f = g /\ g \notin G) \/ f.target = None)
      /\ \A q \in Ids : Reports(q)' \subseteq Reports(q) \ G /\ Marks(q)' \subseteq Marks(q) \ G
  BY <1>0, <1>1, NullingKeeps DEF IInv
<1>7. FilingType'
  BY <1>0, <1>1, <1>5, <1>6 DEF FilingType, InPlace
<1>a. MirrorTook'
  BY <1>1, <1>5 DEF IInv, MirrorTook, Deletes, Assessed
<1>b. FoundFirst'
  BY <1>5 DEF FoundFirst, Underway
<1>c. ErasureTook'
  <2>1. \A e \in Erased : at[e] = "done" => \A f \in filings' : f.person = e => f.target = None
    BY <1>6 DEF IInv, ErasureTook
  <2>2. \A f \in filings' : f.person = p => f.target = None
    BY <1>6 DEF G
  <2>3. /\ \A m \in stored : Author[m] # p
        /\ \A j \in Joins : p \notin present[j]
    BY <1>1 DEF IInv, ErasureTook
  <2> QED BY <1>1, <1>5, <2>1, <2>2, <2>3 DEF IInv, ErasureTook
<1>d. Accounted'
  <2> SUFFICES ASSUME NEW q \in Ids, ~Assessed(q)'
               PROVE  RepliesAccounted(q)' /\ ReportsAccounted(q)' /\ MarksAccounted(q)'
    BY DEF Accounted
  <2>0. /\ Reports(q)' \subseteq Reports(q) /\ Marks(q)' \subseteq Marks(q)
        /\ ~Assessed(q) /\ replyTo' = replyTo
    BY <1>1, <1>6 DEF Assessed
  <2>1. \A e \in Erased : e # p => at'[e] = at[e]
    BY <1>5
  <2>2. \A d \in Ingestions : at'[d] = at[d]
    BY <1>5
  <2>3. CASE ~(q \in Messages /\ Author[q] = p)
    <3>1. RepliesAccounted(q) /\ ReportsAccounted(q) /\ MarksAccounted(q)
      BY <2>0 DEF IInv, Accounted
    <3>2. RepliesAccounted(q)' /\ ReportsAccounted(q)'
      BY <1>1, <2>0, <2>2, <3>1, StaysNulled
    <3>3. ErasureOwes(q) => ErasureOwes(q)'
      BY <1>1, <2>1, <2>2, <2>3, StaysOwed DEF ErasureOwes
    <3>4. MarksAccounted(q)'
      BY <1>1, <2>0, <2>2, <3>1, <3>3, StaysMarked
    <3> QED BY <3>2, <3>4
  <2>4. CASE q \in Messages /\ Author[q] = p
    <3>1. RepliesAccounted(q) /\ ReportsAccounted(q)
      BY <2>0 DEF IInv, Accounted
    <3>2. RepliesAccounted(q)' /\ ReportsAccounted(q)'
      BY <1>1, <2>0, <2>2, <3>1, StaysNulled
    <3>3. Marks(q) \subseteq G
      BY <2>4 DEF IInv, Attributed, Marks, G
    <3>4. Marks(q)' = {}
      BY <1>6, <3>3
    <3> QED BY <3>2, <3>4 DEF MarksAccounted
  <2> QED BY <2>3, <2>4
<1> QED BY <1>5, <1>6, <1>7, <1>a, <1>b, <1>c, <1>d DEF IInv

-----------------------------------------------------------------------------
(* The invariant.                                                             *)

LEMMA InitHolds == ASSUME Init PROVE IInv
<1>1. /\ scene \in Scenes /\ stored = Messages /\ present = Joined /\ replyTo = RepliesTo
      /\ filings = {} /\ cutShort = [mirror |-> 0, erasure |-> 0] /\ inside = {}
      /\ verdict = [c \in Calls |-> None]
      /\ at \in [Actors -> {"idle"}]
      /\ \A a \in Actors : at[a] = "idle"
  BY DEF Init
<1>2. FilingType
  BY <1>1, FilingAssumption
  DEF FilingType, CallPlaces, IngestionPlaces, ErasurePlaces, Actors
<1>3. Calls \subseteq Actors /\ Ingestions \subseteq Actors /\ Erased \subseteq Actors
  BY DEF Actors
<1>4. Alone /\ AtDoor /\ ScanStands
  BY <1>1, <1>3 DEF Alone, Behind, AtDoor, ScanStands, MirrorPlaces
<1>5. NoTwo /\ Attributed /\ MirrorTook /\ FoundFirst
  BY <1>1, <1>3 DEF NoTwo, Attributed, MirrorTook, FoundFirst, Underway
<1>6. ErasureTook
  BY <1>1, <1>3 DEF ErasureTook
<1>7. Accounted
  <2> SUFFICES ASSUME NEW o \in Ids, ~Assessed(o)
               PROVE  RepliesAccounted(o) /\ ReportsAccounted(o) /\ MarksAccounted(o)
    BY DEF Accounted
  <2>1. FALSE
    <3>1. /\ Joined \in [Joins -> (SUBSET People) \ {{}}] /\ Ids = Messages \cup Joins
      BY FilingAssumption DEF Ids
    <3>2. CASE o \in Messages
      BY <1>1, <3>2 DEF Assessed
    <3>3. CASE o \in Joins
      BY <1>1, <3>1, <3>3 DEF Assessed
    <3> QED BY <3>1, <3>2, <3>3
  <2> QED BY <2>1
<1> QED BY <1>2, <1>4, <1>5, <1>6, <1>7 DEF IInv

LEMMA NextKeeps == ASSUME IInv, [Next]_vars PROVE IInv'
<1>1. Calls \subseteq Actors /\ Ingestions \subseteq Actors /\ Erased \subseteq Actors
  BY DEF Actors
<1>2. ASSUME NEW c \in Calls, CallStep(c) PROVE IInv'
  BY <1>1, <1>2, AskKeeps, EnterFenceKeeps, TakeDoorKeeps, ScanKeeps, FileKeeps DEF CallStep
<1>3. ASSUME NEW d \in Ingestions, IngestStep(d) PROVE IInv'
  <2>1. CASE Mirror(d)
    BY <2>1, MirrorMessageKeeps, MirrorEventKeeps, MirrorRepliesKeeps, MirrorReportsKeeps,
       MirrorMarksKeeps DEF Mirror
  <2> QED BY <1>1, <1>3, <2>1, AskKeeps, EnterFenceKeeps, TakeStampKeeps, TakeDoorKeeps,
             RecordKeeps DEF IngestStep
<1>4. ASSUME NEW p \in Erased, ErasureStep(p) PROVE IInv'
  BY <1>1, <1>4, AskKeeps, EnterFenceKeeps, SettleKeeps, ErasesRepliesKeeps, ErasesReportsKeeps,
     ErasesContentKeeps, ErasesJoinsKeeps, ErasesNamedKeeps DEF ErasureStep
<1>5. CASE UNCHANGED vars
  <2>1. UNCHANGED <<scene, stored, present, replyTo, filings, at, verdict, cutShort, inside, door>>
    BY <1>5 DEF vars, rows, holds
  <2>2. NoTwo' /\ Attributed' /\ MirrorTook' /\ FoundFirst' /\ ErasureTook' /\ Accounted'
    BY <2>1, LedgerStays
  <2>3. ScanStands'
    BY <2>1, ScanStays
  <2>4. FilingType' /\ Alone' /\ AtDoor'
    BY <2>1 DEF IInv, FilingType, Alone, AtDoor, Behind
  <2> QED BY <2>2, <2>3, <2>4 DEF IInv
<1> QED BY <1>2, <1>3, <1>4, <1>5, MirrorFailsKeeps, ErasureFailsKeeps DEF Next

LEMMA Invariant == Spec => []IInv
<1>1. Init => IInv
  BY InitHolds
<1>2. IInv /\ [Next]_vars => IInv'
  BY NextKeeps
<1> QED BY <1>1, <1>2, PTL DEF Spec

-----------------------------------------------------------------------------
(* The theorems.                                                              *)

\* Type correctness: scene, rows, filings and places stay in their ranges,
\* whatever calls, mirrors and erasures interleave.
THEOREM TypeCorrect == Spec => []FilingType
<1>1. IInv => FilingType
  BY DEF IInv
<1> QED BY <1>1, Invariant, PTL

LEMMA AtMostOne ==
  ASSUME NEW S, \A f, g \in S : f = g
  PROVE  Cardinality(S) <= 1
<1>1. CASE S = {}
  BY <1>1, FS_EmptySet
<1>2. ASSUME NEW f \in S PROVE Cardinality(S) <= 1
  <2>1. S = {f}
    BY <1>2
  <2>2. Cardinality(S) = 1
    BY <2>1, FS_Singleton
  <2> QED BY <2>2
<1> QED BY <1>1, <1>2

\* An id stands in one mark and one report at most: filing.rs's door is enough,
\* for any number of calls.
THEOREM OneFiling == Spec => []OneFilingEach
<1>1. IInv => OneFilingEach
  <2> SUFFICES ASSUME IInv, NEW o \in Ids
               PROVE  Cardinality(Marks(o)) <= 1 /\ Cardinality(Reports(o)) <= 1
    BY DEF OneFilingEach
  <2>1. o # None /\ NoTwo
    BY Cast DEF IInv
  <2>2. /\ \A f, g \in Marks(o) : f = g
        /\ \A f, g \in Reports(o) : f = g
    BY <2>1 DEF NoTwo, Marks, Reports
  <2> QED BY <2>2, AtMostOne
<1> QED BY <1>1, Invariant, PTL

\* No step files a mark on a message a report of which stands: what the scan of
\* mark.rs saw is so at its append.
THEOREM NoMarkBeside == Spec => NoMarkBesideReport
<1> DEFINE Step == \A f \in filings' \ filings :
                     (Tool[f.by] = "react" /\ f.target # None) => Reports(f.target) = {}
<1>1. IInv /\ [Next]_vars => [Step]_vars
  <2> SUFFICES ASSUME IInv, Next PROVE Step
    OBVIOUS
  <2>0. FilingType /\ NoTwo /\ Attributed
    BY DEF IInv
  <2>1. ASSUME UNCHANGED filings PROVE Step
    BY <2>1
  <2>2. ASSUME scene' = scene, NEW G, filings' \subseteq Nulled(G) PROVE Step
    <3>1. \A f \in filings' : f.target # None => f \in filings /\ f \notin G
      BY <2>0, <2>2, NullingKeeps
    <3> QED BY <3>1
  <2>3. ASSUME NEW c \in Calls, File(c) PROVE Step
    <3>1. CASE filings' = filings \cup {[by |-> c, target |-> Names[c], person |-> verdict[c]]}
      <4>1. Reports(Names[c]) = {}
        BY <2>3 DEF IInv, ScanStands, File
      <4> QED BY <3>1, <4>1
    <3> QED BY <2>1, <2>3, <3>1 DEF File
  <2>4. ASSUME NEW c \in Calls, CallStep(c) PROVE Step
    BY <2>1, <2>3, <2>4 DEF CallStep, Ask, EnterFence, TakeDoor, Scan, rows
  <2>5. ASSUME NEW d \in Ingestions, IngestStep(d) \/ MirrorFails(d) PROVE Step
    <3>1. CASE MirrorReports(d)
      BY <2>2, <3>1 DEF MirrorReports
    <3>2. CASE MirrorMarks(d)
      BY <2>2, <3>2 DEF MirrorMarks
    <3> QED BY <2>1, <2>5, <3>1, <3>2
            DEF IngestStep, Mirror, Ask, EnterFence, TakeStamp, TakeDoor, MirrorMessage,
                MirrorEvent, MirrorReplies, Record, MirrorFails, rows
  <2>6. ASSUME NEW p \in Erased, ErasureStep(p) \/ ErasureFails(p) PROVE Step
    <3>1. CASE ErasesReports(p)
      BY <2>2, <3>1 DEF ErasesReports
    <3>2. CASE ErasesNamed(p)
      <4>1. filings' \subseteq Nulled({g \in filings : g.person = p}) /\ scene' = scene
        BY <3>2 DEF ErasesNamed
      <4> QED BY <2>2, <4>1
    <3> QED BY <2>1, <2>6, <3>1, <3>2
            DEF ErasureStep, Ask, EnterFence, Settle, ErasesReplies, ErasesContent, ErasesJoins,
                ErasureFails, rows
  <2> QED BY <2>4, <2>5, <2>6 DEF Next
<1> QED BY <1>1, Invariant, PTL DEF Spec, NoMarkBesideReport

\* What was taken back is named no more, by a deletion that was served or by an
\* erasure that concluded: the passes of erasure.rs and of the mirror reach
\* every reply, report and mark, and no call files behind them.
THEOREM NamesAreGone == Spec => []NamesGone
<1>1. IInv => NamesGone
  <2> SUFFICES ASSUME IInv PROVE NamesGone
    OBVIOUS
  <2>0. FilingType
    BY DEF IInv
  <2>1. /\ Tool \in [Calls -> {"react", "report"}] /\ None \notin Ids
        /\ Deletes \in [Ingestions -> Ids \cup {None}]
        /\ Messages \subseteq Ids
        /\ filings \subseteq [by : Calls, target : Ids \cup {None}, person : People \cup {None}]
        /\ cutShort.mirror \in Nat /\ cutShort.erasure \in Nat
    BY <2>0, Cast DEF FilingType
  <2>2. ASSUME NEW o \in Ids, Marks(o) = {}, Reports(o) = {}, \A m \in Messages : replyTo[m] # o
        PROVE  ~Named(o)
    BY <2>1, <2>2 DEF Named, Marks, Reports
  <2>3. ASSUME NEW d \in Ingestions, at[d] = "done", Deletes[d] # None, cutShort.mirror = 0,
               cutShort.erasure = 0 \/ \A p \in Erased : at[p] = "done"
        PROVE  ~Named(Deletes[d])
    <3>1. PICK o \in Ids : o = Deletes[d]
      BY <2>1, <2>3
    <3>2. ~Assessed(o)
      BY <2>3, <3>1 DEF IInv, MirrorTook
    <3>3. \A e \in Ingestions : Deletes[e] = o => at[e] \notin Underway
      BY <2>3, <3>1 DEF IInv, FoundFirst
    <3>4. ~LeftByMirror(o)
      BY <2>3 DEF LeftByMirror
    <3>5. ~ErasureOwes(o)
      BY <2>3, <3>1 DEF ErasureOwes
    <3>6. Marks(o) = {} /\ Reports(o) = {} /\ \A m \in Messages : replyTo[m] # o
      BY <3>2, <3>3, <3>4, <3>5
      DEF IInv, Accounted, RepliesAccounted, ReportsAccounted, MarksAccounted, Mirrors, Underway
    <3> QED BY <2>2, <3>1, <3>6
  <2>4. ASSUME NEW p \in Erased, at[p] = "done", NEW m \in Messages, Author[m] = p,
               ~LeftByMirror(m)
        PROVE  ~Named(m)
    <3>1. m \in Ids /\ ~Assessed(m)
      <4>1. m \notin stored /\ m \notin Joins
        BY <2>0, <2>4, Cast DEF IInv, ErasureTook
      <4> QED BY <2>1, <4>1 DEF Assessed
    <3>2. \A e \in Ingestions : Deletes[e] = m => at[e] \notin Underway
      BY <2>4 DEF IInv, FoundFirst
    <3>3. ~ErasureOwes(m)
      BY <2>4 DEF ErasureOwes
    <3>4. Marks(m) = {} /\ Reports(m) = {} /\ \A k \in Messages : replyTo[k] # m
      BY <2>4, <3>1, <3>2, <3>3
      DEF IInv, Accounted, RepliesAccounted, ReportsAccounted, MarksAccounted, Mirrors, Underway
    <3> QED BY <2>2, <3>1, <3>4
  <2>5. \A p \in Erased : at[p] = "done" => \A f \in filings : f.person = p => f.target = None
    BY DEF IInv, ErasureTook
  <2> QED BY <2>3, <2>4, <2>5 DEF NamesGone
<1> QED BY <1>1, Invariant, PTL
===============================================================================
