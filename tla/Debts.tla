--------------------------------- MODULE Debts ---------------------------------
(* Who is owed an answer in one conversation, and by whose authority a turn   *)
(* acts (core: kind.rs Stamp and the walk past transparent rows, assembly.rs  *)
(* owing_tail_debt and ingest, tools/provenance.rs).  Every message is        *)
(* stamped against the tail it is written behind: a summons opens a debt, and *)
(* a message behind a debt carries it on.  The runtime, which is external,    *)
(* drives a turn over the newest debt and writes its blocks outside the       *)
(* ingestion's lock; a turn that closes or errs leaves a marker instead of an *)
(* answer.  A tool call is admitted at the minimum over the turn's summoners. *)
EXTENDS Naturals, Sequences, FiniteSets, FiniteSetsExt

CONSTANTS
    Writers,         \* ingestions that may be under way at once
    Authorities,     \* standings in order, the lowest FLOOR
    MaxLedger,       \* bound: blocks of the conversation
    MaxEach          \* bound: erased messages, and asides, in it

FLOOR == 1

ASSUME DebtsAssumption ==
    /\ {MaxLedger, MaxEach} \subseteq Nat
    /\ Authorities \subseteq Nat /\ FLOOR \in Authorities
    /\ \A authority \in Authorities : FLOOR <= authority

VARIABLES
    ledger,          \* its blocks: [kind, authority, own, due, debt, erased, anchor]
    turn,            \* the anchor of the live turn; 0 for none
    writing          \* the message each ingestion holds a stamp for, or none

debtVars == <<ledger, turn, writing>>

NoBlock  == [kind |-> "none", authority |-> FLOOR, own |-> FALSE, due |-> FALSE,
          debt |-> 0, erased |-> FALSE, anchor |-> 0]
Block(kind, anchor) == [NoBlock EXCEPT !.kind = kind, !.anchor = anchor]

DebtsInit == ledger = <<>> /\ turn = 0 /\ writing = [w \in Writers |-> NoBlock]

Blocks == DOMAIN ledger
Chat(i) == ledger[i].kind = "chat"
Grows(block) == Len(ledger) < MaxLedger /\ ledger' = Append(ledger, block)

-----------------------------------------------------------------------------
(* The debt a conversation's tail owes.                                       *)

OwesAnswer(i) == Chat(i) /\ ~ledger[i].erased /\ ledger[i].due

TransparentToTheWalk(i) == ledger[i].erased \/ ~ledger[i].due

(* The kinds written at any moment by others: notes, sends, reports, marks,   *)
(* joins, deliveries, retractions, tool choices, date records.                *)
ReadThrough(i) == ledger[i].kind = "aside"

(* The newest block the walk settles on; 0 for none.                          *)
Tail0 == Max({0} \cup {i \in Blocks : ~ReadThrough(i) /\ ~(Chat(i) /\ TransparentToTheWalk(i))})

(* The authority of the debt the tail owes; 0 for none.                       *)
OwingTailDebt == IF Tail0 # 0 /\ OwesAnswer(Tail0) THEN ledger[Tail0].debt ELSE 0

(* A bot that summons nothing carries nothing, though it reads a debt ahead.  *)
OwedTail(bot, summoned) == IF bot /\ ~summoned THEN 0 ELSE OwingTailDebt

\* Faulty variant: a summons speaks for itself whatever debt it stands behind.
ComposeOwn(authority, summoned, limited, tail) ==
    LET own == summoned /\ ~limited
    IN  [NoBlock EXCEPT !.kind = "chat", !.authority = authority,
           !.own = own, !.due = own \/ tail # 0,
           !.debt = IF own THEN authority ELSE tail]

(* The stamp of a message: a command, and a message a budget refuses, takes   *)
(* no debt of its own; a debt carried on is owed at the lower authority.      *)
Compose(authority, summoned, limited, tail) ==
    LET own == summoned /\ ~limited
    IN  [NoBlock EXCEPT !.kind = "chat", !.authority = authority,
           !.own = own, !.due = own \/ tail # 0,
           !.debt = IF tail # 0 THEN Min({tail, authority})
                    ELSE IF own THEN authority ELSE 0]

StampLock == \A w \in Writers : writing[w] = NoBlock

(* Under the lock the tail and the budgets are read, by one of the writers    *)
(* that are free ...                                                          *)
Stamp(w) ==
    /\ StampLock /\ w = CHOOSE v \in Writers : writing[v] = NoBlock
    /\ \E authority \in Authorities, summoned, limited, bot \in BOOLEAN :
         writing' = [writing EXCEPT ![w] =
            Compose(authority, summoned, limited, OwedTail(bot, summoned))]
    /\ UNCHANGED <<ledger, turn>>

(* ... and the message appended, behind whatever the runtime wrote meanwhile. *)
AppendMessage(w) ==
    /\ writing[w] # NoBlock /\ Grows(writing[w])
    /\ writing' = [writing EXCEPT ![w] = NoBlock]
    /\ UNCHANGED turn

(* An erasure, or a deletion mirrored, takes a message's text, with no        *)
(* ingestion between its reading and its append.                              *)
EraseText ==
    /\ \A w \in Writers : writing[w] = NoBlock
    /\ Cardinality({i \in Blocks : ledger[i].erased}) < MaxEach
    /\ \E i \in Blocks : Chat(i) /\ ~ledger[i].erased
                         /\ ledger' = [ledger EXCEPT ![i].erased = TRUE]
    /\ UNCHANGED <<turn, writing>>

Aside ==
    /\ Cardinality({i \in Blocks : ReadThrough(i)}) < MaxEach
    /\ Grows(Block("aside", 0))
    /\ UNCHANGED <<turn, writing>>

-----------------------------------------------------------------------------
(* The runtime.                                                               *)

(* A closure marker of the same turn, written later, disowns its texts.       *)
TurnDied(i) ==
    \E j \in Blocks : j > i /\ ledger[j].kind = "marker" /\ ledger[j].anchor = ledger[i].anchor

Answered(i) == ledger[i].kind = "text" /\ ~TurnDied(i)

(* A turn is driven over the newest message that owes one.                    *)
Frontier == Max({0} \cup {i \in Blocks : OwesAnswer(i)})

Starts ==
    /\ turn = 0 /\ Frontier # 0
    /\ ~\E i \in Blocks : Answered(i) /\ ledger[i].anchor = Frontier
    /\ turn' = Frontier
    /\ UNCHANGED <<ledger, writing>>

Writes ==
    /\ turn # 0 /\ \E kind \in {"text", "call"} : Grows(Block(kind, turn))
    /\ UNCHANGED <<turn, writing>>

(* It ends with the text it wrote last, or is closed or errs.                 *)
Finishes ==
    /\ turn # 0 /\ turn' = 0
    /\ \/ /\ \E i \in Blocks : ledger[i].kind = "text" /\ ledger[i].anchor = turn
          /\ UNCHANGED ledger
       \/ Grows(Block("marker", turn))
    /\ UNCHANGED writing

DebtsNext ==
    \/ \E w \in Writers : Stamp(w) \/ AppendMessage(w)
    \/ EraseText \/ Aside \/ Starts \/ Writes \/ Finishes

DebtsSpec == DebtsInit /\ [][DebtsNext]_debtVars

-----------------------------------------------------------------------------
(* What a tool call of the live turn is admitted at.                          *)

Taker(i) == Chat(i) /\ ledger[i].own

\* Faulty variant: the walk ends at every text, a dead turn's too.
EndsAtText(i) == ledger[i].kind = "text"

(* The walk back from the anchor ends at a completed answer, and reads        *)
(* through everything else.                                                   *)
ChainEnds(i) == Answered(i)

(* The chain behind the anchor votes, and what was absorbed since lowers it;  *)
(* a chain without a vote reads as the floor.                                 *)
Voting(blocks) == {ledger[i].authority : i \in {j \in blocks : Taker(j)}}

OriginReading ==
    LET end   == Max({0} \cup {i \in 1 .. turn : ChainEnds(i)})
        votes == Voting(end + 1 .. turn)
    IN  IF votes = {} THEN FLOOR ELSE Min(votes)

TurnReading == Min({OriginReading} \cup Voting(turn + 1 .. Len(ledger)))

-----------------------------------------------------------------------------
(* Properties.                                                                *)

Standing(i) ==
    /\ Taker(i) /\ ~ledger[i].erased
    /\ \A j \in Blocks : j > i => ledger[j].kind \in {"chat", "aside"}

(* "Never a lost answer": while nothing but messages and asides follow a      *)
(* summons, the tail owes an answer, at no more than the summoner's authority,*)
(* whatever bots, commands and bystanders wrote and whoever was erased since. *)
DebtStands ==
    \A i \in Blocks :
        Standing(i) => OwingTailDebt # 0 /\ OwingTailDebt <= ledger[i].authority

(* A tool of the live turn is admitted at no more than the standing of anyone *)
(* whose summons no other turn's answer follows: dead turns, erased rows and  *)
(* rows that owe nothing cut nobody out of the minimum.                       *)
AdmittedAtMinimum ==
    turn # 0 => \A i \in Blocks :
        /\ Taker(i)
        /\ ~\E j \in Blocks : j > i /\ Answered(j) /\ ledger[j].anchor # turn
        => TurnReading <= ledger[i].authority
=============================================================================
