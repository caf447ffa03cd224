------------------------------ MODULE Deployments ------------------------------
(* What a chat's session is told of the deployment that serves it, from one   *)
(* start of the process to the next: the start-up walk that forks a session   *)
(* whose system prompt is not the current one or not its first row            *)
(* (retire_stale_channels), the tool choice recorded on a session's first     *)
(* activity of the process, and the notice that its model's older answers     *)
(* were posted as they stand (reconcile_tool_choice).  No transaction spans   *)
(* the writes of either.  A wording stands for the prompt and the model:      *)
(* every door sets both together.  The sends a fork settles are Sending's.    *)
EXTENDS Naturals, Sequences, FiniteSets, FiniteSetsExt, SequencesExt

CONSTANTS
    Deployed,        \* the wordings a deployment may compose
    Ledgers,         \* what earlier builds may have left of the session
    MaxStarts,       \* bound: starts of the process
    MaxSays,         \* bound: messages of this build
    MaxResets        \* bound: compactions

VARIABLES
    ledgers,         \* every conversation's rows, in order; ids as created
    served,          \* the one the chat is mapped to; 0 for none
    wording,         \* of the running deployment
    startup,         \* "down", the steps of the walk, or "serving"
    successor,       \* what the walk is composing; 0 for nothing
    reconciled,      \* choice_reconciled, in memory
    within,          \* the ingestion under the stamp lock: "none", "choice", "message"
    says, resets, starts,
    leftBehind       \* history: the words a repair leaves, or a death with the mapping

deployVars == <<ledgers, served, wording, startup, successor, reconciled, within,
                says, resets, starts, leftBehind>>

(* The rows: a prompt by its wording, a recorded choice (of tools that can    *)
(* send, or of an earlier build's that cannot), the notice, a digest of the   *)
(* rows it retells, an answer that was relayed, a message by its number.      *)
Row(kind, of) == [kind |-> kind, of |-> of, retold |-> {}]
Prompt(w) == Row("prompt", w)
SendingChoice == Row("choice", 1)
OlderChoice == Row("choice", 0)
Notice == Row("notice", 0)
Relayed(n) == Row("relayed", n)
SaidRow(n) == Row("said", n)
Digest(rows) == [Row("digest", 0) EXCEPT !.retold = rows]

WordRows == [kind : {"relayed", "said"}, of : Nat, retold : {{}}]
LedgerRows == WordRows \cup {SendingChoice, OlderChoice, Notice}
                    \cup [kind : {"prompt"}, of : Nat, retold : {{}}]
                    \cup [kind : {"digest"}, of : {0}, retold : SUBSET WordRows]

(* What earlier builds may have left: rows, one prompt among them at most.    *)
(* The notice is this build's; and where the older contract is recorded, no   *)
(* other is, and it stands ahead of a misplaced prompt as its answers do.     *)
OlderContract(l) ==
    OlderChoice \in ToSet(l) =>
        /\ SendingChoice \notin ToSet(l)
        /\ \A i, m \in DOMAIN l : l[i].kind = "relayed" /\ l[m].kind = "prompt" /\ i < m =>
              \E h \in 1 .. m - 1 : l[h] = OlderChoice

ASSUME DeploymentsAssumption ==
    /\ {MaxStarts, MaxSays, MaxResets} \subseteq Nat
    /\ Deployed \subseteq Nat /\ Deployed # {}
    /\ \A l \in Ledgers :
          /\ l \in Seq(LedgerRows) /\ l # <<>> /\ IsInjective(l)
          /\ \A i, j \in DOMAIN l : l[i].kind = "prompt" /\ l[j].kind = "prompt" => i = j
          /\ \A i \in DOMAIN l : l[i].kind = "said" => l[i].of <= MaxSays
          /\ Notice \notin ToSet(l) /\ OlderContract(l)

RowsOf(c) == ToSet(ledgers[c])
Places(c, kind) == {i \in DOMAIN ledgers[c] : ledgers[c][i].kind = kind}
IsWords(row) == row.kind \in {"relayed", "said"}

(* What a reader of some rows has of what was said: the rows themselves, and  *)
(* what a digest among them retells.                                          *)
WordsOf(rows) ==
    {row \in ToSet(rows) : IsWords(row)} \cup UNION {row.retold : row \in ToSet(rows)}

WordsIn(c) == WordsOf(ledgers[c])

DeployInit ==
    /\ ledgers \in {<<l>> : l \in Ledgers} /\ served = 1
    /\ wording = (CHOOSE w \in Deployed : TRUE) /\ startup = "down" /\ successor = 0
    /\ reconciled = {} /\ within = "none" /\ leftBehind = {}
    /\ says = 0 /\ resets = 0 /\ starts = 0

Put(c, row) == ledgers' = [ledgers EXCEPT ![c] = Append(@, row)]

-----------------------------------------------------------------------------
(* The start.                                                                 *)

Boots ==
    /\ startup = "down" /\ starts < MaxStarts /\ starts' = starts + 1
    /\ wording' \in Deployed
    /\ startup' = "walking"
    /\ UNCHANGED <<ledgers, served, successor, reconciled, within, says, resets,
                   leftBehind>>

Dies ==
    /\ startup # "down"
    /\ startup' = "down" /\ reconciled' = {} /\ within' = "none" /\ successor' = 0
    /\ leftBehind' = leftBehind \cup
           (IF startup = "unmapped" THEN WordsIn(successor) ELSE {})
    /\ UNCHANGED <<ledgers, served, wording, says, resets, starts>>

\* Faulty variant: the wording alone is compared.
WordingStands(c) == Prompt(wording) \in RowsOf(c)

StandsAsIs(c) == ledgers[c] = <<>> \/ ledgers[c][1] = Prompt(wording)

Passes ==
    /\ startup = "walking" /\ (served # 0 => StandsAsIs(served))
    /\ startup' = "serving"
    /\ UNCHANGED <<ledgers, served, wording, successor, reconciled, within, says, resets,
                   starts, leftBehind>>

(* The rows a successor takes over: those past the prompt at the head, those  *)
(* ahead of one that is not, or all where there is none.                      *)
Inherited(c) ==
    LET at == Places(c, "prompt")
    IN  CASE at = {} -> ledgers[c]
          [] 1 \in at -> Tail(ledgers[c])
          [] OTHER -> SubSeq(ledgers[c], 1, Min(at) - 1)

(* An empty successor with the current prompt, then the rows ...              *)
Forks ==
    /\ startup = "walking" /\ served # 0 /\ ~StandsAsIs(served)
    /\ ledgers' = Append(ledgers, <<Prompt(wording)>>)
    /\ successor' = Len(ledgers')
    /\ startup' = "cloning"
    /\ UNCHANGED <<served, wording, reconciled, within, says, resets, starts, leftBehind>>

ClonesRows ==
    /\ startup = "cloning"
    /\ ledgers' = [ledgers EXCEPT ![successor] = @ \o Inherited(served)]
    /\ leftBehind' = leftBehind \cup (WordsIn(served) \ WordsOf(Inherited(served)))
    /\ startup' = "composed"
    /\ UNCHANGED <<served, wording, successor, reconciled, within, says, resets, starts>>

(* ... and the mapping, in two writes.                                        *)
Unmaps ==
    /\ startup = "composed"
    /\ served' = 0 /\ startup' = "unmapped"
    /\ UNCHANGED <<ledgers, wording, successor, reconciled, within, says, resets,
                   starts, leftBehind>>

Claims ==
    /\ startup = "unmapped"
    /\ served' = successor /\ successor' = 0 /\ startup' = "walking"
    /\ UNCHANGED <<ledgers, wording, reconciled, within, says, resets, starts, leftBehind>>

-----------------------------------------------------------------------------
(* A message comes in, under the stamp lock to its end.                       *)

(* The chat's first, or its first since the mapping went: prompt and choice   *)
(* are its first rows.                                                        *)
FirstContact ==
    /\ startup = "serving" /\ served = 0
    /\ ledgers' = Append(ledgers, <<Prompt(wording), SendingChoice>>)
    /\ served' = Len(ledgers')
    /\ UNCHANGED <<wording, startup, successor, reconciled, within, says, resets, starts,
                   leftBehind>>

NewestChoice(c) ==
    LET at == Places(c, "choice") IN IF at = {} THEN <<>> ELSE <<ledgers[c][Max(at)]>>

\* Faulty variant: whether the notice stands already is not asked.
OwesNoticeAgain(c) == NewestChoice(c) = <<OlderChoice>>

(* The notice is owed where the newest recorded choice lacks the sending      *)
(* tools, once.                                                               *)
OwesNotice(c) == NewestChoice(c) = <<OlderChoice>> /\ Notice \notin RowsOf(c)

Entering == startup = "serving" /\ served # 0 /\ within = "none" /\ says < MaxSays
Unread == served \notin reconciled

AppendsNotice ==
    /\ Entering /\ Unread /\ OwesNotice(served)
    /\ Put(served, Notice)
    /\ within' = "choice"
    /\ UNCHANGED <<served, wording, startup, successor, reconciled, says, resets, starts,
                   leftBehind>>

AppendsChoice ==
    /\ \/ within = "choice"
       \/ /\ Entering /\ Unread /\ ~OwesNotice(served)
          /\ NewestChoice(served) # <<SendingChoice>>
    /\ Put(served, SendingChoice)
    /\ reconciled' = reconciled \cup {served}
    /\ within' = "message"
    /\ UNCHANGED <<served, wording, startup, successor, says, resets, starts, leftBehind>>

FindsChoice ==
    /\ Entering /\ (Unread => NewestChoice(served) = <<SendingChoice>>)
    /\ reconciled' = reconciled \cup {served}
    /\ within' = "message"
    /\ UNCHANGED <<ledgers, served, wording, startup, successor, says, resets, starts,
                   leftBehind>>

AppendsMessage ==
    /\ within = "message"
    /\ says' = says + 1
    /\ Put(served, SaidRow(MaxSays + says'))
    /\ within' = "none"
    /\ UNCHANGED <<served, wording, startup, successor, reconciled, resets, starts,
                   leftBehind>>

(* A write fails, and the ingestion with it; its update comes again.          *)
ActivityFails ==
    /\ within # "none"
    /\ within' = "none"
    /\ UNCHANGED <<ledgers, served, wording, startup, successor, reconciled, says, resets,
                   starts, leftBehind>>

(* A compaction's install: the current prompt, a digest of the first half,    *)
(* the source's newest choice, and what stands past the cut.  The prompt of   *)
(* a served ledger is its first row, ahead of any cut.                        *)
InstallsThread ==
    /\ startup = "serving" /\ served # 0 /\ within = "none"
    /\ resets < MaxResets /\ resets' = resets + 1
    /\ \E cut \in 2 .. Len(ledgers[served]) :
         LET half == SubSeq(ledgers[served], 1, cut)
             rest == SubSeq(ledgers[served], cut + 1, Len(ledgers[served]))
         IN  ledgers' = Append(ledgers,
                 <<Prompt(wording), Digest(WordsOf(half))>> \o NewestChoice(served) \o rest)
    /\ served' = Len(ledgers')
    /\ UNCHANGED <<wording, startup, successor, reconciled, within, says, starts,
                   leftBehind>>

DeployNext ==
    \/ Boots \/ Dies \/ Passes \/ Forks \/ ClonesRows \/ Unmaps \/ Claims
    \/ FirstContact \/ AppendsNotice \/ AppendsChoice \/ FindsChoice
    \/ AppendsMessage \/ ActivityFails \/ InstallsThread

DeploySpec == DeployInit /\ [][DeployNext]_deployVars

-----------------------------------------------------------------------------
(* The chat is served under the running deployment, its prompt the one prompt *)
(* and the first row, and all that was ever said to it is there to be read:   *)
(* as a row or retold.  Left behind is what a repaired ledger held past a     *)
(* misplaced prompt, and what a death between the two writes of the mapping   *)
(* took the chat away from.                                                   *)
ServesCurrent ==
    startup = "serving" /\ served # 0 =>
        /\ ledgers[served][1] = Prompt(wording)
        /\ Cardinality(Places(served, "prompt")) = 1
        /\ \A c \in DOMAIN ledgers : WordsIn(c) \subseteq WordsIn(served) \cup leftBehind

(* A model that sends is told which of its answers were relayed: between such *)
(* an answer and the first message of this build stands the notice, wherever  *)
(* an earlier build's choice says the session ran under the older contract.   *)
(* It stands once, and nowhere else; and a session that was reconciled        *)
(* records the choice that can send.                                          *)
ContractTold ==
    /\ startup = "serving" /\ served \in reconciled =>
           NewestChoice(served) = <<SendingChoice>>
    /\ \A c \in DOMAIN ledgers :
        /\ Cardinality(Places(c, "notice")) <= 1
        /\ Notice \in RowsOf(c) => OlderChoice \in RowsOf(1)
        /\ OlderChoice \in RowsOf(1) =>
              \A i \in Places(c, "relayed"), k \in Places(c, "said") :
                  ledgers[c][k].of > MaxSays /\ i < k =>
                      \E j \in Places(c, "notice") : i < j /\ j < k
===============================================================================
