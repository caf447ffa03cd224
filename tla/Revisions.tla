------------------------------- MODULE Revisions -------------------------------
(* What becomes of a message that is edited, deleted or erased: the platform  *)
(* sends every version as an update of its own, and some for nothing but a    *)
(* link preview; the session keeps each version as a row, under the id of the *)
(* first.  (translate.rs; assembly.rs under_lock_reading, revision_reading    *)
(* and the deletion mirror; kind.rs newest_recorded_version and the nulls;    *)
(* erasure.rs.)                                                               *)
(*                                                                            *)
(* One person's messages in one group; an update is ingested whole under the  *)
(* stamp lock.  A process that ends takes again what it had not saved.        *)
EXTENDS Naturals, Sequences

CONSTANTS
    Written,         \* messages
    Wordings,        \* what one may read
    MaxSent,         \* bound: updates
    MaxReruns,       \* bound: restarts
    MaxReplaced,     \* bound: compactions and wipes
    MaxErased        \* bound: erasures of the person

ASSUME RevisionsAssumption ==
    /\ 0 \notin Wordings
    /\ {MaxSent, MaxReruns, MaxReplaced, MaxErased} \subseteq Nat

VARIABLES
    shown,           \* [Written -> what the chat shows, 0 for nothing]
    sent,            \* the updates: [what, about, text]
    ingestedTo,      \* how many of them were ingested
    savedTo,         \* how many are never asked for again
    versions,        \* the rows: [about, text (0 once nulled), held (by the session)]
    takenBack,       \* history: the words an erasure or a deletion nulled
    repeated,        \* history: messages first taken back and then taken again
    spentOn          \* the bounds: [reruns, replaced, erased]

revisionVars == <<shown, sent, ingestedTo, savedTo, versions, takenBack,
                  repeated, spentOn>>

RevisionsInit ==
    /\ shown = [m \in Written |-> 0]
    /\ sent = <<>> /\ ingestedTo = 0 /\ savedTo = 0
    /\ versions = <<>> /\ takenBack = {} /\ repeated = {}
    /\ spentOn = [reruns |-> 0, replaced |-> 0, erased |-> 0]

Spend(what, bound) ==
    /\ spentOn[what] < bound
    /\ spentOn' = [spentOn EXCEPT ![what] = @ + 1]

-----------------------------------------------------------------------------
(* The chat.                                                                  *)

Update(what, m, t) ==
    /\ Len(sent) < MaxSent
    /\ sent' = Append(sent, [what |-> what, about |-> m, text |-> t])
    /\ shown' = [shown EXCEPT ![m] = t]
    /\ UNCHANGED <<ingestedTo, savedTo, versions, takenBack, repeated, spentOn>>

SaysFirst(m) ==
    /\ \A i \in DOMAIN sent : sent[i].about # m
    /\ \E t \in Wordings : Update("message", m, t)

(* To other words, or, a preview attached, to the same.                       *)
Edits(m) == shown[m] # 0 /\ \E t \in Wordings : Update("edited", m, t)

(* An administrator's deletion command, which the other bot obeys.            *)
DeletesShown(m) == shown[m] # 0 /\ Update("deletion", m, 0)

-----------------------------------------------------------------------------
(* An ingestion.                                                              *)

StillReads(i, m) == versions[i].about = m /\ versions[i].text # 0

(* A revision is recorded where the session holds a version that can still be *)
(* read, and the newest reads otherwise.                                      *)
Records(m, t) ==
    \E i \in DOMAIN versions :
        /\ versions[i].held /\ StillReads(i, m)
        /\ \A j \in DOMAIN versions : versions[j].held /\ StillReads(j, m) => j <= i
        /\ versions[i].text # t

Recorded(m, t) == versions' = Append(versions, [about |-> m, text |-> t, held |-> TRUE])

Words(some) == {<<versions[i].about, versions[i].text>> : i \in some}

NullsRows(gone) ==
    /\ versions' = [i \in DOMAIN versions |->
                        IF i \in gone THEN [versions[i] EXCEPT !.text = 0] ELSE versions[i]]
    /\ repeated' = {m \in repeated : \E i \in DOMAIN versions \ gone : StillReads(i, m)}

(* A first version is recorded whatever the session holds.                    *)
TakesMessage(u) ==
    /\ u.what = "message"
    /\ Recorded(u.about, u.text)
    /\ repeated' = IF \E t \in Wordings : <<u.about, t>> \in takenBack
                   THEN repeated \cup {u.about} ELSE repeated
    /\ UNCHANGED takenBack

TakesRevision(u) ==
    /\ u.what = "edited"
    /\ IF Records(u.about, u.text) THEN Recorded(u.about, u.text) ELSE UNCHANGED versions
    /\ UNCHANGED <<takenBack, repeated>>

\* Faulty variant: the newest version of the message alone.
NewestNamed(m) ==
    {i \in DOMAIN versions : versions[i].held /\ StillReads(i, m)
        /\ \A j \in DOMAIN versions : versions[j].held /\ StillReads(j, m) => j <= i}

(* Every version the session holds of it.                                     *)
NamedRows(m) == {i \in DOMAIN versions : versions[i].held /\ StillReads(i, m)}

(* What a conversation below the session holds is not reached.                *)
TakesDeletion(u) ==
    /\ u.what = "deletion"
    /\ LET gone == NamedRows(u.about)
           below == {i \in DOMAIN versions : ~versions[i].held} IN
       NullsRows(gone) /\ takenBack' = takenBack \cup (Words(gone) \ Words(below))

TakesUpdate ==
    /\ ingestedTo < Len(sent)
    /\ LET u == sent[ingestedTo + 1] IN
       TakesMessage(u) \/ TakesRevision(u) \/ TakesDeletion(u)
    /\ ingestedTo' = ingestedTo + 1
    /\ UNCHANGED <<shown, sent, savedTo, spentOn>>

Saves ==
    /\ savedTo < ingestedTo /\ savedTo' = ingestedTo
    /\ UNCHANGED <<shown, sent, ingestedTo, versions, takenBack, repeated, spentOn>>

Reruns ==
    /\ Spend("reruns", MaxReruns)
    /\ ingestedTo' = savedTo
    /\ UNCHANGED <<shown, sent, savedTo, versions, takenBack, repeated>>

-----------------------------------------------------------------------------
(* What else touches the rows: a compaction leaves the older ones behind, a   *)
(* wipe deletes them, an erasure nulls the person's in every conversation.    *)

CompactsRows ==
    /\ Spend("replaced", MaxReplaced)
    /\ \E cut \in DOMAIN versions :
          versions' = [i \in DOMAIN versions |->
                          IF i <= cut THEN [versions[i] EXCEPT !.held = FALSE] ELSE versions[i]]
    /\ UNCHANGED <<shown, sent, ingestedTo, savedTo, takenBack, repeated>>

WipesRows ==
    /\ Spend("replaced", MaxReplaced)
    /\ versions' = <<>>
    /\ UNCHANGED <<shown, sent, ingestedTo, savedTo, takenBack, repeated>>

ErasePrincipalContent ==
    /\ Spend("erased", MaxErased)
    /\ LET gone == {i \in DOMAIN versions : versions[i].text # 0} IN
       NullsRows(gone) /\ takenBack' = takenBack \cup Words(gone)
    /\ UNCHANGED <<shown, sent, ingestedTo, savedTo>>

RevisionsNext ==
    \/ \E m \in Written : SaysFirst(m) \/ Edits(m) \/ DeletesShown(m)
    \/ TakesUpdate \/ Saves \/ Reruns
    \/ CompactsRows \/ WipesRows \/ ErasePrincipalContent

RevisionsSpec == RevisionsInit /\ [][RevisionsNext]_revisionVars

-----------------------------------------------------------------------------
(* Words that were taken back are in no row again, whatever updates the       *)
(* platform still sends of their message, unless its first version itself was *)
(* taken a second time; and once every update is ingested, the newest version *)
(* the session can still read of a message is what the chat shows of it: a    *)
(* message that was deleted there has none.                                   *)
VersionsTruthful ==
    /\ \A i \in DOMAIN versions :
          <<versions[i].about, versions[i].text>> \in takenBack => versions[i].about \in repeated
    /\ ingestedTo = Len(sent) =>
          \A i \in DOMAIN versions :
              LET m == versions[i].about IN
              versions[i].held /\ StillReads(i, m)
              /\ (\A j \in DOMAIN versions : versions[j].held /\ StillReads(j, m) => j <= i)
              => versions[i].text = shown[m]

(* "A genuinely different edit always records, however many a person makes"   *)
(* (assembly.rs, revision_reading): one that differs from every row stored of *)
(* its message, read by the session or not.                                   *)
EditsRecord ==
    [][ \A m \in Written, t \in Wordings :
          /\ ingestedTo < Len(sent) /\ ingestedTo' = ingestedTo + 1
          /\ sent[ingestedTo + 1] = [what |-> "edited", about |-> m, text |-> t]
          /\ \E i \in DOMAIN versions : StillReads(i, m)
          /\ \A i \in DOMAIN versions : StillReads(i, m) => versions[i].text # t
          => versions' # versions ]_revisionVars
===============================================================================
