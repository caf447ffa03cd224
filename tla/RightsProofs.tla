------------------------------ MODULE RightsProofs ------------------------------
(***************************************************************************)
(* For every set of people and of ingestions, and however many ids the     *)
(* identity table has issued: an erasure that was asked for or runs names  *)
(* nobody but the person who asked, and an objection outlives erasures,    *)
(* sweeps and restarts.                                                    *)
(*                                                                         *)
(* The argument has two halves.  An id is issued once, so whatever was     *)
(* filed or confirmed under an id stays with the row it was filed for,     *)
(* also when that row is gone (Rows, Asked).  And the fence keeps an       *)
(* ingestion's and the tool's row there until they have used it, for no    *)
(* erasure and no sweep runs while they are inside (Entered).              *)
(***************************************************************************)
EXTENDS Rights, TLAPS

SlotSet == [at : {"idle", "read", "locked", "recorded"}, who : Persons \cup {NoPerson},
            kind : Kinds, id : 0 .. MaxIds, late : BOOLEAN]
TaskSet == [at : {"none", "spawned", "waits", "runs", "over"}, id : 0 .. MaxIds,
            who : Persons \cup {NoPerson}]

RightsType ==
    /\ principals \in [Persons -> [id : 0 .. MaxIds, out : BOOLEAN]]
    /\ issued \in 0 .. MaxIds
    /\ authored \subseteq PrincipalIds
    /\ filed \in [PrincipalIds -> Persons \cup {NoPerson}]
    /\ slots \in [Slots -> SlotSet]
    /\ tool \in [at : {"idle", "resolved"}, id : 0 .. MaxIds]
    /\ tasks \in [Tasks -> TaskSet]
    /\ awaited \subseteq Tasks
    /\ service \in {"up", "stopping", "gone"}

\* An id is one person's, and the flag of an objection stands on a row.
Rows ==
    /\ \A p \in Persons : principals[p].id <= issued /\ (principals[p].out => principals[p].id # 0)
    /\ \A p, q \in Persons : principals[p].id = principals[q].id /\ principals[p].id # 0 => p = q
    /\ objects = {p \in Persons : principals[p].out}

Pending(t) == tasks[t].at \in {"spawned", "waits", "runs"}

\* What is asked for names an id that was issued already.
Asked ==
    /\ \A id \in PrincipalIds : filed[id] # NoPerson => id <= issued
    /\ \A t \in Tasks : Pending(t) => tasks[t].id \in 1 .. issued

\* The row of whoever is behind the fence is there, and stays their own.
Entered ==
    /\ \A s \in Slots : slots[s].at # "idle" =>
          /\ slots[s].who \in Persons
          /\ principals[slots[s].who].id = slots[s].id /\ slots[s].id # 0
          /\ slots[s].kind = "message" => ~slots[s].late
    /\ tool.at # "idle" => \E p \in Persons : principals[p].id = tool.id /\ tool.id # 0
    /\ \A t \in Tasks : tasks[t].at = "runs" => ~Shared

IInv == RightsType /\ Rows /\ Asked /\ Entered /\ OnlyAskersErased

-----------------------------------------------------------------------------
(* What leaves requests and rows alone.                                       *)

\* Requests may lapse, tasks end and rows go; no id is issued.
LEMMA AsksStay ==
  ASSUME IInv, issued' = issued,
         \A id \in PrincipalIds : filed'[id] = filed[id] \/ filed'[id] = NoPerson,
         \A t \in Tasks : Pending(t)' =>
            Pending(t) /\ tasks'[t].id = tasks[t].id /\ tasks'[t].who = tasks[t].who,
         \A p \in Persons : principals'[p].id = principals[p].id \/ principals'[p].id = 0
  PROVE  Asked' /\ OnlyAskersErased'
<1>1. Asked'
  BY DEF IInv, Asked
<1>2. OnlyAskersErased'
  <2>1. \A id \in PrincipalIds : id # 0
    BY RightsAssumption DEF PrincipalIds
  <2>2. \A id \in PrincipalIds, p \in Persons :
           filed'[id] # NoPerson /\ principals'[p].id = id => filed'[id] = p
    BY <2>1 DEF IInv, OnlyAskersErased
  <2>3. \A t \in Tasks : Pending(t)' => tasks[t].id # 0
    BY RightsAssumption DEF IInv, Asked, RightsType
  <2>4. \A t \in Tasks, p \in Persons :
           Pending(t)' /\ principals'[p].id = tasks'[t].id => tasks'[t].who = p
    BY <2>3 DEF IInv, OnlyAskersErased, Pending
  <2> QED BY <2>2, <2>4 DEF OnlyAskersErased, Pending
<1> QED BY <1>1, <1>2

\* Only rows with no objection on them go.
LEMMA RowsStay ==
  ASSUME Rows, RightsType, issued' = issued, objects' = objects,
         \A p \in Persons : \/ principals'[p] = principals[p]
                            \/ ~principals[p].out /\ principals'[p] = [id |-> 0, out |-> FALSE]
  PROVE  Rows'
<1>1. \A p \in Persons : principals'[p].out <=> principals[p].out
  BY DEF RightsType
<1>2. \A p \in Persons : principals'[p].id <= issued /\ (principals[p].out => principals'[p].id # 0)
  BY RightsAssumption DEF Rows, RightsType
<1>3. \A p, q \in Persons : principals'[p].id = principals'[q].id /\ principals'[p].id # 0 => p = q
  BY DEF Rows, RightsType
<1> QED BY <1>1, <1>2, <1>3 DEF Rows

LEMMA SlotMoves ==
  ASSUME RightsType, NEW s \in Slots, NEW new \in SlotSet, slots' = [slots EXCEPT ![s] = new]
  PROVE  /\ slots' \in [Slots -> SlotSet]
         /\ \A u \in Slots : slots'[u] = IF u = s THEN new ELSE slots[u]
BY DEF RightsType

LEMMA IdleSlot == Idle \in SlotSet /\ Idle.at = "idle"
BY RightsAssumption DEF Idle, SlotSet, Kinds

LEMMA TaskMoves ==
  ASSUME RightsType, NEW t \in Tasks, NEW new \in TaskSet, tasks' = [tasks EXCEPT ![t] = new]
  PROVE  /\ tasks' \in [Tasks -> TaskSet]
         /\ \A u \in Tasks : tasks'[u] = IF u = t THEN new ELSE tasks[u]
BY DEF RightsType

-----------------------------------------------------------------------------
(* A command's change.                                                        *)

LEMMA ChangeKeeps ==
  ASSUME IInv, NEW kind, NEW id \in PrincipalIds, NEW o \in Persons, principals[o].id = id,
         issued' = issued, Change(kind, id) \/ Nothing
  PROVE  /\ principals' \in [Persons -> [id : 0 .. MaxIds, out : BOOLEAN]]
         /\ filed' \in [PrincipalIds -> Persons \cup {NoPerson}]
         /\ tasks' \in [Tasks -> TaskSet]
         /\ Rows' /\ Asked' /\ OnlyAskersErased'
         /\ \A p \in Persons : principals'[p].id = principals[p].id
         /\ \A t \in Tasks : tasks'[t].at = "runs" => tasks[t].at = "runs"
<1>0. RightsType /\ Rows /\ Asked
  BY DEF IInv
<1>1. id # 0 /\ id \in 0 .. MaxIds
  BY RightsAssumption DEF PrincipalIds
<1>2. /\ \A p \in Persons : principals[p].id = id => p = o
      /\ id <= issued
  BY <1>0, <1>1 DEF Rows
<1>3. Owner(id) = o
  BY <1>2 DEF Owner
<1>4. CASE Nothing
  <2>1. UNCHANGED <<principals, objects, filed, tasks>>
    BY <1>4 DEF Nothing
  <2>2. Rows'
    BY <2>1, <1>0, RowsStay
  <2>3. Asked' /\ OnlyAskersErased'
    BY <2>1, AsksStay DEF Pending
  <2> QED BY <1>0, <2>1, <2>2, <2>3 DEF RightsType
<1>5. ASSUME NEW flag \in BOOLEAN, SetsFlag(id, flag), UNCHANGED <<filed, tasks>>
      PROVE  /\ principals' \in [Persons -> [id : 0 .. MaxIds, out : BOOLEAN]]
             /\ Rows' /\ Asked' /\ OnlyAskersErased'
             /\ \A p \in Persons : principals'[p].id = principals[p].id
  <2>1. principals' = [p \in Persons |->
           IF principals[p].id = id THEN [principals[p] EXCEPT !.out = flag] ELSE principals[p]]
    BY <1>5 DEF SetsFlag
  <2>2. \A p \in Persons : principals[p] \in [id : 0 .. MaxIds, out : BOOLEAN]
    BY <1>0 DEF RightsType
  <2>3. /\ \A p \in Persons : principals'[p] \in [id : 0 .. MaxIds, out : BOOLEAN]
        /\ \A p \in Persons : principals'[p].id = principals[p].id
        /\ \A p \in Persons : principals'[p].out = IF p = o THEN flag ELSE principals[p].out
        /\ principals' \in [Persons -> [id : 0 .. MaxIds, out : BOOLEAN]]
    BY <1>2, <2>1, <2>2
  <2>4. objects' = IF flag THEN objects \cup {o} ELSE objects \ {o}
    BY <1>2, <1>5 DEF SetsFlag
  <2>5. Rows'
    BY <1>0, <1>1, <2>3, <2>4 DEF Rows
  <2>6. Asked' /\ OnlyAskersErased'
    BY <1>5, <2>3, AsksStay DEF Pending
  <2> QED BY <2>3, <2>5, <2>6
<1>6. CASE kind \in {"out", "in"} /\ SetsFlag(id, kind = "out") /\ UNCHANGED <<filed, tasks>>
  <2>1. (kind = "out") \in BOOLEAN
    OBVIOUS
  <2> QED BY <1>0, <1>5, <1>6, <2>1 DEF RightsType
<1>7. CASE kind = "delete" /\ Files(id) /\ UNCHANGED <<principals, objects, tasks>>
  <2>1. /\ filed' \in [PrincipalIds -> Persons \cup {NoPerson}]
        /\ \A i \in PrincipalIds : filed'[i] = filed[i] \/ (i = id /\ filed'[i] = o)
    BY <1>0, <1>3, <1>7 DEF Files, RightsType
  <2>2. Rows'
    BY <1>0, <1>7, RowsStay
  <2>3. Asked'
    BY <1>0, <1>2, <1>7, <2>1 DEF Asked, Pending
  <2>4. OnlyAskersErased'
    BY <1>2, <1>7, <2>1 DEF IInv, OnlyAskersErased
  <2> QED BY <1>0, <1>7, <2>1, <2>2, <2>3, <2>4 DEF RightsType
<1>8. CASE kind = "confirm" /\ Confirms(id) /\ UNCHANGED <<principals, objects>>
  <2>1. /\ filed' \in [PrincipalIds -> Persons \cup {NoPerson}]
        /\ \A i \in PrincipalIds : filed'[i] = filed[i] \/ filed'[i] = NoPerson
    BY <1>0, <1>8 DEF Confirms, RightsType
  <2>2. Rows'
    BY <1>0, <1>8, RowsStay
  <2>3. CASE UNCHANGED tasks
    <3>1. Asked' /\ OnlyAskersErased'
      BY <1>8, <2>1, <2>3, AsksStay DEF Pending
    <3> QED BY <1>0, <1>8, <2>1, <2>2, <2>3, <3>1 DEF RightsType
  <2>4. CASE filed[id] # NoPerson /\ ~UNCHANGED tasks
    <3> DEFINE new == [at |-> "spawned", id |-> id, who |-> filed[id]]
    <3>1. PICK t \in Tasks : tasks' = [tasks EXCEPT ![t] = new]
      BY <1>8, <2>4 DEF Confirms
    <3>2. new \in TaskSet /\ new.at = "spawned" /\ new.id = id /\ new.who = filed[id]
      BY <1>0, <1>1 DEF TaskSet, RightsType
    <3> HIDE DEF new
    <3>3. /\ tasks' \in [Tasks -> TaskSet]
          /\ \A u \in Tasks : tasks'[u] = IF u = t THEN new ELSE tasks[u]
      BY <1>0, <3>1, <3>2, TaskMoves
    <3>4. filed[id] = o
      BY <2>4 DEF IInv, OnlyAskersErased
    <3>5. id \in 1 .. issued
      BY <1>0, <1>2, RightsAssumption DEF PrincipalIds, RightsType
    <3>6. Asked'
      BY <1>0, <1>8, <2>1, <3>2, <3>3, <3>5 DEF Asked, Pending
    <3>7. OnlyAskersErased'
      <4>1. \A i \in PrincipalIds, p \in Persons :
               filed'[i] # NoPerson /\ principals'[p].id = i => filed'[i] = p
        BY <1>8, <2>1 DEF IInv, OnlyAskersErased
      <4>2. \A u \in Tasks, p \in Persons :
               tasks'[u].at \in {"spawned", "waits", "runs"} /\ principals'[p].id = tasks'[u].id
                  => tasks'[u].who = p
        BY <1>2, <1>8, <3>2, <3>3, <3>4 DEF IInv, OnlyAskersErased
      <4> QED BY <4>1, <4>2 DEF OnlyAskersErased
    <3>8. \A u \in Tasks : tasks'[u].at = "runs" => tasks[u].at = "runs"
      BY <3>2, <3>3
    <3> QED BY <1>0, <1>8, <2>1, <2>2, <3>3, <3>6, <3>7, <3>8 DEF RightsType
  <2> QED BY <1>8, <2>3, <2>4 DEF Confirms
<1> QED BY <1>4, <1>6, <1>7, <1>8 DEF Change

-----------------------------------------------------------------------------
(* An ingestion's steps.                                                      *)

\* Nothing but the slots changes, and no slot is newly taken.
LEMMA SlotsOnly ==
  ASSUME IInv, UNCHANGED <<principals, issued, filed, tool, tasks, objects, awaited, service>>,
         authored' \subseteq PrincipalIds,
         slots' \in [Slots -> SlotSet],
         \A s \in Slots : slots'[s].at # "idle" =>
            /\ slots[s].at # "idle" /\ slots'[s].who = slots[s].who /\ slots'[s].id = slots[s].id
            /\ slots'[s].kind = slots[s].kind /\ slots'[s].late = slots[s].late
  PROVE  IInv'
<1>1. RightsType'
  BY DEF IInv, RightsType
<1>2. Rows'
  BY RowsStay DEF IInv
<1>3. Asked' /\ OnlyAskersErased'
  BY AsksStay DEF Pending
<1>4. Shared' => Shared
  BY DEF Shared, Readers
<1>5. Entered'
  BY <1>4 DEF IInv, Entered
<1> QED BY <1>1, <1>2, <1>3, <1>5 DEF IInv

LEMMA DeliverKeeps ==
  ASSUME IInv, NEW s \in Slots, NEW p \in Persons, NEW kind \in Kinds, Deliver(s, p, kind)
  PROVE  IInv'
<1>0. RightsType /\ Rows /\ Asked /\ Entered
  BY DEF IInv
<1> DEFINE new == [at |-> "read", who |-> p, kind |-> kind, id |-> principals'[p].id,
                   late |-> p \in objects]
<1>1. /\ UNCHANGED <<authored, filed, tool, tasks, awaited, service, objects>>
      /\ slots' = [slots EXCEPT ![s] = new]
      /\ ~Held /\ (principals[p].out => kind # "message") /\ Resolve(p)
  BY DEF Deliver, MayEnter
<1>2. /\ principals' \in [Persons -> [id : 0 .. MaxIds, out : BOOLEAN]]
      /\ issued' \in 0 .. MaxIds /\ issued' >= issued
      /\ \A q \in Persons : q # p => principals'[q] = principals[q]
      /\ principals'[p].out <=> principals[p].out
      /\ principals'[p].id # 0 /\ principals'[p].id <= issued'
      /\ \/ principals'[p].id = principals[p].id /\ issued' = issued
         \/ principals'[p].id = issued + 1
      /\ principals[p].id # 0 => principals'[p].id = principals[p].id
  <2>1. CASE principals[p].id # 0
    BY <1>0, <1>1, <2>1, RightsAssumption DEF Resolve, RightsType, Rows
  <2>2. CASE principals[p].id = 0
    <3>1. /\ NextId = issued + 1 /\ NextId <= MaxIds
          /\ principals' = [principals EXCEPT ![p].id = NextId] /\ issued' = issued + 1
      BY <1>0, <1>1, <2>2, RightsAssumption DEF Resolve, NextId, RightsType
    <3>2. /\ principals[p] \in [id : 0 .. MaxIds, out : BOOLEAN]
          /\ \A q \in Persons : q # p => principals'[q] = principals[q]
          /\ principals'[p] = [principals[p] EXCEPT !.id = NextId]
          /\ NextId \in 0 .. MaxIds
      BY <1>0, <3>1, RightsAssumption DEF RightsType
    <3>3. /\ principals'[p] \in [id : 0 .. MaxIds, out : BOOLEAN]
          /\ principals'[p].id = NextId /\ principals'[p].out = principals[p].out
      BY <3>2
    <3>4. principals' \in [Persons -> [id : 0 .. MaxIds, out : BOOLEAN]]
      BY <1>0, <3>1, <3>2 DEF RightsType
    <3> QED BY <1>0, <2>2, <3>1, <3>2, <3>3, <3>4, RightsAssumption DEF RightsType
  <2> QED BY <2>1, <2>2
<1>3. /\ new \in SlotSet /\ new.at = "read" /\ new.who = p /\ new.kind = kind
      /\ new.id = principals'[p].id /\ new.late = (p \in objects)
  BY <1>2 DEF SlotSet
<1> HIDE DEF new
<1>4. /\ slots' \in [Slots -> SlotSet]
      /\ \A u \in Slots : slots'[u] = IF u = s THEN new ELSE slots[u]
  BY <1>0, <1>1, <1>3, SlotMoves
<1>5. RightsType'
  BY <1>0, <1>1, <1>2, <1>4 DEF RightsType
<1>6. issued \in Nat /\ \A q \in Persons : principals[q].id \in Nat
  BY <1>0, RightsAssumption DEF RightsType
<1>7. Rows'
  <2>1. \A q \in Persons : principals'[q].id <= issued' /\ (principals'[q].out => principals'[q].id # 0)
    BY <1>0, <1>2, <1>6, RightsAssumption DEF Rows, RightsType
  <2>2. \A q, u \in Persons : principals'[q].id = principals'[u].id /\ principals'[q].id # 0 => q = u
    BY <1>0, <1>2, <1>6 DEF Rows
  <2>3. objects' = {q \in Persons : principals'[q].out}
    BY <1>0, <1>1, <1>2 DEF Rows
  <2> QED BY <2>1, <2>2, <2>3 DEF Rows
<1>8. Asked'
  <2>1. \A id \in PrincipalIds : filed'[id] # NoPerson => id <= issued'
    BY <1>0, <1>1, <1>2, <1>6, RightsAssumption DEF Asked, PrincipalIds, RightsType
  <2>2. \A t \in Tasks : Pending(t)' => tasks'[t].id \in 1 .. issued'
    BY <1>0, <1>1, <1>2, <1>6, RightsAssumption DEF Asked, Pending, RightsType
  <2> QED BY <2>1, <2>2 DEF Asked
<1>9. OnlyAskersErased'
  <2>1. \A id \in PrincipalIds, q \in Persons :
           filed[id] # NoPerson /\ principals'[q].id = id => principals[q].id = id
    BY <1>0, <1>2, <1>6, RightsAssumption DEF Asked, PrincipalIds
  <2>2. \A t \in Tasks, q \in Persons :
           Pending(t) /\ principals'[q].id = tasks[t].id => principals[q].id = tasks[t].id
    BY <1>0, <1>2, <1>6 DEF Asked
  <2> QED BY <1>1, <2>1, <2>2 DEF IInv, OnlyAskersErased, Pending
<1>10. Entered'
  <2>1. \A t \in Tasks : tasks'[t].at # "runs"
    BY <1>1 DEF Held
  <2>2. tool'.at # "idle" => \E q \in Persons : principals'[q].id = tool'.id /\ tool'.id # 0
    BY <1>0, <1>1, <1>2 DEF Entered
  <2>3. ASSUME NEW u \in Slots, slots'[u].at # "idle"
        PROVE  /\ slots'[u].who \in Persons
               /\ principals'[slots'[u].who].id = slots'[u].id /\ slots'[u].id # 0
               /\ slots'[u].kind = "message" => ~slots'[u].late
    <3>1. CASE u = s
      BY <1>0, <1>1, <1>2, <1>3, <1>4, <3>1 DEF Rows
    <3>2. CASE u # s
      BY <1>0, <1>2, <1>4, <2>3, <3>2 DEF Entered
    <3> QED BY <3>1, <3>2
  <2> QED BY <2>1, <2>2, <2>3 DEF Entered
<1> QED BY <1>5, <1>7, <1>8, <1>9, <1>10 DEF IInv

LEMMA IngestionKeeps ==
  ASSUME IInv, NEW s \in Slots, IngestionFails(s) \/ Lock(s) \/ StoreMessage(s)
  PROVE  IInv'
<1>0. RightsType /\ Entered
  BY DEF IInv
<1>1. /\ UNCHANGED <<principals, issued, filed, tool, tasks, objects, awaited, service>>
      /\ slots[s].at # "idle"
      /\ authored' = authored \/ authored' = authored \cup {slots[s].id}
  BY DEF IngestionFails, Lock, StoreMessage, rightsStore
<1>2. authored' \subseteq PrincipalIds
  <2>1. slots[s].id \in PrincipalIds
    BY <1>0, <1>1, RightsAssumption DEF Entered, RightsType, SlotSet, PrincipalIds
  <2> QED BY <1>0, <1>1, <2>1 DEF RightsType
<1>3. CASE Ends(s)
  <2>1. /\ slots' \in [Slots -> SlotSet]
        /\ \A u \in Slots : slots'[u] = IF u = s THEN Idle ELSE slots[u]
    BY <1>0, <1>3, IdleSlot, SlotMoves DEF Ends
  <2> QED BY <1>1, <1>2, <2>1, IdleSlot, SlotsOnly
<1>4. ASSUME NEW w \in {"locked", "recorded"}, slots' = [slots EXCEPT ![s].at = w] PROVE IInv'
  <2> DEFINE new == [slots[s] EXCEPT !.at = w]
  <2>1. slots[s] \in SlotSet /\ slots' = [slots EXCEPT ![s] = new]
    BY <1>0, <1>4 DEF RightsType
  <2>2. /\ new \in SlotSet /\ new.who = slots[s].who /\ new.id = slots[s].id
        /\ new.kind = slots[s].kind /\ new.late = slots[s].late
    BY <2>1 DEF SlotSet
  <2> HIDE DEF new
  <2>3. /\ slots' \in [Slots -> SlotSet]
        /\ \A u \in Slots : slots'[u] = IF u = s THEN new ELSE slots[u]
    BY <1>0, <2>1, <2>2, SlotMoves
  <2> QED BY <1>1, <1>2, <2>2, <2>3, SlotsOnly
<1> QED BY <1>3, <1>4 DEF IngestionFails, Lock, StoreMessage

LEMMA RightsReplyKeeps == ASSUME IInv, NEW s \in Slots, RightsReply(s) PROVE IInv'
<1>0. RightsType /\ Entered
  BY DEF IInv
<1>1. /\ UNCHANGED <<issued, authored, tool, awaited, service>>
      /\ slots[s].at = "recorded" /\ slots' = [slots EXCEPT ![s] = Idle]
      /\ Change(slots[s].kind, slots[s].id) \/ Nothing
  BY DEF RightsReply, Ends
<1>2. /\ slots' \in [Slots -> SlotSet]
      /\ \A u \in Slots : slots'[u] = IF u = s THEN Idle ELSE slots[u]
  BY <1>0, <1>1, IdleSlot, SlotMoves
<1>3. /\ slots[s].who \in Persons /\ principals[slots[s].who].id = slots[s].id
      /\ slots[s].id \in PrincipalIds
  BY <1>0, <1>1, RightsAssumption DEF Entered, RightsType, SlotSet, PrincipalIds
<1>4. /\ principals' \in [Persons -> [id : 0 .. MaxIds, out : BOOLEAN]]
      /\ filed' \in [PrincipalIds -> Persons \cup {NoPerson}]
      /\ tasks' \in [Tasks -> TaskSet]
      /\ Rows' /\ Asked' /\ OnlyAskersErased'
      /\ \A p \in Persons : principals'[p].id = principals[p].id
      /\ \A t \in Tasks : tasks'[t].at = "runs" => tasks[t].at = "runs"
  BY <1>1, <1>3, ChangeKeeps
<1>5. RightsType'
  BY <1>0, <1>1, <1>2, <1>4 DEF RightsType
<1>6. Shared' => Shared
  BY <1>1, <1>2, IdleSlot DEF Shared, Readers
<1>7. Entered'
  BY <1>0, <1>1, <1>2, <1>4, <1>6, IdleSlot DEF Entered
<1> QED BY <1>4, <1>5, <1>7 DEF IInv

-----------------------------------------------------------------------------
(* The tool, the erasures, the sweep and the shutdown.                        *)

LEMMA ToolResolvesKeeps == ASSUME IInv, ToolResolves PROVE IInv'
<1>0. RightsType /\ Entered
  BY DEF IInv
<1>1. /\ UNCHANGED <<principals, issued, authored, filed, slots, tasks, awaited, service, objects>>
      /\ ~Held
  BY DEF ToolResolves, rightsStore, MayEnter
<1>2. PICK id \in authored : (\E p \in Persons : principals[p].id = id) /\ tool' = [at |-> "resolved", id |-> id]
  BY DEF ToolResolves
<1>3. id \in PrincipalIds /\ id # 0 /\ id \in 0 .. MaxIds
  BY <1>0, RightsAssumption DEF RightsType, PrincipalIds
<1>4. RightsType'
  BY <1>0, <1>1, <1>2, <1>3 DEF RightsType
<1>5. Rows'
  BY <1>1, RowsStay DEF IInv
<1>6. Asked' /\ OnlyAskersErased'
  BY <1>1, AsksStay DEF Pending
<1>7. Entered'
  BY <1>0, <1>1, <1>2, <1>3 DEF Entered, Held
<1> QED BY <1>4, <1>5, <1>6, <1>7 DEF IInv

LEMMA ToolActsKeeps == ASSUME IInv, ToolActs PROVE IInv'
<1>0. RightsType /\ Entered
  BY DEF IInv
<1>1. /\ UNCHANGED <<issued, authored, slots, awaited, service>>
      /\ tool.at = "resolved" /\ tool' = NoTool
      /\ (\E kind \in {"out", "delete"} : Change(kind, tool.id)) \/ Nothing
  BY DEF ToolActs
<1>2. PICK o \in Persons : principals[o].id = tool.id /\ tool.id # 0
  BY <1>0, <1>1 DEF Entered
<1>3. tool.id \in PrincipalIds
  BY <1>0, <1>2, RightsAssumption DEF RightsType, PrincipalIds
<1>4. /\ principals' \in [Persons -> [id : 0 .. MaxIds, out : BOOLEAN]]
      /\ filed' \in [PrincipalIds -> Persons \cup {NoPerson}]
      /\ tasks' \in [Tasks -> TaskSet]
      /\ Rows' /\ Asked' /\ OnlyAskersErased'
      /\ \A p \in Persons : principals'[p].id = principals[p].id
      /\ \A t \in Tasks : tasks'[t].at = "runs" => tasks[t].at = "runs"
  BY <1>1, <1>2, <1>3, ChangeKeeps
<1>5. NoTool.at = "idle" /\ NoTool \in [at : {"idle", "resolved"}, id : 0 .. MaxIds]
  BY RightsAssumption DEF NoTool
<1>6. RightsType'
  BY <1>0, <1>1, <1>4, <1>5 DEF RightsType
<1>7. Shared' => Shared
  BY <1>1, <1>5 DEF Shared, Readers
<1>8. Entered'
  BY <1>0, <1>1, <1>4, <1>5, <1>7 DEF Entered
<1> QED BY <1>4, <1>6, <1>8 DEF IInv

LEMMA EraseMovesKeeps ==
  ASSUME IInv, NEW t \in Tasks, EraseAsks(t) \/ EraseBegins(t)
  PROVE  IInv'
<1>0. RightsType /\ Entered
  BY DEF IInv
<1>1. /\ UNCHANGED <<principals, issued, authored, filed, slots, tool, awaited, service, objects>>
      /\ tasks[t].at \in {"spawned", "waits"}
  BY DEF EraseAsks, EraseBegins, rightsStore
<1>2. PICK w \in {"waits", "runs"} :
         tasks' = [tasks EXCEPT ![t].at = w] /\ (w = "runs" => ~Shared)
  BY DEF EraseAsks, EraseBegins
<1> DEFINE new == [tasks[t] EXCEPT !.at = w]
<1>3. tasks[t] \in TaskSet /\ tasks' = [tasks EXCEPT ![t] = new]
  BY <1>0, <1>2 DEF RightsType
<1>4. new \in TaskSet /\ new.at = w /\ new.id = tasks[t].id /\ new.who = tasks[t].who
  BY <1>3 DEF TaskSet
<1> HIDE DEF new
<1>5. /\ tasks' \in [Tasks -> TaskSet]
      /\ \A u \in Tasks : tasks'[u] = IF u = t THEN new ELSE tasks[u]
  BY <1>0, <1>3, <1>4, TaskMoves
<1>6. RightsType'
  BY <1>0, <1>1, <1>5 DEF RightsType
<1>7. Rows'
  BY <1>1, RowsStay DEF IInv
<1>8. Asked' /\ OnlyAskersErased'
  BY <1>1, <1>4, <1>5, AsksStay DEF Pending
<1>9. Shared' = Shared
  BY <1>1 DEF Shared, Readers
<1>10. Entered'
  BY <1>0, <1>1, <1>2, <1>4, <1>5, <1>9 DEF Entered
<1> QED BY <1>6, <1>7, <1>8, <1>10 DEF IInv

\* Nobody is inside, so that rows may go.
LEMMA RowsGo ==
  ASSUME IInv, ~Shared, UNCHANGED <<issued, filed, slots, tool, awaited, service, objects>>,
         authored' \subseteq authored,
         \A p \in Persons : \/ principals'[p] = principals[p]
                            \/ ~principals[p].out /\ principals'[p] = [id |-> 0, out |-> FALSE],
         DOMAIN principals' = Persons, principals' = [p \in Persons |-> principals'[p]],
         tasks' \in [Tasks -> TaskSet],
         \A t \in Tasks : Pending(t)' =>
            Pending(t) /\ tasks'[t].id = tasks[t].id /\ tasks'[t].who = tasks[t].who
  PROVE  IInv'
<1>0. RightsType /\ Entered
  BY DEF IInv
<1>1. Rows'
  BY RowsStay DEF IInv
<1>2. \A p \in Persons : /\ principals'[p] \in [id : 0 .. MaxIds, out : BOOLEAN]
                         /\ principals'[p].id = principals[p].id \/ principals'[p].id = 0
  <2> SUFFICES ASSUME NEW p \in Persons
               PROVE  /\ principals'[p] \in [id : 0 .. MaxIds, out : BOOLEAN]
                      /\ principals'[p].id = principals[p].id \/ principals'[p].id = 0
    OBVIOUS
  <2>1. principals[p] \in [id : 0 .. MaxIds, out : BOOLEAN]
    BY <1>0 DEF RightsType
  <2>2. [id |-> 0, out |-> FALSE] \in [id : 0 .. MaxIds, out : BOOLEAN]
    BY RightsAssumption
  <2>3. CASE principals'[p] = principals[p]
    BY <2>1, <2>3
  <2>4. CASE principals'[p] = [id |-> 0, out |-> FALSE]
    BY <2>2, <2>4
  <2> QED BY <2>3, <2>4
<1>3. RightsType'
  <2>1. principals' \in [Persons -> [id : 0 .. MaxIds, out : BOOLEAN]]
    BY <1>2
  <2> QED BY <1>0, <2>1 DEF RightsType
<1>4. Asked' /\ OnlyAskersErased'
  BY <1>2, AsksStay
<1>5. /\ \A s \in Slots : slots'[s].at = "idle"
      /\ tool'.at = "idle" /\ ~Shared'
  BY DEF Shared, Readers
<1>6. Entered'
  BY <1>5 DEF Entered
<1> QED BY <1>1, <1>3, <1>4, <1>6 DEF IInv

LEMMA EraseExecutesKeeps == ASSUME IInv, NEW t \in Tasks, EraseExecutes(t) PROVE IInv'
<1>0. RightsType /\ Entered
  BY DEF IInv
<1>1. /\ UNCHANGED <<issued, filed, slots, tool, awaited, service, objects>>
      /\ tasks[t].at = "runs" /\ tasks' = [tasks EXCEPT ![t].at = "over"]
      /\ authored' \subseteq authored
      /\ Concludes(tasks[t].id) \/ UNCHANGED principals
  BY DEF EraseExecutes, FailedOver
<1>2. ~Shared
  BY <1>0, <1>1 DEF Entered
<1> DEFINE new == [tasks[t] EXCEPT !.at = "over"]
<1>3. tasks[t] \in TaskSet /\ tasks' = [tasks EXCEPT ![t] = new]
  BY <1>0, <1>1 DEF RightsType
<1>4. new \in TaskSet /\ new.at = "over"
  BY <1>3 DEF TaskSet
<1> HIDE DEF new
<1>5. /\ tasks' \in [Tasks -> TaskSet]
      /\ \A u \in Tasks : tasks'[u] = IF u = t THEN new ELSE tasks[u]
  BY <1>0, <1>3, <1>4, TaskMoves
<1>6. /\ \A p \in Persons : \/ principals'[p] = principals[p]
                            \/ ~principals[p].out /\ principals'[p] = [id |-> 0, out |-> FALSE]
      /\ DOMAIN principals' = Persons /\ principals' = [p \in Persons |-> principals'[p]]
  <2>1. CASE Concludes(tasks[t].id)
    BY <2>1 DEF Concludes
  <2>2. CASE UNCHANGED principals
    BY <1>0, <2>2 DEF RightsType
  <2> QED BY <1>1, <2>1, <2>2
<1> QED BY <1>1, <1>2, <1>4, <1>5, <1>6, RowsGo DEF Pending

LEMMA SweepKeeps == ASSUME IInv, Sweep PROVE IInv'
<1>1. /\ UNCHANGED <<issued, filed, slots, tool, tasks, awaited, service, objects>>
      /\ ~Shared /\ authored' \subseteq authored
  BY DEF Sweep
<1>2. principals' = [p \in Persons |->
         IF ~principals[p].out /\ principals[p].id \notin authored'
         THEN [id |-> 0, out |-> FALSE] ELSE principals[p]]
  BY DEF Sweep
<1>3. /\ \A p \in Persons : \/ principals'[p] = principals[p]
                            \/ ~principals[p].out /\ principals'[p] = [id |-> 0, out |-> FALSE]
      /\ DOMAIN principals' = Persons /\ principals' = [p \in Persons |-> principals'[p]]
  BY <1>2
<1>4. tasks' \in [Tasks -> TaskSet]
  BY <1>1 DEF IInv, RightsType
<1> QED BY <1>1, <1>3, <1>4, RowsGo DEF Pending

\* The memory of requests lapses, the shutdown begins, ends, or is forgotten.
LEMMA AroundKeeps ==
  ASSUME IInv, Lapse \/ Shutdown \/ Leaves \/ StartsAgain \/ UNCHANGED rightsVars
  PROVE  IInv'
<1>0. RightsType /\ Entered
  BY DEF IInv
<1>1. UNCHANGED <<principals, issued, authored, objects>>
  BY DEF Lapse, Shutdown, Leaves, StartsAgain, rightsVars, rightsStore
<1>2. Rows'
  BY <1>1, RowsStay DEF IInv
<1>3. CASE Lapse \/ Shutdown \/ Leaves \/ UNCHANGED rightsVars
  <2>1. /\ UNCHANGED <<slots, tool, tasks>>
        /\ service' \in {"up", "stopping", "gone"} /\ awaited' \subseteq Tasks
    BY <1>0, <1>3 DEF Lapse, Shutdown, Leaves, rightsVars, RightsType
  <2>2. /\ filed' \in [PrincipalIds -> Persons \cup {NoPerson}]
        /\ \A id \in PrincipalIds : filed'[id] = filed[id] \/ filed'[id] = NoPerson
    BY <1>0, <1>3 DEF Lapse, Shutdown, Leaves, rightsVars, RightsType
  <2>3. RightsType'
    BY <1>0, <1>1, <2>1, <2>2 DEF RightsType
  <2>4. Asked' /\ OnlyAskersErased'
    BY <1>1, <2>1, <2>2, AsksStay DEF Pending
  <2>5. Entered'
    BY <1>0, <1>1, <2>1 DEF Entered, Shared, Readers
  <2> QED BY <1>2, <2>3, <2>4, <2>5 DEF IInv
<1>4. CASE StartsAgain
  <2>1. /\ service' = "up" /\ awaited' = {} /\ tool' = NoTool
        /\ slots' = [s \in Slots |-> Idle] /\ tasks' = [t \in Tasks |-> NoTask]
        /\ filed' = [id \in PrincipalIds |-> NoPerson]
    BY <1>4 DEF StartsAgain, NothingFiled
  <2>2. /\ NoTask \in TaskSet /\ NoTask.at = "none"
        /\ NoTool \in [at : {"idle", "resolved"}, id : 0 .. MaxIds] /\ NoTool.at = "idle"
    BY RightsAssumption DEF NoTask, TaskSet, NoTool
  <2>3. RightsType'
    BY <1>0, <1>1, <2>1, <2>2, IdleSlot DEF RightsType
  <2>4. /\ \A t \in Tasks : tasks'[t].at = "none"
        /\ \A s \in Slots : slots'[s].at = "idle"
        /\ \A id \in PrincipalIds : filed'[id] = NoPerson
    BY <2>1, <2>2, IdleSlot
  <2>5. Asked' /\ OnlyAskersErased' /\ Entered'
    BY <2>1, <2>2, <2>4 DEF Asked, Pending, OnlyAskersErased, Entered
  <2> QED BY <1>2, <2>3, <2>5 DEF IInv
<1> QED BY <1>3, <1>4

-----------------------------------------------------------------------------
(* The invariant and the theorems.                                            *)

LEMMA InitHolds == ASSUME RightsInit PROVE IInv
<1>1. /\ principals = [p \in Persons |-> [id |-> 0, out |-> FALSE]]
      /\ issued = 0 /\ authored = {} /\ tool = NoTool /\ awaited = {}
      /\ service = "up" /\ objects = {}
      /\ filed = [id \in PrincipalIds |-> NoPerson]
      /\ slots = [s \in Slots |-> Idle] /\ tasks = [t \in Tasks |-> NoTask]
  BY DEF RightsInit, NothingFiled
<1>2. /\ NoTask \in TaskSet /\ NoTask.at = "none"
      /\ NoTool \in [at : {"idle", "resolved"}, id : 0 .. MaxIds] /\ NoTool.at = "idle"
  BY RightsAssumption DEF NoTask, TaskSet, NoTool
<1>3. RightsType
  BY <1>1, <1>2, IdleSlot, RightsAssumption DEF RightsType
<1>4. Rows
  BY <1>1 DEF Rows
<1>5. /\ \A t \in Tasks : tasks[t].at = "none"
      /\ \A s \in Slots : slots[s].at = "idle"
      /\ \A id \in PrincipalIds : filed[id] = NoPerson
  BY <1>1, <1>2, IdleSlot
<1>6. Asked /\ OnlyAskersErased /\ Entered
  BY <1>1, <1>2, <1>5 DEF Asked, Pending, OnlyAskersErased, Entered
<1> QED BY <1>3, <1>4, <1>6 DEF IInv

LEMMA Invariant == RightsSpec => []IInv
<1>1. RightsInit => IInv
  BY InitHolds
<1>2. IInv /\ [RightsNext]_rightsVars => IInv'
  <2> SUFFICES ASSUME IInv, [RightsNext]_rightsVars PROVE IInv'
    OBVIOUS
  <2>1. ASSUME NEW s \in Slots, Ingestion(s) PROVE IInv'
    BY <2>1, IngestionKeeps, RightsReplyKeeps DEF Ingestion
  <2>2. ASSUME NEW t \in Tasks, Erasure(t) PROVE IInv'
    BY <2>2, EraseMovesKeeps, EraseExecutesKeeps DEF Erasure
  <2> QED BY <2>1, <2>2, DeliverKeeps, ToolResolvesKeeps, ToolActsKeeps, SweepKeeps, AroundKeeps
          DEF RightsNext
<1> QED BY <1>1, <1>2, PTL DEF RightsSpec

\* Whatever is erased, collected and issued anew meanwhile, a deletion that was
\* asked for or that a task carries names nobody but who asked for it
\* (PendingDeletions, spawn_erasure).
THEOREM OnlyWhoAsked == RightsSpec => []OnlyAskersErased
<1>1. IInv => OnlyAskersErased
  BY DEF IInv
<1> QED BY <1>1, Invariant, PTL

\* What a person sends while their objection stands is never stored: the flag
\* stays on its row through erasures and sweeps, and the first reading of it
\* drops the message (ingest).
THEOREM ObjectionHolds == RightsSpec => ObjectionOutlives
<1>1. IInv /\ [RightsNext]_rightsVars => [\A s \in Slots : Stores(s) => ~slots[s].late]_rightsVars
  BY DEF IInv, Entered, Stores
<1> QED BY <1>1, Invariant, PTL DEF RightsSpec, ObjectionOutlives
===============================================================================
