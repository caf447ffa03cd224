-------------------------------- MODULE Rights ---------------------------------
(* What one person may tell the assistant about their own data, and who else  *)
(* is at work meanwhile: ingestions with the privacy commands (core:          *)
(* assembly.rs ingest, resolve_writing_sender, rights_reply), the privacy     *)
(* tool (tools/rights.rs), confirmed erasures (spawn_erasure,                 *)
(* erase_behind_the_fence), the retention sweep's collection of unnamed       *)
(* people (retention.rs, identity.rs delete_unnamed) and the shutdown.        *)
(* One adapter, so that a person is one external id.  An ingestion holds the  *)
(* fence shared and, from its second reading on, the stamp lock.              *)
EXTENDS Naturals, FiniteSets

CONSTANTS
    Persons,          \* external ids
    Slots,           \* ingestions that may be under way at once
    NoPerson,        \* a value that is no person
    MaxIds,          \* bound: rows the identity table ever issues
    MaxAsks,         \* bound: ingestions and tool calls
    MaxErasures,     \* bound: erasures started by one run of the process
    MaxFailures      \* bound: store errors

PrincipalIds == 1 .. MaxIds

ASSUME RightsAssumption ==
    /\ IsFiniteSet(Persons) /\ IsFiniteSet(Slots) /\ NoPerson \notin Persons
    /\ {MaxIds, MaxAsks, MaxErasures, MaxFailures} \subseteq Nat

VARIABLES
    principals,      \* the identity table: [id, out], id 0 without a row
    issued,          \* the highest id it issued
    authored,        \* the ids that stored messages name
    filed,           \* PendingDeletions: the person who asked under each id, or NoPerson
    slots,           \* the ingestions: [at, who, kind, id, late]
    tool,            \* the privacy tool's call: [at, id]
    tasks,           \* the erasures started: [at, id, who]
    awaited,         \* those the shutdown took from the list; it awaits them
    service,         \* "up", "stopping" or "gone"
    objects,         \* history: the people whose objection stands
    asks, failures

rightsStore == <<principals, issued, authored>>
rightsVars  == <<rightsStore, filed, slots, tool, tasks, awaited, service,
                 objects, asks, failures>>

Kinds    == {"message", "out", "in", "delete", "confirm"}
Tasks    == 1 .. MaxErasures
Idle     == [at |-> "idle", who |-> NoPerson, kind |-> "message", id |-> 0, late |-> FALSE]
NoTool   == [at |-> "idle", id |-> 0]
NoTask   == [at |-> "none", id |-> 0, who |-> NoPerson]
NothingFiled == [id \in PrincipalIds |-> NoPerson]

RightsInit ==
    /\ principals = [p \in Persons |-> [id |-> 0, out |-> FALSE]]
    /\ issued = 0 /\ authored = {}
    /\ filed = NothingFiled
    /\ slots = [s \in Slots |-> Idle] /\ tool = NoTool
    /\ tasks = [t \in Tasks |-> NoTask] /\ awaited = {}
    /\ service = "up" /\ objects = {}
    /\ asks = 0 /\ failures = 0

Fails == failures < MaxFailures /\ failures' = failures + 1
Asks  == asks < MaxAsks /\ asks' = asks + 1

Finished(t) == tasks[t].at \in {"none", "over"}

-----------------------------------------------------------------------------
(* The erasure fence: shared by ingestions and the tool, exclusive for an     *)
(* erasure or a sweep, and handed out in the order it was asked for.          *)

Readers == {s \in Slots : slots[s].at # "idle"}
Shared  == Readers # {} \/ tool.at # "idle"
Held    == \E t \in Tasks : tasks[t].at = "runs"
Waiting == \E t \in Tasks : tasks[t].at = "waits"

MayEnter == service # "gone" /\ ~Held /\ ~Waiting
StampFree == \A s \in Slots : slots[s].at \notin {"locked", "recorded"}

Ends(s) == slots' = [slots EXCEPT ![s] = Idle]

(* An ingestion that fails is not acknowledged; it comes again as a new one.  *)
IngestionFails(s) ==
    /\ slots[s].at \in {"read", "locked"} /\ Fails /\ Ends(s)
    /\ UNCHANGED <<rightsStore, filed, tool, tasks, awaited, service, objects, asks>>

-----------------------------------------------------------------------------
(* One ingestion.                                                             *)

\* Faulty variant: the freed id is reissued.
IssuedAgain == CHOOSE n \in 1 .. MaxIds + 1 :
    /\ \A p \in Persons : principals[p].id # n
    /\ \A m \in 1 .. n - 1 : \E p \in Persons : principals[p].id = m

(* AUTOINCREMENT: an id is issued once.                                       *)
NextId == issued + 1

(* The row of a person, a new one where there is none.                        *)
Resolve(p) ==
    IF principals[p].id # 0
    THEN UNCHANGED <<principals, issued>>
    ELSE /\ NextId <= MaxIds
         /\ principals' = [principals EXCEPT ![p].id = NextId]
         /\ issued' = IF NextId > issued THEN NextId ELSE issued

(* Under the fence the standing is read, and the sender resolved; what an     *)
(* opted-out person sends is dropped here, their privacy commands excepted.   *)
Deliver(s, p, kind) ==
    /\ MayEnter /\ slots[s].at = "idle" /\ Asks
    /\ principals[p].out => kind # "message"
    /\ Resolve(p)
    /\ slots' = [slots EXCEPT ![s] =
         [at |-> "read", who |-> p, kind |-> kind, id |-> principals'[p].id,
          late |-> p \in objects]]
    /\ UNCHANGED <<authored, filed, tool, tasks, awaited, service, objects, failures>>

(* The stamp lock, and the second reading of the flag.                        *)
SuppressedUnderLock(s) == slots[s].kind = "message" /\ principals[slots[s].who].out

Lock(s) ==
    /\ slots[s].at = "read" /\ StampFree
    /\ IF SuppressedUnderLock(s) THEN Ends(s)
       ELSE slots' = [slots EXCEPT ![s].at = "locked"]
    /\ UNCHANGED <<rightsStore, filed, tool, tasks, awaited, service, objects,
                   asks, failures>>

StoreMessage(s) ==
    /\ slots[s].at = "locked"
    /\ authored' = authored \cup {slots[s].id}
    /\ slots' = [slots EXCEPT ![s].at = "recorded"]
    /\ UNCHANGED <<principals, issued, filed, tool, tasks, awaited, service,
                   objects, asks, failures>>

SetsFlag(id, out) ==
    /\ principals' = [p \in Persons |->
         IF principals[p].id = id THEN [principals[p] EXCEPT !.out = out] ELSE principals[p]]
    /\ objects' = LET who == {p \in Persons : principals[p].id = id}
                  IN  IF out THEN objects \cup who ELSE objects \ who

Owner(id) == CHOOSE p \in Persons : principals[p].id = id

(* A shutdown already begun files nothing.                                    *)
Files(id) ==
    filed' = IF service = "up" THEN [filed EXCEPT ![id] = Owner(id)] ELSE filed

(* Decided under the lock the shutdown takes the list under.                  *)
StartsErasures == service = "up"

(* What is filed is consumed; finished tasks leave the list.                  *)
Confirms(id) ==
    /\ filed' = [filed EXCEPT ![id] = NoPerson]
    /\ IF filed[id] = NoPerson \/ ~StartsErasures THEN UNCHANGED tasks
       ELSE \E t \in Tasks :
              /\ Finished(t) /\ \A u \in Tasks : u < t => ~Finished(u)
              /\ tasks' = [tasks EXCEPT ![t] = [at |-> "spawned", id |-> id, who |-> filed[id]]]

Nothing == UNCHANGED <<principals, objects, filed, tasks>>

(* The command's change, made when the person's reply window grants a reply   *)
(* and the write succeeds, and not at all otherwise.                          *)
Change(kind, id) ==
    \/ kind \in {"out", "in"} /\ SetsFlag(id, kind = "out") /\ UNCHANGED <<filed, tasks>>
    \/ kind = "delete" /\ Files(id) /\ UNCHANGED <<principals, objects, tasks>>
    \/ kind = "confirm" /\ Confirms(id) /\ UNCHANGED <<principals, objects>>

RightsReply(s) ==
    /\ slots[s].at = "recorded"
    /\ \/ Change(slots[s].kind, slots[s].id) /\ UNCHANGED failures
       \/ slots[s].kind = "message" /\ Nothing /\ UNCHANGED failures
       \/ slots[s].kind # "message" /\ Fails /\ Nothing
    /\ Ends(s)
    /\ UNCHANGED <<issued, authored, tool, awaited, service, asks>>

-----------------------------------------------------------------------------
(* The privacy tool, in a turn one person's message summoned: the person is   *)
(* read from the ledger under the fence, and the row must exist.  It does not *)
(* take the stamp lock.                                                       *)

ToolResolves ==
    /\ MayEnter /\ tool.at = "idle" /\ Asks
    /\ \E id \in authored :
         /\ \E p \in Persons : principals[p].id = id
         /\ tool' = [at |-> "resolved", id |-> id]
    /\ UNCHANGED <<rightsStore, filed, slots, tasks, awaited, service, objects,
                   failures>>

ToolActs ==
    /\ tool.at = "resolved"
    /\ \/ \E kind \in {"out", "delete"} : Change(kind, tool.id) /\ UNCHANGED failures
       \/ Fails /\ Nothing
    /\ tool' = NoTool
    /\ UNCHANGED <<issued, authored, slots, awaited, service, asks>>

-----------------------------------------------------------------------------
(* A confirmed erasure, a task of its own.                                    *)

EraseAsks(t) ==
    /\ tasks[t].at = "spawned"
    /\ tasks' = [tasks EXCEPT ![t].at = "waits"]
    /\ UNCHANGED <<rightsStore, filed, slots, tool, awaited, service, objects,
                   asks, failures>>

EraseBegins(t) ==
    /\ tasks[t].at = "waits" /\ ~Shared /\ ~Held
    /\ tasks' = [tasks EXCEPT ![t].at = "runs"]
    /\ UNCHANGED <<rightsStore, filed, slots, tool, awaited, service, objects,
                   asks, failures>>

\* Faulty variant: the flag goes with the row it stands on.
ConcludesWhole(id) ==
    principals' = [p \in Persons |->
        IF principals[p].id = id THEN [id |-> 0, out |-> FALSE] ELSE principals[p]]

(* A flagged row stays, so that the objection outlives the deletion.          *)
Concludes(id) ==
    principals' = [p \in Persons |->
        IF principals[p].id = id /\ ~principals[p].out
        THEN [id |-> 0, out |-> FALSE] ELSE principals[p]]

\* Faulty variant: an erasure that fails never ends.
FailedOn(t) == tasks' = [tasks EXCEPT ![t].at = "failed"]

(* The fence goes with the task's future, whichever way it ends.              *)
FailedOver(t) == tasks' = [tasks EXCEPT ![t].at = "over"]

(* Content first, the row last; a store error ends it in between.             *)
EraseExecutes(t) ==
    /\ tasks[t].at = "runs"
    /\ \/ /\ authored' = authored \ {tasks[t].id}
          /\ Concludes(tasks[t].id)
          /\ tasks' = [tasks EXCEPT ![t].at = "over"]
          /\ UNCHANGED failures
       \/ /\ Fails /\ FailedOver(t)
          /\ authored' \in {authored, authored \ {tasks[t].id}}
          /\ UNCHANGED principals
    /\ UNCHANGED <<issued, filed, slots, tool, awaited, service, objects, asks>>

-----------------------------------------------------------------------------
(* Around them.                                                               *)

(* Under the fence whole: what expired goes, then the rows nothing names.     *)
Sweep ==
    /\ MayEnter /\ ~Shared
    /\ authored' \in SUBSET authored
    /\ principals' = [p \in Persons |->
         IF ~principals[p].out /\ principals[p].id \notin authored'
         THEN [id |-> 0, out |-> FALSE] ELSE principals[p]]
    /\ <<authored', principals'>> # <<authored, principals>>
    /\ UNCHANGED <<issued, filed, slots, tool, tasks, awaited, service, objects,
                   asks, failures>>

(* The confirm window passes, or the memory reaches its cap and is cleared.   *)
Lapse ==
    /\ \E gone \in {{id} : id \in PrincipalIds} \cup {PrincipalIds} :
         /\ \E id \in gone : filed[id] # NoPerson
         /\ filed' = [id \in PrincipalIds |-> IF id \in gone THEN NoPerson ELSE filed[id]]
    /\ UNCHANGED <<rightsStore, slots, tool, tasks, awaited, service, objects,
                   asks, failures>>

Shutdown ==
    /\ service = "up" /\ asks > 0
    /\ service' = "stopping"
    /\ awaited' = {t \in Tasks : ~Finished(t)}
    /\ UNCHANGED <<rightsStore, filed, slots, tool, tasks, objects, asks, failures>>

(* The process ends once what it awaits is over, whatever else is under way.  *)
Leaves ==
    /\ service = "stopping" /\ \A t \in awaited : tasks[t].at = "over"
    /\ service' = "gone"
    /\ UNCHANGED <<rightsStore, filed, slots, tool, tasks, awaited, objects,
                   asks, failures>>

StartsAgain ==
    /\ service = "gone"
    /\ service' = "up"
    /\ filed' = NothingFiled /\ awaited' = {}
    /\ slots' = [s \in Slots |-> Idle] /\ tool' = NoTool /\ tasks' = [t \in Tasks |-> NoTask]
    /\ UNCHANGED <<rightsStore, objects, asks, failures>>

Ingestion(s) == IngestionFails(s) \/ Lock(s) \/ StoreMessage(s) \/ RightsReply(s)
Erasure(t)   == EraseAsks(t) \/ EraseBegins(t) \/ EraseExecutes(t)

RightsNext ==
    \/ \E s \in Slots, p \in Persons, kind \in Kinds : Deliver(s, p, kind)
    \/ service # "gone" /\ \E s \in Slots : Ingestion(s)
    \/ service # "gone" /\ \E t \in Tasks : Erasure(t)
    \/ ToolResolves \/ (service # "gone" /\ ToolActs)
    \/ Sweep \/ Lapse \/ Shutdown \/ Leaves \/ StartsAgain

RightsSpec == RightsInit /\ [][RightsNext]_rightsVars

(* Every task the runtime holds is run; the shutdown awaits without a bound.  *)
RightsFairness ==
    /\ \A s \in Slots : WF_rightsVars(service # "gone" /\ Ingestion(s))
    /\ \A t \in Tasks : WF_rightsVars(service # "gone" /\ Erasure(t))
    /\ WF_rightsVars(service # "gone" /\ ToolActs) /\ WF_rightsVars(Leaves)

RightsFairSpec == RightsSpec /\ RightsFairness

-----------------------------------------------------------------------------
(* Properties.                                                                *)

(* A deletion that was asked for, or was confirmed and waits for the fence,   *)
(* names nobody but the person who asked: rows may be erased, collected and   *)
(* issued anew meanwhile, and a request outlives the row it was filed under.  *)
OnlyAskersErased ==
    /\ \A id \in PrincipalIds, p \in Persons :
         filed[id] # NoPerson /\ principals[p].id = id => filed[id] = p
    /\ \A t \in Tasks, p \in Persons :
         tasks[t].at \in {"spawned", "waits", "runs"} /\ principals[p].id = tasks[t].id
            => tasks[t].who = p

Stores(s) == slots[s].at = "locked" /\ slots'[s].at = "recorded" /\ slots[s].kind = "message"

(* What a person sends while their objection stands is not stored, after an   *)
(* erasure, a sweep or a restart either: the flag is what outlives a deletion.*)
ObjectionOutlives == [][\A s \in Slots : Stores(s) => ~slots[s].late]_rightsVars

(* From the moment the flag stands nothing of the person is stored, what was  *)
(* already being ingested included.                                           *)
FromThatMoment == [][\A s \in Slots : Stores(s) => slots[s].who \notin objects]_rightsVars

(* A shutdown ends, whatever is at the fence before the erasures it awaits;   *)
(* and by then every erasure a person was told has started is over.           *)
ShutdownEnds ==
    service = "stopping" ~> (service = "gone" /\ \A t \in Tasks : Finished(t))
=============================================================================
