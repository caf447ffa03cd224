----------------------------- MODULE ServiceProofs ------------------------------
(***************************************************************************)
(* The parts of the service around its sessions, each for every value of   *)
(* its constants: that updates are taken, messages sent and revised, pages *)
(* searched, summaries captured, writing signalled, streams settled        *)
(* and answers taken back as the properties of their modules say.          *)
(* The modules share no variable; the proofs use none of one another.      *)
(***************************************************************************)
EXTENDS Intake, AutoCompaction, Capture, Wire, Revisions, Search, Composing,
        Streams, Retraction, FiniteSetTheorems, SequenceTheorems,
        NaturalsInduction, WellFoundedInduction, TLAPS

-----------------------------------------------------------------------------
\* Intake: the poll, the webhook and the consumer of one platform.

Ingestions == [update : Nat, run : Nat, by : {"poll", "hook", "down"}]
Deliveries == [update : Nat, heard : BOOLEAN]

(* Some ingestion of these took the update.                                   *)
TakenIn(some, u) == \E i \in 1 .. Len(some) : some[i].update = u

IntakeTyped ==
    /\ arrived \in Nat /\ pending \subseteq 1 .. arrived
    /\ feeder \in {"poll", "hook", "down"} /\ run \in Nat
    /\ file \in Nat /\ next \in Nat /\ batch \in Seq(Nat)
    /\ queue \in Seq(Deliveries) /\ known \in Seq(Nat) /\ log \in Seq(Ingestions)

(* What is below an offset, asked for or written, was ingested, and so was    *)
(* what a batch leaves out of what it goes past.                              *)
NoneLost ==
    /\ \A u \in 1 .. arrived : u \in pending \/ TakenIn(log, u)
    /\ \A u \in Nat \ {0} : u < file \/ u < next => TakenIn(log, u)
    /\ \A i \in 1 .. Len(batch) :
          /\ next <= batch[i]
          /\ \A u \in 1 .. batch[i] : TakenIn(log, u) \/ \E j \in 1 .. i : batch[j] = u
          /\ \A j \in 1 .. Len(batch) : i < j => batch[i] < batch[j]
    /\ \A i \in 1 .. Len(known) : TakenIn(log, known[i])

(* A poll's offset is past what its run ingested; and what the consumer       *)
(* remembers is the newest of what its run ingested, all of it while there is *)
(* room.                                                                      *)
NoneTwice ==
    /\ \A i \in 1 .. Len(log) : log[i].run <= run
    /\ feeder = "poll" =>
          \A i \in 1 .. Len(log) : log[i].run = run => log[i].update < next
    /\ Len(known) <= Memory
    /\ feeder = "hook" =>
          /\ Len(known) <= Len(log)
          /\ \A x \in 1 .. Len(known) : log[Len(log) - Len(known) + x].update = known[x]
          /\ Len(known) < Memory =>
                \A i \in 1 .. Len(log) : log[i].run = run => i > Len(log) - Len(known)
    /\ \A i, j \in 1 .. Len(log) : i < j /\ log[i].by = log[j].by /\ log[i].run = log[j].run =>
          IF log[i].by = "poll" THEN log[i].update < log[j].update
          ELSE log[i].update = log[j].update => j - i > Memory

IntakeInv == IntakeTyped /\ NoneLost /\ NoneTwice

LEMMA IngestedIs == ASSUME log \in Seq(Ingestions), NEW u 
  PROVE  Ingested(u) <=> TakenIn(log, u)
BY DEF Ingested, TakenIn

\* What an ingestion adds, and keeps.
LEMMA IngestAdds ==
  ASSUME log \in Seq(Ingestions), NEW u \in Nat, Ingest(u), run \in Nat,
         feeder \in {"poll", "hook", "down"}
  PROVE  /\ log' \in Seq(Ingestions) /\ Len(log') = Len(log) + 1 /\ Len(log) \in Nat
         /\ \A i \in 1 .. Len(log) : log'[i] = log[i] /\ log[i] \in Ingestions
         /\ log'[Len(log) + 1].update = u /\ log'[Len(log) + 1].run = run
         /\ log'[Len(log) + 1].by = feeder
         /\ \A v : TakenIn(log, v) => TakenIn(log', v)
         /\ TakenIn(log', u)
<1> DEFINE entry == [update |-> u, run |-> run, by |-> feeder]
<1>1. entry \in Ingestions /\ entry.update = u /\ entry.run = run /\ entry.by = feeder
  BY DEF Ingestions
<1> HIDE DEF entry
<1>2. log' = Append(log, entry)
  BY DEF Ingest, entry
<1>3. log' \in Seq(Ingestions) /\ Len(log') = Len(log) + 1 /\ Len(log) \in Nat
      /\ \A i \in 1 .. Len(log) : log'[i] = log[i] /\ log[i] \in Ingestions
  BY <1>1, <1>2
<1>4. log'[Len(log) + 1] = entry
  BY <1>2
<1>5. DOMAIN log = 1 .. Len(log) /\ DOMAIN log' = 1 .. Len(log')
  BY <1>3
<1>6. \A v : TakenIn(log, v) => TakenIn(log', v)
  BY <1>3, <1>5 DEF TakenIn
<1>7. TakenIn(log', u)
  BY <1>1, <1>3, <1>4, <1>5 DEF TakenIn
<1> QED BY <1>1, <1>3, <1>4, <1>6, <1>7

LEMMA NoneIngestedTwice ==
  ASSUME IntakeInv, NEW u \in Nat, Ingest(u), UNCHANGED run,
         \/ feeder = "poll" /\ next <= u
         \/ feeder = "hook" /\ u \notin ToSet(known)
  PROVE  \A i, j \in 1 .. Len(log') : i < j /\ log'[i].by = log'[j].by /\ log'[i].run = log'[j].run =>
            IF log'[i].by = "poll" THEN log'[i].update < log'[j].update
            ELSE log'[i].update = log'[j].update => j - i > Memory
<1>1. /\ log' \in Seq(Ingestions) /\ Len(log') = Len(log) + 1 /\ Len(log) \in Nat
      /\ \A i \in 1 .. Len(log) : log'[i] = log[i] /\ log[i] \in Ingestions
      /\ log'[Len(log) + 1].update = u /\ log'[Len(log) + 1].run = run
      /\ log'[Len(log) + 1].by = feeder
  BY IngestAdds DEF IntakeInv, IntakeTyped
<1> SUFFICES ASSUME NEW i \in 1 .. Len(log'), NEW j \in 1 .. Len(log'),
                    i < j, log'[i].by = log'[j].by, log'[i].run = log'[j].run
             PROVE  IF log'[i].by = "poll" THEN log'[i].update < log'[j].update
                    ELSE log'[i].update = log'[j].update => j - i > Memory
  OBVIOUS
<1>2. i \in 1 .. Len(log)
  BY <1>1
<1>3. CASE j \in 1 .. Len(log)
  BY <1>1, <1>2, <1>3 DEF IntakeInv, NoneTwice
<1>4. CASE j = Len(log) + 1 /\ feeder = "poll"
  <2>1. log[i].run = run /\ feeder = "poll" /\ next <= u
    BY <1>1, <1>2, <1>4
  <2>2. log[i].update < next /\ log[i] \in Ingestions /\ next \in Nat
    BY <1>1, <1>2, <1>4, <2>1 DEF IntakeInv, NoneTwice, IntakeTyped
  <2>3. log[i].update \in Nat
    BY <2>2 DEF Ingestions
  <2>4. log[i].update < u
    BY <2>1, <2>2, <2>3
  <2> QED BY <1>1, <1>2, <1>4, <2>4
<1>5. CASE j = Len(log) + 1 /\ feeder = "hook"
  <2> SUFFICES ASSUME log[i].update = u PROVE j - i > Memory
    BY <1>1, <1>2, <1>5
  <2> DEFINE k == Len(known)
             n == Len(log)
  <2>1. log[i].run = run /\ k \in Nat /\ n \in Nat /\ k <= Memory /\ k <= n /\ Memory \in Nat
    BY SMTT(30), <1>1, <1>2, <1>5, IntakeAssumption DEF IntakeInv, NoneTwice, IntakeTyped
  <2>2. ~(i > n - k)
    <3> SUFFICES ASSUME i > n - k PROVE FALSE
      OBVIOUS
    <3>1. i - (n - k) \in 1 .. k /\ n - k + (i - (n - k)) = i
      BY <1>2, <2>1
    <3>2. known[i - (n - k)] = log[i].update
      BY <1>5, <3>1 DEF IntakeInv, NoneTwice
    <3>3. known[i - (n - k)] \in ToSet(known)
      BY <3>1 DEF ToSet, IntakeInv, IntakeTyped
    <3> QED BY <1>5, <3>2, <3>3
  <2>3. k = Memory
    BY <1>2, <1>5, <2>1, <2>2 DEF IntakeInv, NoneTwice
  <2> QED BY <1>2, <1>5, <2>1, <2>2, <2>3
<1> QED BY <1>1, <1>3, <1>4, <1>5

LEMMA FreshKeeps ==
  ASSUME IntakeInv, NEW offset \in {0, file}, Fresh(offset),
         UNCHANGED <<fromPlatform, file, log>>,
         \/ feeder' \in {"poll", "hook"} /\ run' = run + 1
         \/ feeder' = "down" /\ run' = run
  PROVE  IntakeInv'
<1>1. /\ next' = offset /\ batch' = <<>> /\ queue' = <<>> /\ known' = <<>>
      /\ arrived' = arrived /\ pending' = pending /\ file' = file /\ log' = log
  BY DEF Fresh, fromPlatform
<1>2. IntakeTyped'
  BY <1>1 DEF IntakeInv, IntakeTyped
<1>3. NoneLost'
  <2>1. Len(batch') = 0 /\ Len(known') = 0
    BY <1>1
  <2> QED BY <1>1, <2>1 DEF IntakeInv, NoneLost, IntakeTyped
<1>4. NoneTwice'
  <2>1. Len(known') = 0 /\ Memory \in Nat \ {0} /\ Len(log) \in Nat
    BY <1>1, IntakeAssumption DEF IntakeInv, IntakeTyped
  <2>2. \A i \in 1 .. Len(log) : log[i].run \in Nat
    <3>1. \A i \in 1 .. Len(log) : log[i] \in Ingestions
      BY DEF IntakeInv, IntakeTyped
    <3> QED BY <3>1 DEF Ingestions
  <2>3. \A i \in 1 .. Len(log) : log[i].run <= run' /\ (run' = run + 1 => log[i].run # run')
    BY <2>2 DEF IntakeInv, NoneTwice, IntakeTyped
  <2> QED BY <1>1, <2>1, <2>3 DEF IntakeInv, NoneTwice
<1> QED BY <1>2, <1>3, <1>4 DEF IntakeInv

LEMMA GetUpdatesKeeps ==
  ASSUME IntakeInv, GetUpdates
  PROVE  IntakeInv'
<1>1. /\ UNCHANGED <<arrived, feeder, run, file, next, ending, queue, known, log>>
      /\ pending' = {u \in pending : u >= next}
      /\ feeder = "poll" /\ (batch' = batch \/ batch' \in InOrder(pending'))
  BY DEF GetUpdates, hook
<1>2. \A u \in 1 .. arrived : u \in pending' \/ TakenIn(log, u)
  <2>1. ASSUME NEW u \in 1 .. arrived, u \in pending, u \notin pending' PROVE TakenIn(log, u)
    <3>1. u \in Nat \ {0} /\ u < next
      BY <1>1, <2>1 DEF IntakeInv, IntakeTyped
    <3> QED BY <3>1 DEF IntakeInv, NoneLost
  <2> QED BY <2>1 DEF IntakeInv, NoneLost
<1>3. ASSUME batch' \in InOrder(pending')
      PROVE  /\ batch' \in Seq(Nat)
             /\ \A i \in 1 .. Len(batch') :
                   /\ next <= batch'[i]
                   /\ \A u \in 1 .. batch'[i] : TakenIn(log, u) \/ \E j \in 1 .. i : batch'[j] = u
                   /\ \A j \in 1 .. Len(batch') : i < j => batch'[i] < batch'[j]
  <2>0. /\ pending' \subseteq 1 .. arrived /\ 1 \in Int /\ arrived \in Int
        /\ \A u \in pending' : next <= u
    <3>1. pending \subseteq 1 .. arrived /\ arrived \in Nat /\ next \in Nat
      BY DEF IntakeInv, IntakeTyped
    <3>2. \A u \in pending' : u \in pending /\ u >= next
      BY <1>1
    <3>3. \A u \in pending : u \in 1 .. arrived
      BY <3>1
    <3>4. \A u \in 1 .. arrived : u >= next => next <= u
      BY <3>1
    <3>5. arrived \in Int /\ 1 \in Int
      BY <3>1
    <3>6. pending' \subseteq 1 .. arrived
      BY <3>2, <3>3
    <3>7. \A u \in pending' : next <= u
      BY <3>2, <3>4, <3>6
    <3> QED BY <3>5, <3>6, <3>7
  <2> DEFINE n == Cardinality(pending')
  <2>1. n \in Nat
    <3>1. IsFiniteSet(1 .. arrived)
      BY <2>0, FS_Interval
    <3>2. IsFiniteSet(pending')
      BY <2>0, <3>1, FS_Subset
    <3> QED BY <3>2, FS_CardinalityType
  <2>2. /\ batch' \in [1 .. n -> pending'] /\ ToSet(batch') = pending'
        /\ \A i, j \in DOMAIN batch' : i < j => batch'[i] < batch'[j]
    BY <1>3 DEF InOrder
  <2>3. pending' \subseteq Nat /\ arrived \in Nat /\ \A u \in pending' : u \in 1 .. arrived /\ next <= u
    <3>1. arrived \in Nat
      BY DEF IntakeInv, IntakeTyped
    <3> QED BY <2>0, <3>1
  <2> HIDE DEF n
  <2>4. batch' \in Seq(Nat) /\ Len(batch') = n /\ DOMAIN batch' = 1 .. n
    <3>1. batch' \in [1 .. n -> Nat]
      BY <2>2, <2>3
    <3> QED BY <2>1, <3>1
  <2>5. ASSUME NEW i \in 1 .. n, NEW u \in 1 .. batch'[i], ~TakenIn(log, u)
        PROVE  \E j \in 1 .. i : batch'[j] = u
    <3>0. batch'[i] \in pending'
      BY <2>2, <2>5
    <3>1. batch'[i] \in 1 .. arrived /\ u \in 1 .. arrived
      <4>1. PICK b \in 1 .. arrived : b = batch'[i]
        BY <2>3, <3>0
      <4>2. u \in 1 .. b /\ arrived \in Nat
        BY <2>3, <2>5, <4>1
      <4>3. u \in 1 .. arrived
        BY <4>1, <4>2
      <4> QED BY <4>1, <4>3
    <3>2. u \in ToSet(batch')
      BY <1>2, <2>2, <2>5, <3>1
    <3>3. PICK j \in 1 .. n : batch'[j] = u
      BY <2>4, <3>2 DEF ToSet
    <3>4. ~(i < j)
      <4>1. batch'[i] \in Nat /\ u \in Nat /\ u <= batch'[i]
        BY <2>3, <2>5, <3>1
      <4> QED BY <2>2, <2>4, <3>3, <4>1
    <3>5. j \in 1 .. i
      BY <2>1, <3>4
    <3> QED BY <3>3, <3>5
  <2>6. \A i \in 1 .. n : next <= batch'[i]
    BY <2>2, <2>3
  <2> QED BY <2>2, <2>4, <2>5, <2>6
<1>4. NoneLost'
  <2>1. \A i \in 1 .. Len(batch') :
           /\ next <= batch'[i]
           /\ \A u \in 1 .. batch'[i] : TakenIn(log, u) \/ \E j \in 1 .. i : batch'[j] = u
           /\ \A j \in 1 .. Len(batch') : i < j => batch'[i] < batch'[j]
    BY <1>1, <1>3 DEF IntakeInv, NoneLost
  <2> QED BY <1>1, <1>2, <2>1 DEF IntakeInv, NoneLost
<1>5. IntakeTyped'
  BY <1>1, <1>3 DEF IntakeInv, IntakeTyped
<1>6. NoneTwice'
  BY <1>1 DEF IntakeInv, NoneTwice
<1> QED BY <1>4, <1>5, <1>6 DEF IntakeInv

LEMMA TakeKeeps ==
  ASSUME IntakeInv, Take
  PROVE  IntakeInv'
<1>1. /\ UNCHANGED <<arrived, pending, feeder, run, file, queue, known>>
      /\ feeder = "poll" /\ batch # <<>> /\ batch \in Seq(Nat)
  BY DEF Take, fromPlatform, hook, IntakeInv, IntakeTyped
<1>2. CASE /\ Ingest(Head(batch)) /\ next' = Past(Head(batch)) /\ batch' = Tail(batch)
  <2> DEFINE u == Head(batch)
  <2>1. /\ u \in Nat /\ u = batch[1] /\ Len(batch) \in Nat /\ 1 \in 1 .. Len(batch)
        /\ batch' \in Seq(Nat) /\ Len(batch') = Len(batch) - 1
        /\ \A i \in 1 .. Len(batch') : batch'[i] = batch[i + 1] /\ i + 1 \in 1 .. Len(batch)
    BY <1>1, <1>2
  <2>2. next <= u /\ next' = u + 1 /\ next \in Nat
    BY <1>2, <2>1 DEF Past, IntakeInv, NoneLost, IntakeTyped
  <2>3. /\ log' \in Seq(Ingestions) /\ Len(log') = Len(log) + 1 /\ Len(log) \in Nat
        /\ \A i \in 1 .. Len(log) : log'[i] = log[i] /\ log[i] \in Ingestions
        /\ log'[Len(log) + 1].update = u /\ log'[Len(log) + 1].run = run
        /\ \A v : TakenIn(log, v) => TakenIn(log', v)
        /\ TakenIn(log', u)
    BY <1>1, <1>2, <2>1, IngestAdds DEF IntakeInv, IntakeTyped
  <2> HIDE DEF u
  <2>4. IntakeTyped'
    BY SMTT(30), <1>1, <2>1, <2>2, <2>3 DEF IntakeInv, IntakeTyped
  <2>5. NoneLost'
    <3>1. \A v \in 1 .. arrived : v \in pending \/ TakenIn(log', v)
      BY <2>3 DEF IntakeInv, NoneLost
    <3>2. ASSUME NEW v \in Nat \ {0}, v < file \/ v < next' PROVE TakenIn(log', v)
      <4>1. CASE v < file
        BY <2>3, <4>1 DEF IntakeInv, NoneLost
      <4>2. CASE v < next'
        <5>1. v \in 1 .. u
          BY <2>1, <2>2, <4>2
        <5>2. TakenIn(log, v) \/ \E j \in 1 .. 1 : batch[j] = v
          BY <2>1, <5>1 DEF IntakeInv, NoneLost
        <5> QED BY <2>1, <2>3, <5>2
      <4> QED BY <3>2, <4>1, <4>2
    <3>3. ASSUME NEW i \in 1 .. Len(batch')
          PROVE  /\ next' <= batch'[i]
                 /\ \A v \in 1 .. batch'[i] : TakenIn(log', v) \/ \E j \in 1 .. i : batch'[j] = v
                 /\ \A j \in 1 .. Len(batch') : i < j => batch'[i] < batch'[j]
      <4>1. batch'[i] = batch[i + 1] /\ i + 1 \in 1 .. Len(batch) /\ 1 < i + 1 /\ batch[i + 1] \in Nat
        BY SMTT(30), <1>1, <2>1
      <4>2. batch[1] < batch[i + 1]
        BY <2>1, <4>1 DEF IntakeInv, NoneLost
      <4>3. next' <= batch'[i]
        BY <2>1, <2>2, <4>1, <4>2
      <4>4. ASSUME NEW v \in 1 .. batch'[i], ~TakenIn(log', v)
            PROVE  \E j \in 1 .. i : batch'[j] = v
        <5>1. ~TakenIn(log, v) /\ v # u
          BY <2>3, <4>4
        <5>2. PICK j \in 1 .. i + 1 : batch[j] = v
          BY <4>1, <5>1 DEF IntakeInv, NoneLost
        <5>3. j # 1 /\ j - 1 \in 1 .. i /\ j - 1 \in 1 .. Len(batch') /\ (j - 1) + 1 = j
          BY <2>1, <5>1, <5>2
        <5>4. batch'[j - 1] = v
          BY <2>1, <5>2, <5>3
        <5> QED BY <5>3, <5>4
      <4>5. ASSUME NEW j \in 1 .. Len(batch'), i < j PROVE batch'[i] < batch'[j]
        <5>1. batch'[j] = batch[j + 1] /\ j + 1 \in 1 .. Len(batch) /\ i + 1 < j + 1
          BY <2>1, <4>5
        <5> QED BY <4>1, <5>1 DEF IntakeInv, NoneLost
      <4> QED BY <4>3, <4>4, <4>5
    <3>4. \A i \in 1 .. Len(known) : TakenIn(log', known[i])
      BY <2>3 DEF IntakeInv, NoneLost
    <3> QED BY <1>1, <3>1, <3>2, <3>3, <3>4 DEF NoneLost
  <2>6. NoneTwice'
    <3>1. \A i, j \in 1 .. Len(log') : i < j /\ log'[i].by = log'[j].by /\ log'[i].run = log'[j].run =>
            IF log'[i].by = "poll" THEN log'[i].update < log'[j].update
            ELSE log'[i].update = log'[j].update => j - i > Memory
      BY <1>1, <1>2, <2>1, <2>2, NoneIngestedTwice DEF u
    <3>2. ASSUME NEW i \in 1 .. Len(log')
          PROVE  log'[i].run <= run /\ (log'[i].run = run => log'[i].update < next')
      <4>1. CASE i \in 1 .. Len(log)
        <5>1. log[i] \in Ingestions
          BY <2>3, <4>1
        <5>2. log[i].update \in Nat
          BY <5>1 DEF Ingestions
        <5>3. log[i].run <= run /\ (log[i].run = run => log[i].update < next)
          BY <1>1, <4>1 DEF IntakeInv, NoneTwice
        <5> QED BY <2>1, <2>2, <2>3, <4>1, <5>2, <5>3
      <4>2. CASE i = Len(log) + 1
        BY SMTT(30), <2>1, <2>2, <2>3, <4>2 DEF IntakeInv, IntakeTyped
      <4> QED BY <2>3, <4>1, <4>2
    <3>3. Len(known') <= Memory
      BY <1>1 DEF IntakeInv, NoneTwice
    <3> QED BY <1>1, <3>1, <3>2, <3>3 DEF NoneTwice
  <2> QED BY <2>4, <2>5, <2>6 DEF IntakeInv
<1>3. CASE batch' = <<>> /\ UNCHANGED <<log, next>>
  <2>1. IntakeTyped'
    BY <1>1, <1>3 DEF IntakeInv, IntakeTyped
  <2>2. NoneLost'
    <3>1. Len(batch') = 0
      BY <1>3
    <3> QED BY <1>1, <1>3, <3>1 DEF IntakeInv, NoneLost
  <2>3. NoneTwice'
    BY <1>1, <1>3 DEF IntakeInv, NoneTwice
  <2> QED BY <2>1, <2>2, <2>3 DEF IntakeInv
<1> QED BY <1>2, <1>3 DEF Take, Break

LEMMA PersistKeeps ==
  ASSUME IntakeInv, Persist
  PROVE  IntakeInv'
<1>1. /\ UNCHANGED <<arrived, pending, run, next, batch, queue, known, log>>
      /\ feeder = "poll" /\ feeder' \in {"poll", "down"} /\ file' \in {file, next}
  BY DEF Persist, fromPlatform, hook
<1>2. IntakeTyped'
  BY <1>1 DEF IntakeInv, IntakeTyped
<1>3. NoneLost'
  BY <1>1 DEF IntakeInv, NoneLost
<1>4. NoneTwice'
  BY <1>1 DEF IntakeInv, NoneTwice
<1> QED BY <1>2, <1>3, <1>4 DEF IntakeInv

LEMMA HandOverKeeps ==
  ASSUME IntakeInv, NEW u \in Updates, HandOver(u)
  PROVE  IntakeInv'
<1>1. /\ UNCHANGED <<arrived, pending, feeder, run, file, next, batch, known, log>>
      /\ queue' = Append(queue, Queued(u))
  BY DEF HandOver, fromPlatform, poll
<1>2. Queued(u) \in Deliveries
  BY DEF Queued, Deliveries, Updates
<1>3. IntakeTyped'
  BY <1>1, <1>2 DEF IntakeInv, IntakeTyped
<1> QED BY <1>1, <1>3 DEF IntakeInv, NoneLost, NoneTwice

LEMMA AnswerDeadlineKeeps ==
  ASSUME IntakeInv, NEW i, AnswerDeadline(i)
  PROVE  IntakeInv'
<1>1. /\ UNCHANGED <<arrived, pending, feeder, run, file, next, batch, known, log>>
      /\ i \in DOMAIN queue /\ queue' = [queue EXCEPT ![i].heard = FALSE]
  BY DEF AnswerDeadline, fromPlatform, poll
<1>2. queue' \in Seq(Deliveries)
  <2>1. queue \in Seq(Deliveries) /\ queue[i] \in Deliveries
    BY <1>1 DEF IntakeInv, IntakeTyped
  <2>2. [queue[i] EXCEPT !.heard = FALSE] \in Deliveries
    BY <2>1 DEF Deliveries
  <2>3. queue' = [queue EXCEPT ![i] = [queue[i] EXCEPT !.heard = FALSE]]
    BY <1>1
  <2> QED BY <1>1, <2>1, <2>2, <2>3
<1>3. IntakeTyped'
  BY <1>1, <1>2 DEF IntakeInv, IntakeTyped
<1> QED BY <1>1, <1>3 DEF IntakeInv, NoneLost, NoneTwice

LEMMA RememberIs ==
  ASSUME NEW u \in Nat, known \in Seq(Nat), Len(known) <= Memory
  PROVE  /\ Remember(u) \in Seq(Nat)
         /\ Len(Remember(u)) = IF Len(known) < Memory THEN Len(known) + 1 ELSE Memory
         /\ Remember(u)[Len(Remember(u))] = u
         /\ \A x \in 1 .. Len(Remember(u)) - 1 :
               IF Len(known) < Memory
               THEN x \in 1 .. Len(known) /\ Remember(u)[x] = known[x]
               ELSE x + 1 \in 1 .. Len(known) /\ Remember(u)[x] = known[x + 1]
<1>1. Memory \in Nat \ {0}
  BY IntakeAssumption
<1>2. CASE Len(known) < Memory
  BY <1>1, <1>2 DEF Remember
<1>3. CASE ~(Len(known) < Memory)
  <2>1. Len(known) = Memory /\ known # <<>>
    BY <1>1, <1>3
  <2>2. /\ Tail(known) \in Seq(Nat) /\ Len(Tail(known)) = Memory - 1
        /\ \A x \in 1 .. Memory - 1 : Tail(known)[x] = known[x + 1]
    BY <1>1, <2>1
  <2>3. Remember(u) = Append(Tail(known), u)
    BY <1>3 DEF Remember
  <2> QED BY <1>1, <1>3, <2>1, <2>2, <2>3
<1> QED BY <1>2, <1>3

LEMMA ConsumeKeeps ==
  ASSUME IntakeInv, Consume
  PROVE  IntakeInv'
<1> DEFINE u == Head(queue).update
<1>1. /\ UNCHANGED <<arrived, run, file, next, batch>>
      /\ feeder = "hook" /\ queue # <<>>
  BY DEF Consume, poll
<1>2. u \in Nat /\ queue \in Seq(Deliveries) /\ Tail(queue) \in Seq(Deliveries)
  <2>1. queue \in Seq(Deliveries)
    BY DEF IntakeInv, IntakeTyped
  <2>2. Head(queue) \in Deliveries
    BY <1>1, <2>1
  <2> QED BY <1>1, <2>1, <2>2 DEF Deliveries
<1>3. \A v \in ToSet(known) : TakenIn(log, v)
  <2>1. known \in Seq(Nat) /\ \A i \in 1 .. Len(known) : TakenIn(log, known[i])
    BY DEF IntakeInv, NoneLost, IntakeTyped
  <2>2. ToSet(known) = {known[i] : i \in 1 .. Len(known)}
    BY <2>1 DEF ToSet
  <2> QED BY <2>1, <2>2
<1>4. CASE /\ u \in ToSet(known) /\ queue' = Tail(queue) /\ pending \ {u} \subseteq pending'
           /\ pending' \subseteq pending /\ UNCHANGED <<feeder, log, known>>
  <2>1. IntakeTyped'
    BY <1>1, <1>2, <1>4 DEF IntakeInv, IntakeTyped
  <2>2. NoneLost'
    BY <1>1, <1>3, <1>4 DEF IntakeInv, NoneLost
  <2> QED BY <1>1, <1>4, <2>1, <2>2 DEF IntakeInv, NoneTwice
<1>5. CASE /\ u \notin ToSet(known) /\ Ingest(u) /\ known' = Remember(u)
           /\ queue' = Tail(queue) /\ pending \ {u} \subseteq pending'
           /\ pending' \subseteq pending /\ feeder' = feeder
  <2>1. /\ log' \in Seq(Ingestions) /\ Len(log') = Len(log) + 1 /\ Len(log) \in Nat
        /\ \A i \in 1 .. Len(log) : log'[i] = log[i] /\ log[i] \in Ingestions
        /\ log'[Len(log) + 1].update = u /\ log'[Len(log) + 1].run = run
        /\ \A v : TakenIn(log, v) => TakenIn(log', v)
        /\ TakenIn(log', u)
    BY <1>1, <1>2, <1>5, IngestAdds DEF IntakeInv, IntakeTyped
  <2>2. /\ known \in Seq(Nat) /\ Len(known) \in Nat /\ Len(known) <= Memory /\ Memory \in Nat \ {0}
        /\ Len(known) <= Len(log)
    BY <1>1, IntakeAssumption DEF IntakeInv, IntakeTyped, NoneTwice
  <2>3. /\ known' \in Seq(Nat)
        /\ Len(known') = IF Len(known) < Memory THEN Len(known) + 1 ELSE Memory
        /\ known'[Len(known')] = u
        /\ \A x \in 1 .. Len(known') - 1 :
               IF Len(known) < Memory
               THEN x \in 1 .. Len(known) /\ known'[x] = known[x]
               ELSE x + 1 \in 1 .. Len(known) /\ known'[x] = known[x + 1]
    BY <1>2, <1>5, <2>2, RememberIs
  <2> HIDE DEF u
  <2>4. IntakeTyped'
    BY <1>1, <1>2, <1>5, <2>1, <2>3 DEF IntakeInv, IntakeTyped
  <2>5. NoneLost'
    <3>1. \A v \in 1 .. arrived : v \in pending' \/ TakenIn(log', v)
      BY <1>5, <2>1 DEF IntakeInv, NoneLost
    <3>2. ASSUME NEW x \in 1 .. Len(known') PROVE TakenIn(log', known'[x])
      <4>1. CASE x = Len(known')
        BY <2>1, <2>3, <4>1
      <4>2. CASE x # Len(known')
        <5>1. x \in 1 .. Len(known') - 1
          BY <2>2, <2>3, <4>2
        <5>2. PICK y \in 1 .. Len(known) : known'[x] = known[y]
          BY <2>3, <5>1
        <5>3. TakenIn(log, known[y])
          BY DEF IntakeInv, NoneLost
        <5> QED BY <2>1, <5>2, <5>3
      <4> QED BY <4>1, <4>2
    <3> QED BY <1>1, <2>1, <3>1, <3>2 DEF IntakeInv, NoneLost
  <2>6. NoneTwice'
    <3>1. \A i, j \in 1 .. Len(log') : i < j /\ log'[i].by = log'[j].by /\ log'[i].run = log'[j].run =>
            IF log'[i].by = "poll" THEN log'[i].update < log'[j].update
            ELSE log'[i].update = log'[j].update => j - i > Memory
      BY <1>1, <1>2, <1>5, NoneIngestedTwice
    <3>2. ASSUME NEW i \in 1 .. Len(log') PROVE log'[i].run <= run
      <4>1. i \in 1 .. Len(log) \/ i = Len(log) + 1
        BY <2>1
      <4>2. run \in Nat
        BY DEF IntakeInv, IntakeTyped
      <4> QED BY <2>1, <4>1, <4>2 DEF IntakeInv, NoneTwice
    <3>3. Len(known') <= Memory /\ Len(known') <= Len(log') /\ Len(known') \in Nat \ {0}
      BY <2>1, <2>2, <2>3
    <3>4. ASSUME NEW x \in 1 .. Len(known')
          PROVE  log'[Len(log') - Len(known') + x].update = known'[x]
      <4>1. CASE x = Len(known')
        <5>1. Len(log') - Len(known') + x = Len(log) + 1
          BY <2>1, <3>3, <4>1
        <5> QED BY <2>1, <2>3, <4>1, <5>1
      <4>2. CASE x # Len(known')
        <5>1. x \in 1 .. Len(known') - 1
          BY <3>3, <4>2
        <5>2. CASE Len(known) < Memory
          <6>1. x \in 1 .. Len(known) /\ known'[x] = known[x] /\ Len(known') = Len(known) + 1
            BY <2>3, <5>1, <5>2
          <6>2. Len(log') - Len(known') + x = Len(log) - Len(known) + x
                /\ Len(log) - Len(known) + x \in 1 .. Len(log)
            BY <2>1, <2>2, <6>1
          <6>3. log[Len(log) - Len(known) + x].update = known[x]
            BY <1>1, <6>1 DEF IntakeInv, NoneTwice
          <6> QED BY <2>1, <6>1, <6>2, <6>3
        <5>3. CASE ~(Len(known) < Memory)
          <6>1. x + 1 \in 1 .. Len(known) /\ known'[x] = known[x + 1] /\ Len(known') = Len(known)
            BY <2>2, <2>3, <5>1, <5>3
          <6>2. Len(log') - Len(known') + x = Len(log) - Len(known) + (x + 1)
                /\ Len(log) - Len(known) + (x + 1) \in 1 .. Len(log)
            BY <2>1, <2>2, <6>1
          <6>3. log[Len(log) - Len(known) + (x + 1)].update = known[x + 1]
            BY <1>1, <6>1 DEF IntakeInv, NoneTwice
          <6> QED BY <2>1, <6>1, <6>2, <6>3
        <5> QED BY <5>2, <5>3
      <4> QED BY <4>1, <4>2
    <3>5. ASSUME Len(known') < Memory, NEW i \in 1 .. Len(log'), log'[i].run = run
          PROVE  i > Len(log') - Len(known')
      <4>1. Len(known) < Memory /\ Len(known') = Len(known) + 1
        BY <2>2, <2>3, <3>5
      <4>2. i \in 1 .. Len(log) \/ i = Len(log) + 1
        BY <2>1
      <4>3. i \in 1 .. Len(log) => i > Len(log) - Len(known)
        BY <1>1, <2>1, <3>5, <4>1 DEF IntakeInv, NoneTwice
      <4> QED BY <2>1, <2>2, <4>1, <4>2, <4>3
    <3> QED BY <1>1, <1>5, <3>1, <3>2, <3>3, <3>4, <3>5 DEF NoneTwice
  <2> QED BY <2>4, <2>5, <2>6 DEF IntakeInv
<1>6. CASE /\ UNCHANGED <<pending, log>>
           /\ \/ queue' = Tail(queue) /\ UNCHANGED <<feeder, known>>
              \/ feeder' = "down" /\ queue' = <<>> /\ known' = <<>>
  <2>0. /\ known' = known \/ (feeder' = "down" /\ Len(known') = 0)
        /\ known' \in Seq(Nat) /\ queue' \in Seq(Deliveries)
        /\ feeder' = "down" \/ feeder' = feeder
    <3>1. <<>> \in Seq(Nat) /\ <<>> \in Seq(Deliveries) /\ Len(<<>>) = 0 /\ known \in Seq(Nat)
      BY DEF IntakeInv, IntakeTyped
    <3>2. CASE queue' = Tail(queue) /\ UNCHANGED <<feeder, known>>
      BY <1>2, <3>1, <3>2
    <3>3. CASE feeder' = "down" /\ queue' = <<>> /\ known' = <<>>
      BY <3>1, <3>3
    <3> QED BY <1>6, <3>2, <3>3
  <2>1. IntakeTyped'
    BY <1>1, <1>6, <2>0 DEF IntakeInv, IntakeTyped
  <2>2. NoneLost'
    BY <1>1, <1>6, <2>0 DEF IntakeInv, NoneLost
  <2>3. NoneTwice'
    <3>1. Memory \in Nat /\ Len(known') <= Memory
      BY <2>0, IntakeAssumption DEF IntakeInv, NoneTwice
    <3> QED BY <1>1, <1>6, <2>0, <3>1 DEF IntakeInv, NoneTwice
  <2> QED BY <2>1, <2>2, <2>3 DEF IntakeInv
<1> QED BY <1>4, <1>5, <1>6 DEF Consume

LEMMA ArriveKeeps ==
  ASSUME IntakeInv, Arrive
  PROVE  IntakeInv'
<1>1. /\ UNCHANGED <<feeder, run, file, next, batch, queue, known, log>>
      /\ arrived' = arrived + 1 /\ pending' = pending \cup {arrived + 1}
  BY DEF Arrive, poll, hook
<1>2. IntakeTyped'
  BY <1>1 DEF IntakeInv, IntakeTyped
<1>3. NoneLost'
  <2>1. arrived \in Nat
    BY DEF IntakeInv, IntakeTyped
  <2>2. \A u \in 1 .. arrived' : u \in 1 .. arrived \/ u = arrived + 1
    BY <1>1, <2>1
  <2>3. \A u \in 1 .. arrived' : u \in pending' \/ TakenIn(log, u)
    BY <1>1, <2>2 DEF IntakeInv, NoneLost
  <2> QED BY <1>1, <2>3 DEF IntakeInv, NoneLost
<1> QED BY <1>1, <1>2, <1>3 DEF IntakeInv, NoneTwice

LEMMA IntakeStep == IntakeInv /\ [IntakeNext]_intakeVars => IntakeInv'
<1> SUFFICES ASSUME IntakeInv, [IntakeNext]_intakeVars PROVE IntakeInv'
  OBVIOUS
<1>1. CASE Start
  <2>1. /\ run' = run + 1 /\ UNCHANGED <<fromPlatform, file, log>>
        /\ feeder' \in {"poll", "hook"}
        /\ Fresh(file) \/ Fresh(0)
    BY <1>1 DEF Start
  <2> QED BY <2>1, FreshKeeps
<1>2. CASE Crash
  <2>1. UNCHANGED <<fromPlatform, run, file, log>> /\ feeder' = "down" /\ Fresh(0)
    BY <1>2 DEF Crash
  <2>2. 0 \in {0, file} /\ run' = run /\ UNCHANGED <<fromPlatform, file, log>>
    BY <2>1
  <2> QED BY <2>1, <2>2, FreshKeeps
<1>3. CASE UNCHANGED intakeVars
  <2>1. UNCHANGED <<arrived, pending, feeder, run, file, next, batch, queue, known, log>>
    BY <1>3 DEF intakeVars, fromPlatform, poll, hook
  <2>2. IntakeTyped'
    BY <2>1 DEF IntakeInv, IntakeTyped
  <2>3. NoneLost'
    BY <2>1 DEF IntakeInv, NoneLost
  <2>4. NoneTwice'
    BY <2>1 DEF IntakeInv, NoneTwice
  <2> QED BY <2>2, <2>3, <2>4 DEF IntakeInv
<1> QED BY <1>1, <1>2, <1>3, ArriveKeeps, GetUpdatesKeeps, TakeKeeps, PersistKeeps,
           HandOverKeeps, AnswerDeadlineKeeps, ConsumeKeeps DEF IntakeNext

(* However often a run polls or listens, crashes, halts on an update, loses   *)
(* an answer or fails to write its offset: no acknowledgement runs ahead of   *)
(* the step, a run that polls takes nothing twice, and one that listens takes *)
(* an update twice only past its memory (driver.rs, webhook.rs, state.rs).    *)
THEOREM UpdatesAreTaken == IntakeSpec => []TakenOnce
<1>1. IntakeInit => IntakeInv
  <2> SUFFICES ASSUME IntakeInit PROVE IntakeInv
    OBVIOUS
  <2>1. IntakeTyped
    BY DEF IntakeInit, IntakeTyped
  <2>2. NoneLost
    BY DEF IntakeInit, NoneLost
  <2>3. NoneTwice
    BY IntakeAssumption DEF IntakeInit, NoneTwice
  <2> QED BY <2>1, <2>2, <2>3 DEF IntakeInv
<1>2. IntakeInv => TakenOnce
  <2> SUFFICES ASSUME IntakeInv PROVE TakenOnce
    OBVIOUS
  <2>1. log \in Seq(Ingestions) /\ DOMAIN log = 1 .. Len(log)
    BY DEF IntakeInv, IntakeTyped
  <2>2. NothingLost
    <3>1. \A u : TakenIn(log, u) <=> Ingested(u)
      BY <2>1, IngestedIs
    <3> QED BY <3>1 DEF NothingLost, IntakeInv, NoneLost, Updates
  <2>3. SeldomTwice
    BY <2>1 DEF SeldomTwice, IntakeInv, NoneTwice
  <2> QED BY <2>2, <2>3 DEF TakenOnce
<1> QED BY <1>1, <1>2, IntakeStep, PTL DEF IntakeSpec

-----------------------------------------------------------------------------
\* Revisions: what the rows tell of an edited or deleted message.

Texts == Wordings \cup {0}
Rows  == [about : Written, text : Texts, held : BOOLEAN]
Sendings == [what : {"message", "edited", "deletion"}, about : Written, text : Texts]

RevisionsTyped ==
    /\ shown \in [Written -> Texts]
    /\ sent \in Seq(Sendings) /\ ingestedTo \in Nat /\ savedTo \in Nat
    /\ savedTo <= ingestedTo /\ ingestedTo <= Len(sent)
    /\ \A i \in 1 .. Len(sent) :
          sent[i].what = "deletion" <=> sent[i].text = 0
    /\ versions \in Seq(Rows)

(* What the chat shows of a message is what its last update said.             *)
ShownIsLast ==
    \A i \in 1 .. Len(sent) :
        (\A j \in 1 .. Len(sent) : sent[j].about = sent[i].about => j <= i)
            => shown[sent[i].about] = sent[i].text

(* Some of a message's words were taken back.                                 *)
Back(m) == \E t \in Texts : <<m, t>> \in takenBack

(* A message of which words were taken back can be read by the session only   *)
(* where its first version was taken again, and those words only there.       *)
StaysBack ==
    /\ \A w \in takenBack : \E t \in Wordings : w[2] = t
    /\ \A i \in 1 .. Len(versions) :
          /\ <<versions[i].about, versions[i].text>> \in takenBack =>
                versions[i].about \in repeated
          /\ versions[i].held /\ versions[i].text # 0 /\ Back(versions[i].about) =>
                versions[i].about \in repeated

(* The newest row the session can read of a message.                          *)
IsNewest(rows, m, i) ==
    /\ i \in 1 .. Len(rows)
    /\ rows[i].held /\ rows[i].about = m /\ rows[i].text # 0
    /\ \A j \in 1 .. Len(rows) : rows[j].held /\ rows[j].about = m /\ rows[j].text # 0 => j <= i

(* Every update of it was ingested.                                           *)
Settled(m) == \A i \in 1 .. Len(sent) : sent[i].about = m => i <= ingestedTo

ReadsAsShown ==
    \A m \in Written : Settled(m) => \A i : IsNewest(versions, m, i) => versions[i].text = shown[m]

RevisionsInv == RevisionsTyped /\ ShownIsLast /\ StaysBack /\ ReadsAsShown

LEMMA UpdateKeeps ==
  ASSUME RevisionsInv, NEW what \in {"message", "edited", "deletion"}, NEW m \in Written,
         NEW t \in Texts, what = "deletion" <=> t = 0, Update(what, m, t)
  PROVE  RevisionsInv'
<1> DEFINE u == [what |-> what, about |-> m, text |-> t]
<1>1. u \in Sendings /\ u.what = what /\ u.about = m /\ u.text = t
  BY DEF Sendings
<1> HIDE DEF u
<1>2. /\ sent' = Append(sent, u) /\ shown' = [shown EXCEPT ![m] = t]
      /\ UNCHANGED <<ingestedTo, savedTo, versions, takenBack, repeated>>
  BY DEF Update, u
<1>3. /\ sent' \in Seq(Sendings) /\ Len(sent') = Len(sent) + 1 /\ Len(sent) \in Nat
      /\ sent'[Len(sent) + 1] = u /\ \A i \in 1 .. Len(sent) : sent'[i] = sent[i] /\ sent[i] \in Sendings
      /\ ingestedTo \in Nat /\ ingestedTo <= Len(sent)
  BY <1>1, <1>2 DEF RevisionsInv, RevisionsTyped
<1>4. \A i \in 1 .. Len(sent') : i \in 1 .. Len(sent) \/ i = Len(sent) + 1
  BY <1>3
<1>5. /\ shown' \in [Written -> Texts] /\ shown'[m] = t
      /\ \A n \in Written \ {m} : shown'[n] = shown[n]
  BY <1>2 DEF RevisionsInv, RevisionsTyped
<1>6. RevisionsTyped'
  <2>1. \A i \in 1 .. Len(sent') : sent'[i].what = "deletion" <=> sent'[i].text = 0
    BY <1>1, <1>3, <1>4 DEF RevisionsInv, RevisionsTyped
  <2> QED BY <1>2, <1>3, <1>5, <2>1 DEF RevisionsInv, RevisionsTyped
<1>7. ShownIsLast'
  <2> SUFFICES ASSUME NEW i \in 1 .. Len(sent'),
                      \A j \in 1 .. Len(sent') : sent'[j].about = sent'[i].about => j <= i
               PROVE  shown'[sent'[i].about] = sent'[i].text
    BY DEF ShownIsLast
  <2>1. CASE i = Len(sent) + 1
    BY <1>1, <1>3, <1>5, <2>1
  <2>2. CASE i \in 1 .. Len(sent)
    <3>1. sent'[i] = sent[i] /\ sent[i].about # m /\ sent[i].about \in Written
      <4>1. sent'[i] = sent[i] /\ sent[i] \in Sendings
        BY <1>3, <2>2
      <4>2. ~(Len(sent) + 1 <= i) /\ Len(sent) + 1 \in 1 .. Len(sent')
        BY <1>3, <2>2
      <4>3. sent'[i].about # m
        BY <1>1, <1>3, <4>2
      <4> QED BY <4>1, <4>3 DEF Sendings
    <3>2. \A j \in 1 .. Len(sent) : j \in 1 .. Len(sent') /\ sent'[j] = sent[j]
      BY <1>3
    <3>3. shown[sent[i].about] = sent[i].text
      BY <2>2, <3>1, <3>2 DEF RevisionsInv, ShownIsLast
    <3> QED BY <1>5, <3>1, <3>3
  <2> QED BY <1>4, <2>1, <2>2
<1>8. StaysBack'
  BY <1>2 DEF RevisionsInv, StaysBack, Back
<1>9. ReadsAsShown'
  <2> SUFFICES ASSUME NEW n \in Written, Settled(n)', NEW i, IsNewest(versions, n, i)
               PROVE  versions[i].text = shown'[n]
    BY <1>2 DEF ReadsAsShown
  <2>1. n # m
    <3> SUFFICES ASSUME n = m PROVE FALSE
      OBVIOUS
    <3>1. Len(sent) + 1 \in 1 .. Len(sent') /\ sent'[Len(sent) + 1].about = n
      BY <1>1, <1>3
    <3>2. Len(sent) + 1 <= ingestedTo
      BY <1>2, <3>1 DEF Settled
    <3> QED BY <1>3, <3>2
  <2>2. Settled(n)
    <3>1. \A j \in 1 .. Len(sent) : j \in 1 .. Len(sent') /\ sent'[j] = sent[j]
      BY <1>3
    <3> QED BY <1>2, <3>1 DEF Settled
  <2> QED BY <1>5, <2>1, <2>2 DEF RevisionsInv, ReadsAsShown
<1> QED BY <1>6, <1>7, <1>8, <1>9 DEF RevisionsInv

\* Where the updates stand: the rest of a step does not touch them.
LEMMA UpdatesStand ==
  ASSUME RevisionsInv, UNCHANGED <<shown, sent>>, ingestedTo' \in Nat, savedTo' \in Nat,
         savedTo' <= ingestedTo', ingestedTo' <= Len(sent), versions' \in Seq(Rows)
  PROVE  RevisionsTyped' /\ ShownIsLast'
BY DEF RevisionsInv, RevisionsTyped, ShownIsLast

\* A row recorded after the others.
LEMMA RecordedIs ==
  ASSUME versions \in Seq(Rows), NEW m \in Written, NEW t \in Wordings, Recorded(m, t)
  PROVE  /\ versions' \in Seq(Rows) /\ Len(versions') = Len(versions) + 1 /\ Len(versions) \in Nat
         /\ \A i \in 1 .. Len(versions) : versions'[i] = versions[i]
         /\ LET new == versions'[Len(versions) + 1] IN
            new.about = m /\ new.text = t /\ new.held
         /\ \A i \in 1 .. Len(versions') : i \in 1 .. Len(versions) \/ i = Len(versions) + 1
<1> DEFINE row == [about |-> m, text |-> t, held |-> TRUE]
<1>1. row \in Rows
  BY DEF Rows, Texts
<1>2. row.about = m /\ row.text = t /\ row.held
  OBVIOUS
<1> HIDE DEF row
<1>3. versions' = Append(versions, row)
  BY DEF Recorded, row
<1> QED BY <1>1, <1>2, <1>3

\* Rows that lose their words.
LEMMA NullsRowsIs ==
  ASSUME versions \in Seq(Rows), NEW gone, gone \subseteq DOMAIN versions, NullsRows(gone)
  PROVE  /\ versions' \in Seq(Rows) /\ Len(versions') = Len(versions)
         /\ \A i \in 1 .. Len(versions) :
               /\ i \in gone => versions'[i].text = 0
               /\ i \notin gone => versions'[i] = versions[i]
         /\ \A m : m \in repeated' <=>
               m \in repeated /\ \E i \in 1 .. Len(versions) :
                   i \notin gone /\ versions[i].about = m /\ versions[i].text # 0
<1>1. DOMAIN versions = 1 .. Len(versions) /\ Len(versions) \in Nat
  OBVIOUS
<1>2. versions' = [i \in 1 .. Len(versions) |->
                     IF i \in gone THEN [versions[i] EXCEPT !.text = 0] ELSE versions[i]]
  BY <1>1 DEF NullsRows
<1>3. \A row \in Rows : [row EXCEPT !.text = 0] \in Rows /\ [row EXCEPT !.text = 0].text = 0
  <2> TAKE row \in Rows
  <2>1. 0 \in Texts
    BY DEF Texts
  <2> QED BY <2>1 DEF Rows
<1>4. \A i \in 1 .. Len(versions) : versions[i] \in Rows
  OBVIOUS
<1>5. versions' \in [1 .. Len(versions) -> Rows]
  BY <1>2, <1>3, <1>4
<1>6. versions' \in Seq(Rows) /\ Len(versions') = Len(versions)
  BY <1>1, <1>5
<1>7. \A i \in 1 .. Len(versions) :
               /\ i \in gone => versions'[i].text = 0
               /\ i \notin gone => versions'[i] = versions[i]
  BY <1>2, <1>3, <1>4
<1>8. \A m : m \in repeated' <=>
               m \in repeated /\ \E i \in 1 .. Len(versions) :
                   i \notin gone /\ versions[i].about = m /\ versions[i].text # 0
  BY <1>1 DEF NullsRows, StillReads
<1> QED BY <1>6, <1>7, <1>8

\* A message's rows are those of the others, too, that an ingestion leaves.
LEMMA TheOthersRead ==
  ASSUME RevisionsInv, ingestedTo < Len(sent), ingestedTo' = ingestedTo + 1,
         UNCHANGED <<shown, sent>>, NEW n \in Written,
         sent[ingestedTo + 1].about # n, Settled(n)',
         \A i : IsNewest(versions', n, i) => IsNewest(versions, n, i) /\ versions'[i] = versions[i],
         NEW i, IsNewest(versions', n, i)
  PROVE  versions'[i].text = shown[n]
<1>1. Settled(n)
  <2> SUFFICES ASSUME NEW k \in 1 .. Len(sent), sent[k].about = n PROVE k <= ingestedTo
    BY DEF Settled
  <2>1. k <= ingestedTo + 1 /\ k # ingestedTo + 1
    BY DEF Settled
  <2> QED BY <2>1 DEF RevisionsInv, RevisionsTyped
<1> QED BY <1>1 DEF RevisionsInv, ReadsAsShown

LEMMA TheLastIsShown ==
  ASSUME RevisionsInv, ingestedTo < Len(sent), ingestedTo' = ingestedTo + 1, sent' = sent,
         NEW m, m = sent[ingestedTo + 1].about, Settled(m)'
  PROVE  shown[m] = sent[ingestedTo + 1].text
<1> DEFINE k == ingestedTo + 1
<1>1. k \in 1 .. Len(sent)
  BY DEF RevisionsInv, RevisionsTyped
<1>2. \A j \in 1 .. Len(sent) : sent[j].about = sent[k].about => j <= k
  BY DEF Settled
<1> QED BY <1>1, <1>2 DEF RevisionsInv, ShownIsLast

LEMMA NextUpdate ==
  ASSUME RevisionsInv, ingestedTo < Len(sent)
  PROVE  LET u == sent[ingestedTo + 1] IN
         /\ u \in Sendings /\ u.about \in Written /\ u.text \in Texts
         /\ u.what # "deletion" => u.text \in Wordings
         /\ ingestedTo + 1 \in 1 .. Len(sent)
<1>1. ingestedTo + 1 \in 1 .. Len(sent) /\ sent \in Seq(Sendings)
  BY DEF RevisionsInv, RevisionsTyped
<1>2. sent[ingestedTo + 1] \in Sendings
  BY <1>1
<1>3. sent[ingestedTo + 1].what = "deletion" <=> sent[ingestedTo + 1].text = 0
  BY <1>1 DEF RevisionsInv, RevisionsTyped
<1> QED BY <1>1, <1>2, <1>3 DEF Sendings, Texts

\* A version taken is the newest of its message, and the others stay as they were.
LEMMA RecordedReads ==
  ASSUME RevisionsInv, ingestedTo < Len(sent), ingestedTo' = ingestedTo + 1,
         UNCHANGED <<shown, sent>>, NEW u, u = sent[ingestedTo + 1], u.what # "deletion",
         Recorded(u.about, u.text)
  PROVE  ReadsAsShown'
<1>1. u.about \in Written /\ u.text \in Wordings
  BY NextUpdate
<1>2. /\ versions' \in Seq(Rows) /\ Len(versions') = Len(versions) + 1 /\ Len(versions) \in Nat
      /\ \A i \in 1 .. Len(versions) : versions'[i] = versions[i]
      /\ versions'[Len(versions) + 1].about = u.about
      /\ versions'[Len(versions) + 1].text = u.text
      /\ versions'[Len(versions) + 1].held
      /\ \A i \in 1 .. Len(versions') : i \in 1 .. Len(versions) \/ i = Len(versions) + 1
  BY <1>1, RecordedIs DEF RevisionsInv, RevisionsTyped
<1> SUFFICES ASSUME NEW n \in Written, Settled(n)', NEW i, IsNewest(versions', n, i)
             PROVE  versions'[i].text = shown[n]
  BY DEF ReadsAsShown
<1>3. CASE u.about = n
  <2>1. u.text # 0
    BY <1>1, RevisionsAssumption
  <2>2. Len(versions) + 1 \in 1 .. Len(versions')
    BY <1>2
  <2>3. Len(versions) + 1 <= i /\ i \in 1 .. Len(versions')
    BY <1>2, <1>3, <2>1, <2>2 DEF IsNewest
  <2>4. i = Len(versions) + 1
    BY <1>2, <2>3
  <2> QED BY <1>2, <1>3, <2>4, TheLastIsShown
<1>4. CASE u.about # n
  <2>1. ASSUME NEW k, IsNewest(versions', n, k)
        PROVE  IsNewest(versions, n, k) /\ versions'[k] = versions[k]
    <3>1. k \in 1 .. Len(versions) /\ versions'[k] = versions[k]
      BY <1>2, <1>4, <2>1 DEF IsNewest
    <3>2. \A j \in 1 .. Len(versions) : j \in 1 .. Len(versions') /\ versions'[j] = versions[j]
      BY <1>2
    <3> QED BY <2>1, <3>1, <3>2 DEF IsNewest
  <2> QED BY <1>4, <2>1, TheOthersRead
<1> QED BY <1>3, <1>4

LEMMA TakesUpdateKeeps ==
  ASSUME RevisionsInv, TakesUpdate
  PROVE  RevisionsInv'
<1> DEFINE u == sent[ingestedTo + 1]
<1>1. /\ ingestedTo < Len(sent) /\ ingestedTo' = ingestedTo + 1
      /\ UNCHANGED <<shown, sent, savedTo>>
      /\ TakesMessage(u) \/ TakesRevision(u) \/ TakesDeletion(u)
  BY DEF TakesUpdate
<1>2. /\ u.about \in Written /\ u.text \in Texts /\ (u.what # "deletion" => u.text \in Wordings)
  BY <1>1, NextUpdate
<1>3. /\ ingestedTo' \in Nat /\ savedTo' \in Nat
      /\ savedTo' <= ingestedTo' /\ ingestedTo' <= Len(sent)
      /\ versions \in Seq(Rows)
  BY <1>1 DEF RevisionsInv, RevisionsTyped
<1> HIDE DEF u
<1>4. CASE u.what # "deletion" /\ Recorded(u.about, u.text) /\ takenBack' = takenBack
           /\ repeated \subseteq repeated' /\ (Back(u.about) => u.about \in repeated')
  <2>1. /\ versions' \in Seq(Rows) /\ Len(versions') = Len(versions) + 1
        /\ \A i \in 1 .. Len(versions) : versions'[i] = versions[i]
        /\ versions'[Len(versions) + 1].about = u.about
        /\ versions'[Len(versions) + 1].text = u.text
        /\ \A i \in 1 .. Len(versions') : i \in 1 .. Len(versions) \/ i = Len(versions) + 1
    BY <1>2, <1>3, <1>4, RecordedIs
  <2>2. StaysBack'
    <3>1. ASSUME NEW i \in 1 .. Len(versions')
          PROVE  /\ <<versions'[i].about, versions'[i].text>> \in takenBack =>
                       versions'[i].about \in repeated'
                 /\ versions'[i].held /\ versions'[i].text # 0 /\ Back(versions'[i].about) =>
                       versions'[i].about \in repeated'
      <4>1. CASE i \in 1 .. Len(versions)
        BY <1>4, <2>1, <4>1 DEF RevisionsInv, StaysBack
      <4>2. CASE i = Len(versions) + 1
        <5>1. <<u.about, u.text>> \in takenBack => Back(u.about)
          BY <1>2 DEF Back
        <5> QED BY <1>4, <2>1, <4>2, <5>1
      <4> QED BY <2>1, <4>1, <4>2
    <3>2. \A m : Back(m)' <=> Back(m)
      BY <1>4 DEF Back
    <3> QED BY <1>4, <3>1, <3>2 DEF StaysBack, RevisionsInv, Back
  <2>3. ReadsAsShown'
    BY <1>1, <1>4, RecordedReads DEF u
  <2> QED BY <1>1, <1>3, <2>1, <2>2, <2>3, UpdatesStand DEF RevisionsInv
<1>5. CASE TakesMessage(u)
  <2>1. Back(u.about) => \E t \in Wordings : <<u.about, t>> \in takenBack
    <3> SUFFICES ASSUME NEW t \in Texts, <<u.about, t>> \in takenBack PROVE t \in Wordings
      BY DEF Back
    <3>1. \E x \in Wordings : <<u.about, t>>[2] = x
      BY DEF RevisionsInv, StaysBack
    <3> QED BY <3>1
  <2>2. repeated \subseteq repeated' /\ (Back(u.about) => u.about \in repeated')
    BY <1>5, <2>1 DEF TakesMessage
  <2> QED BY <1>4, <1>5, <2>2 DEF TakesMessage
<1>6. CASE TakesRevision(u)
  <2>1. u.what = "edited" /\ takenBack' = takenBack /\ repeated' = repeated
    BY <1>6 DEF TakesRevision
  <2>2. CASE Records(u.about, u.text)
    <3>1. PICK i \in 1 .. Len(versions) :
             versions[i].held /\ versions[i].about = u.about /\ versions[i].text # 0
      BY <1>3, <2>2 DEF Records, StillReads
    <3>2. Back(u.about) => u.about \in repeated
      BY <3>1 DEF RevisionsInv, StaysBack
    <3> QED BY <1>4, <1>6, <2>1, <2>2, <3>2 DEF TakesRevision
  <2>3. CASE ~Records(u.about, u.text)
    <3>1. versions' = versions
      BY <1>6, <2>3 DEF TakesRevision
    <3>2. StaysBack'
      BY <2>1, <3>1 DEF RevisionsInv, StaysBack, Back
    <3>3. ReadsAsShown'
      <4> SUFFICES ASSUME NEW n \in Written, Settled(n)', NEW i, IsNewest(versions', n, i)
                   PROVE  versions'[i].text = shown[n]
        BY <1>1 DEF ReadsAsShown
      <4>1. CASE u.about # n
        BY <1>1, <3>1, <4>1, TheOthersRead DEF u
      <4>2. CASE u.about = n
        <5>1. i \in DOMAIN versions /\ versions[i].held /\ StillReads(i, n)
              /\ \A j \in DOMAIN versions : versions[j].held /\ StillReads(j, n) => j <= i
          BY <1>3, <3>1 DEF IsNewest, StillReads
        <5>2. versions[i].text = u.text
          BY <2>3, <4>2, <5>1 DEF Records
        <5> QED BY <1>1, <3>1, <4>2, <5>2, TheLastIsShown DEF u
      <4> QED BY <4>1, <4>2
    <3> QED BY <1>1, <1>3, <3>1, <3>2, <3>3, UpdatesStand DEF RevisionsInv
  <2> QED BY <2>2, <2>3
<1>7. CASE TakesDeletion(u)
  <2> DEFINE gone == NamedRows(u.about)
             below == {i \in DOMAIN versions : ~versions[i].held}
  <2>0. DOMAIN versions = 1 .. Len(versions)
    BY <1>3
  <2>1. gone \subseteq DOMAIN versions /\ NullsRows(gone)
        /\ takenBack' = takenBack \cup (Words(gone) \ Words(below))
    BY <1>7 DEF TakesDeletion, NamedRows
  <2>2. /\ \A i \in 1 .. Len(versions) :
               /\ i \in gone <=> (versions[i].held /\ versions[i].about = u.about /\ versions[i].text # 0)
               /\ i \in below <=> ~versions[i].held
        /\ gone \subseteq 1 .. Len(versions)
    BY <2>0 DEF NamedRows, StillReads
  <2> HIDE DEF gone, below
  <2>3. /\ versions' \in Seq(Rows) /\ Len(versions') = Len(versions)
        /\ \A i \in 1 .. Len(versions) :
               /\ i \in gone => versions'[i].text = 0
               /\ i \notin gone => versions'[i] = versions[i]
        /\ \A m : m \in repeated' <=>
               m \in repeated /\ \E i \in 1 .. Len(versions) :
                   i \notin gone /\ versions[i].about = m /\ versions[i].text # 0
    BY <1>3, <2>1, NullsRowsIs
  <2>4. \A w \in takenBack' : w \in takenBack \/
           \E i \in gone : w = <<versions[i].about, versions[i].text>> /\ w \notin Words(below)
    BY <2>1 DEF Words
  <2>5. \A i \in 1 .. Len(versions) : versions[i].text # 0 => versions[i].text \in Wordings
    <3>1. \A i \in 1 .. Len(versions) : versions[i] \in Rows
      BY <1>3
    <3> QED BY <3>1 DEF Rows, Texts
  <2>6. \A w \in takenBack' : \E t \in Wordings : w[2] = t
    <3> SUFFICES ASSUME NEW w \in takenBack' PROVE \E t \in Wordings : w[2] = t
      OBVIOUS
    <3>1. CASE w \in takenBack
      BY <3>1 DEF RevisionsInv, StaysBack
    <3>2. CASE w \notin takenBack
      <4>1. PICK i \in gone : w = <<versions[i].about, versions[i].text>>
        BY <2>4, <3>2
      <4> QED BY <2>2, <2>5, <4>1
    <3> QED BY <3>1, <3>2
  <2>7. StaysBack'
    <3>1. ASSUME NEW i \in 1 .. Len(versions)
          PROVE  /\ <<versions'[i].about, versions'[i].text>> \in takenBack' =>
                       versions'[i].about \in repeated'
                 /\ versions'[i].held /\ versions'[i].text # 0
                    /\ (\E t \in Texts : <<versions'[i].about, t>> \in takenBack') =>
                       versions'[i].about \in repeated'
      <4>1. CASE i \in gone
        <5>1. versions'[i].text = 0
          BY <2>3, <4>1
        <5>2. <<versions'[i].about, versions'[i].text>> \notin takenBack'
          BY <2>6, <5>1, RevisionsAssumption
        <5> QED BY <5>1, <5>2
      <4>2. CASE i \notin gone
        <5> DEFINE m == versions[i].about
        <5>1. versions'[i] = versions[i]
          BY <2>3, <4>2
        <5>2. versions[i].text # 0 /\ m \in repeated => m \in repeated'
          BY <2>3, <4>2
        <5>3. ASSUME <<m, versions[i].text>> \in takenBack' PROVE m \in repeated'
          <6>1. versions[i].text # 0
            BY <2>6, <5>3, RevisionsAssumption
          <6>2. CASE <<m, versions[i].text>> \in takenBack
            BY <5>2, <6>1, <6>2 DEF RevisionsInv, StaysBack
          <6>3. CASE <<m, versions[i].text>> \notin takenBack
            <7>1. PICK j \in gone : <<m, versions[i].text>> = <<versions[j].about, versions[j].text>>
                                    /\ <<m, versions[i].text>> \notin Words(below)
              BY <2>4, <5>3, <6>3
            <7>2. m = u.about
              BY <2>2, <7>1
            <7>3. i \in below
              BY <2>2, <4>2, <6>1, <7>2
            <7> QED BY <7>1, <7>3 DEF Words
          <6> QED BY <6>2, <6>3
        <5>4. ASSUME versions[i].held, versions[i].text # 0, NEW t \in Texts, <<m, t>> \in takenBack'
              PROVE  m \in repeated'
          <6>1. m # u.about
            BY <2>2, <4>2, <5>4
          <6>2. <<m, t>> \in takenBack
            <7> SUFFICES ASSUME <<m, t>> \notin takenBack PROVE FALSE
              OBVIOUS
            <7>1. PICK j \in gone : <<m, t>> = <<versions[j].about, versions[j].text>>
              BY <2>4, <5>4
            <7>2. m = u.about
              BY <2>2, <7>1
            <7> QED BY <6>1, <7>2
          <6> QED BY <5>2, <5>4, <6>2 DEF RevisionsInv, StaysBack, Back
        <5> QED BY <5>1, <5>3, <5>4
      <4> QED BY <4>1, <4>2
    <3> QED BY <2>3, <2>6, <3>1 DEF StaysBack, Back
  <2>8. ReadsAsShown'
    <3> SUFFICES ASSUME NEW n \in Written, Settled(n)', NEW i, IsNewest(versions', n, i)
                 PROVE  versions'[i].text = shown[n]
      BY <1>1 DEF ReadsAsShown
    <3>1. i \in 1 .. Len(versions) /\ i \notin gone /\ u.about # n
      BY <2>2, <2>3 DEF IsNewest
    <3>2. ASSUME NEW k, IsNewest(versions', n, k)
          PROVE  IsNewest(versions, n, k) /\ versions'[k] = versions[k]
      <4>1. k \in 1 .. Len(versions) /\ k \notin gone /\ versions'[k] = versions[k]
        BY <2>2, <2>3, <3>2 DEF IsNewest
      <4>2. ASSUME NEW j \in 1 .. Len(versions), versions[j].held, versions[j].about = n, versions[j].text # 0
            PROVE  j <= k
        <5>1. j \notin gone
          BY <2>2, <3>1, <4>2
        <5> QED BY <2>3, <3>2, <4>2, <5>1 DEF IsNewest
      <4> QED BY <2>3, <3>2, <4>1, <4>2 DEF IsNewest
    <3> QED BY <1>1, <3>1, <3>2, TheOthersRead DEF u
  <2> QED BY <1>1, <1>3, <2>3, <2>7, <2>8, UpdatesStand DEF RevisionsInv
<1> QED BY <1>1, <1>5, <1>6, <1>7

\* A step of neither the chat nor the intake that leaves rows where they are,
\* or takes all of them, or their words.
LEMMA RowsStepKeeps ==
  ASSUME RevisionsInv, UNCHANGED <<shown, sent, savedTo, repeated, takenBack>>,
         ingestedTo' \in Nat, savedTo <= ingestedTo', ingestedTo' <= ingestedTo,
         versions' \in Seq(Rows),
         \/ versions' = <<>>
         \/ /\ Len(versions') = Len(versions)
            /\ \A i \in 1 .. Len(versions) :
                  /\ versions'[i].about = versions[i].about /\ versions'[i].text = versions[i].text
                  /\ versions'[i].held => versions[i].held
                  /\ \A j \in 1 .. Len(versions) :
                        i <= j /\ versions'[i].held /\ versions[j].held => versions'[j].held
  PROVE  RevisionsInv'
<1>1. RevisionsTyped' /\ ShownIsLast'
  BY UpdatesStand DEF RevisionsInv, RevisionsTyped
<1>2. \A m : Back(m)' <=> Back(m)
  BY DEF Back
<1>3. \A n : Settled(n)' => Settled(n)
  <2> SUFFICES ASSUME NEW n, Settled(n)', NEW k \in 1 .. Len(sent), sent[k].about = n
               PROVE  k <= ingestedTo
    BY DEF Settled
  <2>1. k <= ingestedTo'
    BY DEF Settled
  <2> QED BY <2>1 DEF RevisionsInv, RevisionsTyped
<1>4. CASE versions' = <<>>
  <2>1. Len(versions') = 0
    BY <1>4
  <2>2. StaysBack'
    BY <2>1 DEF RevisionsInv, StaysBack
  <2>3. ReadsAsShown'
    BY <2>1 DEF ReadsAsShown, IsNewest
  <2> QED BY <1>1, <2>2, <2>3 DEF RevisionsInv
<1>5. CASE versions' # <<>>
  <2>1. /\ Len(versions') = Len(versions)
        /\ \A i \in 1 .. Len(versions) :
              /\ versions'[i].about = versions[i].about /\ versions'[i].text = versions[i].text
              /\ versions'[i].held => versions[i].held
              /\ \A j \in 1 .. Len(versions) :
                    i <= j /\ versions'[i].held /\ versions[j].held => versions'[j].held
    BY <1>5
  <2>2. StaysBack'
    BY <1>2, <2>1 DEF RevisionsInv, StaysBack
  <2>3. ReadsAsShown'
    <3> SUFFICES ASSUME NEW n \in Written, Settled(n)', NEW i, IsNewest(versions', n, i)
                 PROVE  versions'[i].text = shown[n]
      BY DEF ReadsAsShown
    <3>1. i \in 1 .. Len(versions) /\ versions'[i].held
      BY <2>1 DEF IsNewest
    <3>2. ASSUME NEW j \in 1 .. Len(versions), versions[j].held, versions[j].about = n, versions[j].text # 0
          PROVE  j <= i
      <4>1. CASE i <= j
        BY <2>1, <3>1, <3>2, <4>1 DEF IsNewest
      <4> QED BY <3>1, <3>2, <4>1
    <3>3. IsNewest(versions, n, i)
      BY <2>1, <3>1, <3>2 DEF IsNewest
    <3> QED BY <1>3, <2>1, <3>1, <3>3 DEF RevisionsInv, ReadsAsShown
  <2> QED BY <1>1, <2>2, <2>3 DEF RevisionsInv
<1> QED BY <1>4, <1>5

LEMMA EraseKeeps ==
  ASSUME RevisionsInv, ErasePrincipalContent
  PROVE  RevisionsInv'
<1> DEFINE gone == {i \in DOMAIN versions : versions[i].text # 0}
<1>1. /\ UNCHANGED <<shown, sent, ingestedTo, savedTo>> /\ NullsRows(gone)
      /\ takenBack' = takenBack \cup Words(gone) /\ gone \subseteq DOMAIN versions
  BY DEF ErasePrincipalContent
<1>2. versions \in Seq(Rows) /\ DOMAIN versions = 1 .. Len(versions)
  BY DEF RevisionsInv, RevisionsTyped
<1>3. \A i \in 1 .. Len(versions) : i \in gone <=> versions[i].text # 0
  BY <1>2
<1> HIDE DEF gone
<1>4. /\ versions' \in Seq(Rows) /\ Len(versions') = Len(versions)
      /\ \A i \in 1 .. Len(versions) : versions'[i].text = 0
  BY <1>1, <1>2, <1>3, NullsRowsIs
<1>5. \A w \in takenBack' : \E t \in Wordings : w[2] = t
  <2> SUFFICES ASSUME NEW w \in takenBack' PROVE \E t \in Wordings : w[2] = t
    OBVIOUS
  <2>1. CASE w \in takenBack
    BY <2>1 DEF RevisionsInv, StaysBack
  <2>2. CASE w \in Words(gone)
    <3>1. PICK i \in gone : w = <<versions[i].about, versions[i].text>>
      BY <2>2 DEF Words
    <3>2. i \in 1 .. Len(versions) /\ versions[i].text # 0 /\ versions[i] \in Rows
      BY <1>1, <1>2, <1>3, <3>1
    <3>3. versions[i].text \in Wordings
      BY <3>2 DEF Rows, Texts
    <3> QED BY <3>1, <3>3
  <2> QED BY <1>1, <2>1, <2>2
<1>6. StaysBack'
  <2>1. ASSUME NEW i \in 1 .. Len(versions)
        PROVE  <<versions'[i].about, versions'[i].text>> \notin takenBack'
    <3>1. versions'[i].text = 0
      BY <1>4
    <3> QED BY <1>5, <3>1, RevisionsAssumption
  <2> QED BY <1>4, <1>5, <2>1 DEF StaysBack
<1>7. ReadsAsShown'
  BY <1>4 DEF ReadsAsShown, IsNewest
<1>8. RevisionsTyped' /\ ShownIsLast'
  BY <1>1, <1>4, UpdatesStand DEF RevisionsInv, RevisionsTyped
<1> QED BY <1>6, <1>7, <1>8 DEF RevisionsInv

LEMMA CompactsRowsKeeps ==
  ASSUME RevisionsInv, CompactsRows
  PROVE  RevisionsInv'
<1>1. UNCHANGED <<shown, sent, ingestedTo, savedTo, takenBack, repeated>>
  BY DEF CompactsRows
<1>2. versions \in Seq(Rows) /\ Len(versions) \in Nat /\ DOMAIN versions = 1 .. Len(versions)
  BY DEF RevisionsInv, RevisionsTyped
<1>3. PICK upTo \in 1 .. Len(versions) :
         versions' = [i \in 1 .. Len(versions) |->
                          IF i <= upTo THEN [versions[i] EXCEPT !.held = FALSE] ELSE versions[i]]
  BY <1>2 DEF CompactsRows
<1>4. \A row \in Rows :
         LET new == [row EXCEPT !.held = FALSE] IN
         new \in Rows /\ new.about = row.about /\ new.text = row.text /\ ~new.held
  BY DEF Rows
<1>5. ASSUME NEW i \in 1 .. Len(versions)
      PROVE  /\ versions'[i] \in Rows /\ versions'[i].about = versions[i].about
             /\ versions'[i].text = versions[i].text
             /\ i <= upTo => ~versions'[i].held
             /\ ~(i <= upTo) => versions'[i] = versions[i]
  <2>1. versions[i] \in Rows
    BY <1>2
  <2> QED BY <1>3, <1>4, <2>1
<1>6. versions' \in Seq(Rows) /\ Len(versions') = Len(versions)
  <2>1. versions' \in [1 .. Len(versions) -> Rows]
    BY <1>3, <1>5
  <2> QED BY <1>2, <2>1
<1>7. \A i, j \in 1 .. Len(versions) : i <= j /\ ~(i <= upTo) => ~(j <= upTo)
  BY <1>2
<1>8. \A i \in 1 .. Len(versions) :
         /\ versions'[i].about = versions[i].about /\ versions'[i].text = versions[i].text
         /\ versions'[i].held => versions[i].held
         /\ \A j \in 1 .. Len(versions) :
               i <= j /\ versions'[i].held /\ versions[j].held => versions'[j].held
  BY <1>5, <1>7
<1>9. ingestedTo' \in Nat /\ savedTo <= ingestedTo' /\ ingestedTo' <= ingestedTo
  BY <1>1 DEF RevisionsInv, RevisionsTyped
<1>10. UNCHANGED <<shown, sent, savedTo, repeated, takenBack>>
  BY <1>1
<1> QED BY <1>6, <1>8, <1>9, <1>10, RowsStepKeeps

LEMMA RevisionsStep == RevisionsInv /\ [RevisionsNext]_revisionVars => RevisionsInv'
<1> SUFFICES ASSUME RevisionsInv, [RevisionsNext]_revisionVars PROVE RevisionsInv'
  OBVIOUS
<1>0. RevisionsTyped
  BY DEF RevisionsInv
<1>1. ASSUME NEW m \in Written, SaysFirst(m) \/ Edits(m) \/ DeletesShown(m) PROVE RevisionsInv'
  <2>1. 0 \in Texts /\ \A t \in Wordings : t \in Texts /\ t # 0
    BY RevisionsAssumption DEF Texts
  <2>2. CASE SaysFirst(m)
    BY <2>1, <2>2, UpdateKeeps DEF SaysFirst
  <2>3. CASE Edits(m)
    BY <2>1, <2>3, UpdateKeeps DEF Edits
  <2>4. CASE DeletesShown(m)
    BY <2>1, <2>4, UpdateKeeps DEF DeletesShown
  <2> QED BY <1>1, <2>2, <2>3, <2>4
<1>2. CASE Saves
  <2>1. RevisionsTyped' /\ ShownIsLast'
    BY <1>0, <1>2, UpdatesStand DEF Saves, RevisionsTyped
  <2>2. StaysBack' /\ ReadsAsShown'
    BY <1>2 DEF Saves, RevisionsInv, StaysBack, Back, ReadsAsShown, Settled
  <2> QED BY <2>1, <2>2 DEF RevisionsInv
<1>3. CASE Reruns
  BY <1>0, <1>3, RowsStepKeeps DEF Reruns, RevisionsTyped
<1>4. CASE WipesRows
  BY <1>0, <1>4, RowsStepKeeps DEF WipesRows, RevisionsTyped
<1>5. CASE UNCHANGED revisionVars
  BY <1>0, <1>5, RowsStepKeeps DEF revisionVars, RevisionsTyped
<1> QED BY <1>1, <1>2, <1>3, <1>4, <1>5, TakesUpdateKeeps, CompactsRowsKeeps, EraseKeeps
        DEF RevisionsNext

(* However edits, deletions, erasures, compactions, wipes and restarts        *)
(* follow one another: words that were taken back are in no row again unless  *)
(* their message's first version is taken a second time, and what the session *)
(* reads of a message is what the chat shows of it once all is ingested       *)
(* (assembly.rs revision_reading and the deletion mirror, kind.rs).           *)
THEOREM RowsTellTheChat == RevisionsSpec => []VersionsTruthful
<1>1. RevisionsInit => RevisionsInv
  <2> SUFFICES ASSUME RevisionsInit PROVE RevisionsInv
    OBVIOUS
  <2>1. /\ Len(sent) = 0 /\ Len(versions) = 0 /\ sent \in Seq(Sendings) /\ versions \in Seq(Rows)
        /\ takenBack = {} /\ shown \in [Written -> Texts] /\ ingestedTo = 0 /\ savedTo = 0
    BY DEF RevisionsInit, Texts
  <2> QED BY <2>1 DEF RevisionsInv, RevisionsTyped, ShownIsLast, StaysBack, ReadsAsShown, IsNewest
<1>2. RevisionsInv => VersionsTruthful
  <2> SUFFICES ASSUME RevisionsInv PROVE VersionsTruthful
    OBVIOUS
  <2>1. DOMAIN versions = 1 .. Len(versions) /\ versions \in Seq(Rows)
    BY DEF RevisionsInv, RevisionsTyped
  <2>2. \A i \in DOMAIN versions :
          <<versions[i].about, versions[i].text>> \in takenBack => versions[i].about \in repeated
    BY <2>1 DEF RevisionsInv, StaysBack
  <2>3. ASSUME ingestedTo = Len(sent), NEW i \in DOMAIN versions, NEW m, m = versions[i].about,
               versions[i].held, StillReads(i, m),
               \A j \in DOMAIN versions : versions[j].held /\ StillReads(j, m) => j <= i
        PROVE  versions[i].text = shown[m]
    <3>1. IsNewest(versions, m, i)
      BY <2>1, <2>3 DEF IsNewest, StillReads
    <3>2. Settled(m)
      BY <2>3 DEF Settled
    <3>3. versions[i] \in Rows
      BY <2>1
    <3>4. m \in Written
      BY <2>3, <3>3 DEF Rows
    <3> QED BY <3>1, <3>2, <3>4 DEF RevisionsInv, ReadsAsShown
  <2> QED BY <2>2, <2>3 DEF VersionsTruthful
<1> QED BY <1>1, <1>2, RevisionsStep, PTL DEF RevisionsSpec

-----------------------------------------------------------------------------
\* Search: the pages of a query.

AskStages == {"unasked", "silent", "granted", "stood", "failed", "rendering"}
Windows   == Nat \cup {Unopened}
Entries   == [start : Windows, count : Nat]
Asked     == [at : AskStages, window : Windows, back : Windows]
Tellings  == {"", "spent", "failed", "page", "none", "exhausted"}
Searches  == [page : Nat, rows : PageRows, told : Tellings, foundAt : Nat, shownAt : Nat]

(* One of these answers is it.                                                *)
Within(answers, p, rows, at) ==
    \E v \in answers : v.page = p /\ v.rows = rows /\ v.at <= at /\ at - v.at < CacheTtl

SearchTyped ==
    /\ now \in Nat /\ spent \in Entries
    /\ ask \in [Requests -> Asked] /\ search \in [Requests -> Searches]
    /\ IsFiniteSet(DOMAIN cache) /\ Cardinality(DOMAIN cache) <= CacheCap

(* What the cache holds is what the vendor answered when it was put there.    *)
CacheTruthful ==
    \A p \in DOMAIN cache :
        /\ p \in Nat /\ cache[p].rows \in PageRows /\ cache[p].at \in Nat /\ cache[p].at <= now
        /\ \E v \in vendor : v.page = p /\ v.rows = cache[p].rows /\ v.at = cache[p].at

(* An ask that has its page has what the vendor answered for it.              *)
FindsTruthful ==
    \A a \in Requests :
        /\ ask[a].at \in {"rendering", "stood"} =>
              Within(vendor, search[a].page, search[a].rows, search[a].foundAt)
        /\ search[a].told \in {"page", "none", "exhausted"} => ask[a].at \in {"rendering", "stood"}
        /\ search[a].told = "exhausted" /\ search[a].rows # NoRows =>
              Within(vendor, search[a].page - 1, search[a].rows, search[a].shownAt)

SearchInv == SearchTyped /\ CacheTruthful /\ FindsTruthful

\* What the vendor answered it has answered.
LEMMA AnsweredStays ==
  ASSUME vendor \subseteq vendor', NEW p, NEW rows, NEW at, Within(vendor, p, rows, at)
  PROVE  Within(vendor', p, rows, at)
BY DEF Within

LEMMA LiveOnes ==
  ASSUME SearchInv
  PROVE  /\ DOMAIN LiveEntries \subseteq DOMAIN cache
         /\ \A p \in DOMAIN LiveEntries :
               /\ LiveEntries[p] = cache[p]
               /\ Within(vendor, p, LiveEntries[p].rows, now)
         /\ IsFiniteSet(DOMAIN LiveEntries) /\ Cardinality(DOMAIN LiveEntries) <= CacheCap
<1>1. LiveEntries = [p \in {q \in DOMAIN cache : now - cache[q].at < CacheTtl} |-> cache[p]]
  BY DEF LiveEntries, Restrict
<1>2. DOMAIN LiveEntries = {q \in DOMAIN cache : now - cache[q].at < CacheTtl}
      /\ \A p \in DOMAIN LiveEntries : LiveEntries[p] = cache[p]
  BY <1>1
<1>3. ASSUME NEW p \in DOMAIN LiveEntries
      PROVE  Within(vendor, p, LiveEntries[p].rows, now)
  <2>1. p \in DOMAIN cache /\ now - cache[p].at < CacheTtl /\ LiveEntries[p] = cache[p]
    BY <1>2
  <2> QED BY <2>1 DEF SearchInv, CacheTruthful, Within
<1>4. DOMAIN LiveEntries \subseteq DOMAIN cache /\ IsFiniteSet(DOMAIN cache)
      /\ Cardinality(DOMAIN cache) <= CacheCap
  BY <1>2 DEF SearchInv, SearchTyped
<1>5. IsFiniteSet(DOMAIN LiveEntries) /\ Cardinality(DOMAIN LiveEntries) <= Cardinality(DOMAIN cache)
  BY <1>4, FS_Subset
<1>6. /\ Cardinality(DOMAIN LiveEntries) \in Nat /\ Cardinality(DOMAIN cache) \in Nat
      /\ CacheCap \in Nat
  BY <1>4, <1>5, FS_CardinalityType, SearchAssumption
<1> QED BY <1>2, <1>3, <1>4, <1>5, <1>6

\* The entries that serve are as good as all of them.
LEMMA SweptCache ==
  ASSUME SearchInv, cache' \in {cache, LiveEntries}, now' = now, vendor \subseteq vendor'
  PROVE  /\ CacheTruthful' 
         /\ IsFiniteSet(DOMAIN cache') /\ Cardinality(DOMAIN cache') <= CacheCap
<1>1. DOMAIN cache' \subseteq DOMAIN cache /\ \A p \in DOMAIN cache' : cache'[p] = cache[p]
  BY LiveOnes
<1>2. CacheTruthful'
  BY <1>1 DEF SearchInv, CacheTruthful
<1> QED BY <1>2, LiveOnes DEF SearchInv, SearchTyped

\* An ask's step leaves the others as they were.
LEMMA OneAskFinds ==
  ASSUME SearchInv, NEW a \in Requests, vendor \subseteq vendor',
         ask' \in [Requests -> Asked], search' \in [Requests -> Searches],
         \A b \in Requests \ {a} : ask'[b] = ask[b] /\ search'[b] = search[b],
         ask'[a].at \in {"rendering", "stood"} =>
              Within(vendor', search'[a].page, search'[a].rows, search'[a].foundAt),
         search'[a].told \in {"page", "none", "exhausted"} => ask'[a].at \in {"rendering", "stood"},
         search'[a].told = "exhausted" /\ search'[a].rows # NoRows =>
              Within(vendor', search'[a].page - 1, search'[a].rows, search'[a].shownAt)
  PROVE  FindsTruthful'
<1> SUFFICES ASSUME NEW b \in Requests
             PROVE  /\ ask'[b].at \in {"rendering", "stood"} =>
                          Within(vendor', search'[b].page, search'[b].rows, search'[b].foundAt)
                    /\ search'[b].told \in {"page", "none", "exhausted"} => ask'[b].at \in {"rendering", "stood"}
                    /\ search'[b].told = "exhausted" /\ search'[b].rows # NoRows =>
                          Within(vendor', search'[b].page - 1, search'[b].rows, search'[b].shownAt)
  BY DEF FindsTruthful
<1>1. CASE b = a
  BY <1>1
<1>2. CASE b # a
  BY <1>2, AnsweredStays DEF SearchInv, FindsTruthful
<1> QED BY <1>1, <1>2

LEMMA FindsCachedKeeps ==
  ASSUME SearchInv, NEW a \in Requests, FindsCached(a)
  PROVE  SearchInv'
<1>1. /\ ask[a].at = "unasked" /\ cache' = LiveEntries
      /\ ask' = [ask EXCEPT ![a].at = "rendering"]
      /\ UNCHANGED <<now, spent, vendor>>
  BY DEF FindsCached, Unasked
<1>2. PICK p \in DOMAIN LiveEntries :
         search' = [search EXCEPT ![a].page = p, ![a].rows = LiveEntries[p].rows,
                                  ![a].foundAt = now]
  BY DEF FindsCached
<1>3. /\ p \in DOMAIN cache /\ p \in Nat /\ LiveEntries[p].rows \in PageRows
      /\ Within(vendor, p, LiveEntries[p].rows, now) /\ now \in Nat
  BY LiveOnes, SearchAssumption DEF SearchInv, CacheTruthful, SearchTyped
<1>4. /\ ask \in [Requests -> Asked] /\ search \in [Requests -> Searches]
      /\ ask[a] \in Asked /\ search[a] \in Searches
  BY DEF SearchInv, SearchTyped
<1> DEFINE got == [search[a] EXCEPT !.page = p, !.rows = LiveEntries[p].rows, !.foundAt = now]
           asked == [ask[a] EXCEPT !.at = "rendering"]
<1>5. /\ asked \in Asked /\ asked.at = "rendering"
      /\ got \in Searches /\ got.page = p /\ got.rows = LiveEntries[p].rows
      /\ got.foundAt = now /\ got.told = search[a].told
  BY <1>3, <1>4 DEF Asked, Searches, AskStages
<1>6. ask' = [ask EXCEPT ![a] = asked] /\ search' = [search EXCEPT ![a] = got]
  BY <1>1, <1>2
<1> HIDE DEF got, asked
<1>7. /\ ask' \in [Requests -> Asked] /\ search' \in [Requests -> Searches]
      /\ ask'[a] = asked /\ search'[a] = got
      /\ \A b \in Requests \ {a} : ask'[b] = ask[b] /\ search'[b] = search[b]
  BY <1>4, <1>5, <1>6
<1>8. search[a].told \notin {"page", "none", "exhausted"}
  BY <1>1 DEF SearchInv, FindsTruthful
<1>9. FindsTruthful'
  BY <1>1, <1>3, <1>5, <1>7, <1>8, OneAskFinds
<1>10. CacheTruthful' /\ IsFiniteSet(DOMAIN cache') /\ Cardinality(DOMAIN cache') <= CacheCap
  BY <1>1, SweptCache
<1> QED BY <1>1, <1>7, <1>9, <1>10 DEF SearchInv, SearchTyped

LEMMA MissesCacheKeeps ==
  ASSUME SearchInv, NEW a \in Requests, MissesCache(a)
  PROVE  SearchInv'
<1>1. /\ ask[a].at = "unasked" /\ cache' = LiveEntries
      /\ UNCHANGED <<now, spent, ask, vendor>>
  BY DEF MissesCache, Unasked, budgetVars
<1>2. PICK p \in Pages \ DOMAIN LiveEntries : search' = [search EXCEPT ![a].page = p]
  BY DEF MissesCache
<1>3. /\ ask \in [Requests -> Asked] /\ search \in [Requests -> Searches]
      /\ search[a] \in Searches /\ p \in Nat
  BY <1>2, SearchAssumption DEF SearchInv, SearchTyped
<1> DEFINE got == [search[a] EXCEPT !.page = p]
<1>4. got \in Searches /\ got.told = search[a].told
  BY <1>3 DEF Searches
<1>5. search' = [search EXCEPT ![a] = got]
  BY <1>2
<1> HIDE DEF got
<1>6. /\ search' \in [Requests -> Searches] /\ search'[a] = got
      /\ \A b \in Requests \ {a} : search'[b] = search[b]
  BY <1>3, <1>4, <1>5
<1>7. search[a].told \notin {"page", "none", "exhausted"}
  BY <1>1 DEF SearchInv, FindsTruthful
<1>8. FindsTruthful'
  BY <1>1, <1>3, <1>4, <1>6, <1>7, OneAskFinds
<1>9. CacheTruthful' /\ IsFiniteSet(DOMAIN cache') /\ Cardinality(DOMAIN cache') <= CacheCap
  BY <1>1, SweptCache
<1> QED BY <1>1, <1>3, <1>6, <1>8, <1>9 DEF SearchInv, SearchTyped

LEMMA NobodyToBillKeeps ==
  ASSUME SearchInv, NEW a \in Requests, NobodyToBill(a)
  PROVE  SearchInv'
<1>1. /\ ask' = [ask EXCEPT ![a].at = "silent"]
      /\ search' = [search EXCEPT ![a].told = "failed"]
      /\ UNCHANGED <<now, spent, cache, vendor>>
  BY DEF NobodyToBill, Tells
<1>2. /\ ask \in [Requests -> Asked] /\ search \in [Requests -> Searches]
      /\ ask[a] \in Asked /\ search[a] \in Searches
  BY DEF SearchInv, SearchTyped
<1> DEFINE asked == [ask[a] EXCEPT !.at = "silent"]
           got == [search[a] EXCEPT !.told = "failed"]
<1>3. /\ asked \in Asked /\ asked.at = "silent" /\ got \in Searches /\ got.told = "failed"
  BY <1>2 DEF Asked, Searches, AskStages, Tellings
<1>4. ask' = [ask EXCEPT ![a] = asked] /\ search' = [search EXCEPT ![a] = got]
  BY <1>1
<1> HIDE DEF asked, got
<1>5. /\ ask' \in [Requests -> Asked] /\ search' \in [Requests -> Searches]
      /\ ask'[a] = asked /\ search'[a] = got
      /\ \A b \in Requests \ {a} : ask'[b] = ask[b] /\ search'[b] = search[b]
  BY <1>2, <1>3, <1>4
<1>6. FindsTruthful'
  BY <1>1, <1>3, <1>5, OneAskFinds
<1>7. CacheTruthful' /\ IsFiniteSet(DOMAIN cache') /\ Cardinality(DOMAIN cache') <= CacheCap
  BY <1>1, SweptCache
<1> QED BY <1>1, <1>5, <1>6, <1>7 DEF SearchInv, SearchTyped

LEMMA AsksVendorKeeps ==
  ASSUME SearchInv, NEW a \in Requests, AsksVendor(a)
  PROVE  SearchInv'
<1>1. /\ Grants(a)
      /\ search' = [search EXCEPT ![a].told = IF ask'[a].at = "silent" THEN "spent" ELSE ""]
  BY DEF AsksVendor, Tells
<1>2. cache' = cache /\ vendor' = vendor /\ now' = now
  BY <1>1 DEF AsksVendor, Grants
<1>3. /\ ask \in [Requests -> Asked] /\ search \in [Requests -> Searches]
      /\ ask[a] \in Asked /\ search[a] \in Searches /\ now \in Nat /\ spent \in Entries
  BY DEF SearchInv, SearchTyped
<1>4. ask[a].at = "unasked"
  BY <1>1 DEF Grants
<1>5. Swept \in Entries /\ now \in Windows
  BY <1>3 DEF Swept, NoEntry, Windows, Entries
<1>6. /\ spent' \in Entries
      /\ \E at \in {"silent", "granted"}, w \in Windows :
            ask' = [ask EXCEPT ![a] = [ask[a] EXCEPT !.at = at, !.window = w]]
  <2> DEFINE entry == Swept
             start == IF entry = NoEntry THEN now ELSE entry.start
  <2>1. start \in Windows /\ entry \in Entries /\ entry.start \in Windows /\ entry.count \in Nat
    BY <1>5 DEF Entries
  <2>2. CASE entry.count >= Cap /\ entry # NoEntry
    <3>1. spent' = entry /\ ask' = [ask EXCEPT ![a].at = "silent", ![a].window = entry.start]
      BY <1>1, <2>2 DEF Grants
    <3> HIDE DEF entry
    <3> QED BY <2>1, <3>1
  <2>3. CASE ~(entry.count >= Cap /\ entry # NoEntry)
    <3>1. /\ spent' = [start |-> start, count |-> entry.count + 1]
          /\ ask' = [ask EXCEPT ![a].at = "granted", ![a].window = start]
      BY <1>1, <2>3 DEF Grants
    <3> HIDE DEF entry, start
    <3>2. entry.count + 1 \in Nat
      BY <2>1
    <3>3. spent' \in Entries
      BY <2>1, <3>1, <3>2 DEF Entries
    <3>4. \E at \in {"silent", "granted"}, w \in Windows :
              ask' = [ask EXCEPT ![a] = [ask[a] EXCEPT !.at = at, !.window = w]]
      <4>1. ask' = [ask EXCEPT ![a] = [ask[a] EXCEPT !.at = "granted", !.window = start]]
        BY <3>1, <1>3
      <4> QED BY <2>1, <4>1
    <3> QED BY <3>3, <3>4
  <2> QED BY <2>2, <2>3
<1>7. PICK at \in {"silent", "granted"}, w \in Windows :
            ask' = [ask EXCEPT ![a] = [ask[a] EXCEPT !.at = at, !.window = w]]
  BY <1>6
<1> DEFINE asked == [ask[a] EXCEPT !.at = at, !.window = w]
           told == IF asked.at = "silent" THEN "spent" ELSE ""
           got == [search[a] EXCEPT !.told = told]
<1>8. asked \in Asked /\ asked.at \in {"silent", "granted"}
  BY <1>3 DEF Asked, AskStages
<1>9. /\ ask' \in [Requests -> Asked] /\ ask'[a] = asked
      /\ \A b \in Requests \ {a} : ask'[b] = ask[b]
  <2> HIDE DEF asked
  <2>1. ask' = [ask EXCEPT ![a] = asked]
    BY <1>7 DEF asked
  <2> QED BY <1>3, <1>8, <2>1
<1>10. got \in Searches /\ got.told \in {"spent", ""}
  <2> HIDE DEF asked
  <2> QED BY <1>3 DEF Searches, Tellings
<1>11. search' = [search EXCEPT ![a] = got]
  <2>1. search' = [search EXCEPT ![a].told = told]
    BY <1>1, <1>9
  <2> HIDE DEF told
  <2> QED BY <2>1
<1> HIDE DEF got, asked, told
<1>12. /\ search' \in [Requests -> Searches] /\ search'[a] = got
       /\ \A b \in Requests \ {a} : search'[b] = search[b]
  BY <1>3, <1>10, <1>11
<1>13. FindsTruthful'
  BY <1>2, <1>8, <1>9, <1>10, <1>12, OneAskFinds
<1>14. CacheTruthful' /\ IsFiniteSet(DOMAIN cache') /\ Cardinality(DOMAIN cache') <= CacheCap
  BY <1>2, SweptCache
<1> QED BY <1>2, <1>6, <1>9, <1>12, <1>13, <1>14 DEF SearchInv, SearchTyped

LEMMA VendorAnswersKeeps ==
  ASSUME SearchInv, NEW a \in Requests, VendorAnswers(a)
  PROVE  SearchInv'
<1>1. PICK rows \in PageRows :
         /\ RemembersPage(search[a].page, rows)
         /\ vendor' = vendor \cup {[page |-> search[a].page, rows |-> rows, at |-> now]}
         /\ search' = [search EXCEPT ![a].rows = rows, ![a].foundAt = now]
  BY DEF VendorAnswers
<1>2. /\ ask[a].at = "granted" /\ ask' = [ask EXCEPT ![a].at = "stood"]
      /\ now' = now /\ spent' = spent
  BY DEF VendorAnswers, ChangeStands
<1>3. /\ ask \in [Requests -> Asked] /\ search \in [Requests -> Searches]
      /\ ask[a] \in Asked /\ search[a] \in Searches /\ now \in Nat
      /\ IsFiniteSet(DOMAIN cache) /\ Cardinality(DOMAIN cache) <= CacheCap
      /\ CacheCap \in Nat \ {0} /\ CacheTtl \in Nat \ {0}
  BY SearchAssumption DEF SearchInv, SearchTyped
<1> DEFINE p == search[a].page
           got == [search[a] EXCEPT !.rows = rows, !.foundAt = now]
           asked == [ask[a] EXCEPT !.at = "stood"]
           new == [page |-> p, rows |-> rows, at |-> now]
<1>4. /\ asked \in Asked /\ asked.at = "stood"
      /\ got \in Searches /\ got.page = p /\ got.rows = rows
      /\ got.foundAt = now /\ got.told = search[a].told
      /\ new.page = p /\ new.rows = rows /\ new.at = now
  BY <1>3 DEF Asked, Searches, AskStages
<1>5. ask' = [ask EXCEPT ![a] = asked] /\ search' = [search EXCEPT ![a] = got]
      /\ vendor' = vendor \cup {new}
  BY <1>1, <1>2
<1> HIDE DEF got, asked, new
<1>6. /\ ask' \in [Requests -> Asked] /\ search' \in [Requests -> Searches]
      /\ ask'[a] = asked /\ search'[a] = got
      /\ \A b \in Requests \ {a} : ask'[b] = ask[b] /\ search'[b] = search[b]
  BY <1>3, <1>4, <1>5
<1>7. search[a].told \notin {"page", "none", "exhausted"}
  BY <1>2 DEF SearchInv, FindsTruthful
<1>8. Within(vendor', p, rows, now)
  BY <1>3, <1>4, <1>5 DEF Within
<1>9. FindsTruthful'
  <2>1. vendor \subseteq vendor'
    BY <1>5
  <2>2. Within(vendor', search'[a].page, search'[a].rows, search'[a].foundAt)
    BY <1>4, <1>6, <1>8
  <2>3. search'[a].told \notin {"page", "none", "exhausted"}
    BY <1>4, <1>6, <1>7
  <2> QED BY <1>6, <2>1, <2>2, <2>3, OneAskFinds
<1> DEFINE kept == IF Cardinality(DOMAIN cache) >= CacheCap THEN EmptyCache ELSE cache
<1>10. /\ IsFiniteSet(DOMAIN kept) /\ Cardinality(DOMAIN kept) + 1 <= CacheCap
       /\ Cardinality(DOMAIN kept) \in Nat
       /\ DOMAIN kept \subseteq DOMAIN cache /\ \A q \in DOMAIN kept : kept[q] = cache[q]
  <2>1. DOMAIN EmptyCache = {} /\ IsFiniteSet({}) /\ Cardinality({}) = 0
    BY FS_EmptySet DEF EmptyCache
  <2>2. Cardinality(DOMAIN cache) \in Nat
    BY <1>3, FS_CardinalityType
  <2>3. CASE Cardinality(DOMAIN cache) >= CacheCap
    BY <1>3, <2>1, <2>3
  <2>4. CASE ~(Cardinality(DOMAIN cache) >= CacheCap)
    BY <1>3, <2>2, <2>4
  <2> QED BY <2>3, <2>4
<1>11. cache' = [q \in DOMAIN kept \cup {p} |->
                     IF q = p THEN [at |-> now, rows |-> rows] ELSE kept[q]]
  BY <1>1 DEF RemembersPage
<1> HIDE DEF kept
<1>12. IsFiniteSet(DOMAIN cache') /\ Cardinality(DOMAIN cache') <= CacheCap
  <2>1. DOMAIN cache' = DOMAIN kept \cup {p}
    BY <1>11
  <2>2. /\ IsFiniteSet(DOMAIN kept \cup {p})
        /\ Cardinality(DOMAIN kept \cup {p}) \in {Cardinality(DOMAIN kept), Cardinality(DOMAIN kept) + 1}
    BY <1>10, FS_AddElement
  <2> QED BY <1>3, <1>10, <2>1, <2>2
<1>13. ASSUME NEW q \in DOMAIN cache'
       PROVE  /\ q \in Nat /\ cache'[q].rows \in PageRows /\ cache'[q].at \in Nat /\ cache'[q].at <= now
              /\ \E v \in vendor' : v.page = q /\ v.rows = cache'[q].rows /\ v.at = cache'[q].at
  <2>1. CASE q = p
    <3>1. cache'[q].at = now /\ cache'[q].rows = rows
      BY <1>11, <2>1
    <3>2. p \in Nat
      BY <1>3 DEF Searches
    <3> QED BY <1>3, <1>4, <1>5, <2>1, <3>1, <3>2
  <2>2. CASE q # p
    <3>1. q \in DOMAIN cache /\ cache'[q] = cache[q]
      BY <1>10, <1>11, <2>2
    <3> QED BY <1>5, <3>1 DEF SearchInv, CacheTruthful
  <2> QED BY <2>1, <2>2
<1>14. CacheTruthful'
  BY <1>2, <1>13 DEF CacheTruthful
<1> QED BY <1>2, <1>6, <1>9, <1>12, <1>14 DEF SearchInv, SearchTyped

LEMMA VendorFailsKeeps ==
  ASSUME SearchInv, NEW a \in Requests, VendorFails(a)
  PROVE  SearchInv'
<1>1. /\ ask[a].at = "granted"
      /\ ask' = [ask EXCEPT ![a].at = "failed", ![a].back = spent.start]
      /\ search' = [search EXCEPT ![a].told = "failed"]
      /\ spent' = [spent EXCEPT !.count = IF @ = 0 THEN 0 ELSE @ - 1]
      /\ UNCHANGED <<now, cache, vendor>>
  BY DEF VendorFails, ChangeFails, Tells, Revoke
<1>2. /\ ask \in [Requests -> Asked] /\ search \in [Requests -> Searches]
      /\ ask[a] \in Asked /\ search[a] \in Searches /\ spent \in Entries
      /\ spent.start \in Windows /\ spent.count \in Nat
  BY DEF SearchInv, SearchTyped, Entries
<1> DEFINE asked == [ask[a] EXCEPT !.at = "failed", !.back = spent.start]
           got == [search[a] EXCEPT !.told = "failed"]
<1>3. /\ asked \in Asked /\ asked.at = "failed" /\ got \in Searches /\ got.told = "failed"
  BY <1>2 DEF Asked, Searches, AskStages, Tellings
<1>4. ask' = [ask EXCEPT ![a] = asked] /\ search' = [search EXCEPT ![a] = got]
  BY <1>1
<1> HIDE DEF asked, got
<1>5. /\ ask' \in [Requests -> Asked] /\ search' \in [Requests -> Searches]
      /\ ask'[a] = asked /\ search'[a] = got
      /\ \A b \in Requests \ {a} : ask'[b] = ask[b] /\ search'[b] = search[b]
  BY <1>2, <1>3, <1>4
<1>6. FindsTruthful'
  BY <1>1, <1>3, <1>5, OneAskFinds
<1>7. spent' \in Entries
  <2>1. (IF spent.count = 0 THEN 0 ELSE spent.count - 1) \in Nat
    BY <1>2
  <2> QED BY <1>1, <1>2, <2>1 DEF Entries
<1>8. CacheTruthful' /\ IsFiniteSet(DOMAIN cache') /\ Cardinality(DOMAIN cache') <= CacheCap
  BY <1>1, SweptCache
<1> QED BY <1>1, <1>5, <1>6, <1>7, <1>8 DEF SearchInv, SearchTyped

LEMMA RendersKeeps ==
  ASSUME SearchInv, NEW a \in Requests, Renders(a)
  PROVE  SearchInv'
<1> DEFINE told == IF search[a].page = 1
                      THEN IF search[a].rows = NoRows THEN "none" ELSE "page"
                      ELSE IF search[a].rows = NoRows \/ RepeatsPrevious(a)
                      THEN "exhausted" ELSE "page"
           got == [search[a] EXCEPT !.shownAt = now, !.told = told]
<1>1. /\ ask[a].at \in {"rendering", "stood"}
      /\ search' = [search EXCEPT ![a].shownAt = now, ![a].told = told]
      /\ cache' \in {cache, LiveEntries}
      /\ UNCHANGED <<now, spent, ask, vendor>>
  BY DEF Renders, budgetVars
<1>2. /\ ask \in [Requests -> Asked] /\ search \in [Requests -> Searches]
      /\ search[a] \in Searches /\ now \in Nat /\ spent \in Entries
  BY DEF SearchInv, SearchTyped
<1>3. told = "exhausted" /\ search[a].rows # NoRows =>
         Within(vendor, search[a].page - 1, search[a].rows, now)
  BY LiveOnes DEF RepeatsPrevious
<1>4. told \in {"page", "none", "exhausted"}
  OBVIOUS
<1>5. search' = [search EXCEPT ![a] = got]
  <2> HIDE DEF told
  <2> QED BY <1>1
<1>6. /\ got \in Searches /\ got.told = told /\ got.page = search[a].page
      /\ got.rows = search[a].rows /\ got.foundAt = search[a].foundAt /\ got.shownAt = now
  <2> HIDE DEF told
  <2> QED BY <1>2, <1>4 DEF Searches, Tellings
<1> HIDE DEF told, got
<1>7. /\ search' \in [Requests -> Searches] /\ search'[a] = got
      /\ \A b \in Requests \ {a} : search'[b] = search[b]
  BY <1>2, <1>5, <1>6
<1>8. Within(vendor, search[a].page, search[a].rows, search[a].foundAt)
  BY <1>1 DEF SearchInv, FindsTruthful
<1>9. FindsTruthful'
  BY <1>1, <1>2, <1>3, <1>4, <1>6, <1>7, <1>8, OneAskFinds
<1>10. CacheTruthful' /\ IsFiniteSet(DOMAIN cache') /\ Cardinality(DOMAIN cache') <= CacheCap
  BY <1>1, SweptCache
<1> QED BY <1>1, <1>2, <1>7, <1>9, <1>10 DEF SearchInv, SearchTyped

LEMMA SearchStep == SearchInv /\ [SearchNext]_searchVars => SearchInv'
<1> SUFFICES ASSUME SearchInv, [SearchNext]_searchVars PROVE SearchInv'
  OBVIOUS
<1>1. CASE Ticks
  <2>1. now' = now + 1 /\ UNCHANGED <<spent, ask, cache, search, vendor>>
    BY <1>1 DEF Ticks, ClockTicks
  <2>2. SearchTyped'
    BY <2>1 DEF SearchInv, SearchTyped
  <2>3. CacheTruthful'
    BY <2>1 DEF SearchInv, SearchTyped, CacheTruthful
  <2>4. FindsTruthful'
    BY <2>1 DEF SearchInv, FindsTruthful
  <2> QED BY <2>2, <2>3, <2>4 DEF SearchInv
<1>2. CASE UNCHANGED searchVars
  <2>1. UNCHANGED <<now, spent, ask, cache, search, vendor>>
    BY <1>2 DEF searchVars, budgetVars
  <2> QED BY <2>1 DEF SearchInv, SearchTyped, CacheTruthful, FindsTruthful
<1> QED BY <1>1, <1>2, FindsCachedKeeps, MissesCacheKeeps, NobodyToBillKeeps,
           AsksVendorKeeps, VendorAnswersKeeps,
           VendorFailsKeeps, RendersKeeps DEF SearchNext

(* Whoever asks, whatever is cached, swept or cleared, and whenever the       *)
(* vendor's pages change: a turn is shown of a page what the vendor answered  *)
(* for it no longer than a cache's span before it was looked up, and is told  *)
(* that the results ended only where they did (tools/search, tools/lookup.rs).*)
THEOREM SearchesAreTrue == SearchSpec => []SearchTruthful
<1>1. SearchInit => SearchInv
  <2> SUFFICES ASSUME SearchInit PROVE SearchInv
    OBVIOUS
  <2>1. /\ now = 0 /\ spent = NoEntry /\ cache = EmptyCache
        /\ ask = [a \in Requests |-> [at |-> "unasked", window |-> Unopened, back |-> Unopened]]
        /\ search = [a \in Requests |->
                        [page |-> 0, rows |-> NoRows, told |-> "", foundAt |-> 0, shownAt |-> 0]]
    BY DEF SearchInit, BudgetsInit
  <2>2. DOMAIN cache = {} /\ IsFiniteSet({}) /\ Cardinality({}) = 0 /\ CacheCap \in Nat
    BY <2>1, FS_EmptySet, SearchAssumption DEF EmptyCache
  <2>3. ask \in [Requests -> Asked] /\ search \in [Requests -> Searches] /\ spent \in Entries
    BY <2>1, SearchAssumption DEF Asked, AskStages, Windows, Searches, Tellings, Entries, NoEntry
  <2>4. \A a \in Requests : ask[a].at = "unasked" /\ search[a].told = ""
    BY <2>1
  <2>5. SearchTyped
    <3>1. now \in Nat /\ IsFiniteSet(DOMAIN cache)
      BY <2>1, <2>2
    <3>2. Cardinality(DOMAIN cache) = 0 /\ 0 <= CacheCap
      BY <2>2
    <3> QED BY <2>3, <3>1, <3>2 DEF SearchTyped
  <2>6. CacheTruthful
    BY <2>2 DEF CacheTruthful
  <2>7. FindsTruthful
    BY <2>4 DEF FindsTruthful
  <2> QED BY <2>5, <2>6, <2>7 DEF SearchInv
<1>2. SearchInv => SearchTruthful
  <2> SUFFICES ASSUME SearchInv PROVE SearchTruthful
    OBVIOUS
  <2>1. \A p, rows, at : AnsweredWithin(p, rows, at) <=> Within(vendor, p, rows, at)
    BY DEF AnsweredWithin, Within
  <2> QED BY <2>1 DEF SearchTruthful, SearchInv, SearchTyped, FindsTruthful
<1> QED BY <1>1, <1>2, SearchStep, PTL DEF SearchSpec

-----------------------------------------------------------------------------
\* AutoCompaction: the compactions nobody asks for.

(* The marker a compaction was begun for still counts; and a driver that has  *)
(* neither tried nor been away is free, has a tick to take where the edge is  *)
(* near, and takes it before the next one.                                    *)
AutoInv ==
    /\ {own, inherited, incidents, healed, compactions} \subseteq Nat
    /\ sinceDispatch \in Nat \cup {Never} /\ swept \in BOOLEAN
    /\ driver \in {"watches", "wakes", "sweeps", "away", "ended"}
    /\ healed + own <= incidents
    /\ superseded => driver \in {"wakes", "sweeps"}
    /\ driver = "wakes" /\ ~superseded => own > 0
    /\ tried \/ absent \/ driver \in {"watches", "ended"}
    /\ used = "wall" /\ driver # "ended" /\ ~tried /\ ~absent =>
           /\ sinceDispatch # Never /\ sinceDispatch < Ttl
           /\ swept => sinceDispatch < Ttl - Margin

LEMMA AutoStep == AutoInv /\ [AutoNext]_autoVars => AutoInv'
<1> SUFFICES ASSUME AutoInv, [AutoNext]_autoVars PROVE AutoInv'
  OBVIOUS
<1> USE AutoCompactionAssumption
<1> USE DEF AutoInv, readings, markers, counts
<1>1. CASE Inbound
  BY <1>1 DEF Inbound
<1>2. CASE Turn
  <2>1. own' \in Nat /\ incidents' \in Nat /\ healed' = healed /\ healed' + own' <= incidents'
        /\ own' >= own /\ inherited' = inherited
    BY <1>2 DEF Turn
  <2>2. CASE Measured
    <3>1. absent' <=> driver # "watches"
      BY <2>2 DEF Measured
    <3>2. tried' = FALSE /\ sinceDispatch' = 0 /\ UNCHANGED <<swept, driver, superseded, counts>>
      BY <1>2, <2>2 DEF Turn, Measured
    <3>3. 0 # Never /\ 0 < Ttl - Margin /\ 0 < Ttl
      OBVIOUS
    <3> QED BY <2>1, <3>1, <3>2, <3>3
  <2>3. CASE UNCHANGED <<used, sinceDispatch, tried, absent>>
    BY <1>2, <2>1, <2>3 DEF Turn
  <2> QED BY <1>2, <2>2, <2>3 DEF Turn
<1>3. CASE Lags
  BY <1>3 DEF Lags
<1>4. CASE TimePasses
  <2>1. sinceDispatch' = IF sinceDispatch \in {Never, Ttl} THEN sinceDispatch ELSE sinceDispatch + 1
    BY <1>4 DEF TimePasses, Later
  <2>2. sinceDispatch' \in Nat \cup {Never}
    BY <2>1
  <2>3. ASSUME used = "wall", driver # "ended", ~tried, ~absent
        PROVE  sinceDispatch' # Never /\ sinceDispatch' < Ttl
    <3>1. swept /\ sinceDispatch # Never /\ sinceDispatch < Ttl - Margin
      BY <1>4, <2>3 DEF TimePasses
    <3>2. sinceDispatch' = sinceDispatch + 1 /\ sinceDispatch \in Nat
      BY <2>1, <3>1
    <3> QED BY <3>1, <3>2
  <2> QED BY <1>4, <2>2, <2>3 DEF TimePasses
<1>5. CASE WakesOnChange
  BY <1>5 DEF WakesOnChange, Drives, ExhaustedSinceOpening
<1>6. CASE Sweeps
  <2>1. driver = "watches" /\ ~swept /\ swept' = TRUE /\ UNCHANGED <<readings, changed, superseded, markers, counts, absent>>
    BY <1>6 DEF Sweeps
  <2>2. CASE Armed /\ Moment
    BY <1>6, <2>1, <2>2 DEF Sweeps, Drives
  <2>3. CASE ~(Armed /\ Moment)
    <3>1. driver' = driver /\ tried' = tried
      BY <1>6, <2>3 DEF Sweeps
    <3>2. ASSUME used = "wall", ~tried, ~absent
          PROVE  sinceDispatch < Ttl - Margin
      BY <2>1, <2>3, <3>2 DEF Armed, Moment, NearEdge
    <3> QED BY <2>1, <3>1, <3>2
  <2> QED BY <2>2, <2>3
<1>7. CASE LeavesFor
  BY <1>7 DEF LeavesFor
<1>8. CASE ComesBack
  BY <1>8 DEF ComesBack
<1>9. CASE Compacted
  BY <1>9 DEF Compacted, Succeeds
<1>10. CASE CommandReplaces
  <2>1. superseded' <=> driver \in {"wakes", "sweeps"}
    BY <1>10 DEF CommandReplaces
  <2>2. /\ own' = 0 /\ inherited' \in Nat /\ compactions' \in Nat
        /\ UNCHANGED <<incidents, swept, driver, healed, tried, absent>>
        /\ used' = "unknown" /\ sinceDispatch' = Never
    BY <1>10 DEF CommandReplaces, Succeeds
  <2> QED BY <2>1, <2>2
<1>11. CASE CompactionFails
  BY <1>11 DEF CompactionFails
<1>12. CASE DriverRestarts
  BY <1>12 DEF DriverRestarts
<1>13. CASE UNCHANGED autoVars
  BY <1>13 DEF autoVars
<1> QED BY <1>1, <1>2, <1>3, <1>4, <1>5, <1>6, <1>7, <1>8, <1>9, <1>10, <1>11, <1>12, <1>13
        DEF AutoNext

(* For every time to live and every margin, and however the chat, its         *)
(* commands, the ticks and other chats' compactions fall: one turn ended over *)
(* its tool calls costs at most one compaction, and a chat at its window's    *)
(* headroom is gone for before its prompt cache is cold (compaction.rs).      *)
THEOREM UnattendedInTime == AutoSpec => []UnattendedKept
<1>1. AutoInit => AutoInv
  BY AutoCompactionAssumption DEF AutoInit, AutoInv
<1>2. AutoInv => UnattendedKept
  BY AutoCompactionAssumption DEF AutoInv, UnattendedKept, IncidentOnce, EdgeKept
<1> QED BY <1>1, <1>2, AutoStep, PTL DEF AutoSpec

-----------------------------------------------------------------------------
\* Capture: how a compaction gets its summary.

Wakings == {"change", "end", "lag"}

(* What the capture holds of the turn at each of its steps: a turn that has   *)
(* stored nothing yet has sent no event, so a reading that began before that  *)
(* has heard of no stream's end; any other one found the turn over and all    *)
(* that it wrote; and a capture that waits on a turn that is over has an      *)
(* event to take.                                                             *)
CaptureInv ==
    /\ temporary \in {"latched", "asked", "streams", "round", "over"}
    /\ prose \in {"none", "answer", "broken"} /\ wakes \in Seq(Wakings)
    /\ rounds \in Nat
    /\ capture \in {"starts", "reads", "lists", "judges", "waits", "settles",
                    "summary", "nothing", "failed"}
    /\ capture = "starts" <=> temporary = "latched"
    /\ temporary \in {"latched", "asked"} => wakes = <<>> /\ ~ended /\ prose = "none"
    /\ capture \in {"lists", "judges"} /\ reading.early => ~ended
    /\ capture \in {"lists", "judges"} /\ ~reading.early => temporary = "over"
    /\ capture = "judges" /\ ~reading.early => prose = reading.prose
    /\ capture = "waits" /\ temporary = "over" /\ ended => wakes # <<>>
    /\ capture = "settles" => temporary = "over"
    /\ capture = "summary" => \/ temporary = "over" /\ prose = "answer"
                              \/ reading = [early |-> TRUE, prose |-> "answer"]
    /\ capture = "nothing" => \/ temporary = "over" /\ prose # "answer"
                              \/ reading = [early |-> TRUE, prose |-> "broken"]
    /\ reading \in [early : BOOLEAN, prose : {"none", "answer", "broken"}]

LEMMA CaptureWoken ==
  ASSUME NEW events \in Seq(Wakings), events # <<>>, wakes \in Seq(Wakings),
         capture # "starts", Woken(events)
  PROVE  wakes' \in Seq(Wakings) /\ wakes' # <<>>
<1> DEFINE kept == Unlagged \o events
           lost == Len(kept) - WakeDepth
<1>1. Unlagged \in Seq(Wakings)
  BY DEF Unlagged
<1>2. kept \in Seq(Wakings) /\ WakeDepth \in Nat \ {0} /\ Len(kept) \in Nat
  BY <1>1, CaptureAssumption
<1>3. wakes' = IF lost > 0 THEN <<"lag">> \o SubSeq(kept, lost + 1, Len(kept)) ELSE wakes \o events
  BY DEF Woken
<1>4. CASE lost > 0
  <2> HIDE DEF kept
  <2>1. SubSeq(kept, lost + 1, Len(kept)) \in Seq(Wakings) /\ <<"lag">> \in Seq(Wakings)
    BY <1>2, <1>4 DEF Wakings
  <2>2. wakes' = <<"lag">> \o SubSeq(kept, lost + 1, Len(kept))
    BY <1>3, <1>4
  <2> HIDE DEF lost
  <2> QED BY <2>1, <2>2
<1>5. CASE ~(lost > 0)
  <2>1. wakes' = wakes \o events
    BY <1>3, <1>5
  <2> QED BY <2>1
<1> QED BY <1>4, <1>5

LEMMA CaptureStep ==
  ASSUME CaptureInv, [CaptureNext]_captureVars
  PROVE  CaptureInv'
<1> USE DEF CaptureInv
<1>0. <<"change">> \in Seq(Wakings) /\ <<"change", "end">> \in Seq(Wakings) /\ <<"end">> \in Seq(Wakings)
  BY DEF Wakings
<1>1. CASE StreamOpens
  <2>1. wakes' \in Seq(Wakings) /\ wakes' # <<>>
    BY <1>0, <1>1, CaptureWoken DEF StreamOpens
  <2> QED BY <1>1, <2>1 DEF StreamOpens
<1>2. CASE StreamCommits
  <2>1. wakes' \in Seq(Wakings) /\ wakes' # <<>>
    BY <1>0, <1>2, CaptureWoken DEF StreamCommits
  <2> QED BY <1>2, <2>1 DEF StreamCommits
<1>3. CASE StreamFails
  <2>1. wakes' \in Seq(Wakings) /\ wakes' # <<>>
    BY <1>0, <1>3, CaptureWoken DEF StreamFails
  <2> QED BY <1>3, <2>1 DEF StreamFails
<1>4. CASE Unlatches
  BY <1>4 DEF Unlatches
<1>5. CASE ReadsPredicate
  <2>1. /\ reading' \in [early : BOOLEAN, prose : {"none", "answer", "broken"}]
        /\ reading'.early <=> temporary \in {"latched", "asked"}
    <3>1. PICK early \in BOOLEAN : early <=> temporary \in {"latched", "asked"}
      OBVIOUS
    <3>2. (temporary \in {"latched", "asked"}) = early
      BY <3>1, Zenon
    <3>3. reading' = [reading EXCEPT !.early = early]
      BY <1>5, <3>2, Zenon DEF ReadsPredicate
    <3> QED BY <3>1, <3>3
  <2> QED BY <1>5, <2>1 DEF ReadsPredicate, DurablyOver, temporaryVars
<1>6. CASE ListsBlocks
  <2>1. /\ reading' \in [early : BOOLEAN, prose : {"none", "answer", "broken"}]
        /\ reading'.early = reading.early
    BY <1>6 DEF ListsBlocks, temporaryVars
  <2>2. reading'.prose = prose'
    BY <1>6 DEF ListsBlocks, temporaryVars
  <2> QED BY <1>6, <2>1, <2>2 DEF ListsBlocks, temporaryVars, Wakings
<1>7. CASE Judges
  <2>1. UNCHANGED <<temporary, rounds, prose, wakes, ended, reading>> /\ capture = "judges"
    BY <1>7 DEF Judges, temporaryVars
  <2>2. CASE reading.prose \in {"answer", "broken"}
    <3>1. capture' = IF reading.prose = "answer" THEN "summary" ELSE "nothing"
      <4>1. CASE reading.prose = "answer"
        BY <1>7, <4>1 DEF Judges, SilentAfterAll
      <4>2. CASE reading.prose = "broken"
        BY <1>7, <4>2 DEF Judges, SilentAfterAll
      <4> QED BY <2>2, <4>1, <4>2
    <3>2. reading.early => reading = [early |-> TRUE, prose |-> reading.prose]
      <4>1. PICK e \in BOOLEAN, q \in {"none", "answer", "broken"} :
              reading = [early |-> e, prose |-> q]
        OBVIOUS
      <4>2. reading.early = e /\ reading.prose = q
        BY <4>1
      <4>3. e => reading = [early |-> TRUE, prose |-> q]
        <5>1. CASE e = TRUE
          BY <4>1, <5>1, Zenon
        <5>2. CASE e = FALSE
          BY <5>2
        <5> QED BY <5>1, <5>2
      <4> QED BY <4>2, <4>3, Zenon
    <3> QED BY <2>1, <2>2, <3>1, <3>2
  <2>3. CASE reading.prose = "none"
    <3>1. capture' = IF ended THEN "nothing" ELSE "waits"
      BY <1>7, <2>3 DEF Judges, SilentAfterAll
    <3> QED BY <2>1, <2>3, <3>1
  <2> QED BY <2>2, <2>3
<1>8. CASE TakesWakes
  BY <1>8 DEF TakesWakes, temporaryVars
<1>9. CASE BoundPasses
  BY <1>9 DEF BoundPasses
<1>10. CASE LastReading
  BY <1>10 DEF LastReading, temporaryVars
<1>11. CASE UNCHANGED captureVars
  BY <1>11 DEF captureVars
<1> QED BY <1>1, <1>2, <1>3, <1>4, <1>5, <1>6, <1>7, <1>8, <1>9, <1>10, <1>11
        DEF CaptureNext, Captures

(* However events are lost or come in bursts, and whatever falls between the  *)
(* two readings, what a compaction takes for the summary is what the          *)
(* temporary turn came to, or what its first rounds wrote where it asked      *)
(* before they began; silence is believed of no turn that has not ended; and  *)
(* a turn that is over is not waited for (session.rs, capture_summary).       *)
THEOREM CaptureTellsTheTurn == CaptureSpec => []CaptureTruthful
<1>1. ASSUME CaptureInit PROVE CaptureInv
  <2>1. reading \in [early : BOOLEAN, prose : {"none", "answer", "broken"}]
    BY <1>1 DEF CaptureInit
  <2>2. ~ended /\ wakes \in Seq(Wakings)
    BY <1>1 DEF CaptureInit
  <2> QED BY <1>1, <2>1, <2>2 DEF CaptureInit, CaptureInv
<1>2. CaptureInv => CaptureTruthful
  BY DEF CaptureInv, CaptureTruthful
<1> QED BY <1>1, <1>2, CaptureStep, PTL DEF CaptureSpec

-----------------------------------------------------------------------------
\* Wire: how a message reaches the platform.

(* The chunks the chat has are the first of the message, in order.            *)
InLine(seen) == seen \in Seq(Nat) /\ \A i \in 1 .. Len(seen) : seen[i] = i

WireInv ==
    /\ chunks \in Nat /\ thread \in {"plain", "ontoOrPlainly", "ontoOnly"}
    /\ form \in [formatted : BOOLEAN, targeted : BOOLEAN]
    /\ form.targeted => thread # "plain"
    /\ outcome \in {"sending", "whole", "failed"}
    /\ InLine(delivered) /\ InLine(chat)
    /\ outcome = "sending" => chat = delivered /\ why = "none"
    /\ outcome = "whole" => Len(delivered) = chunks /\ chat = delivered /\ why = "none"
    /\ delivered # chat => why = "unknown" /\ chat = Append(delivered, chunk)
    /\ why = "thread" => thread = "ontoOnly"

LEMMA WireInLine ==
  ASSUME NEW seen, InLine(seen)
  PROVE  InLine(Append(seen, Len(seen) + 1)) /\ Len(Append(seen, Len(seen) + 1)) = Len(seen) + 1
BY DEF InLine

LEMMA WireOpens ==
  ASSUME NEW n, NEW how
  PROVE  /\ Opening(n, how) \in [formatted : BOOLEAN, targeted : BOOLEAN]
         /\ Opening(n, how).targeted => how # "plain"
<1>1. (n = 1 /\ how # "plain") \in BOOLEAN
  OBVIOUS
<1>2. Opening(n, how).targeted = (n = 1 /\ how # "plain")
  BY DEF Opening
<1>3. Opening(n, how) \in [formatted : BOOLEAN, targeted : BOOLEAN]
  BY <1>1 DEF Opening
<1> QED BY <1>2, <1>3

LEMMA WireDecides ==
  ASSUME WireInv, outcome = "sending", NEW shape, NEW cause,
         \/ shape \in Shapes /\ cause \in Objections /\ chat' = chat
         \/ shape = "lost" /\ cause = "unknown" /\ chat' \in {chat, Append(chat, chunk)},
         Decides(shape, cause), UNCHANGED message
  PROVE  WireInv'
<1> USE DEF WireInv, message
<1>1. chunk' = chunk /\ delivered' = delivered /\ chunks' = chunks /\ thread' = thread
  BY DEF Decides, Tries, SendFails, chunk
<1>2. InLine(chat')
  BY <1>1, WireInLine DEF chunk
<1>2a. Shapes \subseteq {"status", "body"}
  BY WireAssumption
<1>3. CASE outcome' = "sending"
  <2>1. ~RejectsFormatting("lost", "unknown") /\ ~RejectsThread("lost")
    BY DEF RejectsFormatting, RejectsThread, IsRefusal
  <2>2. chat' = chat /\ why' = why /\ form' \in {[form EXCEPT !.formatted = FALSE], [formatted |-> TRUE, targeted |-> FALSE]}
    BY <1>3, <2>1 DEF Decides, Tries, SendFails
  <2>3. form' \in [formatted : BOOLEAN, targeted : BOOLEAN]
    <3>1. [form EXCEPT !.formatted = FALSE] \in [formatted : BOOLEAN, targeted : BOOLEAN]
      OBVIOUS
    <3>2. [formatted |-> TRUE, targeted |-> FALSE] \in [formatted : BOOLEAN, targeted : BOOLEAN]
      OBVIOUS
    <3> QED BY <2>2, <3>1, <3>2, Zenon
  <2>4. form'.targeted => thread # "plain"
    BY <2>2
  <2> QED BY <1>1, <1>2, <1>3, <2>2, <2>3, <2>4
<1>4. CASE outcome' # "sending"
  <2>1. /\ outcome' = "failed" /\ why' = cause /\ form' = form
        /\ ~RejectsThread(shape)
    BY <1>4 DEF Decides, Tries, SendFails
  <2>2. cause = "thread" => thread = "ontoOnly"
    <3> SUFFICES ASSUME cause = "thread" PROVE thread = "ontoOnly" 
      OBVIOUS
    <3>1. shape \in Shapes /\ form.targeted
      BY DEF Objections
    <3> QED BY <1>2a, <2>1, <3>1 DEF RejectsThread, IsRefusal
  <2>3. chat' # delivered' => why' = "unknown" /\ chat' = Append(delivered', chunk')
    BY <1>1, <2>1
  <2> QED BY <1>1, <1>2, <2>1, <2>2, <2>3
<1> QED BY <1>3, <1>4

LEMMA WireStep == WireInv /\ [WireNext]_wireVars => WireInv'
<1> SUFFICES ASSUME WireInv, [WireNext]_wireVars PROVE WireInv'
  OBVIOUS
<1>1. CASE Accepted
  <2>1. /\ outcome = "sending" /\ chat = delivered
        /\ chat' = Append(chat, chunk) /\ delivered' = Append(delivered, chunk)
        /\ chunks' = chunks /\ thread' = thread /\ why' = why /\ why = "none"
    BY <1>1 DEF Accepted, message, WireInv
  <2>2. InLine(delivered') /\ Len(delivered') = chunk
    BY <2>1, WireInLine DEF WireInv, chunk
  <2>3. \/ chunk = chunks /\ outcome' = "whole" /\ form' = form
        \/ outcome' = outcome /\ form' = Opening(chunk + 1, thread)
    BY <1>1 DEF Accepted
  <2>4. form' \in [formatted : BOOLEAN, targeted : BOOLEAN] /\ (form'.targeted => thread # "plain")
    BY <2>3, WireOpens DEF WireInv
  <2> QED BY <2>1, <2>2, <2>3, <2>4 DEF WireInv
<1>2. CASE RateLimited
  BY <1>2 DEF RateLimited, SendFails, message, WireInv, chunk
<1>3. CASE Declined
  <2>1. PICK shape \in Shapes, cause \in Objections : Decides(shape, cause)
    BY <1>3 DEF Declined
  <2> QED BY <1>3, <2>1, WireDecides DEF Declined
<1>4. CASE AnswerLost
  BY <1>4, WireDecides DEF AnswerLost
<1>5. CASE UNCHANGED wireVars
  BY <1>5 DEF wireVars, WireInv, chunk
<1> QED BY <1>1, <1>2, <1>3, <1>4, <1>5 DEF WireNext

(* Whatever the platform refuses, limits, loses or says of a chunk, what the  *)
(* client reports of a message is what the chat has of it, but for the one    *)
(* chunk whose fate is unknown, and a reply that may go plainly is not lost   *)
(* to its thread (client.rs, driver.rs).                                      *)
THEOREM WireReportsTheChat == WireSpec => []ReportMatchesChat
<1>1. WireInit => WireInv
  BY WireAssumption, WireOpens DEF WireInit, WireInv, InLine
<1>2. WireInv => ReportMatchesChat
  <2> SUFFICES ASSUME WireInv PROVE ReportMatchesChat
    OBVIOUS
  <2>1. chat \in Seq(Nat) /\ \A i \in 1 .. Len(chat) : chat[i] = i
    BY DEF WireInv, InLine
  <2>2. DOMAIN chat = 1 .. Len(chat)
    BY <2>1
  <2>3. \A i, j \in DOMAIN chat : i < j => chat[i] < chat[j]
    BY <2>1, <2>2
  <2> QED BY <2>3 DEF WireInv, ReportMatchesChat
<1> QED BY <1>1, <1>2, WireStep, PTL DEF WireSpec

-----------------------------------------------------------------------------
\* Composing: the signal that the assistant is writing.

Carriage == [of : SUBSET SendCalls, lagged : BOOLEAN]

(* A carrier tells of what it lost in its first place only.                   *)
LagAhead(carrier) == \A i \in 1 .. Len(carrier) : carrier[i].lagged => i = 1

TerminalAt(carrier, i) == i \in 1 .. Len(carrier) /\ ~carrier[i].lagged /\ carrier[i].of = {}

Lossless(carrier) == \A i \in 1 .. Len(carrier) : ~carrier[i].lagged

TellsOf(carrier, s) == \E i \in 1 .. Len(carrier) : s \in carrier[i].of

(* A send whose ending the edge has not taken.                                *)
Open(s) == send[s] \in {"begun", "filed", "leaving"} \/ TellsOf(endings, s)

ComposingTyped ==
    /\ send \in [SendCalls -> {"unmade", "begun", "filed", "leaving", "over"}]
    /\ current \subseteq SendCalls /\ counted \subseteq SendCalls /\ IsFiniteSet(counted)
    /\ said \in Seq(Carriage) /\ endings \in Seq(Carriage)
    /\ LagAhead(said) /\ LagAhead(endings)
    /\ unfinished \in Nat /\ transitions \in Seq(BOOLEAN)
    /\ refreshing \in BOOLEAN /\ clean \in BOOLEAN

(* The adapter reads last how the signal is.                                  *)
IndicatorFollows ==
    /\ \A i \in 1 .. Len(transitions) : i = Len(transitions) =>
          (transitions[i] <=> unfinished > 0)
    /\ refreshing /\ transitions = <<>> => unfinished > 0

(* One begin and one ending of each send, neither before it was made.             *)
ToldOnce ==
    /\ \A i \in 1 .. Len(said) : \A s \in said[i].of :
          /\ send[s] # "unmade" /\ s \notin counted
          /\ said[i].of = {s}
          /\ \A j \in 1 .. Len(said) : s \in said[j].of => i = j
          /\ Lossless(endings) => Open(s)
    /\ \A i \in 1 .. Len(endings) :
          /\ ~endings[i].lagged => \E s \in SendCalls : endings[i].of = {s}
          /\ \A s \in endings[i].of :
                send[s] = "over" /\ \A j \in 1 .. Len(endings) : s \in endings[j].of => i = j
    /\ \A s \in counted \cup current : send[s] # "unmade"
    /\ unfinished = 0 => counted = {}

(* Past the last terminal on the bus are the begins of the current stream.    *)
CurrentIsQueued ==
    \A i \in 1 .. Len(said) : TerminalAt(said, i) =>
        /\ \A s \in current : \E k \in 1 .. Len(said) : i < k /\ s \in said[k].of
        /\ (\A j \in 1 .. Len(said) : TerminalAt(said, j) => j <= i) =>
              \A k \in 1 .. Len(said) : i < k => said[k].of \subseteq current

(* With no terminal to come the signal counts those of the current stream     *)
(* that are open and whose begins it took.                                    *)
CountIsRight ==
    clean /\ Lossless(said) /\ Lossless(endings)
          /\ (\A i \in 1 .. Len(said) : ~TerminalAt(said, i)) =>
        /\ unfinished = Cardinality({s \in counted : Open(s)})
        /\ counted \subseteq current
        /\ \A i \in 1 .. Len(said) : said[i].of \subseteq current
        /\ \A s \in current : Open(s) => s \in counted \/ TellsOf(said, s)

ComposingInv == ComposingTyped /\ IndicatorFollows /\ ToldOnce /\ CurrentIsQueued /\ CountIsRight

-----------------------------------------------------------------------------
(* What a carrier holds once it took an event: its oldest may be gone.        *)
CarriedAs(q, carrier, event, d) ==
    /\ Len(q) = Len(carrier) + 1 - d /\ Len(q) >= 1
    /\ q[Len(q)] = event
    /\ \A i \in 1 .. Len(q) - 1 : q[i] = carrier[i + d] \/ (i = 1 /\ q[i] = Missed)
    /\ Lossless(q) => d = 0 /\ Lossless(carrier) /\ \A i \in 1 .. Len(carrier) : q[i] = carrier[i]

LEMMA CarriageIs ==
  /\ Missed \in Carriage /\ Missed.lagged /\ Missed.of = {}
  /\ \A of \in SUBSET SendCalls :
        Told(of) \in Carriage /\ ~Told(of).lagged /\ Told(of).of = of
<1>1. Missed.lagged /\ Missed.of = {} /\ Missed.lagged \in BOOLEAN
  BY DEF Missed
<1>2. Missed \in Carriage
  BY DEF Missed, Carriage
<1>3. ASSUME NEW of \in SUBSET SendCalls
      PROVE  Told(of) \in Carriage /\ ~Told(of).lagged /\ Told(of).of = of
  BY DEF Told, Carriage
<1> QED BY <1>1, <1>2, <1>3

LEMMA ToldSends ==
  ASSUME NEW carrier \in Seq(Carriage)
  PROVE  \A i \in 1 .. Len(carrier) : carrier[i].of \subseteq SendCalls
<1> SUFFICES ASSUME NEW i \in 1 .. Len(carrier) PROVE carrier[i].of \subseteq SendCalls
  OBVIOUS
<1>1. carrier[i] \in Carriage
  OBVIOUS
<1> QED BY <1>1 DEF Carriage

LEMMA CarriedIs ==
  ASSUME NEW carrier \in Seq(Carriage), NEW event \in Carriage, ~event.lagged, LagAhead(carrier)
  PROVE  /\ Carried(carrier, event) \in Seq(Carriage) /\ LagAhead(Carried(carrier, event))
         /\ \E d \in {0, 1} : CarriedAs(Carried(carrier, event), carrier, event, d)
<1> DEFINE q == Carried(carrier, event)
           kept == Remaining(carrier)
<1>1. kept \in Seq(Carriage) /\ Len(kept) \in Nat /\ Len(carrier) \in Nat
  BY DEF Remaining
<1>2. \/ kept = carrier /\ (carrier # <<>> => ~carrier[1].lagged)
      \/ /\ carrier # <<>> /\ carrier[1].lagged /\ kept = Tail(carrier) /\ Len(kept) = Len(carrier) - 1
         /\ \A i \in 1 .. Len(kept) : kept[i] = carrier[i + 1]
  BY DEF Remaining
<1>3. CASE Len(kept) < CarrierDepth
  <2>1. q = Append(carrier, event)
    BY <1>3 DEF Carried
  <2>2. /\ q \in Seq(Carriage) /\ Len(q) = Len(carrier) + 1 /\ q[Len(q)] = event
        /\ \A i \in 1 .. Len(carrier) : q[i] = carrier[i]
    BY <2>1
  <2> HIDE DEF q
  <2>3. LagAhead(q)
    BY <2>2 DEF LagAhead
  <2>4. CarriedAs(q, carrier, event, 0)
    BY <2>2, <1>1 DEF CarriedAs, Lossless
  <2> QED BY <2>2, <2>3, <2>4 DEF q
<1>4. CASE ~(Len(kept) < CarrierDepth)
  <2> DEFINE r == Tail(kept)
  <2>1. kept # <<>> /\ Len(kept) >= 1
    BY <1>1, <1>4, ComposingAssumption
  <2>2. /\ r \in Seq(Carriage) /\ Len(r) = Len(kept) - 1
        /\ \A i \in 1 .. Len(r) : r[i] = kept[i + 1]
    BY <1>1, <2>1
  <2>3. q = <<Missed>> \o r \o <<event>>
    BY <1>4 DEF Carried
  <2> HIDE DEF r
  <2>4. /\ q \in Seq(Carriage) /\ Len(q) = Len(r) + 2 /\ q[1] = Missed /\ q[Len(r) + 2] = event
        /\ \A i \in 2 .. Len(r) + 1 : q[i] = r[i - 1]
    BY <2>2, <2>3, CarriageIs
  <2> HIDE DEF q
  <2>5. \A i \in 2 .. Len(q) - 1 : i \in 1 .. Len(kept) /\ q[i] = kept[i]
    BY <2>1, <2>2, <2>4, <1>1
  <2>6. ~Lossless(q)
    BY <2>4, <2>2, CarriageIs DEF Lossless
  <2>7. CASE kept = carrier /\ (carrier # <<>> => ~carrier[1].lagged)
    <3>1. Len(q) = Len(carrier) + 1
      BY <2>7, <2>4, <2>2, <1>1
    <3>2. LagAhead(q)
      <4> SUFFICES ASSUME NEW i \in 1 .. Len(q), q[i].lagged PROVE i = 1
        BY DEF LagAhead
      <4>1. CASE i = Len(q)
        BY <4>1, <2>4, <2>2
      <4>2. CASE i \in 2 .. Len(q) - 1
        BY <4>2, <2>5, <2>7 DEF LagAhead
      <4> QED BY <4>1, <4>2, <2>4, <2>2
    <3>3. CarriedAs(q, carrier, event, 0)
      BY <3>1, <2>4, <2>2, <2>5, <2>6, <2>7, <1>1 DEF CarriedAs
    <3> QED BY <2>4, <3>2, <3>3 DEF q
  <2>8. CASE /\ carrier # <<>> /\ carrier[1].lagged /\ kept = Tail(carrier) /\ Len(kept) = Len(carrier) - 1
             /\ \A i \in 1 .. Len(kept) : kept[i] = carrier[i + 1]
    <3>1. Len(q) = Len(carrier) /\ \A i \in 2 .. Len(q) - 1 : q[i] = carrier[i + 1] /\ i + 1 \in 1 .. Len(carrier)
      BY <2>8, <2>4, <2>2, <2>5, <1>1
    <3>2. LagAhead(q)
      <4> SUFFICES ASSUME NEW i \in 1 .. Len(q), q[i].lagged PROVE i = 1
        BY DEF LagAhead
      <4>1. CASE i = Len(q)
        BY <4>1, <2>4, <2>2
      <4>2. CASE i \in 2 .. Len(q) - 1
        BY <4>2, <3>1, <1>1 DEF LagAhead
      <4> QED BY <4>1, <4>2, <2>4, <2>2
    <3>3. CarriedAs(q, carrier, event, 1)
      BY <3>1, <2>4, <2>2, <2>6, <1>1 DEF CarriedAs
    <3> QED BY <2>4, <3>2, <3>3 DEF q
  <2> QED BY <1>2, <2>7, <2>8
<1> QED BY <1>3, <1>4

LEMMA IndicatorKeeps ==
  ASSUME ComposingTyped, IndicatorFollows, refreshing' => refreshing, unfinished' \in Nat,
         \/ transitions' = transitions /\ (unfinished' > 0 <=> unfinished > 0)
         \/ \E b \in BOOLEAN : transitions' = Append(transitions, b) /\ (b <=> unfinished' > 0)
  PROVE  IndicatorFollows' /\ transitions' \in Seq(BOOLEAN)
<1>1. CASE transitions' = transitions /\ (unfinished' > 0 <=> unfinished > 0)
  BY <1>1 DEF IndicatorFollows, ComposingTyped
<1>2. ASSUME NEW b \in BOOLEAN, transitions' = Append(transitions, b), b <=> unfinished' > 0
      PROVE  IndicatorFollows' /\ transitions' \in Seq(BOOLEAN)
  <2>1. /\ transitions' \in Seq(BOOLEAN) /\ Len(transitions') = Len(transitions) + 1
        /\ transitions'[Len(transitions')] = b /\ transitions' # <<>>
    BY SMTT(30), <1>2 DEF ComposingTyped
  <2> QED BY <2>1, <1>2 DEF IndicatorFollows
<1> QED BY <1>1, <1>2

\* The calls: what moves a send on, without an ending.
LEMMA MovesOnKeeps ==
  ASSUME ComposingInv, NEW s \in SendCalls, NEW at \in {"filed", "leaving"},
         send[s] \in {"begun", "filed"}, send' = [send EXCEPT ![s] = at],
         refreshing' => refreshing, refreshing' \in BOOLEAN,
         UNCHANGED <<current, terminals, said, endings, unfinished, transitions, counted, clean>>
  PROVE  ComposingInv'
<1>1. /\ current' = current /\ said' = said /\ endings' = endings /\ counted' = counted
      /\ unfinished' = unfinished /\ transitions' = transitions /\ clean' = clean
  OBVIOUS
<1>2. ComposingTyped'
  BY <1>1 DEF ComposingInv, ComposingTyped
<1>3. IndicatorFollows'
  BY <1>1, IndicatorKeeps DEF ComposingInv, ComposingTyped
<1>4. \A x \in SendCalls : /\ Open(x)' <=> Open(x)
                           /\ send'[x] = "unmade" <=> send[x] = "unmade"
                           /\ send'[x] = "over" <=> send[x] = "over"
  BY <1>1 DEF Open, ComposingInv, ComposingTyped
<1>5. ToldOnce'
  <2>1. \A i \in 1 .. Len(said) : said[i].of \subseteq SendCalls
    BY ToldSends DEF ComposingInv, ComposingTyped
  <2>2. \A i \in 1 .. Len(endings) : endings[i].of \subseteq SendCalls
    BY ToldSends DEF ComposingInv, ComposingTyped
  <2> QED BY <1>1, <1>4, <2>1, <2>2 DEF ComposingInv, ToldOnce, ComposingTyped
<1>6. CurrentIsQueued'
  BY <1>1 DEF ComposingInv, CurrentIsQueued
<1>7. CountIsRight'
  <2> SUFFICES ASSUME clean', Lossless(said)', Lossless(endings)',
                      \A i \in 1 .. Len(said') : ~TerminalAt(said', i)
               PROVE  /\ unfinished' = Cardinality({x \in counted' : Open(x)'})
                      /\ counted' \subseteq current'
                      /\ \A i \in 1 .. Len(said') : said'[i].of \subseteq current'
                      /\ \A x \in current' : Open(x)' => x \in counted' \/ TellsOf(said', x)
    BY DEF CountIsRight
  <2>1. {x \in counted' : Open(x)'} = {x \in counted : Open(x)}
    BY <1>1, <1>4 DEF ComposingInv, ComposingTyped
  <2>2. \A x \in current : Open(x)' => Open(x)
    BY <1>4 DEF ComposingInv, ComposingTyped
  <2>3. clean /\ Lossless(said) /\ Lossless(endings) /\ \A i \in 1 .. Len(said) : ~TerminalAt(said, i)
    BY <1>1
  <2>4. /\ unfinished = Cardinality({x \in counted : Open(x)})
        /\ counted \subseteq current
        /\ \A i \in 1 .. Len(said) : said[i].of \subseteq current
        /\ \A x \in current : Open(x) => x \in counted \/ TellsOf(said, x)
    BY <2>3 DEF ComposingInv, CountIsRight
  <2> QED BY <1>1, <2>1, <2>2, <2>4
<1> QED BY <1>2, <1>3, <1>5, <1>6, <1>7 DEF ComposingInv

LEMMA SendOverKeeps ==
  ASSUME ComposingInv, NEW s \in SendCalls, SendOver(s)
  PROVE  ComposingInv'
<1> DEFINE event == Told({s})
<1>1. /\ current' = current /\ said' = said /\ counted' = counted /\ refreshing' = refreshing
      /\ unfinished' = unfinished /\ transitions' = transitions /\ clean' = clean
      /\ send' = [send EXCEPT ![s] = "over"] /\ endings' = Carried(endings, event)
      /\ send[s] \in {"begun", "leaving"}
  BY DEF SendOver
<1>2. event \in Carriage /\ ~event.lagged /\ event.of = {s}
  BY CarriageIs
<1> HIDE DEF event
<1>3. endings \in Seq(Carriage) /\ LagAhead(endings) /\ send \in [SendCalls -> {"unmade", "begun", "filed", "leaving", "over"}]
  BY DEF ComposingInv, ComposingTyped
<1>4. endings' \in Seq(Carriage) /\ LagAhead(endings)'
  BY <1>1, <1>2, <1>3, CarriedIs
<1>5. PICK d \in {0, 1} : CarriedAs(endings', endings, event, d)
  BY <1>1, <1>2, <1>3, CarriedIs
<1>6. ComposingTyped'
  BY <1>1, <1>3, <1>4 DEF ComposingInv, ComposingTyped
<1>7. IndicatorFollows'
  BY <1>1, IndicatorKeeps DEF ComposingInv, ComposingTyped
<1>8. \A x \in SendCalls : /\ send'[x] = "unmade" <=> send[x] = "unmade"
                           /\ send[x] = "over" => send'[x] = "over"
  BY <1>1, <1>3
<1>9. Lossless(endings)' => /\ Lossless(endings)
                            /\ \A x \in SendCalls : Open(x)' <=> Open(x)
  <2> SUFFICES ASSUME Lossless(endings)'
               PROVE  Lossless(endings) /\ \A x \in SendCalls : Open(x)' <=> Open(x)
    OBVIOUS
  <2>1. /\ Len(endings') = Len(endings) + 1 /\ Lossless(endings)
        /\ endings'[Len(endings) + 1] = event
        /\ \A i \in 1 .. Len(endings) : endings'[i] = endings[i]
    BY <1>5, <1>3 DEF CarriedAs
  <2>2. \A x \in SendCalls : TellsOf(endings', x) <=> TellsOf(endings, x) \/ x = s
    <3>1. \A i \in 1 .. Len(endings') : i \in 1 .. Len(endings) \/ i = Len(endings) + 1
      BY <2>1, <1>3
    <3>2. Len(endings) + 1 \in 1 .. Len(endings') /\ 1 .. Len(endings) \subseteq 1 .. Len(endings')
      BY <2>1, <1>3
    <3> QED BY <3>1, <3>2, <2>1, <1>2 DEF TellsOf
  <2> QED BY <2>1, <2>2, <1>1, <1>3 DEF Open
<1>10. ToldOnce'
  <2>1. \A i \in 1 .. Len(said) : said[i].of \subseteq SendCalls
    BY ToldSends DEF ComposingInv, ComposingTyped
  <2>2. ASSUME NEW i \in 1 .. Len(said'), NEW x \in said'[i].of
        PROVE  /\ send'[x] # "unmade" /\ x \notin counted'
               /\ said'[i].of = {x}
               /\ \A j \in 1 .. Len(said') : x \in said'[j].of => i = j
               /\ Lossless(endings') => Open(x)'
    BY <2>1, <2>2, <1>1, <1>8, <1>9 DEF ComposingInv, ToldOnce
  <2>3. \A i \in 1 .. Len(endings) : endings[i].of \subseteq SendCalls
    BY <1>3, ToldSends
  <2>4. \A i \in 1 .. Len(endings') :
           \/ i = Len(endings') /\ endings'[i] = event
           \/ i < Len(endings') /\ i + d \in 1 .. Len(endings) /\ endings'[i] = endings[i + d]
           \/ i < Len(endings') /\ endings'[i] = Missed
    BY <1>3, <1>4, <1>5 DEF CarriedAs
  <2>5. \A i \in 1 .. Len(endings) : s \notin endings[i].of
    BY <1>1 DEF ComposingInv, ToldOnce
  <2>6. ASSUME NEW i \in 1 .. Len(endings')
        PROVE  /\ ~endings'[i].lagged => \E x \in SendCalls : endings'[i].of = {x}
               /\ \A x \in endings'[i].of : send'[x] = "over"
    <3>1. CASE endings'[i] = event
      BY <3>1, <1>1, <1>2, <1>3
    <3>2. CASE i + d \in 1 .. Len(endings) /\ endings'[i] = endings[i + d]
      BY <3>2, <1>8, <2>3 DEF ComposingInv, ToldOnce
    <3>3. CASE endings'[i] = Missed
      BY <3>3, CarriageIs
    <3> QED BY <2>4, <3>1, <3>2, <3>3
  <2>7. ASSUME NEW i \in 1 .. Len(endings'), NEW j \in 1 .. Len(endings'),
               NEW x \in endings'[i].of, x \in endings'[j].of
        PROVE  i = j
    <3>1. endings'[i] # Missed /\ endings'[j] # Missed
      BY <2>7, CarriageIs
    <3>2. CASE i = Len(endings') /\ endings'[i] = event
      <4>1. x = s
        BY <3>2, <1>2
      <4> QED BY <4>1, <3>1, <3>2, <2>4, <2>5, <2>7
    <3>3. CASE i < Len(endings') /\ i + d \in 1 .. Len(endings) /\ endings'[i] = endings[i + d]
      <4>1. x # s /\ x \in endings[i + d].of
        BY <3>3, <2>5
      <4>2. j + d \in 1 .. Len(endings) /\ endings'[j] = endings[j + d]
        BY <4>1, <3>1, <2>4, <2>7, <1>2
      <4>3. i + d = j + d
        BY <4>1, <4>2, <3>3, <2>7 DEF ComposingInv, ToldOnce
      <4> QED BY <4>3
    <3> QED BY <3>1, <3>2, <3>3, <2>4
  <2>8. (\A x \in counted' \cup current' : send'[x] # "unmade") /\ (unfinished' = 0 => counted' = {})
    BY <1>1, <1>8 DEF ComposingInv, ToldOnce, ComposingTyped
  <2> QED BY <2>2, <2>6, <2>7, <2>8 DEF ToldOnce
<1>11. CurrentIsQueued'
  BY <1>1 DEF ComposingInv, CurrentIsQueued
<1>12. CountIsRight'
  <2> SUFFICES ASSUME Lossless(endings)' PROVE CountIsRight'
    BY DEF CountIsRight
  <2>1. {x \in counted : Open(x)}' = {x \in counted : Open(x)}
    BY <1>1, <1>9 DEF ComposingInv, ComposingTyped
  <2>2. \A x \in current : Open(x)' => Open(x)
    BY <1>9 DEF ComposingInv, ComposingTyped
  <2> QED BY <1>1, <1>9, <2>1, <2>2 DEF ComposingInv, CountIsRight, TerminalAt
<1> QED BY <1>6, <1>7, <1>10, <1>11, <1>12 DEF ComposingInv

LEMMA CarriedFrom ==
  ASSUME NEW carrier \in Seq(Carriage), NEW event, NEW q \in Seq(Carriage), NEW d \in {0, 1},
         CarriedAs(q, carrier, event, d)
  PROVE  /\ \A i \in 1 .. Len(q) :
              \/ i = Len(q) /\ q[i] = event
              \/ i < Len(q) /\ i + d \in 1 .. Len(carrier) /\ q[i] = carrier[i + d]
              \/ i < Len(q) /\ i = 1 /\ q[i] = Missed
         /\ \A k \in 1 .. Len(carrier) : k - d >= 2 =>
              k - d \in 1 .. Len(q) /\ k - d < Len(q) /\ q[k - d] = carrier[k]
         /\ Len(q) \in 1 .. Len(q) /\ q[Len(q)] = event
<1>1. Len(q) \in Nat /\ Len(carrier) \in Nat /\ Len(q) = Len(carrier) + 1 - d /\ Len(q) >= 1
  BY DEF CarriedAs
<1>2. \A i \in 1 .. Len(q) - 1 : q[i] = carrier[i + d] \/ (i = 1 /\ q[i] = Missed)
  BY DEF CarriedAs
<1>3. ASSUME NEW k \in 1 .. Len(carrier), k - d >= 2
      PROVE  k - d \in 1 .. Len(q) /\ k - d < Len(q) /\ q[k - d] = carrier[k]
  <2>1. k - d \in 1 .. Len(q) - 1 /\ k - d # 1 /\ (k - d) + d = k
    BY <1>1, <1>3
  <2>2. q[k - d] = carrier[(k - d) + d]
    BY <1>2, <2>1
  <2> QED BY <1>1, <2>1, <2>2
<1>4. q[Len(q)] = event /\ Len(q) \in 1 .. Len(q)
  BY <1>1 DEF CarriedAs
<1>5. ASSUME NEW i \in 1 .. Len(q)
      PROVE  \/ i = Len(q) /\ q[i] = event
             \/ i < Len(q) /\ i + d \in 1 .. Len(carrier) /\ q[i] = carrier[i + d]
             \/ i < Len(q) /\ i = 1 /\ q[i] = Missed
  <2>1. CASE i = Len(q)
    BY <2>1, <1>4
  <2>2. CASE i # Len(q)
    <3>1. i \in 1 .. Len(q) - 1 /\ i < Len(q) /\ i + d \in 1 .. Len(carrier)
      BY <2>2, <1>1
    <3> QED BY <3>1, <1>2
  <2> QED BY <2>1, <2>2
<1> QED BY <1>3, <1>4, <1>5

LEMMA SaidKeeps ==
  ASSUME ComposingInv, NEW event \in Carriage, ~event.lagged,
         said' = Carried(said, event),
         endings' = endings, counted' = counted, unfinished' = unfinished,
         \A x \in SendCalls : send[x] # "unmade" => send'[x] = send[x],
         \A x \in event.of : send[x] = "unmade" /\ send'[x] = "begun" /\ event.of = {x},
         current' \subseteq current \cup event.of
  PROVE  /\ ToldOnce' /\ said' \in Seq(Carriage) /\ LagAhead(said')
         /\ \E d \in {0, 1} : CarriedAs(said', said, event, d)
<1>1. said \in Seq(Carriage) /\ LagAhead(said) /\ current \subseteq SendCalls
      /\ counted \subseteq SendCalls /\ endings \in Seq(Carriage)
  BY DEF ComposingInv, ComposingTyped
<1>2. said' \in Seq(Carriage) /\ LagAhead(said')
  BY <1>1, CarriedIs
<1>3. PICK d \in {0, 1} : CarriedAs(said', said, event, d)
  BY <1>1, CarriedIs
<1>4. \A i \in 1 .. Len(said') :
         \/ i = Len(said') /\ said'[i] = event
         \/ i < Len(said') /\ i + d \in 1 .. Len(said) /\ said'[i] = said[i + d]
         \/ i < Len(said') /\ i = 1 /\ said'[i] = Missed
  BY <1>1, <1>2, <1>3, CarriedFrom
<1>5. /\ \A i \in 1 .. Len(said) : said[i].of \subseteq SendCalls
      /\ \A i \in 1 .. Len(endings) : endings[i].of \subseteq SendCalls
      /\ event.of \subseteq SendCalls
  <2>1. event.of \subseteq SendCalls
    BY DEF Carriage
  <2> QED BY <2>1, <1>1, ToldSends
<1>6. \A x \in event.of : /\ \A i \in 1 .. Len(said) : x \notin said[i].of
                          /\ x \notin counted
  BY DEF ComposingInv, ToldOnce
<1>7. \A x \in SendCalls : Open(x) => Open(x)'
  <2>1. \A x \in SendCalls : TellsOf(endings, x)' <=> TellsOf(endings, x)
    OBVIOUS
  <2> QED BY <2>1 DEF Open
<1>8. ASSUME NEW i \in 1 .. Len(said'), NEW x \in said'[i].of
      PROVE  /\ send'[x] # "unmade" /\ x \notin counted'
             /\ said'[i].of = {x}
             /\ Lossless(endings') => Open(x)'
  <2>1. CASE said'[i] = event
    <3>1. x \in event.of
      BY <2>1, <1>8
    <3> QED BY <3>1, <2>1, <1>6 DEF Open
  <2>2. CASE i + d \in 1 .. Len(said) /\ said'[i] = said[i + d]
    <3>1. /\ send[x] # "unmade" /\ x \notin counted /\ said[i + d].of = {x}
          /\ Lossless(endings) => Open(x)
      BY <2>2, <1>8 DEF ComposingInv, ToldOnce
    <3> QED BY <3>1, <2>2, <1>5, <1>7
  <2>3. CASE said'[i] = Missed
    BY <2>3, <1>8, CarriageIs
  <2> QED BY <1>4, <2>1, <2>2, <2>3
<1>9. ASSUME NEW i \in 1 .. Len(said'), NEW j \in 1 .. Len(said'),
             NEW x \in said'[i].of, x \in said'[j].of
      PROVE  i = j
  <2>1. said'[i] # Missed /\ said'[j] # Missed
    BY <1>9, CarriageIs
  <2>2. CASE i = Len(said') /\ said'[i] = event
    <3>1. x \in event.of
      BY <2>2, <1>9
    <3> QED BY <2>2, <3>1, <2>1, <1>4, <1>6, <1>9
  <2>3. CASE i < Len(said') /\ i + d \in 1 .. Len(said) /\ said'[i] = said[i + d]
    <3>1. x \notin event.of /\ x \in said[i + d].of
      BY <2>3, <1>6, <1>9
    <3>2. j + d \in 1 .. Len(said) /\ said'[j] = said[j + d]
      BY <3>1, <2>1, <1>4, <1>9
    <3>3. i + d = j + d
      BY <3>1, <3>2, <2>3, <1>9 DEF ComposingInv, ToldOnce
    <3> QED BY <3>3
  <2> QED BY <2>1, <2>2, <2>3, <1>4
<1>10. ASSUME NEW i \in 1 .. Len(endings')
       PROVE  /\ ~endings'[i].lagged => \E x \in SendCalls : endings'[i].of = {x}
              /\ \A x \in endings'[i].of :
                   send'[x] = "over" /\ \A j \in 1 .. Len(endings') : x \in endings'[j].of => i = j
  BY <1>5 DEF ComposingInv, ToldOnce
<1>11. \A x \in counted' \cup current' : send'[x] # "unmade"
  BY <1>1 DEF ComposingInv, ToldOnce
<1>12. unfinished' = 0 => counted' = {}
  BY DEF ComposingInv, ToldOnce
<1>13. ToldOnce'
  BY <1>8, <1>9, <1>10, <1>11, <1>12 DEF ToldOnce
<1> QED BY <1>13, <1>2, <1>3

LEMMA RecordsCallKeeps ==
  ASSUME ComposingInv, NEW s \in SendCalls, RecordsCall(s)
  PROVE  ComposingInv'
<1> DEFINE event == Told({s})
<1>1. /\ current' = current \cup {s} /\ endings' = endings /\ counted' = counted
      /\ refreshing' = refreshing /\ unfinished' = unfinished /\ transitions' = transitions
      /\ clean' = clean /\ send' = [send EXCEPT ![s] = "begun"] /\ said' = Carried(said, event)
      /\ send[s] = "unmade"
  BY DEF RecordsCall
<1>2. event \in Carriage /\ ~event.lagged /\ event.of = {s}
  BY CarriageIs
<1> HIDE DEF event
<1>3. /\ send \in [SendCalls -> {"unmade", "begun", "filed", "leaving", "over"}]
      /\ said \in Seq(Carriage) /\ endings \in Seq(Carriage) /\ counted \subseteq SendCalls
  BY DEF ComposingInv, ComposingTyped
<1>4. /\ \A x \in SendCalls : send[x] # "unmade" => send'[x] = send[x]
      /\ \A x \in event.of : send[x] = "unmade" /\ send'[x] = "begun" /\ event.of = {x}
      /\ current' \subseteq current \cup event.of
  BY <1>1, <1>2, <1>3
<1>5. ToldOnce' /\ said' \in Seq(Carriage) /\ LagAhead(said')
      /\ \E d \in {0, 1} : CarriedAs(said', said, event, d)
  BY <1>1, <1>2, <1>4, SaidKeeps
<1>6. PICK d \in {0, 1} : CarriedAs(said', said, event, d)
  BY <1>5
<1>7. ComposingTyped'
  BY <1>1, <1>3, <1>5 DEF ComposingInv, ComposingTyped
<1>8. IndicatorFollows'
  BY <1>1, IndicatorKeeps DEF ComposingInv, ComposingTyped
<1>9. \A i \in 1 .. Len(said') :
         \/ i = Len(said') /\ said'[i] = event
         \/ i < Len(said') /\ i + d \in 1 .. Len(said) /\ said'[i] = said[i + d]
         \/ i < Len(said') /\ i = 1 /\ said'[i] = Missed
  BY <1>3, <1>5, <1>6, CarriedFrom
<1>10. /\ \A k \in 1 .. Len(said) : k - d >= 2 =>
            k - d \in 1 .. Len(said') /\ k - d < Len(said') /\ said'[k - d] = said[k]
       /\ Len(said') \in 1 .. Len(said') /\ said'[Len(said')] = event
  BY <1>3, <1>5, <1>6, CarriedFrom
<1>11. CurrentIsQueued'
  <2> SUFFICES ASSUME NEW i \in 1 .. Len(said'), TerminalAt(said', i)
               PROVE  /\ \A x \in current' : \E k \in 1 .. Len(said') : i < k /\ x \in said'[k].of
                      /\ (\A j \in 1 .. Len(said') : TerminalAt(said', j) => j <= i) =>
                            \A k \in 1 .. Len(said') : i < k => said'[k].of \subseteq current'
    BY DEF CurrentIsQueued
  <2>1. i < Len(said') /\ i + d \in 1 .. Len(said) /\ said'[i] = said[i + d]
    BY <1>2, <1>9, CarriageIs DEF TerminalAt
  <2>2. TerminalAt(said, i + d)
    BY <2>1 DEF TerminalAt
  <2>3. ASSUME NEW x \in current'
        PROVE  \E k \in 1 .. Len(said') : i < k /\ x \in said'[k].of
    <3>1. CASE x = s
      BY <3>1, <1>2, <1>10, <2>1
    <3>2. CASE x \in current
      <4>1. PICK k \in 1 .. Len(said) : i + d < k /\ x \in said[k].of
        BY <3>2, <2>1, <2>2 DEF ComposingInv, CurrentIsQueued
      <4>2. k - d >= 2 /\ i < k - d
        BY <4>1
      <4> QED BY <4>1, <4>2, <1>10
    <3> QED BY <1>1, <2>3, <3>1, <3>2
  <2>4. ASSUME \A j \in 1 .. Len(said') : TerminalAt(said', j) => j <= i,
               NEW k \in 1 .. Len(said'), i < k
        PROVE  said'[k].of \subseteq current'
    <3>1. ASSUME NEW j \in 1 .. Len(said), TerminalAt(said, j)
          PROVE  j <= i + d
      <4> SUFFICES ASSUME j > i + d PROVE FALSE
        BY <2>1
      <4>1. j - d >= 2 /\ i < j - d
        BY <2>1
      <4>2. j - d \in 1 .. Len(said') /\ said'[j - d] = said[j]
        BY <4>1, <1>10
      <4>3. TerminalAt(said', j - d)
        BY <3>1, <4>2 DEF TerminalAt
      <4> QED BY <4>1, <4>2, <4>3, <2>4
    <3>2. CASE said'[k] = event
      BY <3>2, <1>1, <1>2
    <3>3. CASE k + d \in 1 .. Len(said) /\ said'[k] = said[k + d]
      <4>1. i + d < k + d
        BY <2>4
      <4>2. said[k + d].of \subseteq current
        BY <4>1, <3>1, <3>3, <2>1, <2>2 DEF ComposingInv, CurrentIsQueued
      <4> QED BY <4>2, <3>3, <1>1
    <3> QED BY <3>2, <3>3, <2>4, <1>9
  <2> QED BY <2>3, <2>4
<1>12. CountIsRight'
  <2> SUFFICES ASSUME clean', Lossless(said)', Lossless(endings)',
                      \A i \in 1 .. Len(said') : ~TerminalAt(said', i)
               PROVE  /\ unfinished' = Cardinality({x \in counted' : Open(x)'})
                      /\ counted' \subseteq current'
                      /\ \A i \in 1 .. Len(said') : said'[i].of \subseteq current'
                      /\ \A x \in current' : Open(x)' => x \in counted' \/ TellsOf(said', x)
    BY DEF CountIsRight
  <2>1. /\ d = 0 /\ Lossless(said) /\ \A i \in 1 .. Len(said) : said'[i] = said[i]
        /\ Len(said') = Len(said) + 1 /\ said'[Len(said')] = event
    BY <1>3, <1>6 DEF CarriedAs
  <2>2. \A i \in 1 .. Len(said) : ~TerminalAt(said, i)
    <3> SUFFICES ASSUME NEW i \in 1 .. Len(said), TerminalAt(said, i) PROVE FALSE
      OBVIOUS
    <3>1. i \in 1 .. Len(said') /\ said'[i] = said[i]
      BY <2>1, <1>3
    <3> QED BY <3>1 DEF TerminalAt
  <2>3. /\ unfinished = Cardinality({x \in counted : Open(x)})
        /\ counted \subseteq current
        /\ \A i \in 1 .. Len(said) : said[i].of \subseteq current
        /\ \A x \in current : Open(x) => x \in counted \/ TellsOf(said, x)
    BY <1>1, <2>1, <2>2 DEF ComposingInv, CountIsRight
  <2>4. \A x \in SendCalls \ {s} : Open(x)' <=> Open(x)
    BY <1>1, <1>3 DEF Open
  <2>5. s \notin counted
    BY <1>1 DEF ComposingInv, ToldOnce
  <2>6. {x \in counted' : Open(x)'} = {x \in counted : Open(x)}
    BY <2>4, <2>5, <1>1, <1>3
  <2>7. \A i \in 1 .. Len(said') : said'[i].of \subseteq current'
    BY <2>1, <2>3, <1>1, <1>2, <1>9, CarriageIs
  <2>8. TellsOf(said', s) /\ \A x \in SendCalls : TellsOf(said, x) => TellsOf(said', x)
    <3>1. Len(said') \in 1 .. Len(said') /\ 1 .. Len(said) \subseteq 1 .. Len(said')
      BY <2>1, <1>3
    <3> QED BY <3>1, <2>1, <1>2 DEF TellsOf
  <2>9. current \subseteq SendCalls
    BY DEF ComposingInv, ComposingTyped
  <2> QED BY <1>1, <2>3, <2>4, <2>6, <2>7, <2>8, <2>9
<1> QED BY <1>5, <1>7, <1>8, <1>11, <1>12 DEF ComposingInv

LEMMA StreamEndsKeeps ==
  ASSUME ComposingInv, StreamEnds
  PROVE  ComposingInv'
<1> DEFINE event == Told({})
<1>1. /\ current' = {} /\ endings' = endings /\ counted' = counted
      /\ refreshing' = refreshing /\ unfinished' = unfinished /\ transitions' = transitions
      /\ clean' = clean /\ send' = send /\ said' = Carried(said, event)
  BY DEF StreamEnds
<1>2. event \in Carriage /\ ~event.lagged /\ event.of = {}
  BY CarriageIs
<1> HIDE DEF event
<1>3. said \in Seq(Carriage)
  BY DEF ComposingInv, ComposingTyped
<1>4. ToldOnce' /\ said' \in Seq(Carriage) /\ LagAhead(said')
      /\ \E d \in {0, 1} : CarriedAs(said', said, event, d)
  BY <1>1, <1>2, SaidKeeps
<1>5. ComposingTyped'
  BY <1>1, <1>4 DEF ComposingInv, ComposingTyped
<1>6. IndicatorFollows'
  BY <1>1, IndicatorKeeps DEF ComposingInv, ComposingTyped
<1>7. Len(said') \in 1 .. Len(said') /\ said'[Len(said')] = event
  BY <1>3, <1>4, CarriedFrom
<1>8. TerminalAt(said', Len(said'))
  BY <1>2, <1>7 DEF TerminalAt
<1>9. CurrentIsQueued'
  BY <1>1, <1>4, <1>7, <1>8 DEF CurrentIsQueued
<1>10. CountIsRight'
  BY <1>7, <1>8 DEF CountIsRight
<1> QED BY <1>4, <1>5, <1>6, <1>9, <1>10 DEF ComposingInv

-----------------------------------------------------------------------------
(* The edge.                                                                  *)

LEMMA StopsSignalIs ==
  ASSUME ComposingInv, StopsSignal, refreshing' = refreshing
  PROVE  /\ unfinished' = 0 /\ counted' = {}
         /\ IndicatorFollows' /\ transitions' \in Seq(BOOLEAN)
<1>1. /\ unfinished' = 0 /\ counted' = {} /\ unfinished \in Nat
      /\ transitions' = IF unfinished = 0 THEN transitions ELSE Append(transitions, FALSE)
  BY DEF StopsSignal, ComposingInv, ComposingTyped
<1>2. CASE unfinished = 0
  <2>1. transitions' = transitions /\ (unfinished' > 0 <=> unfinished > 0)
    BY <1>1, <1>2
  <2> QED BY <1>1, <2>1, IndicatorKeeps DEF ComposingInv
<1>3. CASE unfinished # 0
  <2>1. transitions' = Append(transitions, FALSE)
    BY <1>1, <1>3
  <2>3. unfinished' = 0
    BY <1>1
  <2>4. ~(unfinished' > 0)
    BY <2>3
  <2>2. \E b \in BOOLEAN : transitions' = Append(transitions, b) /\ (b <=> unfinished' > 0)
    BY <2>1, <2>4
  <2> QED BY <1>1, <2>2, IndicatorKeeps DEF ComposingInv
<1> QED BY <1>2, <1>3

\* What the edge has taken of its bus is not told of again.
LEMMA TailOfSaid ==
  ASSUME ComposingInv, said # <<>>, said' = Tail(said), current' = current,
         send' = send, endings' = endings,
         counted' \subseteq counted \cup said[1].of, unfinished' = 0 => counted' = {}
  PROVE  /\ said' \in Seq(Carriage) /\ LagAhead(said') /\ 1 \in 1 .. Len(said)
         /\ Len(said') = Len(said) - 1 /\ Len(said) \in Nat
         /\ \A i \in 1 .. Len(said') : i + 1 \in 1 .. Len(said) /\ said'[i] = said[i + 1]
         /\ \A i \in 1 .. Len(said) : i > 1 => i - 1 \in 1 .. Len(said') /\ said'[i - 1] = said[i]
         /\ CurrentIsQueued' /\ ToldOnce'
<1>1. said \in Seq(Carriage) /\ LagAhead(said)
  BY DEF ComposingInv, ComposingTyped
<1>2. /\ said' \in Seq(Carriage) /\ Len(said') = Len(said) - 1 /\ Len(said) \in Nat
      /\ 1 \in 1 .. Len(said)
      /\ \A i \in 1 .. Len(said') : i + 1 \in 1 .. Len(said) /\ said'[i] = said[i + 1]
  BY <1>1
<1>3. \A i \in 1 .. Len(said) : i > 1 => i - 1 \in 1 .. Len(said') /\ said'[i - 1] = said[i]
  <2> SUFFICES ASSUME NEW i \in 1 .. Len(said), i > 1
               PROVE  i - 1 \in 1 .. Len(said') /\ said'[i - 1] = said[i]
    OBVIOUS
  <2>1. i - 1 \in 1 .. Len(said') /\ (i - 1) + 1 = i
    BY <1>2
  <2> QED BY <2>1, <1>2
<1>4. LagAhead(said')
  <2> SUFFICES ASSUME NEW i \in 1 .. Len(said'), said'[i].lagged PROVE FALSE
    BY DEF LagAhead
  <2>1. i + 1 \in 1 .. Len(said) /\ said[i + 1].lagged
    BY <1>2
  <2>2. i + 1 = 1
    BY <1>1, <2>1 DEF LagAhead
  <2> QED BY <2>2, <1>2
<1>5. CurrentIsQueued'
  <2> SUFFICES ASSUME NEW i \in 1 .. Len(said'), TerminalAt(said', i)
               PROVE  /\ \A x \in current : \E k \in 1 .. Len(said') : i < k /\ x \in said'[k].of
                      /\ (\A j \in 1 .. Len(said') : TerminalAt(said', j) => j <= i) =>
                            \A k \in 1 .. Len(said') : i < k => said'[k].of \subseteq current
    BY DEF CurrentIsQueued
  <2>1. TerminalAt(said, i + 1) /\ i + 1 \in 1 .. Len(said)
    BY <1>2 DEF TerminalAt
  <2>2. ASSUME NEW x \in current PROVE \E k \in 1 .. Len(said') : i < k /\ x \in said'[k].of
    <3>1. PICK k \in 1 .. Len(said) : i + 1 < k /\ x \in said[k].of
      BY <2>1 DEF ComposingInv, CurrentIsQueued
    <3>2. k > 1 /\ i < k - 1
      BY <3>1, <1>2
    <3> QED BY <3>1, <3>2, <1>3
  <2>3. ASSUME \A j \in 1 .. Len(said') : TerminalAt(said', j) => j <= i,
               NEW k \in 1 .. Len(said'), i < k
        PROVE  said'[k].of \subseteq current
    <3>1. ASSUME NEW j \in 1 .. Len(said), TerminalAt(said, j)
          PROVE  j <= i + 1
      <4> SUFFICES ASSUME j > i + 1 PROVE FALSE
        BY <1>2
      <4>1. j - 1 \in 1 .. Len(said') /\ said'[j - 1] = said[j] /\ i < j - 1
        BY <1>2, <1>3
      <4>2. TerminalAt(said', j - 1)
        BY <3>1, <4>1 DEF TerminalAt
      <4> QED BY <4>1, <4>2, <2>3
    <3>2. k + 1 \in 1 .. Len(said) /\ said'[k] = said[k + 1] /\ i + 1 < k + 1
      BY <1>2, <2>3
    <3> QED BY <3>1, <3>2, <2>1 DEF ComposingInv, CurrentIsQueued
  <2> QED BY <2>2, <2>3
<1>6. ToldOnce'
  <2>1. \A x \in SendCalls : Open(x) => Open(x)'
    <3>1. \A x \in SendCalls : TellsOf(endings, x)' <=> TellsOf(endings, x)
      OBVIOUS
    <3> QED BY <3>1 DEF Open
  <2>2. ASSUME NEW i \in 1 .. Len(said'), NEW x \in said'[i].of
        PROVE  /\ send'[x] # "unmade" /\ x \notin counted'
               /\ said'[i].of = {x}
               /\ \A j \in 1 .. Len(said') : x \in said'[j].of => i = j
               /\ Lossless(endings') => Open(x)'
    <3>1. i + 1 \in 1 .. Len(said) /\ x \in said[i + 1].of /\ said'[i] = said[i + 1] /\ i + 1 # 1
      BY <1>2, <2>2
    <3>2. x \in SendCalls
      BY <3>1, <1>1, ToldSends
    <3>3. /\ send[x] # "unmade" /\ x \notin counted /\ said[i + 1].of = {x}
          /\ \A j \in 1 .. Len(said) : x \in said[j].of => i + 1 = j
          /\ Lossless(endings) => Open(x)
      BY <3>1 DEF ComposingInv, ToldOnce
    <3>4. x \notin said[1].of
      BY <3>1, <3>3, <1>2
    <3>5. \A j \in 1 .. Len(said') : x \in said'[j].of => i = j
      BY <1>2, <3>3
    <3> QED BY <3>1, <3>2, <3>3, <3>4, <3>5, <2>1
  <2>3. ASSUME NEW i \in 1 .. Len(endings')
        PROVE  /\ ~endings'[i].lagged => \E x \in SendCalls : endings'[i].of = {x}
               /\ \A x \in endings'[i].of :
                    send'[x] = "over" /\ \A j \in 1 .. Len(endings') : x \in endings'[j].of => i = j
    BY DEF ComposingInv, ToldOnce
  <2>4. \A x \in counted' \cup current' : send'[x] # "unmade"
    BY <1>2 DEF ComposingInv, ToldOnce
  <2> QED BY <2>2, <2>3, <2>4 DEF ToldOnce
<1> QED BY <1>2, <1>3, <1>4, <1>5, <1>6

LEMMA TakesBusKeeps ==
  ASSUME ComposingInv, TakesBus
  PROVE  ComposingInv'
<1> DEFINE event == Head(said)
<1>1. /\ said # <<>> /\ said' = Tail(said) /\ current' = current /\ send' = send
      /\ endings' = endings /\ refreshing' = refreshing
  BY DEF TakesBus
<1>2. said \in Seq(Carriage) /\ event = said[1] /\ said[1] \in Carriage /\ IsFiniteSet(counted)
      /\ IsFiniteSet({}) /\ counted \subseteq SendCalls /\ unfinished \in Nat /\ Len(said) \in Nat
  BY <1>1, FS_EmptySet DEF ComposingInv, ComposingTyped
<1>3. \/ event.lagged /\ StopsEverything
      \/ ~event.lagged /\ event.of = {} /\ StopsSignal /\ clean' = TRUE
      \/ ~event.lagged /\ \E s \in event.of : CountsBegin(s)
  BY DEF TakesBus
<1> HIDE DEF event
<1>4. CASE StopsSignal
  <2>1. /\ unfinished' = 0 /\ counted' = {} /\ IndicatorFollows' /\ transitions' \in Seq(BOOLEAN)
    BY <1>1, <1>4, StopsSignalIs
  <2>2. /\ said' \in Seq(Carriage) /\ LagAhead(said') /\ 1 \in 1 .. Len(said)
        /\ Len(said') = Len(said) - 1 /\ Len(said) \in Nat
        /\ \A i \in 1 .. Len(said') : i + 1 \in 1 .. Len(said) /\ said'[i] = said[i + 1]
        /\ \A i \in 1 .. Len(said) : i > 1 => i - 1 \in 1 .. Len(said') /\ said'[i - 1] = said[i]
        /\ CurrentIsQueued' /\ ToldOnce'
    BY <1>1, <2>1, TailOfSaid
  <2>3. clean' \in BOOLEAN
    BY <1>3 DEF StopsEverything, CountsBegin, ComposingInv, ComposingTyped
  <2>4. ComposingTyped'
    BY <1>1, <1>2, <2>1, <2>2, <2>3 DEF ComposingInv, ComposingTyped
  <2>5. CASE event.lagged /\ StopsEverything
    <3>1. ~clean'
      BY <2>5 DEF StopsEverything
    <3>2. CountIsRight'
      BY <3>1 DEF CountIsRight
    <3> QED BY <3>2, <2>1, <2>2, <2>4 DEF ComposingInv
  <2>6. CASE ~event.lagged /\ event.of = {}
    <3>1. TerminalAt(said, 1)
      BY <2>6, <2>2, <1>2 DEF TerminalAt
    <3>2. CountIsRight'
      <4> SUFFICES ASSUME \A i \in 1 .. Len(said') : ~TerminalAt(said', i)
                   PROVE  /\ unfinished' = Cardinality({x \in counted' : Open(x)'})
                          /\ counted' \subseteq current'
                          /\ \A i \in 1 .. Len(said') : said'[i].of \subseteq current'
                          /\ \A x \in current' : Open(x)' => x \in counted' \/ TellsOf(said', x)
        BY DEF CountIsRight
      <4>1. ASSUME NEW j \in 1 .. Len(said), TerminalAt(said, j) PROVE j <= 1
        <5> SUFFICES ASSUME j > 1 PROVE FALSE
          BY <1>2
        <5>1. j - 1 \in 1 .. Len(said') /\ said'[j - 1] = said[j]
          BY <2>2
        <5>2. TerminalAt(said', j - 1)
          BY <4>1, <5>1 DEF TerminalAt
        <5> QED BY <5>1, <5>2
      <4>2. /\ \A x \in current : \E k \in 1 .. Len(said) : 1 < k /\ x \in said[k].of
            /\ \A k \in 1 .. Len(said) : 1 < k => said[k].of \subseteq current
        BY <3>1, <2>2, <4>1 DEF ComposingInv, CurrentIsQueued
      <4>3. {x \in counted' : Open(x)'} = {} /\ Cardinality({}) = 0
        BY <2>1, FS_EmptySet
      <4>4. \A i \in 1 .. Len(said') : said'[i].of \subseteq current'
        <5> SUFFICES ASSUME NEW i \in 1 .. Len(said') PROVE said'[i].of \subseteq current
          BY <1>1
        <5>1. i + 1 \in 1 .. Len(said) /\ said'[i] = said[i + 1] /\ 1 < i + 1
          BY <2>2
        <5> QED BY <5>1, <4>2
      <4>5. \A x \in current : TellsOf(said', x)
        <5> SUFFICES ASSUME NEW x \in current PROVE TellsOf(said', x)
          OBVIOUS
        <5>1. PICK k \in 1 .. Len(said) : 1 < k /\ x \in said[k].of
          BY <4>2
        <5>2. k - 1 \in 1 .. Len(said') /\ said'[k - 1] = said[k]
          BY <2>2, <5>1
        <5> QED BY <5>1, <5>2 DEF TellsOf
      <4> QED BY <1>1, <2>1, <4>3, <4>4, <4>5
    <3> QED BY <3>2, <2>1, <2>2, <2>4 DEF ComposingInv
  <2>7. CASE ~event.lagged /\ \E s \in event.of : CountsBegin(s)
    <3>1. PICK s \in event.of : CountsBegin(s)
      BY <2>7
    <3>2. ~clean'
      BY <3>1, <2>1, <1>2 DEF CountsBegin
    <3>3. CountIsRight'
      BY <3>2 DEF CountIsRight
    <3> QED BY <3>3, <2>1, <2>2, <2>4 DEF ComposingInv
  <2> QED BY <1>3, <2>5, <2>6, <2>7
<1>5. ASSUME ~event.lagged, NEW s \in event.of, CountsBegin(s)
      PROVE  ComposingInv'
  <2>0. clean \in BOOLEAN /\ IsFiniteSet(counted \cup {s}) /\ IsFiniteSet({s})
    <3>1. IsFiniteSet(counted \cup {s})
      BY <1>2, FS_AddElement
    <3> QED BY <3>1, FS_Singleton DEF ComposingInv, ComposingTyped
  <2>1. \/ /\ unfinished > 0 /\ unfinished' = unfinished + 1 /\ counted' = counted \cup {s}
           /\ transitions' = transitions /\ (clean' <=> clean) /\ clean' \in BOOLEAN
        \/ /\ unfinished = 0 /\ unfinished' = 1 /\ counted' = {s}
           /\ transitions' = Append(transitions, TRUE) /\ (clean' <=> clean) /\ clean' \in BOOLEAN
        \/ /\ ~clean' /\ unfinished' = unfinished /\ counted' = counted
           /\ transitions' = transitions /\ clean' \in BOOLEAN
    <3>1. CASE unfinished > 0
      <4>1. /\ unfinished' = unfinished + 1 /\ counted' = counted \cup {s}
            /\ transitions' = transitions /\ clean' = clean
        BY <3>1, <1>5 DEF CountsBegin
      <4> QED BY <3>1, <4>1, <2>0
    <3>2. CASE ~(unfinished > 0)
      <4>1. unfinished = 0
        BY <3>2, <1>2
      <4>2. \/ /\ unfinished' = 1 /\ counted' = {s}
               /\ transitions' = Append(transitions, TRUE) /\ clean' = clean
            \/ /\ clean' = FALSE /\ unfinished' = unfinished /\ counted' = counted
               /\ transitions' = transitions
        BY <3>2, <1>5 DEF CountsBegin
      <4> QED BY <4>1, <4>2, <2>0
    <3> QED BY <3>1, <3>2
  <2>2. s \in SendCalls /\ 1 \in 1 .. Len(said) /\ s \in said[1].of
    BY <1>1, <1>2, <1>5, ToldSends
  <2>3. /\ s \notin counted /\ event.of = {s} /\ (Lossless(endings) => Open(s))
        /\ (unfinished = 0 => counted = {})
    BY <1>2, <2>2 DEF ComposingInv, ToldOnce
  <2>4. counted' \subseteq counted \cup said[1].of /\ (unfinished' = 0 => counted' = {})
        /\ unfinished' \in Nat /\ clean' \in BOOLEAN
    <3>1. counted' \subseteq counted \cup said[1].of /\ clean' \in BOOLEAN
      BY <2>1, <2>2
    <3>0. \/ unfinished > 0 /\ unfinished' = unfinished + 1 /\ counted' = counted \cup {s}
          \/ unfinished' = 1 /\ counted' = {s}
          \/ unfinished' = unfinished /\ counted' = counted
      BY <2>1
    <3>2. unfinished' \in Nat
      BY <1>2, <3>0
    <3>3. unfinished' = 0 => counted' = {}
      BY <1>2, <2>3, <3>0
    <3> QED BY <3>1, <3>2, <3>3
  <2>5. /\ said' \in Seq(Carriage) /\ LagAhead(said') /\ 1 \in 1 .. Len(said)
        /\ Len(said') = Len(said) - 1 /\ Len(said) \in Nat
        /\ \A i \in 1 .. Len(said') : i + 1 \in 1 .. Len(said) /\ said'[i] = said[i + 1]
        /\ \A i \in 1 .. Len(said) : i > 1 => i - 1 \in 1 .. Len(said') /\ said'[i - 1] = said[i]
        /\ CurrentIsQueued' /\ ToldOnce'
    BY <1>1, <2>4, TailOfSaid
  <2>6. IndicatorFollows' /\ transitions' \in Seq(BOOLEAN)
    <3>0. \/ transitions' = transitions /\ unfinished > 0 /\ unfinished' = unfinished + 1
          \/ transitions' = Append(transitions, TRUE) /\ unfinished' = 1
          \/ transitions' = transitions /\ unfinished' = unfinished
      BY <2>1
    <3>1. \/ transitions' = transitions /\ (unfinished' > 0 <=> unfinished > 0)
          \/ transitions' = Append(transitions, TRUE) /\ unfinished' > 0
      <4>1. ASSUME unfinished > 0, unfinished' = unfinished + 1 PROVE unfinished' > 0
        BY <4>1, <1>2
      <4>2. unfinished' = 1 => unfinished' > 0
        OBVIOUS
      <4> QED BY <3>0, <4>1, <4>2
    <3>2. \/ transitions' = transitions /\ (unfinished' > 0 <=> unfinished > 0)
          \/ \E b \in BOOLEAN : transitions' = Append(transitions, b) /\ (b <=> unfinished' > 0)
      BY <3>1
    <3> QED BY <3>2, <1>1, <2>4, IndicatorKeeps DEF ComposingInv
  <2>7. IsFiniteSet(counted') /\ counted' \subseteq SendCalls
    BY <1>2, <2>0, <2>1, <2>2
  <2>8. ComposingTyped'
    BY <1>1, <1>2, <2>4, <2>5, <2>6, <2>7 DEF ComposingInv, ComposingTyped
  <2>9. CountIsRight'
    <3> SUFFICES ASSUME clean', Lossless(said)', Lossless(endings)',
                        \A i \in 1 .. Len(said') : ~TerminalAt(said', i)
                 PROVE  /\ unfinished' = Cardinality({x \in counted' : Open(x)'})
                        /\ counted' \subseteq current'
                        /\ \A i \in 1 .. Len(said') : said'[i].of \subseteq current'
                        /\ \A x \in current' : Open(x)' => x \in counted' \/ TellsOf(said', x)
      BY DEF CountIsRight
    <3>0. clean'
      OBVIOUS
    <3>1. clean /\ Lossless(endings)
      BY <2>1, <3>0, <1>1
    <3>2. Lossless(said) /\ \A i \in 1 .. Len(said) : ~TerminalAt(said, i)
      <4> SUFFICES ASSUME NEW i \in 1 .. Len(said) PROVE ~said[i].lagged /\ ~TerminalAt(said, i)
        BY DEF Lossless
      <4>1. CASE i = 1
        BY <4>1, <1>2, <1>5, <2>3 DEF TerminalAt
      <4>2. CASE i > 1
        <5>1. i - 1 \in 1 .. Len(said') /\ said'[i - 1] = said[i]
          BY <4>2, <2>5
        <5> QED BY <5>1 DEF Lossless, TerminalAt
      <4> QED BY <4>1, <4>2, <2>5
    <3>3. /\ unfinished = Cardinality({x \in counted : Open(x)})
          /\ counted \subseteq current
          /\ \A i \in 1 .. Len(said) : said[i].of \subseteq current
          /\ \A x \in current : Open(x) => x \in counted \/ TellsOf(said, x)
      BY <3>1, <3>2 DEF ComposingInv, CountIsRight
    <3>4. \A x \in SendCalls : Open(x)' <=> Open(x)
      <4>1. \A x \in SendCalls : TellsOf(endings, x)' <=> TellsOf(endings, x)
        BY <1>1
      <4> QED BY <4>1, <1>1 DEF Open
    <3>5. counted' = counted \cup {s} /\ unfinished' = unfinished + 1
      <4>1. \/ unfinished' = unfinished + 1 /\ counted' = counted \cup {s}
            \/ unfinished = 0 /\ unfinished' = 1 /\ counted' = {s}
        BY <2>1, <3>0
      <4> QED BY <4>1, <2>3
    <3>6. Open(s)
      BY <2>3, <3>1
    <3>7. {x \in counted' : Open(x)'} = {x \in counted : Open(x)} \cup {s}
      BY <3>4, <3>5, <3>6, <2>2, <1>2
    <3>8. IsFiniteSet({x \in counted : Open(x)}) /\ s \notin {x \in counted : Open(x)}
      BY <1>2, <2>3, FS_Subset
    <3>9. Cardinality({x \in counted' : Open(x)'}) = unfinished + 1
      BY <3>3, <3>7, <3>8, FS_AddElement
    <3>10. s \in current /\ \A i \in 1 .. Len(said') : said'[i].of \subseteq current
      BY <3>3, <2>2, <2>5
    <3>11. \A x \in current : TellsOf(said, x) => x = s \/ TellsOf(said', x)
      <4> SUFFICES ASSUME NEW x, NEW i \in 1 .. Len(said), x \in said[i].of, x # s
                   PROVE  TellsOf(said', x)
        BY DEF TellsOf
      <4>1. i # 1
        BY <1>2, <2>3
      <4>2. i - 1 \in 1 .. Len(said') /\ said'[i - 1] = said[i]
        BY <4>1, <2>5
      <4> QED BY <4>2 DEF TellsOf
    <3>12. current \subseteq SendCalls
      BY DEF ComposingInv, ComposingTyped
    <3> QED BY <1>1, <3>3, <3>4, <3>5, <3>9, <3>10, <3>11, <3>12
  <2> QED BY <2>5, <2>6, <2>8, <2>9 DEF ComposingInv
<1>6. event.lagged /\ StopsEverything => StopsSignal
  BY DEF StopsEverything
<1> QED BY <1>3, <1>4, <1>5, <1>6

LEMMA TakesEndingKeeps ==
  ASSUME ComposingInv, TakesEnding
  PROVE  ComposingInv'
<1> DEFINE event == Head(endings)
<1>1. /\ endings # <<>> /\ endings' = Tail(endings) /\ said = <<>> /\ said' = said
      /\ current' = current /\ send' = send /\ refreshing' = refreshing
      /\ \/ event.lagged /\ StopsEverything
         \/ /\ ~event.lagged /\ CountsDown
            /\ clean' = (clean /\ (unfinished > 0 => event.of \subseteq counted))
  BY DEF TakesEnding, BusFirst
<1>2. /\ endings \in Seq(Carriage) /\ LagAhead(endings) /\ IsFiniteSet(counted) /\ unfinished \in Nat
      /\ counted \subseteq SendCalls /\ current \subseteq SendCalls
      /\ send \in [SendCalls -> {"unmade", "begun", "filed", "leaving", "over"}]
  BY DEF ComposingInv, ComposingTyped
<1>3. /\ event = endings[1] /\ 1 \in 1 .. Len(endings) /\ Len(endings) \in Nat
      /\ endings' \in Seq(Carriage) /\ Len(endings') = Len(endings) - 1
      /\ \A i \in 1 .. Len(endings') : i + 1 \in 1 .. Len(endings) /\ endings'[i] = endings[i + 1]
  BY <1>1, <1>2
<1>4. \A i \in 1 .. Len(endings) : i > 1 => i - 1 \in 1 .. Len(endings') /\ endings'[i - 1] = endings[i]
  <2> SUFFICES ASSUME NEW i \in 1 .. Len(endings), i > 1
               PROVE  i - 1 \in 1 .. Len(endings') /\ endings'[i - 1] = endings[i]
    OBVIOUS
  <2>1. i - 1 \in 1 .. Len(endings') /\ (i - 1) + 1 = i
    BY <1>3
  <2> QED BY <2>1, <1>3
<1> HIDE DEF event
<1>5. LagAhead(endings')
  <2> SUFFICES ASSUME NEW i \in 1 .. Len(endings'), endings'[i].lagged PROVE FALSE
    BY DEF LagAhead
  <2>1. i + 1 \in 1 .. Len(endings) /\ endings[i + 1].lagged
    BY <1>3
  <2>2. i + 1 = 1
    BY <1>2, <2>1 DEF LagAhead
  <2> QED BY <2>2, <1>3
<1>6. \/ unfinished > 1 /\ unfinished' = unfinished - 1 /\ counted' = counted /\ transitions' = transitions
      \/ StopsSignal
  <2>1. CASE event.lagged /\ StopsEverything
    BY <2>1 DEF StopsEverything
  <2>2. CASE CountsDown
    BY <2>2 DEF CountsDown
  <2> QED BY <1>1, <2>1, <2>2
<1>7. /\ unfinished' \in Nat /\ counted' \in {counted, {}} /\ (unfinished' = 0 => counted' = {})
      /\ IndicatorFollows' /\ transitions' \in Seq(BOOLEAN)
  <2>1. CASE StopsSignal
    BY <2>1, <1>1, StopsSignalIs
  <2>2. CASE /\ unfinished > 1 /\ unfinished' = unfinished - 1 /\ counted' = counted
             /\ transitions' = transitions
    <3>1. unfinished' \in Nat /\ unfinished' > 0 /\ unfinished > 0
      BY <2>2, <1>2
    <3>2. IndicatorFollows' /\ transitions' \in Seq(BOOLEAN)
      BY <3>1, <2>2, <1>1, IndicatorKeeps DEF ComposingInv
    <3> QED BY <2>2, <3>1, <3>2
  <2> QED BY <1>6, <2>1, <2>2
<1>8. clean' \in BOOLEAN /\ (event.lagged => ~clean')
      /\ (clean' => clean /\ (unfinished > 0 => event.of \subseteq counted))
  <2>1. CASE event.lagged /\ StopsEverything
    BY <2>1 DEF StopsEverything
  <2>2. CASE /\ ~event.lagged
             /\ clean' = (clean /\ (unfinished > 0 => event.of \subseteq counted))
    BY <2>2
  <2> QED BY <1>1, <2>1, <2>2
<1>9. IsFiniteSet(counted') /\ counted' \subseteq counted
  BY <1>2, <1>7, FS_EmptySet
<1>10. ComposingTyped'
  <2>1. send' \in [SendCalls -> {"unmade", "begun", "filed", "leaving", "over"}]
        /\ current' \subseteq SendCalls /\ counted' \subseteq SendCalls /\ refreshing' \in BOOLEAN
        /\ said' \in Seq(Carriage) /\ LagAhead(said')
    BY <1>1, <1>2, <1>9 DEF ComposingInv, ComposingTyped
  <2> QED BY <2>1, <1>3, <1>5, <1>7, <1>8, <1>9 DEF ComposingTyped
<1>11. ToldOnce'
  <2>1. \A i \in 1 .. Len(said') : FALSE
    BY <1>1
  <2>2. ASSUME NEW i \in 1 .. Len(endings')
        PROVE  /\ ~endings'[i].lagged => \E x \in SendCalls : endings'[i].of = {x}
               /\ \A x \in endings'[i].of :
                    send'[x] = "over" /\ \A j \in 1 .. Len(endings') : x \in endings'[j].of => i = j
    <3>1. i + 1 \in 1 .. Len(endings) /\ endings'[i] = endings[i + 1]
      BY <1>3
    <3>2. /\ ~endings[i + 1].lagged => \E x \in SendCalls : endings[i + 1].of = {x}
          /\ \A x \in endings[i + 1].of :
                send[x] = "over" /\ \A j \in 1 .. Len(endings) : x \in endings[j].of => i + 1 = j
      BY <3>1 DEF ComposingInv, ToldOnce
    <3>3. ASSUME NEW x \in endings'[i].of, NEW j \in 1 .. Len(endings'), x \in endings'[j].of
          PROVE  i = j
      <4>1. j + 1 \in 1 .. Len(endings) /\ x \in endings[j + 1].of /\ x \in endings[i + 1].of
        BY <3>1, <3>3, <1>3
      <4>2. i + 1 = j + 1
        BY <3>2, <4>1
      <4> QED BY <4>2
    <3> QED BY <1>1, <3>1, <3>2, <3>3
  <2>3. \A x \in counted' \cup current' : send'[x] # "unmade"
    BY <1>1, <1>9 DEF ComposingInv, ToldOnce
  <2> QED BY <2>1, <2>2, <2>3, <1>7 DEF ToldOnce
<1>12. CurrentIsQueued'
  BY <1>1 DEF CurrentIsQueued
<1>13. CountIsRight'
  <2> SUFFICES ASSUME clean', Lossless(endings)'
               PROVE  /\ unfinished' = Cardinality({x \in counted' : Open(x)'})
                      /\ counted' \subseteq current'
                      /\ \A i \in 1 .. Len(said') : said'[i].of \subseteq current'
                      /\ \A x \in current' : Open(x)' => x \in counted' \/ TellsOf(said', x)
    BY DEF CountIsRight
  <2>1. clean /\ ~event.lagged /\ (unfinished > 0 => event.of \subseteq counted)
    BY <1>8
  <2>2. Lossless(endings)
    <3> SUFFICES ASSUME NEW i \in 1 .. Len(endings), endings[i].lagged PROVE FALSE
      BY DEF Lossless
    <3>1. i = 1
      BY <1>2 DEF LagAhead
    <3> QED BY <3>1, <2>1, <1>3
  <2>3. /\ unfinished = Cardinality({x \in counted : Open(x)})
        /\ counted \subseteq current
        /\ \A x \in current : Open(x) => x \in counted
    <3>1. Lossless(said) /\ (\A i \in 1 .. Len(said) : ~TerminalAt(said, i))
          /\ \A x : ~TellsOf(said, x)
      BY <1>1 DEF Lossless, TellsOf
    <3> QED BY <3>1, <2>1, <2>2 DEF ComposingInv, CountIsRight
  <2>4. PICK s \in SendCalls : event.of = {s}
    BY <2>1, <1>3 DEF ComposingInv, ToldOnce
  <2>5. send[s] = "over" /\ \A j \in 1 .. Len(endings) : s \in endings[j].of => 1 = j
    BY <2>4, <1>3 DEF ComposingInv, ToldOnce
  <2>6. TellsOf(endings, s) /\ ~TellsOf(endings', s)
        /\ \A x \in SendCalls \ {s} : TellsOf(endings', x) <=> TellsOf(endings, x)
    <3>1. TellsOf(endings, s)
      BY <1>3, <2>4 DEF TellsOf
    <3>2. ~TellsOf(endings', s)
      <4> SUFFICES ASSUME NEW i \in 1 .. Len(endings'), s \in endings'[i].of PROVE FALSE
        BY DEF TellsOf
      <4>1. i + 1 \in 1 .. Len(endings) /\ s \in endings[i + 1].of
        BY <1>3
      <4>2. 1 = i + 1
        BY <2>5, <4>1
      <4> QED BY <4>2
    <3>3. ASSUME NEW x \in SendCalls \ {s}, TellsOf(endings', x) PROVE TellsOf(endings, x)
      <4>1. PICK i \in 1 .. Len(endings') : x \in endings'[i].of
        BY <3>3 DEF TellsOf
      <4>2. i + 1 \in 1 .. Len(endings) /\ x \in endings[i + 1].of
        BY <4>1, <1>3
      <4> QED BY <4>2 DEF TellsOf
    <3>4. ASSUME NEW x \in SendCalls \ {s}, TellsOf(endings, x) PROVE TellsOf(endings', x)
      <4>1. PICK i \in 1 .. Len(endings) : x \in endings[i].of
        BY <3>4 DEF TellsOf
      <4>2. i > 1
        BY <4>1, <1>3, <2>4
      <4> QED BY <4>1, <4>2, <1>4 DEF TellsOf
    <3> QED BY <3>1, <3>2, <3>3, <3>4
  <2>7. Open(s) /\ ~Open(s)' /\ \A x \in SendCalls \ {s} : Open(x)' <=> Open(x)
    BY <2>5, <2>6, <1>1 DEF Open
  <2>8. \A i \in 1 .. Len(said') : said'[i].of \subseteq current'
    BY <1>1
  <2> DEFINE openBefore == {x \in counted : Open(x)}
  <2>9. IsFiniteSet(openBefore)
    BY <1>2, FS_Subset
  <2>10. CASE unfinished = 0
    <3>1. counted = {} /\ counted' = {}
      BY <2>10, <1>7 DEF ComposingInv, ToldOnce
    <3>2. unfinished' = 0
      BY <2>10, <1>6 DEF StopsSignal
    <3>3. {x \in counted' : Open(x)'} = {} /\ Cardinality({}) = 0
      BY <3>1, FS_EmptySet
    <3>4. \A x \in current' : ~Open(x)'
      BY <2>3, <2>7, <3>1, <1>1, <1>2
    <3> QED BY <3>1, <3>2, <3>3, <3>4, <2>8
  <2>11. CASE unfinished > 0
    <3>1. s \in openBefore
      BY <2>1, <2>4, <2>7, <2>11
    <3>2. CASE unfinished > 1 /\ unfinished' = unfinished - 1 /\ counted' = counted
      <4>1. {x \in counted' : Open(x)'} = openBefore \ {s}
        BY <3>1, <3>2, <2>7, <1>2
      <4>2. Cardinality(openBefore \ {s}) = Cardinality(openBefore) - 1
        BY <2>9, <3>1, FS_RemoveElement
      <4>3. \A x \in current' : Open(x)' => x \in counted'
        BY <2>3, <2>7, <3>2, <1>1, <1>2
      <4> QED BY <4>1, <4>2, <4>3, <3>2, <2>3, <2>8, <1>1
    <3>3. CASE StopsSignal
      <4>1. unfinished' = 0 /\ counted' = {}
        BY <3>3 DEF StopsSignal
      <4>2. unfinished = 1
        <5>1. ~event.lagged => CountsDown
          BY <1>1
        <5>2. CountsDown /\ unfinished > 1 => unfinished' = unfinished - 1
          BY DEF CountsDown
        <5> HIDE DEF openBefore
        <5>3. unfinished > 1 => unfinished' = unfinished - 1
          BY <5>1, <5>2, <2>1
        <5> QED BY <5>3, <4>1, <2>11, <1>2
      <4>3. Cardinality(openBefore \ {s}) = 0
        <5>1. Cardinality(openBefore \ {s}) = Cardinality(openBefore) - 1
          BY <2>9, <3>1, FS_RemoveElement
        <5> QED BY <5>1, <4>2, <2>3
      <4>4. openBefore \ {s} = {}
        <5>1. IsFiniteSet(openBefore \ {s})
          BY <2>9, FS_Subset
        <5> QED BY <5>1, <4>3, FS_EmptySet
      <4>5. \A x \in current' : ~Open(x)'
        <5> SUFFICES ASSUME NEW x \in current, Open(x)' PROVE FALSE
          BY <1>1
        <5>1. x # s /\ Open(x)
          BY <2>7, <1>2
        <5>2. x \in openBefore \ {s}
          BY <5>1, <2>3
        <5> QED BY <5>2, <4>4
      <4>6. {x \in counted' : Open(x)'} = {} /\ Cardinality({}) = 0
        BY <4>1, FS_EmptySet
      <4> QED BY <4>1, <4>5, <4>6, <2>8
    <3> QED BY <1>6, <3>2, <3>3
  <2> QED BY <2>10, <2>11, <1>2
<1> QED BY <1>7, <1>10, <1>11, <1>12, <1>13 DEF ComposingInv

LEMMA SignalExpiresKeeps ==
  ASSUME ComposingInv, SignalExpires
  PROVE  ComposingInv'
<1>1. /\ current' = current /\ send' = send /\ said' = said /\ endings' = endings
      /\ refreshing' = refreshing /\ StopsSignal /\ ~clean' /\ clean' \in BOOLEAN
  BY DEF SignalExpires, StopsEverything
<1>2. /\ unfinished' = 0 /\ counted' = {} /\ IndicatorFollows' /\ transitions' \in Seq(BOOLEAN)
  BY <1>1, StopsSignalIs
<1>3. ComposingTyped'
  BY <1>1, <1>2, FS_EmptySet DEF ComposingInv, ComposingTyped
<1>4. \A x \in SendCalls : Open(x)' <=> Open(x)
  <2>1. \A x \in SendCalls : TellsOf(endings, x)' <=> TellsOf(endings, x)
    BY <1>1
  <2> QED BY <2>1, <1>1 DEF Open
<1>5. ToldOnce'
  <2>1. \A i \in 1 .. Len(said) : said[i].of \subseteq SendCalls
    BY ToldSends DEF ComposingInv, ComposingTyped
  <2>2. Lossless(endings)' <=> Lossless(endings)
    BY <1>1
  <2>3. ASSUME NEW i \in 1 .. Len(said), NEW x \in said[i].of
        PROVE  /\ send[x] # "unmade" /\ said[i].of = {x}
               /\ \A j \in 1 .. Len(said) : x \in said[j].of => i = j
               /\ Lossless(endings)' => Open(x)'
    BY <2>1, <2>2, <1>4 DEF ComposingInv, ToldOnce
  <2>4. \A i \in 1 .. Len(endings) :
          /\ ~endings[i].lagged => \E x \in SendCalls : endings[i].of = {x}
          /\ \A x \in endings[i].of :
                send[x] = "over" /\ \A j \in 1 .. Len(endings) : x \in endings[j].of => i = j
    BY DEF ComposingInv, ToldOnce
  <2>5. \A x \in current : send[x] # "unmade"
    BY DEF ComposingInv, ToldOnce
  <2>6. /\ send' = send /\ said' = said /\ endings' = endings /\ current' = current
        /\ counted' = {}
    BY <1>1, <1>2
  <2>7. /\ \A i \in 1 .. Len(said) : \A x \in said[i].of : Lossless(endings)' => Open(x)'
        /\ \A i \in 1 .. Len(said) : \A x \in said[i].of :
              /\ send[x] # "unmade" /\ said[i].of = {x}
              /\ \A j \in 1 .. Len(said) : x \in said[j].of => i = j
    BY <2>3
  <2>8. \A i \in 1 .. Len(endings)' :
          /\ ~endings'[i].lagged => \E x \in SendCalls : endings'[i].of = {x}
          /\ \A x \in endings'[i].of :
                send'[x] = "over" /\ \A j \in 1 .. Len(endings)' : x \in endings'[j].of => i = j
    BY <2>4, <2>6
  <2>9. (\A x \in counted' \cup current' : send'[x] # "unmade")
        /\ (unfinished' = 0 => counted' = {})
    BY <2>5, <2>6
  <2> QED BY <2>6, <2>7, <2>8, <2>9 DEF ToldOnce
<1>6. CurrentIsQueued'
  BY <1>1 DEF ComposingInv, CurrentIsQueued
<1>7. CountIsRight'
  BY <1>1 DEF CountIsRight
<1> QED BY <1>2, <1>3, <1>5, <1>6, <1>7 DEF ComposingInv

\* What the adapter does with the indicator leaves the edge as it is.
LEMMA AdapterKeeps ==
  ASSUME ComposingInv, ComposingTyped', IndicatorFollows',
         UNCHANGED <<send, current, said, endings, unfinished, counted, clean>>
  PROVE  ComposingInv'
<1>1. /\ send' = send /\ current' = current /\ said' = said /\ endings' = endings
      /\ unfinished' = unfinished /\ counted' = counted /\ clean' = clean
  OBVIOUS
<1>2. ToldOnce'
  BY <1>1 DEF ComposingInv, ToldOnce, Open
<1>3. CurrentIsQueued'
  BY <1>1 DEF ComposingInv, CurrentIsQueued
<1>4. CountIsRight'
  BY <1>1 DEF ComposingInv, CountIsRight, Open
<1> QED BY <1>2, <1>3, <1>4 DEF ComposingInv

LEMMA ConsumesTransitionKeeps ==
  ASSUME ComposingInv, ConsumesTransition
  PROVE  ComposingInv'
<1>1. /\ transitions # <<>> /\ transitions' = Tail(transitions) /\ refreshing' = Head(transitions)
      /\ unfinished' = unfinished /\ transitions \in Seq(BOOLEAN)
      /\ send' = send /\ current' = current /\ said' = said /\ endings' = endings
      /\ counted' = counted /\ clean' = clean
  BY DEF ConsumesTransition, ComposingInv, ComposingTyped
<1>2. /\ transitions' \in Seq(BOOLEAN) /\ Len(transitions) \in Nat
      /\ Len(transitions') = Len(transitions) - 1 /\ Len(transitions) \in 1 .. Len(transitions)
      /\ \A i \in 1 .. Len(transitions') : transitions'[i] = transitions[i + 1]
      /\ refreshing' = transitions[1] /\ refreshing' \in BOOLEAN
  BY <1>1
<1>3. transitions[Len(transitions)] <=> unfinished > 0
  BY <1>2 DEF ComposingInv, IndicatorFollows
<1>4. ComposingTyped'
  BY <1>1, <1>2 DEF ComposingInv, ComposingTyped
<1>5. IndicatorFollows'
  <2>1. ASSUME NEW i \in 1 .. Len(transitions'), i = Len(transitions')
        PROVE  transitions'[i] <=> unfinished' > 0
    <3>1. i + 1 = Len(transitions) /\ transitions'[i] = transitions[i + 1]
      BY <2>1, <1>2
    <3> QED BY <3>1, <1>1, <1>3
  <2>2. ASSUME refreshing', transitions' = <<>>
        PROVE  unfinished' > 0
    <3>1. Len(transitions) = 1
      BY <2>2, <1>2
    <3> QED BY <3>1, <2>2, <1>1, <1>2, <1>3
  <2> QED BY <2>1, <2>2 DEF IndicatorFollows
<1> QED BY <1>1, <1>4, <1>5, AdapterKeeps

LEMMA RefresherRunsOutKeeps ==
  ASSUME ComposingInv, RefresherRunsOut
  PROVE  ComposingInv'
<1>1. /\ transitions' = transitions /\ ~refreshing' /\ refreshing' \in BOOLEAN
      /\ unfinished' = unfinished /\ send' = send /\ current' = current
      /\ said' = said /\ endings' = endings /\ counted' = counted /\ clean' = clean
  BY DEF RefresherRunsOut
<1>2. ComposingTyped'
  BY <1>1 DEF ComposingInv, ComposingTyped
<1>3. IndicatorFollows'
  BY <1>1 DEF ComposingInv, IndicatorFollows
<1> QED BY <1>1, <1>2, <1>3, AdapterKeeps

LEMMA ComposingStep == ComposingInv /\ [ComposingNext]_cueVars => ComposingInv'
<1> SUFFICES ASSUME ComposingInv, [ComposingNext]_cueVars PROVE ComposingInv'
  OBVIOUS
<1>1. CASE UNCHANGED cueVars
  <2>1. /\ UNCHANGED <<send, current, said, endings, unfinished, counted, clean>>
        /\ transitions' = transitions /\ refreshing' = refreshing
    BY <1>1 DEF cueVars
  <2>2. ComposingTyped'
    BY <2>1 DEF ComposingInv, ComposingTyped
  <2>3. IndicatorFollows'
    BY <2>1 DEF ComposingInv, IndicatorFollows
  <2> QED BY <2>1, <2>2, <2>3, AdapterKeeps
<1>2. ASSUME NEW s \in SendCalls, FilesSend(s) PROVE ComposingInv'
  <2>1. refreshing' = refreshing /\ refreshing \in BOOLEAN
    BY <1>2 DEF FilesSend, ComposingInv, ComposingTyped
  <2>2. /\ send[s] \in {"begun", "filed"} /\ send' = [send EXCEPT ![s] = "filed"]
        /\ UNCHANGED <<current, terminals, said, endings, unfinished, transitions, counted, clean>>
    BY <1>2 DEF FilesSend
  <2> QED BY <2>1, <2>2, MovesOnKeeps
<1>3. ASSUME NEW s \in SendCalls, CallsPlatform(s) PROVE ComposingInv'
  <2>1. ~refreshing' /\ refreshing' \in BOOLEAN
    BY <1>3 DEF CallsPlatform
  <2>2. /\ send[s] \in {"begun", "filed"} /\ send' = [send EXCEPT ![s] = "leaving"]
        /\ UNCHANGED <<current, terminals, said, endings, unfinished, transitions, counted, clean>>
    BY <1>3 DEF CallsPlatform
  <2> QED BY <2>1, <2>2, MovesOnKeeps
<1> QED BY <1>1, <1>2, <1>3, RecordsCallKeeps, SendOverKeeps, StreamEndsKeeps, TakesBusKeeps,
           TakesEndingKeeps, SignalExpiresKeeps, ConsumesTransitionKeeps, RefresherRunsOutKeeps
        DEF ComposingNext

(* Two sends keep the chat busy until the second ends, and the indicator      *)
(* stands only under a signal: for any number of sends, streams and any depth *)
(* of the carriers, once the edge has taken what it was told its signal       *)
(* counts the sends of the stream that are not over, where no lag, expiry or  *)
(* failed read came between (composing.rs, driver.rs).                        *)
THEOREM CueTellsTheTruth == ComposingSpec => []CueTruthful
<1>1. ComposingInit => ComposingInv
  <2> SUFFICES ASSUME ComposingInit PROVE ComposingInv
    OBVIOUS
  <2>1. /\ send = [s \in SendCalls |-> "unmade"] /\ current = {} /\ said = <<>> /\ endings = <<>>
        /\ unfinished = 0 /\ transitions = <<>> /\ ~refreshing /\ refreshing \in BOOLEAN
        /\ counted = {} /\ clean \in BOOLEAN
    BY DEF ComposingInit
  <2>2. ComposingTyped
    BY <2>1, FS_EmptySet DEF ComposingTyped, LagAhead
  <2>3. IndicatorFollows
    BY <2>1 DEF IndicatorFollows
  <2>4. ToldOnce
    BY <2>1 DEF ToldOnce
  <2>5. CurrentIsQueued
    BY <2>1 DEF CurrentIsQueued
  <2>6. {s \in counted : Open(s)} = {} /\ Cardinality({}) = 0
    BY <2>1, FS_EmptySet
  <2>7. CountIsRight
    BY <2>1, <2>6 DEF CountIsRight
  <2> QED BY <2>2, <2>3, <2>4, <2>5, <2>7 DEF ComposingInv
<1>2. ComposingInv => CueTruthful
  <2> SUFFICES ASSUME ComposingInv PROVE CueTruthful
    OBVIOUS
  <2>1. ASSUME clean, said = <<>>, endings = <<>>
        PROVE  unfinished = Cardinality(current \cap Unfinished)
    <3>1. /\ Lossless(said) /\ Lossless(endings) /\ \A i \in 1 .. Len(said) : ~TerminalAt(said, i)
          /\ \A x : ~TellsOf(said, x) /\ ~TellsOf(endings, x)
      BY <2>1 DEF Lossless, TellsOf
    <3>2. /\ unfinished = Cardinality({s \in counted : Open(s)}) /\ counted \subseteq current
          /\ \A s \in current : Open(s) => s \in counted
      BY <3>1, <2>1 DEF ComposingInv, CountIsRight
    <3>3. current \subseteq SendCalls
      BY DEF ComposingInv, ComposingTyped
    <3>4. {s \in counted : Open(s)} = current \cap Unfinished
      BY <3>1, <3>2, <3>3 DEF Open, Unfinished
    <3> QED BY <3>2, <3>4
  <2>2. refreshing /\ transitions = <<>> => unfinished > 0
    BY DEF ComposingInv, IndicatorFollows
  <2> QED BY <2>1, <2>2 DEF CueTruthful
<1> QED BY <1>1, <1>2, ComposingStep, PTL DEF ComposingSpec

-----------------------------------------------------------------------------
\* Streams: what a turn settles on when its stream ends.

StreamStages == {"none", "dispatched", "connected", "streams", "committed", "orphaned"}
SettleStages == {"idle", "reads", "counts", "waits", "confirms", "settled", "failed"}
Settlements  == [at : SettleStages, observed : BOOLEAN, tail : BOOLEAN, stale : BOOLEAN,
                 before : Nat, n : Nat]
BusEvents    == [kind : {"status", "end", "other", "lag"}, of : Nat]

(* Something that a settlement waits for is on the bus.                       *)
WakesUp(feed) == \E i \in 1 .. Len(feed) : feed[i].kind \in {"end", "lag"}

StreamsTyped ==
    /\ stream \in [at : StreamStages, n : Nat, deaf : BOOLEAN]
    /\ settle \in Settlements
    /\ tail \in BOOLEAN /\ residue \in BOOLEAN /\ open \in BOOLEAN
    /\ {statuses, interrupts, forced, holder} \subseteq Nat
    /\ waits \in Seq(BusEvents)

(* A tail is that of the stream that writes it, or a dead process's, which no  *)
(* stream has written over yet.                                               *)
TailIsWritten ==
    /\ tail => residue \/ stream.at = "streams"
    /\ residue => tail /\ stream.at \notin {"streams", "committed"}
    /\ stream.at # "none" => stream.n > 0
    /\ settle.n <= stream.n

SameStream == settle.n = stream.n

(* What a settlement reads holds as long as no other stream begins.           *)
ReadsRight ==
    /\ settle.at = "waits" => settle.observed /\ settle.tail
    /\ settle.at = "reads" /\ ~settle.observed /\ settle.n # 0 /\ SameStream /\ ~tail => ~Writing
    /\ settle.at \in {"counts", "waits"} /\ settle.tail /\ ~settle.stale /\ SameStream /\ ~stream.deaf =>
          stream.at \in {"streams", "committed"} \/ WakesUp(waits)

(* Past its interrupt, or another end that left a status, the stream writes   *)
(* no more.                                                                   *)
InterruptEnds ==
    /\ settle.at \in {"waits", "confirms"} =>
          /\ settle.before <= statuses
          /\ interrupts = 0 => statuses > settle.before
          /\ forced = 0 => \/ interrupts = 1 /\ statuses = settle.before
                           \/ interrupts = 0 /\ statuses = settle.before + 1
          /\ statuses > settle.before =>
                ~residue /\ (SameStream => stream.at \in {"none", "orphaned"})
    /\ settle.at \notin {"waits", "confirms"} /\ forced = 0 => interrupts = 0

StreamsInv ==
    StreamsTyped /\ TailIsWritten /\ ReadsRight /\ InterruptEnds /\ SettleTruthful

LEMMA OnBusIs ==
  ASSUME NEW feed \in Seq(BusEvents), NEW event \in BusEvents
  PROVE  /\ OnBus(feed, event) \in Seq(BusEvents)
         /\ WakesUp(feed) \/ event.kind = "end" => WakesUp(OnBus(feed, event))
<1>1. CASE Len(Kept(feed)) < BusDepth
  <2> DEFINE q == Append(feed, event)
  <2>1. OnBus(feed, event) = q
    BY <1>1 DEF OnBus
  <2>2. /\ q \in Seq(BusEvents) /\ Len(q) = Len(feed) + 1 /\ q[Len(feed) + 1] = event
        /\ \A i \in 1 .. Len(feed) : q[i] = feed[i] /\ i \in 1 .. Len(q)
        /\ Len(feed) + 1 \in 1 .. Len(q)
    OBVIOUS
  <2> HIDE DEF q
  <2> QED BY <2>1, <2>2 DEF WakesUp
<1>2. CASE ~(Len(Kept(feed)) < BusDepth)
  <2> DEFINE kept == Kept(feed)
  <2>1. kept \in Seq(BusEvents) /\ Len(kept) \in Nat
    BY DEF Kept
  <2>2. kept # <<>>
    BY <2>1, <1>2, StreamsAssumption
  <2>3. Lag \in BusEvents /\ Lag.kind = "lag"
    BY DEF Lag, BusEvents
  <2>4. OnBus(feed, event) = <<Lag>> \o Tail(kept) \o <<event>>
    BY <1>2 DEF OnBus
  <2> HIDE DEF kept
  <2>5. Tail(kept) \in Seq(BusEvents)
    BY <2>1, <2>2
  <2> DEFINE rest == Tail(kept)
             q == <<Lag>> \o rest \o <<event>>
  <2> HIDE DEF rest
  <2>6. q \in Seq(BusEvents) /\ q[1] = Lag /\ 1 \in 1 .. Len(q)
    BY <2>3, <2>5 DEF rest
  <2>7. OnBus(feed, event) = q
    BY <2>4 DEF rest
  <2> HIDE DEF q
  <2> QED BY <2>3, <2>6, <2>7 DEF WakesUp
<1> QED BY <1>1, <1>2

LEMMA EmitIs ==
  ASSUME StreamsTyped, NEW kind \in {"status", "end", "other"}, Emit(kind)
  PROVE  /\ waits' \in Seq(BusEvents)
         /\ WakesUp(waits) => WakesUp(waits')
         /\ kind = "end" /\ settle.at \in {"counts", "waits"} => WakesUp(waits')
<1> DEFINE event == [kind |-> kind, of |-> holder]
<1>1. event \in BusEvents /\ event.kind = kind
  BY DEF StreamsTyped, BusEvents
<1>2. waits' = IF Subscribed THEN OnBus(waits, event) ELSE waits
  BY DEF Emit
<1>3. waits \in Seq(BusEvents)
  BY DEF StreamsTyped
<1> HIDE DEF event
<1>4. settle.at \in {"counts", "waits"} => Subscribed
  BY DEF Subscribed
<1> QED BY <1>1, <1>2, <1>3, <1>4, OnBusIs

LEMMA GoesIs ==
  ASSUME StreamsTyped, NEW at \in StreamStages, Goes(at)
  PROVE  /\ stream' \in [at : StreamStages, n : Nat, deaf : BOOLEAN]
         /\ stream'.at = at /\ stream'.n = stream.n /\ (stream'.deaf <=> stream.deaf)
<1>1. stream' = [stream EXCEPT !.at = at]
  BY DEF Goes
<1>2. stream \in [at : StreamStages, n : Nat, deaf : BOOLEAN]
  BY DEF StreamsTyped
<1> QED BY <1>1, <1>2

\* The framework: what it may do to a stream that goes on as the same one.
LEMMA SameStreamGoesOn ==
  ASSUME StreamsInv, StreamsTyped', settle' = settle,
         stream'.n = stream.n, stream'.deaf <=> stream.deaf,
         tail' => residue' \/ stream'.at = "streams",
         residue' => residue /\ tail' /\ stream'.at \notin {"streams", "committed"},
         stream'.at # "none" => stream.n > 0,
         statuses <= statuses', forced <= forced', interrupts' <= interrupts,
         stream.at \in {"none", "orphaned"} => stream'.at \in {"none", "orphaned"},
         ~Writing => ~Writing',
         ~tail' /\ tail => ~Writing',
         interrupts' = 0 => interrupts = 0 \/ statuses' > statuses,
         forced' = 0 => \/ statuses' = statuses /\ interrupts' = interrupts
                        \/ interrupts = interrupts' + 1 /\ statuses' = statuses + 1,
         statuses' > statuses => ~residue' /\ stream'.at \in {"none", "orphaned"},
         WakesUp(waits) => WakesUp(waits'),
         \/ stream.at \in {"streams", "committed"} => stream'.at \in {"streams", "committed"}
         \/ settle.at \in {"counts", "waits"} => WakesUp(waits')
         \/ stream.deaf
  PROVE  StreamsInv'
<1>1. /\ {statuses, statuses', interrupts, interrupts', forced, forced', settle.before} \subseteq Nat
  BY DEF StreamsInv, StreamsTyped, Settlements
<1>2. TailIsWritten'
  BY DEF StreamsInv, TailIsWritten
<1>3. ReadsRight'
  <2>1. settle.at = "reads" /\ ~settle.observed /\ settle.n # 0 /\ SameStream /\ ~tail' => ~Writing'
    BY DEF StreamsInv, ReadsRight
  <2>2. settle.at \in {"counts", "waits"} /\ settle.tail /\ ~settle.stale /\ SameStream /\ ~stream.deaf =>
           stream'.at \in {"streams", "committed"} \/ WakesUp(waits')
    BY DEF StreamsInv, ReadsRight
  <2>3. settle.at = "waits" => settle.observed /\ settle.tail
    BY DEF StreamsInv, ReadsRight
  <2> QED BY <2>1, <2>2, <2>3 DEF ReadsRight, SameStream
<1>4. InterruptEnds'
  <2>1. ASSUME settle.at \in {"waits", "confirms"}
        PROVE  /\ settle.before <= statuses'
               /\ interrupts' = 0 => statuses' > settle.before
               /\ forced' = 0 => \/ interrupts' = 1 /\ statuses' = settle.before
                                 \/ interrupts' = 0 /\ statuses' = settle.before + 1
               /\ statuses' > settle.before =>
                     ~residue' /\ (SameStream => stream'.at \in {"none", "orphaned"})
    <3>1. /\ settle.before <= statuses
          /\ interrupts = 0 => statuses > settle.before
          /\ forced = 0 => \/ interrupts = 1 /\ statuses = settle.before
                           \/ interrupts = 0 /\ statuses = settle.before + 1
          /\ statuses > settle.before =>
                ~residue /\ (SameStream => stream.at \in {"none", "orphaned"})
      BY <2>1 DEF StreamsInv, InterruptEnds
    <3>2. settle.before <= statuses' /\ (interrupts' = 0 => statuses' > settle.before)
      BY <3>1, <1>1
    <3>3. forced' = 0 => \/ interrupts' = 1 /\ statuses' = settle.before
                         \/ interrupts' = 0 /\ statuses' = settle.before + 1
      BY <3>1, <1>1
    <3>4. statuses' > settle.before =>
             ~residue' /\ (SameStream => stream'.at \in {"none", "orphaned"})
      BY <3>1, <1>1
    <3> QED BY <3>2, <3>3, <3>4
  <2>2. settle.at \notin {"waits", "confirms"} /\ forced' = 0 => interrupts' = 0
    BY <1>1 DEF StreamsInv, InterruptEnds
  <2> QED BY <2>1, <2>2 DEF InterruptEnds, SameStream
<1>5. SettleTruthful'
  <2>1. settle.at = "settled" /\ settle.n = stream.n /\ settle.n # 0 => ~Writing'
    BY DEF StreamsInv, SettleTruthful
  <2>2. settle.at = "settled" /\ forced' = 0 => interrupts' = 0
    BY <1>1 DEF StreamsInv, SettleTruthful
  <2>3. settle.at = "failed" =>
           stream.deaf \/ stream.n # settle.n \/ (settle.observed /\ settle.stale)
    BY DEF StreamsInv, SettleTruthful
  <2> QED BY <2>1, <2>2, <2>3 DEF SettleTruthful
<1> QED BY <1>2, <1>3, <1>4, <1>5 DEF StreamsInv

LEMMA DispatchesKeeps ==
  ASSUME StreamsInv, Dispatches
  PROVE  StreamsInv'
<1>1. PICK deaf \in BOOLEAN : stream' = [at |-> "dispatched", n |-> stream.n + 1, deaf |-> deaf]
  BY DEF Dispatches
<1>2. /\ stream.at = "none" /\ tail' = tail /\ statuses' = statuses /\ interrupts' = interrupts
      /\ open' = open /\ settle' = settle /\ waits' = waits /\ holder' = holder
      /\ residue' = residue /\ forced' = forced
  BY DEF Dispatches, observer, settling
<1>3. stream.n \in Nat /\ settle.n \in Nat /\ settle.n <= stream.n
  BY DEF StreamsInv, StreamsTyped, TailIsWritten, Settlements
<1>4. /\ stream' \in [at : StreamStages, n : Nat, deaf : BOOLEAN]
      /\ stream'.at = "dispatched" /\ stream'.n = stream.n + 1
  BY <1>1, <1>3 DEF StreamStages
<1>5. StreamsTyped'
  BY <1>2, <1>4 DEF StreamsInv, StreamsTyped
<1>6. settle.n # stream'.n /\ settle.n <= stream'.n /\ stream'.n > 0
  BY <1>3, <1>4
<1>7. TailIsWritten'
  BY <1>2, <1>4, <1>6 DEF StreamsInv, TailIsWritten
<1>8. ReadsRight'
  <2>1. settle.at = "waits" => settle.observed /\ settle.tail
    BY DEF StreamsInv, ReadsRight
  <2> QED BY <2>1, <1>2, <1>6 DEF ReadsRight, SameStream
<1>9. InterruptEnds'
  BY <1>2, <1>6 DEF StreamsInv, InterruptEnds, SameStream
<1>10. SettleTruthful'
  BY <1>2, <1>6 DEF StreamsInv, SettleTruthful
<1> QED BY <1>5, <1>7, <1>8, <1>9, <1>10 DEF StreamsInv

LEMMA FrameworkKeeps ==
  ASSUME StreamsInv, \/ Connects \/ StoresTail \/ Commits \/ EndsStream
                     \/ HandlesInterrupt \/ OtherTraffic
  PROVE  StreamsInv'
<1>1. /\ StreamsTyped /\ stream \in [at : StreamStages, n : Nat, deaf : BOOLEAN]
      /\ {statuses, interrupts, forced, holder} \subseteq Nat /\ tail \in BOOLEAN /\ residue \in BOOLEAN
      /\ stream.at \in StreamStages
      /\ waits \in Seq(BusEvents) /\ open \in BOOLEAN
  BY DEF StreamsInv, StreamsTyped
<1>2. /\ tail => residue \/ stream.at = "streams"
      /\ residue => tail /\ stream.at \notin {"streams", "committed"}
      /\ stream.at # "none" => stream.n > 0
  BY DEF StreamsInv, TailIsWritten
<1>3. CASE Connects
  <2>1. /\ tail' = tail /\ statuses' = statuses /\ interrupts' = interrupts /\ open' = open
        /\ settle' = settle /\ holder' = holder /\ residue' = residue /\ forced' = forced
        /\ stream.at \in {"dispatched", "streams"} /\ Emit("status")
        /\ Goes(IF stream.at = "dispatched" THEN "connected" ELSE "streams")
    BY <1>3 DEF Connects
  <2>2. /\ waits' \in Seq(BusEvents) /\ (WakesUp(waits) => WakesUp(waits'))
    BY <2>1, <1>1, EmitIs
  <2>3. /\ stream' \in [at : StreamStages, n : Nat, deaf : BOOLEAN]
        /\ stream'.at = IF stream.at = "dispatched" THEN "connected" ELSE "streams"
        /\ stream'.n = stream.n /\ (stream'.deaf <=> stream.deaf)
    BY <2>1, <1>1, GoesIs DEF StreamStages
  <2>4. StreamsTyped'
    BY <2>1, <2>2, <2>3, <1>1 DEF StreamsTyped
  <2>5. /\ tail' => residue' \/ stream'.at = "streams"
        /\ residue' => residue /\ tail' /\ stream'.at \notin {"streams", "committed"}
    BY <2>1, <2>3, <1>2
  <2>6. Writing
    BY <2>1 DEF Writing
  <2>7. stream.at \in {"streams", "committed"} => stream'.at \in {"streams", "committed"}
    BY <2>1, <2>3
  <2> QED BY <2>1, <2>2, <2>3, <2>4, <2>5, <2>6, <2>7, <1>1, <1>2, SameStreamGoesOn
<1>4. CASE StoresTail
  <2>1. /\ tail' = TRUE /\ statuses' = statuses /\ interrupts' = interrupts /\ open' = open
        /\ settle' = settle /\ holder' = holder /\ residue' = FALSE /\ forced' = forced
        /\ stream.at = "connected" /\ waits' = waits /\ Goes("streams")
    BY <1>4 DEF StoresTail, observer, settling
  <2>3. /\ stream' \in [at : StreamStages, n : Nat, deaf : BOOLEAN]
        /\ stream'.at = "streams" /\ stream'.n = stream.n /\ (stream'.deaf <=> stream.deaf)
    BY <2>1, <1>1, GoesIs DEF StreamStages
  <2>4. StreamsTyped'
    BY <2>1, <2>3, <1>1 DEF StreamsTyped
  <2>6. Writing
    BY <2>1 DEF Writing
  <2> QED BY <2>1, <2>3, <2>4, <2>6, <1>1, <1>2, SameStreamGoesOn
<1>5. CASE Commits
  <2>1. /\ ~tail' /\ tail' \in BOOLEAN /\ statuses' = statuses /\ interrupts' = interrupts
        /\ open' = open /\ settle' = settle /\ holder' = holder /\ residue' = residue
        /\ forced' = forced /\ stream.at = "streams" /\ waits' = waits /\ Goes("committed")
    BY <1>5 DEF Commits, observer, settling
  <2>3. /\ stream' \in [at : StreamStages, n : Nat, deaf : BOOLEAN]
        /\ stream'.at = "committed" /\ stream'.n = stream.n /\ (stream'.deaf <=> stream.deaf)
    BY <2>1, <1>1, GoesIs DEF StreamStages
  <2>4. StreamsTyped'
    BY <2>1, <2>3, <1>1 DEF StreamsTyped
  <2>6. ~Writing'
    BY <2>3 DEF Writing
  <2> QED BY <2>1, <2>3, <2>4, <2>6, <1>1, <1>2, SameStreamGoesOn
<1>6. CASE EndsStream
  <2>1. /\ (tail' <=> residue) /\ tail' \in BOOLEAN /\ interrupts' = interrupts
        /\ open' = open /\ settle' = settle /\ holder' = holder /\ residue' = residue
        /\ stream.at # "none" /\ Goes("none") /\ Emit("end")
        /\ \/ statuses' = statuses /\ forced' = forced
           \/ stream.at = "committed" /\ statuses' = statuses + 1 /\ forced' = forced + 1
    BY <1>1, <1>2, <1>6 DEF EndsStream
  <2>2. /\ waits' \in Seq(BusEvents) /\ (WakesUp(waits) => WakesUp(waits'))
        /\ settle.at \in {"counts", "waits"} => WakesUp(waits')
    BY <2>1, <1>1, EmitIs
  <2>3. /\ stream' \in [at : StreamStages, n : Nat, deaf : BOOLEAN]
        /\ stream'.at = "none" /\ stream'.n = stream.n /\ (stream'.deaf <=> stream.deaf)
    BY <2>1, <1>1, GoesIs DEF StreamStages
  <2>4. /\ {statuses', forced'} \subseteq Nat /\ statuses <= statuses' /\ forced <= forced'
        /\ (forced' = 0 => statuses' = statuses)
        /\ (statuses' > statuses => ~residue)
    BY <2>1, <1>1, <1>2
  <2>5. StreamsTyped'
    BY <2>1, <2>2, <2>3, <2>4, <1>1 DEF StreamsTyped
  <2>6. ~Writing'
    BY <2>3 DEF Writing
  <2> QED BY <2>1, <2>2, <2>3, <2>4, <2>5, <2>6, <1>1, <1>2, SameStreamGoesOn
<1>7. CASE HandlesInterrupt
  <2>1. /\ interrupts > 0 /\ interrupts' = interrupts - 1 /\ ~tail' /\ tail' \in BOOLEAN
        /\ residue' = FALSE /\ statuses' = statuses + 1
        /\ open' = open /\ settle' = settle /\ holder' = holder /\ forced' = forced
        /\ \/ /\ stream.at \in {"none", "orphaned"} /\ stream' = stream /\ waits' = waits
           \/ stream.at \notin {"none", "orphaned"} /\ stream.deaf /\ Goes("none") /\ waits' = waits
           \/ stream.at \notin {"none", "orphaned"} /\ Goes("none") /\ Emit("end")
    BY <1>7 DEF HandlesInterrupt, Live
  <2>2. /\ waits' \in Seq(BusEvents) /\ (WakesUp(waits) => WakesUp(waits'))
        /\ \/ stream.at \in {"none", "orphaned"}
           \/ stream.deaf
           \/ settle.at \in {"counts", "waits"} => WakesUp(waits')
    BY <2>1, <1>1, EmitIs
  <2>3. /\ stream' \in [at : StreamStages, n : Nat, deaf : BOOLEAN]
        /\ stream'.at \in {"none", "orphaned"} /\ (stream'.at # "none" => stream.at # "none")
        /\ stream'.n = stream.n /\ (stream'.deaf <=> stream.deaf)
    <3>1. CASE Goes("none")
      BY <3>1, <1>1, GoesIs DEF StreamStages
    <3>2. CASE stream.at \in {"none", "orphaned"} /\ stream' = stream
      BY <3>2, <1>1
    <3> QED BY <2>1, <3>1, <3>2
  <2>4. /\ {statuses', interrupts'} \subseteq Nat /\ statuses' > statuses /\ interrupts' <= interrupts
        /\ interrupts = interrupts' + 1 /\ statuses <= statuses'
    BY <2>1, <1>1
  <2>5. StreamsTyped'
    BY <2>1, <2>2, <2>3, <2>4, <1>1 DEF StreamsTyped
  <2>6. ~Writing'
    BY <2>3 DEF Writing
  <2>7. forced <= forced'
    BY <2>1, <1>1
  <2>8. \/ stream.at \in {"streams", "committed"} => stream'.at \in {"streams", "committed"}
        \/ settle.at \in {"counts", "waits"} => WakesUp(waits')
        \/ stream.deaf
    BY <2>2
  <2>9. /\ tail' => residue' \/ stream'.at = "streams"
        /\ residue' => residue /\ tail' /\ stream'.at \notin {"streams", "committed"}
        /\ stream'.at # "none" => stream.n > 0
        /\ stream.at \in {"none", "orphaned"} => stream'.at \in {"none", "orphaned"}
        /\ interrupts' = 0 => interrupts = 0 \/ statuses' > statuses
        /\ forced' = 0 => \/ statuses' = statuses /\ interrupts' = interrupts
                          \/ interrupts = interrupts' + 1 /\ statuses' = statuses + 1
        /\ statuses' > statuses => ~residue' /\ stream'.at \in {"none", "orphaned"}
    BY <2>1, <2>3, <2>4, <1>2
  <2>10. settle' = settle /\ stream'.n = stream.n /\ (stream'.deaf <=> stream.deaf)
         /\ (WakesUp(waits) => WakesUp(waits'))
    BY <2>1, <2>2, <2>3
  <2>11. (~Writing => ~Writing') /\ (~tail' /\ tail => ~Writing')
    BY <2>6
  <2>12. /\ statuses <= statuses' /\ forced <= forced' /\ interrupts' <= interrupts
    BY <2>4, <2>7
  <2> QED BY <2>5, <2>8, <2>9, <2>10, <2>11, <2>12, SameStreamGoesOn
<1>8. CASE OtherTraffic
  <2>1. /\ stream' = stream /\ tail' = tail /\ statuses' = statuses /\ interrupts' = interrupts
        /\ open' = open /\ settle' = settle /\ holder' = holder /\ residue' = residue
        /\ forced' = forced /\ Emit("other")
    BY <1>8 DEF OtherTraffic, fromFramework
  <2>2. /\ waits' \in Seq(BusEvents) /\ (WakesUp(waits) => WakesUp(waits'))
    BY <2>1, <1>1, EmitIs
  <2>3. StreamsTyped'
    BY <2>1, <2>2, <1>1 DEF StreamsTyped
  <2>4. Writing' <=> Writing
    BY <2>1 DEF Writing
  <2>5. statuses <= statuses' /\ forced <= forced' /\ interrupts' <= interrupts
        /\ ~(statuses' > statuses)
    BY <2>1, <1>1
  <2>6. (tail' <=> tail) /\ stream'.n = stream.n /\ (stream'.deaf <=> stream.deaf)
    BY <2>1
  <2> QED BY <2>1, <2>2, <2>3, <2>4, <2>5, <2>6, <1>2, SameStreamGoesOn
<1> QED BY <1>3, <1>4, <1>5, <1>6, <1>7, <1>8

\* The settlement: the rest as it is.
Apart == UNCHANGED <<stream, tail, statuses, residue, forced, holder>>

LEMMA SettlementTyped ==
  ASSUME StreamsInv, Apart, open' \in BOOLEAN, waits' \in Seq(BusEvents), interrupts' \in Nat,
         settle' \in Settlements,
         settle'.n <= stream.n
  PROVE  StreamsTyped' /\ TailIsWritten' /\ (Writing' <=> Writing)
<1>1. /\ stream' = stream /\ tail' = tail /\ statuses' = statuses /\ residue' = residue
      /\ forced' = forced /\ holder' = holder
  BY DEF Apart
<1>2. StreamsTyped'
  BY <1>1 DEF StreamsInv, StreamsTyped
<1>3. TailIsWritten'
  BY <1>1 DEF StreamsInv, TailIsWritten
<1> QED BY <1>1, <1>2, <1>3 DEF Writing

LEMMA SettlementKeeps ==
  ASSUME StreamsInv, SettleBegins \/ ReadsTail \/ Interrupts \/ Wakes \/ ConfirmsSettled
                     \/ GivesUp \/ LeavesStanding
  PROVE  StreamsInv'
<1>1. /\ StreamsTyped /\ open \in BOOLEAN /\ tail \in BOOLEAN /\ residue \in BOOLEAN
      /\ waits \in Seq(BusEvents)
      /\ interrupts \in Nat /\ statuses \in Nat /\ forced \in Nat
      /\ settle \in Settlements
      /\ stream.n \in Nat
  BY DEF StreamsInv, StreamsTyped
<1>2. /\ tail => residue \/ stream.at = "streams"
      /\ settle.n <= stream.n
      /\ settle.n \in Nat /\ settle.before \in Nat
  BY <1>1 DEF StreamsInv, TailIsWritten, Settlements
<1>3. CASE SettleBegins
  <2>1. /\ Apart /\ interrupts' = interrupts /\ open' = open /\ settle.at \in {"idle", "failed"}
        /\ settle' = [at |-> "reads", observed |-> open, tail |-> FALSE, stale |-> FALSE,
                      before |-> 0, n |-> IF open \/ tail THEN stream.n ELSE 0]
        /\ waits' = <<>>
    BY <1>3 DEF SettleBegins, fromFramework, observer, Apart
  <2>2. /\ settle' \in Settlements
        /\ settle'.at = "reads" /\ (settle'.observed <=> open) /\ settle'.n \in {0, stream.n}
        /\ settle'.n <= stream.n
        /\ (~open /\ settle'.n # 0 => tail)
    BY <2>1, <1>1 DEF Settlements, SettleStages
  <2>3. StreamsTyped' /\ TailIsWritten' /\ (Writing' <=> Writing)
    BY <2>1, <2>2, <1>1, SettlementTyped
  <2>4. tail' = tail
    BY <2>1 DEF Apart
  <2>5. ReadsRight'
    BY <2>2, <2>4 DEF ReadsRight
  <2>6. InterruptEnds'
    BY <2>1, <2>2 DEF StreamsInv, InterruptEnds, Apart
  <2>7. SettleTruthful'
    BY <2>2 DEF SettleTruthful
  <2> QED BY <2>3, <2>5, <2>6, <2>7 DEF StreamsInv
<1>4. CASE ReadsTail
  <2>1. /\ Apart /\ interrupts' = interrupts /\ open' = open /\ settle.at = "reads"
        /\ settle' = [settle EXCEPT !.tail = tail, !.stale = tail /\ residue,
                        !.at = IF ~settle.observed /\ ~tail THEN "settled" ELSE "counts"]
        /\ waits' = IF ~settle.observed /\ ~tail THEN <<>> ELSE waits
    BY <1>4 DEF ReadsTail, fromFramework, observer, Apart
  <2>2. /\ settle' \in Settlements
        /\ settle'.at = (IF ~settle.observed /\ ~tail THEN "settled" ELSE "counts")
        /\ (settle'.tail <=> tail) /\ (settle'.stale <=> tail /\ residue)
        /\ settle'.n = settle.n /\ waits' \in Seq(BusEvents)
    <3> DEFINE at == IF ~settle.observed /\ ~tail THEN "settled" ELSE "counts"
    <3>0. PICK stale \in BOOLEAN : stale = (tail /\ residue)
      OBVIOUS
    <3>1. settle' = [settle EXCEPT !.tail = tail, !.stale = stale, !.at = at]
          /\ at \in {"settled", "counts"}
      BY <2>1, <3>0
    <3>2. waits' \in Seq(BusEvents)
      BY <2>1, <1>1
    <3> HIDE DEF at
    <3>3. settle' \in Settlements
          /\ settle'.at = at /\ (settle'.tail <=> tail) /\ settle'.stale = stale
          /\ settle'.n = settle.n
      BY <3>1, <1>1 DEF Settlements, SettleStages
    <3> QED BY <3>0, <3>2, <3>3 DEF at
  <2>3. StreamsTyped' /\ TailIsWritten' /\ (Writing' <=> Writing)
    BY <2>1, <2>2, <1>1, <1>2, SettlementTyped
  <2>4. stream' = stream /\ statuses' = statuses /\ forced' = forced
    BY <2>1 DEF Apart
  <2>5. ReadsRight'
    BY <2>2, <2>4, <1>2 DEF ReadsRight
  <2>6. InterruptEnds'
    BY <2>1, <2>2, <2>4 DEF StreamsInv, InterruptEnds
  <2>7. SettleTruthful'
    <3>1. settle'.at = "settled" => ~settle.observed /\ ~tail
      BY <2>2
    <3>2. settle'.at = "settled" /\ settle'.n = stream'.n /\ settle'.n # 0 => ~Writing'
      BY <2>1, <2>2, <2>3, <2>4, <3>1 DEF StreamsInv, ReadsRight, SameStream
    <3>3. forced' = 0 => interrupts' = 0
      BY <2>1, <2>4 DEF StreamsInv, InterruptEnds
    <3>4. settle'.at # "failed"
      BY <2>2
    <3> QED BY <3>2, <3>3, <3>4 DEF SettleTruthful
  <2> QED BY <2>3, <2>5, <2>6, <2>7 DEF StreamsInv
<1>5. CASE Interrupts
  <2>1. /\ Apart /\ interrupts' = interrupts + 1 /\ open' = open /\ settle.at = "counts"
        /\ settle' = [settle EXCEPT !.before = statuses,
                        !.at = IF AwaitsEnd(settle) THEN "waits" ELSE "confirms"]
        /\ waits' = waits
    BY <1>5 DEF Interrupts, observer, Apart
  <2>2. /\ settle' \in Settlements
        /\ settle'.at = (IF AwaitsEnd(settle) THEN "waits" ELSE "confirms")
        /\ (settle'.tail <=> settle.tail) /\ (settle'.stale <=> settle.stale)
        /\ (settle'.observed <=> settle.observed)
        /\ settle'.n = settle.n /\ settle'.before = statuses
    BY <2>1, <1>1 DEF Settlements, SettleStages
  <2>3. interrupts' \in Nat /\ interrupts' # 0 /\ ~(statuses > statuses) /\ statuses <= statuses
        /\ (interrupts = 0 => interrupts' = 1)
    BY <2>1, <1>1
  <2>4. StreamsTyped' /\ TailIsWritten' /\ (Writing' <=> Writing)
    BY <2>1, <2>2, <2>3, <1>1, <1>2, SettlementTyped
  <2>5. stream' = stream /\ statuses' = statuses /\ forced' = forced
    BY <2>1 DEF Apart
  <2>6. ReadsRight'
    <3>1. settle'.at = "waits" => /\ settle.at = "counts" /\ (settle.tail <=> settle'.tail)
                                  /\ (settle.stale <=> settle'.stale)
      BY <2>1, <2>2
    <3>2. settle'.at \notin {"reads", "counts"}
      BY <2>2
    <3>3. settle'.at = "waits" /\ settle'.tail /\ ~settle'.stale /\ SameStream' /\ ~stream'.deaf =>
             stream'.at \in {"streams", "committed"} \/ WakesUp(waits')
      BY <2>1, <2>2, <2>5, <3>1 DEF StreamsInv, ReadsRight, SameStream
    <3>4. settle'.at = "waits" => settle'.observed /\ settle'.tail
      <4>1. settle'.at = "waits" => AwaitsEnd(settle)
        BY <2>2
      <4> QED BY <4>1, <2>2 DEF AwaitsEnd
    <3> QED BY <3>2, <3>3, <3>4 DEF ReadsRight
  <2>7. InterruptEnds'
    <3>1. settle'.at \in {"waits", "confirms"} /\ settle'.before = statuses'
      BY <2>2, <2>5
    <3>2. forced' = 0 => interrupts' = 1
      BY <2>1, <2>3, <2>5 DEF StreamsInv, InterruptEnds
    <3> QED BY <3>1, <3>2, <2>3, <2>5 DEF InterruptEnds
  <2>8. SettleTruthful'
    BY <2>2 DEF SettleTruthful
  <2> QED BY <2>4, <2>6, <2>7, <2>8 DEF StreamsInv
<1>6. CASE Wakes
  <2>1. /\ Apart /\ interrupts' = interrupts /\ open' = open /\ settle.at = "waits" /\ waits # <<>>
        /\ settle' = (IF Head(waits).kind \in {"status", "other"} THEN settle
                      ELSE [settle EXCEPT !.at = "confirms"])
        /\ waits' = Tail(waits)
    BY <1>6 DEF Wakes, fromFramework, observer, Apart
  <2>2. /\ settle' \in Settlements
        /\ settle'.at \in {"waits", "confirms"}
        /\ settle'.at = "waits" => Head(waits).kind \in {"status", "other"}
        /\ (settle'.tail <=> settle.tail) /\ (settle'.stale <=> settle.stale)
        /\ (settle'.observed <=> settle.observed)
        /\ settle'.n = settle.n /\ settle'.before = settle.before
    BY <2>1, <1>1 DEF Settlements, SettleStages
  <2>3. /\ waits' \in Seq(BusEvents) /\ Len(waits) \in Nat /\ Head(waits) = waits[1]
        /\ Len(waits') = Len(waits) - 1 /\ \A i \in 1 .. Len(waits') : waits'[i] = waits[i + 1]
    BY <2>1, <1>1
  <2>4. settle'.at = "waits" /\ WakesUp(waits) => WakesUp(waits')
    <3> SUFFICES ASSUME settle'.at = "waits", WakesUp(waits) PROVE WakesUp(waits')
      OBVIOUS
    <3>1. PICK i \in 1 .. Len(waits) : waits[i].kind \in {"end", "lag"}
      BY DEF WakesUp
    <3>2. i # 1
      BY <3>1, <2>2, <2>3
    <3>3. i - 1 \in 1 .. Len(waits') /\ (i - 1) + 1 = i
      BY <3>2, <2>3
    <3>4. waits'[i - 1] = waits[i]
      BY <3>3, <2>3
    <3> QED BY <3>1, <3>3, <3>4 DEF WakesUp
  <2>5. StreamsTyped' /\ TailIsWritten' /\ (Writing' <=> Writing)
    BY <2>1, <2>2, <2>3, <1>1, <1>2, SettlementTyped
  <2>6. stream' = stream /\ statuses' = statuses /\ forced' = forced /\ residue' = residue
    BY <2>1 DEF Apart
  <2>7. ReadsRight'
    <3>1. settle'.at = "waits" /\ settle'.tail /\ ~settle'.stale /\ SameStream' /\ ~stream'.deaf =>
             stream'.at \in {"streams", "committed"} \/ WakesUp(waits')
      BY <2>1, <2>2, <2>4, <2>6 DEF StreamsInv, ReadsRight, SameStream
    <3>2. settle'.at = "waits" => settle'.observed /\ settle'.tail
      BY <2>1, <2>2 DEF StreamsInv, ReadsRight
    <3> QED BY <3>1, <3>2, <2>2 DEF ReadsRight
  <2>8. InterruptEnds'
    BY <2>1, <2>2, <2>6 DEF StreamsInv, InterruptEnds, SameStream
  <2>9. SettleTruthful'
    BY <2>2 DEF SettleTruthful
  <2> QED BY <2>5, <2>7, <2>8, <2>9 DEF StreamsInv
<1>7. CASE ConfirmsSettled
  <2>1. /\ Apart /\ interrupts' = interrupts /\ open' = open /\ settle.at = "confirms"
        /\ ~tail /\ statuses > settle.before
        /\ settle' = [settle EXCEPT !.at = "settled"] /\ waits' = <<>>
    BY <1>7 DEF ConfirmsSettled, Confirmed, fromFramework, observer, Apart
  <2>2. /\ settle' \in Settlements
        /\ settle'.at = "settled" /\ settle'.n = settle.n
    BY <2>1, <1>1 DEF Settlements, SettleStages
  <2>3. StreamsTyped' /\ TailIsWritten' /\ (Writing' <=> Writing)
    BY <2>1, <2>2, <1>1, <1>2, SettlementTyped
  <2>4. stream' = stream /\ statuses' = statuses /\ forced' = forced
    BY <2>1 DEF Apart
  <2>5. ReadsRight'
    BY <2>2 DEF ReadsRight
  <2>6. forced = 0 => interrupts = 0
    <3>1. forced = 0 => \/ interrupts = 1 /\ statuses = settle.before
                        \/ interrupts = 0 /\ statuses = settle.before + 1
      BY <2>1 DEF StreamsInv, InterruptEnds
    <3> QED BY <3>1, <2>1, <1>1, <1>2
  <2>7. InterruptEnds'
    BY <2>1, <2>2, <2>4, <2>6 DEF InterruptEnds
  <2>8. SettleTruthful'
    <3>1. SameStream => stream.at \in {"none", "orphaned"}
      BY <2>1 DEF StreamsInv, InterruptEnds
    <3>2. settle'.n = stream'.n => ~Writing'
      BY <3>1, <2>2, <2>3, <2>4 DEF SameStream, Writing
    <3> QED BY <3>2, <2>1, <2>2, <2>4, <2>6 DEF SettleTruthful
  <2> QED BY <2>3, <2>5, <2>7, <2>8 DEF StreamsInv
<1>8. CASE GivesUp
  <2>1. /\ Apart /\ interrupts' = interrupts /\ interrupts = 0 /\ open' \in BOOLEAN
        /\ \/ settle.at = "waits" /\ waits = <<>>
           \/ settle.at = "confirms" /\ ~(~tail /\ statuses > settle.before)
        /\ settle' = [settle EXCEPT !.at = "failed"] /\ waits' = <<>>
    BY <1>1, <1>8 DEF GivesUp, Confirmed, Forget, fromFramework, Apart
  <2>2. /\ settle' \in Settlements
        /\ settle'.at = "failed" /\ settle'.n = settle.n
        /\ (settle'.stale <=> settle.stale) /\ (settle'.observed <=> settle.observed)
    BY <2>1, <1>1 DEF Settlements, SettleStages
  <2>3. StreamsTyped' /\ TailIsWritten' /\ (Writing' <=> Writing)
    BY <2>1, <2>2, <1>1, <1>2, SettlementTyped
  <2>4. stream' = stream /\ statuses' = statuses /\ forced' = forced
    BY <2>1 DEF Apart
  <2>5. ReadsRight'
    BY <2>2 DEF ReadsRight
  <2>6. InterruptEnds'
    BY <2>1, <2>2 DEF InterruptEnds
  <2>7. SettleTruthful'
    <3>1. /\ statuses > settle.before /\ ~residue
          /\ SameStream => stream.at \in {"none", "orphaned"}
      BY <2>1 DEF StreamsInv, InterruptEnds
    <3>2. ASSUME settle.at = "waits", waits = <<>>
          PROVE  stream.deaf \/ ~SameStream \/ (settle.observed /\ settle.stale)
      <4>1. ~WakesUp(waits)
        BY <3>2 DEF WakesUp
      <4>2. settle.observed /\ settle.tail
        BY <3>2 DEF StreamsInv, ReadsRight
      <4> QED BY <3>1, <3>2, <4>1, <4>2 DEF StreamsInv, ReadsRight
    <3>3. ASSUME settle.at = "confirms", ~(~tail /\ statuses > settle.before) PROVE ~SameStream
      BY <3>1, <3>3, <1>2
    <3>4. stream.deaf \/ ~SameStream \/ (settle.observed /\ settle.stale)
      BY <2>1, <3>2, <3>3
    <3> QED BY <3>4, <2>2, <2>4 DEF SettleTruthful, SameStream
  <2> QED BY <2>3, <2>5, <2>6, <2>7 DEF StreamsInv
<1>9. CASE LeavesStanding
  <2>1. /\ Apart /\ interrupts' = interrupts /\ open' = open /\ settle.at = "settled"
        /\ settle' = NoSettle /\ waits' = waits
    BY <1>9 DEF LeavesStanding, fromFramework, observer, Apart
  <2>2. /\ settle' \in Settlements
        /\ settle'.at = "idle" /\ settle'.n = 0 /\ 0 <= stream.n
    BY <2>1, <1>1 DEF Settlements, SettleStages, NoSettle
  <2>3. StreamsTyped' /\ TailIsWritten' /\ (Writing' <=> Writing)
    BY <2>1, <2>2, <1>1, SettlementTyped
  <2>5. ReadsRight' /\ SettleTruthful'
    BY <2>2 DEF ReadsRight, SettleTruthful
  <2>6. InterruptEnds'
    BY <2>1, <2>2 DEF StreamsInv, InterruptEnds, Apart
  <2> QED BY <2>3, <2>5, <2>6 DEF StreamsInv
<1> QED BY <1>3, <1>4, <1>5, <1>6, <1>7, <1>8, <1>9

LEMMA DeletesSettledKeeps ==
  ASSUME StreamsInv, DeletesSettled
  PROVE  StreamsInv'
<1>1. /\ stream \in [at : StreamStages, n : Nat, deaf : BOOLEAN] /\ waits \in Seq(BusEvents)
      /\ {interrupts, forced, holder} \subseteq Nat
  BY DEF StreamsInv, StreamsTyped
<1>2. /\ settle.at = "settled" /\ open' = FALSE /\ tail' = FALSE /\ residue' = FALSE
      /\ statuses' = 0 /\ holder' = holder + 1 /\ settle' = NoSettle
      /\ interrupts' = interrupts /\ waits' = waits /\ forced' = forced
      /\ (Goes("orphaned") /\ Live) \/ stream' = stream
  BY DEF DeletesSettled, Forget
<1>3. /\ stream' \in [at : StreamStages, n : Nat, deaf : BOOLEAN]
      /\ stream'.n = stream.n /\ (stream'.at # "none" => stream.at # "none")
  BY <1>1, <1>2, GoesIs DEF StreamsInv, Live, StreamStages
<1>4. /\ settle' \in Settlements
      /\ settle'.at = "idle" /\ settle'.n = 0
  BY <1>2 DEF Settlements, SettleStages, NoSettle
<1>5. StreamsTyped'
  <2>1. {statuses', interrupts', forced', holder'} \subseteq Nat
    BY <1>1, <1>2
  <2>2. tail' \in BOOLEAN /\ residue' \in BOOLEAN /\ open' \in BOOLEAN /\ waits' \in Seq(BusEvents)
    BY <1>1, <1>2
  <2> QED BY <1>3, <1>4, <2>1, <2>2 DEF StreamsTyped
<1>6. 0 <= stream'.n
  BY <1>3
<1>7. TailIsWritten'
  BY <1>2, <1>3, <1>4, <1>6 DEF StreamsInv, TailIsWritten
<1>8. ReadsRight' /\ SettleTruthful'
  BY <1>4 DEF ReadsRight, SettleTruthful
<1>9. InterruptEnds'
  BY <1>2, <1>4 DEF StreamsInv, InterruptEnds
<1> QED BY <1>5, <1>7, <1>8, <1>9 DEF StreamsInv

\* What does not touch the stream or its settlement.
LEMMA ObserverKeeps ==
  ASSUME StreamsInv, open' \in BOOLEAN,
         UNCHANGED <<stream, tail, statuses, interrupts, settle, waits, holder, residue, forced>>
  PROVE  StreamsInv'
<1>1. /\ stream' = stream /\ tail' = tail /\ statuses' = statuses /\ interrupts' = interrupts
      /\ settle' = settle /\ waits' = waits /\ holder' = holder /\ residue' = residue
      /\ forced' = forced
  OBVIOUS
<1>2. StreamsTyped'
  BY <1>1 DEF StreamsInv, StreamsTyped
<1>3. TailIsWritten'
  BY <1>1 DEF StreamsInv, TailIsWritten
<1>4. ReadsRight'
  BY <1>1 DEF StreamsInv, ReadsRight, SameStream, Writing
<1>5. InterruptEnds'
  BY <1>1 DEF StreamsInv, InterruptEnds, SameStream
<1>6. SettleTruthful'
  BY <1>1 DEF StreamsInv, SettleTruthful, Writing
<1> QED BY <1>2, <1>3, <1>4, <1>5, <1>6 DEF StreamsInv

LEMMA StreamsStep == StreamsInv /\ [StreamsNext]_streamVars => StreamsInv'
<1> SUFFICES ASSUME StreamsInv, [StreamsNext]_streamVars PROVE StreamsInv'
  OBVIOUS
<1>1. CASE UNCHANGED streamVars
  <2>1. /\ open' = open /\ open \in BOOLEAN
        /\ UNCHANGED <<stream, tail, statuses, interrupts, settle, waits, holder, residue, forced>>
    BY <1>1 DEF streamVars, fromFramework, observer, settling, StreamsInv, StreamsTyped
  <2> QED BY <2>1, ObserverKeeps
<1>2. CASE Observes
  <2>1. UNCHANGED <<stream, tail, statuses, interrupts, settle, waits, holder, residue, forced>>
    BY <1>2 DEF Observes, fromFramework, settling
  <2>2. open' \in BOOLEAN
    BY <1>2 DEF Observes, Resync, StreamsInv, StreamsTyped
  <2> QED BY <2>1, <2>2, ObserverKeeps
<1> QED BY <1>1, <1>2, DispatchesKeeps, FrameworkKeeps, SettlementKeeps, DeletesSettledKeeps
        DEF StreamsNext

(* A settlement that was reached tells that its stream writes no more and     *)
(* that no interrupt of it is still to be recorded, and one that was given up *)
(* that the provider was deaf, that another stream has begun, or that the     *)
(* stream was marked and the tail it read a dead process's (streams.rs): for  *)
(* any depth of the bus, any streams, settlements and deletions.              *)
THEOREM SettlementsTellTheTruth == StreamsSpec => []SettleTruthful
<1>1. StreamsInit => StreamsInv
  <2> SUFFICES ASSUME StreamsInit PROVE StreamsInv
    OBVIOUS
  <2>1. /\ stream = [at |-> "none", n |-> 0, deaf |-> FALSE] /\ tail \in BOOLEAN /\ residue = tail
        /\ statuses = 0 /\ interrupts = 0 /\ open = FALSE /\ settle = NoSettle
        /\ waits = <<>> /\ holder = 1 /\ forced = 0
    BY DEF StreamsInit
  <2>2. /\ stream \in [at : StreamStages, n : Nat, deaf : BOOLEAN]
        /\ stream.at = "none" /\ stream.n = 0
    BY <2>1 DEF StreamStages
  <2>3. /\ settle \in Settlements
        /\ settle.at = "idle" /\ settle.n = 0
    BY <2>1 DEF Settlements, SettleStages, NoSettle
  <2>4. StreamsTyped
    <3>1. {statuses, interrupts, forced, holder} \subseteq Nat
      BY <2>1
    <3>2. tail \in BOOLEAN /\ residue \in BOOLEAN /\ open \in BOOLEAN
      BY <2>1
    <3>3. waits \in Seq(BusEvents)
      <4>1. waits = <<>>
        BY <2>1
      <4> QED BY <4>1
    <3> QED BY <2>2, <2>3, <3>1, <3>2, <3>3 DEF StreamsTyped
  <2>5. TailIsWritten
    BY <2>1, <2>2, <2>3 DEF TailIsWritten
  <2>6. ReadsRight /\ SettleTruthful
    BY <2>3 DEF ReadsRight, SettleTruthful
  <2>7. InterruptEnds
    BY <2>1, <2>3 DEF InterruptEnds
  <2> QED BY <2>4, <2>5, <2>6, <2>7 DEF StreamsInv
<1>2. StreamsInv => SettleTruthful
  BY DEF StreamsInv
<1> QED BY <1>1, <1>2, StreamsStep, PTL DEF StreamsSpec

-----------------------------------------------------------------------------
\* Retraction: how an answer is taken back.

ThreadRows == {"answer", "receipt", "quote", "fact"} \X Answers \X Nat

Commands == [at : {"idle", "strip", "swap", "directive", "over"}, of : Answers \cup {0},
             thread : Nat, origins : SUBSET (Answers \X (1 .. Chunks)),
             gone : SUBSET ThreadRows, built : Seq(SUBSET ThreadRows)]

RetractionTyped ==
    /\ threads \in 1 .. MaxThreads
    /\ lineage \in Seq(1 .. threads) /\ lineage # <<>>
    /\ \A i, j \in 1 .. Len(lineage) : i < j => lineage[i] < lineage[j]
    /\ standing \subseteq 1 .. threads
    /\ held \in [1 .. MaxThreads -> SUBSET ThreadRows]
    /\ home \in [Answers -> Nat]
    /\ receipted \in [Answers -> Int]
    /\ reply \in [Replying -> Commands]

(* A command under way: what it is about was filed, and what of it has no     *)
(* receipt is known to be left.                                               *)
Under(d) == reply[d].at \in {"strip", "swap", "directive"}

CommandsRight ==
    /\ \A d, e \in Replying : Under(d) /\ Under(e) => d = e
    /\ \A d \in Replying : Under(d) =>
          /\ reply[d].of \in Answers /\ home[reply[d].of] # 0
          /\ reply[d].at \in {"strip", "swap"} => reply[d].thread \in 1 .. threads
          /\ \A o \in reply[d].origins : o[1] = reply[d].of
          /\ \A i \in 1 .. Chunks :
                <<reply[d].of, i>> \in reply[d].origins \cup unreceipted

OneFact == \A f, g \in LineageRows : f[1] = "fact" /\ g[1] = "fact" /\ f[2] = g[2] => f = g

RowsFiled == \A row \in LineageRows : home[row[2]] # 0

ShowsOf(k, rows) == {row \in rows : row[2] = k /\ row[1] \in {"answer", "quote"}}
FactsIn(rows) == {row \in rows : row[1] = "fact"}

(* As long as nothing else replaced a thread, the swap puts in its place the  *)
(* same facts without the answer's words.                                     *)
SwapRight(d) ==
    reply[d].at = "swap" /\ reply[d].thread = Serving =>
        /\ reply[d].built = <<>> \/ Len(reply[d].built) = Len(lineage) - 1
        /\ \A i \in 1 .. Len(reply[d].built) :
              /\ reply[d].built[i] \subseteq held[lineage[i]]
              /\ FactsIn(held[lineage[i]]) \subseteq reply[d].built[i]
              /\ ShowsOf(reply[d].of, reply[d].built[i]) = {}
        /\ FactsIn(reply[d].gone) = {}
        /\ ShowsOf(reply[d].of, held[Serving]) \subseteq reply[d].gone
        /\ reply[d].built = <<>> =>
              \A i \in 1 .. Len(lineage) - 1 : ShowsOf(reply[d].of, held[lineage[i]]) = {}

(* No thread of the lineage holds the answer, unless its strip stood down or  *)
(* failed; and what is not in the store either is not quoted again.           *)
Gone(k) ==
    /\ k \in excused \/ <<"answer", k, 0>> \notin LineageRows
    /\ k \in excused \cup lingering \/ (k \notin inStore /\ Shows(k) = {})

(* An answer that was asked back is gone, or its strip is yet to come.        *)
ShownRight(k) ==
    Facts(k) # {} => \/ Gone(k)
                     \/ \E d \in Replying : reply[d].of = k /\ reply[d].at \in {"strip", "swap"}

ChatRight(k) ==
    Facts(k) # {} => \/ \E d \in Replying : reply[d].of = k /\ Under(d)
                     \/ \A i \in 1 .. Chunks :
                           <<k, i>> \in onChat => <<k, i>> \in refused \cup unreceipted

RetractionInv ==
    /\ RetractionTyped /\ CommandsRight /\ OneFact /\ RowsFiled
    /\ \A d \in Replying : SwapRight(d)
    /\ \A k \in Answers : ShownRight(k) /\ ChatRight(k)

-----------------------------------------------------------------------------
(* The lineage and its rows.                                                  *)

LEMMA LineIs ==
  ASSUME NEW n \in Nat, NEW line \in Seq(1 .. n), line # <<>>
  PROVE  /\ Len(line) \in Nat /\ Len(line) >= 1 /\ Last(line) = line[Len(line)]
         /\ ToSet(line) = {line[i] : i \in 1 .. Len(line)}
         /\ ToSet(line) \subseteq 1 .. n /\ Last(line) \in ToSet(line)
<1>1. Len(line) \in Nat /\ Len(line) >= 1 /\ DOMAIN line = 1 .. Len(line)
  OBVIOUS
<1>2. Last(line) = line[Len(line)]
  BY DEF Last
<1>3. ToSet(line) = {line[i] : i \in 1 .. Len(line)}
  BY <1>1 DEF ToSet
<1>4. \A i \in 1 .. Len(line) : line[i] \in 1 .. n
  OBVIOUS
<1> QED BY <1>1, <1>2, <1>3, <1>4

LEMMA LineageFacts ==
  ASSUME RetractionTyped
  PROVE  /\ threads \in Nat /\ threads >= 1 /\ MaxThreads \in Nat /\ threads <= MaxThreads
         /\ Len(lineage) \in Nat /\ Len(lineage) >= 1 /\ Serving = lineage[Len(lineage)]
         /\ \A i \in 1 .. Len(lineage) : lineage[i] \in 1 .. MaxThreads /\ lineage[i] \in ToSet(lineage)
                                         /\ lineage[i] <= Serving /\ lineage[i] \in Nat
                                         /\ lineage[i] <= threads
         /\ \A t \in ToSet(lineage) : \E i \in 1 .. Len(lineage) : t = lineage[i]
         /\ Serving \in 1 .. MaxThreads /\ Serving \in ToSet(lineage) /\ Serving \in 1 .. threads
         /\ \A t \in 1 .. MaxThreads : held[t] \subseteq ThreadRows
         /\ \A row : row \in LineageRows <=> \E i \in 1 .. Len(lineage) : row \in held[lineage[i]]
         /\ LineageRows \subseteq ThreadRows
<1>1. threads \in 1 .. MaxThreads /\ MaxThreads \in Nat /\ lineage \in Seq(1 .. threads) /\ lineage # <<>>
  BY RetractionAssumption DEF RetractionTyped
<1>2. /\ Len(lineage) \in Nat /\ Len(lineage) >= 1 /\ Serving = lineage[Len(lineage)]
      /\ ToSet(lineage) = {lineage[i] : i \in 1 .. Len(lineage)}
      /\ ToSet(lineage) \subseteq 1 .. threads /\ Serving \in ToSet(lineage)
  BY <1>1, LineIs DEF Serving
<1>3. \A i \in 1 .. Len(lineage) : lineage[i] \in 1 .. threads /\ lineage[i] \in ToSet(lineage)
  BY <1>2
<1>4. \A i \in 1 .. Len(lineage) : lineage[i] <= Serving
  <2> TAKE i \in 1 .. Len(lineage)
  <2>1. i < Len(lineage) => lineage[i] < lineage[Len(lineage)]
    BY <1>2 DEF RetractionTyped
  <2>2. lineage[i] \in Nat /\ lineage[Len(lineage)] \in Nat
    BY <1>2, <1>3
  <2>3. i < Len(lineage) \/ i = Len(lineage)
    BY <1>2
  <2> QED BY <2>1, <2>2, <2>3, <1>2
<1>5. \A t \in 1 .. MaxThreads : held[t] \subseteq ThreadRows
  BY DEF RetractionTyped
<1>6. \A row : row \in LineageRows <=> \E i \in 1 .. Len(lineage) : row \in held[lineage[i]]
  BY <1>2 DEF LineageRows
<1>7. \A t \in 1 .. threads : t \in 1 .. MaxThreads
  BY <1>1
<1>8. LineageRows \subseteq ThreadRows
  BY <1>3, <1>5, <1>6, <1>7
<1>9. \A i \in 1 .. Len(lineage) : /\ lineage[i] \in 1 .. MaxThreads /\ lineage[i] \in ToSet(lineage)
                                   /\ lineage[i] <= Serving /\ lineage[i] \in Nat /\ lineage[i] <= threads
  <2> TAKE i \in 1 .. Len(lineage)
  <2>1. lineage[i] \in 1 .. threads /\ lineage[i] \in ToSet(lineage) /\ lineage[i] <= Serving
    BY <1>3, <1>4
  <2> QED BY <2>1, <1>1, <1>7
<1>10. \A t \in ToSet(lineage) : \E i \in 1 .. Len(lineage) : t = lineage[i]
  BY <1>2
<1>11. Serving \in 1 .. MaxThreads /\ Serving \in ToSet(lineage) /\ Serving \in 1 .. threads
  BY <1>2, <1>7
<1>12. threads \in Nat /\ threads >= 1 /\ MaxThreads \in Nat /\ threads <= MaxThreads
  BY <1>1
<1>13. Len(lineage) \in Nat /\ Len(lineage) >= 1 /\ Serving = lineage[Len(lineage)]
  BY <1>2
<1> QED BY Zenon, <1>5, <1>6, <1>8, <1>9, <1>10, <1>11, <1>12, <1>13

LEMMA RetractionStarts == RetractionInit => RetractionInv
<1> SUFFICES ASSUME RetractionInit PROVE RetractionInv
  OBVIOUS
<1>1. /\ lineage = <<1>> /\ threads = 1 /\ standing = {}
      /\ held = [t \in 1 .. MaxThreads |-> {}]
      /\ home = [k \in Answers |-> 0] /\ receipted = [k \in Answers |-> 0]
      /\ reply = [d \in Replying |-> Unanswered]
  BY DEF RetractionInit
<1>2. RetractionTyped
  <2>1. Unanswered \in Commands
    <3>1. <<>> \in Seq(SUBSET ThreadRows)
      OBVIOUS
    <3> QED BY <3>1 DEF Unanswered, Commands
  <2>2. reply \in [Replying -> Commands]
    BY <1>1, <2>1
  <2>3. threads \in 1 .. MaxThreads /\ lineage \in Seq(1 .. threads) /\ lineage # <<>> /\ Len(lineage) = 1
    BY <1>1, RetractionAssumption
  <2>4. \A i, j \in 1 .. Len(lineage) : i < j => lineage[i] < lineage[j]
    BY <2>3
  <2> QED BY <1>1, <2>2, <2>3, <2>4 DEF RetractionTyped
<1>3. LineageRows = {}
  BY <1>1, <1>2, LineageFacts
<1>4. \A d \in Replying : reply[d].at = "idle"
  BY <1>1 DEF Unanswered
<1>5. CommandsRight /\ \A d \in Replying : SwapRight(d)
  BY <1>4 DEF CommandsRight, SwapRight, Under
<1>6. OneFact /\ RowsFiled /\ \A k \in Answers : Facts(k) = {}
  BY <1>3 DEF OneFact, RowsFiled, Facts
<1>7. \A k \in Answers : ShownRight(k) /\ ChatRight(k)
  BY <1>6 DEF ShownRight, ChatRight
<1> QED BY <1>2, <1>5, <1>6, <1>7 DEF RetractionInv

(* An answer that is gone stays so where no row and no word of it comes back.  *)
LEMMA GoneStays ==
  ASSUME NEW k, Gone(k), k \in excused => k \in excused', k \in lingering => k \in lingering',
         <<"answer", k, 0>> \in LineageRows' => <<"answer", k, 0>> \in LineageRows,
         k \in inStore' => k \in inStore,
         k \notin inStore /\ Shows(k) = {} => Shows(k)' = {}
  PROVE  Gone(k)'
BY DEF Gone

LEMMA GoneBehind ==
  ASSUME NEW k, Gone(k), k \in excused => k \in excused', k \in lingering => k \in lingering',
         LineageRows' \subseteq LineageRows, k \in inStore' => k \in inStore
  PROVE  Gone(k)'
<1>1. Shows(k) = {} => Shows(k)' = {}
  BY DEF Shows
<1> QED BY <1>1, GoneStays

(* A step that writes rows into one thread.                                   *)
LEMMA Grown ==
  ASSUME RetractionTyped, NEW t \in 1 .. MaxThreads, NEW R \in SUBSET ThreadRows,
         lineage' = lineage, held' = [held EXCEPT ![t] = @ \cup R]
  PROVE  /\ held' \in [1 .. MaxThreads -> SUBSET ThreadRows]
         /\ LineageRows \subseteq LineageRows' /\ LineageRows' \subseteq LineageRows \cup R
         /\ t \in ToSet(lineage) => LineageRows' = LineageRows \cup R
         /\ held'[t] = held[t] \cup R
         /\ \A u \in 1 .. MaxThreads : u # t => held'[u] = held[u]
<1>2. /\ held' \in [1 .. MaxThreads -> SUBSET ThreadRows]
      /\ held'[t] = held[t] \cup R
      /\ \A u \in 1 .. MaxThreads : u # t => held'[u] = held[u]
  BY DEF RetractionTyped
<1>3. ToSet(lineage) \subseteq 1 .. MaxThreads
  BY LineageFacts
<1>4. LineageRows' = UNION {held'[u] : u \in ToSet(lineage)}
  BY DEF LineageRows
<1>5. LineageRows = UNION {held[u] : u \in ToSet(lineage)}
  BY DEF LineageRows
<1>6. \A row : /\ row \in LineageRows => row \in LineageRows'
               /\ row \in LineageRows' => row \in LineageRows \cup R
               /\ t \in ToSet(lineage) => (row \in LineageRows' <=> row \in LineageRows \cup R)
  <2> TAKE row
  <2>1. row \in LineageRows' <=> \E u \in ToSet(lineage) : row \in held'[u]
    BY <1>4
  <2>2. row \in LineageRows <=> \E u \in ToSet(lineage) : row \in held[u]
    BY <1>5
  <2>3. \A u \in ToSet(lineage) : row \in held'[u] <=> row \in held[u] \/ (u = t /\ row \in R)
    BY <1>2, <1>3
  <2> QED BY <2>1, <2>2, <2>3
<1> QED BY <1>2, <1>6

(* What is filed, and what is recorded of it.                                 *)
LEMMA GrownKeeps ==
  ASSUME RetractionInv, NEW t \in 1 .. MaxThreads, NEW R \in SUBSET ThreadRows,
         lineage' = lineage, threads' = threads, standing' = standing, held' = [held EXCEPT ![t] = @ \cup R],
         reply' = reply, home' \in [Answers -> Nat],
         \A k \in Answers : home[k] # 0 => home'[k] # 0,
         \A row \in R : home'[row[2]] # 0 /\ row[1] # "fact"
                        /\ (row[1] \in {"answer", "quote"} => home[row[2]] = 0),
         receipted' \in [Answers -> Int],
         \A o \in onChat' : o \in onChat \/ home[o[1]] = 0,
         \A k \in inStore' : k \in inStore \/ home[k] = 0,
         excused' = excused, lingering' = lingering, unreceipted' = unreceipted, refused' = refused
  PROVE  RetractionInv'
<1>0. RetractionTyped /\ CommandsRight /\ OneFact /\ RowsFiled
  BY DEF RetractionInv
<1>1. /\ held' \in [1 .. MaxThreads -> SUBSET ThreadRows]
      /\ LineageRows \subseteq LineageRows' /\ LineageRows' \subseteq LineageRows \cup R
      /\ held'[t] = held[t] \cup R
      /\ \A u \in 1 .. MaxThreads : u # t => held'[u] = held[u]
  BY <1>0, Grown
<1>2. RetractionTyped'
  BY <1>0, <1>1 DEF RetractionTyped
<1>3. \A d \in Replying : Under(d)' <=> Under(d)
  BY DEF Under
<1>4. CommandsRight'
  <2>1. ASSUME NEW d \in Replying, Under(d)
        PROVE  /\ reply[d].of \in Answers /\ home'[reply[d].of] # 0
               /\ reply[d].at \in {"strip", "swap"} => reply[d].thread \in 1 .. threads
               /\ \A o \in reply[d].origins : o[1] = reply[d].of
               /\ \A i \in 1 .. Chunks : <<reply[d].of, i>> \in reply[d].origins \cup unreceipted
    BY <2>1, <1>0 DEF CommandsRight
  <2>2. \A d, e \in Replying : Under(d) /\ Under(e) => d = e
    BY <1>0 DEF CommandsRight
  <2> QED BY <2>1, <2>2, <1>3 DEF CommandsRight
<1>5. OneFact'
  BY <1>0, <1>1 DEF OneFact
<1>6. RowsFiled'
  <2>1. \A row \in LineageRows : row[2] \in Answers /\ home[row[2]] # 0
    BY <1>0, LineageFacts DEF RowsFiled, ThreadRows
  <2> QED BY <1>1, <2>1 DEF RowsFiled
<1>7. ASSUME NEW d \in Replying PROVE SwapRight(d)'
  <2>1. SUFFICES ASSUME reply[d].at = "swap", reply[d].thread = Serving
                 PROVE  /\ reply[d].built = <<>> \/ Len(reply[d].built) = Len(lineage) - 1
                        /\ \A i \in 1 .. Len(reply[d].built) :
                              /\ reply[d].built[i] \subseteq held'[lineage[i]]
                              /\ FactsIn(held'[lineage[i]]) \subseteq reply[d].built[i]
                              /\ ShowsOf(reply[d].of, reply[d].built[i]) = {}
                        /\ FactsIn(reply[d].gone) = {}
                        /\ ShowsOf(reply[d].of, held'[Serving]) \subseteq reply[d].gone
                        /\ reply[d].built = <<>> =>
                              \A i \in 1 .. Len(lineage) - 1 : ShowsOf(reply[d].of, held'[lineage[i]]) = {}
    BY DEF SwapRight, Serving
  <2>2. /\ reply[d].built = <<>> \/ Len(reply[d].built) = Len(lineage) - 1
        /\ \A i \in 1 .. Len(reply[d].built) :
              /\ reply[d].built[i] \subseteq held[lineage[i]]
              /\ FactsIn(held[lineage[i]]) \subseteq reply[d].built[i]
              /\ ShowsOf(reply[d].of, reply[d].built[i]) = {}
        /\ FactsIn(reply[d].gone) = {}
        /\ ShowsOf(reply[d].of, held[Serving]) \subseteq reply[d].gone
        /\ reply[d].built = <<>> =>
              \A i \in 1 .. Len(lineage) - 1 : ShowsOf(reply[d].of, held[lineage[i]]) = {}
    BY <2>1 DEF RetractionInv, SwapRight
  <2>3. reply[d].of \in Answers /\ home[reply[d].of] # 0
    BY <2>1, <1>0 DEF CommandsRight, Under
  <2>4. ASSUME NEW u \in 1 .. MaxThreads
        PROVE  /\ held[u] \subseteq held'[u] /\ FactsIn(held'[u]) = FactsIn(held[u])
               /\ ShowsOf(reply[d].of, held'[u]) = ShowsOf(reply[d].of, held[u])
    <3>1. held'[u] = held[u] \/ held'[u] = held[u] \cup R
      BY <1>1
    <3>2. FactsIn(held[u] \cup R) = FactsIn(held[u])
      BY DEF FactsIn
    <3>3. ShowsOf(reply[d].of, held[u] \cup R) = ShowsOf(reply[d].of, held[u])
      BY <2>3 DEF ShowsOf
    <3> QED BY <3>1, <3>2, <3>3
  <2>5. /\ \A i \in 1 .. Len(reply[d].built) : lineage[i] \in 1 .. MaxThreads
        /\ \A i \in 1 .. Len(lineage) - 1 : lineage[i] \in 1 .. MaxThreads
        /\ Serving \in 1 .. MaxThreads
    <3>1. Len(reply[d].built) = 0 \/ Len(reply[d].built) = Len(lineage) - 1
      BY <2>2
    <3> QED BY SMTT(30), <3>1, <1>0, LineageFacts
  <2> QED BY <2>2, <2>4, <2>5
<1>8. ASSUME NEW k \in Answers PROVE ShownRight(k)' /\ ChatRight(k)'
  <2>0. ShownRight(k) /\ ChatRight(k)
    BY DEF RetractionInv
  <2>1. Facts(k)' = Facts(k)
    BY <1>1 DEF Facts
  <2>2. Facts(k) # {} => home[k] # 0
    BY <1>0 DEF RowsFiled, Facts
  <2>3. Facts(k) # {} =>
           (Shows(k) = {} => Shows(k)' = {}) /\ (k \in inStore' => k \in inStore)
           /\ (<<"answer", k, 0>> \in LineageRows' => <<"answer", k, 0>> \in LineageRows)
    <3>1. \A row \in LineageRows' :
             home[k] # 0 /\ row[2] = k /\ row[1] \in {"answer", "quote"} => row \in LineageRows
      BY <1>1
    <3>2. <<"answer", k, 0>>[2] = k /\ <<"answer", k, 0>>[1] = "answer"
      OBVIOUS
    <3> QED BY <2>2, <3>1, <3>2 DEF Shows
  <2>6. Facts(k) # {} => (Gone(k) => Gone(k)')
    BY <2>3, GoneStays
  <2>4. ShownRight(k)'
    BY <2>0, <2>1, <2>6 DEF ShownRight
  <2>5. ChatRight(k)'
    <3>1. Facts(k) # {} => \A i \in 1 .. Chunks : <<k, i>> \in onChat' => <<k, i>> \in onChat
      BY <2>2
    <3> QED BY <2>0, <2>1, <3>1, <1>3 DEF ChatRight
  <2> QED BY <2>4, <2>5
<1> QED BY <1>2, <1>4, <1>5, <1>6, <1>7, <1>8 DEF RetractionInv

LEMMA FilesAnswerKeeps ==
  ASSUME RetractionInv, NEW k \in Answers, FilesAnswer(k)
  PROVE  RetractionInv'
<1>0. RetractionTyped
  BY DEF RetractionInv
<1>1. /\ home[k] = 0 /\ home' = [home EXCEPT ![k] = Serving]
      /\ held' = [held EXCEPT ![Serving] = @ \cup {<<"answer", k, 0>>}]
      /\ onChat' = onChat \cup {<<k, i>> : i \in 1 .. Chunks}
      /\ lineage' = lineage /\ threads' = threads /\ receipted' = receipted /\ reply' = reply
      /\ standing' = standing /\ lingering' = lingering /\ inStore' = inStore \cup {k}
      /\ excused' = excused /\ unreceipted' = unreceipted /\ refused' = refused
  BY DEF FilesAnswer, Holding, outcomes
<1>2. Serving \in 1 .. MaxThreads /\ Serving \in Nat /\ Serving # 0
  BY <1>0, LineageFacts
<1>3. {<<"answer", k, 0>>} \in SUBSET ThreadRows
  BY DEF ThreadRows
<1>4. /\ home' \in [Answers -> Nat] /\ home'[k] # 0
      /\ \A a \in Answers : home[a] # 0 => home'[a] # 0
  BY <1>0, <1>1, <1>2 DEF RetractionTyped
<1>5. \A row \in {<<"answer", k, 0>>} :
         home'[row[2]] # 0 /\ row[1] # "fact" /\ (row[1] \in {"answer", "quote"} => home[row[2]] = 0)
  BY <1>1, <1>4
<1>6. /\ \A o \in onChat' : o \in onChat \/ home[o[1]] = 0
      /\ \A a \in inStore' : a \in inStore \/ home[a] = 0
  BY <1>1
<1>7. receipted' \in [Answers -> Int]
  BY <1>0, <1>1 DEF RetractionTyped
<1> QED BY <1>1, <1>2, <1>3, <1>4, <1>5, <1>6, <1>7, GrownKeeps

LEMMA RecordsReceiptKeeps ==
  ASSUME RetractionInv, NEW k \in Answers, RecordsReceipt(k)
  PROVE  RetractionInv'
<1>0. RetractionTyped
  BY DEF RetractionInv
<1>1. /\ home[k] # 0 /\ receipted[k] \in 0 .. Chunks - 1
      /\ lineage' = lineage /\ threads' = threads /\ home' = home /\ onChat' = onChat /\ reply' = reply
      /\ standing' = standing /\ lingering' = lingering /\ inStore' = inStore
      /\ excused' = excused /\ unreceipted' = unreceipted /\ refused' = refused
  BY DEF RecordsReceipt, keeping, outcomes
<1>2. home' \in [Answers -> Nat] /\ \A a \in Answers : home[a] # 0 => home'[a] # 0
  BY <1>0, <1>1 DEF RetractionTyped
<1>3. CASE home[k] \in ToSet(lineage) \cup standing
  <2>1. /\ receipted' = [receipted EXCEPT ![k] = @ + 1]
        /\ held' = [held EXCEPT ![home[k]] = @ \cup {<<"receipt", k, receipted[k] + 1>>}]
    BY <1>3 DEF RecordsReceipt, Holding
  <2>2. receipted' \in [Answers -> Int] /\ receipted[k] + 1 \in Nat
    BY <1>0, <1>1, <2>1, RetractionAssumption DEF RetractionTyped
  <2>3. {<<"receipt", k, receipted[k] + 1>>} \in SUBSET ThreadRows
    BY <2>2 DEF ThreadRows
  <2>4. \A row \in {<<"receipt", k, receipted[k] + 1>>} :
           home'[row[2]] # 0 /\ row[1] # "fact" /\ (row[1] \in {"answer", "quote"} => home[row[2]] = 0)
    BY <1>1
  <2>5. home[k] \in 1 .. MaxThreads
    <3>1. CASE home[k] \in ToSet(lineage)
      BY <1>0, <3>1, LineageFacts
    <3>2. CASE home[k] \in standing
      <4>1. home[k] \in 1 .. threads
        BY <1>0, <3>2 DEF RetractionTyped
      <4> QED BY <4>1, <1>0, LineageFacts
    <3> QED BY <1>3, <3>1, <3>2
  <2> QED BY <1>1, <1>2, <2>1, <2>2, <2>3, <2>4, <2>5, GrownKeeps
<1>4. CASE home[k] \notin ToSet(lineage) \cup standing
  <2>1. receipted' = [receipted EXCEPT ![k] = -1] /\ held' = held
    BY <1>4 DEF RecordsReceipt
  <2>2. receipted' \in [Answers -> Int]
    BY <1>0, <2>1 DEF RetractionTyped
  <2>3. Serving \in 1 .. MaxThreads /\ {} \in SUBSET ThreadRows
    BY <1>0, LineageFacts
  <2>4. held' = [held EXCEPT ![Serving] = @ \cup {}]
    BY <1>0, <2>1 DEF RetractionTyped
  <2> QED BY <1>1, <1>2, <2>2, <2>3, <2>4, GrownKeeps
<1> QED BY <1>3, <1>4

-----------------------------------------------------------------------------
(* An ingestion.                                                              *)

LEMMA ReadyAlone ==
  ASSUME Intakes <= 1, NEW d \in Replying, Ready(d)
  PROVE  \A e \in Replying : ~Under(e)
<1> DEFINE busy == {e \in Replying : reply[e].at \in {"strip", "swap", "directive"}}
<1>1. Cardinality(busy) < Intakes /\ IsFiniteSet(busy)
  <2>1. IsFiniteSet(Replying)
    BY RetractionAssumption, FS_Interval DEF Replying
  <2>2. busy \subseteq Replying
    OBVIOUS
  <2>3. IsFiniteSet(busy)
    BY <2>1, <2>2, FS_Subset
  <2> QED BY <2>3 DEF Ready
<1>2. Cardinality(busy) \in Nat
  <2> HIDE DEF busy
  <2> QED BY <1>1, FS_CardinalityType
<1>3. Cardinality(busy) = 0
  <2> HIDE DEF busy
  <2> QED BY <1>1, <1>2, RetractionAssumption
<1>4. busy = {}
  <2> HIDE DEF busy
  <2> QED BY <1>1, <1>3, FS_EmptySet
<1> QED BY <1>4 DEF Under

LEMMA QuotedIs ==
  ASSUME NEW d \in Replying, NEW k \in Answers, NEW i
  PROVE  /\ Quoted(d, k, i) \in SUBSET ThreadRows
         /\ \A row \in Quoted(d, k, i) : row[1] = "quote" /\ row[2] = k
<1>1. d \in Nat
  BY RetractionAssumption DEF Replying
<1>2. <<"quote", k, d>> \in ThreadRows
  BY <1>1 DEF ThreadRows
<1>3. Quoted(d, k, i) \subseteq {<<"quote", k, d>>}
  BY DEF Quoted
<1> QED BY <1>2, <1>3

(* Only an answer that was filed has a receipt, and so a reply to it a quote. *)
LEMMA QuotedOf ==
  ASSUME RetractionInv, NEW d, NEW a, NEW i, Quoted(d, a, i) # {}
  PROVE  a \in Answers /\ a \in inStore /\ home[a] # 0
<1>1. <<"receipt", a, i>> \in held[Serving] /\ a \in inStore
  BY DEF Quoted
<1>2. <<"receipt", a, i>> \in LineageRows /\ LineageRows \subseteq ThreadRows
  <2>1. RetractionTyped
    BY DEF RetractionInv
  <2>2. Len(lineage) \in 1 .. Len(lineage) /\ Serving = lineage[Len(lineage)]
    BY <2>1, LineageFacts
  <2> QED BY <1>1, <2>1, <2>2, LineageFacts
<1>3. <<"receipt", a, i>> \in ThreadRows
  BY <1>2
<1>4. a \in Answers
  BY <1>3 DEF ThreadRows
<1>5. home[a] # 0
  BY <1>2 DEF RetractionInv, RowsFiled
<1> QED BY <1>1, <1>4, <1>5

LEMMA RepliesOnlyKeeps ==
  ASSUME Intakes <= 1, RetractionInv, NEW d \in Replying, RepliesOnly(d)
  PROVE  RetractionInv'
<1>0. RetractionTyped /\ CommandsRight /\ OneFact /\ RowsFiled
  BY DEF RetractionInv
<1>1. /\ reply' = [reply EXCEPT ![d].at = "over"]
      /\ lineage' = lineage /\ threads' = threads /\ home' = home /\ receipted' = receipted
      /\ onChat' = onChat /\ excused' = excused /\ unreceipted' = unreceipted /\ refused' = refused
      /\ standing' = standing /\ lingering' = lingering /\ inStore' = inStore
  BY DEF RepliesOnly, outward, keeping, outcomes
<1>2. \A e \in Replying : ~Under(e)
  BY ReadyAlone DEF RepliesOnly
<1>3. \A e \in Replying : ~Under(e)'
  BY <1>0, <1>1, <1>2 DEF Under, RetractionTyped
<1>4. reply' \in [Replying -> Commands]
  <2> DEFINE over == [reply[d] EXCEPT !.at = "over"]
  <2>1. over \in Commands
    BY <1>0 DEF RetractionTyped, Commands
  <2>2. reply \in [Replying -> Commands] /\ reply' = [reply EXCEPT ![d] = over]
    BY <1>0, <1>1 DEF RetractionTyped
  <2> HIDE DEF over
  <2> QED BY <2>1, <2>2
<1>5. PICK replied \in onChat : held' = [held EXCEPT ![Serving] = @ \cup Quoted(d, replied[1], replied[2])]
  BY DEF RepliesOnly
<1> DEFINE R == Quoted(d, replied[1], replied[2])
<1>7. PICK Q \in SUBSET ThreadRows : /\ held' = [held EXCEPT ![Serving] = @ \cup Q]
                                     /\ \A row \in Q : /\ row[1] = "quote" /\ row[2] \in inStore
                                                       /\ home[row[2]] # 0
  <2>1. CASE R # {}
    <3>1. replied[1] \in Answers /\ replied[1] \in inStore /\ home[replied[1]] # 0
      BY <2>1, QuotedOf
    <3>2. R \in SUBSET ThreadRows /\ \A row \in R : row[1] = "quote" /\ row[2] = replied[1]
      BY <3>1, QuotedIs
    <3> QED BY <3>1, <3>2, <1>5
  <2>2. CASE R = {}
    <3>1. held' = [held EXCEPT ![Serving] = @ \cup {}]
      BY <2>2, <1>5
    <3>2. {} \in SUBSET ThreadRows
      OBVIOUS
    <3> QED BY <3>1, <3>2
  <2> QED BY <2>1, <2>2
<1>8. /\ held' \in [1 .. MaxThreads -> SUBSET ThreadRows] /\ LineageRows' = LineageRows \cup Q
  BY <1>0, <1>1, <1>7, LineageFacts, Grown
<1>9. RetractionTyped'
  BY <1>0, <1>1, <1>4, <1>8 DEF RetractionTyped
<1>10. CommandsRight' /\ \A e \in Replying : SwapRight(e)'
  BY <1>3 DEF CommandsRight, SwapRight, Under
<1>11. OneFact' /\ RowsFiled'
  BY <1>0, <1>1, <1>7, <1>8 DEF OneFact, RowsFiled
<1>12. ASSUME NEW k \in Answers PROVE ShownRight(k)' /\ ChatRight(k)'
  <2>1. ShownRight(k) /\ ChatRight(k)
    BY DEF RetractionInv
  <2>2. Facts(k)' = Facts(k)
    BY <1>7, <1>8 DEF Facts
  <2>3. k \notin inStore /\ Shows(k) = {} => Shows(k)' = {}
    BY <1>7, <1>8 DEF Shows
  <2>7. <<"answer", k, 0>> \in LineageRows' => <<"answer", k, 0>> \in LineageRows
    BY <1>7, <1>8
  <2>4. Facts(k) # {} => Gone(k)
    BY <2>1, <1>2 DEF ShownRight, Under
  <2>5. ShownRight(k)'
    BY <2>2, <2>3, <2>4, <2>7, <1>1, GoneStays DEF ShownRight
  <2>6. ChatRight(k)'
    BY <2>1, <2>2, <1>1, <1>2 DEF ChatRight
  <2> QED BY <2>5, <2>6
<1> QED BY <1>9, <1>10, <1>11, <1>12 DEF RetractionInv

LEMMA ResolveKeeps ==
  ASSUME Intakes <= 1, RetractionInv, NEW d \in Replying, ResolveRetraction(d)
  PROVE  RetractionInv'
<1>0. RetractionTyped /\ CommandsRight /\ OneFact /\ RowsFiled
  BY DEF RetractionInv
<1>1. /\ lineage' = lineage /\ threads' = threads /\ home' = home /\ receipted' = receipted
      /\ onChat' = onChat /\ refused' = refused
      /\ standing' = standing /\ lingering' = lingering /\ inStore' = inStore
  BY DEF ResolveRetraction, outward, keeping
<1>2. \A e \in Replying : ~Under(e)
  BY ReadyAlone DEF ResolveRetraction
<1>3. CASE reply' = [reply EXCEPT ![d].at = "over"] /\ UNCHANGED <<held, excused, unreceipted>>
  <2>1. \A e \in Replying : ~Under(e)'
    BY <1>0, <1>2, <1>3 DEF Under, RetractionTyped
  <2>2. reply' \in [Replying -> Commands]
    <3> DEFINE over == [reply[d] EXCEPT !.at = "over"]
    <3>1. over \in Commands
      BY <1>0 DEF RetractionTyped, Commands
    <3>2. reply \in [Replying -> Commands] /\ reply' = [reply EXCEPT ![d] = over]
      BY <1>0, <1>3 DEF RetractionTyped
    <3> HIDE DEF over
    <3> QED BY <3>1, <3>2
  <2>3. RetractionTyped' /\ LineageRows' = LineageRows
    BY <1>0, <1>1, <1>3, <2>2 DEF RetractionTyped, LineageRows
  <2>4. CommandsRight' /\ \A e \in Replying : SwapRight(e)'
    BY <2>1 DEF CommandsRight, SwapRight, Under
  <2>5. OneFact' /\ RowsFiled'
    BY <1>0, <1>1, <2>3 DEF OneFact, RowsFiled
  <2>6. ASSUME NEW k \in Answers PROVE ShownRight(k)' /\ ChatRight(k)'
    <3>1. ShownRight(k) /\ ChatRight(k)
      BY DEF RetractionInv
    <3>2. Facts(k)' = Facts(k) /\ Shows(k)' = Shows(k)
      BY <2>3 DEF Facts, Shows
    <3>3. Facts(k) # {} => Gone(k)
      BY <3>1, <1>2 DEF ShownRight, Under
    <3>4. ShownRight(k)'
      BY <2>3, <3>2, <3>3, <1>1, <1>3, GoneBehind DEF ShownRight
    <3>5. ChatRight(k)'
      BY <3>1, <3>2, <1>1, <1>2, <1>3 DEF ChatRight
    <3> QED BY <3>4, <3>5
  <2> QED BY <2>3, <2>4, <2>5, <2>6 DEF RetractionInv
<1>4. ASSUME NEW k \in Answers, NEW i \in 1 .. Chunks, NEW origins \in SUBSET (1 .. Chunks),
             home[k] # 0,
             held' = [held EXCEPT ![Serving] = @ \cup Quoted(d, k, i)
                         \cup (IF RetractionStands(k) THEN {} ELSE {<<"fact", k, d>>})],
             reply' = [reply EXCEPT ![d] =
                         [at |-> "strip", of |-> k, thread |-> Serving,
                          origins |-> {<<k, j>> : j \in origins},
                          gone |-> {}, built |-> <<>>]],
             excused' = excused \ {k},
             unreceipted' = {o \in unreceipted : o[1] # k} \cup {<<k, j>> : j \in 1 .. Chunks \ origins}
      PROVE  RetractionInv'
  <2> DEFINE new == [at |-> "strip", of |-> k, thread |-> Serving,
                     origins |-> {<<k, j>> : j \in origins}, gone |-> {}, built |-> <<>>]
             F == IF RetractionStands(k) THEN {} ELSE {<<"fact", k, d>>}
             R == Quoted(d, k, i) \cup F
  <2>0. Serving \in Nat /\ Serving \in 1 .. threads /\ Serving \in ToSet(lineage) /\ Serving \in 1 .. MaxThreads
    BY <1>0, LineageFacts
  <2>1. new \in Commands
    <3>1. <<>> \in Seq(SUBSET ThreadRows)
      OBVIOUS
    <3>2. {<<k, j>> : j \in origins} \in SUBSET (Answers \X (1 .. Chunks))
      OBVIOUS
    <3> QED BY <3>1, <3>2, <2>0 DEF Commands
  <2>2. /\ new.at = "strip" /\ new.of = k /\ new.thread = Serving
        /\ new.origins = {<<k, j>> : j \in origins}
    OBVIOUS
  <2>3. R \in SUBSET ThreadRows /\ held' = [held EXCEPT ![Serving] = @ \cup R]
    <3>1. d \in Nat
      BY RetractionAssumption DEF Replying
    <3>2. <<"fact", k, d>> \in ThreadRows
      BY <3>1 DEF ThreadRows
    <3>3. Quoted(d, k, i) \in SUBSET ThreadRows
      BY QuotedIs
    <3>4. R \in SUBSET ThreadRows
      BY <3>2, <3>3
    <3>5. \A S : (S \cup Quoted(d, k, i)) \cup F = S \cup R
      OBVIOUS
    <3>6. held' = [held EXCEPT ![Serving] = held[Serving] \cup R]
      BY <1>4, <3>5
    <3> QED BY <3>4, <3>6
  <2>4. /\ \A row \in R : row[2] = k /\ row[1] \in {"quote", "fact"}
        /\ \A row \in R : row[1] = "fact" => row = <<"fact", k, d>> /\ ~RetractionStands(k)
    BY QuotedIs
  <2>14. \A row \in R : row[1] \in {"quote", "fact"}
    BY <2>4
  <2> HIDE DEF new, F, R
  <2>5. /\ reply' \in [Replying -> Commands] /\ reply'[d] = new
        /\ \A e \in Replying : e # d => reply'[e] = reply[e]
    BY <1>0, <1>4, <2>1 DEF RetractionTyped, new
  <2>6. held' \in [1 .. MaxThreads -> SUBSET ThreadRows] /\ LineageRows' = LineageRows \cup R
    BY <1>0, <1>1, <2>0, <2>3, Grown
  <2>7. RetractionTyped'
    BY <1>0, <1>1, <2>5, <2>6 DEF RetractionTyped
  <2>8. \A e \in Replying : Under(e)' <=> e = d
    BY <2>2, <2>5, <1>2 DEF Under
  <2>9. CommandsRight'
    <3>1. \A j \in 1 .. Chunks : <<k, j>> \in {<<k, m>> : m \in origins} \cup unreceipted'
      BY <1>4
    <3>2. \A o \in {<<k, m>> : m \in origins} : o[1] = k
      OBVIOUS
    <3>3. /\ reply'[d].of = k /\ home'[k] # 0 /\ reply'[d].thread \in 1 .. threads'
          /\ reply'[d].origins = {<<k, m>> : m \in origins}
      BY <1>1, <1>4, <2>0, <2>2, <2>5
    <3> QED BY <3>1, <3>2, <3>3, <2>8 DEF CommandsRight
  <2>10. \A e \in Replying : SwapRight(e)'
    BY <2>2, <2>5, <1>2 DEF SwapRight, Under
  <2>11. OneFact'
    <3>1. ASSUME NEW f \in LineageRows', NEW g \in LineageRows', f[1] = "fact", g[1] = "fact", f[2] = g[2]
          PROVE  f = g
      <4>1. CASE f \in LineageRows /\ g \in LineageRows
        BY <4>1, <3>1, <1>0 DEF OneFact
      <4>2. CASE f \in R \/ g \in R
        <5>1. f[2] = k /\ g[2] = k /\ Facts(k) = {}
          BY <4>2, <3>1, <2>4 DEF RetractionStands
        <5>2. f \in R /\ g \in R
          BY <5>1, <3>1, <2>6 DEF Facts
        <5> QED BY <5>2, <3>1, <2>4
      <4> QED BY <4>1, <4>2, <2>6
    <3> QED BY <3>1 DEF OneFact
  <2>12. RowsFiled'
    BY <1>0, <1>1, <1>4, <2>4, <2>6 DEF RowsFiled
  <2>13. ASSUME NEW a \in Answers PROVE ShownRight(a)' /\ ChatRight(a)'
    <3>1. CASE a = k
      <4>1. reply'[d].of = a /\ reply'[d].at = "strip" /\ Under(d)'
        BY <3>1, <2>2, <2>5, <2>8
      <4> QED BY <4>1 DEF ShownRight, ChatRight
    <3>2. CASE a # k
      <4>1. ShownRight(a) /\ ChatRight(a)
        BY DEF RetractionInv
      <4>2. Facts(a)' = Facts(a) /\ Shows(a)' = Shows(a)
        BY <3>2, <2>4, <2>6 DEF Facts, Shows
      <4>7. <<"answer", a, 0>> \in LineageRows' => <<"answer", a, 0>> \in LineageRows
        BY <2>14, <2>6
      <4>8. Gone(a) => Gone(a)'
        BY <3>2, <4>2, <4>7, <1>1, <1>4, GoneStays
      <4>3. Facts(a) # {} => Gone(a)
        BY <4>1, <1>2 DEF ShownRight, Under
      <4>4. ShownRight(a)'
        BY <4>2, <4>3, <4>8 DEF ShownRight
      <4>5. \A j : <<a, j>> \in unreceipted => <<a, j>> \in unreceipted'
        BY <3>2, <1>4
      <4>6. ChatRight(a)'
        BY <4>1, <4>2, <4>5, <1>1, <1>2 DEF ChatRight
      <4> QED BY <4>4, <4>6
    <3> QED BY <3>1, <3>2
  <2> QED BY <2>7, <2>9, <2>10, <2>11, <2>12, <2>13 DEF RetractionInv
<1>5. PICK k \in Answers, i \in 1 .. Chunks :
        /\ home[k] # 0
        /\ IF <<"receipt", k, i>> \in LineageRows
           THEN LET origins == {j \in 1 .. Chunks : <<"receipt", k, j>> \in LineageRows} IN
                /\ held' = [held EXCEPT ![Serving] = @ \cup Quoted(d, k, i)
                               \cup (IF RetractionStands(k) THEN {} ELSE {<<"fact", k, d>>})]
                /\ reply' = [reply EXCEPT ![d] =
                      [at |-> "strip", of |-> k, thread |-> Serving,
                       origins |-> {<<k, j>> : j \in origins},
                       gone |-> {}, built |-> <<>>]]
                /\ excused' = excused \ {k}
                /\ unreceipted' = {o \in unreceipted : o[1] # k}
                                     \cup {<<k, j>> : j \in 1 .. Chunks \ origins}
           ELSE /\ reply' = [reply EXCEPT ![d].at = "over"]
                /\ UNCHANGED <<held, excused, unreceipted>>
  BY DEF ResolveRetraction
<1>6. {j \in 1 .. Chunks : <<"receipt", k, j>> \in LineageRows} \in SUBSET (1 .. Chunks)
  OBVIOUS
<1> QED BY <1>3, <1>4, <1>5, <1>6

-----------------------------------------------------------------------------
(* The strip.                                                                 *)

LEMMA WithoutIs ==
  ASSUME NEW k, NEW rows
  PROVE  /\ Without(k, rows) \subseteq rows
         /\ rows \ Without(k, rows) = ShowsOf(k, rows)
         /\ FactsIn(rows) \subseteq Without(k, rows)
         /\ FactsIn(rows \ Without(k, rows)) = {}
         /\ ShowsOf(k, Without(k, rows)) = {}
         /\ Without(k, rows) = rows => ShowsOf(k, rows) = {}
BY DEF Without, ShowsOf, FactsIn

(* A command goes on, and no thread is touched.                               *)
LEMMA CommandGoes ==
  ASSUME RetractionInv, NEW d \in Replying, Under(d), NEW new \in Commands,
         reply' = [reply EXCEPT ![d] = new],
         new.of = reply[d].of, new.origins = reply[d].origins, new.at \in {"swap", "directive"},
         new.at = "swap" => new.thread = reply[d].thread /\ reply[d].at = "strip",
         lineage' = lineage, threads' = threads, standing' = standing, held' = held, home' = home,
         receipted' = receipted, onChat' = onChat, unreceipted' = unreceipted, refused' = refused,
         inStore' = inStore, excused \subseteq excused', SwapRight(d)',
         \A k : k # reply[d].of /\ k \in lingering => k \in lingering',
         new.at = "directive" => Gone(reply[d].of)'
  PROVE  RetractionInv'
<1>0. RetractionTyped /\ CommandsRight /\ OneFact /\ RowsFiled
  BY DEF RetractionInv
<1>1. /\ reply' \in [Replying -> Commands] /\ reply'[d] = new
      /\ \A e \in Replying : e # d => reply'[e] = reply[e]
  BY <1>0 DEF RetractionTyped
<1>2. RetractionTyped' /\ LineageRows' = LineageRows
  BY <1>0, <1>1 DEF RetractionTyped, LineageRows
<1>3. \A e \in Replying : Under(e) <=> e = d
  BY <1>0 DEF CommandsRight
<1>4. \A e \in Replying : Under(e)' <=> e = d
  BY <1>1, <1>3 DEF Under
<1>5. CommandsRight'
  <2>1. /\ reply[d].of \in Answers /\ home[reply[d].of] # 0
        /\ reply[d].at \in {"strip", "swap"} => reply[d].thread \in 1 .. threads
        /\ \A o \in reply[d].origins : o[1] = reply[d].of
        /\ \A i \in 1 .. Chunks : <<reply[d].of, i>> \in reply[d].origins \cup unreceipted
    BY <1>0 DEF CommandsRight
  <2> QED BY <2>1, <1>1, <1>4 DEF CommandsRight
<1>6. ASSUME NEW e \in Replying PROVE SwapRight(e)'
  <2>1. CASE e = d
    BY <2>1
  <2>2. CASE e # d
    <3>1. reply'[e].at # "swap"
      BY <2>2, <1>4 DEF Under
    <3> QED BY <3>1 DEF SwapRight
  <2> QED BY <2>1, <2>2
<1>7. OneFact' /\ RowsFiled'
  BY <1>0, <1>2 DEF OneFact, RowsFiled
<1>8. ASSUME NEW k \in Answers PROVE ShownRight(k)' /\ ChatRight(k)'
  <2>1. ShownRight(k) /\ ChatRight(k)
    BY DEF RetractionInv
  <2>2. Facts(k)' = Facts(k) /\ Shows(k)' = Shows(k)
    BY <1>2 DEF Facts, Shows
  <2>3. ShownRight(k)'
    <3>1. CASE k = reply[d].of /\ new.at = "directive"
      BY <3>1 DEF ShownRight
    <3>2. CASE k = reply[d].of /\ new.at = "swap"
      BY <3>2, <1>1 DEF ShownRight
    <3>3. CASE k # reply[d].of
      <4>1. ~\E e \in Replying : reply[e].of = k /\ reply[e].at \in {"strip", "swap"}
        BY <3>3, <1>3 DEF Under
      <4>2. Gone(k) => Gone(k)'
        BY <3>3, <1>2, GoneBehind
      <4> QED BY <4>1, <4>2, <2>1, <2>2 DEF ShownRight
    <3> QED BY <3>1, <3>2, <3>3
  <2>4. ChatRight(k)'
    <3>1. (\E e \in Replying : reply[e].of = k /\ Under(e)) =>
             \E e \in Replying : reply'[e].of = k /\ Under(e)'
      BY <1>1, <1>3, <1>4
    <3> QED BY <3>1, <2>1, <2>2 DEF ChatRight
  <2> QED BY <2>3, <2>4
<1> QED BY <1>2, <1>5, <1>6, <1>7, <1>8 DEF RetractionInv

LEMMA DirectiveIs ==
  ASSUME RetractionTyped, NEW d \in Replying, ToTheDirective(d)
  PROVE  \E new \in Commands :
            /\ reply' = [reply EXCEPT ![d] = new] /\ new.at = "directive"
            /\ new.of = reply[d].of /\ new.origins = reply[d].origins
<1> DEFINE new == [reply[d] EXCEPT !.at = "directive", !.thread = 0, !.gone = {}, !.built = <<>>]
<1>1. reply[d] \in Commands /\ reply \in [Replying -> Commands]
  BY DEF RetractionTyped
<1>2. <<>> \in Seq(SUBSET ThreadRows)
  OBVIOUS
<1>3. /\ new \in Commands /\ new.of = reply[d].of
      /\ new.origins = reply[d].origins /\ new.at = "directive"
  BY <1>1, <1>2 DEF Commands
<1>4. reply' = [reply EXCEPT ![d] = new]
  BY DEF ToTheDirective
<1> HIDE DEF new
<1> QED BY <1>3, <1>4

(* A strip that is stood down from or fails is excused.                       *)
LEMMA GivenUp ==
  ASSUME RetractionInv, NEW d \in Replying, Under(d), ToTheDirective(d),
         excused' = excused \cup {reply[d].of}, lingering' = lingering, inStore' = inStore,
         lineage' = lineage, threads' = threads, standing' = standing, held' = held, home' = home,
         receipted' = receipted, onChat' = onChat, unreceipted' = unreceipted, refused' = refused
  PROVE  RetractionInv'
<1>1. RetractionTyped /\ reply \in [Replying -> Commands]
  BY DEF RetractionInv, RetractionTyped
<1>2. PICK new \in Commands :
         /\ reply' = [reply EXCEPT ![d] = new] /\ new.at = "directive"
         /\ new.of = reply[d].of /\ new.origins = reply[d].origins
  BY <1>1, DirectiveIs
<1>3. reply'[d].at = "directive"
  BY <1>1, <1>2
<1>4. SwapRight(d)'
  BY <1>3 DEF SwapRight
<1>5. Gone(reply[d].of)'
  <2>1. reply'[d].of = reply[d].of
    BY <1>1, <1>2
  <2> QED BY <2>1 DEF Gone
<1>6. new \in Commands
  OBVIOUS
<1> QED BY <1>2, <1>4, <1>5, <1>6, CommandGoes

LEMMA StripStandsDownKeeps ==
  ASSUME RetractionInv, NEW d \in Replying, StripStandsDown(d)
  PROVE  RetractionInv'
BY GivenUp DEF StripStandsDown, StandsDown, Under, descent, outward, keeping

LEMMA StripFailsKeeps ==
  ASSUME RetractionInv, NEW d \in Replying, StripFails(d)
  PROVE  RetractionInv'
BY GivenUp DEF StripFails, Under, descent, outward

LEMMA StripReadsKeeps ==
  ASSUME RetractionInv, NEW d \in Replying, StripReads(d)
  PROVE  RetractionInv'
<1>0. RetractionTyped /\ CommandsRight
  BY DEF RetractionInv
<1>1. /\ lineage' = lineage /\ threads' = threads /\ held' = held /\ home' = home
      /\ receipted' = receipted /\ onChat' = onChat /\ unreceipted' = unreceipted /\ refused' = refused
      /\ standing' = standing /\ inStore' = inStore /\ excused' = excused
      /\ Under(d) /\ reply[d].at = "strip" /\ reply[d].thread = Serving
  BY DEF StripReads, Under, descent, outward, keeping
<1> QED
  <2> DEFINE k        == reply[d].of
             n        == Len(lineage)
             scrubbed == ReachesADigest(reply[d].of, reply[d].thread)
             replaced == IF scrubbed THEN SubSeq(lineage, 1, Len(lineage) - 1) ELSE <<>>
             gone     == held[Serving] \ Without(reply[d].of, held[Serving])
             built    == [i \in DOMAIN replaced |-> Without(reply[d].of, held[replaced[i]])]
             new      == [reply[d] EXCEPT !.at = "swap", !.gone = gone, !.built = built]
  <2>1. IF scrubbed \/ gone # {}
        THEN /\ reply' = [reply EXCEPT ![d].at = "swap", ![d].gone = gone, ![d].built = built]
             /\ lingering' = lingering
        ELSE ToTheDirective(d) /\ StripEnds(k, inStore)
    BY DEF StripReads
  <2>2. /\ n \in Nat /\ n >= 1 /\ Serving \in 1 .. MaxThreads
        /\ \A i \in 1 .. n : lineage[i] \in 1 .. MaxThreads
        /\ \A t \in 1 .. MaxThreads : held[t] \subseteq ThreadRows
        /\ Serving = lineage[n]
    BY <1>0, LineageFacts
  <2>3. scrubbed <=> \E i \in 1 .. n - 1 : Without(k, held[lineage[i]]) # held[lineage[i]]
    BY DEF ReachesADigest
  <2>4. \/ /\ scrubbed /\ n - 1 >= 1 /\ DOMAIN replaced = 1 .. n - 1
           /\ \A i \in 1 .. n - 1 : replaced[i] = lineage[i]
        \/ ~scrubbed /\ replaced = <<>>
    <3>1. CASE scrubbed
      <4>1. n - 1 >= 1
        BY <3>1, <2>2, <2>3
      <4>2. lineage \in Seq(1 .. threads) /\ threads \in Nat
        BY <1>0, LineageFacts DEF RetractionTyped
      <4>3. DOMAIN SubSeq(lineage, 1, n - 1) = 1 .. n - 1
            /\ \A i \in 1 .. n - 1 : SubSeq(lineage, 1, n - 1)[i] = lineage[i]
        BY <4>1, <4>2, <2>2
      <4>4. replaced = SubSeq(lineage, 1, n - 1)
        BY <3>1
      <4> HIDE DEF replaced, scrubbed
      <4> QED BY <3>1, <4>1, <4>3, <4>4
    <3>2. CASE ~scrubbed
      BY <3>2
    <3> QED BY <3>1, <3>2
  <2> HIDE DEF scrubbed, replaced
  <2>5. \/ /\ scrubbed /\ n - 1 >= 1 /\ Len(built) = n - 1 /\ built \in Seq(SUBSET ThreadRows)
           /\ \A i \in 1 .. n - 1 : built[i] = Without(k, held[lineage[i]])
        \/ ~scrubbed /\ built = <<>> /\ built \in Seq(SUBSET ThreadRows) /\ Len(built) = 0
    <3>1. CASE scrubbed
      <4>1. built = [i \in 1 .. n - 1 |-> Without(k, held[lineage[i]])]
        BY <3>1, <2>4
      <4>2. \A i \in 1 .. n - 1 : Without(k, held[lineage[i]]) \in SUBSET ThreadRows
        <5> TAKE i \in 1 .. n - 1
        <5>1. held[lineage[i]] \subseteq ThreadRows
          BY <2>2
        <5> QED BY <5>1, WithoutIs
      <4>3. n - 1 \in Nat /\ n - 1 >= 1
        BY <2>4, <3>1, <2>2
      <4> HIDE DEF built, n
      <4> QED BY <3>1, <4>1, <4>2, <4>3
    <3>2. CASE ~scrubbed
      <4>1. built = <<>>
        BY <3>2, <2>4
      <4> HIDE DEF built
      <4> QED BY <3>2, <4>1
    <3> QED BY <3>1, <3>2
  <2>6. gone \subseteq ThreadRows /\ FactsIn(gone) = {} /\ gone = ShowsOf(k, held[Serving])
    <3>1. held[Serving] \subseteq ThreadRows
      BY <2>2
    <3> QED BY <3>1, WithoutIs
  <2> HIDE DEF built, gone
  <2>7. reply[d] \in Commands /\ reply \in [Replying -> Commands]
    BY <1>0 DEF RetractionTyped
  <2>11. ~scrubbed => \A i \in 1 .. n - 1 : ShowsOf(k, held[lineage[i]]) = {}
    BY <2>3, WithoutIs
  <2>12. CASE scrubbed \/ gone # {}
    <3>7. reply' = [reply EXCEPT ![d] = new] /\ lingering' = lingering
      BY <2>1, <2>7, <2>12 DEF Commands
    <3>8. /\ new \in Commands /\ new.of = k /\ new.thread = reply[d].thread
          /\ new.origins = reply[d].origins /\ new.at = "swap" /\ new.built = built /\ new.gone = gone
      <4>1. built \in Seq(SUBSET ThreadRows)
        BY <2>5
      <4> QED BY <4>1, <2>6, <2>7 DEF Commands
    <3> HIDE DEF new
    <3>1. reply'[d] = new
      BY <2>7, <3>7
    <3>2. ASSUME NEW i \in 1 .. Len(built)
          PROVE  /\ built[i] \subseteq held[lineage[i]]
                 /\ FactsIn(held[lineage[i]]) \subseteq built[i]
                 /\ ShowsOf(k, built[i]) = {}
      <4>1. Len(built) # 0
        OBVIOUS
      <4>2. i \in 1 .. n - 1 /\ \A j \in 1 .. n - 1 : built[j] = Without(k, held[lineage[j]])
        BY <2>5, <4>1
      <4>3. built[i] = Without(k, held[lineage[i]])
        BY <4>2
      <4>4. /\ Without(k, held[lineage[i]]) \subseteq held[lineage[i]]
            /\ FactsIn(held[lineage[i]]) \subseteq Without(k, held[lineage[i]])
            /\ ShowsOf(k, Without(k, held[lineage[i]])) = {}
        BY WithoutIs
      <4> HIDE DEF k, n
      <4> QED BY <4>3, <4>4
    <3>3. built = <<>> \/ Len(built) = n - 1
      BY <2>5
    <3>4. built = <<>> => ~scrubbed
      <4>1. built = <<>> => Len(built) = 0
        OBVIOUS
      <4> QED BY <4>1, <2>5, <2>2
    <3>5. built = <<>> => \A i \in 1 .. n - 1 : ShowsOf(k, held[lineage[i]]) = {}
      BY <3>4, <2>11
    <3>6. Serving' = Serving
      BY <1>1 DEF Serving
    <3>9. SwapRight(d)'
      BY <1>1, <2>6, <3>8, <3>1, <3>2, <3>3, <3>5, <3>6 DEF SwapRight
    <3>10. new.at \in {"swap", "directive"} /\ new.at # "directive"
      BY <3>8
    <3> QED BY <1>1, <3>7, <3>8, <3>9, <3>10, CommandGoes
  <2>13. CASE ~(scrubbed \/ gone # {})
    <3>1. ToTheDirective(d) /\ StripEnds(k, inStore)
      BY <2>1, <2>13
    <3>2. PICK to \in Commands :
             /\ reply' = [reply EXCEPT ![d] = to] /\ to.at = "directive"
             /\ to.of = reply[d].of /\ to.origins = reply[d].origins
      BY <1>0, <3>1, DirectiveIs
    <3>3. SwapRight(d)'
      <4>1. reply'[d].at = "directive"
        BY <2>7, <3>2
      <4> QED BY <4>1 DEF SwapRight
    <3>4. LineageRows' = LineageRows
      BY <1>1 DEF LineageRows
    <3>5. Shows(k) = {}
      <4> SUFFICES ASSUME NEW row \in Shows(k) PROVE FALSE
        OBVIOUS
      <4>1. row \in LineageRows /\ row[2] = k /\ row[1] \in {"answer", "quote"}
        BY DEF Shows
      <4>2. PICK i \in 1 .. n : row \in held[lineage[i]]
        BY <4>1, <1>0, LineageFacts
      <4>3. row \in ShowsOf(k, held[lineage[i]])
        BY <4>1, <4>2 DEF ShowsOf
      <4>4. i \in 1 .. n - 1 \/ i = n
        BY <2>2
      <4> QED BY <4>3, <4>4, <2>2, <2>6, <2>13, <2>11
    <3>6. lingering' = (lingering \ {k}) \cup (inStore \cap {k})
      BY <3>1 DEF StripEnds
    <3>7. Gone(k)'
      <4>0. reply'[d].of = k
        BY <2>7, <3>2
      <4>1. \A row \in LineageRows' : ~(row[2] = k /\ row[1] \in {"answer", "quote"})
        BY <3>4, <3>5 DEF Shows
      <4>2. <<"answer", k, 0>> \notin LineageRows'
        BY <4>1
      <4>3. k \in lingering' \/ k \notin inStore'
        BY <3>6, <1>1
      <4> HIDE DEF k
      <4>4. Gone(reply[d].of)'
        BY <4>0, <4>1, <4>2, <4>3 DEF Gone, Shows
      <4> QED BY <4>4 DEF k
    <3>8. \A a : a # k /\ a \in lingering => a \in lingering'
      BY <3>6
    <3>9. to \in Commands
      OBVIOUS
    <3> QED BY <1>1, <3>2, <3>3, <3>7, <3>8, <3>9, CommandGoes
  <2> QED BY <2>12, <2>13

(* The clones' numbers follow every number given, so that the line stays in   *)
(* the order in which its threads were made.                                  *)
Numbered(T, n) == [i \in 1 .. n |-> T + i]

Renews(T, L, n, c, line, new) ==
  /\ T \in Nat /\ L \in Nat /\ n \in Nat /\ c \in Nat /\ n >= 1 /\ c + n = L
  /\ line \in Seq(1 .. T) /\ Len(line) = L
  /\ \A i, j \in 1 .. L : i < j => line[i] < line[j]
  /\ new = SubSeq(line, 1, c) \o Numbered(T, n)

RenewedLine(T, L, n, c, line, new) ==
  /\ new \in Seq(1 .. T + n) /\ Len(new) = L /\ new # <<>> /\ Last(new) = T + n
  /\ \A i \in 1 .. c : new[i] = line[i]
  /\ \A m \in 1 .. n, i \in 1 .. L : i = c + m => new[i] = T + m
  /\ \A i \in 1 .. L : i \in 1 .. c \/ \E m \in 1 .. n : i = c + m
  /\ \A i, j \in 1 .. L : i < j => new[i] < new[j]
  /\ \A t : t \in ToSet(SubSeq(line, 1, c)) <=> \E i \in 1 .. c : t = line[i]
  /\ \A t : t \in ToSet(Numbered(T, n)) <=> \E i \in 1 .. n : t = T + i

LEMMA Renewed ==
  ASSUME NEW T, NEW L, NEW n, NEW c, NEW line, NEW new, Renews(T, L, n, c, line, new)
  PROVE  RenewedLine(T, L, n, c, line, new)
<1>0. /\ T \in Nat /\ L \in Nat /\ n \in Nat /\ c \in Nat /\ n >= 1 /\ c + n = L
      /\ line \in Seq(1 .. T) /\ Len(line) = L
      /\ new = SubSeq(line, 1, c) \o Numbered(T, n)
  BY DEF Renews
<1> DEFINE kept   == SubSeq(line, 1, c)
           clones == Numbered(T, n)
<1>1. n \in Nat /\ n >= 1 /\ c \in Nat /\ c <= L /\ L = c + n /\ c \in Int /\ T \in Int
  BY <1>0
<1>2. /\ clones \in Seq(1 .. T + n) /\ Len(clones) = n /\ DOMAIN clones = 1 .. n
      /\ \A i \in 1 .. n : clones[i] = T + i
  BY <1>0, <1>1 DEF Numbered
<1>3. /\ kept \in Seq(1 .. T) /\ Len(kept) = c /\ DOMAIN kept = 1 .. c
      /\ \A i \in 1 .. c : kept[i] = line[i]
  BY <1>0, <1>1, SubSeqProperties
<1>4. \A t : t \in ToSet(clones) <=> \E i \in 1 .. n : t = T + i
  <2>1. ToSet(clones) = {clones[i] : i \in 1 .. n}
    BY <1>2 DEF ToSet
  <2> HIDE DEF clones
  <2> QED BY <2>1, <1>2
<1>5. \A t : t \in ToSet(kept) <=> \E i \in 1 .. c : t = line[i]
  <2>1. ToSet(kept) = {kept[i] : i \in 1 .. c}
    BY <1>3 DEF ToSet
  <2> HIDE DEF kept
  <2> QED BY <2>1, <1>3
<1>6. new = kept \o clones
  BY <1>0
<1> HIDE DEF kept, clones
<1>7. kept \in Seq(1 .. T + n)
  BY <1>0, <1>1, <1>3
<1>8. /\ new \in Seq(1 .. T + n)
      /\ Len(new) = Len(kept) + Len(clones)
      /\ \A i \in 1 .. Len(kept) : new[i] = kept[i]
      /\ \A i \in 1 .. Len(clones) : new[Len(kept) + i] = clones[i]
  <2>1. /\ kept \o clones \in Seq(1 .. T + n)
        /\ Len(kept \o clones) = Len(kept) + Len(clones)
        /\ \A i \in 1 .. Len(kept) + Len(clones) :
              (kept \o clones)[i] = IF i <= Len(kept) THEN kept[i] ELSE clones[i - Len(kept)]
    BY <1>2, <1>7, ConcatProperties
  <2>2. Len(kept) \in Nat /\ Len(clones) \in Nat
    BY <1>1, <1>2, <1>3
  <2>3. \A i \in 1 .. Len(kept) : new[i] = kept[i]
    <3> TAKE i \in 1 .. Len(kept)
    <3>1. i \in 1 .. Len(kept) + Len(clones) /\ i <= Len(kept)
      BY <2>2
    <3> QED BY <2>1, <3>1, <1>6
  <2>4. ASSUME NEW i \in 1 .. Len(clones) PROVE new[Len(kept) + i] = clones[i]
    <3>1. /\ Len(kept) + i \in 1 .. Len(kept) + Len(clones) /\ ~(Len(kept) + i <= Len(kept))
          /\ (Len(kept) + i) - Len(kept) = i
      BY <2>2
    <3> QED BY <2>1, <3>1, <1>6
  <2> QED BY <2>1, <2>3, <2>4, <1>6
<1>9. Len(new) = L /\ new # <<>>
  <2>1. Len(new) = L
    BY <1>1, <1>2, <1>3, <1>8
  <2>2. Len(new) # 0
    BY <2>1, <1>1
  <2> QED BY <2>1, <2>2
<1>10. \A i \in 1 .. c : new[i] = line[i]
  BY <1>3, <1>8
<1>11. \A m \in 1 .. n, i \in 1 .. L : i = c + m => new[i] = T + m
  <2> TAKE m \in 1 .. n, i \in 1 .. L
  <2>1. new[Len(kept) + m] = clones[m]
    BY <1>2, <1>8
  <2> QED BY <2>1, <1>2, <1>3
<1>12. ASSUME NEW i \in 1 .. L PROVE i \in 1 .. c \/ \E m \in 1 .. n : i = c + m
  <2>1. i \in 1 .. c \/ (i - c \in 1 .. n /\ i = c + (i - c))
    BY <1>1
  <2> QED BY <2>1
<1>13. ASSUME NEW i \in 1 .. L, NEW j \in 1 .. L, i < j PROVE new[i] < new[j]
  <2>0. line[i] < line[j]
    BY <1>13 DEF Renews
  <2>1. CASE i \in 1 .. c /\ j \in 1 .. c
    BY <2>0, <2>1, <1>10
  <2>2. ASSUME i \in 1 .. c, NEW m \in 1 .. n, j = c + m PROVE new[i] < new[j]
    <3>1. line[i] \in 1 .. T
      BY <2>2, <1>0, <1>1
    <3>2. new[i] = line[i]
      BY <2>2, <1>10
    <3>3. new[j] = T + m
      BY <2>2, <1>11
    <3>4. line[i] <= T /\ T < T + m /\ line[i] \in Int /\ T + m \in Int
      BY <3>1, <1>1
    <3>5. line[i] < T + m
      BY <3>4, <1>1
    <3> QED BY <3>2, <3>3, <3>5
  <2>3. ASSUME NEW m \in 1 .. n, i = c + m, NEW o \in 1 .. n, j = c + o
        PROVE  new[i] < new[j]
    <3>1. new[i] = T + m
      BY <2>3, <1>11
    <3>3. new[j] = T + o
      BY <2>3, <1>11
    <3>2. m < o
      BY <1>13, <2>3, <1>1
    <3>4. T + m < T + o /\ T + m \in Int /\ T + o \in Int
      BY <3>2, <1>1
    <3> QED BY <3>1, <3>3, <3>4
  <2>4. ASSUME NEW m \in 1 .. n, i = c + m, j \in 1 .. c PROVE FALSE
    BY <1>13, <2>4, <1>1
  <2> QED BY <2>1, <2>2, <2>3, <2>4, <1>12
<1>14. Last(new) = T + n
  <2>1. Last(new) = new[L]
    BY <1>9 DEF Last
  <2>2. n \in 1 .. n /\ L \in 1 .. L /\ L = c + n
    BY <1>1
  <2>3. new[L] = T + n
    BY <2>2, <1>11
  <2> QED BY <2>1, <2>3
<1> QED BY <1>4, <1>5, <1>8, <1>9, <1>10, <1>11, <1>12, <1>13, <1>14 DEF RenewedLine, kept, clones

(* The thread that a place of the lineage is after a swap holds what the one  *)
(* before held, without the answer's words.                                   *)
LEMMA Swapped ==
  ASSUME RetractionInv, NEW d \in Replying, NEW left \in SUBSET ToSet(lineage),
         Swaps(reply[d], left)
  PROVE  /\ threads' \in 1 .. MaxThreads /\ threads' > threads
         /\ lineage' \in Seq(1 .. threads') /\ Len(lineage') = Len(lineage) /\ lineage' # <<>>
         /\ \A i, j \in 1 .. Len(lineage') : i < j => lineage'[i] < lineage'[j]
         /\ Serving' > threads /\ standing' \subseteq 1 .. threads'
         /\ held' \in [1 .. MaxThreads -> SUBSET ThreadRows]
         /\ \A i \in 1 .. Len(lineage) :
               /\ held'[lineage'[i]] \subseteq held[lineage[i]]
               /\ FactsIn(held[lineage[i]]) \subseteq held'[lineage'[i]]
               /\ ShowsOf(reply[d].of, held'[lineage'[i]]) = {}
<1> DEFINE L      == Len(lineage)
           built  == reply[d].built
           n      == Len(built) + 1
           c      == L - n
           kept   == SubSeq(lineage, 1, c)
           clones == [i \in 1 .. n |-> threads + i]
           rows   == Append(built, held[Serving] \ reply[d].gone)
<1>0. RetractionTyped /\ reply[d].at = "swap" /\ reply[d].thread = Serving /\ SwapRight(d)
  BY DEF RetractionInv, Swaps
<1>1. /\ threads + n <= MaxThreads /\ threads' = threads + n
      /\ lineage' = kept \o clones
      /\ held' = [t \in 1 .. MaxThreads |->
                     IF t \in ToSet(clones) THEN rows[t - threads]
                     ELSE IF t \in ToSet(kept) \cup standing' THEN held[t] ELSE {}]
      /\ standing' = standing \cup left
  BY DEF Swaps
<1>2. /\ L \in Nat /\ L >= 1 /\ threads \in Nat /\ threads >= 1 /\ MaxThreads \in Nat
      /\ lineage \in Seq(1 .. threads)
      /\ \A i \in 1 .. L : lineage[i] \in 1 .. threads
      /\ Serving = lineage[L] /\ Serving \in 1 .. MaxThreads
      /\ \A i, j \in 1 .. L : i < j => lineage[i] < lineage[j]
  BY <1>0, LineageFacts DEF RetractionTyped
<1>3. built \in Seq(SUBSET ThreadRows) /\ Len(built) \in Nat
  BY <1>0 DEF RetractionTyped, Commands
<1>4. /\ built = <<>> \/ Len(built) = L - 1
      /\ \A i \in 1 .. Len(built) :
            /\ built[i] \subseteq held[lineage[i]]
            /\ FactsIn(held[lineage[i]]) \subseteq built[i]
            /\ ShowsOf(reply[d].of, built[i]) = {}
      /\ FactsIn(reply[d].gone) = {}
      /\ ShowsOf(reply[d].of, held[Serving]) \subseteq reply[d].gone
      /\ built = <<>> => \A i \in 1 .. L - 1 : ShowsOf(reply[d].of, held[lineage[i]]) = {}
  BY <1>0 DEF SwapRight
<1>5. n \in Nat /\ n >= 1 /\ n <= L /\ (n = 1 \/ n = L)
  <2>1. Len(built) = 0 \/ Len(built) = L - 1
    BY <1>4
  <2> QED BY <2>1, <1>2, <1>3
<1>6. held[Serving] \subseteq ThreadRows
  BY <1>0, <1>2 DEF RetractionTyped
<1>7. /\ Len(rows) = n /\ rows \in Seq(SUBSET ThreadRows)
      /\ \A i \in 1 .. Len(built) : rows[i] = built[i]
      /\ rows[n] = held[Serving] \ reply[d].gone
  <2>1. held[Serving] \ reply[d].gone \in SUBSET ThreadRows
    BY <1>6
  <2> HIDE DEF built
  <2> QED BY <2>1, <1>3
<1>8. lineage' = SubSeq(lineage, 1, c) \o Numbered(threads, n) /\ clones = Numbered(threads, n)
  BY <1>1 DEF Numbered
<1>16. c \in Nat /\ c + n = L /\ c <= L /\ c = L - n
  <2> HIDE DEF n, L
  <2> QED BY <1>2, <1>5
<1> HIDE DEF rows, n, L, c
<1>9. n \in Nat /\ n >= 1 /\ Len(lineage) = L
  BY <1>2, <1>5, <1>16 DEF L
<1>10. /\ lineage' \in Seq(1 .. threads + n) /\ Len(lineage') = L /\ lineage' # <<>>
       /\ \A i \in 1 .. c : lineage'[i] = lineage[i]
       /\ \A m \in 1 .. n, i \in 1 .. L : i = c + m => lineage'[i] = threads + m
       /\ \A i \in 1 .. L : i \in 1 .. c \/ \E m \in 1 .. n : i = c + m
       /\ \A i, j \in 1 .. L : i < j => lineage'[i] < lineage'[j]
       /\ Last(lineage') = threads + n
       /\ \A t : t \in ToSet(kept) <=> \E i \in 1 .. c : t = lineage[i]
       /\ \A t : t \in ToSet(clones) <=> \E i \in 1 .. n : t = threads + i
  <2>1. Renews(threads, L, n, c, lineage, lineage')
    BY <1>2, <1>8, <1>9, <1>16 DEF Renews
  <2>2. RenewedLine(threads, L, n, c, lineage, lineage')
    BY <2>1, Renewed
  <2> QED BY <2>2, <1>8 DEF RenewedLine
<1> HIDE DEF kept, clones, built
<1>11. /\ \A m \in 1 .. n : threads + m \in 1 .. MaxThreads /\ held'[threads + m] = rows[m]
       /\ \A i \in 1 .. c : held'[lineage[i]] = held[lineage[i]]
  <2>1. ASSUME NEW m \in 1 .. n
        PROVE  threads + m \in 1 .. MaxThreads /\ held'[threads + m] = rows[m]
    <3>1. threads + m \in 1 .. MaxThreads /\ (threads + m) - threads = m
      BY <1>1, <1>2, <1>5, <1>16
    <3>2. threads + m \in ToSet(clones)
      BY <1>10
    <3>3. held'[threads + m] = rows[(threads + m) - threads]
      BY <3>1, <3>2, <1>1
    <3> QED BY <3>1, <3>3
  <2>2. ASSUME NEW i \in 1 .. c PROVE held'[lineage[i]] = held[lineage[i]]
    <3>1. lineage[i] \in 1 .. threads
      BY <1>2, <1>5, <1>16
    <3>2. lineage[i] \in ToSet(kept)
      BY <1>10
    <3>5. lineage[i] \in 1 .. MaxThreads
      <4>1. threads <= MaxThreads
        BY SMTT(30), <1>1, <1>2, <1>5, <1>16
      <4> QED BY <3>1, <4>1, <1>2
    <3>3. \A m \in 1 .. n : threads + m # lineage[i]
      BY <3>1, <1>2
    <3>4. lineage[i] \notin ToSet(clones)
      BY <3>3, <1>10
    <3> QED BY <3>2, <3>4, <3>5, <1>1
  <2> QED BY <2>1, <2>2
<1>12. held' \in [1 .. MaxThreads -> SUBSET ThreadRows]
  <2> SUFFICES ASSUME NEW t \in 1 .. MaxThreads PROVE held'[t] \in SUBSET ThreadRows
    BY <1>1
  <2>1. CASE t \in ToSet(clones)
    <3>1. PICK m \in 1 .. n : t = threads + m
      BY <2>1, <1>10
    <3>2. held'[t] = rows[m]
      BY <3>1, <1>11
    <3> QED BY <3>2, <1>7
  <2>2. CASE t \notin ToSet(clones)
    BY <2>2, <1>0, <1>1 DEF RetractionTyped
  <2> QED BY <2>1, <2>2
<1>13. ASSUME NEW i \in 1 .. L
       PROVE  /\ held'[lineage'[i]] \subseteq held[lineage[i]]
              /\ FactsIn(held[lineage[i]]) \subseteq held'[lineage'[i]]
              /\ ShowsOf(reply[d].of, held'[lineage'[i]]) = {}
  <2>1. CASE i \in 1 .. c
    <3>1. held'[lineage'[i]] = held[lineage[i]]
      BY <2>1, <1>10, <1>11
    <3>2. n = 1 /\ i \in 1 .. L - 1
      BY <2>1, <1>2, <1>5, <1>16
    <3>3. Len(built) = 0
      BY <3>2, <1>3 DEF n
    <3>4. built = <<>>
      BY <3>3, <1>3
    <3> QED BY <3>1, <3>2, <3>4, <1>4 DEF FactsIn
  <2>2. ASSUME NEW m \in 1 .. n, i = c + m
        PROVE  /\ held'[lineage'[i]] \subseteq held[lineage[i]]
               /\ FactsIn(held[lineage[i]]) \subseteq held'[lineage'[i]]
               /\ ShowsOf(reply[d].of, held'[lineage'[i]]) = {}
    <3>1. held'[lineage'[i]] = rows[m]
      <4>1. lineage'[i] = threads + m
        BY <2>2, <1>10
      <4> QED BY <4>1, <1>11
    <3>2. CASE m = n
      <4>1. i = L
        BY <2>2, <3>2, <1>2, <1>5, <1>16
      <4>2. held'[lineage'[i]] = held[Serving] \ reply[d].gone /\ lineage[i] = Serving
        BY <3>1, <3>2, <4>1, <1>2, <1>7
      <4>3. FactsIn(held[Serving]) \subseteq held[Serving] \ reply[d].gone
        BY <1>4 DEF FactsIn
      <4>4. ShowsOf(reply[d].of, held[Serving] \ reply[d].gone) = {}
        BY <1>4 DEF ShowsOf
      <4> QED BY <4>2, <4>3, <4>4
    <3>3. CASE m # n
      <4>1. n = L /\ m = i /\ m \in 1 .. Len(built)
        <5>1. n \in Nat /\ m \in 1 .. n - 1 /\ n # 1
          BY <3>3, <1>5
        <5>2. n = L /\ c = 0 /\ i = m
          BY <5>1, <2>2, <1>2, <1>5, <1>16
        <5>3. n - 1 = Len(built)
          BY <1>3 DEF n
        <5> QED BY <5>1, <5>2, <5>3
      <4>2. held'[lineage'[i]] = built[i]
        BY <3>1, <4>1, <1>7
      <4> QED BY <4>1, <4>2, <1>4
    <3> QED BY <3>2, <3>3
  <2> QED BY <2>1, <2>2, <1>10
<1>14. Serving' > threads
  <2>1. Serving' = threads + n
    BY <1>10 DEF Serving
  <2> QED BY <2>1, <1>2, <1>5, <1>16
<1>15. threads' \in 1 .. MaxThreads /\ threads' > threads /\ threads' = threads + n
  BY SMTT(30), <1>1, <1>2, <1>5, <1>16
<1>17. standing' \subseteq 1 .. threads'
  <2>1. standing \subseteq 1 .. threads /\ left \subseteq 1 .. threads
    BY <1>0, LineageFacts DEF RetractionTyped
  <2>2. \A t \in 1 .. threads : t \in 1 .. threads'
    BY <1>2, <1>9, <1>15
  <2> QED BY <2>1, <2>2, <1>1
<1> QED BY <1>9, <1>10, <1>12, <1>13, <1>14, <1>15, <1>17

(* However the deletion of the threads it replaced ends.                      *)
LEMMA SwapKeeps ==
  ASSUME RetractionInv, NEW d \in Replying, NEW left \in SUBSET ToSet(lineage),
         Swaps(reply[d], left), ToTheDirective(d),
         home' = home, receipted' = receipted, onChat' = onChat,
         unreceipted' = unreceipted, refused' = refused,
         inStore' \subseteq inStore, excused \subseteq excused',
         \A k : k # reply[d].of /\ k \in lingering => k \in lingering',
         reply[d].of \in excused' \/ (reply[d].of \in inStore' => reply[d].of \in lingering')
  PROVE  RetractionInv'
<1>0. RetractionTyped /\ CommandsRight /\ OneFact /\ RowsFiled
  BY DEF RetractionInv
<1>1. Under(d)
  BY DEF Swaps, Under
<1> QED
  <2>2. /\ threads' \in 1 .. MaxThreads /\ threads' > threads
        /\ lineage' \in Seq(1 .. threads') /\ Len(lineage') = Len(lineage) /\ lineage' # <<>>
        /\ \A i, j \in 1 .. Len(lineage') : i < j => lineage'[i] < lineage'[j]
        /\ Serving' > threads /\ standing' \subseteq 1 .. threads'
        /\ held' \in [1 .. MaxThreads -> SUBSET ThreadRows]
        /\ \A i \in 1 .. Len(lineage) :
              /\ held'[lineage'[i]] \subseteq held[lineage[i]]
              /\ FactsIn(held[lineage[i]]) \subseteq held'[lineage'[i]]
              /\ ShowsOf(reply[d].of, held'[lineage'[i]]) = {}
    BY Swapped
  <2>3. /\ reply' \in [Replying -> Commands] /\ reply'[d].at = "directive"
        /\ reply'[d].of = reply[d].of /\ reply'[d].origins = reply[d].origins
        /\ \A e \in Replying : e # d => reply'[e] = reply[e]
    <3>1. PICK after \in Commands :
             /\ reply' = [reply EXCEPT ![d] = after] /\ after.at = "directive"
             /\ after.of = reply[d].of /\ after.origins = reply[d].origins
      BY <1>0, DirectiveIs
    <3>2. reply \in [Replying -> Commands] /\ after \in Commands
      BY <1>0 DEF RetractionTyped
    <3> QED BY <3>1, <3>2
  <2>4. RetractionTyped'
    BY <1>0, <1>1, <2>2, <2>3 DEF RetractionTyped
  <2>5. \A row : row \in LineageRows' <=> \E i \in 1 .. Len(lineage) : row \in held'[lineage'[i]]
    <3>1. ToSet(lineage') = {lineage'[i] : i \in 1 .. Len(lineage')}
      <4>1. threads' \in Nat /\ lineage' \in Seq(1 .. threads') /\ lineage' # <<>>
        BY <2>2, RetractionAssumption
      <4> QED BY <4>1, LineIs
    <3>2. LineageRows' = UNION {held'[t] : t \in ToSet(lineage')}
      BY DEF LineageRows
    <3> QED BY <2>2, <3>1, <3>2
  <2>6. \A row : row \in LineageRows <=> \E i \in 1 .. Len(lineage) : row \in held[lineage[i]]
    BY <1>0, LineageFacts
  <2>7. LineageRows' \subseteq LineageRows
    BY <2>2, <2>5, <2>6
  <2>8. \A row \in LineageRows : row[1] = "fact" => row \in LineageRows'
    <3> SUFFICES ASSUME NEW row \in LineageRows, row[1] = "fact" PROVE row \in LineageRows'
      OBVIOUS
    <3>1. PICK i \in 1 .. Len(lineage) : row \in held[lineage[i]]
      BY <2>6
    <3>2. row \in FactsIn(held[lineage[i]])
      BY <3>1 DEF FactsIn
    <3> QED BY <3>2, <2>2, <2>5
  <2>9. \A row \in LineageRows' : ~(row[2] = reply[d].of /\ row[1] \in {"answer", "quote"})
    <3> SUFFICES ASSUME NEW row \in LineageRows', row[2] = reply[d].of, row[1] \in {"answer", "quote"}
                 PROVE  FALSE
      OBVIOUS
    <3>1. PICK i \in 1 .. Len(lineage) : row \in held'[lineage'[i]]
      BY <2>5
    <3>2. row \in ShowsOf(reply[d].of, held'[lineage'[i]])
      BY <3>1 DEF ShowsOf
    <3> QED BY <3>2, <2>2
  <2>10. \A e \in Replying : (Under(e) <=> e = d) /\ (Under(e)' <=> e = d)
    <3>1. \A e \in Replying : Under(e) <=> e = d
      BY <1>0, <1>1 DEF CommandsRight
    <3> QED BY <3>1, <2>3 DEF Under
  <2>11. CommandsRight'
    <3>1. /\ reply[d].of \in Answers /\ home[reply[d].of] # 0
          /\ \A o \in reply[d].origins : o[1] = reply[d].of
          /\ \A i \in 1 .. Chunks : <<reply[d].of, i>> \in reply[d].origins \cup unreceipted
      BY <1>0, <1>1 DEF CommandsRight
    <3> QED BY <3>1, <2>3, <2>10 DEF CommandsRight
  <2>12. \A e \in Replying : SwapRight(e)'
    BY <2>3, <2>10 DEF SwapRight, Under
  <2>13. OneFact' /\ RowsFiled'
    BY <1>0, <1>1, <2>7 DEF OneFact, RowsFiled
  <2>14. ASSUME NEW k \in Answers PROVE ShownRight(k)' /\ ChatRight(k)'
    <3>1. ShownRight(k) /\ ChatRight(k)
      BY DEF RetractionInv
    <3>2. Facts(k)' = Facts(k)
      BY <2>7, <2>8 DEF Facts
    <3>3. Shows(k)' \subseteq Shows(k)
      BY <2>7 DEF Shows
    <3>4. ShownRight(k)'
      <4>1. CASE k = reply[d].of
        <5>1. Shows(k)' = {} /\ <<"answer", k, 0>> \notin LineageRows'
          BY <4>1, <2>9 DEF Shows
        <5>2. k \in excused' \cup lingering' \/ k \notin inStore'
          BY <4>1
        <5> QED BY <5>1, <5>2 DEF ShownRight, Gone
      <4>2. CASE k # reply[d].of
        <5>1. ~\E e \in Replying : reply[e].of = k /\ reply[e].at \in {"strip", "swap"}
          BY <4>2, <2>10 DEF Under
        <5>2. Gone(k) => Gone(k)'
          BY <4>2, <2>7, GoneBehind
        <5> QED BY <5>1, <5>2, <3>1, <3>2 DEF ShownRight
      <4> QED BY <4>1, <4>2
    <3>5. ChatRight(k)'
      <4>1. (\E e \in Replying : reply[e].of = k /\ Under(e)) =>
               \E e \in Replying : reply'[e].of = k /\ Under(e)'
        BY <2>3, <2>10
      <4> QED BY <4>1, <3>1, <3>2 DEF ChatRight
    <3> QED BY <3>4, <3>5
  <2> QED BY <2>4, <2>11, <2>12, <2>13, <2>14 DEF RetractionInv

LEMMA StripSwapsKeeps ==
  ASSUME RetractionInv, NEW d \in Replying, StripSwaps(d)
  PROVE  RetractionInv'
<1>1. /\ Swaps(reply[d], {}) /\ ToTheDirective(d)
      /\ home' = home /\ receipted' = receipted /\ onChat' = onChat
      /\ unreceipted' = unreceipted /\ refused' = refused /\ excused' = excused
      /\ lingering' = (lingering \ {reply[d].of}) \cup (inStore' \cap {reply[d].of})
  BY DEF StripSwaps, StripEnds, outward
<1>2. inStore' \subseteq inStore
  BY DEF StripSwaps
<1>3. {} \in SUBSET ToSet(lineage)
  OBVIOUS
<1>4. /\ \A k : k # reply[d].of /\ k \in lingering => k \in lingering'
      /\ reply[d].of \in inStore' => reply[d].of \in lingering'
  BY <1>1
<1> QED BY <1>1, <1>2, <1>3, <1>4, SwapKeeps

LEMMA StripTearsKeeps ==
  ASSUME RetractionInv, NEW d \in Replying, StripTears(d)
  PROVE  RetractionInv'
<1>1. /\ ToTheDirective(d) /\ excused' = excused \cup {reply[d].of}
      /\ home' = home /\ receipted' = receipted /\ onChat' = onChat
      /\ unreceipted' = unreceipted /\ refused' = refused /\ inStore' = inStore
      /\ lingering' = lingering
  BY DEF StripTears, outward, keeping
<1> DEFINE n == Len(reply[d].built) + 1
<1>2. PICK deleted \in 0 .. n :
         Swaps(reply[d], {lineage[i] : i \in Len(lineage) - n + 1 + deleted .. Len(lineage)})
  BY DEF StripTears
<1> DEFINE left == {lineage[i] : i \in Len(lineage) - n + 1 + deleted .. Len(lineage)}
<1>3. left \in SUBSET ToSet(lineage)
  <2>1. RetractionTyped /\ SwapRight(d) /\ reply[d].at = "swap" /\ reply[d].thread = Serving
    BY <1>2 DEF RetractionInv, Swaps
  <2>2. reply[d].built = <<>> \/ Len(reply[d].built) = Len(lineage) - 1
    BY <2>1 DEF SwapRight
  <2>3. Len(lineage) \in Nat /\ Len(lineage) >= 1
        /\ \A i \in 1 .. Len(lineage) : lineage[i] \in ToSet(lineage)
    BY <2>1, LineageFacts
  <2>4. n \in Nat /\ n <= Len(lineage)
    <3>1. Len(reply[d].built) = 0 \/ Len(reply[d].built) = Len(lineage) - 1
      BY <2>2
    <3> QED BY <3>1, <2>3
  <2> HIDE DEF n
  <2>5. \A i \in Len(lineage) - n + 1 + deleted .. Len(lineage) : i \in 1 .. Len(lineage)
    BY <2>3, <2>4
  <2> QED BY <2>3, <2>5
<1>4. Swaps(reply[d], left)
  BY <1>2
<1> HIDE DEF left
<1>5. reply[d].of \in excused' /\ excused \subseteq excused'
  BY <1>1
<1> QED BY <1>1, <1>3, <1>4, <1>5, SwapKeeps

-----------------------------------------------------------------------------
(* The adapter, and a compaction.                                             *)

LEMMA RetractKeeps ==
  ASSUME RetractionInv, NEW d \in Replying, Retract(d)
  PROVE  RetractionInv'
<1>0. RetractionTyped /\ CommandsRight /\ OneFact /\ RowsFiled
  BY DEF RetractionInv
<1>1. /\ reply' = [reply EXCEPT ![d] = [Unanswered EXCEPT !.at = "over"]] /\ Under(d)
      /\ lineage' = lineage /\ held' = held /\ threads' = threads /\ home' = home
      /\ receipted' = receipted /\ excused' = excused /\ unreceipted' = unreceipted
      /\ standing' = standing /\ lingering' = lingering /\ inStore' = inStore
      /\ reply[d].at = "directive"
  BY DEF Retract, Under, descent, keeping, outcomes
<1>2. PICK no \in SUBSET (reply[d].origins \cap onChat) :
         /\ onChat' = onChat \ (reply[d].origins \ no)
         /\ refused' = (refused \ reply[d].origins) \cup no
  BY DEF Retract
<1>3. /\ reply' \in [Replying -> Commands] /\ reply'[d].at = "over"
      /\ \A e \in Replying : e # d => reply'[e] = reply[e]
  <2>1. [Unanswered EXCEPT !.at = "over"] \in Commands
    <3>1. <<>> \in Seq(SUBSET ThreadRows)
      OBVIOUS
    <3> QED BY <3>1 DEF Unanswered, Commands
  <2>2. [Unanswered EXCEPT !.at = "over"].at = "over"
    BY DEF Unanswered
  <2>3. reply \in [Replying -> Commands]
    BY <1>0 DEF RetractionTyped
  <2> QED BY <2>1, <2>2, <2>3, <1>1
<1>4. \A e \in Replying : (Under(e) <=> e = d) /\ ~Under(e)'
  <2>1. \A e \in Replying : Under(e) <=> e = d
    BY <1>0, <1>1 DEF CommandsRight
  <2> QED BY <2>1, <1>3 DEF Under
<1>5. RetractionTyped' /\ LineageRows' = LineageRows
  BY <1>0, <1>1, <1>3 DEF RetractionTyped, LineageRows
<1>6. CommandsRight' /\ \A e \in Replying : SwapRight(e)'
  BY <1>4 DEF CommandsRight, SwapRight, Under
<1>7. OneFact' /\ RowsFiled'
  BY <1>0, <1>1, <1>5 DEF OneFact, RowsFiled
<1>8. /\ \A o \in reply[d].origins : o[1] = reply[d].of
      /\ \A i \in 1 .. Chunks : <<reply[d].of, i>> \in reply[d].origins \cup unreceipted
  BY <1>0, <1>1 DEF CommandsRight
<1>9. ASSUME NEW k \in Answers PROVE ShownRight(k)' /\ ChatRight(k)'
  <2>1. ShownRight(k) /\ ChatRight(k)
    BY DEF RetractionInv
  <2>2. Facts(k)' = Facts(k) /\ Shows(k)' = Shows(k)
    BY <1>5 DEF Facts, Shows
  <2>3. Facts(k) # {} => Gone(k)
    <3>1. \A e \in Replying : reply[e].at \notin {"strip", "swap"}
      BY <1>1, <1>4 DEF Under
    <3> QED BY <2>1, <3>1 DEF ShownRight
  <2>4. ShownRight(k)'
    BY <2>2, <2>3, <1>1, <1>5, GoneBehind DEF ShownRight
  <2>5. ChatRight(k)'
    <3> SUFFICES ASSUME Facts(k) # {}, NEW i \in 1 .. Chunks, <<k, i>> \in onChat'
                 PROVE  <<k, i>> \in refused' \cup unreceipted'
      BY <2>2 DEF ChatRight
    <3>1. CASE k = reply[d].of
      BY <3>1, <1>1, <1>2, <1>8
    <3>2. CASE k # reply[d].of
      <4>1. <<k, i>> \notin reply[d].origins
        BY <3>2, <1>8
      <4>2. <<k, i>> \in onChat
        BY <1>2
      <4>3. ~\E e \in Replying : reply[e].of = k /\ Under(e)
        BY <3>2, <1>4
      <4>4. <<k, i>> \in refused \cup unreceipted
        BY <2>1, <4>2, <4>3 DEF ChatRight
      <4> QED BY <4>1, <4>4, <1>1, <1>2
    <3> QED BY <3>1, <3>2
  <2> QED BY <2>4, <2>5
<1> QED BY <1>5, <1>6, <1>7, <1>9 DEF RetractionInv

(* Nothing but the store and the compaction moves.                            *)
LEMMA LineStays ==
  ASSUME RetractionInv, lineage' = lineage, held' = held, threads' = threads,
         standing' = standing, home' = home, receipted' = receipted, onChat' = onChat,
         reply' = reply, excused' = excused, lingering' = lingering,
         unreceipted' = unreceipted, refused' = refused, inStore' \subseteq inStore
  PROVE  RetractionInv'
<1>1. LineageRows' = LineageRows /\ Serving' = Serving
  BY DEF LineageRows, Serving
<1>2. RetractionTyped' /\ CommandsRight'
  BY DEF RetractionInv, RetractionTyped, CommandsRight, Under
<1>3. OneFact' /\ RowsFiled'
  BY <1>1 DEF RetractionInv, OneFact, RowsFiled
<1>4. \A d \in Replying : SwapRight(d)'
  BY <1>1 DEF RetractionInv, SwapRight
<1>5. ASSUME NEW k \in Answers PROVE ShownRight(k)' /\ ChatRight(k)'
  <2>1. ShownRight(k) /\ ChatRight(k) /\ Facts(k)' = Facts(k)
    BY <1>1 DEF RetractionInv, Facts
  <2>2. Gone(k) => Gone(k)'
    BY <1>1, GoneBehind
  <2>3. ShownRight(k)'
    BY <2>1, <2>2 DEF ShownRight
  <2>4. ChatRight(k)'
    BY <2>1 DEF ChatRight, Under
  <2> QED BY <2>3, <2>4
<1> QED BY <1>2, <1>3, <1>4, <1>5 DEF RetractionInv

(* The successor holds nothing that the thread before it does not.            *)
LEMMA Succeeded ==
  ASSUME RetractionInv, NEW R \in SUBSET held[Serving],
         held' = [held EXCEPT ![threads + 1] = R],
         threads < MaxThreads, threads' = threads + 1, lineage' = Append(lineage, threads + 1),
         standing' = standing, home' = home, receipted' = receipted, onChat' = onChat,
         reply' = reply, excused' = excused, lingering' = lingering,
         unreceipted' = unreceipted, refused' = refused, inStore' = inStore
  PROVE  RetractionInv'
<1>0. RetractionTyped /\ CommandsRight /\ OneFact /\ RowsFiled
  BY DEF RetractionInv
<1>3. /\ threads \in Nat /\ threads >= 1 /\ MaxThreads \in Nat /\ threads + 1 \in 1 .. MaxThreads
      /\ threads + 1 > threads /\ lineage \in Seq(1 .. threads) /\ lineage # <<>>
      /\ Len(lineage) \in Nat /\ Len(lineage) >= 1 /\ Serving = lineage[Len(lineage)]
      /\ Serving \in 1 .. MaxThreads
      /\ \A i \in 1 .. Len(lineage) : lineage[i] \in 1 .. threads
  BY <1>0, LineageFacts DEF RetractionTyped
<1>4. /\ held' \in [1 .. MaxThreads -> SUBSET ThreadRows] /\ held'[threads + 1] = R
      /\ \A t \in 1 .. threads : held'[t] = held[t]
  <2>1. R \in SUBSET ThreadRows
    BY <1>0, <1>3 DEF RetractionTyped
  <2> QED BY <2>1, <1>0, <1>3 DEF RetractionTyped
<1>5. /\ lineage' \in Seq(1 .. threads + 1) /\ Len(lineage') = Len(lineage) + 1 /\ lineage' # <<>>
      /\ \A i \in 1 .. Len(lineage) : lineage'[i] = lineage[i]
      /\ lineage'[Len(lineage) + 1] = threads + 1
  <2>1. lineage \in Seq(1 .. threads + 1) /\ threads + 1 \in 1 .. threads + 1
    BY <1>3
  <2> QED BY <2>1, <1>3
<1>6. \A i \in 1 .. Len(lineage) + 1 : i \in 1 .. Len(lineage) \/ i = Len(lineage) + 1
  BY <1>3
<1>7. \A i, j \in 1 .. Len(lineage') : i < j => lineage'[i] < lineage'[j]
  <2> SUFFICES ASSUME NEW i \in 1 .. Len(lineage'), NEW j \in 1 .. Len(lineage'), i < j
               PROVE  lineage'[i] < lineage'[j]
    OBVIOUS
  <2>1. i \in 1 .. Len(lineage)
    BY <1>3, <1>5
  <2>2. lineage'[i] = lineage[i] /\ lineage[i] \in 1 .. threads
    BY <2>1, <1>3, <1>5
  <2>3. CASE j \in 1 .. Len(lineage)
    BY <2>1, <2>2, <2>3, <1>0, <1>5 DEF RetractionTyped
  <2>4. CASE j = Len(lineage) + 1
    BY SMTT(30), <2>2, <2>4, <1>3, <1>5
  <2> QED BY <2>3, <2>4, <1>5, <1>6
<1>8. RetractionTyped'
  <2>1. threads' \in 1 .. MaxThreads
    BY <1>3
  <2>2. standing' \subseteq 1 .. threads'
    <3>1. standing \subseteq 1 .. threads /\ \A t \in 1 .. threads : t \in 1 .. threads'
      BY <1>0, <1>3 DEF RetractionTyped
    <3> QED BY <3>1
  <2> QED BY <2>1, <2>2, <1>0, <1>4, <1>5, <1>7 DEF RetractionTyped
<1>9. Serving' = threads + 1 /\ ToSet(lineage') = {lineage'[i] : i \in 1 .. Len(lineage')}
  <2>1. threads + 1 \in Nat
    BY <1>3
  <2> QED BY <2>1, <1>5, LineIs DEF Serving
<1>10. \A row : row \in LineageRows' <=> row \in LineageRows
  <2> TAKE row
  <2>1. LineageRows' = UNION {held'[t] : t \in ToSet(lineage')}
    BY DEF LineageRows
  <2>2. row \in LineageRows' <=> \E i \in 1 .. Len(lineage') : row \in held'[lineage'[i]]
    BY <2>1, <1>9
  <2>3. row \in LineageRows <=> \E i \in 1 .. Len(lineage) : row \in held[lineage[i]]
    BY <1>0, LineageFacts
  <2>4. \A i \in 1 .. Len(lineage) : held'[lineage'[i]] = held[lineage[i]] /\ i \in 1 .. Len(lineage')
    BY SMTT(30), <1>3, <1>4, <1>5
  <2>5. held'[lineage'[Len(lineage) + 1]] \subseteq held[lineage[Len(lineage)]]
    BY <1>3, <1>4, <1>5
  <2>6. Len(lineage) \in 1 .. Len(lineage)
    BY <1>3
  <2>7. row \in LineageRows' => row \in LineageRows
    BY <2>2, <2>3, <2>4, <2>5, <2>6, <1>5, <1>6
  <2> QED BY <2>2, <2>3, <2>4, <2>7
<1>11. LineageRows' = LineageRows
  BY <1>10
<1>12. \A e \in Replying : Under(e)' <=> Under(e)
  BY DEF Under
<1>13. CommandsRight'
  <2>1. \A t \in 1 .. threads : t \in 1 .. threads'
    BY <1>3
  <2>2. \A e, f \in Replying : Under(e) /\ Under(f) => e = f
    BY <1>0 DEF CommandsRight
  <2>3. ASSUME NEW e \in Replying, Under(e)
        PROVE  /\ reply[e].of \in Answers /\ home'[reply[e].of] # 0
               /\ reply[e].at \in {"strip", "swap"} => reply[e].thread \in 1 .. threads'
               /\ \A o \in reply[e].origins : o[1] = reply[e].of
               /\ \A i \in 1 .. Chunks : <<reply[e].of, i>> \in reply[e].origins \cup unreceipted'
    BY <2>1, <2>3, <1>0 DEF CommandsRight
  <2> QED BY <2>2, <2>3, <1>12 DEF CommandsRight
<1>14. ASSUME NEW e \in Replying PROVE SwapRight(e)'
  <2>1. reply[e].at = "swap" => reply[e].thread \in 1 .. threads
    BY <1>0 DEF CommandsRight, Under
  <2>2. reply[e].at = "swap" => reply[e].thread # threads + 1
    BY <2>1, <1>3
  <2>3. ~(reply'[e].at = "swap" /\ reply'[e].thread = Serving')
    BY <2>2, <1>9
  <2> QED BY <2>3 DEF SwapRight
<1>15. OneFact' /\ RowsFiled'
  BY <1>0, <1>11 DEF OneFact, RowsFiled
<1>16. ASSUME NEW k \in Answers PROVE ShownRight(k)' /\ ChatRight(k)'
  <2>1. ShownRight(k) /\ ChatRight(k)
    BY DEF RetractionInv
  <2>2. Facts(k)' = Facts(k) /\ Shows(k)' = Shows(k)
    BY <1>11 DEF Facts, Shows
  <2>3. ShownRight(k)'
    BY <2>1, <2>2, <1>11, GoneBehind DEF ShownRight
  <2>4. ChatRight(k)'
    BY <2>1, <2>2, <1>12 DEF ChatRight
  <2> QED BY <2>3, <2>4
<1> QED BY <1>8, <1>13, <1>14, <1>15, <1>16 DEF RetractionInv

LEMMA CompactionKeeps ==
  ASSUME RetractionInv, CompactionForks \/ CompactionCaptures \/ CompactionInstalls \/ Collects
  PROVE  RetractionInv'
<1>1. CASE \/ CompactionForks \/ CompactionCaptures \/ Collects
           \/ CompactionInstalls /\ UNCHANGED descent
  BY <1>1, LineStays
     DEF CompactionForks, CompactionCaptures, CompactionInstalls, Collects, descent, outward,
         keeping, outcomes
<1>2. CASE CompactionInstalls /\ ~UNCHANGED descent
  <2>1. /\ compaction.source = Serving /\ threads < MaxThreads
        /\ held' = [held EXCEPT ![threads + 1] = held[compaction.source] \ compaction.cut]
        /\ lineage' = Append(lineage, threads + 1) /\ threads' = threads + 1
        /\ standing' = standing
    BY <1>2 DEF CompactionInstalls
  <2>2. /\ home' = home /\ receipted' = receipted /\ onChat' = onChat /\ reply' = reply
        /\ excused' = excused /\ lingering' = lingering /\ unreceipted' = unreceipted
        /\ refused' = refused /\ inStore' = inStore
    BY <1>2 DEF CompactionInstalls, outward, outcomes
  <2>3. held[Serving] \ compaction.cut \in SUBSET held[Serving]
    OBVIOUS
  <2>4. held' = [held EXCEPT ![threads + 1] = held[Serving] \ compaction.cut]
    BY <2>1
  <2> QED BY <2>1, <2>2, <2>3, <2>4, Succeeded
<1> QED BY <1>1, <1>2

LEMMA RetractionPreserved ==
  ASSUME Intakes <= 1, RetractionInv, [RetractionNext]_retractionVars
  PROVE  RetractionInv'
<1>1. CASE \E k \in Answers : FilesAnswer(k) \/ RecordsReceipt(k)
  BY <1>1, FilesAnswerKeeps, RecordsReceiptKeeps
<1>2. CASE \E d \in Replying : RepliesOnly(d) \/ ResolveRetraction(d)
  BY <1>2, RepliesOnlyKeeps, ResolveKeeps
<1>3. CASE \E d \in Replying : StripReads(d) \/ StripSwaps(d) \/ StripTears(d)
                                 \/ StripStandsDown(d) \/ StripFails(d) \/ Retract(d)
  BY <1>3, StripReadsKeeps, StripSwapsKeeps, StripTearsKeeps, StripStandsDownKeeps,
     StripFailsKeeps, RetractKeeps
<1>4. CASE CompactionForks \/ CompactionCaptures \/ CompactionInstalls \/ Collects
  BY <1>4, CompactionKeeps
<1>5. CASE UNCHANGED retractionVars
  BY <1>5, LineStays DEF retractionVars, descent, outward, keeping, outcomes
<1> QED BY <1>1, <1>2, <1>3, <1>4, <1>5 DEF RetractionNext

(* With no command under way, no strip and no directive is still to come.     *)
LEMMA RetractionInvIsWhole == RetractionInv => RetractionWhole
<1> SUFFICES ASSUME RetractionInv, NEW k \in Answers, Facts(k) # {}
             PROVE  /\ Cardinality(Facts(k)) = 1
                    /\ (\A d \in Replying : reply[d].at \in {"idle", "over"}) =>
                          /\ k \in excused \/ <<"answer", k, 0>> \notin LineageRows
                          /\ k \in excused \cup lingering \/ Shows(k) = {}
                          /\ \A i \in 1 .. Chunks :
                                <<k, i>> \in onChat => <<k, i>> \in refused \cup unreceipted
  BY DEF RetractionWhole
<1>1. PICK f \in Facts(k) : TRUE
  OBVIOUS
<1>2. Facts(k) = {f}
  BY DEF RetractionInv, OneFact, Facts
<1>3. Cardinality(Facts(k)) = 1
  BY <1>2, FS_Singleton
<1>4. ShownRight(k) /\ ChatRight(k)
  BY DEF RetractionInv
<1>5. (\A d \in Replying : reply[d].at \in {"idle", "over"}) =>
         \A d \in Replying : reply[d].at \notin {"strip", "swap"} /\ ~Under(d)
  BY DEF Under
<1> QED BY <1>3, <1>4, <1>5 DEF ShownRight, Gone, ChatRight

(* An answer is asked back once; and past its commands no thread of the       *)
(* lineage holds it, but where its last strip stood down or failed, nor a     *)
(* quote of it, but where its words were still in the store when that strip   *)
(* had ended; and none of its messages stays on the chat but what the         *)
(* platform refused to take back and what had no receipt (RetractionWhole),   *)
(* with one ingestion at a time, which is how the adapter hands them over.    *)
THEOREM AnswersGoWhole ==
  ASSUME Intakes <= 1
  PROVE  RetractionSpec => []RetractionWhole
<1>1. RetractionInit => RetractionInv
  BY RetractionStarts
<1>2. RetractionInv /\ [RetractionNext]_retractionVars => RetractionInv'
  BY RetractionPreserved
<1>3. RetractionInv => RetractionWhole
  BY RetractionInvIsWhole
<1> QED BY <1>1, <1>2, <1>3, PTL DEF RetractionSpec
===============================================================================
