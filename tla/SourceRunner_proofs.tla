-------------------------- MODULE SourceRunner_proofs --------------------------
(***************************************************************************)
(* Proofs about SourceRunner: for every number of workers, every queue     *)
(* capacity and every number of events, the threads, the channel and the   *)
(* batches implement ScanRun.  What has to be shown is that no fragment is *)
(* ever in two places, and that without a cancellation or a panic every    *)
(* observed fragment is in some place, so that it must be in a batch when  *)
(* all workers have left.                                                  *)
(***************************************************************************)
EXTENDS SourceRunner, TLAPS

Elements(q) == {q[i] : i \in 1 .. Len(q)}
NoRepeats(q) == \A i, j \in 1 .. Len(q) : q[i] = q[j] => i = j

\* What a thread has in its hands at each of its program counters.
Holds ==
  /\ producer \in {"schedule", "send"} <=> pending # None
  /\ producer # "done" => outcome = None
  /\ producer = "done" => AllEnded
  /\ \A w \in Worker : worker[w] \in {"taken", "scan"} <=> job[w] # None
  /\ \A w \in Worker : worker[w] = "unspawned" => batch[w] = {}

\* Every fragment anywhere has been observed.
Known ==
  /\ Elements(queue) \subseteq Fragment
  /\ pending \in Fragment \cup {None}
  /\ \A w \in Worker : job[w] \in Fragment \cup {None} /\ batch[w] \subseteq Fragment

\* No fragment is in two places.
Unique ==
  /\ NoRepeats(queue)
  /\ pending \notin Elements(queue)
  /\ \A w \in Worker :
       /\ job[w] # None => job[w] # pending /\ job[w] \notin Elements(queue)
       /\ batch[w] \cap (Elements(queue) \cup {pending}) = {}
       /\ \A v \in Worker : /\ job[v] \notin batch[w]
                            /\ v # w /\ job[v] # None => job[v] # job[w]

\* While nothing disturbs the run, workers leave only when all has been received,
\* and every observed fragment is somewhere.
Spawned == \A w \in Worker : worker[w] # "unspawned"

Somewhere(f) ==
  \/ f \in Elements(queue)
  \/ f = pending
  \/ \E w \in Worker : f = job[w] \/ f \in batch[w]

Complete ==
  /\ producer \in Visiting => Spawned
  /\ producer \in {"join", "done"} /\ sourceResult \in {"Continue", "Stop"} => Spawned
  /\ sourceResult = "Cancelled" => token
  /\ ~token => \A w \in Worker : worker[w] = "exited" => queue = <<>> /\ ~SenderOpen
  /\ ~token /\ ~WorkerPanicked => \A f \in Fragment : Somewhere(f)

IInv == TypeOK /\ Holds /\ Known /\ Unique /\ Complete

-----------------------------------------------------------------------------
(* Sequences.                                                              *)

\* Sending adds one element at the end.
LEMMA AppendFacts ==
  ASSUME NEW q \in Seq(Nat), NEW x \in Nat
  PROVE  /\ Append(q, x) \in Seq(Nat)
         /\ Elements(Append(q, x)) = Elements(q) \cup {x}
         /\ NoRepeats(q) /\ x \notin Elements(q) => NoRepeats(Append(q, x))
<1> DEFINE a == Append(q, x)
<1>1. /\ a \in Seq(Nat) /\ Len(a) = Len(q) + 1 /\ a[Len(q) + 1] = x
      /\ \A i \in 1 .. Len(q) : a[i] = q[i]
      /\ Len(q) \in Nat
  OBVIOUS
<1> HIDE DEF a
<1>2. Elements(a) = Elements(q) \cup {x}
  BY <1>1 DEF Elements
<1>3. NoRepeats(q) /\ x \notin Elements(q) => NoRepeats(a)
  BY <1>1 DEF Elements, NoRepeats
<1> QED
  BY <1>1, <1>2, <1>3 DEF a

\* Receiving removes the first element.
LEMMA TailFacts ==
  ASSUME NEW q \in Seq(Nat), q # <<>>
  PROVE  /\ Head(q) \in Nat /\ Tail(q) \in Seq(Nat)
         /\ Elements(q) = {Head(q)} \cup Elements(Tail(q))
         /\ NoRepeats(q) => NoRepeats(Tail(q)) /\ Head(q) \notin Elements(Tail(q))
<1> DEFINE t == Tail(q)
<1>1. /\ t \in Seq(Nat) /\ Len(q) = Len(t) + 1 /\ q[1] = Head(q) /\ Head(q) \in Nat
      /\ \A i \in 1 .. Len(t) : t[i] = q[i + 1]
      /\ Len(t) \in Nat
  OBVIOUS
<1> HIDE DEF t
<1>2. Elements(q) = {Head(q)} \cup Elements(t)
  <2>1. \A i \in 1 .. Len(q) : i = 1 \/ i - 1 \in 1 .. Len(t)
    BY <1>1
  <2>2. \A i \in 1 .. Len(t) : i + 1 \in 1 .. Len(q)
    BY <1>1
  <2>3. Elements(q) \subseteq {Head(q)} \cup Elements(t)
    <3>1. ASSUME NEW i \in 1 .. Len(q)
          PROVE  q[i] \in {Head(q)} \cup Elements(t)
      <4>1. CASE i = 1
        BY <4>1, <1>1
      <4>2. CASE i - 1 \in 1 .. Len(t)
        <5>1. (i - 1) + 1 = i
          BY <4>2
        <5>2. t[i - 1] = q[(i - 1) + 1]
          BY <4>2, <1>1
        <5> QED
          BY <4>2, <5>1, <5>2 DEF Elements
      <4> QED
        BY <2>1, <4>1, <4>2
    <3> QED
      BY <3>1 DEF Elements
  <2>4. {Head(q)} \cup Elements(t) \subseteq Elements(q)
    <3>1. 1 \in 1 .. Len(q)
      BY <1>1
    <3>2. ASSUME NEW i \in 1 .. Len(t)
          PROVE  t[i] \in Elements(q)
      <4>1. t[i] = q[i + 1] /\ i + 1 \in 1 .. Len(q)
        BY <1>1, <2>2
      <4> QED
        BY <4>1 DEF Elements
    <3> QED
      BY <3>1, <3>2, <1>1 DEF Elements
  <2> QED
    BY <2>3, <2>4
<1>3. ASSUME NoRepeats(q)
      PROVE  NoRepeats(t) /\ Head(q) \notin Elements(t)
  <2>1. ASSUME NEW i \in 1 .. Len(t), NEW j \in 1 .. Len(t), t[i] = t[j]
        PROVE  i = j
    <3>1. t[i] = q[i + 1] /\ t[j] = q[j + 1]
      BY <1>1
    <3>2. i + 1 \in 1 .. Len(q) /\ j + 1 \in 1 .. Len(q)
      BY <1>1
    <3>3. i + 1 = j + 1
      BY <1>3, <2>1, <3>1, <3>2 DEF NoRepeats
    <3> QED
      BY <3>3
  <2>2. ASSUME NEW i \in 1 .. Len(t)
        PROVE  t[i] # Head(q)
    <3>1. t[i] = q[i + 1] /\ i + 1 \in 1 .. Len(q) /\ 1 \in 1 .. Len(q) /\ i + 1 # 1
      BY <1>1
    <3> QED
      BY <1>1, <1>3, <3>1 DEF NoRepeats
  <2> QED
    BY <2>1, <2>2 DEF Elements, NoRepeats
<1> QED
  BY <1>1, <1>2, <1>3 DEF t


-----------------------------------------------------------------------------
(* How a fragment moves: what each move does to Known and Unique.          *)

\* A step that moves no fragment.
LEMMA NothingMoves ==
  ASSUME Known, Unique, UNCHANGED <<observed, pending, queue, job, batch>>
  PROVE  Known' /\ Unique' /\ \A f : Somewhere(f)' = Somewhere(f)
<1>1. Elements(queue)' = Elements(queue) /\ NoRepeats(queue)' = NoRepeats(queue)
  BY DEF Elements, NoRepeats
<1> QED
  BY <1>1 DEF Known, Unique, Fragment, Somewhere

\* The producer gives up its fragment.
LEMMA PendingDropped ==
  ASSUME TypeOK, Known, Unique, pending' = None, UNCHANGED <<observed, queue, job, batch>>
  PROVE  Known' /\ Unique'
<1>1. Elements(queue)' = Elements(queue) /\ NoRepeats(queue)' = NoRepeats(queue)
  BY DEF Elements, NoRepeats
<1>2. Fragment' = Fragment /\ None \notin Fragment
  BY RunnerAssumption DEF Fragment
<1>3. Known'
  BY <1>1, <1>2 DEF Known
<1>4. None \notin Elements(queue) /\ \A w \in Worker : None \notin batch[w]
  BY <1>2 DEF Known
<1> QED
  BY <1>1, <1>3, <1>4 DEF Unique

\* The producer takes the next fragment.
LEMMA PendingObserved ==
  ASSUME TypeOK, Known, Unique, observed' = observed + 1, pending' = observed + 1,
         UNCHANGED <<queue, job, batch>>
  PROVE  Known' /\ Unique'
<1>1. Elements(queue)' = Elements(queue) /\ NoRepeats(queue)' = NoRepeats(queue)
  BY DEF Elements, NoRepeats
<1>2. /\ Fragment \subseteq Fragment' /\ pending' \in Fragment' /\ pending' \notin Fragment
      /\ pending' # None
  BY RunnerAssumption DEF Fragment, TypeOK
<1>3. Known'
  BY <1>1, <1>2 DEF Known
<1>4. /\ pending' \notin Elements(queue)
      /\ \A w \in Worker : job[w] # pending' /\ pending' \notin batch[w]
  BY <1>2 DEF Known
<1> QED
  BY <1>1, <1>3, <1>4 DEF Unique

\* The producer sends its fragment.
LEMMA PendingSent ==
  ASSUME TypeOK, Known, Unique, pending # None, queue' = Append(queue, pending),
         pending' = None, UNCHANGED <<observed, job, batch>>
  PROVE  Known' /\ Unique' /\ Elements(queue)' = Elements(queue) \cup {pending}
<1>1. pending \in Nat /\ queue \in Seq(Nat) /\ None \notin Fragment /\ Fragment' = Fragment
  BY RunnerAssumption DEF TypeOK, Fragment
<1>2. Elements(queue)' = Elements(queue) \cup {pending} /\ NoRepeats(queue)'
  BY <1>1, AppendFacts DEF Unique
<1>3. Known'
  BY <1>1, <1>2 DEF Known
<1>4. None \notin Elements(queue)' /\ \A w \in Worker : None \notin batch[w]
  BY <1>1, <1>3 DEF Known
<1> QED
  BY <1>2, <1>3, <1>4 DEF Unique

\* A worker receives the fragment at the head of the channel.
LEMMA HeadReceived ==
  ASSUME TypeOK, Known, Unique, NEW w \in Worker, job[w] = None, queue # <<>>,
         job' = [job EXCEPT ![w] = Head(queue)], queue' = Tail(queue),
         UNCHANGED <<observed, pending, batch>>
  PROVE  /\ Known' /\ Unique' /\ job'[w] # None
         /\ Elements(queue) = {job'[w]} \cup Elements(queue)'
<1>1. queue \in Seq(Nat) /\ None \notin Fragment /\ Fragment' = Fragment
      /\ job' \in [Worker -> Nat \cup {None}] /\ job \in [Worker -> Nat \cup {None}]
  BY TailFacts, RunnerAssumption DEF TypeOK, Fragment
<1>2. /\ job'[w] = Head(queue)
      /\ \A v \in Worker : v # w => job'[v] = job[v]
  BY <1>1
<1>3. /\ Elements(queue) = {Head(queue)} \cup Elements(queue)'
      /\ NoRepeats(queue)' /\ Head(queue) \notin Elements(queue)'
  BY <1>1, TailFacts DEF Unique
<1>4. Known'
  BY <1>1, <1>2, <1>3 DEF Known
<1>5. Unique'
  <2>1. \A v \in Worker : job[v] # Head(queue) /\ Head(queue) \notin batch[v]
    BY <1>1, <1>3 DEF Unique, Known
  <2> QED
    BY <1>1, <1>2, <1>3, <2>1 DEF Unique
<1>6. job'[w] # None
  BY <1>1, <1>2, <1>3 DEF Known
<1> QED
  BY <1>2, <1>3, <1>4, <1>5, <1>6

\* A worker gives up its fragment.
LEMMA JobDropped ==
  ASSUME TypeOK, Known, Unique, NEW w \in Worker, job' = [job EXCEPT ![w] = None],
         UNCHANGED <<observed, pending, queue, batch>>
  PROVE  Known' /\ Unique'
<1>1. Elements(queue)' = Elements(queue) /\ NoRepeats(queue)' = NoRepeats(queue)
  BY DEF Elements, NoRepeats
<1>2. Fragment' = Fragment /\ None \notin Fragment /\ job \in [Worker -> Nat \cup {None}]
  BY RunnerAssumption DEF Fragment, TypeOK
<1>3. job'[w] = None /\ \A v \in Worker : v # w => job'[v] = job[v]
  BY <1>2
<1>4. Known'
  BY <1>1, <1>2, <1>3 DEF Known
<1>5. \A v \in Worker : None \notin batch[v]
  BY <1>2 DEF Known
<1>6. Unique'
  BY <1>1, <1>3, <1>5 DEF Unique
<1> QED
  BY <1>4, <1>6

\* A worker merges its fragment's findings into its batch.
LEMMA JobMerged ==
  ASSUME TypeOK, Known, Unique, NEW w \in Worker, job[w] # None,
         batch' = [batch EXCEPT ![w] = @ \cup {job[w]}],
         job' = [job EXCEPT ![w] = None],
         UNCHANGED <<observed, pending, queue>>
  PROVE  Known' /\ Unique'
<1>1. Elements(queue)' = Elements(queue) /\ NoRepeats(queue)' = NoRepeats(queue)
  BY DEF Elements, NoRepeats
<1>2. /\ Fragment' = Fragment /\ None \notin Fragment
      /\ job \in [Worker -> Nat \cup {None}] /\ batch \in [Worker -> SUBSET Nat]
  BY RunnerAssumption DEF Fragment, TypeOK
<1>3. /\ job'[w] = None /\ \A v \in Worker : v # w => job'[v] = job[v]
      /\ batch'[w] = batch[w] \cup {job[w]}
      /\ \A v \in Worker : v # w => batch'[v] = batch[v]
  BY <1>2
<1>4. Known'
  BY <1>1, <1>2, <1>3 DEF Known
<1>5. \A v \in Worker : None \notin batch'[v]
  BY <1>2, <1>4 DEF Known
<1>6. Unique'
  BY <1>1, <1>3, <1>5 DEF Unique
<1> QED
  BY <1>4, <1>6


-----------------------------------------------------------------------------
(* The parts of the invariant, each kept by every step.                    *)

\* Types and what threads hold, for the steps of the caller and the producer.
LEMMA ProducerTypes ==
  ASSUME TypeOK, Holds, Cancel \/ ProducerStep
  PROVE  TypeOK' /\ Holds'
<1> USE DEF TypeOK, Holds, Visiting, AllEnded, Ended
<1>1. CASE Cancel
  BY <1>1 DEF Cancel, producerVars, workerVars
<1>2. CASE SpawnWorker
  <2>1. PICK w \in Worker : worker[w] = "unspawned" /\ worker' = [worker EXCEPT ![w] = "top"]
    BY <1>2 DEF SpawnWorker
  <2>2. producer = "spawn" /\ UNCHANGED <<token, producerVars, queue, receiver, job, batch>>
    BY <1>2 DEF SpawnWorker
  <2>3. TypeOK'
    BY <2>1, <2>2 DEF producerVars, WorkerPc
  <2> QED
    BY <2>1, <2>2, <2>3 DEF producerVars
<1>3. CASE StartVisit \/ SetupFails \/ SourceReturns
  BY <1>3 DEF StartVisit, SetupFails, SourceReturns, Goto, Return, workerVars
<1>4. CASE CallbackFails \/ CallbackKeepsIssue
  <2>1. emitted' \in 0 .. MaxEvents
    BY <1>4, RunnerAssumption DEF CallbackFails, CallbackKeepsIssue, Emit
  <2> QED
    BY <1>4, <2>1 DEF CallbackFails, CallbackKeepsIssue, Emit, Goto, Return, workerVars
<1>5. CASE CallbackObserves
  <2>1. emitted' \in 0 .. MaxEvents /\ observed' \in Nat /\ observed' # None
    BY <1>5, RunnerAssumption DEF CallbackObserves, Emit
  <2> QED
    BY <1>5, <2>1 DEF CallbackObserves, Emit, Goto, Return, workerVars
<1>6. CASE ScheduleEnsuresActive \/ SendFails
  BY <1>6 DEF ScheduleEnsuresActive, SendFails, Goto, Return, workerVars
<1>7. CASE TrySend
  <2>1. queue' \in Seq(Nat)
    <3>1. pending \in Nat
      BY <1>7 DEF TrySend
    <3>2. CASE queue' = Append(queue, pending)
      BY <3>1, <3>2
    <3>3. CASE queue' = queue
      BY <3>3
    <3> QED
      BY <1>7, <3>2, <3>3 DEF TrySend
  <2> QED
    BY <1>7, <2>1 DEF TrySend, Goto, Return, workerVars
<1>8. CASE FinishRun
  <2>1. RunTermination \in Termination
    BY DEF RunTermination, Termination
  <2>2. Merged \in SUBSET Nat
    BY DEF Merged, Joined
  <2>3. outcome' \in [termination : Termination, findings : SUBSET Nat]
    BY <1>8, <2>1, <2>2 DEF FinishRun
  <2> QED
    BY <1>8, <2>3 DEF FinishRun, Goto, workerVars
<1> QED
  BY <1>1, <1>2, <1>3, <1>4, <1>5, <1>6, <1>7, <1>8 DEF ProducerStep

\* The same for the steps of a worker.
LEMMA WorkerTypes ==
  ASSUME TypeOK, Holds, NEW w \in Worker, WorkerStep(w)
  PROVE  TypeOK' /\ Holds'
<1>1. UNCHANGED <<token, producerVars>>
  BY DEF WorkerStep, WorkerPolls, LockReceiver, ReceiveFragment, ReceiveFails, StartScan,
         WorkerIsCancelled, ScanCompletes, ScanPanics, WorkerExits
<1> USE DEF TypeOK, Holds, WorkerGoto, WorkerPc, AllEnded, Ended
<1>2. CASE WorkerPolls(w) \/ LockReceiver(w) \/ ReceiveFails(w) \/ StartScan(w)
  <2>1. TypeOK'
    BY <1>1, <1>2 DEF WorkerPolls, LockReceiver, ReceiveFails, StartScan, producerVars
  <2> QED
    BY <1>1, <1>2, <2>1 DEF WorkerPolls, LockReceiver, ReceiveFails, StartScan, producerVars
<1>3. CASE ReceiveFragment(w)
  <2>1. Head(queue) \in Nat /\ Tail(queue) \in Seq(Nat) /\ Head(queue) # None
    BY <1>3, TailFacts, RunnerAssumption DEF ReceiveFragment
  <2>2. TypeOK'
    BY <1>1, <1>3, <2>1 DEF ReceiveFragment, producerVars
  <2> QED
    BY <1>1, <1>3, <2>1, <2>2 DEF ReceiveFragment, producerVars
<1>4. CASE WorkerIsCancelled(w) \/ ScanPanics(w)
  <2>1. PICK pc \in {"exited", "panicked"} : WorkerExits(w, pc)
    BY <1>4 DEF WorkerIsCancelled, ScanPanics
  <2>2. TypeOK'
    BY <1>1, <2>1 DEF WorkerExits, producerVars
  <2> QED
    BY <1>1, <2>1, <2>2 DEF WorkerExits, producerVars
<1>5. CASE ScanCompletes(w)
  <2>1. TypeOK'
    BY <1>1, <1>5 DEF ScanCompletes, producerVars
  <2> QED
    BY <1>1, <1>5, <2>1 DEF ScanCompletes, producerVars
<1> QED
  BY <1>2, <1>3, <1>4, <1>5 DEF WorkerStep

\* No step puts a fragment in two places.
LEMMA PlacesStep ==
  ASSUME TypeOK, Holds, Known, Unique, [Next]_vars
  PROVE  Known' /\ Unique'
<1>2. CASE CallbackObserves
  BY <1>2, PendingObserved DEF CallbackObserves, Emit, workerVars
<1>3. CASE ScheduleEnsuresActive \/ SendFails
  <2>1. UNCHANGED <<observed, queue, job, batch>> /\ pending' \in {pending, None}
    BY <1>3 DEF ScheduleEnsuresActive, SendFails, workerVars
  <2> QED
    BY <2>1, NothingMoves, PendingDropped
<1>4. CASE TrySend
  <2>1. UNCHANGED <<observed, job, batch>> /\ pending # None
    BY <1>4 DEF TrySend, workerVars, Holds
  <2> QED
    BY <1>4, <2>1, NothingMoves, PendingSent DEF TrySend
<1>5. ASSUME NEW w \in Worker, ReceiveFragment(w)
      PROVE  Known' /\ Unique'
  <2>1. UNCHANGED <<observed, pending, batch>> /\ job[w] = None
    BY <1>5 DEF ReceiveFragment, producerVars, Holds
  <2> QED
    BY <1>5, <2>1, HeadReceived DEF ReceiveFragment
<1>6. ASSUME NEW w \in Worker, WorkerIsCancelled(w) \/ ScanPanics(w)
      PROVE  Known' /\ Unique'
  BY <1>6, JobDropped DEF WorkerIsCancelled, ScanPanics, WorkerExits, producerVars
<1>7. ASSUME NEW w \in Worker, ScanCompletes(w)
      PROVE  Known' /\ Unique'
  <2>1. UNCHANGED <<observed, pending, queue>> /\ job[w] # None
    BY <1>7 DEF ScanCompletes, producerVars, Holds
  <2> QED
    BY <1>7, <2>1, JobMerged DEF ScanCompletes
<1>8. CASE \/ Cancel \/ SpawnWorker \/ StartVisit \/ SetupFails \/ SourceReturns
           \/ CallbackFails \/ CallbackKeepsIssue \/ FinishRun \/ Returned
           \/ UNCHANGED vars
  BY <1>8, NothingMoves DEF Cancel, SpawnWorker, StartVisit, SetupFails, SourceReturns,
     CallbackFails, CallbackKeepsIssue, Emit, FinishRun, Returned, vars, producerVars,
     workerVars
<1>9. ASSUME NEW w \in Worker,
             WorkerPolls(w) \/ LockReceiver(w) \/ ReceiveFails(w) \/ StartScan(w)
      PROVE  Known' /\ Unique'
  BY <1>9, NothingMoves DEF WorkerPolls, LockReceiver, ReceiveFails, StartScan, producerVars
<1> QED
  BY <1>2, <1>3, <1>4, <1>5, <1>6, <1>7, <1>8, <1>9 DEF Next, ProducerStep, WorkerStep


\* With every worker spawned, a channel without receivers means that a worker has
\* panicked or that nothing is left to receive.
LEMMA AllEndedFacts ==
  ASSUME TypeOK, Holds, Complete, Spawned, AllEnded, ~token, ~WorkerPanicked
  PROVE  /\ queue = <<>> /\ ~SenderOpen
         /\ \A w \in Worker : worker[w] = "exited" /\ job[w] = None
<1>1. \A w \in Worker : worker[w] = "exited"
  BY DEF Spawned, AllEnded, Ended, WorkerPanicked
<1>2. \A w \in Worker : job[w] = None
  BY <1>1 DEF Holds
<1> QED
  BY <1>1, <1>2, RunnerAssumption DEF Complete

\* The steps of the caller and the producer lose no fragment.
LEMMA ProducerComplete ==
  ASSUME TypeOK, Holds, Known, Unique, Complete, Cancel \/ ProducerStep
  PROVE  Complete'
<1>0. sourceResult' = "Cancelled" => token'
  BY DEF ProducerStep, Cancel, SpawnWorker, StartVisit, SetupFails, SourceReturns,
     CallbackFails, CallbackKeepsIssue, CallbackObserves, Emit, ScheduleEnsuresActive,
     TrySend, SendFails, FinishRun, Return, producerVars, Complete
<1>1. CASE Cancel
  <2>1. UNCHANGED <<producerVars, queue, workerVars>> /\ token' = TRUE
    BY <1>1 DEF Cancel
  <2> QED
    BY <1>0, <2>1 DEF Complete, Spawned, producerVars, workerVars
<1>2. CASE SpawnWorker
  <2>1. PICK w \in Worker : worker[w] = "unspawned" /\ worker' = [worker EXCEPT ![w] = "top"]
    BY <1>2 DEF SpawnWorker
  <2>2. /\ UNCHANGED <<token, producer, sourceResult, observed, pending, queue, job, batch>>
        /\ producer = "spawn"
    BY <1>2 DEF SpawnWorker, producerVars
  <2>3. /\ \A v \in Worker : worker'[v] = "unspawned" => worker[v] = "unspawned"
        /\ \A v \in Worker : worker'[v] = "exited" => worker[v] = "exited"
        /\ WorkerPanicked' = WorkerPanicked /\ SenderOpen' = SenderOpen
    BY <2>1, <2>2 DEF TypeOK, WorkerPanicked, SenderOpen
  <2>4. Fragment' = Fragment /\ \A f : Somewhere(f)' = Somewhere(f)
    BY <2>2, NothingMoves DEF Fragment
  <2> QED
    BY <2>2, <2>3, <2>4 DEF Complete, Spawned, Visiting
<1>3. CASE StartVisit \/ SetupFails \/ SourceReturns \/ CallbackFails \/ CallbackKeepsIssue
  <2>1. UNCHANGED <<token, observed, pending, queue, workerVars>>
    BY <1>3 DEF StartVisit, SetupFails, SourceReturns, CallbackFails, CallbackKeepsIssue, Emit
  <2>2. /\ Fragment' = Fragment /\ \A f : Somewhere(f)' = Somewhere(f)
        /\ WorkerPanicked' = WorkerPanicked /\ Spawned' = Spawned
    BY <2>1, NothingMoves DEF Fragment, workerVars, WorkerPanicked, Spawned
  <2>3. /\ SenderOpen' => SenderOpen
        /\ producer' \in Visiting => Spawned
        /\ producer' \in {"join", "done"} /\ sourceResult' \in {"Continue", "Stop"} => Spawned
    BY <1>3 DEF StartVisit, SetupFails, SourceReturns, CallbackFails, CallbackKeepsIssue,
       Emit, Goto, Return, SenderOpen, Visiting, Complete, Spawned
  <2> QED
    BY <1>0, <2>1, <2>2, <2>3 DEF Complete, workerVars
<1>4. CASE CallbackObserves
  <2>1. /\ UNCHANGED <<token, queue, workerVars>> /\ producer = "visit"
        /\ producer' = "schedule" /\ observed' = observed + 1 /\ pending' = observed + 1
    BY <1>4 DEF CallbackObserves, Emit, Goto
  <2>2. /\ Elements(queue)' = Elements(queue) /\ SenderOpen' = SenderOpen
        /\ WorkerPanicked' = WorkerPanicked /\ Spawned' = Spawned
    BY <2>1 DEF Elements, workerVars, SenderOpen, Visiting, WorkerPanicked, Spawned
  <2>3. ASSUME NEW f \in Fragment', \A g \in Fragment : Somewhere(g)
        PROVE  Somewhere(f)'
    <3>1. f \in Fragment \/ f = pending'
      BY <2>1 DEF Fragment, TypeOK
    <3>2. pending = None /\ f # None
      BY <2>1, RunnerAssumption DEF Holds, Fragment
    <3> QED
      BY <2>1, <2>2, <2>3, <3>1, <3>2 DEF Somewhere, workerVars
  <2> QED
    BY <1>0, <2>1, <2>2, <2>3 DEF Complete, Visiting, workerVars
<1>5. CASE ScheduleEnsuresActive
  <2>1. UNCHANGED <<token, observed, queue, workerVars>> /\ producer = "schedule"
    BY <1>5 DEF ScheduleEnsuresActive
  <2>2. /\ Fragment' = Fragment /\ WorkerPanicked' = WorkerPanicked /\ Spawned' = Spawned
        /\ Elements(queue)' = Elements(queue)
    BY <2>1 DEF Fragment, workerVars, WorkerPanicked, Spawned, Elements
  <2>3. /\ SenderOpen /\ Spawned
        /\ ~token => pending' = pending
    BY <1>5, <2>1 DEF ScheduleEnsuresActive, SenderOpen, Visiting, Complete
  <2> QED
    BY <1>0, <2>1, <2>2, <2>3 DEF Complete, workerVars, Somewhere
<1>6. CASE SendFails
  <2>1. /\ UNCHANGED <<token, observed, queue, workerVars>> /\ producer = "send"
        /\ producer' = "join" /\ Disconnected
    BY <1>6 DEF SendFails, Return, Goto
  <2>2. Spawned /\ SenderOpen
    BY <2>1 DEF Complete, SenderOpen, Visiting
  <2>3. token \/ WorkerPanicked
    BY <2>1, <2>2, AllEndedFacts DEF Disconnected
  <2>4. WorkerPanicked' = WorkerPanicked /\ Spawned' = Spawned
    BY <2>1 DEF workerVars, WorkerPanicked, Spawned
  <2> QED
    BY <1>0, <2>1, <2>2, <2>3, <2>4 DEF Complete, workerVars
<1>7. CASE TrySend
  <2>1. /\ UNCHANGED <<token, observed, workerVars>> /\ producer = "send"
        /\ producer' \in {"visit", "schedule"} /\ pending # None
    BY <1>7 DEF TrySend, Goto, Holds
  <2>2. /\ Spawned /\ SenderOpen /\ SenderOpen' /\ Fragment' = Fragment
        /\ WorkerPanicked' = WorkerPanicked /\ Spawned' = Spawned
    BY <2>1 DEF Complete, SenderOpen, Visiting, workerVars, WorkerPanicked, Spawned, Fragment
  <2>3. \A f \in Fragment : Somewhere(f) => Somewhere(f)'
    <3>1. CASE UNCHANGED <<queue, pending>>
      BY <2>1, <3>1, NothingMoves DEF workerVars
    <3>2. CASE queue' = Append(queue, pending) /\ pending' = None
      <4>1. Elements(queue)' = Elements(queue) \cup {pending}
        BY <2>1, <3>2, PendingSent DEF workerVars
      <4> QED
        BY <2>1, <4>1 DEF Somewhere, workerVars
    <3> QED
      BY <1>7, <3>1, <3>2 DEF TrySend
  <2> QED
    BY <1>0, <2>1, <2>2, <2>3 DEF Complete, workerVars
<1>8. CASE FinishRun
  <2>1. /\ UNCHANGED <<token, observed, pending, sourceResult, queue, workerVars>>
        /\ producer = "join" /\ producer' = "done"
    BY <1>8 DEF FinishRun, Goto
  <2>2. /\ Fragment' = Fragment /\ \A f : Somewhere(f)' = Somewhere(f)
        /\ WorkerPanicked' = WorkerPanicked /\ Spawned' = Spawned
        /\ ~SenderOpen /\ ~SenderOpen'
    BY <2>1, NothingMoves DEF Fragment, workerVars, WorkerPanicked, Spawned, SenderOpen, Visiting
  <2> QED
    BY <1>0, <2>1, <2>2 DEF Complete, workerVars, Visiting
<1> QED
  BY <1>1, <1>2, <1>3, <1>4, <1>5, <1>6, <1>7, <1>8 DEF ProducerStep


\* The steps of a worker lose a fragment only when the token is raised or the
\* worker panics.
LEMMA WorkerComplete ==
  ASSUME TypeOK, Holds, Known, Unique, Complete, NEW w \in Worker, WorkerStep(w)
  PROVE  Complete'
<1>1. UNCHANGED <<token, producerVars>>
  BY DEF WorkerStep, WorkerPolls, LockReceiver, ReceiveFragment, ReceiveFails, StartScan,
         WorkerIsCancelled, ScanCompletes, ScanPanics, WorkerExits
<1>2. /\ Fragment' = Fragment /\ SenderOpen' = SenderOpen
      /\ worker \in [Worker -> WorkerPc] /\ job \in [Worker -> Nat \cup {None}]
      /\ batch \in [Worker -> SUBSET Nat]
  BY <1>1 DEF producerVars, Fragment, SenderOpen, TypeOK
<1>3. PICK pc \in WorkerPc \ {"unspawned"} :
        worker' = [worker EXCEPT ![w] = pc] /\ worker[w] \notin Ended
  BY DEF WorkerStep, WorkerPolls, LockReceiver, ReceiveFragment, ReceiveFails, StartScan,
         WorkerIsCancelled, ScanCompletes, ScanPanics, WorkerExits, WorkerGoto, WorkerPc, Ended
<1>4. /\ Spawned => Spawned'
      /\ \A v \in Worker : v # w => worker'[v] = worker[v]
      /\ worker'[w] = pc
      /\ WorkerPanicked => WorkerPanicked'
  BY <1>2, <1>3 DEF Spawned, WorkerPanicked, Ended
<1>5. ASSUME ~token, NEW v \in Worker, worker'[v] = "exited"
      PROVE  queue' = <<>> /\ ~SenderOpen'
  <2>1. CASE v # w
    <3>1. queue = <<>> /\ ~SenderOpen
      BY <1>4, <1>5, <2>1 DEF Complete
    <3>2. queue' = queue
      BY <3>1 DEF WorkerStep, WorkerPolls, LockReceiver, ReceiveFragment, ReceiveFails,
         StartScan, WorkerIsCancelled, ScanCompletes, ScanPanics, WorkerExits
    <3> QED
      BY <1>2, <3>1, <3>2
  <2>2. CASE v = w
    <3>1. ReceiveFails(w)
      BY <1>2, <1>5, <2>2 DEF WorkerStep, WorkerPolls, LockReceiver, ReceiveFragment,
         ReceiveFails, StartScan, WorkerIsCancelled, ScanCompletes, ScanPanics, WorkerExits,
         WorkerGoto
    <3> QED
      BY <1>2, <3>1 DEF ReceiveFails
  <2> QED
    BY <2>1, <2>2
<1>6. ASSUME ~token, ~WorkerPanicked', NEW f \in Fragment, Somewhere(f)
      PROVE  Somewhere(f)'
  <2>1. CASE WorkerPolls(w) \/ LockReceiver(w) \/ ReceiveFails(w) \/ StartScan(w)
    <3>1. UNCHANGED <<observed, pending, queue, job, batch>>
      BY <1>1, <2>1 DEF WorkerPolls, LockReceiver, ReceiveFails, StartScan, producerVars
    <3> QED
      BY <1>6, <3>1, NothingMoves
  <2>2. CASE ReceiveFragment(w)
    <3>1. /\ job[w] = None /\ UNCHANGED <<observed, pending, batch>> /\ queue # <<>>
          /\ job' = [job EXCEPT ![w] = Head(queue)] /\ queue' = Tail(queue)
      BY <1>1, <2>2 DEF ReceiveFragment, producerVars, Holds
    <3>2. Elements(queue) = {job'[w]} \cup Elements(queue)'
      BY <3>1, HeadReceived
    <3>3. f # None /\ \A v \in Worker : v # w => job'[v] = job[v]
      BY <1>2, <3>1, RunnerAssumption DEF Fragment
    <3> QED
      BY <1>6, <3>1, <3>2, <3>3 DEF Somewhere
  <2>3. CASE WorkerIsCancelled(w)
    BY <1>6, <2>3 DEF WorkerIsCancelled
  <2>4. CASE ScanPanics(w)
    <3>1. worker'[w] = "panicked"
      BY <1>2, <2>4 DEF ScanPanics, WorkerExits, WorkerGoto
    <3> QED
      BY <1>6, <3>1 DEF WorkerPanicked
  <2>5. CASE ScanCompletes(w)
    <3>1. /\ UNCHANGED <<pending, queue>>
          /\ batch'[w] = batch[w] \cup {job[w]}
          /\ \A v \in Worker : v # w => job'[v] = job[v] /\ batch'[v] = batch[v]
      BY <1>1, <1>2, <2>5 DEF ScanCompletes, producerVars
    <3>2. Elements(queue)' = Elements(queue)
      BY <3>1 DEF Elements
    <3> QED
      BY <1>6, <3>1, <3>2 DEF Somewhere
  <2> QED
    BY <2>1, <2>2, <2>3, <2>4, <2>5 DEF WorkerStep
<1> QED
  BY <1>1, <1>2, <1>4, <1>5, <1>6 DEF Complete, producerVars

-----------------------------------------------------------------------------
(* The theorems.                                                           *)

\* The initial state satisfies the invariant.
LEMMA InitialRun ==
  ASSUME Init PROVE IInv
<1>1. TypeOK /\ Holds
  <2>1. queue \in Seq(Nat) /\ emitted \in 0 .. MaxEvents /\ observed \in Nat
    BY RunnerAssumption DEF Init
  <2>2. TypeOK
    BY <2>1 DEF Init, TypeOK, Visiting, WorkerPc, Ended
  <2>3. Holds
    BY DEF Init, Holds
  <2> QED
    BY <2>2, <2>3
<1>2. Elements(queue) = {} /\ NoRepeats(queue) /\ Fragment = {}
  BY DEF Init, Elements, NoRepeats, Fragment
<1>3. Known /\ Unique
  BY <1>2 DEF Init, Known, Unique
<1>4. Complete
  BY <1>2 DEF Init, Complete, Visiting
<1> QED
  BY <1>1, <1>3, <1>4 DEF IInv

\* Every step of a run keeps the invariant.
LEMMA RunStep ==
  ASSUME IInv, [Next]_vars PROVE IInv'
<1>1. Known' /\ Unique'
  BY PlacesStep DEF IInv
<1>2. CASE Cancel \/ ProducerStep
  BY <1>1, <1>2, ProducerTypes, ProducerComplete DEF IInv
<1>3. ASSUME NEW w \in Worker, WorkerStep(w)
      PROVE  IInv'
  BY <1>1, <1>3, WorkerTypes, WorkerComplete DEF IInv
<1>4. CASE Returned \/ UNCHANGED vars
  <2>1. UNCHANGED <<token, producerVars, queue, workerVars>>
    BY <1>4 DEF Returned, vars
  <2>2. /\ TypeOK' /\ Holds'
        /\ UNCHANGED <<observed, pending, queue, job, batch>>
        /\ WorkerPanicked' = WorkerPanicked /\ Spawned' = Spawned
        /\ Fragment' = Fragment /\ SenderOpen' = SenderOpen
    BY <2>1 DEF IInv, TypeOK, Holds, producerVars, workerVars, WorkerPanicked, Spawned,
                Fragment, SenderOpen, AllEnded
  <2>3. \A f : Somewhere(f)' = Somewhere(f)
    BY <2>2, NothingMoves DEF IInv
  <2>4. Complete'
    BY <2>1, <2>2, <2>3 DEF IInv, Complete, producerVars, workerVars
  <2> QED
    BY <1>1, <2>2, <2>4 DEF IInv
<1> QED
  BY <1>2, <1>3, <1>4 DEF Next

\* The inductive invariant of a run.
THEOREM RunInvariant == Spec => []IInv
<1>1. Init => IInv
  BY InitialRun
<1>2. IInv /\ [Next]_vars => IInv'
  BY RunStep
<1> QED
  BY <1>1, <1>2, PTL DEF Spec

\* Every variable of a run keeps its type.
THEOREM TypeCorrect == Spec => []TypeOK
<1>1. IInv => TypeOK
  BY DEF IInv
<1> QED
  BY <1>1, RunInvariant, PTL


-----------------------------------------------------------------------------
(* The run implements ScanRun.                                             *)

\* The findings a worker that can be joined holds do not change, and no worker
\* panics, in a step that leaves the batches alone and only spawns or exits.
LEMMA MergedUntouched ==
  ASSUME IInv, batch' = batch,
         \A w \in Worker : worker'[w] = "panicked" <=> worker[w] = "panicked",
         \A w \in Worker : worker'[w] = "unspawned" => worker[w] = "unspawned"
  PROVE  Merged' = Merged /\ WorkerPanicked' = WorkerPanicked
<1>1. \A w \in Joined : w \in Joined'
  BY DEF Joined
<1>2. \A w \in Joined' : w \in Joined \/ batch[w] = {}
  BY DEF Joined, IInv, Holds
<1> QED
  BY <1>1, <1>2 DEF Merged, WorkerPanicked

\* Steps that the caller of run can see nothing of.
LEMMA InvisibleSteps ==
  ASSUME IInv, [Next]_vars,
         ~Cancel, ~CallbackObserves, ~FinishRun,
         \A w \in Worker : ~ScanCompletes(w) /\ ~ScanPanics(w)
  PROVE  UNCHANGED <<token, observed, Merged, WorkerPanicked, outcome>>
<1>1. CASE \/ StartVisit \/ SetupFails \/ SourceReturns \/ CallbackFails
           \/ CallbackKeepsIssue \/ ScheduleEnsuresActive \/ TrySend \/ SendFails
           \/ Returned \/ UNCHANGED vars
  <2>1. UNCHANGED <<token, observed, outcome, batch, worker>>
    BY <1>1 DEF StartVisit, SetupFails, SourceReturns, CallbackFails, CallbackKeepsIssue,
       Emit, ScheduleEnsuresActive, TrySend, SendFails, Returned, vars, producerVars,
       workerVars
  <2> QED
    BY <2>1, MergedUntouched
<1>2. CASE SpawnWorker
  <2>1. UNCHANGED <<token, observed, outcome, batch>>
    BY <1>2 DEF SpawnWorker, producerVars
  <2>2. PICK w \in Worker : worker[w] = "unspawned" /\ worker' = [worker EXCEPT ![w] = "top"]
    BY <1>2 DEF SpawnWorker
  <2>3. \A v \in Worker : worker'[v] = IF v = w THEN "top" ELSE worker[v]
    BY <2>2 DEF IInv, TypeOK
  <2> QED
    BY <2>1, <2>2, <2>3, MergedUntouched
<1>3. ASSUME NEW w \in Worker,
             \/ WorkerPolls(w) \/ LockReceiver(w) \/ ReceiveFragment(w) \/ ReceiveFails(w)
             \/ StartScan(w) \/ WorkerIsCancelled(w)
      PROVE  UNCHANGED <<token, observed, Merged, WorkerPanicked, outcome>>
  <2>1. UNCHANGED <<token, observed, outcome, batch>>
    BY <1>3 DEF WorkerPolls, LockReceiver, ReceiveFragment, ReceiveFails, StartScan,
       WorkerIsCancelled, WorkerExits, producerVars
  <2>2. PICK pc \in {"exited", "lock", "recv", "taken", "scan"} :
          worker' = [worker EXCEPT ![w] = pc] /\ worker[w] \notin {"panicked", "unspawned"}
    BY <1>3 DEF WorkerPolls, LockReceiver, ReceiveFragment, ReceiveFails, StartScan,
       WorkerIsCancelled, WorkerExits, WorkerGoto
  <2>3. \A v \in Worker : worker'[v] = IF v = w THEN pc ELSE worker[v]
    BY <2>2 DEF IInv, TypeOK
  <2> QED
    BY <2>1, <2>2, <2>3, MergedUntouched
<1> QED
  BY <1>1, <1>2, <1>3 DEF Next, ProducerStep, WorkerStep

\* A completed scan merges one observed fragment that has not been merged.
LEMMA ScanMerges ==
  ASSUME IInv, NEW w \in Worker, ScanCompletes(w)
  PROVE  Promise!Merge
<1>1. /\ worker[w] = "scan" /\ UNCHANGED <<token, producerVars>>
      /\ batch' = [batch EXCEPT ![w] = @ \cup {job[w]}]
      /\ worker' = [worker EXCEPT ![w] = "top"]
  BY DEF ScanCompletes, WorkerGoto
<1>2. /\ batch'[w] = batch[w] \cup {job[w]} /\ worker'[w] = "top"
      /\ \A v \in Worker : v # w => batch'[v] = batch[v] /\ worker'[v] = worker[v]
  BY <1>1 DEF IInv, TypeOK
<1>3. Joined' = Joined /\ w \in Joined /\ WorkerPanicked' = WorkerPanicked
  BY <1>1, <1>2 DEF Joined, WorkerPanicked
<1>4. Merged' = Merged \cup {job[w]}
  BY <1>2, <1>3 DEF Merged, Joined
<1>5. job[w] \in Fragment \ Merged
  <2>1. job[w] # None
    BY <1>1 DEF IInv, Holds
  <2>2. job[w] \in Fragment /\ \A v \in Worker : job[w] \notin batch[v]
    BY <2>1 DEF IInv, Known, Unique
  <2> QED
    BY <2>2 DEF Merged, Joined
<1>6. outcome = None /\ observed' = observed /\ outcome' = outcome
  <2>1. ~AllEnded
    BY <1>1 DEF AllEnded, Ended
  <2> QED
    BY <1>1, <2>1 DEF producerVars, IInv, Holds
<1> QED
  BY <1>1, <1>3, <1>4, <1>5, <1>6 DEF Promise!Merge, Promise!Fragment, Fragment


\* A panic loses the findings of its worker's batch.
LEMMA ScanPanicLoses ==
  ASSUME IInv, NEW w \in Worker, ScanPanics(w)
  PROVE  Promise!Panic
<1>1. /\ worker[w] = "scan" /\ UNCHANGED <<token, producerVars, batch>>
      /\ worker' = [worker EXCEPT ![w] = "panicked"]
  BY DEF ScanPanics, WorkerExits, WorkerGoto
<1>2. /\ worker'[w] = "panicked"
      /\ \A v \in Worker : v # w => worker'[v] = worker[v]
  BY <1>1 DEF IInv, TypeOK
<1>3. WorkerPanicked' /\ Joined' \subseteq Joined
  BY <1>2 DEF WorkerPanicked, Joined
<1>4. Merged' \subseteq Merged
  BY <1>1, <1>3 DEF Merged
<1>5. outcome = None
  <2>1. ~AllEnded
    BY <1>1 DEF AllEnded, Ended
  <2> QED
    BY <2>1 DEF IInv, Holds
<1>6. WorkerPanicked' = TRUE
  BY <1>3 DEF WorkerPanicked
<1> QED
  BY <1>1, <1>4, <1>5, <1>6 DEF Promise!Panic, producerVars

\* When all workers have left an undisturbed run, everything has been merged.
LEMMA NothingMissing ==
  ASSUME IInv, producer = "join", AllEnded, ~token, ~WorkerPanicked,
         sourceResult \in {"Continue", "Stop"}
  PROVE  Merged = Fragment
<1>1. /\ queue = <<>> /\ Spawned
      /\ \A w \in Worker : worker[w] = "exited" /\ job[w] = None
  BY AllEndedFacts DEF IInv, Complete
<1>2. Elements(queue) = {} /\ pending = None
  BY <1>1 DEF Elements, IInv, Holds
<1>3. Joined = Worker
  BY <1>1 DEF Joined
<1>4. ASSUME NEW f \in Fragment
      PROVE  f \in Merged
  <2>1. Somewhere(f) /\ f # None
    BY RunnerAssumption DEF IInv, Complete, Fragment
  <2> QED
    BY <1>1, <1>2, <1>3, <2>1 DEF Somewhere, Merged
<1>5. Merged \subseteq Fragment
  BY <1>3 DEF Merged, IInv, Known
<1> QED
  BY <1>4, <1>5

\* What finish_run returns is what ScanRun permits.
LEMMA FinishReturns ==
  ASSUME IInv, FinishRun
  PROVE  Promise!Return
<1>1. /\ producer = "join" /\ AllEnded /\ outcome = None
      /\ outcome' = [termination |-> RunTermination, findings |-> Merged]
      /\ UNCHANGED <<token, observed, worker, batch>>
  BY DEF FinishRun, IInv, Holds, workerVars
<1>2. Merged' = Merged /\ WorkerPanicked' = WorkerPanicked
  BY <1>1 DEF Merged, Joined, WorkerPanicked
<1>3. RunTermination \in {"Completed", "Stopped", "Cancelled", "SourceError", "WorkerPanic"}
  BY DEF RunTermination
<1>4. Promise!Permitted(RunTermination)
  <2>1. CASE WorkerPanicked
    <3>1. RunTermination = "WorkerPanic"
      BY <2>1 DEF RunTermination
    <3> QED
      BY <2>1, <3>1 DEF Promise!Permitted
  <2>2. CASE ~WorkerPanicked /\ (token \/ sourceResult = "Cancelled")
    <3>1. RunTermination = "Cancelled"
      BY <2>2 DEF RunTermination
    <3>2. token
      BY <2>2 DEF IInv, Complete
    <3> QED
      BY <2>2, <3>1, <3>2 DEF Promise!Permitted
  <2>3. CASE ~WorkerPanicked /\ ~token /\ sourceResult \in {"Continue", "Stop"}
    <3>1. RunTermination \in {"Completed", "Stopped"}
      BY <2>3 DEF RunTermination
    <3>2. Merged = Fragment
      BY <1>1, <2>3, NothingMissing
    <3> QED
      BY <2>3, <3>1, <3>2 DEF Promise!Permitted, Promise!Fragment, Fragment
  <2>4. CASE ~WorkerPanicked /\ ~token /\ sourceResult \notin {"Continue", "Stop", "Cancelled"}
    <3>1. RunTermination = "SourceError"
      BY <2>4 DEF RunTermination
    <3> QED
      BY <2>4, <3>1 DEF Promise!Permitted
  <2> QED
    BY <2>1, <2>2, <2>3, <2>4
<1> QED
  BY <1>1, <1>2, <1>3, <1>4 DEF Promise!Return

\* Every step of a run is a step of ScanRun, or one its caller cannot see.
LEMMA StepKeepsPromise ==
  ASSUME IInv, [Next]_vars
  PROVE  [Promise!Next]_Promise!runVars
<1>1. CASE Cancel
  <2>1. UNCHANGED <<worker, batch, observed, outcome>> /\ token' = TRUE
    BY <1>1 DEF Cancel, workerVars, producerVars
  <2>2. Merged' = Merged /\ WorkerPanicked' = WorkerPanicked
    BY <2>1 DEF Merged, Joined, WorkerPanicked
  <2> QED
    BY <2>1, <2>2 DEF Promise!Next, Promise!Cancel
<1>2. CASE CallbackObserves
  <2>1. /\ UNCHANGED <<token, worker, batch, outcome>> /\ producer = "visit"
        /\ observed' = observed + 1
    BY <1>2 DEF CallbackObserves, Emit, workerVars
  <2>2. Merged' = Merged /\ WorkerPanicked' = WorkerPanicked /\ outcome = None
    BY <2>1 DEF Merged, Joined, WorkerPanicked, IInv, Holds
  <2> QED
    BY <2>1, <2>2 DEF Promise!Next, Promise!Observe
<1>3. CASE FinishRun
  BY <1>3, FinishReturns DEF Promise!Next
<1>4. ASSUME NEW w \in Worker, ScanCompletes(w) \/ ScanPanics(w)
      PROVE  [Promise!Next]_Promise!runVars
  BY <1>4, ScanMerges, ScanPanicLoses DEF Promise!Next
<1>5. CASE /\ ~Cancel /\ ~CallbackObserves /\ ~FinishRun
           /\ \A w \in Worker : ~ScanCompletes(w) /\ ~ScanPanics(w)
  BY <1>5, InvisibleSteps DEF Promise!runVars
<1> QED
  BY <1>1, <1>2, <1>3, <1>4, <1>5

\* Nothing observed is missing from a run that ends normally, nothing is merged
\* twice, and cancellation and panics are reported: the threads of run_with_worker
\* implement ScanRun for every number of workers and every queue capacity.
THEOREM RunnerKeepsPromise == Spec => KeepsPromise
<1>1. Init => Promise!Init
  BY DEF Init, Promise!Init, Merged, Joined, WorkerPanicked
<1>2. IInv /\ [Next]_vars => [Promise!Next]_Promise!runVars
  BY StepKeepsPromise
<1> QED
  BY <1>1, <1>2, RunInvariant, PTL DEF Spec, KeepsPromise, Promise!Spec

=============================================================================
