---------------------------- MODULE BudgetRunner ----------------------------
(***************************************************************************)
(* A SourceRunner with an installed budget: run_with_scan, schedule and    *)
(* WorkerGuard of crates/rustleaks-sources/src/runner/budget.rs, with      *)
(* merge_complete_scan, finish_run and SourceStatistics::observe of        *)
(* runner.rs.                                                              *)
(*                                                                         *)
(* One producer runs the source and its callback; it spawns the workers,   *)
(* feeds them through a bounded channel and joins them.  The workers share *)
(* the channel's receiver behind a mutex.  The caller's token may be       *)
(* raised at any moment.  Each action is what one thread does between two  *)
(* reads or writes of state another thread can change.                     *)
(***************************************************************************)
EXTENDS BudgetAccounting, Sequences

CONSTANTS
  QueueCapacity,    \* capacity of the sync_channel
  MaxEvents,        \* bound: events a source emits in one run
  Commit,           \* commit identifiers fragments may carry
  MaxUniqueCommits  \* MAX_UNIQUE_COMMITS

ASSUME RunnerAssumption ==
  /\ Worker # {}
  /\ QueueCapacity \in Nat \ {0}
  /\ MaxEvents \in Nat
  /\ IsFiniteSet(Commit) /\ None \notin Commit
  /\ MaxUniqueCommits \in Nat
  /\ None \notin Worker

VARIABLES
  producer,      \* program counter of the thread that called run
  emitted,       \* events the source has emitted
  event,         \* the event in the callback's hands
  pending,       \* the admitted fragment not yet sent, or None
  commits,       \* SourceStatistics.unique_commits
  sourceResult,  \* what source.visit returned
  outcome,       \* the SourceOutcome being built, None before finish_run
  queue,         \* fragments in the channel
  receiver,      \* the worker that holds the receiver mutex, or None
  worker,        \* each worker's program counter
  job,           \* the fragment each worker has taken, or None
  batch          \* the fragments whose findings are in each worker's batch

producerVars == <<producer, emitted, event, pending, commits, sourceResult, outcome>>
workerVars == <<receiver, worker, job, batch>>
vars == <<accountingVars, producerVars, queue, workerVars>>

\* An admitted fragment is named by its place in the order of admission.
Fragment == 1 .. fragments

\* A fragment that carries an issue is not scanned, like an issue alone.
IssueEvent == [issue |-> TRUE, bytes |-> 0, commit |-> None]
Event == {IssueEvent} \cup
         [issue : {FALSE}, bytes : FragmentBytes, commit : Commit \cup {None}]

Visiting == {"visit", "received", "accepted", "schedule", "poll", "send"}

\* sync_channel(QueueCapacity): the runner drops its sender after the visit and
\* its receiver before it, so only running workers keep the channel connected.
SenderOpen == producer \in {"spawn"} \cup Visiting
Ended == {"unspawned", "exited", "panicked"}
Disconnected == \A w \in Worker : worker[w] \in Ended

Init ==
  /\ AccountingInit
  /\ producer = "spawn"
  /\ emitted = 0
  /\ event = None
  /\ pending = None
  /\ commits = {}
  /\ sourceResult = "Continue"
  /\ outcome = None
  /\ queue = <<>>
  /\ receiver = None
  /\ worker = [w \in Worker |-> "unspawned"]
  /\ job = [w \in Worker |-> None]
  /\ batch = [w \in Worker |-> {}]

-----------------------------------------------------------------------------
(* The caller.                                                             *)

CancelRun ==
  /\ producer # "done"
  /\ Cancel
  /\ UNCHANGED <<producerVars, queue, workerVars>>

-----------------------------------------------------------------------------
(* Spawning.                                                               *)

Goto(pc) == producer' = pc

\* source.visit returns, or is never called: the sender is dropped.
Return(result) ==
  /\ sourceResult' = result
  /\ Goto("join")

\* Workers already spawned run while the others are being spawned.
SpawnWorker ==
  /\ producer = "spawn"
  /\ \E w \in Worker :
       /\ worker[w] = "unspawned"
       /\ worker' = [worker EXCEPT ![w] = "top"]
  /\ UNCHANGED <<accountingVars, producerVars, queue, receiver, job, batch>>

StartVisit ==
  /\ producer = "spawn"
  /\ \A w \in Worker : worker[w] # "unspawned"
  /\ Goto("visit")
  /\ UNCHANGED <<accountingVars, emitted, event, pending, commits, sourceResult,
                 outcome, queue, workerVars>>

\* No memory for the worker handles: nothing is spawned or visited.
AllocateHandlesFails ==
  /\ producer = "spawn"
  /\ \A w \in Worker : worker[w] = "unspawned"
  /\ Return("Setup")
  /\ UNCHANGED <<accountingVars, emitted, event, pending, commits, outcome,
                 queue, workerVars>>

SpawnFails ==
  /\ producer = "spawn"
  /\ \E w \in Worker : worker[w] = "unspawned"
  /\ StopInternally
  /\ Return("Setup")
  /\ UNCHANGED <<emitted, event, pending, commits, outcome, queue, workerVars>>

-----------------------------------------------------------------------------
(* The source.  It may poll the operation between events, and it returns   *)
(* at once when the callback asks it to stop or fails.                     *)

SourceSeesCancellation ==
  /\ producer = "visit"
  /\ IsCancelled
  /\ Return("Cancelled")
  /\ UNCHANGED <<accountingVars, emitted, event, pending, commits, outcome,
                 queue, workerVars>>

\* The source ends, stops of its own accord, or fails.
SourceReturns ==
  /\ producer = "visit"
  /\ \E result \in {"Continue", "Stop", "Terminal"} : Return(result)
  /\ UNCHANGED <<accountingVars, emitted, event, pending, commits, outcome,
                 queue, workerVars>>

\* The source emits an event and the callback's ensure_active reads the token.
SourceEmits ==
  /\ producer = "visit"
  /\ emitted < MaxEvents
  /\ emitted' = emitted + 1
  /\ \/ /\ token
        /\ Return("Inactive")
        /\ UNCHANGED event
     \/ /\ ~token
        /\ event' \in Event
        /\ Goto("received")
        /\ UNCHANGED sourceResult
  /\ UNCHANGED <<accountingVars, pending, commits, outcome, queue, workerVars>>

-----------------------------------------------------------------------------
(* The callback.                                                           *)

\* The callback's own poll of the operation, before it looks at the event.
CallbackPolls ==
  /\ producer = "received"
  /\ \/ IsCancelled /\ Return("Stop")
     \/ ~IsCancelled /\ Goto("accepted") /\ UNCHANGED sourceResult
  /\ UNCHANGED <<accountingVars, emitted, event, pending, commits, outcome,
                 queue, workerVars>>

CallbackTakesIssue ==
  /\ producer = "accepted"
  /\ event.issue
  /\ \/ RetainIssue /\ Goto("visit") /\ UNCHANGED sourceResult
     \/ RefuseIssue /\ Return("Stop")
  /\ UNCHANGED <<emitted, event, pending, commits, outcome, queue, workerVars>>

CallbackCountsRefused ==
  /\ producer = "accepted"
  /\ ~event.issue
  /\ Return("Stop")
  /\ \/ /\ IsCancelled
        /\ fragments' = fragments + 1
        /\ UNCHANGED <<token, stopVars, originalBytes, issues, scanVars>>
     \/ RefuseFragment(event.bytes)
  /\ UNCHANGED <<emitted, event, pending, commits, outcome, queue, workerVars>>

CallbackRefusesFragment ==
  /\ producer = "accepted"
  /\ ~event.issue
  /\ Return("Stop")
  /\ \/ IsCancelled /\ UNCHANGED accountingVars
     \/ RefuseFragment(event.bytes)
  /\ UNCHANGED <<emitted, event, pending, commits, outcome, queue, workerVars>>

\* SourceStatistics::observe refuses a commit beyond its safety limit.
Observable(commit) ==
  \/ commit \in commits \cup {None}
  \/ Cardinality(commits) < MaxUniqueCommits

\* The fragment is admitted and counted; then its statistics are observed.
CallbackAdmitsFragment ==
  /\ producer = "accepted"
  /\ ~event.issue
  /\ Admit(event.bytes)
  /\ \/ /\ Observable(event.commit)
        /\ commits' = (commits \cup {event.commit}) \ {None}
        /\ pending' = fragments'
        /\ Goto("schedule")
        /\ UNCHANGED sourceResult
     \/ /\ ~Observable(event.commit)
        /\ Return("Rejected")
        /\ UNCHANGED <<commits, pending>>
  /\ UNCHANGED <<emitted, event, outcome, queue, workerVars>>

\* schedule: ensure_active, then the operation, then try_send, in a loop.
ScheduleEnsuresActive ==
  /\ producer = "schedule"
  /\ \/ token /\ Return("Inactive") /\ pending' = None
     \/ ~token /\ Goto("poll") /\ UNCHANGED <<pending, sourceResult>>
  /\ UNCHANGED <<accountingVars, emitted, event, commits, outcome, queue, workerVars>>

SchedulePolls ==
  /\ producer = "poll"
  /\ \/ IsCancelled /\ Return("Stop") /\ pending' = None
     \/ ~IsCancelled /\ Goto("send") /\ UNCHANGED <<pending, sourceResult>>
  /\ UNCHANGED <<accountingVars, emitted, event, commits, outcome, queue, workerVars>>

TrySendDropsWhenFull ==
  /\ producer = "send"
  /\ ~Disconnected
  /\ pending' = None
  /\ Goto("visit")
  /\ IF Len(queue) < QueueCapacity
     THEN queue' = Append(queue, pending) ELSE UNCHANGED queue
  /\ UNCHANGED <<accountingVars, emitted, event, commits, sourceResult, outcome,
                 workerVars>>

TrySendUnbounded ==
  /\ producer = "send"
  /\ ~Disconnected
  /\ queue' = Append(queue, pending)
  /\ pending' = None
  /\ Goto("visit")
  /\ UNCHANGED <<accountingVars, emitted, event, commits, sourceResult, outcome,
                 workerVars>>

TrySend ==
  /\ producer = "send"
  /\ ~Disconnected
  /\ \/ /\ Len(queue) < QueueCapacity
        /\ queue' = Append(queue, pending)
        /\ pending' = None
        /\ Goto("visit")
     \/ /\ Len(queue) = QueueCapacity
        /\ Goto("schedule")
        /\ UNCHANGED <<queue, pending>>
  /\ UNCHANGED <<accountingVars, emitted, event, commits, sourceResult, outcome,
                 workerVars>>

DisconnectedResultUnchecked == "Disconnected"

\* The last worker may have stopped the operation and gone after the poll: an
\* internal stop must not become a source error.
DisconnectedResult == IF stopped THEN "Stop" ELSE "Disconnected"

SendFails ==
  /\ producer = "send"
  /\ Disconnected
  /\ Return(DisconnectedResult)
  /\ pending' = None
  /\ UNCHANGED <<accountingVars, emitted, event, commits, outcome, queue, workerVars>>

-----------------------------------------------------------------------------
(* The end of the run.                                                     *)

JoinWorkers ==
  /\ producer = "join"
  /\ Disconnected
  /\ Goto("finish")
  /\ UNCHANGED <<accountingVars, emitted, event, pending, commits, sourceResult,
                 outcome, queue, workerVars>>

WorkerPanicked == \E w \in Worker : worker[w] = "panicked"

\* The precedence of finish_run; `cancelled` is the token it was given.
RunTermination(cancelled) ==
  CASE WorkerPanicked -> "WorkerPanic"
    [] ~WorkerPanicked /\ (cancelled \/ sourceResult = "Cancelled") -> "Cancelled"
    [] OTHER -> CASE sourceResult = "Continue" -> "Completed"
                  [] sourceResult = "Stop" -> "Stopped"
                  [] OTHER -> "SourceError"

\* Joined batches; the batch of a worker that panicked is gone.
FindingsOfJoined == UNION {batch[w] : w \in {v \in Worker : worker[v] = "exited"}}

\* finish_run, called with a first read of the token.
FinishRun ==
  /\ producer = "finish"
  /\ outcome' = [termination |-> RunTermination(token),
                 findings |-> FindingsOfJoined,
                 issues |-> issues + (IF WorkerPanicked THEN 1 ELSE 0)]
  /\ Goto("report")
  /\ UNCHANGED <<accountingVars, emitted, event, pending, commits, sourceResult,
                 queue, workerVars>>

StoppedForBudgetOnCancelled == exceeded # None /\ sourceResult = "Cancelled"

StoppedForBudgetOnContinue ==
  exceeded # None /\ sourceResult \in {"Continue", "Cancelled"}

StoppedForBudget ==
  exceeded # None /\ sourceResult \in {"Continue", "Stop", "Cancelled"}

\* The token is read a second time before BudgetExceeded replaces the result.
ReportBudget ==
  /\ producer = "report"
  /\ outcome' =
       [outcome EXCEPT
          !.termination = IF ~WorkerPanicked /\ ~token /\ StoppedForBudget
                          THEN "BudgetExceeded" ELSE @,
          !.issues = IF MaxIssues = None THEN @ ELSE SmallerOf(@, MaxIssues)]
  /\ Goto("done")
  /\ UNCHANGED <<accountingVars, emitted, event, pending, commits, sourceResult,
                 queue, workerVars>>

-----------------------------------------------------------------------------
(* A worker.                                                               *)

WorkerGoto(w, pc) == worker' = [worker EXCEPT ![w] = pc]

\* The poll at the top of the worker's loop.
WorkerPolls(w) ==
  /\ worker[w] = "top"
  /\ WorkerGoto(w, IF IsCancelled THEN "exited" ELSE "lock")
  /\ UNCHANGED <<accountingVars, producerVars, queue, receiver, job, batch>>

LockReceiver(w) ==
  /\ worker[w] = "lock"
  /\ receiver = None
  /\ receiver' = w
  /\ WorkerGoto(w, "recv")
  /\ UNCHANGED <<accountingVars, producerVars, queue, job, batch>>

\* recv blocks, holding the mutex, until there is a fragment or no sender.
Receive(w) ==
  /\ worker[w] = "recv"
  /\ receiver' = None
  /\ \/ /\ queue # <<>>
        /\ job' = [job EXCEPT ![w] = Head(queue)]
        /\ queue' = Tail(queue)
        /\ WorkerGoto(w, "reserve")
     \/ /\ queue = <<>>
        /\ ~SenderOpen
        /\ WorkerGoto(w, "exited")
        /\ UNCHANGED <<job, queue>>
  /\ UNCHANGED <<accountingVars, producerVars, batch>>

\* The poll in reserve's loop; a worker that gives up drops its fragment.
ReservePolls(w) ==
  /\ worker[w] = "reserve"
  /\ \/ /\ IsCancelled
        /\ job' = [job EXCEPT ![w] = None]
        /\ WorkerGoto(w, "exited")
     \/ /\ ~IsCancelled
        /\ WorkerGoto(w, "acquire")
        /\ UNCHANGED job
  /\ UNCHANGED <<accountingVars, producerVars, queue, receiver, batch>>

AcquireReservation(w) ==
  /\ worker[w] = "acquire"
  /\ \/ Reserve(w) /\ WorkerGoto(w, "scan")
     \/ MustWait /\ WorkerGoto(w, "reserve") /\ UNCHANGED accountingVars
  /\ UNCHANGED <<producerVars, queue, receiver, job, batch>>

ScanReturnsMergingPartial(w) ==
  /\ worker[w] = "scan"
  /\ WorkerGoto(w, "merge")
  /\ \E used \in ScanUse :
       \/ ScanCompletes(w, used)
       \/ ScanIsCancelled(w, used)
       \/ \E d \in Dim, requested \in ScanRequest :
            ScanExceeds(w, used, d, requested)
  /\ UNCHANGED <<producerVars, queue, receiver, job, batch>>

\* The scan returns and settles; only a complete outcome reaches the batch.
ScanReturns(w) ==
  /\ worker[w] = "scan"
  /\ \E used \in ScanUse :
       \/ /\ ScanCompletes(w, used)
          /\ WorkerGoto(w, "merge")
          /\ UNCHANGED job
       \/ /\ \/ ScanIsCancelled(w, used)
             \/ \E d \in Dim, requested \in ScanRequest :
                  ScanExceeds(w, used, d, requested)
          /\ WorkerGoto(w, "exited")
          /\ job' = [job EXCEPT ![w] = None]
  /\ UNCHANGED <<producerVars, queue, receiver, batch>>

ScanPanics(w) ==
  /\ worker[w] = "scan"
  /\ Abandon(w)
  /\ WorkerGoto(w, "panicked")
  /\ job' = [job EXCEPT ![w] = None]
  /\ UNCHANGED <<producerVars, queue, receiver, batch>>

MergeCompleteScan(w) ==
  /\ worker[w] = "merge"
  /\ batch' = [batch EXCEPT ![w] = @ \cup {job[w]}]
  /\ job' = [job EXCEPT ![w] = None]
  /\ WorkerGoto(w, "top")
  /\ UNCHANGED <<accountingVars, producerVars, queue, receiver>>

\* A panic while findings are added: WorkerGuard stops the operation.
MergePanics(w) ==
  /\ worker[w] = "merge"
  /\ StopInternally
  /\ WorkerGoto(w, "panicked")
  /\ job' = [job EXCEPT ![w] = None]
  /\ UNCHANGED <<producerVars, queue, receiver, batch>>

-----------------------------------------------------------------------------

ProducerStep ==
  \/ SpawnWorker \/ StartVisit \/ AllocateHandlesFails \/ SpawnFails
  \/ SourceSeesCancellation \/ SourceReturns \/ SourceEmits
  \/ CallbackPolls \/ CallbackTakesIssue
  \/ CallbackRefusesFragment \/ CallbackAdmitsFragment
  \/ ScheduleEnsuresActive \/ SchedulePolls \/ TrySend \/ SendFails
  \/ JoinWorkers \/ FinishRun \/ ReportBudget

WorkerStep(w) ==
  \/ WorkerPolls(w) \/ LockReceiver(w) \/ Receive(w)
  \/ ReservePolls(w) \/ AcquireReservation(w)
  \/ ScanReturns(w) \/ ScanPanics(w)
  \/ MergeCompleteScan(w) \/ MergePanics(w)

\* The outcome has been returned; nothing happens any more.
Returned == producer = "done" /\ UNCHANGED vars

Next ==
  \/ CancelRun
  \/ ProducerStep
  \/ \E w \in Worker : WorkerStep(w)
  \/ Returned

Spec == Init /\ [][Next]_vars

\* Every thread the scheduler can run keeps running; the caller need not cancel.
Fairness ==
  /\ WF_vars(ProducerStep)
  /\ \A w \in Worker : WF_vars(WorkerStep(w))

FairSpec == Spec /\ Fairness

-----------------------------------------------------------------------------
(* Properties.                                                             *)

ProducerPc == {"spawn", "join", "finish", "report", "done"} \cup Visiting
WorkerPc == {"top", "lock", "recv", "reserve", "acquire", "scan", "merge"} \cup Ended
Termination == {"Completed", "Stopped", "Cancelled", "SourceError",
                "WorkerPanic", "BudgetExceeded"}
SourceResult == {"Continue", "Stop", "Cancelled", "Terminal", "Setup",
                 "Inactive", "Rejected", "Disconnected"}
Outcome == [termination : Termination, findings : SUBSET Usize, issues : Nat]

TypeOK ==
  /\ AccountingTypeOK
  /\ producer \in ProducerPc
  /\ emitted \in 0 .. MaxEvents
  /\ event \in Event \cup {None}
  /\ pending \in Usize \cup {None}
  /\ commits \in SUBSET Commit
  /\ sourceResult \in SourceResult
  /\ outcome \in Outcome \cup {None}
  /\ queue \in Seq(Usize)
  /\ receiver \in Worker \cup {None}
  /\ worker \in [Worker -> WorkerPc]
  /\ job \in [Worker -> Usize \cup {None}]
  /\ batch \in [Worker -> SUBSET Usize]

\* What each thread has in its hands at each of its program counters.
ProducerHolds ==
  /\ producer \in {"received", "accepted"} => event \in Event
  /\ producer \in {"schedule", "poll", "send"} <=> pending # None
  /\ producer \in {"report", "done"} => outcome \in Outcome

WorkerHolds ==
  \A w \in Worker :
    /\ worker[w] \in {"reserve", "acquire", "scan", "merge"} <=> job[w] # None
    /\ worker[w] = "scan" <=> held[w] # None

Done == producer = "done"

Queued == {queue[i] : i \in 1 .. Len(queue)}
InHand(w) == {job[w]} \ {None}

\* No admitted fragment is in two places: it waits in the producer's hand or in
\* the channel, or is with one worker, or its findings are in one batch; and
\* until something stops the run, each is in one of them.
EveryFragmentOnce ==
  /\ Cardinality(Queued) = Len(queue)
  /\ (Queued \cup {pending}) \cap UNION {InHand(w) \cup batch[w] : w \in Worker} = {}
  /\ pending \notin Queued
  /\ \A w \in Worker : InHand(w) \cap batch[w] = {}
  /\ \A v, w \in Worker : v # w =>
       (InHand(v) \cup batch[v]) \cap (InHand(w) \cup batch[w]) = {}
  /\ ~IsCancelled /\ sourceResult # "Rejected" =>
       Fragment = (Queued \cup {pending} \cup
                   UNION {InHand(w) \cup batch[w] : w \in Worker}) \ {None}

\* A run reported as Completed or Stopped merged every admitted fragment.  The
\* report may be wrong when a limit was hit and the token was raised as well:
\* UnfinishedIsNeverCompleted, without that exception, is what runner.rs says.
NoSilentTruncation ==
  Done /\ outcome.termination \in {"Completed", "Stopped"}
       /\ ~(token /\ exceeded # None)
    => outcome.findings = Fragment

\* A run that hit a limit says so: only the caller's token, a panicked worker or a
\* failed source may hide BudgetExceeded, whatever the source made of the stop.
LimitIsReported ==
  Done /\ exceeded # None /\ ~token =>
    outcome.termination \in {"BudgetExceeded", "WorkerPanic", "SourceError"}

\* SourceTermination::Completed: "The source and all workers completed normally."
UnfinishedIsNeverCompleted ==
  Done /\ outcome.termination = "Completed" => outcome.findings = Fragment

\* The operation shows its internal stop to sources as a cancellation, yet a
\* caller is told Cancelled only when the token really was raised; and neither an
\* internal stop nor a cancellation is reported as a source failure.
TerminationHasCause ==
  Done =>
    /\ outcome.termination = "Cancelled" => token
    /\ outcome.termination = "SourceError" =>
         sourceResult \in {"Terminal", "Setup", "Rejected"}

\* Admitted fragments without a completed scan: one per worker, a full channel
\* and one in the producer's hand, however the run ends.  The lower bound keeps
\* SourceUsage::incomplete_fragments from underflowing.
BacklogIsBounded ==
  fragments - completedFragments \in 0 .. Cardinality(Worker) + QueueCapacity + 1

\* SourceUsage agrees with the findings: without a panic the completed scans are
\* the merged ones; with one, earlier completed batches may be discarded.
UsageAgreesWithFindings ==
  Done =>
    /\ Cardinality(outcome.findings) <= completedFragments
    /\ outcome.termination # "WorkerPanic" =>
         Cardinality(outcome.findings) = completedFragments

\* Every run ends, with all workers joined, whatever stops or panics.
Terminates == <>Done

=============================================================================
