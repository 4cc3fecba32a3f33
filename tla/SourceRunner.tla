---------------------------- MODULE SourceRunner ----------------------------
(***************************************************************************)
(* A SourceRunner without a budget: run_with_worker, worker_loop and       *)
(* finish_run of crates/rustleaks-sources/src/runner.rs.                   *)
(*                                                                         *)
(* The thread that calls run spawns the workers, runs the source and its   *)
(* callback, feeds fragments through a bounded channel and joins the       *)
(* workers.  Nothing but the caller's token stops it early, so panicking   *)
(* workers are noticed through the disconnected channel alone.             *)
(***************************************************************************)
EXTENDS Integers, Sequences, FiniteSets

CONSTANTS
  Worker,         \* the detection workers
  None,           \* Rust's None
  QueueCapacity,  \* capacity of the sync_channel
  MaxEvents       \* bound: events a source emits in one run

ASSUME RunnerAssumption ==
  /\ Worker # {} /\ IsFiniteSet(Worker)
  /\ None \notin Worker /\ None \notin Int
  /\ QueueCapacity \in Nat \ {0}
  /\ MaxEvents \in Nat

VARIABLES
  token,         \* the caller's CancellationToken
  producer,      \* program counter of the thread that called run
  emitted,       \* events the source has emitted
  observed,      \* fragments counted by SourceStatistics::observe
  pending,       \* the observed fragment not yet sent, or None
  sourceResult,  \* what source.visit returned
  outcome,       \* the SourceOutcome returned, or None
  queue,         \* fragments in the channel
  receiver,      \* the worker that holds the receiver mutex, or None
  worker,        \* each worker's program counter
  job,           \* the fragment each worker has taken, or None
  batch          \* the fragments whose findings are in each worker's batch

producerVars == <<producer, emitted, observed, pending, sourceResult, outcome>>
workerVars == <<receiver, worker, job, batch>>
vars == <<token, producerVars, queue, workerVars>>

\* A fragment is named by its place in the order of observation.
Fragment == 1 .. observed

Visiting == {"visit", "schedule", "send"}
SenderOpen == producer \in {"spawn"} \cup Visiting

Ended == {"unspawned", "exited", "panicked"}
AllEnded == \A w \in Worker : worker[w] \in Ended

DisconnectedNever == FALSE

\* The runner drops its own receiver before the visit, so that a full channel is
\* disconnected when the last worker ends.
Disconnected == AllEnded

Init ==
  /\ token = FALSE
  /\ producer = "spawn"
  /\ emitted = 0
  /\ observed = 0
  /\ pending = None
  /\ sourceResult = "Continue"
  /\ outcome = None
  /\ queue = <<>>
  /\ receiver = None
  /\ worker = [w \in Worker |-> "unspawned"]
  /\ job = [w \in Worker |-> None]
  /\ batch = [w \in Worker |-> {}]

-----------------------------------------------------------------------------
(* The caller and the spawning of workers.                                 *)

Cancel ==
  /\ producer # "done"
  /\ token' = TRUE
  /\ UNCHANGED <<producerVars, queue, workerVars>>

Goto(pc) == producer' = pc

\* source.visit returns, or is never called: the sender is dropped.
Return(result) ==
  /\ sourceResult' = result
  /\ Goto("join")

SpawnWorker ==
  /\ producer = "spawn"
  /\ \E w \in Worker :
       /\ worker[w] = "unspawned"
       /\ worker' = [worker EXCEPT ![w] = "top"]
  /\ UNCHANGED <<token, producerVars, queue, receiver, job, batch>>

StartVisit ==
  /\ producer = "spawn"
  /\ \A w \in Worker : worker[w] # "unspawned"
  /\ Goto("visit")
  /\ UNCHANGED <<token, emitted, observed, pending, sourceResult, outcome, queue,
                 workerVars>>

\* No memory for the handles, or a thread that cannot be created.
SetupFails ==
  /\ producer = "spawn"
  /\ \E w \in Worker : worker[w] = "unspawned"
  /\ Return("Setup")
  /\ UNCHANGED <<token, emitted, observed, pending, outcome, queue, workerVars>>

-----------------------------------------------------------------------------
(* The source and the runner's callback.                                   *)

\* The source ends, stops of its own accord, fails, or sees the token.
SourceReturns ==
  /\ producer = "visit"
  /\ \E result \in {"Continue", "Stop", "Terminal", "Cancelled"} :
       /\ result = "Cancelled" => token
       /\ Return(result)
  /\ UNCHANGED <<token, emitted, observed, pending, outcome, queue, workerVars>>

Emit ==
  /\ producer = "visit"
  /\ emitted < MaxEvents
  /\ emitted' = emitted + 1
  /\ UNCHANGED <<token, outcome, queue, workerVars>>

\* ensure_active fails, or observe refuses the fragment: at its byte count, at
\* MAX_UNIQUE_COMMITS, or without memory for the commit.
CallbackFails ==
  /\ Emit
  /\ \/ token /\ Return("Inactive")
     \/ ~token /\ Return("Rejected")
  /\ UNCHANGED <<observed, pending>>

\* An issue is kept; a fragment that carries one is not scanned either.
CallbackKeepsIssue ==
  /\ Emit
  /\ ~token
  /\ UNCHANGED <<producer, observed, pending, sourceResult>>

CallbackObserves ==
  /\ Emit
  /\ ~token
  /\ observed' = observed + 1
  /\ pending' = observed + 1
  /\ Goto("schedule")
  /\ UNCHANGED sourceResult

\* The scheduling loop: ensure_active, then try_send.
ScheduleEnsuresActive ==
  /\ producer = "schedule"
  /\ \/ token /\ Return("Inactive") /\ pending' = None
     \/ ~token /\ Goto("send") /\ UNCHANGED <<pending, sourceResult>>
  /\ UNCHANGED <<token, emitted, observed, outcome, queue, workerVars>>

TrySendDropsWhenFull ==
  /\ producer = "send"
  /\ ~Disconnected
  /\ pending' = None
  /\ Goto("visit")
  /\ IF Len(queue) < QueueCapacity
     THEN queue' = Append(queue, pending) ELSE UNCHANGED queue
  /\ UNCHANGED <<token, emitted, observed, sourceResult, outcome, workerVars>>

TrySend ==
  /\ producer = "send"
  /\ ~Disconnected
  /\ \/ /\ Len(queue) < QueueCapacity
        /\ queue' = Append(queue, pending)
        /\ pending' = None
        /\ Goto("visit")
     \/ /\ Len(queue) = QueueCapacity
        /\ Goto("schedule")
        /\ UNCHANGED <<queue, pending>>
  /\ UNCHANGED <<token, emitted, observed, sourceResult, outcome, workerVars>>

SendFails ==
  /\ producer = "send"
  /\ Disconnected
  /\ Return("Disconnected")
  /\ pending' = None
  /\ UNCHANGED <<token, emitted, observed, outcome, queue, workerVars>>

-----------------------------------------------------------------------------
(* The end of the run.                                                     *)

WorkerPanicked == \E w \in Worker : worker[w] = "panicked"

RunTermination ==
  CASE WorkerPanicked -> "WorkerPanic"
    [] ~WorkerPanicked /\ (token \/ sourceResult = "Cancelled") -> "Cancelled"
    [] OTHER -> CASE sourceResult = "Continue" -> "Completed"
                  [] sourceResult = "Stop" -> "Stopped"
                  [] OTHER -> "SourceError"

Joined == {w \in Worker : worker[w] \notin {"unspawned", "panicked"}}

\* The findings of the workers that can be joined.
Merged == UNION {batch[w] : w \in Joined}

FinishRun ==
  /\ producer = "join"
  /\ AllEnded
  /\ outcome' = [termination |-> RunTermination, findings |-> Merged]
  /\ Goto("done")
  /\ UNCHANGED <<token, emitted, observed, pending, sourceResult, queue, workerVars>>

-----------------------------------------------------------------------------
(* A worker.  The poll after a merge and the one at the top of the loop    *)
(* read the token twice with nothing between them; here it is read once.   *)

WorkerGoto(w, pc) == worker' = [worker EXCEPT ![w] = pc]

WorkerPolls(w) ==
  /\ worker[w] = "top"
  /\ WorkerGoto(w, IF token THEN "exited" ELSE "lock")
  /\ UNCHANGED <<token, producerVars, queue, receiver, job, batch>>

LockReceiver(w) ==
  /\ worker[w] = "lock"
  /\ receiver = None
  /\ receiver' = w
  /\ WorkerGoto(w, "recv")
  /\ UNCHANGED <<token, producerVars, queue, job, batch>>

\* recv blocks, holding the mutex, until there is a fragment or no sender.
ReceiveFragment(w) ==
  /\ worker[w] = "recv"
  /\ queue # <<>>
  /\ receiver' = None
  /\ job' = [job EXCEPT ![w] = Head(queue)]
  /\ queue' = Tail(queue)
  /\ WorkerGoto(w, "taken")
  /\ UNCHANGED <<token, producerVars, batch>>

ReceiveFails(w) ==
  /\ worker[w] = "recv"
  /\ queue = <<>>
  /\ ~SenderOpen
  /\ receiver' = None
  /\ WorkerGoto(w, "exited")
  /\ UNCHANGED <<token, producerVars, queue, job, batch>>

WorkerExits(w, pc) ==
  /\ WorkerGoto(w, pc)
  /\ job' = [job EXCEPT ![w] = None]
  /\ UNCHANGED <<token, producerVars, queue, receiver, batch>>

StartScan(w) ==
  /\ worker[w] = "taken"
  /\ ~token
  /\ WorkerGoto(w, "scan")
  /\ UNCHANGED <<token, producerVars, queue, receiver, job, batch>>

\* Cancelled after the receive, or in the scan, whose partial outcome
\* merge_complete_scan refuses.
WorkerIsCancelled(w) ==
  /\ worker[w] \in {"taken", "scan"}
  /\ token
  /\ WorkerExits(w, "exited")

\* A complete scan: merge_complete_scan adds its findings to the batch.
ScanCompletes(w) ==
  /\ worker[w] = "scan"
  /\ batch' = [batch EXCEPT ![w] = @ \cup {job[w]}]
  /\ job' = [job EXCEPT ![w] = None]
  /\ WorkerGoto(w, "top")
  /\ UNCHANGED <<token, producerVars, queue, receiver>>

ScanPanics(w) ==
  /\ worker[w] = "scan"
  /\ WorkerExits(w, "panicked")

-----------------------------------------------------------------------------

ProducerStep ==
  \/ SpawnWorker \/ StartVisit \/ SetupFails
  \/ SourceReturns
  \/ CallbackFails \/ CallbackKeepsIssue \/ CallbackObserves
  \/ ScheduleEnsuresActive \/ TrySend \/ SendFails
  \/ FinishRun

WorkerStep(w) ==
  \/ WorkerPolls(w) \/ LockReceiver(w) \/ ReceiveFragment(w) \/ ReceiveFails(w)
  \/ StartScan(w) \/ WorkerIsCancelled(w) \/ ScanCompletes(w) \/ ScanPanics(w)

\* The outcome has been returned; nothing happens any more.
Returned == producer = "done" /\ UNCHANGED vars

Next ==
  \/ Cancel
  \/ ProducerStep
  \/ \E w \in Worker : WorkerStep(w)
  \/ Returned

Spec == Init /\ [][Next]_vars

\* Every thread the scheduler can run keeps running; the caller need not cancel.
Fairness ==
  /\ WF_vars(ProducerStep)
  /\ \A w \in Worker : WF_vars(WorkerStep(w))

FairSpec == Spec /\ Fairness

-----------------------------------------------------------------------------
(* Properties.                                                             *)

WorkerPc == {"top", "lock", "recv", "taken", "scan"} \cup Ended
Termination == {"Completed", "Stopped", "Cancelled", "SourceError", "WorkerPanic"}

TypeOK ==
  /\ token \in BOOLEAN
  /\ producer \in {"spawn", "join", "done"} \cup Visiting
  /\ emitted \in 0 .. MaxEvents
  /\ observed \in Nat
  /\ pending \in Nat \cup {None}
  /\ sourceResult \in {"Continue", "Stop", "Cancelled", "Terminal", "Setup",
                       "Inactive", "Rejected", "Disconnected"}
  /\ outcome \in [termination : Termination, findings : SUBSET Nat] \cup {None}
  /\ queue \in Seq(Nat)
  /\ receiver \in Worker \cup {None}
  /\ worker \in [Worker -> WorkerPc]
  /\ job \in [Worker -> Nat \cup {None}]
  /\ batch \in [Worker -> SUBSET Nat]

\* Threads, channel and batches together do what ScanRun promises the caller.
Promise == INSTANCE ScanRun WITH
             merged <- Merged, panicked <- WorkerPanicked, result <- outcome

KeepsPromise == Promise!Spec

Done == producer = "done"

\* Every run ends with all workers joined, also when every worker panics while the
\* channel is full (the test all_workers_panicking_disconnects_the_full_queue).
Terminates == <>Done

=============================================================================
