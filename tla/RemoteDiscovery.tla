---------------------------- MODULE RemoteDiscovery ----------------------------
(***************************************************************************)
(* RemoteMetadata::discover and run_git_remote of                          *)
(* crates/rustleaks-sources/src/scm.rs: the second collector of the output *)
(* of a Git child.  Unlike collect_command it lets a limit pass until the  *)
(* child has ended, joins both readers before it reports a cancellation,   *)
(* and drains on after it ran out of memory.                               *)
(***************************************************************************)
EXTENDS GitChild

CONSTANTS
  OutputLimit  \* OUTPUT_LIMIT: units a reader retains

ASSUME OutputLimitAssumption == OutputLimit \in Nat

VARIABLES
  collector,   \* program counter of discover and run_git_remote
  cause,       \* why the child is being stopped: "None", "Cancelled" or "WaitFailed"
  killError,   \* kill returned an error that is not ignored
  waitError,   \* wait returned an error
  result,      \* what the caller gets, or "None"
  reader,      \* each reader thread: "unspawned", "reading", "ended", "failed"
  kept,        \* units each reader retained
  exceeded,    \* RetainedOutput.exceeded_limit
  lost         \* RetainedOutput.retention_failed

collectorVars == <<collector, cause, killError, waitError, result>>
readerVars == <<reader, kept, exceeded, lost>>
vars == <<childVars, collectorVars, readerVars>>

Init ==
  /\ ChildInit
  /\ collector = "discover"
  /\ cause = "None"
  /\ killError = FALSE
  /\ waitError = FALSE
  /\ result = "None"
  /\ reader = [s \in Stream |-> "unspawned"]
  /\ kept = [s \in Stream |-> 0]
  /\ exceeded = [s \in Stream |-> FALSE]
  /\ lost = [s \in Stream |-> FALSE]

Goto(pc) ==
  /\ collector' = pc
  /\ UNCHANGED <<cause, killError, waitError, result>>

Return(r) ==
  /\ collector' = "done"
  /\ result' = r
  /\ UNCHANGED <<cause, killError, waitError>>

\* The thread scope joins the readers before the error or the panic leaves it.
Unwind(r) ==
  /\ collector' = "unwind"
  /\ result' = r
  /\ UNCHANGED <<cause, killError, waitError>>

StopBecause(c) ==
  /\ collector' = "kill"
  /\ cause' = c
  /\ UNCHANGED <<killError, waitError, result>>

-----------------------------------------------------------------------------
(* Starting.                                                               *)

\* The platform NoPlatform never starts a child.
DiscoverNothing ==
  /\ collector = "discover"
  /\ Return("NoPlatform")
  /\ UNCHANGED <<childVars, readerVars>>

PollBeforeSpawn ==
  /\ collector = "discover"
  /\ IF token THEN Return("Cancelled") ELSE Goto("spawn")
  /\ UNCHANGED <<childVars, readerVars>>

SpawnChild ==
  /\ collector = "spawn"
  /\ Spawn
  /\ Goto("readers")
  /\ UNCHANGED readerVars

SpawnChildFails ==
  /\ collector = "spawn"
  /\ Return("NotStarted")
  /\ UNCHANGED <<childVars, readerVars>>

NextReader(s) ==
  /\ collector = "readers"
  /\ reader[s] = "unspawned"
  /\ s = "err" => reader["out"] # "unspawned"

SpawnReader(s) ==
  /\ NextReader(s)
  /\ reader' = [reader EXCEPT ![s] = "reading"]
  /\ Goto(IF s = "out" THEN "readers" ELSE "poll")
  /\ UNCHANGED <<childVars, kept, exceeded, lost>>

SpawnReaderPanics(s) ==
  /\ NextReader(s)
  /\ readEnd' = [t \in Stream |-> readEnd[t] /\ reader[t] # "unspawned"]
  /\ Unwind("Panic")
  /\ UNCHANGED <<token, processVars, written, pipe, readerVars>>

-----------------------------------------------------------------------------
(* The polling loop, and the two ways out of it that stop the child.       *)

PollToken ==
  /\ collector = "poll"
  /\ IF token THEN StopBecause("Cancelled") ELSE Goto("wait")
  /\ UNCHANGED <<childVars, readerVars>>

TryWaitDoneWithoutBreak ==
  /\ collector = "wait"
  /\ Wait
  /\ Goto("poll")
  /\ UNCHANGED readerVars

TryWaitDone ==
  /\ collector = "wait"
  /\ Wait
  /\ Goto("joinOut")
  /\ UNCHANGED readerVars

TryWaitRunning ==
  /\ collector = "wait"
  /\ child = "running"
  /\ Goto("poll")
  /\ UNCHANGED <<childVars, readerVars>>

TryWaitFails ==
  /\ collector = "wait"
  /\ StopBecause("WaitFailed")
  /\ UNCHANGED <<childVars, readerVars>>

KillChild ==
  /\ collector = "kill"
  /\ Kill
  /\ Goto("reap")
  /\ UNCHANGED readerVars

KillChildFails ==
  /\ collector = "kill"
  /\ killError' = TRUE
  /\ collector' = "reap"
  /\ UNCHANGED <<cause, waitError, result, childVars, readerVars>>

ReapChildOnlyCancelled ==
  /\ collector = "reap"
  /\ IF cause = "Cancelled" THEN UNCHANGED childVars ELSE Wait
  /\ Goto("joinOut")
  /\ UNCHANGED readerVars

ReapChild ==
  /\ collector = "reap"
  /\ Wait
  /\ Goto("joinOut")
  /\ UNCHANGED readerVars

ReapChildFails ==
  /\ collector = "reap"
  /\ waitError' = TRUE
  /\ collector' = "joinOut"
  /\ UNCHANGED <<cause, killError, result, childVars, readerVars>>

-----------------------------------------------------------------------------
(* Joining the readers and judging the output.                             *)

Finished(s) == reader[s] \in {"ended", "failed"}

\* While a child is being stopped the result of a reader is kept for later.
JoinStdout ==
  /\ collector = "joinOut"
  /\ Finished("out")
  /\ IF cause = "None" /\ reader["out"] = "failed" THEN Unwind("ReadFailed")
     ELSE Goto("joinErr")
  /\ UNCHANGED <<childVars, readerVars>>

\* discover parses the URL on success; a failure is excused by one message in stderr.
VerdictsIgnoringLoss ==
  IF \E s \in Stream : exceeded[s] THEN {"OutputLimit"}
  ELSE IF succeeded THEN {"Remote"} ELSE {"GitExit", "NoPlatform"}

Verdicts ==
  IF \E s \in Stream : lost[s] THEN {"Allocation"}
  ELSE IF \E s \in Stream : exceeded[s] THEN {"OutputLimit"}
  ELSE IF succeeded THEN {"Remote"} ELSE {"GitExit", "NoPlatform"}

CancelOutcome ==
  IF killError \/ waitError THEN "Cleanup"
  ELSE IF \E s \in Stream : reader[s] = "failed" THEN "ReadFailed"
  ELSE "Cancelled"

JoinStderr ==
  /\ collector = "joinErr"
  /\ Finished("err")
  /\ \/ cause = "Cancelled" /\ Return(CancelOutcome)
     \/ cause = "WaitFailed" /\ Return("Cleanup")
     \/ cause = "None" /\ reader["err"] = "failed" /\ Return("ReadFailed")
     \/ /\ cause = "None" /\ reader["err"] = "ended"
        /\ \E r \in Verdicts : Return(r)
  /\ UNCHANGED <<childVars, readerVars>>

LeaveScope ==
  /\ collector = "unwind"
  /\ \A s \in Stream : reader[s] = "unspawned" \/ Finished(s)
  /\ collector' = "done"
  /\ UNCHANGED <<cause, killError, waitError, result, childVars, readerVars>>

-----------------------------------------------------------------------------
(* read_bounded_and_drain.                                                 *)

Keep(s, n) == IF n <= OutputLimit - kept[s] THEN n ELSE OutputLimit - kept[s]

ExceedsWhenFull(s, n) == kept[s] + n >= OutputLimit

Exceeds(s, n) == Keep(s, n) # n

\* A block is retained as far as there is room; after a failed allocation none is.
Read(s) ==
  /\ reader[s] = "reading"
  /\ \E n \in 1 .. pipe[s] :
       /\ Take(s, n)
       /\ kept' = [kept EXCEPT ![s] = IF lost[s] THEN @ ELSE @ + Keep(s, n)]
       /\ exceeded' = [exceeded EXCEPT ![s] = @ \/ Exceeds(s, n)]
  /\ UNCHANGED <<reader, lost, collectorVars>>

\* The allocation for a block fails, and the block is dropped before it is counted.
ReadWithoutMemory(s) ==
  /\ reader[s] = "reading" /\ ~lost[s]
  /\ \E n \in 1 .. pipe[s] : Keep(s, n) # 0 /\ Take(s, n)
  /\ lost' = [lost EXCEPT ![s] = TRUE]
  /\ UNCHANGED <<reader, kept, exceeded, collectorVars>>

ReaderEnds(s) ==
  /\ reader[s] = "reading"
  /\ AtEndOfFile(s)
  /\ CloseReadEnd(s)
  /\ reader' = [reader EXCEPT ![s] = "ended"]
  /\ UNCHANGED <<collectorVars, kept, exceeded, lost>>

ReaderFails(s) ==
  /\ reader[s] = "reading"
  /\ CloseReadEnd(s)
  /\ reader' = [reader EXCEPT ![s] = "failed"]
  /\ UNCHANGED <<collectorVars, kept, exceeded, lost>>

-----------------------------------------------------------------------------
CollectorStep ==
  \/ DiscoverNothing
  \/ PollBeforeSpawn
  \/ SpawnChild
  \/ \E s \in Stream : SpawnReader(s)
  \/ PollToken
  \/ TryWaitDone
  \/ TryWaitRunning
  \/ KillChild
  \/ ReapChild
  \/ JoinStdout
  \/ JoinStderr
  \/ LeaveScope

CollectorFailure ==
  \/ SpawnChildFails
  \/ \E s \in Stream : SpawnReaderPanics(s)
  \/ TryWaitFails
  \/ KillChildFails
  \/ ReapChildFails

ReaderStep(s) == Read(s) \/ ReaderEnds(s)
ReaderFailure(s) == ReadWithoutMemory(s) \/ ReaderFails(s)

EnvironmentStep == Environment /\ UNCHANGED <<collectorVars, readerVars>>

Returned == collector = "done" /\ UNCHANGED vars

Next ==
  \/ EnvironmentStep
  \/ CollectorStep
  \/ CollectorFailure
  \/ \E s \in Stream : ReaderStep(s) \/ ReaderFailure(s)
  \/ Returned

Spec == Init /\ [][Next]_vars

\* As for GitCommand: the threads run, a signalled process dies, a helper ends.
Fairness ==
  /\ WF_vars(CollectorStep)
  /\ \A s \in Stream : WF_vars(ReaderStep(s))
  /\ WF_vars(ChildDies /\ UNCHANGED <<collectorVars, readerVars>>)
  /\ WF_vars(HelperEnds /\ UNCHANGED <<collectorVars, readerVars>>)

FairSpec == Spec /\ Fairness

-----------------------------------------------------------------------------
(* Properties.                                                             *)

\* The variables have their types, and a reader retains no more than its limit.
TypeOK ==
  /\ ChildTypeOK
  /\ collector \in {"discover", "spawn", "readers", "poll", "wait", "kill", "reap", "joinOut",
                    "joinErr", "unwind", "done"}
  /\ cause \in {"None", "Cancelled", "WaitFailed"}
  /\ killError \in BOOLEAN /\ waitError \in BOOLEAN
  /\ result \in {"None", "NoPlatform", "Cancelled", "NotStarted", "Panic", "ReadFailed",
                 "Cleanup", "Allocation", "OutputLimit", "GitExit", "Remote"}
  /\ reader \in [Stream -> {"unspawned", "reading", "ended", "failed"}]
  /\ kept \in [Stream -> 0 .. OutputLimit]
  /\ exceeded \in [Stream -> BOOLEAN]
  /\ lost \in [Stream -> BOOLEAN]

\* What discover concludes from the output, a URL or that there is no remote, it concludes
\* from all of it: a block that was dropped for want of memory or of room is never missed,
\* although a reader forgets to count the block it could not store.
ConclusionFromAll ==
  result \in {"Remote", "NoPlatform"} /\ child # "none" =>
    /\ succeeded <=> result = "Remote"
    /\ ~WritersExist
    /\ \A s \in Stream : kept[s] = written[s]

\* An error names its cause: too much output was written, Git failed by itself, the
\* token was raised.
VerdictIsTrue ==
  /\ result = "OutputLimit" => \E s \in Stream : written[s] > OutputLimit
  /\ result = "GitExit" => ~signalled /\ ~succeeded
  /\ result = "Cancelled" => token

\* Discovery leaves neither a running Git nor a zombie, unless it reports that the cleanup
\* failed, or the reader threads could not be created.
NoOrphan ==
  collector = "done" =>
    child \in {"none", "reaped"} \/ result \in {"Cleanup", "Panic"}

\* A cancellation ends the discovery unless Git cannot be killed or there are no readers,
\* and so does the end of Git.
DiscoveryEnds ==
  /\ token ~> (collector = "done" \/ killError \/ result = "Panic")
  /\ child \in {"exited", "reaped"} ~> collector = "done"
=============================================================================
