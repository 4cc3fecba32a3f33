------------------------------ MODULE GitCommand ------------------------------
(***************************************************************************)
(* collect_command and its reader threads in                               *)
(* crates/rustleaks-sources/src/git.rs, and how GitSource::visit judges    *)
(* what was collected.                                                     *)
(*                                                                         *)
(* The collector starts Git and two readers, polls the token, the readers' *)
(* limit flags and the child, kills the child when one of the first two    *)
(* says so, and joins the readers.  A read of one of the three is a step.  *)
(* The branches for a missing pipe are left out: both streams are piped.   *)
(***************************************************************************)
EXTENDS GitChild

CONSTANTS
  Limit  \* units a reader retains of each stream

ASSUME LimitAssumption == Limit \in [Stream -> Nat]

VARIABLES
  collector,   \* program counter of collect_command
  stop,        \* why the polling loop ended (CollectionStop), or "None"
  killFailed,  \* terminate returned an error that is not ignored
  result,      \* what the caller gets, or "None"
  reader,      \* each reader thread: "unspawned", "reading", "marking", "ended", "failed"
  kept,        \* units each reader retained
  limited,     \* each reader dropped output
  exceeded     \* the AtomicBool of each reader

collectorVars == <<collector, stop, killFailed, result>>
readerVars == <<reader, kept, limited, exceeded>>
vars == <<childVars, collectorVars, readerVars>>

Init ==
  /\ ChildInit
  /\ collector = "visit"
  /\ stop = "None"
  /\ killFailed = FALSE
  /\ result = "None"
  /\ reader = [s \in Stream |-> "unspawned"]
  /\ kept = [s \in Stream |-> 0]
  /\ limited = [s \in Stream |-> FALSE]
  /\ exceeded = [s \in Stream |-> FALSE]

Goto(pc) ==
  /\ collector' = pc
  /\ UNCHANGED <<stop, killFailed, result>>

Return(r) ==
  /\ collector' = "done"
  /\ result' = r
  /\ UNCHANGED <<stop, killFailed>>

\* An error or a panic inside the thread scope: the scope still joins the readers.
Unwind(r) ==
  /\ collector' = "unwind"
  /\ result' = r
  /\ UNCHANGED <<stop, killFailed>>

Terminate(reason) ==
  /\ collector' = "kill"
  /\ stop' = reason
  /\ UNCHANGED <<killFailed, result>>

-----------------------------------------------------------------------------
(* Starting.                                                               *)

PollBeforeSpawn ==
  /\ collector = "visit"
  /\ IF token THEN Return("Cancelled") ELSE Goto("spawn")
  /\ UNCHANGED <<childVars, readerVars>>

SpawnChild ==
  /\ collector = "spawn"
  /\ Spawn
  /\ Goto("readers")
  /\ UNCHANGED readerVars

SpawnChildFails ==
  /\ collector = "spawn"
  /\ Return("NotStarted")
  /\ UNCHANGED <<childVars, readerVars>>

\* The reader of standard output is spawned first.
NextReader(s) ==
  /\ collector = "readers"
  /\ reader[s] = "unspawned"
  /\ s = "err" => reader["out"] # "unspawned"

SpawnReader(s) ==
  /\ NextReader(s)
  /\ reader' = [reader EXCEPT ![s] = "reading"]
  /\ Goto(IF s = "out" THEN "readers" ELSE "poll")
  /\ UNCHANGED <<childVars, kept, limited, exceeded>>

\* scope.spawn panics; the pipes that no reader owns are dropped.
SpawnReaderPanics(s) ==
  /\ NextReader(s)
  /\ readEnd' = [t \in Stream |-> readEnd[t] /\ reader[t] # "unspawned"]
  /\ Unwind("Panic")
  /\ UNCHANGED <<token, processVars, written, pipe, readerVars>>

-----------------------------------------------------------------------------
(* The polling loop.                                                       *)

PollTokenNever ==
  /\ collector = "poll"
  /\ Goto("limits")
  /\ UNCHANGED <<childVars, readerVars>>

PollToken ==
  /\ collector = "poll"
  /\ IF token THEN Terminate("Cancelled") ELSE Goto("limits")
  /\ UNCHANGED <<childVars, readerVars>>

\* Both flags only rise, so the two loads are one read.
PollLimits ==
  /\ collector = "limits"
  /\ IF \E s \in Stream : exceeded[s] THEN Terminate("Limited") ELSE Goto("wait")
  /\ UNCHANGED <<childVars, readerVars>>

TryWaitDone ==
  /\ collector = "wait"
  /\ Wait
  /\ collector' = "joinOut"
  /\ stop' = "Exited"
  /\ UNCHANGED <<killFailed, result, readerVars>>

TryWaitRunning ==
  /\ collector = "wait"
  /\ child = "running"
  /\ Goto("poll")
  /\ UNCHANGED <<childVars, readerVars>>

TryWaitFails ==
  /\ collector = "wait"
  /\ Terminate("WaitFailed")
  /\ UNCHANGED <<childVars, readerVars>>

-----------------------------------------------------------------------------
(* stop_and_reap: both steps are attempted, whatever the first returned.   *)

TerminateChild ==
  /\ collector = "kill"
  /\ Kill
  /\ Goto("reap")
  /\ UNCHANGED readerVars

TerminateChildFails ==
  /\ collector = "kill"
  /\ killFailed' = TRUE
  /\ collector' = "reap"
  /\ UNCHANGED <<stop, result, childVars, readerVars>>

AfterCleanup ==
  IF killFailed THEN Unwind("CleanupFailed")
  ELSE IF stop = "WaitFailed" THEN Unwind("WaitFailed")
  ELSE Goto("joinOut")

ReapChildUnlessKilled ==
  /\ collector = "reap"
  /\ IF killFailed THEN Wait ELSE UNCHANGED childVars
  /\ AfterCleanup
  /\ UNCHANGED readerVars

ReapChild ==
  /\ collector = "reap"
  /\ Wait
  /\ AfterCleanup
  /\ UNCHANGED readerVars

ReapChildFails ==
  /\ collector = "reap"
  /\ Unwind("CleanupFailed")
  /\ UNCHANGED <<childVars, readerVars>>

-----------------------------------------------------------------------------
(* Joining the readers and judging the output.                             *)

VerdictByStatusFirst ==
  IF ~(stop = "Exited" /\ succeeded) THEN "GitExit"
  ELSE IF limited["err"] \/ limited["out"] THEN "Limit"
  ELSE "Output"

\* visit looks at the limits first; validate_archive_blob_output asks the same.
Verdict ==
  IF limited["err"] \/ limited["out"] THEN "Limit"
  ELSE IF stop = "Exited" /\ succeeded THEN "Output"
  ELSE "GitExit"

JoinStdout ==
  /\ collector = "joinOut"
  /\ \/ reader["out"] = "ended" /\ Goto("joinErr")
     \/ reader["out"] = "failed" /\ Unwind("ReadFailed")
  /\ UNCHANGED <<childVars, readerVars>>

JoinStderr ==
  /\ collector = "joinErr"
  /\ \/ /\ reader["err"] = "ended"
        /\ Return(IF stop = "Cancelled" THEN "Cancelled" ELSE Verdict)
     \/ reader["err"] = "failed" /\ Unwind("ReadFailed")
  /\ UNCHANGED <<childVars, readerVars>>

\* The end of the thread scope.
LeaveScope ==
  /\ collector = "unwind"
  /\ \A s \in Stream : reader[s] \in {"unspawned", "ended", "failed"}
  /\ collector' = "done"
  /\ UNCHANGED <<stop, killFailed, result, childVars, readerVars>>

-----------------------------------------------------------------------------
(* read_bounded_and_drain: past the limit it reads on and drops.           *)

Keep(s, n) == IF n <= Limit[s] - kept[s] THEN n ELSE Limit[s] - kept[s]

DropsWhenFull(s, n) == limited[s] \/ Keep(s, n) = 0

Drops(s, n) == limited[s] \/ Keep(s, n) < n

Read(s) ==
  /\ reader[s] = "reading"
  /\ \E n \in 1 .. pipe[s] :
       /\ Take(s, n)
       /\ kept' = [kept EXCEPT ![s] = @ + Keep(s, n)]
       /\ limited' = [limited EXCEPT ![s] = Drops(s, n)]
       /\ reader' = [reader EXCEPT ![s] = IF Drops(s, n) THEN "marking" ELSE @]
  /\ UNCHANGED <<exceeded, collectorVars>>

MarkExceeded(s) ==
  /\ reader[s] = "marking"
  /\ exceeded' = [exceeded EXCEPT ![s] = TRUE]
  /\ reader' = [reader EXCEPT ![s] = "reading"]
  /\ UNCHANGED <<childVars, collectorVars, kept, limited>>

ReaderEnds(s) ==
  /\ reader[s] = "reading"
  /\ AtEndOfFile(s)
  /\ CloseReadEnd(s)
  /\ reader' = [reader EXCEPT ![s] = "ended"]
  /\ UNCHANGED <<collectorVars, kept, limited, exceeded>>

\* A read error, or no memory for the output.
ReaderFails(s) ==
  /\ reader[s] = "reading"
  /\ CloseReadEnd(s)
  /\ reader' = [reader EXCEPT ![s] = "failed"]
  /\ UNCHANGED <<collectorVars, kept, limited, exceeded>>

-----------------------------------------------------------------------------
CollectorStep ==
  \/ PollBeforeSpawn
  \/ SpawnChild
  \/ \E s \in Stream : SpawnReader(s)
  \/ PollToken
  \/ PollLimits
  \/ TryWaitDone
  \/ TryWaitRunning
  \/ TerminateChild
  \/ ReapChild
  \/ JoinStdout
  \/ JoinStderr
  \/ LeaveScope

CollectorFailure ==
  \/ SpawnChildFails
  \/ \E s \in Stream : SpawnReaderPanics(s)
  \/ TryWaitFails
  \/ TerminateChildFails
  \/ ReapChildFails

ReaderStep(s) ==
  \/ Read(s)
  \/ MarkExceeded(s)
  \/ ReaderEnds(s)

EnvironmentStep == Environment /\ UNCHANGED <<collectorVars, readerVars>>

Returned == collector = "done" /\ UNCHANGED vars

Next ==
  \/ EnvironmentStep
  \/ CollectorStep
  \/ CollectorFailure
  \/ \E s \in Stream : ReaderStep(s) \/ ReaderFails(s)
  \/ Returned

Spec == Init /\ [][Next]_vars

\* The threads run; a signalled process dies and a helper ends, but Git itself may run for
\* ever.  No failure is required to happen.
Fairness ==
  /\ WF_vars(CollectorStep)
  /\ \A s \in Stream : WF_vars(ReaderStep(s))
  /\ WF_vars(ChildDies /\ UNCHANGED <<collectorVars, readerVars>>)
  /\ WF_vars(HelperEnds /\ UNCHANGED <<collectorVars, readerVars>>)

FairSpec == Spec /\ Fairness

-----------------------------------------------------------------------------
(* Properties.                                                             *)

\* The variables have their types, and a reader retains no more than its limit.
TypeOK ==
  /\ ChildTypeOK
  /\ collector \in {"visit", "spawn", "readers", "poll", "limits", "wait", "kill",
                    "reap", "joinOut", "joinErr", "unwind", "done"}
  /\ stop \in {"None", "Exited", "Cancelled", "Limited", "WaitFailed"}
  /\ killFailed \in BOOLEAN
  /\ result \in {"None", "Cancelled", "NotStarted", "Panic", "CleanupFailed", "WaitFailed",
                 "ReadFailed", "Limit", "Output", "GitExit"}
  /\ reader \in [Stream -> {"unspawned", "reading", "marking", "ended", "failed"}]
  /\ kept \in [Stream -> Nat] /\ \A s \in Stream : kept[s] <= Limit[s]
  /\ limited \in [Stream -> BOOLEAN]
  /\ exceeded \in [Stream -> BOOLEAN]

\* A patch that visit goes on to parse is everything that was written to the pipe, by
\* whomever, and Git said it succeeded: no race between the exit of the child, its
\* helper, the readers and the limits lets a truncated patch pass.
OutputIsWhole ==
  result = "Output" =>
    /\ succeeded
    /\ ~WritersExist
    /\ \A s \in Stream : kept[s] = written[s]

\* An error names its cause: a limit error means a stream was larger than its limit, and
\* an exit status that is blamed on Git is not one that the collector's own kill caused.
VerdictIsTrue ==
  /\ result = "Limit" => \E s \in Stream : kept[s] = Limit[s] /\ written[s] > Limit[s]
  /\ result = "GitExit" => ~signalled /\ ~succeeded
  /\ result = "Cancelled" => token

\* Once collect_command has returned, Git is neither running nor a zombie, unless the
\* cleanup failed and said so, or the reader threads could not be created.
NoOrphan ==
  collector = "done" =>
    child \in {"none", "reaped"} \/ result \in {"CleanupFailed", "Panic"}

\* A cancellation or an exceeded limit ends the collection, whatever Git is doing, unless
\* Git cannot be killed or the readers could not be created; and so does the end of Git,
\* although the readers are joined without a poll of the token and drain what is left in
\* pipes that others may hold.
CollectionEnds ==
  /\ (token \/ \E s \in Stream : exceeded[s])
       ~> (collector = "done" \/ killFailed \/ result = "Panic")
  /\ child \in {"exited", "reaped"} ~> collector = "done"
=============================================================================
