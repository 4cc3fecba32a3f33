------------------------------- MODULE GitChild -------------------------------
(***************************************************************************)
(* A Git process as the two collectors of crates/rustleaks-sources see it: *)
(* the direct child, the pipes of its two output streams, and one helper   *)
(* process that Git may start (a text conversion filter, for example) and  *)
(* that inherits the pipes.  The collectors address only the direct child. *)
(*                                                                         *)
(* Output is counted, not stored: a pipe is first in first out and has one *)
(* reader, so a prefix of what was written is a number.                    *)
(***************************************************************************)
EXTENDS Integers

CONSTANTS
  PipeCapacity,  \* bound: units of output a pipe holds
  MaxOutput      \* bound: units of output written to a stream

ASSUME ChildAssumption ==
  /\ PipeCapacity \in Nat \ {0}
  /\ MaxOutput \in Nat

Stream == {"out", "err"}

VARIABLES
  token,      \* the caller's Cancellation
  child,      \* "none", "running", "exited" (not waited for) or "reaped"
  succeeded,  \* the exit status of the child is success
  helper,     \* "none", "running" or "gone"
  signalled,  \* kill was delivered
  written,    \* units written to each stream so far
  pipe,       \* units in each pipe
  readEnd     \* the collector holds the read end of each pipe

processVars == <<child, succeeded, helper, signalled>>
streamVars == <<written, pipe, readEnd>>
childVars == <<token, processVars, streamVars>>

ChildInit ==
  /\ token = FALSE
  /\ child = "none"
  /\ succeeded = FALSE
  /\ helper = "none"
  /\ signalled = FALSE
  /\ written = [s \in Stream |-> 0]
  /\ pipe = [s \in Stream |-> 0]
  /\ readEnd = [s \in Stream |-> FALSE]

\* Someone can still write: a pipe is at end of file only when nobody can.
WritersExist == child = "running" \/ helper = "running"

AtEndOfFile(s) == pipe[s] = 0 /\ ~WritersExist

-----------------------------------------------------------------------------
(* The environment.                                                        *)

Cancel ==
  /\ token' = TRUE
  /\ UNCHANGED <<processVars, streamVars>>

Write(s) ==
  /\ WritersExist
  /\ readEnd[s]
  /\ pipe[s] < PipeCapacity
  /\ written[s] < MaxOutput
  /\ written' = [written EXCEPT ![s] = @ + 1]
  /\ pipe' = [pipe EXCEPT ![s] = @ + 1]
  /\ UNCHANGED <<token, processVars, readEnd>>

StartHelper ==
  /\ child = "running" /\ helper = "none"
  /\ helper' = "running"
  /\ UNCHANGED <<token, child, succeeded, signalled, streamVars>>

HelperEnds ==
  /\ helper = "running"
  /\ helper' = "gone"
  /\ UNCHANGED <<token, child, succeeded, signalled, streamVars>>

\* The child ends by itself, well or badly (a closed pipe included).
ChildExits ==
  /\ child = "running"
  /\ child' = "exited"
  /\ succeeded' \in BOOLEAN
  /\ UNCHANGED <<token, helper, signalled, streamVars>>

ChildDies ==
  /\ child = "running" /\ signalled
  /\ child' = "exited"
  /\ succeeded' = FALSE
  /\ UNCHANGED <<token, helper, signalled, streamVars>>

Environment ==
  \/ Cancel
  \/ \E s \in Stream : Write(s)
  \/ StartHelper
  \/ HelperEnds
  \/ ChildExits
  \/ ChildDies

-----------------------------------------------------------------------------
(* What a collector does to the child.                                     *)

Spawn ==
  /\ child' = "running"
  /\ readEnd' = [s \in Stream |-> TRUE]
  /\ UNCHANGED <<token, succeeded, helper, signalled, written, pipe>>

Kill ==
  /\ signalled' = TRUE
  /\ UNCHANGED <<token, child, succeeded, helper, streamVars>>

\* Child::wait blocks until the child has exited; try_wait does not block.
Wait ==
  /\ child = "exited"
  /\ child' = "reaped"
  /\ UNCHANGED <<token, succeeded, helper, signalled, streamVars>>

\* n units are taken from the pipe.
Take(s, n) ==
  /\ pipe' = [pipe EXCEPT ![s] = @ - n]
  /\ UNCHANGED <<token, processVars, written, readEnd>>

\* A reader returns and drops its end of the pipe.
CloseReadEnd(s) ==
  /\ readEnd' = [readEnd EXCEPT ![s] = FALSE]
  /\ UNCHANGED <<token, processVars, written, pipe>>

ChildTypeOK ==
  /\ token \in BOOLEAN
  /\ child \in {"none", "running", "exited", "reaped"}
  /\ succeeded \in BOOLEAN
  /\ helper \in {"none", "running", "gone"}
  /\ signalled \in BOOLEAN
  /\ written \in [Stream -> 0 .. MaxOutput]
  /\ pipe \in [Stream -> 0 .. PipeCapacity]
  /\ readEnd \in [Stream -> BOOLEAN]
=============================================================================
