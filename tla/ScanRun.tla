------------------------------- MODULE ScanRun -------------------------------
(***************************************************************************)
(* What a run promises its caller, without threads, queues or batches: the *)
(* contract of SourceOutcome and SourceTermination in                      *)
(* crates/rustleaks-sources/src/runner.rs, and of its claim that finding   *)
(* multisets do not depend on the number of workers.                       *)
(*                                                                         *)
(* Fragments are observed one by one, and the findings of an observed      *)
(* fragment are merged at most once.  A panic loses what its worker had    *)
(* merged.  What is returned says whether anything is missing.             *)
(***************************************************************************)
EXTENDS Naturals

CONSTANT None

VARIABLES
  token,     \* the caller's CancellationToken
  observed,  \* the number of fragments observed so far
  merged,    \* the fragments whose findings have been merged and not lost
  panicked,  \* a detection worker has panicked
  result     \* what the caller is given, or None

runVars == <<token, observed, merged, panicked, result>>

Fragment == 1 .. observed

Init ==
  /\ token = FALSE
  /\ observed = 0
  /\ merged = {}
  /\ panicked = FALSE
  /\ result = None

Cancel ==
  /\ token' = TRUE
  /\ UNCHANGED <<observed, merged, panicked, result>>

Observe ==
  /\ result = None
  /\ observed' = observed + 1
  /\ UNCHANGED <<token, merged, panicked, result>>

\* No fragment's findings are merged twice: duplicates would be reported twice.
Merge ==
  /\ result = None
  /\ \E f \in Fragment \ merged : merged' = merged \cup {f}
  /\ UNCHANGED <<token, observed, panicked, result>>

Panic ==
  /\ result = None
  /\ panicked' = TRUE
  /\ \E kept \in SUBSET merged : merged' = kept
  /\ UNCHANGED <<token, observed, result>>

\* A normal end is only reported when nothing observed is missing, a panic always
\* is, and a cancellation only when the caller asked for it.
Permitted(termination) ==
  CASE termination = "WorkerPanic" -> panicked
    [] termination = "Cancelled" -> ~panicked /\ token
    [] termination = "SourceError" -> ~panicked /\ ~token
    [] termination \in {"Completed", "Stopped"} ->
         ~panicked /\ ~token /\ merged = Fragment

Return ==
  /\ result = None
  /\ \E termination \in {"Completed", "Stopped", "Cancelled", "SourceError",
                         "WorkerPanic"} :
       /\ Permitted(termination)
       /\ result' = [termination |-> termination, findings |-> merged]
  /\ UNCHANGED <<token, observed, merged, panicked>>

Next == Cancel \/ Observe \/ Merge \/ Panic \/ Return

Spec == Init /\ [][Next]_runVars

=============================================================================
