----------------------------- MODULE MCGitCommand -----------------------------
(* GitCommand for TLC: a limit that a stream can stay below, reach and pass, and a limit of 0. *)
EXTENDS GitCommand

TwoAndNone == [s \in Stream |-> IF s = "out" THEN 2 ELSE 0]
=============================================================================
