------------------------------ MODULE MCCliRun ------------------------------
(***************************************************************************)
(* Constants of CliRun for TLC: one place with two secrets, in two commits *)
(* or in none, and ignore files and baselines that know one of them.       *)
(***************************************************************************)
EXTENDS CliRun

MCExitCodes == {0, 1, 3}

Everywhere == [place |-> "here", commit |-> None]
InCommit == [place |-> "here", commit |-> "a"]

\* None; two, of which one hides the place in a commit and one hides it everywhere; and
\* one that would do both, but for a line that is too long between its two entries.
MCIgnoreFiles ==
  {{}, {<<InCommit>>, <<Everywhere>>}, {<<InCommit, Overlong, Everywhere>>}}

Old == [place |-> "here", commit |-> "a", secret |-> "old"]

MCBaselines == {Unreadable, {Old}}

=============================================================================
