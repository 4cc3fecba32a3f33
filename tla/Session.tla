------------------------------- MODULE Session -------------------------------
(***************************************************************************)
(* Which findings a user does not want to hear of: the ignore files and    *)
(* the baseline of crates/rustleaks-core/src/session.rs, as they are put   *)
(* together by assemble in crates/rustleaks-cli/src/config.rs.             *)
(*                                                                         *)
(* A finding has a place (file, rule and start line), the commit it is     *)
(* from, or None, and a secret; the other fields a baseline compares go    *)
(* with these three.  An entry of an ignore file names a place, alone      *)
(* (commit None) or in one commit.  Entries that match nothing, comments   *)
(* and the clean-up of a line are left out.                                *)
(***************************************************************************)
EXTENDS Integers, Sequences

CONSTANTS
  None,        \* no commit, and Rust's None
  Overlong,    \* a line of an ignore file that is too long to be read
  Unreadable   \* a baseline that cannot be read or parsed

Global(finding) == [place |-> finding.place, commit |-> None]
Qualified(finding) == [place |-> finding.place, commit |-> finding.commit]

\* An overlong line ends the reading of a file; what was read before it counts.
ReadEntries(file) ==
  {file[i] : i \in {k \in DOMAIN file : \A j \in 1 .. k : file[j] # Overlong}}

\* The ignore files are read one after another into one set.
Ignores(files) == UNION {ReadEntries(file) : file \in files}

BaselineEqual(entry, finding, redact) ==
  /\ entry.place = finding.place
  /\ entry.commit = finding.commit
  /\ redact \/ entry.secret = finding.secret

IsNew(baseline, finding, redact) ==
  \A entry \in baseline : ~BaselineEqual(entry, finding, redact)

\* A baseline that cannot be loaded is reported, and the scan goes on without it.
AssembledPolicy(files, baseline, redact) ==
  [ignores |-> Ignores(files),
   baseline |-> IF baseline \in {None, Unreadable} THEN {} ELSE baseline,
   redact |-> redact]

\* classify: a place is hidden everywhere or in one commit, a finding by the baseline.
Suppressed(policy, finding) ==
  \/ Global(finding) \in policy.ignores
  \/ finding.commit # None /\ Qualified(finding) \in policy.ignores
  \/ ~IsNew(policy.baseline, finding, policy.redact)

=============================================================================
