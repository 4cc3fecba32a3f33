------------------------------- MODULE CliRun -------------------------------
(***************************************************************************)
(* One command: run_scan and its Timer in crates/rustleaks-cli/src/run.rs, *)
(* with the exclusions of BuiltSource in source.rs.                        *)
(*                                                                         *)
(* The caller's thread prepares the scan, runs it, ends the timer and maps *)
(* the outcome to an exit code.  The timer's thread raises the caller's    *)
(* token when the timeout passes before it is told that the scan is done.  *)
(* The scan itself is ScanRun: any behaviour that keeps the promise of     *)
(* SourceOutcome.  What the user has reviewed before, Session hides.       *)
(***************************************************************************)
EXTENDS Session, FiniteSets

CONSTANTS
  Commit,        \* the commits fragments may belong to
  Place,         \* where in the tree a finding may be
  Secret,        \* what it may have found
  IgnoreFiles,   \* the sets of ignore files a command may meet
  Baselines,     \* the baselines it may be given
  ExitCodes,     \* the values --exit-code may have
  MaxFragments   \* bound: fragments a source emits, excluded ones included

Findings == [place : Place, commit : Commit \cup {None}, secret : Secret]

ASSUME CommandAssumption ==
  /\ None \notin Commit \cup Findings \cup Int
  /\ \A files \in IgnoreFiles : \A file \in files :
       file \in Seq([place : Place, commit : Commit \cup {None}] \cup {Overlong})
  /\ Baselines \subseteq {None, Unreadable} \cup SUBSET Findings
  /\ IsFiniteSet(Commit)
  /\ ExitCodes \subseteq Int
  /\ MaxFragments \in Nat

VARIABLES
  command,    \* the command, its options and the files they name
  caller,     \* where the caller's thread is
  timer,      \* the timer's thread: none, waiting, firing, ended
  told,       \* Timer::finish has sent its message
  token,      \* the CancellationToken
  observed,   \* ScanRun: the number of fragments observed
  merged,     \* ScanRun: the fragments whose findings are merged
  panicked,   \* ScanRun: a worker has panicked
  result,     \* ScanRun: the outcome
  policy,     \* the SessionPolicy, None before it is assembled
  contents,   \* the finding in each observed fragment, or None
  commits,    \* SourceOutcome.unique_commits
  excluded,   \* BuiltSource: fragments kept back, and their commits
  failed,     \* a step before or after the scan has failed
  summary,    \* the commits and findings told to the user
  exit        \* the exit code, None while the command runs

timerVars == <<timer, told>>
runVars == <<token, observed, merged, panicked, result>>
scanVars == <<runVars, policy, contents, commits, excluded>>
endVars == <<failed, summary, exit>>
vars == <<command, caller, timerVars, scanVars, endVars>>

Run == INSTANCE ScanRun

Commands ==
  [name : {"Directory", "Git", "Stdin"}, timeout : BOOLEAN, exitCode : ExitCodes,
   ignoreFiles : IgnoreFiles, baseline : Baselines, redact : BOOLEAN]

Init ==
  /\ command \in Commands
  /\ caller = "start"
  /\ timer = "none" /\ told = FALSE
  /\ Run!Init
  /\ policy = None /\ contents = <<>> /\ commits = {}
  /\ excluded = [fragments |-> 0, commits |-> {}]
  /\ failed = FALSE /\ summary = None /\ exit = None

Goto(place) == caller' = place

-----------------------------------------------------------------------------
(* The timer's thread.                                                     *)

\* recv_timeout ends without a message.
Expire ==
  /\ timer = "waiting" /\ ~told
  /\ timer' = "firing"
  /\ UNCHANGED <<command, caller, told, scanVars, endVars>>

\* A helper that lets its message pass for a timeout but forgets the token.
CancelByTimerForgotten ==
  /\ timer = "firing"
  /\ timer' = "ended"
  /\ UNCHANGED <<command, caller, told, scanVars, endVars>>

\* The helper raises the token: a late one may do so after the scan has ended.
CancelByTimer ==
  /\ timer = "firing"
  /\ Run!Cancel
  /\ timer' = "ended"
  /\ UNCHANGED <<command, caller, told, policy, contents, commits, excluded, endVars>>

IsTold ==
  /\ timer = "waiting" /\ told
  /\ timer' = "ended"
  /\ UNCHANGED <<command, caller, told, scanVars, endVars>>

-----------------------------------------------------------------------------
(* Before the scan.                                                        *)

\* A directory command starts its timer after its configuration is assembled.
TimerDue ==
  \/ caller = "start" /\ command.name # "Directory"
  \/ caller = "assembled" /\ command.name = "Directory"

AfterTimer == IF caller = "start" THEN "banner" ELSE "prepare"

StartTimer ==
  /\ TimerDue
  /\ timer' = IF command.timeout THEN "waiting" ELSE "none"
  /\ Goto(AfterTimer)
  /\ UNCHANGED <<command, told, scanVars, endVars>>

\* Without a timer the command returns at once.
TimerFails ==
  /\ TimerDue /\ command.timeout
  /\ Goto("returned")
  /\ exit' = 1 /\ failed' = TRUE
  /\ UNCHANGED <<command, timerVars, scanVars, summary>>

SkipTimer ==
  /\ caller \in {"start", "assembled"} /\ ~TimerDue
  /\ Goto(AfterTimer)
  /\ UNCHANGED <<command, timerVars, scanVars, endVars>>

\* The banner; later the report plan, the engine, the options and the source.
Prepared(here) ==
  CASE here = "banner" -> "assemble"
    [] here = "prepare" -> IF command.name = "Git" THEN "discover" ELSE "scan"

Prepare ==
  /\ caller \in {"banner", "prepare"}
  /\ Goto(Prepared(caller))
  /\ UNCHANGED <<command, timerVars, scanVars, endVars>>

\* The configuration is read, and with it what the user has reviewed before.
Assemble ==
  /\ caller = "assemble"
  /\ policy' = AssembledPolicy(command.ignoreFiles, command.baseline, command.redact)
  /\ Goto("assembled")
  /\ UNCHANGED <<command, timerVars, runVars, contents, commits, excluded, endVars>>

\* The remote is found, or is not: discover_remote turns a failure or a cancellation
\* into a scan without links.
Discover ==
  /\ caller = "discover"
  /\ Goto("scan")
  /\ UNCHANGED <<command, timerVars, scanVars, endVars>>

PreparationFails ==
  /\ caller \in {"banner", "assemble", "prepare", "discover"}
  /\ Goto("finish")
  /\ failed' = TRUE
  /\ UNCHANGED <<command, timerVars, scanVars, summary, exit>>

-----------------------------------------------------------------------------
(* The scan.                                                               *)

CommitsWith(seen, commit) == IF commit = None THEN seen ELSE seen \cup {commit}

Emitted == observed + excluded.fragments

\* Only the fragments of a Git source belong to commits.
CommitsOf(name) == {None} \cup (IF name = "Git" THEN Commit ELSE {})

\* A finding is from the commit of its fragment.
ContentsOf(commit) == {None} \cup [place : Place, commit : {commit}, secret : Secret]

Observe(commit, content) ==
  /\ caller = "scan" /\ Emitted < MaxFragments
  /\ Run!Observe
  /\ contents' = Append(contents, content)
  /\ commits' = CommitsWith(commits, commit)
  /\ UNCHANGED <<command, caller, timerVars, policy, excluded, endVars>>

\* The configuration and the baseline are not scanned, but counted: the source
\* goes on with the next fragment without asking the runner.
Exclude(commit) ==
  /\ caller = "scan" /\ result = None /\ Emitted < MaxFragments
  /\ excluded' = [fragments |-> excluded.fragments + 1,
                  commits |-> CommitsWith(excluded.commits, commit)]
  /\ UNCHANGED <<command, caller, timerVars, runVars, policy, contents, commits, endVars>>

Scan ==
  /\ caller = "scan"
  /\ Run!Merge \/ Run!Panic
  /\ UNCHANGED <<command, caller, timerVars, policy, contents, commits, excluded, endVars>>

RunReturns ==
  /\ caller = "scan"
  /\ Run!Return
  /\ Goto("finish")
  /\ UNCHANGED <<command, timerVars, policy, contents, commits, excluded, endVars>>

-----------------------------------------------------------------------------
(* After the scan.                                                         *)

\* Timer::finish sends, whether or not anyone receives, and joins.
TellTimer ==
  /\ caller = "finish"
  /\ told' = TRUE
  /\ Goto("join")
  /\ UNCHANGED <<command, timer, scanVars, endVars>>

JoinTimerUntold ==
  /\ caller = "join" /\ timer \in {"none", "waiting", "ended"}
  /\ Goto(IF failed THEN "fail" ELSE "report")
  /\ UNCHANGED <<command, timerVars, scanVars, endVars>>

JoinTimer ==
  /\ caller = "join" /\ timer \in {"none", "ended"}
  /\ Goto(IF failed THEN "fail" ELSE "report")
  /\ UNCHANGED <<command, timerVars, scanVars, endVars>>

PartialWhenCancelled == result.termination = "Cancelled"

Partial == result.termination \notin {"Completed", "Stopped"}

\* A worker's batch keeps what the policy does not suppress.
Reported ==
  {f \in result.findings : contents[f] # None /\ ~Suppressed(policy, contents[f])}

\* commit_union_count, without the sets it is a cardinality of.
CommitCount ==
  Cardinality(commits) + Cardinality(excluded.commits)
    - Cardinality({c \in excluded.commits : c \in commits})

\* The accounting, the verbose output, the summary and the report.
WriteReport ==
  /\ caller = "report"
  /\ summary' = [findings |-> Reported, commits |-> CommitCount]
  /\ Goto("exit")
  /\ UNCHANGED <<command, timerVars, scanVars, failed, exit>>

ReportFails ==
  /\ caller = "report"
  /\ failed' = TRUE
  /\ Goto("fail")
  /\ UNCHANGED <<command, timerVars, scanVars, summary, exit>>

ExitCode == IF Partial THEN 1 ELSE IF Reported = {} THEN 0 ELSE command.exitCode

Exit ==
  /\ caller \in {"exit", "fail"}
  /\ exit' = IF caller = "fail" THEN 1 ELSE ExitCode
  /\ Goto("returned")
  /\ UNCHANGED <<command, timerVars, scanVars, failed, summary>>

Returned == caller = "returned" /\ UNCHANGED vars

-----------------------------------------------------------------------------

TimerStep == Expire \/ CancelByTimer \/ IsTold
PreparationStep == StartTimer \/ SkipTimer \/ Prepare \/ Assemble \/ Discover
ScanStep ==
  \/ \E commit \in CommitsOf(command.name) :
       Exclude(commit) \/ \E content \in ContentsOf(commit) : Observe(commit, content)
  \/ Scan
EndStep == TellTimer \/ JoinTimer \/ WriteReport \/ Exit

Next ==
  \/ TimerStep
  \/ PreparationStep \/ TimerFails \/ PreparationFails
  \/ ScanStep \/ RunReturns
  \/ EndStep \/ ReportFails
  \/ Returned

Spec == Init /\ [][Next]_vars

\* Threads run and time passes.  A source need not end by itself: a run is only
\* known to return once its token is raised, which is what SourceRunner shows.
FairSpec ==
  /\ Spec
  /\ WF_vars(TimerStep)
  /\ WF_vars(PreparationStep)
  /\ WF_vars(RunReturns /\ token)
  /\ WF_vars(EndStep)

-----------------------------------------------------------------------------
(* Properties.                                                             *)

TypeOK ==
  /\ command \in Commands
  /\ caller \in {"start", "banner", "assemble", "assembled", "prepare", "discover",
                 "scan", "finish", "join", "report", "fail", "exit", "returned"}
  /\ timer \in {"none", "waiting", "firing", "ended"}
  /\ told \in BOOLEAN /\ token \in BOOLEAN /\ panicked \in BOOLEAN
  /\ failed \in BOOLEAN
  /\ observed \in Nat
  /\ merged \subseteq 1 .. observed
  /\ contents \in Seq(Findings \cup {None}) /\ Len(contents) = observed
  /\ result = None \/ result.findings \subseteq 1 .. observed
  /\ exit \in Int \cup {None}

\* A line of the file, before any that is too long, names the place of the finding,
\* alone or in its commit.
NamedIn(file, finding) ==
  \E i \in DOMAIN file :
    /\ file[i] \in {Global(finding), Qualified(finding)}
    /\ \A j \in 1 .. i : file[j] # Overlong

\* The user has reviewed the finding: an ignore file names it, or a baseline that
\* could be loaded has it, with the same secret unless the report is redacted.
Reviewed(finding) ==
  \/ \E file \in command.ignoreFiles : NamedIn(file, finding)
  \/ /\ command.baseline \notin {None, Unreadable}
     /\ \E secret \in IF command.redact THEN Secret ELSE {finding.secret} :
          [finding EXCEPT !.secret = secret] \in command.baseline

\* The fragments with a secret that nobody has reviewed.
Leaky == {f \in 1 .. observed : contents[f] # None /\ ~Reviewed(contents[f])}

\* The exit code tells what the user may conclude (the end of run_scan): any code
\* but the 1 of an incomplete run means that every fragment that was observed
\* has been scanned and every secret in them that the user has not reviewed before is
\* reported, none because of a baseline that could not be loaded or a line of an
\* ignore file that was not read; 0 moreover that there are none unless the user
\* asked for 0; and the 1 has a cause that is not a timer that fired after the
\* outcome was there.
ExitCodeIsTruthful ==
  /\ exit \notin {None, 1} =>
       /\ merged = 1 .. observed
       /\ summary.findings = Leaky
       /\ exit = 0 => Leaky = {} \/ command.exitCode = 0
  /\ exit = 1 =>
       \/ failed
       \/ result.termination = "WorkerPanic" /\ panicked
       \/ result.termination \in {"Cancelled", "SourceError"}
       \/ Leaky # {} /\ command.exitCode = 1

\* run_from is called by embedders too: whatever fails, no helper is left that would
\* raise the token of a command that has returned, and a scan that was
\* reported counts every commit once, excluded or not.
NothingLeftBehind ==
  /\ caller = "returned" => timer \in {"none", "ended"}
  /\ summary # None => summary.commits = Cardinality(commits \cup excluded.commits)

\* A timeout ends the command, although its source might never end: the token
\* stops the run, and the helper is always there to be joined.
TimeoutEnds == (timer = "waiting") ~> (caller = "returned")

=============================================================================
