-------------------------- MODULE GitSource_proofs --------------------------
(***************************************************************************)
(* Theorems about the Git source.  GitCommand, for every limit, pipe       *)
(* capacity and amount of output; PatchParser, for every patch, every      *)
(* limit and whatever the callback answers.                                *)
(*                                                                         *)
(* What a stream carries is accounted for by StreamInv: until a reader     *)
(* drops something, what it kept and what is still in the pipe are what    *)
(* was written, and a reader that has ended saw the end of the stream.     *)
(* CollectorInv says what each program counter of the collector knows of   *)
(* the child, and what each result says of both.                           *)
(*                                                                         *)
(* ParserInv follows the lines of a patch: the hunks that are stored are   *)
(* complete and apart, what the hunk in hand lacks is what its header      *)
(* announces without what was read since, and every added line that was    *)
(* read is in one of them.                                                 *)
(*                                                                         *)
(* WrittenInv knows where the parser is in what Git wrote: at a commit, at *)
(* a change, behind so many headers of it, or behind so many lines of a    *)
(* hunk; and that the events of the files stored so far are those of the   *)
(* changes before that place.                                              *)
(***************************************************************************)
EXTENDS GitCommand, PatchParser, FiniteSetTheorems, SequenceTheorems, WellFoundedInduction, TLAPS

StreamInv ==
  \A s \in Stream :
    /\ kept[s] + pipe[s] <= written[s]
    /\ ~limited[s] => kept[s] + pipe[s] = written[s]
    /\ limited[s] => kept[s] = Limit[s] /\ kept[s] + pipe[s] < written[s]
    /\ reader[s] = "marking" \/ exceeded[s] => limited[s]
    /\ reader[s] = "ended" => pipe[s] = 0 /\ ~WritersExist

BeforeSpawn == {"visit", "spawn"}
BeforeKill == BeforeSpawn \cup {"readers", "poll", "limits", "wait"}
Joining == {"joinOut", "joinErr"}

\* What is known at each program counter.
PhaseInv ==
  /\ collector \in BeforeSpawn =>
       child = "none" /\ helper = "none" /\ \A s \in Stream : reader[s] = "unspawned"
  /\ collector = "readers" => reader["err"] = "unspawned"
  /\ collector \in BeforeKill => stop = "None"
  /\ collector \in BeforeKill \cup {"kill"} => ~signalled /\ ~killFailed
  /\ collector \in {"kill", "reap"} => stop \in {"Cancelled", "Limited", "WaitFailed"}
  /\ collector \in Joining => child = "reaped" /\ stop \in {"Exited", "Cancelled", "Limited"}
  /\ collector = "joinErr" => reader["out"] = "ended"

\* What a reason to stop and a result mean.
OutcomeInv ==
  /\ stop = "Exited" => child = "reaped" /\ ~signalled
  /\ stop = "Cancelled" => token
  /\ stop = "Limited" => \E s \in Stream : limited[s]
  /\ result = "None" <=> collector \notin {"unwind", "done"}
  /\ collector = "unwind" => result \in {"Panic", "CleanupFailed", "WaitFailed", "ReadFailed"}
  /\ result \in {"WaitFailed", "ReadFailed", "Output", "Limit", "GitExit"} => child = "reaped"
  /\ result = "Output" =>
       succeeded /\ \A s \in Stream : reader[s] = "ended" /\ ~limited[s]
  /\ result = "Limit" => \E s \in Stream : limited[s]
  /\ result = "GitExit" => ~signalled /\ ~succeeded
  /\ result = "Cancelled" => token
  /\ collector = "done" => child \in {"none", "reaped"} \/ result \in {"CleanupFailed", "Panic"}

CollectorInv == PhaseInv /\ OutcomeInv
IInv == TypeOK /\ StreamInv /\ CollectorInv

\* A reader that takes a block keeps a prefix of it, and knows whether that is all.
LEMMA ReadAccounts ==
  ASSUME IInv, NEW s \in Stream, Read(s)
  PROVE  StreamInv'
<1> USE LimitAssumption, ChildAssumption DEF childVars, processVars, streamVars, collectorVars
<1>1. PICK n \in 1 .. pipe[s] :
        /\ pipe' = [pipe EXCEPT ![s] = @ - n]
        /\ kept' = [kept EXCEPT ![s] = @ + Keep(s, n)]
        /\ limited' = [limited EXCEPT ![s] = Drops(s, n)]
        /\ reader' = [reader EXCEPT ![s] = IF Drops(s, n) THEN "marking" ELSE @]
  BY DEF Read, Take
<1>2. UNCHANGED <<child, helper, written, exceeded>> /\ reader[s] = "reading"
  BY DEF Read, Take
<1>3. /\ n \in Nat /\ 1 <= n /\ n <= pipe[s]
      /\ pipe[s] \in Nat /\ kept[s] \in Nat /\ written[s] \in Nat /\ Limit[s] \in Nat
      /\ kept[s] <= Limit[s]
  BY DEF IInv, TypeOK, ChildTypeOK
<1>4. Keep(s, n) \in Nat /\ Keep(s, n) <= n /\ kept[s] + Keep(s, n) <= Limit[s]
  BY <1>3 DEF Keep
<1>5. Keep(s, n) < n => kept[s] + Keep(s, n) = Limit[s]
  BY <1>3 DEF Keep
<1>6. limited[s] => kept[s] = Limit[s] /\ Keep(s, n) = 0
  BY <1>3, <1>4 DEF IInv, StreamInv
<1>7. /\ pipe'[s] = pipe[s] - n /\ kept'[s] = kept[s] + Keep(s, n)
      /\ (limited'[s] <=> Drops(s, n)) /\ reader'[s] # "ended"
      /\ reader'[s] = "marking" => Drops(s, n)
  BY <1>1, <1>2 DEF IInv, TypeOK, ChildTypeOK
<1>8. ASSUME NEW t \in Stream, t # s
      PROVE  /\ pipe'[t] = pipe[t] /\ kept'[t] = kept[t]
             /\ limited'[t] = limited[t] /\ reader'[t] = reader[t]
  BY <1>1, <1>8 DEF IInv, TypeOK, ChildTypeOK
<1>9. SUFFICES ASSUME NEW t \in Stream
               PROVE  /\ kept'[t] + pipe'[t] <= written'[t]
                      /\ ~limited'[t] => kept'[t] + pipe'[t] = written'[t]
                      /\ limited'[t] => kept'[t] = Limit[t] /\ kept'[t] + pipe'[t] < written'[t]
                      /\ reader'[t] = "marking" \/ exceeded'[t] => limited'[t]
                      /\ reader'[t] = "ended" => pipe'[t] = 0 /\ ~WritersExist'
  BY DEF StreamInv
<1>10. CASE t = s
  <2>1. /\ kept[s] + pipe[s] <= written[s] /\ exceeded[s] => limited[s]
        /\ ~limited[s] => kept[s] + pipe[s] = written[s]
        /\ limited[s] => kept[s] + pipe[s] < written[s]
    BY DEF IInv, StreamInv
  <2>2. limited'[s] <=> limited[s] \/ Keep(s, n) < n
    BY <1>7 DEF Drops
  <2> QED
    BY <1>2, <1>3, <1>4, <1>5, <1>6, <1>7, <1>10, <2>1, <2>2
<1>11. CASE t # s
  BY <1>2, <1>8, <1>11 DEF IInv, StreamInv, WritersExist
<1> QED
  BY <1>10, <1>11

\* Every step keeps the types, and what a reader retains within its limit.
LEMMA TypeStep ==
  ASSUME TypeOK, [Next]_vars
  PROVE  TypeOK'
<1> USE LimitAssumption, ChildAssumption
      DEF collectorVars, readerVars, processVars, streamVars, childVars
<1>1. CASE ChildDies /\ UNCHANGED <<collectorVars, readerVars>>
  <2>1. child' = "exited" /\ succeeded' = FALSE
        /\ UNCHANGED <<token, helper, signalled, streamVars>>
    BY <1>1 DEF ChildDies
  <2>2. ChildTypeOK'
    BY <2>1 DEF TypeOK, ChildTypeOK
  <2> QED
    BY <1>1, <2>2 DEF TypeOK
<1> USE DEF TypeOK, ChildTypeOK
<1>2. CASE Cancel /\ UNCHANGED <<collectorVars, readerVars>>
  BY <1>2 DEF Cancel
<1>3. ASSUME NEW s \in Stream, Write(s) /\ UNCHANGED <<collectorVars, readerVars>>
      PROVE  TypeOK'
  BY <1>3 DEF Write
<1>4. CASE StartHelper /\ UNCHANGED <<collectorVars, readerVars>>
  BY <1>4 DEF StartHelper
<1>5. CASE HelperEnds /\ UNCHANGED <<collectorVars, readerVars>>
  BY <1>5 DEF HelperEnds
<1>6. CASE ChildExits /\ UNCHANGED <<collectorVars, readerVars>>
  BY <1>6 DEF ChildExits
<1>7. CASE PollBeforeSpawn
  BY <1>7 DEF PollBeforeSpawn, Return, Goto
<1>8. CASE SpawnChild
  BY <1>8 DEF SpawnChild, Spawn, Goto
<1>9. ASSUME NEW s \in Stream, SpawnReader(s)
      PROVE  TypeOK'
  BY <1>9 DEF SpawnReader, NextReader, Goto
<1>10. CASE PollToken
  BY <1>10 DEF PollToken, Terminate, Goto
<1>11. CASE PollLimits
  BY <1>11 DEF PollLimits, Terminate, Goto
<1>12. CASE TryWaitDone
  BY <1>12 DEF TryWaitDone, Wait
<1>13. CASE TryWaitRunning
  BY <1>13 DEF TryWaitRunning, Goto
<1>14. CASE TerminateChild
  BY <1>14 DEF TerminateChild, Kill, Goto
<1>15. CASE ReapChild
  BY <1>15 DEF ReapChild, Wait, AfterCleanup, Unwind, Goto
<1>16. CASE JoinStdout
  BY <1>16 DEF JoinStdout, Goto, Unwind
<1>17. CASE JoinStderr
  BY <1>17 DEF JoinStderr, Return, Unwind, Verdict
<1>18. CASE LeaveScope
  BY <1>18 DEF LeaveScope
<1>19. CASE SpawnChildFails
  BY <1>19 DEF SpawnChildFails, Return
<1>20. ASSUME NEW s \in Stream, SpawnReaderPanics(s)
      PROVE  TypeOK'
  BY <1>20 DEF SpawnReaderPanics, NextReader, Unwind
<1>21. CASE TryWaitFails
  BY <1>21 DEF TryWaitFails, Terminate
<1>22. CASE TerminateChildFails
  BY <1>22 DEF TerminateChildFails
<1>23. CASE ReapChildFails
  BY <1>23 DEF ReapChildFails, Unwind
<1>24. ASSUME NEW s \in Stream, Read(s)
      PROVE  TypeOK'
  BY <1>24 DEF Read, Take, Drops, Keep
<1>25. ASSUME NEW s \in Stream, MarkExceeded(s)
      PROVE  TypeOK'
  BY <1>25 DEF MarkExceeded
<1>26. ASSUME NEW s \in Stream, ReaderEnds(s)
      PROVE  TypeOK'
  BY <1>26 DEF ReaderEnds, CloseReadEnd, AtEndOfFile
<1>27. ASSUME NEW s \in Stream, ReaderFails(s)
      PROVE  TypeOK'
  BY <1>27 DEF ReaderFails, CloseReadEnd
<1>28. CASE UNCHANGED vars
  BY <1>28 DEF vars
<1> QED
  BY <1>1, <1>2, <1>3, <1>4, <1>5, <1>6, <1>7, <1>8, <1>9, <1>10, <1>11, <1>12, <1>13,
    <1>14, <1>15, <1>16, <1>17, <1>18, <1>19, <1>20, <1>21, <1>22, <1>23, <1>24, <1>25,
    <1>26, <1>27, <1>28
     DEF Next, EnvironmentStep, Environment, CollectorStep, CollectorFailure, ReaderStep,
         Returned

\* Every step keeps the account of each stream: only writers and its reader change it,
\* and nobody becomes a writer once a reader saw the end.
LEMMA StreamStep ==
  ASSUME IInv, [Next]_vars
  PROVE  StreamInv'
<1> USE LimitAssumption, ChildAssumption
      DEF collectorVars, readerVars, processVars, streamVars, childVars
<1>1. ASSUME NEW s \in Stream, Read(s)
      PROVE  StreamInv'
  BY <1>1, ReadAccounts
<1> USE DEF IInv, TypeOK, ChildTypeOK, StreamInv, CollectorInv, PhaseInv, BeforeSpawn,
      WritersExist
<1>2. CASE Cancel /\ UNCHANGED <<collectorVars, readerVars>>
  BY <1>2 DEF Cancel
<1>3. ASSUME NEW s \in Stream, Write(s) /\ UNCHANGED <<collectorVars, readerVars>>
      PROVE  StreamInv'
  BY <1>3 DEF Write
<1>4. CASE StartHelper /\ UNCHANGED <<collectorVars, readerVars>>
  BY <1>4 DEF StartHelper
<1>5. CASE HelperEnds /\ UNCHANGED <<collectorVars, readerVars>>
  BY <1>5 DEF HelperEnds
<1>6. CASE ChildExits /\ UNCHANGED <<collectorVars, readerVars>>
  BY <1>6 DEF ChildExits
<1>7. CASE ChildDies /\ UNCHANGED <<collectorVars, readerVars>>
  BY <1>7 DEF ChildDies
<1>8. CASE PollBeforeSpawn
  BY <1>8 DEF PollBeforeSpawn, Return, Goto
<1>9. CASE SpawnChild
  BY <1>9 DEF SpawnChild, Spawn, Goto
<1>10. ASSUME NEW s \in Stream, SpawnReader(s)
      PROVE  StreamInv'
  BY <1>10 DEF SpawnReader, NextReader, Goto
<1>11. CASE PollToken
  BY <1>11 DEF PollToken, Terminate, Goto
<1>12. CASE PollLimits
  BY <1>12 DEF PollLimits, Terminate, Goto
<1>13. CASE TryWaitDone
  BY <1>13 DEF TryWaitDone, Wait
<1>14. CASE TryWaitRunning
  BY <1>14 DEF TryWaitRunning, Goto
<1>15. CASE TerminateChild
  BY <1>15 DEF TerminateChild, Kill, Goto
<1>16. CASE ReapChild
  BY <1>16 DEF ReapChild, Wait, AfterCleanup, Unwind, Goto
<1>17. CASE JoinStdout
  BY <1>17 DEF JoinStdout, Goto, Unwind
<1>18. CASE JoinStderr
  BY <1>18 DEF JoinStderr, Return, Unwind, Verdict
<1>19. CASE LeaveScope
  BY <1>19 DEF LeaveScope
<1>20. CASE SpawnChildFails
  BY <1>20 DEF SpawnChildFails, Return
<1>21. ASSUME NEW s \in Stream, SpawnReaderPanics(s)
      PROVE  StreamInv'
  BY <1>21 DEF SpawnReaderPanics, NextReader, Unwind
<1>22. CASE TryWaitFails
  BY <1>22 DEF TryWaitFails, Terminate
<1>23. CASE TerminateChildFails
  BY <1>23 DEF TerminateChildFails
<1>24. CASE ReapChildFails
  BY <1>24 DEF ReapChildFails, Unwind
<1>25. ASSUME NEW s \in Stream, MarkExceeded(s)
      PROVE  StreamInv'
  BY <1>25 DEF MarkExceeded
<1>26. ASSUME NEW s \in Stream, ReaderEnds(s)
      PROVE  StreamInv'
  BY <1>26 DEF ReaderEnds, CloseReadEnd, AtEndOfFile
<1>27. ASSUME NEW s \in Stream, ReaderFails(s)
      PROVE  StreamInv'
  BY <1>27 DEF ReaderFails, CloseReadEnd
<1>28. CASE UNCHANGED vars
  BY <1>28 DEF vars
<1> QED
  BY <1>1, <1>2, <1>3, <1>4, <1>5, <1>6, <1>7, <1>8, <1>9, <1>10, <1>11, <1>12, <1>13,
    <1>14, <1>15, <1>16, <1>17, <1>18, <1>19, <1>20, <1>21, <1>22, <1>23, <1>24, <1>25,
    <1>26, <1>27, <1>28
     DEF Next, EnvironmentStep, Environment, CollectorStep, CollectorFailure, ReaderStep,
         Returned

\* Every step leads to a program counter whose facts hold.
LEMMA PhaseStep ==
  ASSUME IInv, [Next]_vars
  PROVE  PhaseInv'
<1> USE LimitAssumption, ChildAssumption
      DEF collectorVars, readerVars, processVars, streamVars, childVars
<1> USE DEF IInv, TypeOK, ChildTypeOK, CollectorInv, PhaseInv, BeforeSpawn, BeforeKill,
      Joining, Stream
<1>1. CASE Cancel /\ UNCHANGED <<collectorVars, readerVars>>
  BY <1>1 DEF Cancel
<1>2. ASSUME NEW s \in Stream, Write(s) /\ UNCHANGED <<collectorVars, readerVars>>
      PROVE  PhaseInv'
  BY <1>2 DEF Write
<1>3. CASE StartHelper /\ UNCHANGED <<collectorVars, readerVars>>
  BY <1>3 DEF StartHelper
<1>4. CASE HelperEnds /\ UNCHANGED <<collectorVars, readerVars>>
  BY <1>4 DEF HelperEnds
<1>5. CASE ChildExits /\ UNCHANGED <<collectorVars, readerVars>>
  BY <1>5 DEF ChildExits
<1>6. CASE ChildDies /\ UNCHANGED <<collectorVars, readerVars>>
  BY <1>6 DEF ChildDies
<1>7. CASE PollBeforeSpawn
  BY <1>7 DEF PollBeforeSpawn, Return, Goto
<1>8. CASE SpawnChild
  BY <1>8 DEF SpawnChild, Spawn, Goto
<1>9. ASSUME NEW s \in Stream, SpawnReader(s)
      PROVE  PhaseInv'
  BY <1>9 DEF SpawnReader, NextReader, Goto
<1>10. CASE PollToken
  BY <1>10 DEF PollToken, Terminate, Goto
<1>11. CASE PollLimits
  BY <1>11 DEF PollLimits, Terminate, Goto
<1>12. CASE TryWaitDone
  BY <1>12 DEF TryWaitDone, Wait
<1>13. CASE TryWaitRunning
  BY <1>13 DEF TryWaitRunning, Goto
<1>14. CASE TerminateChild
  BY <1>14 DEF TerminateChild, Kill, Goto
<1>15. CASE ReapChild
  BY <1>15 DEF ReapChild, Wait, AfterCleanup, Unwind, Goto
<1>16. CASE JoinStdout
  BY <1>16 DEF JoinStdout, Goto, Unwind
<1>17. CASE JoinStderr
  BY <1>17 DEF JoinStderr, Return, Unwind, Verdict
<1>18. CASE LeaveScope
  BY <1>18 DEF LeaveScope
<1>19. CASE SpawnChildFails
  BY <1>19 DEF SpawnChildFails, Return
<1>20. ASSUME NEW s \in Stream, SpawnReaderPanics(s)
      PROVE  PhaseInv'
  BY <1>20 DEF SpawnReaderPanics, NextReader, Unwind
<1>21. CASE TryWaitFails
  BY <1>21 DEF TryWaitFails, Terminate
<1>22. CASE TerminateChildFails
  BY <1>22 DEF TerminateChildFails
<1>23. CASE ReapChildFails
  BY <1>23 DEF ReapChildFails, Unwind
<1>24. ASSUME NEW s \in Stream, Read(s)
      PROVE  PhaseInv'
  BY <1>24 DEF Read, Take, Drops, Keep
<1>25. ASSUME NEW s \in Stream, MarkExceeded(s)
      PROVE  PhaseInv'
  BY <1>25 DEF MarkExceeded
<1>26. ASSUME NEW s \in Stream, ReaderEnds(s)
      PROVE  PhaseInv'
  BY <1>26 DEF ReaderEnds, CloseReadEnd, AtEndOfFile
<1>27. ASSUME NEW s \in Stream, ReaderFails(s)
      PROVE  PhaseInv'
  BY <1>27 DEF ReaderFails, CloseReadEnd
<1>28. CASE UNCHANGED vars
  BY <1>28 DEF vars
<1> QED
  BY <1>1, <1>2, <1>3, <1>4, <1>5, <1>6, <1>7, <1>8, <1>9, <1>10, <1>11, <1>12, <1>13,
    <1>14, <1>15, <1>16, <1>17, <1>18, <1>19, <1>20, <1>21, <1>22, <1>23, <1>24, <1>25,
    <1>26, <1>27, <1>28
     DEF Next, EnvironmentStep, Environment, CollectorStep, CollectorFailure, ReaderStep,
         Returned

\* Every step keeps the meaning of the reason to stop and of the result.
LEMMA OutcomeStep ==
  ASSUME IInv, [Next]_vars
  PROVE  OutcomeInv'
<1> USE LimitAssumption, ChildAssumption
      DEF collectorVars, readerVars, processVars, streamVars, childVars
<1> USE DEF IInv, TypeOK, ChildTypeOK, StreamInv, CollectorInv, PhaseInv, OutcomeInv,
      BeforeSpawn, BeforeKill, Joining, Stream
<1>1. CASE Cancel /\ UNCHANGED <<collectorVars, readerVars>>
  BY <1>1 DEF Cancel
<1>2. ASSUME NEW s \in Stream, Write(s) /\ UNCHANGED <<collectorVars, readerVars>>
      PROVE  OutcomeInv'
  BY <1>2 DEF Write
<1>3. CASE StartHelper /\ UNCHANGED <<collectorVars, readerVars>>
  BY <1>3 DEF StartHelper
<1>4. CASE HelperEnds /\ UNCHANGED <<collectorVars, readerVars>>
  BY <1>4 DEF HelperEnds
<1>5. CASE ChildExits /\ UNCHANGED <<collectorVars, readerVars>>
  BY <1>5 DEF ChildExits
<1>6. CASE ChildDies /\ UNCHANGED <<collectorVars, readerVars>>
  BY <1>6 DEF ChildDies
<1>7. CASE PollBeforeSpawn
  BY <1>7 DEF PollBeforeSpawn, Return, Goto
<1>8. CASE SpawnChild
  BY <1>8 DEF SpawnChild, Spawn, Goto
<1>9. ASSUME NEW s \in Stream, SpawnReader(s)
      PROVE  OutcomeInv'
  BY <1>9 DEF SpawnReader, NextReader, Goto
<1>10. CASE PollToken
  BY <1>10 DEF PollToken, Terminate, Goto
<1>11. CASE PollLimits
  BY <1>11 DEF PollLimits, Terminate, Goto
<1>12. CASE TryWaitDone
  BY <1>12 DEF TryWaitDone, Wait
<1>13. CASE TryWaitRunning
  BY <1>13 DEF TryWaitRunning, Goto
<1>14. CASE TerminateChild
  BY <1>14 DEF TerminateChild, Kill, Goto
<1>15. CASE ReapChild
  BY <1>15 DEF ReapChild, Wait, AfterCleanup, Unwind, Goto
<1>16. CASE JoinStdout
  BY <1>16 DEF JoinStdout, Goto, Unwind
<1>17. CASE JoinStderr
  BY <1>17 DEF JoinStderr, Return, Unwind, Verdict
<1>18. CASE LeaveScope
  BY <1>18 DEF LeaveScope
<1>19. CASE SpawnChildFails
  BY <1>19 DEF SpawnChildFails, Return
<1>20. ASSUME NEW s \in Stream, SpawnReaderPanics(s)
      PROVE  OutcomeInv'
  BY <1>20 DEF SpawnReaderPanics, NextReader, Unwind
<1>21. CASE TryWaitFails
  BY <1>21 DEF TryWaitFails, Terminate
<1>22. CASE TerminateChildFails
  BY <1>22 DEF TerminateChildFails
<1>23. CASE ReapChildFails
  BY <1>23 DEF ReapChildFails, Unwind
<1>24. ASSUME NEW s \in Stream, Read(s)
      PROVE  OutcomeInv'
  BY <1>24 DEF Read, Take, Drops, Keep
<1>25. ASSUME NEW s \in Stream, MarkExceeded(s)
      PROVE  OutcomeInv'
  BY <1>25 DEF MarkExceeded
<1>26. ASSUME NEW s \in Stream, ReaderEnds(s)
      PROVE  OutcomeInv'
  BY <1>26 DEF ReaderEnds, CloseReadEnd, AtEndOfFile
<1>27. ASSUME NEW s \in Stream, ReaderFails(s)
      PROVE  OutcomeInv'
  BY <1>27 DEF ReaderFails, CloseReadEnd
<1>28. CASE UNCHANGED vars
  BY <1>28 DEF vars
<1> QED
  BY <1>1, <1>2, <1>3, <1>4, <1>5, <1>6, <1>7, <1>8, <1>9, <1>10, <1>11, <1>12, <1>13,
    <1>14, <1>15, <1>16, <1>17, <1>18, <1>19, <1>20, <1>21, <1>22, <1>23, <1>24, <1>25,
    <1>26, <1>27, <1>28
     DEF Next, EnvironmentStep, Environment, CollectorStep, CollectorFailure, ReaderStep,
         Returned

\* The invariant holds of every run.
LEMMA RunInvariant == Spec => []IInv
<1>1. Init => IInv
  <2>1. ASSUME Init
        PROVE  TypeOK
    <3>1. 0 \in 0 .. MaxOutput /\ 0 \in 0 .. PipeCapacity
      BY ChildAssumption
    <3>2. ChildTypeOK
      BY <2>1, <3>1 DEF Init, ChildInit, ChildTypeOK
    <3>3. kept \in [Stream -> Nat] /\ \A s \in Stream : kept[s] <= Limit[s]
      BY <2>1, LimitAssumption DEF Init
    <3>4. /\ reader \in [Stream -> {"unspawned", "reading", "marking", "ended", "failed"}]
          /\ limited \in [Stream -> BOOLEAN] /\ exceeded \in [Stream -> BOOLEAN]
      BY <2>1 DEF Init
    <3> QED
      BY <2>1, <3>2, <3>3, <3>4 DEF Init, TypeOK
  <2>2. Init => StreamInv
    BY DEF Init, ChildInit, StreamInv
  <2>3. Init => CollectorInv
    BY DEF Init, ChildInit, CollectorInv, PhaseInv, OutcomeInv, BeforeSpawn, BeforeKill, Joining
  <2> QED
    BY <2>1, <2>2, <2>3 DEF IInv
<1>2. IInv /\ [Next]_vars => IInv'
  <2>1. ASSUME IInv, [Next]_vars
        PROVE  TypeOK'
    BY <2>1, TypeStep DEF IInv
  <2> QED
    BY <2>1, StreamStep, PhaseStep, OutcomeStep DEF IInv, CollectorInv
<1> QED
  BY <1>1, <1>2, PTL DEF Spec

\* Every variable keeps its type, and no reader of read_bounded_and_drain retains more
\* than its limit, however large the blocks it reads are.
THEOREM TypeCorrect == Spec => []TypeOK
<1>1. IInv => TypeOK
  BY DEF IInv
<1> QED
  BY <1>1, RunInvariant, PTL

\* visit never parses a truncated patch: an accepted output is all that was written.
THEOREM AcceptedOutputIsWhole == Spec => []OutputIsWhole
<1>1. IInv => OutputIsWhole
  BY DEF IInv, TypeOK, ChildTypeOK, StreamInv, CollectorInv, OutcomeInv, OutputIsWhole, Stream
<1> QED
  BY <1>1, RunInvariant, PTL

\* Errors of collect_command and visit name their cause.
THEOREM ErrorsAreTruthful == Spec => []VerdictIsTrue
<1>1. ASSUME IInv
      PROVE  VerdictIsTrue
  <2>1. ASSUME NEW s \in Stream, limited[s]
        PROVE  kept[s] = Limit[s] /\ written[s] > Limit[s]
    BY <1>1, <2>1, LimitAssumption DEF IInv, TypeOK, ChildTypeOK, StreamInv
  <2> QED
    BY <1>1, <2>1 DEF IInv, CollectorInv, OutcomeInv, VerdictIsTrue
<1> QED
  BY <1>1, RunInvariant, PTL

\* collect_command leaves no child behind, unless the cleanup failed or a reader thread
\* could not be created.
THEOREM ChildIsReaped == Spec => []NoOrphan
<1>1. IInv => NoOrphan
  BY DEF IInv, CollectorInv, OutcomeInv, NoOrphan
<1> QED
  BY <1>1, RunInvariant, PTL

-----------------------------------------------------------------------------
(* The parser.                                                             *)

Values == {None} \cup {patch[i].value : i \in DOMAIN patch}
Added == [line : Nat, newline : BOOLEAN]
InHand == [at : Nat, old : Nat, new : Nat, added : Seq(Added), previous : BOOLEAN, start : Nat]
Complete == [at : Nat, added : Seq(Added), start : Nat, end : Nat]
ParsedFile ==
  [path : Values, commit : Values, deleted : BOOLEAN, binary : BOOLEAN, payload : BOOLEAN,
   saw : SUBSET {patch[i].is : i \in DOMAIN patch}, hunks : Seq(Complete)]

Reading == {"stderr", "split", "patch", "header", "file", "hunk"}
InRecord == {"file", "hunk"}

\* The parser still reads, or it has accepted the patch.
Live == doing \in Reading \/ Accepted

ParserTypes ==
  /\ patch \in Seq(Range(patch)) /\ \A i \in DOMAIN patch : IsLine(patch[i])
  /\ limits.lines \in Nat /\ limits.files \in Nat /\ limits.hunks \in Nat
  /\ index \in 1 .. Len(patch) + 1
  /\ doing \in Reading \cup {"emit", "done"}
  /\ commit \in Values /\ file \in ParsedFile /\ hunk \in InHand
  /\ hunks \in Nat /\ files \in Seq(ParsedFile)

\* Nothing is emitted before the whole patch was read, within its ceilings.
LimitsInv ==
  /\ doing \in Reading \cup {"emit"} => outcome = "Continue"
  /\ doing \in Reading => events = <<>>
  /\ Live /\ doing \notin {"stderr", "split"} => Len(patch) <= limits.lines
  /\ Len(files) <= limits.files
  /\ Live => hunks <= limits.hunks
  /\ Accepted => index = Len(patch) + 1

\* The lines of a hunk so far, and the hunks that are complete.
Between(first, last) == SubSeq(patch, first + 1, last - 1)
OldOps == {"removed", "context"}
NewOps == {"added", "context"}
Pluses(first, last) == {i \in first + 1 .. last - 1 : patch[i].op = "added"}
Stored ==
  (UNION {HunksOf(files[f]) : f \in DOMAIN files})
    \cup (IF doing \in InRecord THEN HunksOf(file) ELSE {})

IsComplete(h) ==
  /\ h.start \in DOMAIN patch /\ h.start < h.end /\ h.end <= index
  /\ patch[h.start].old = CountOf(Between(h.start, h.end), OldOps)
  /\ patch[h.start].new = CountOf(Between(h.start, h.end), NewOps)
  /\ LinesOf(h) = Pluses(h.start, h.end)

Apart(h, k) == h = k \/ h.end <= k.start \/ k.end <= h.start

\* The hunk in hand is behind the others, and what it lacks is what its header announces
\* without the lines read since.
HandInv ==
  /\ hunk.start \in DOMAIN patch /\ hunk.start < index
  /\ \A h \in Stored : h.end <= hunk.start
  /\ patch[hunk.start].old = hunk.old + CountOf(Between(hunk.start, index), OldOps)
  /\ patch[hunk.start].new = hunk.new + CountOf(Between(hunk.start, index), NewOps)
  /\ LinesOf(hunk) = Pluses(hunk.start, index)

HunkInv ==
  Live =>
    /\ \A h \in Stored : IsComplete(h)
    /\ \A h, k \in Stored : Apart(h, k)
    /\ doing = "hunk" => HandInv

\* The record that the last line belongs to.
RecordInv ==
  /\ doing = "header" =>
       Record(index - 1) \in 1 .. index - 1 /\ patch[Record(index - 1)].is = "commit"
  /\ doing \in InRecord =>
       /\ Record(index - 1) \in 1 .. index - 1 /\ patch[Record(index - 1)].is = "diff"
       /\ file.payload => \E j \in Record(index - 1) .. index - 1 : patch[j].is = "payload"
       /\ file.path = None => Unnamed(Record(index - 1))

\* An added line is in a hunk, of a file or still in hand, or its record has no path.
Covered(i) ==
  \/ \E f \in DOMAIN files : \E h \in HunksOf(files[f]) : i \in LinesOf(h)
  \/ Unnamed(Record(i))
  \/ /\ doing \in InRecord /\ Record(i) = Record(index - 1)
     /\ \/ \E h \in HunksOf(file) : i \in LinesOf(h)
        \/ doing = "hunk" /\ i \in LinesOf(hunk)

AddedLine(i) == patch[i].op = "added" /\ patch[i].is # "newPath" /\ InDiff(i)

LinesInv == Live => \A i \in 1 .. index - 1 : AddedLine(i) => Covered(i)

ParserInv == ParserTypes /\ LimitsInv /\ HunkInv /\ RecordInv /\ LinesInv

-----------------------------------------------------------------------------
(* One line more.                                                          *)

LEMMA LinesAreLines ==
  ASSUME ParserTypes, NEW i \in 1 .. Len(patch)
  PROVE  /\ i \in DOMAIN patch /\ IsLine(patch[i])
         /\ patch[i].value \in Values /\ patch[i].is \in {patch[j].is : j \in DOMAIN patch}
<1>1. DOMAIN patch = 1 .. Len(patch)
  BY DEF ParserTypes
<1> QED
  BY <1>1 DEF ParserTypes, Values

LEMMA CountIsNat ==
  ASSUME ParserTypes, NEW first \in Nat, NEW last \in Nat, first < last, last <= Len(patch) + 1,
         NEW ops
  PROVE  CountOf(Between(first, last), ops) \in Nat
<1> DEFINE body == Between(first, last)
<1>1. DOMAIN body = 1 .. last - 1 - first /\ last - 1 - first \in Int
  BY DEF ParserTypes, Between
<1> HIDE DEF body
<1>2. IsFiniteSet(1 .. last - 1 - first)
  BY <1>1, FS_Interval
<1>3. {i \in DOMAIN body : body[i].op \in ops} \in SUBSET (1 .. last - 1 - first)
  BY <1>1
<1>4. IsFiniteSet({i \in DOMAIN body : body[i].op \in ops})
  BY <1>2, <1>3, FS_Subset
<1> QED
  BY <1>4, FS_CardinalityType DEF CountOf, body

LEMMA OneMore ==
  ASSUME ParserTypes, NEW first \in Nat, NEW last \in Nat, first < last, last <= Len(patch),
         NEW ops
  PROVE  /\ CountOf(Between(first, last), ops) \in Nat
         /\ CountOf(Between(first, last + 1), ops)
              = CountOf(Between(first, last), ops) + IF patch[last].op \in ops THEN 1 ELSE 0
<1> DEFINE Old == {i \in 1 .. last - 1 - first : patch[i + first].op \in ops}
           New == {i \in 1 .. last - first : patch[i + first].op \in ops}
<1>1. /\ CountOf(Between(first, last), ops) = Cardinality(Old)
      /\ CountOf(Between(first, last + 1), ops) = Cardinality(New)
  <2> DEFINE a == Between(first, last)
             b == Between(first, last + 1)
  <2>1. /\ DOMAIN a = 1 .. last - 1 - first
        /\ \A i \in DOMAIN a : a[i] = patch[i + first]
    BY SMTT(30) DEF ParserTypes, Between
  <2>2. /\ DOMAIN b = 1 .. last - first
        /\ \A i \in DOMAIN b : b[i] = patch[i + first]
    BY SMTT(30) DEF ParserTypes, Between
  <2> HIDE DEF a, b
  <2>3. {i \in DOMAIN a : a[i].op \in ops} = Old
    BY <2>1
  <2>4. {i \in DOMAIN b : b[i].op \in ops} = New
    BY <2>2
  <2> QED
    BY <2>3, <2>4 DEF CountOf, a, b
<1>2. IsFiniteSet(Old)
  <2>1. Old \in SUBSET (1 .. last - 1 - first) /\ last - 1 - first \in Int
    OBVIOUS
  <2>2. IsFiniteSet(1 .. last - 1 - first)
    BY <2>1, FS_Interval
  <2> HIDE DEF Old
  <2> QED
    BY <2>1, <2>2, FS_Subset
<1>3. last - first \notin Old /\ (last - first) + first = last
  OBVIOUS
<1>4. New = IF patch[last].op \in ops THEN Old \cup {last - first} ELSE Old
  <2> SUFFICES ASSUME NEW i
               PROVE  i \in New <=>
                        i \in IF patch[last].op \in ops THEN Old \cup {last - first} ELSE Old
    OBVIOUS
  <2>1. i \in 1 .. last - first <=> i \in 1 .. last - 1 - first \/ i = last - first
    OBVIOUS
  <2> QED
    BY <2>1, <1>3
<1> HIDE DEF Old, New
<1>5. Cardinality(Old) \in Nat
  BY <1>2, FS_CardinalityType
<1>6. Cardinality(Old \cup {last - first}) = Cardinality(Old) + 1
  BY <1>2, <1>3, FS_AddElement
<1> QED
  BY <1>1, <1>4, <1>5, <1>6

LEMMA OneMoreOfBoth ==
  ASSUME ParserTypes, NEW first \in Nat, NEW last \in Nat, first < last, last <= Len(patch)
  PROVE  /\ CountOf(Between(first, last), OldOps) \in Nat
         /\ CountOf(Between(first, last), NewOps) \in Nat
         /\ CountOf(Between(first, last + 1), OldOps)
              = CountOf(Between(first, last), OldOps) + IF patch[last].op \in OldOps THEN 1 ELSE 0
         /\ CountOf(Between(first, last + 1), NewOps)
              = CountOf(Between(first, last), NewOps) + IF patch[last].op \in NewOps THEN 1 ELSE 0
<1>1. ASSUME NEW ops
      PROVE  /\ CountOf(Between(first, last), ops) \in Nat
             /\ CountOf(Between(first, last + 1), ops)
                  = CountOf(Between(first, last), ops) + IF patch[last].op \in ops THEN 1 ELSE 0
  BY OneMore
<1> QED
  BY <1>1, Zenon

LEMMA NoneYet ==
  ASSUME ParserTypes, NEW first \in Nat, NEW ops
  PROVE  /\ CountOf(Between(first, first + 1), ops) = 0
         /\ Pluses(first, first + 1) = {}
<1>1. DOMAIN Between(first, first + 1) = {}
  BY DEF ParserTypes, Between
<1>2. {i \in DOMAIN Between(first, first + 1) : Between(first, first + 1)[i].op \in ops} = {}
  BY <1>1
<1> QED
  BY <1>2, FS_EmptySet DEF CountOf, Pluses

LEMMA OneMorePlus ==
  ASSUME ParserTypes, NEW first \in Nat, NEW last \in Nat, first < last, last <= Len(patch)
  PROVE  Pluses(first, last + 1) =
           Pluses(first, last) \cup IF patch[last].op = "added" THEN {last} ELSE {}
BY DEF Pluses

LEMMA RecordOfNext ==
  ASSUME ParserTypes, NEW i \in 1 .. Len(patch)
  PROVE  Record(i) = IF patch[i].is \in {"diff", "commit"} THEN i ELSE Record(i - 1)
<1> DEFINE starts(n) == {d \in 1 .. n : patch[d].is \in {"diff", "commit"}}
<1>1. CASE patch[i].is \in {"diff", "commit"}
  <2>1. i \in starts(i) /\ \A e \in starts(i) : e <= i
    BY <1>1
  <2>2. \A d \in starts(i) : (\A e \in starts(i) : e <= d) => d = i
    BY <2>1
  <2> HIDE DEF starts
  <2>3. (CHOOSE d \in starts(i) : \A e \in starts(i) : e <= d) = i
    BY <2>1, <2>2
  <2> QED
    BY <1>1, <2>1, <2>3 DEF Record, starts
<1>2. CASE patch[i].is \notin {"diff", "commit"}
  <2>1. starts(i) = starts(i - 1)
    BY <1>2
  <2> DEFINE last(s) == IF s = {} THEN 0 ELSE CHOOSE d \in s : \A e \in s : e <= d
  <2>2. Record(i) = last(starts(i)) /\ Record(i - 1) = last(starts(i - 1))
    BY DEF Record
  <2> HIDE DEF starts, last
  <2>3. Record(i) = Record(i - 1)
    BY <2>1, <2>2
  <2> QED
    BY <1>2, <2>3
<1> QED
  BY <1>1, <1>2

-----------------------------------------------------------------------------
(* Steps that read nothing.                                                *)

ReadVars == <<patch, limits, index, commit, file, hunk, files>>

LEMMA SameLines ==
  ASSUME patch' = patch
  PROVE  \A i : /\ Record(i)' = Record(i) /\ (AddedLine(i)' <=> AddedLine(i))
               /\ (Unnamed(i)' <=> Unnamed(i))
BY DEF Record, AddedLine, InDiff, Unnamed

\* Neither does a step of the callback.
LEMMA Untouched ==
  ASSUME ParserInv, UNCHANGED <<ReadVars, hunks>>, Accepted' => Accepted,
         doing' = doing \/ (doing \in {"emit", "done"} /\ doing' \in {"emit", "done"}),
         doing' \in Reading \cup {"emit"} => outcome' = "Continue",
         doing' \in Reading => events' = <<>>
  PROVE  ParserInv'
<1> USE DEF ParserInv, ReadVars
<1>0. (doing' \in InRecord <=> doing \in InRecord) /\ (doing' = "hunk" <=> doing = "hunk")
      /\ (Live' => Live) /\ (doing' = "header" => doing = "header")
  BY DEF InRecord, Live, Reading
<1>1. ParserTypes'
  BY DEF ParserTypes, Values, ParsedFile, Complete, InHand, Reading
<1>2. LimitsInv'
  BY <1>0 DEF LimitsInv
<1>3. HunkInv'
  <2>1. Stored' = Stored
    BY <1>0 DEF Stored
  <2>2. \A h : IsComplete(h)' <=> IsComplete(h)
    BY DEF IsComplete, Between, Pluses
  <2>3. HandInv' <=> HandInv
    BY <2>1 DEF HandInv, Between, Pluses
  <2> QED
    BY <1>0, <2>1, <2>2, <2>3 DEF HunkInv, Apart
<1>4. RecordInv'
  BY <1>0, SameLines DEF RecordInv
<1>5. LinesInv'
  <2>1. \A i : Covered(i) => Covered(i)'
    BY <1>0, SameLines DEF Covered
  <2> QED
    BY <1>0, <2>1, SameLines DEF LinesInv
<1> QED
  BY <1>1, <1>2, <1>3, <1>4, <1>5

\* A parser that stops before it accepted has nothing to keep.
LEMMA StopsForGood ==
  ASSUME ParserInv, doing \in Reading, doing' = "done", outcome' # "Continue", events' = events,
         UNCHANGED ReadVars, hunks' \in Nat
  PROVE  ParserInv'
<1> USE DEF ParserInv, ReadVars
<1>1. ~Live'
  BY DEF LimitsInv, Live, Accepted, Reading
<1>2. ParserTypes'
  BY DEF ParserTypes, Values, ParsedFile, Complete, InHand
<1>3. LimitsInv'
  BY <1>1 DEF LimitsInv, Live, Reading
<1> QED
  BY <1>1, <1>2, <1>3 DEF HunkInv, RecordInv, LinesInv, InRecord

-----------------------------------------------------------------------------
(* Steps outside of a hunk.                                                *)

LEMMA CompleteKept ==
  ASSUME ParserTypes, patch' = patch, index' \in Nat, index <= index'
  PROVE  \A h : h.end \in Nat /\ IsComplete(h) => IsComplete(h)'
<1> SUFFICES ASSUME NEW h, h.end \in Nat, IsComplete(h) PROVE IsComplete(h)'
  OBVIOUS
<1>1. /\ Between(h.start, h.end)' = Between(h.start, h.end)
      /\ Pluses(h.start, h.end)' = Pluses(h.start, h.end)
  BY DEF Between, Pluses
<1>2. h.end <= index
  BY DEF IsComplete
<1>3. index \in Nat
  BY DEF ParserTypes
<1>4. h.end <= index'
  BY <1>2, <1>3
<1> QED
  BY <1>1, <1>4 DEF IsComplete

LEMMA StoredTypes ==
  ASSUME ParserTypes, NEW h \in Stored
  PROVE  h \in Complete
<1>1. \A f \in ParsedFile : \A k \in HunksOf(f) : k \in Complete
  BY DEF ParsedFile, HunksOf
<1> QED
  BY <1>1 DEF ParserTypes, Stored

\* The commits and the lines between the records.
LEMMA BetweenRecords ==
  ASSUME ParserInv, doing \in {"patch", "header"}, doing' \in {"patch", "header"},
         index <= Len(patch), index' = index + 1, outcome' = outcome, events' = events,
         commit' \in Values, UNCHANGED <<patch, limits, file, hunk, hunks, files>>,
         doing' = "header" =>
           \/ patch[index].is = "commit"
           \/ doing = "header" /\ patch[index].is \notin {"diff", "commit"},
         AddedLine(index) => doing = "header" /\ patch[index].is \notin {"diff", "commit"}
  PROVE  ParserInv'
<1> USE DEF ParserInv
<1>0. /\ Live /\ Live' /\ ~Accepted /\ ~Accepted' /\ index \in 1 .. Len(patch) /\ index \in Nat
      /\ Len(patch) \in Nat /\ index' - 1 = index
  BY DEF ParserTypes, Live, LimitsInv, Accepted, Reading
<1>1. ParserTypes'
  <2>1. commit' \in Values' /\ ParsedFile' = ParsedFile
    BY DEF Values, ParsedFile
  <2> QED
    BY <1>0, <2>1 DEF ParserTypes, Complete, InHand, Reading
<1>2. LimitsInv'
  BY <1>0 DEF LimitsInv, Reading
<1>3. HunkInv'
  <2>1. Stored' = Stored
    BY DEF Stored, InRecord
  <2>2. \A h \in Stored : IsComplete(h)'
    BY <1>0, CompleteKept, StoredTypes DEF Complete, HunkInv
  <2> QED
    BY <1>0, <2>1, <2>2 DEF HunkInv, Apart
<1>4. Record(index) = IF patch[index].is \in {"diff", "commit"} THEN index ELSE Record(index - 1)
  BY <1>0, RecordOfNext
<1>5. doing' = "header" => Record(index) \in 1 .. index /\ patch[Record(index)].is = "commit"
  BY <1>0, <1>4 DEF RecordInv
<1>6. RecordInv'
  BY <1>0, <1>5, SameLines DEF RecordInv, InRecord
<1>7. LinesInv'
  <2> SUFFICES ASSUME NEW i \in 1 .. index, AddedLine(i) PROVE Covered(i)'
    BY <1>0, SameLines DEF LinesInv
  <2>1. CASE i = index
    <3>1. patch[Record(index)].is = "commit"
      BY <1>4, <2>1 DEF RecordInv
    <3> QED
      BY <2>1, <3>1 DEF AddedLine, InDiff
  <2>2. CASE i # index
    <3>1. Covered(i)
      BY <1>0, <2>2 DEF LinesInv
    <3> QED
      BY <3>1, SameLines DEF Covered, InRecord
  <2> QED
    BY <2>1, <2>2
<1> QED
  BY <1>1, <1>2, <1>3, <1>6, <1>7

LEMMA CommitLineKeeps ==
  ASSUME ParserInv, CommitLine
  PROVE  ParserInv'
<1> USE DEF ParserInv
<1>0. /\ doing = "patch" /\ index <= Len(patch) /\ patch[index].is = "commit"
      /\ UNCHANGED <<patch, limits, file, hunk, hunks, files, events>>
  BY DEF CommitLine, Goes, More, This, inputVars
<1>1. CASE This.value \in TooLong
  <2>1. doing' = "done" /\ outcome' = "Limit" /\ UNCHANGED <<index, commit>>
    BY <1>1 DEF CommitLine, Returns, Stay
  <2> QED
    BY <1>0, <2>1, StopsForGood DEF Reading, ReadVars, ParserTypes
<1>2. CASE This.value \notin TooLong
  <2>1. doing' = "header" /\ outcome' = outcome /\ index' = index + 1 /\ commit' = patch[index].value
    BY <1>2 DEF CommitLine, Do, Advance, This
  <2>2. index \in 1 .. Len(patch)
    BY <1>0 DEF ParserTypes
  <2>3. IsLine(patch[index]) /\ commit' \in Values
    BY <2>1, <2>2, LinesAreLines
  <2>4. ~AddedLine(index)
    BY <1>0, <2>3 DEF AddedLine, IsLine
  <2> QED
    BY <1>0, <2>1, <2>3, <2>4, BetweenRecords
<1> QED
  BY <1>1, <1>2

\* A step that reads no line and stays outside of the records.
LEMMA GoesOn ==
  ASSUME ParserInv, doing \in {"stderr", "split", "patch", "header"},
         doing' \in {"split", "patch", "emit"}, UNCHANGED <<ReadVars, hunks, outcome, events>>,
         doing' # "split" => Len(patch) <= limits.lines,
         doing' = "emit" => index = Len(patch) + 1
  PROVE  ParserInv'
<1> USE DEF ParserInv, ReadVars
<1>0. /\ Live /\ Live' /\ ~Accepted /\ (Accepted' => doing' = "emit")
      /\ doing \notin InRecord /\ doing' \notin InRecord
  BY DEF Live, LimitsInv, Accepted, Reading, InRecord
<1>1. ParserTypes'
  BY DEF ParserTypes, Values, ParsedFile, Complete, InHand, Reading
<1>2. LimitsInv'
  BY <1>0 DEF LimitsInv, Reading
<1>3. HunkInv'
  <2>1. Stored' = Stored
    BY <1>0 DEF Stored
  <2>2. \A h : IsComplete(h)' <=> IsComplete(h)
    BY DEF IsComplete, Between, Pluses
  <2> QED
    BY <1>0, <2>1, <2>2 DEF HunkInv, Apart, InRecord
<1>4. RecordInv'
  BY <1>0 DEF RecordInv, InRecord
<1>5. LinesInv'
  <2>1. \A i : Covered(i) => Covered(i)'
    BY <1>0, SameLines DEF Covered
  <2> QED
    BY <1>0, <2>1, SameLines DEF LinesInv
<1> QED
  BY <1>1, <1>2, <1>3, <1>4, <1>5

LEMMA HeaderLineKeeps ==
  ASSUME ParserInv, HeaderLine
  PROVE  ParserInv'
<1> USE DEF ParserInv
<1>0. /\ doing = "header" /\ UNCHANGED <<patch, limits, commit, file, hunk, hunks, files, events>>
  BY DEF HeaderLine, Goes, inputVars, parseVars
<1>1. CASE ~More \/ AtRecord
  <2>1. doing' = "patch" /\ UNCHANGED <<outcome, index>>
    BY <1>1 DEF HeaderLine, Do, Stay
  <2>2. Len(patch) <= limits.lines
    BY <1>0 DEF LimitsInv, Live, Reading
  <2> QED
    BY <1>0, <2>1, <2>2, GoesOn DEF ReadVars
<1>2. CASE ~(~More \/ AtRecord)
  <2>1. index' = index + 1 /\ UNCHANGED <<doing, outcome>> /\ index <= Len(patch)
        /\ patch[index].is \notin {"diff", "commit"}
    BY <1>2 DEF HeaderLine, Advance, More, AtRecord, This
  <2>2. commit' \in Values
    BY <1>0 DEF ParserTypes
  <2> QED
    BY <1>0, <2>1, <2>2, BetweenRecords
<1> QED
  BY <1>1, <1>2

LEMMA PreambleKeeps ==
  ASSUME ParserInv, Preamble
  PROVE  ParserInv'
<1> USE DEF ParserInv
<1>0. /\ doing = "patch" /\ index <= Len(patch) 
      /\ UNCHANGED <<patch, limits, commit, file, hunk, hunks, files, events>>
  BY DEF Preamble, Goes, More, inputVars, parseVars
<1>1. CASE This.is # "blank"
  <2>1. doing' = "done" /\ outcome' = "Invalid" /\ UNCHANGED index
    BY <1>1 DEF Preamble, Returns, Stay
  <2> QED
    BY <1>0, <2>1, StopsForGood DEF Reading, ReadVars, ParserTypes
<1>2. CASE This.is = "blank"
  <2>1. index' = index + 1 /\ UNCHANGED <<doing, outcome>> /\ patch[index].is = "blank"
    BY <1>2 DEF Preamble, Advance, This
  <2>2. index \in 1 .. Len(patch) /\ commit' \in Values
    BY <1>0 DEF ParserTypes
  <2>3. ~AddedLine(index)
    BY <2>1, <2>2, LinesAreLines DEF AddedLine, IsLine
  <2> QED
    BY <1>0, <2>1, <2>2, <2>3, BetweenRecords
<1> QED
  BY <1>1, <1>2

-----------------------------------------------------------------------------
(* The headers of a record.                                                *)

LEMMA DiffLineKeeps ==
  ASSUME ParserInv, DiffLine
  PROVE  ParserInv'
<1> USE DEF ParserInv
<1>0. /\ doing = "patch" /\ index <= Len(patch) /\ patch[index].is = "diff"
      /\ UNCHANGED <<patch, limits, commit, hunk, hunks, files, events>>
  BY DEF DiffLine, Goes, More, This, inputVars
<1>1. CASE This.value \in TooLong
  <2>1. doing' = "done" /\ outcome' = "Limit" /\ UNCHANGED <<index, file>>
    BY <1>1 DEF DiffLine, Returns, Stay
  <2> QED
    BY <1>0, <2>1, StopsForGood DEF Reading, ReadVars, ParserTypes
<1>2. CASE This.value \notin TooLong
  <2>1. /\ doing' = "file" /\ outcome' = outcome /\ index' = index + 1
        /\ file' = [path |-> patch[index].value, commit |-> commit, deleted |-> FALSE,
                    binary |-> FALSE, payload |-> FALSE, saw |-> {}, hunks |-> <<>>]
    BY <1>2 DEF DiffLine, Do, Advance, This, NoFile
  <2>2. /\ index \in 1 .. Len(patch) /\ index \in Nat /\ Len(patch) \in Nat /\ index' - 1 = index
        /\ Live /\ Live' /\ ~Accepted /\ ~Accepted'
    BY <1>0, <2>1 DEF ParserTypes, Live, LimitsInv, Accepted, Reading
  <2>3. ParserTypes'
    <3>1. patch[index].value \in Values /\ commit \in Values
      BY <2>2, LinesAreLines DEF ParserTypes
    <3>2. file' \in ParsedFile /\ ParsedFile' = ParsedFile /\ Values' = Values
      BY <1>0, <2>1, <3>1 DEF Values, ParsedFile
    <3> QED
      BY <1>0, <2>1, <2>2, <3>2 DEF ParserTypes, Complete, InHand, Reading
  <2>4. LimitsInv'
    BY <1>0, <2>1, <2>2 DEF LimitsInv, Reading
  <2>5. HunkInv'
    <3>1. Stored' = Stored
      BY <1>0, <2>1 DEF Stored, InRecord, HunksOf
    <3>2. \A h \in Stored : IsComplete(h)'
      BY <1>0, <2>1, <2>2, CompleteKept, StoredTypes DEF Complete, HunkInv
    <3> QED
      BY <1>0, <2>1, <2>2, <3>1, <3>2 DEF HunkInv, Apart
  <2>6. Record(index) = index
    BY <1>0, <2>2, RecordOfNext
  <2>7. RecordInv'
    BY <1>0, <2>1, <2>2, <2>6, SameLines DEF RecordInv, Unnamed
  <2>8. LinesInv'
    <3> SUFFICES ASSUME NEW i \in 1 .. index, AddedLine(i) PROVE Covered(i)'
      BY <1>0, <2>2, SameLines DEF LinesInv
    <3>1. i # index
      BY <1>0, <2>2, LinesAreLines DEF AddedLine, IsLine
    <3>2. Covered(i)
      BY <2>2, <3>1 DEF LinesInv
    <3> QED
      BY <1>0, <3>2, SameLines DEF Covered, InRecord
  <2> QED
    BY <2>3, <2>4, <2>5, <2>7, <2>8
<1> QED
  BY <1>1, <1>2

Names(i, path) == patch[i].is \in {"newPath", "renameTo", "copyTo"} /\ patch[i].value = path

\* What a header makes of the record: its path only changes to what it names, and the payload
\* is only marked by its own header.
LEMMA HeaderOfFile ==
  ASSUME ParserInv, doing = "file", index <= Len(patch), FileHeader, doing' # "done"
  PROVE  /\ UNCHANGED <<doing, outcome>> /\ index' = index + 1
         /\ file' \in ParsedFile /\ file'.hunks = file.hunks
         /\ file'.path = file.path \/ Names(index, file'.path)
         /\ file'.payload => file.payload \/ patch[index].is = "payload"
         /\ AddedLine(index) => file.payload
<1> USE DEF ParserInv
<1>1. /\ index \in 1 .. Len(patch) /\ IsLine(patch[index]) /\ patch[index].value \in Values
      /\ patch[index].is \in {patch[j].is : j \in DOMAIN patch} /\ file \in ParsedFile
  BY LinesAreLines DEF ParserTypes
<1>2. ASSUME NEW f \in ParsedFile, Note(f), f.hunks = file.hunks,
             f.path = file.path \/ Names(index, f.path)
      PROVE  /\ UNCHANGED <<doing, outcome>> /\ index' = index + 1
             /\ file' \in ParsedFile /\ file'.hunks = file.hunks
             /\ file'.path = file.path \/ Names(index, file'.path)
             /\ file'.payload = f.payload
  <2>1. file' = [f EXCEPT !.saw = @ \cup {patch[index].is}]
    BY <1>2 DEF Note, This
  <2> QED
    BY <1>1, <1>2, <2>1 DEF Note, Advance, ParsedFile
<1>3. ASSUME NEW r, Refuse(r) PROVE FALSE
  BY <1>3 DEF Refuse, Returns
<1>4. CASE file.payload
  BY <1>1, <1>4 DEF FileHeader, Advance
<1>5. CASE ~file.payload
  <2>1. patch[index].is # "newPath" => patch[index].op # "added" \/ patch[index].is = "other"
    BY <1>1 DEF IsLine
  <2>2. patch[index].is # "other"
    BY <1>3, <1>5 DEF FileHeader, This
  <2>3. ~AddedLine(index)
    BY <2>1, <2>2 DEF AddedLine
  <2>4. ASSUME PathHeader, patch[index].is \in {"newPath", "renameTo", "copyTo"}
        PROVE  \E f \in ParsedFile :
                 /\ Note(f) /\ f.hunks = file.hunks /\ (f.path = file.path \/ Names(index, f.path))
                 /\ f.payload = file.payload
    <3>1. Names(index, patch[index].value)
      BY <2>4 DEF Names
    <3>2. CASE This.is = "newPath" /\ This.value = DevNull
      <4> DEFINE f == [file EXCEPT !.deleted = TRUE]
      <4>1. Note(f)
        BY <2>4, <3>2 DEF PathHeader
      <4>2. f \in ParsedFile /\ f.hunks = file.hunks /\ f.path = file.path /\ f.payload = file.payload
        BY <1>1 DEF ParsedFile
      <4> QED
        BY <4>1, <4>2
    <3>3. CASE ~(This.is = "newPath" /\ This.value = DevNull)
      <4> DEFINE f == [file EXCEPT !.path = This.value]
      <4>1. Note(f)
        BY <1>3, <2>4, <3>3 DEF PathHeader
      <4>2. f \in ParsedFile /\ f.hunks = file.hunks /\ Names(index, f.path) /\ f.payload = file.payload
        BY <1>1, <3>1 DEF ParsedFile, This
      <4> QED
        BY <4>1, <4>2
    <3> QED
      BY <3>2, <3>3
  <2>5. \E f \in ParsedFile :
          /\ Note(f) /\ f.hunks = file.hunks /\ (f.path = file.path \/ Names(index, f.path))
          /\ f.payload => patch[index].is = "payload"
    <3>1. CASE This.is \in {"newPath", "renameTo", "copyTo"}
      <4>1. PathHeader
        BY <1>3, <1>5, <3>1 DEF FileHeader
      <4> QED
        BY <1>5, <2>4, <3>1, <4>1 DEF This
    <3>2. CASE This.is = "deleted"
      <4> DEFINE f == [file EXCEPT !.deleted = TRUE]
      <4>1. Note(f)
        BY <1>5, <3>2 DEF FileHeader
      <4>2. f \in ParsedFile /\ f.hunks = file.hunks /\ f.path = file.path /\ f.payload = file.payload
        BY <1>1 DEF ParsedFile
      <4> QED
        BY <1>5, <4>1, <4>2
    <3>3. CASE This.is = "binary"
      <4> DEFINE f == [file EXCEPT !.binary = TRUE]
      <4>1. Note(f)
        BY <1>5, <3>3 DEF FileHeader
      <4>2. f \in ParsedFile /\ f.hunks = file.hunks /\ f.path = file.path /\ f.payload = file.payload
        BY <1>1 DEF ParsedFile
      <4> QED
        BY <1>5, <4>1, <4>2
    <3>4. CASE This.is = "payload"
      <4> DEFINE f == [file EXCEPT !.binary = TRUE, !.payload = TRUE]
      <4>1. Note(f)
        BY <1>5, <3>4 DEF FileHeader
      <4>2. f \in ParsedFile /\ f.hunks = file.hunks /\ f.path = file.path
        BY <1>1 DEF ParsedFile
      <4> QED
        BY <3>4, <4>1, <4>2 DEF This
    <3>5. CASE This.is \in {"oldPath", "oldMode", "newFile", "newMode", "renameFrom", "copyFrom",
                            "index", "blank"}
      <4>1. Note(file)
        BY <1>5, <3>5 DEF FileHeader
      <4> QED
        BY <1>1, <1>5, <4>1
    <3>6. CASE This.is \notin {"oldPath", "oldMode", "newFile", "newMode", "renameFrom", "copyFrom",
                               "index", "blank", "payload", "binary", "deleted", "newPath",
                               "renameTo", "copyTo"}
      BY <1>3, <1>5, <3>6 DEF FileHeader
    <3> QED
      BY <3>1, <3>2, <3>3, <3>4, <3>5, <3>6
  <2>6. PICK f \in ParsedFile :
          /\ Note(f) /\ f.hunks = file.hunks /\ (f.path = file.path \/ Names(index, f.path))
          /\ f.payload => patch[index].is = "payload"
    BY <2>5
  <2> QED
    BY <1>2, <2>3, <2>6
<1> QED
  BY <1>4, <1>5

LEMMA FileLineKeeps ==
  ASSUME ParserInv, FileLine
  PROVE  ParserInv'
<1> USE DEF ParserInv
<1>0. /\ doing = "file" /\ index <= Len(patch) /\ patch[index].is \notin {"diff", "commit"}
      /\ UNCHANGED <<patch, limits, commit, hunk, hunks, files, events>> /\ FileHeader
  BY DEF FileLine, Goes, More, AtRecord, This, inputVars
<1>1. CASE doing' = "done"
  <2>1. outcome' # "Continue" /\ UNCHANGED <<index, file>>
    <3>1. \E r \in {"Invalid", "Limit"} : Refuse(r)
      BY <1>0, <1>1 DEF FileHeader, PathHeader, Note
    <3> QED
      BY <3>1 DEF Refuse, Returns
  <2> QED
    BY <1>0, <1>1, <2>1, StopsForGood DEF Reading, ReadVars, ParserTypes
<1>2. CASE doing' # "done"
  <2>1. /\ UNCHANGED <<doing, outcome>> /\ index' = index + 1
        /\ file' \in ParsedFile /\ file'.hunks = file.hunks
        /\ file'.path = file.path \/ Names(index, file'.path)
        /\ file'.payload => file.payload \/ patch[index].is = "payload"
        /\ AddedLine(index) => file.payload
    BY <1>0, <1>2, HeaderOfFile
  <2>2. /\ index \in 1 .. Len(patch) /\ index \in Nat /\ Len(patch) \in Nat /\ index' - 1 = index
        /\ Live /\ Live' /\ ~Accepted /\ ~Accepted' /\ HunksOf(file') = HunksOf(file)
    BY <1>0, <2>1 DEF ParserTypes, Live, LimitsInv, Accepted, Reading, HunksOf
  <2>3. ParserTypes'
    <3>1. ParsedFile' = ParsedFile /\ Values' = Values
      BY <1>0 DEF Values, ParsedFile
    <3> QED
      BY <1>0, <2>1, <2>2, <3>1 DEF ParserTypes, Complete, InHand, Reading
  <2>4. LimitsInv'
    BY <1>0, <2>1, <2>2 DEF LimitsInv, Reading
  <2>5. HunkInv'
    <3>1. Stored' = Stored
      BY <1>0, <2>1, <2>2 DEF Stored, HunksOf
    <3>2. \A h \in Stored : IsComplete(h)'
      BY <1>0, <2>1, <2>2, CompleteKept, StoredTypes DEF Complete, HunkInv
    <3> QED
      BY <1>0, <2>1, <2>2, <3>1, <3>2 DEF HunkInv, Apart
  <2>6. Record(index) = Record(index - 1) /\ Record(index) \in 1 .. index - 1
    BY <1>0, <2>2, RecordOfNext DEF RecordInv, InRecord
  <2>7. file.payload => \E j \in Record(index) .. index - 1 : patch[j].is = "payload"
    BY <1>0, <2>6 DEF RecordInv, InRecord
  <2>8. RecordInv'
    <3>1. file'.payload => \E j \in Record(index) .. index : patch[j].is = "payload"
      BY <2>1, <2>2, <2>6, <2>7
    <3>2. patch[Record(index)].is = "diff" /\ (file'.path = None => Unnamed(Record(index)))
      <4>1. Names(index, None) => Unnamed(Record(index))
        BY <2>2, LinesAreLines DEF Names, Unnamed
      <4> QED
        BY <1>0, <2>1, <2>6, <4>1 DEF RecordInv, InRecord
    <3> QED
      BY <1>0, <2>1, <2>2, <2>6, <3>1, <3>2, SameLines DEF RecordInv, InRecord
  <2>9. LinesInv'
    <3> SUFFICES ASSUME NEW i \in 1 .. index, AddedLine(i) PROVE Covered(i)'
      BY <1>0, <2>2, SameLines DEF LinesInv
    <3>1. i # index
      <4> SUFFICES ASSUME i = index PROVE FALSE
        OBVIOUS
      <4>1. PICK j \in Record(index) .. index - 1 : patch[j].is = "payload"
        BY <2>1, <2>7
      <4>2. j \in Record(index) .. index
        BY <2>2, <2>6
      <4> QED
        BY <4>1, <4>2 DEF AddedLine, InDiff
    <3>2. Covered(i)
      BY <2>2, <3>1 DEF LinesInv
    <3> QED
      BY <1>0, <2>1, <2>2, <2>6, <3>2, SameLines DEF Covered, InRecord, HunksOf
  <2> QED
    BY <2>3, <2>4, <2>5, <2>8, <2>9
<1> QED
  BY <1>1, <1>2

\* The end of a record: it is kept if it has a path.
LEMMA FileEndsKeeps ==
  ASSUME ParserInv, FileEnds
  PROVE  ParserInv'
<1> USE DEF ParserInv
<1>0. /\ doing = "file"
      /\ UNCHANGED <<patch, limits, index, commit, file, hunk, hunks, events>>
  BY DEF FileEnds, Goes, inputVars
<1>1. CASE doing' = "done"
  <2>1. outcome' # "Continue" /\ UNCHANGED files
    BY <1>1 DEF FileEnds, Returns, Do
  <2> QED
    BY <1>0, <1>1, <2>1, StopsForGood DEF Reading, ReadVars, ParserTypes
<1>2. CASE doing' # "done"
  <2>1. /\ doing' = "patch" /\ outcome' = outcome
        /\ \/ file.path = None /\ files' = files
           \/ file.path # None /\ files' = Append(files, file) /\ Len(files) < limits.files
    BY <1>2 DEF FileEnds, Returns, Do, ParserTypes
  <2>2. /\ Live /\ Live' /\ ~Accepted /\ ~Accepted' /\ files \in Seq(ParsedFile) /\ file \in ParsedFile
    BY <1>0, <2>1 DEF Live, LimitsInv, Accepted, Reading, ParserTypes
  <2>3. files' \in Seq(ParsedFile) /\ Len(files') <= limits.files
    <3>1. Len(files) \in Nat /\ limits.files \in Nat /\ Len(files) <= limits.files
      BY <2>2 DEF LimitsInv, ParserTypes
    <3> QED
      BY <2>1, <2>2, <3>1
  <2>4. ParserTypes'
    <3>1. ParsedFile' = ParsedFile /\ Values' = Values
      BY <1>0 DEF Values, ParsedFile
    <3> QED
      BY <1>0, <2>1, <2>3, <3>1 DEF ParserTypes, Complete, InHand, Reading
  <2>5. LimitsInv'
    BY <1>0, <2>1, <2>2, <2>3 DEF LimitsInv, Reading
  <2>6. \A f \in DOMAIN files : f \in DOMAIN files' /\ files'[f] = files[f]
    BY <2>1, <2>2
  <2>7. \A f \in DOMAIN files' :
          (f \in DOMAIN files /\ files'[f] = files[f]) \/ files'[f] = file
    BY <2>1, <2>2
  <2>8. HunkInv'
    <3>1. \A h \in Stored' : h \in Stored
      BY <1>0, <2>1, <2>7 DEF Stored, InRecord
    <3>2. \A h \in Stored : IsComplete(h)'
      BY <1>0, <2>2 DEF HunkInv, IsComplete, Between, Pluses
    <3> QED
      BY <1>0, <2>1, <2>2, <3>1, <3>2 DEF HunkInv, Apart
  <2>9. RecordInv'
    BY <2>1 DEF RecordInv, InRecord
  <2>10. LinesInv'
    <3> SUFFICES ASSUME NEW i \in 1 .. index - 1, AddedLine(i) PROVE Covered(i)'
      BY <1>0, <2>2, SameLines DEF LinesInv
    <3>1. Covered(i)
      BY <2>2 DEF LinesInv
    <3>2. CASE \E f \in DOMAIN files : \E h \in HunksOf(files[f]) : i \in LinesOf(h)
      BY <2>6, <3>2 DEF Covered
    <3>3. CASE Unnamed(Record(i))
      BY <1>0, <3>3, SameLines DEF Covered
    <3>4. CASE Record(i) = Record(index - 1) /\ \E h \in HunksOf(file) : i \in LinesOf(h)
      <4>1. CASE file.path = None
        BY <1>0, <3>4, <4>1, SameLines DEF Covered, RecordInv, InRecord
      <4>2. CASE file.path # None
        <5>1. Len(files) + 1 \in DOMAIN files' /\ files'[Len(files) + 1] = file
          BY <2>1, <2>2, <4>2
        <5> QED
          BY <3>4, <5>1 DEF Covered
      <4> QED
        BY <4>1, <4>2
    <3> QED
      BY <1>0, <3>1, <3>2, <3>3, <3>4 DEF Covered
  <2> QED
    BY <2>4, <2>5, <2>8, <2>9, <2>10
<1> QED
  BY <1>1, <1>2

-----------------------------------------------------------------------------
(* A hunk.                                                                 *)

LEMMA HunkLineKeeps ==
  ASSUME ParserInv, HunkLine
  PROVE  ParserInv'
<1> USE DEF ParserInv
<1>0. /\ doing = "file" /\ index <= Len(patch) /\ patch[index].is \in {"hunk", "badHunk"}
      /\ UNCHANGED <<patch, limits, commit, file, files, events>> /\ hunks' = hunks + 1
  BY DEF HunkLine, Goes, More, This, inputVars
<1>1. CASE doing' = "done"
  <2>1. outcome' # "Continue" /\ UNCHANGED <<index, hunk>> /\ hunks' \in Nat
    BY <1>0, <1>1 DEF HunkLine, Returns, Do, Stay, ParserTypes
  <2> QED
    BY <1>0, <1>1, <2>1, StopsForGood DEF Reading, ReadVars
<1>2. CASE doing' # "done"
  <2>1. /\ doing' = "hunk" /\ outcome' = outcome /\ index' = index + 1 /\ hunks' <= limits.hunks
        /\ hunk' = [at |-> patch[index].at, old |-> patch[index].old, new |-> patch[index].new,
                    added |-> <<>>, previous |-> FALSE, start |-> index]
    <3>1. ~(hunks' > limits.hunks) /\ This.is # "badHunk"
      BY <1>2 DEF HunkLine, Returns
    <3>2. hunk' = [NoHunk EXCEPT !.at = This.at, !.old = This.old, !.new = This.new, !.start = index]
      BY <3>1 DEF HunkLine
    <3>3. hunks' \in Nat /\ limits.hunks \in Nat
      BY <1>0 DEF ParserTypes
    <3>4. doing' = "hunk" /\ outcome' = outcome /\ index' = index + 1
      BY <3>1 DEF HunkLine, Do, Advance
    <3>5. hunks' <= limits.hunks
      BY <3>1, <3>3
    <3>6. hunk' = [at |-> patch[index].at, old |-> patch[index].old, new |-> patch[index].new,
                   added |-> <<>>, previous |-> FALSE, start |-> index]
      BY <3>2 DEF This, NoHunk
    <3> QED
      BY <3>4, <3>5, <3>6
  <2>2. /\ index \in 1 .. Len(patch) /\ index \in Nat /\ Len(patch) \in Nat /\ index' - 1 = index
        /\ Live /\ Live' /\ ~Accepted /\ ~Accepted'
        /\ index \in DOMAIN patch /\ IsLine(patch[index])
    BY <1>0, <2>1, LinesAreLines DEF ParserTypes, Live, LimitsInv, Accepted, Reading
  <2>3. ParserTypes'
    <3>1. hunk' \in InHand
      <4>1. patch[index].at \in Nat /\ patch[index].old \in Nat /\ patch[index].new \in Nat
        BY <2>2 DEF IsLine
      <4> QED
        BY <2>1, <2>2, <4>1 DEF InHand
    <3>2. ParsedFile' = ParsedFile /\ Values' = Values /\ InHand' = InHand
      BY <1>0 DEF Values, ParsedFile, InHand
    <3> QED
      BY <1>0, <2>1, <2>2, <3>1, <3>2 DEF ParserTypes, Complete, Reading
  <2>4. LimitsInv'
    BY <1>0, <2>1, <2>2 DEF LimitsInv, Reading
  <2>5. HunkInv'
    <3>1. Stored' = Stored
      BY <1>0, <2>1, <2>2 DEF Stored, InRecord
    <3>2. \A h \in Stored : IsComplete(h)' /\ h.end <= index
      <4>1. \A h \in Stored : IsComplete(h) /\ h \in Complete
        BY <2>2, StoredTypes DEF HunkInv
      <4>2. \A h \in Stored : h.end \in Nat /\ h.end <= index
        BY <4>1 DEF IsComplete, Complete
      <4> QED
        BY <1>0, <2>1, <2>2, <4>1, <4>2, CompleteKept
    <3>3. HandInv'
      <4>1. /\ CountOf(Between(index, index + 1), OldOps) = 0
            /\ CountOf(Between(index, index + 1), NewOps) = 0
            /\ Pluses(index, index + 1) = {}
        BY <2>2, NoneYet
      <4>3. hunk'.start = index /\ hunk'.old = patch[index].old /\ hunk'.new = patch[index].new
            /\ LinesOf(hunk') = {}
        BY <2>1 DEF LinesOf
      <4>4. /\ Between(hunk.start, index)' = Between(index, index + 1)
            /\ Pluses(hunk.start, index)' = Pluses(index, index + 1)
        BY <1>0, <2>1, <4>3 DEF Between, Pluses
      <4>5. patch[index].old \in Nat /\ patch[index].new \in Nat
        BY <2>2 DEF IsLine
      <4>6. /\ CountOf(Between(hunk.start, index), OldOps)' = 0
            /\ CountOf(Between(hunk.start, index), NewOps)' = 0
        BY <4>1, <4>4 DEF CountOf
      <4>7. \A h \in Stored' : h.end <= hunk'.start
        BY <3>1, <3>2, <4>3
      <4>8. LinesOf(hunk)' = Pluses(hunk.start, index)'
        BY <4>1, <4>3, <4>4 DEF LinesOf
      <4>9. hunk'.start \in DOMAIN patch' /\ hunk'.start < index'
        BY <1>0, <2>1, <2>2, <4>3
      <4>10. /\ patch'[hunk'.start].old = hunk'.old + CountOf(Between(hunk.start, index), OldOps)'
             /\ patch'[hunk'.start].new = hunk'.new + CountOf(Between(hunk.start, index), NewOps)'
        <5>1. patch'[hunk'.start] = patch[index]
          BY <1>0, <4>3
        <5> QED
          BY <4>3, <4>5, <4>6, <5>1
      <4> QED
        BY <4>7, <4>8, <4>9, <4>10 DEF HandInv
    <3> QED
      BY <2>2, <3>1, <3>2, <3>3 DEF HunkInv, Apart
  <2>6. Record(index) = Record(index - 1) /\ Record(index) \in 1 .. index - 1
    BY <1>0, <2>2, RecordOfNext DEF RecordInv, InRecord
  <2>7. RecordInv'
    <3>1. file.payload => \E j \in Record(index) .. index : patch[j].is = "payload"
      BY <1>0, <2>2, <2>6 DEF RecordInv, InRecord
    <3> QED
      BY <1>0, <2>1, <2>2, <2>6, <3>1, SameLines DEF RecordInv, InRecord
  <2>8. LinesInv'
    <3> SUFFICES ASSUME NEW i \in 1 .. index, AddedLine(i) PROVE Covered(i)'
      BY <1>0, <2>2, SameLines DEF LinesInv
    <3>1. i # index
      BY <1>0, <2>2 DEF AddedLine, IsLine
    <3>2. Covered(i)
      BY <2>2, <3>1 DEF LinesInv
    <3> QED
      BY <1>0, <2>1, <2>2, <2>6, <3>2, SameLines DEF Covered, InRecord
  <2> QED
    BY <2>3, <2>4, <2>5, <2>7, <2>8
<1> QED
  BY <1>1, <1>2

\* A marker changes whether a line ends with a newline, and not which lines there are.
LEMMA MarkerKeepsLines ==
  ASSUME NEW h \in InHand
  PROVE  /\ WithoutNewline(h) \in InHand /\ LinesOf(WithoutNewline(h)) = LinesOf(h)
         /\ WithoutNewline(h).old = h.old /\ WithoutNewline(h).new = h.new
         /\ WithoutNewline(h).start = h.start
<1>1. CASE ~(h.previous /\ h.added # <<>>)
  BY <1>1 DEF WithoutNewline
<1>2. CASE h.previous /\ h.added # <<>>
  <2> DEFINE n == Len(h.added)
             marked == [h.added EXCEPT ![n] = [h.added[n] EXCEPT !.newline = FALSE]]
  <2>1. h.added \in Seq(Added) /\ n \in DOMAIN h.added /\ h.added[n] \in Added
    BY <1>2 DEF InHand
  <2>2. /\ [h.added[n] EXCEPT !.newline = FALSE] \in Added
        /\ [h.added[n] EXCEPT !.newline = FALSE].line = h.added[n].line
    BY <2>1 DEF Added
  <2>3. /\ marked \in Seq(Added) /\ DOMAIN marked = DOMAIN h.added
        /\ \A i \in DOMAIN h.added : marked[i].line = h.added[i].line
    BY <2>1, <2>2
  <2>4. WithoutNewline(h) = [h EXCEPT !.added = marked]
    BY <1>2 DEF WithoutNewline
  <2> HIDE DEF marked
  <2>5. /\ WithoutNewline(h) \in InHand /\ WithoutNewline(h).added = marked
        /\ WithoutNewline(h).old = h.old /\ WithoutNewline(h).new = h.new
        /\ WithoutNewline(h).start = h.start
    BY <2>3, <2>4 DEF InHand
  <2>6. LinesOf(WithoutNewline(h)) = LinesOf(h)
    BY <2>3, <2>5 DEF LinesOf
  <2> QED
    BY <2>5, <2>6
<1> QED
  BY <1>1, <1>2

LEMMA LineOfHunk ==
  ASSUME ParserTypes, index <= Len(patch), NEW h, h = HunkAfter(hunk, patch[index]),
         ~(h.old < 0 \/ h.new < 0)
  PROVE  /\ h \in InHand /\ h.start = hunk.start
         /\ h.old = hunk.old - (IF patch[index].op \in OldOps THEN 1 ELSE 0)
         /\ h.new = hunk.new - (IF patch[index].op \in NewOps THEN 1 ELSE 0)
         /\ LinesOf(h) = LinesOf(hunk) \cup (IF patch[index].op = "added" THEN {index} ELSE {})
         /\ patch[index].op \in {"added", "removed", "context", "marker"}
<1>0. hunk \in InHand /\ index \in Nat /\ hunk.old \in Nat /\ hunk.new \in Nat
      /\ hunk.added \in Seq(Added)
  BY DEF ParserTypes, InHand
<1>1. CASE patch[index].op = "added"
  <2> DEFINE new == [line |-> index, newline |-> TRUE]
             more == Append(hunk.added, new)
  <2>1. h = [hunk EXCEPT !.new = @ - 1, !.previous = TRUE, !.added = more]
    BY <1>1 DEF HunkAfter
  <2>2. new \in Added
    BY <1>0 DEF Added
  <2>3. more \in Seq(Added) /\ Len(more) = Len(hunk.added) + 1 /\ more[Len(more)].line = index
        /\ (\A i \in DOMAIN hunk.added : i \in DOMAIN more /\ more[i] = hunk.added[i])
        /\ (\A i \in DOMAIN more : i \in DOMAIN hunk.added \/ i = Len(more))
        /\ Len(more) \in DOMAIN more
    BY <1>0, <2>2
  <2> HIDE DEF more
  <2>4. h.new = hunk.new - 1 /\ h.old = hunk.old /\ h.added = more /\ h.start = hunk.start
    BY <1>0, <2>1 DEF InHand
  <2>5. h.new \in Nat
    BY <1>0, <2>4
  <2>6. h \in InHand
    BY <1>0, <2>1, <2>3, <2>4, <2>5 DEF InHand
  <2>7. LinesOf(h) = LinesOf(hunk) \cup {index}
    <3> SUFFICES ASSUME NEW i PROVE i \in LinesOf(h) <=> i \in LinesOf(hunk) \/ i = index
      OBVIOUS
    <3>1. i \in LinesOf(h) <=> \E j \in DOMAIN more : i = more[j].line
      BY <2>4 DEF LinesOf
    <3>2. i \in LinesOf(hunk) <=> \E j \in DOMAIN hunk.added : i = hunk.added[j].line
      BY DEF LinesOf
    <3> QED
      BY <2>3, <3>1, <3>2
  <2>8. patch[index].op \notin OldOps /\ patch[index].op \in NewOps
    BY <1>1 DEF OldOps, NewOps
  <2> QED
    BY <1>0, <1>1, <2>4, <2>6, <2>7, <2>8
<1>2. CASE patch[index].op = "removed"
  <2>1. h = [hunk EXCEPT !.old = @ - 1, !.previous = FALSE]
    BY <1>2 DEF HunkAfter
  <2>2. h.old = hunk.old - 1 /\ h.new = hunk.new /\ h.added = hunk.added /\ h.start = hunk.start
    BY <1>0, <2>1 DEF InHand
  <2>3. h.old \in Nat
    BY <1>0, <2>2
  <2>4. h \in InHand
    BY <1>0, <2>1, <2>2, <2>3 DEF InHand
  <2>5. patch[index].op \in OldOps /\ patch[index].op \notin NewOps
    BY <1>2 DEF OldOps, NewOps
  <2>6. LinesOf(h) = LinesOf(hunk)
    BY <2>2 DEF LinesOf
  <2> QED
    BY <1>0, <1>2, <2>2, <2>4, <2>5, <2>6
<1>3. CASE patch[index].op = "context"
  <2>1. h = [hunk EXCEPT !.old = @ - 1, !.new = @ - 1, !.previous = FALSE]
    BY <1>3 DEF HunkAfter
  <2>2. h.old = hunk.old - 1 /\ h.new = hunk.new - 1 /\ h.added = hunk.added /\ h.start = hunk.start
    BY <1>0, <2>1 DEF InHand
  <2>3. h.old \in Nat /\ h.new \in Nat
    BY <1>0, <2>2
  <2>4. h \in InHand
    BY <1>0, <2>1, <2>2, <2>3 DEF InHand
  <2> QED
    BY <1>3, <2>2, <2>4 DEF LinesOf, OldOps, NewOps
<1>4. CASE patch[index].op = "marker"
  <2>1. h = WithoutNewline(hunk)
    BY <1>4 DEF HunkAfter
  <2> QED
    BY <1>0, <1>4, <2>1, MarkerKeepsLines DEF OldOps, NewOps
<1>5. CASE patch[index].op \notin {"added", "removed", "context", "marker"}
  <2>1. h = [hunk EXCEPT !.old = -1]
    BY <1>5 DEF HunkAfter
  <2>2. h.old = -1
    BY <1>0, <2>1 DEF InHand
  <2>3. FALSE
    BY <2>2
  <2> QED
    BY <2>3
<1> QED
  BY <1>1, <1>2, <1>3, <1>4, <1>5

LEMMA HunkBodyKeeps ==
  ASSUME ParserInv, HunkBody
  PROVE  ParserInv'
<1> USE DEF ParserInv
<1>0. /\ doing = "hunk" /\ UNCHANGED <<patch, limits, commit, file, hunks, files, events>>
  BY DEF HunkBody, Goes, inputVars
<1>1. CASE doing' = "done"
  <2>1. outcome' # "Continue" /\ UNCHANGED <<index, hunk>>
    BY <1>0, <1>1 DEF HunkBody, Returns, Stay
  <2> QED
    BY <1>0, <1>1, <2>1, StopsForGood DEF Reading, ReadVars, ParserTypes
<1>2. CASE doing' # "done"
  <2>1. /\ index <= Len(patch) /\ hunk' = HunkAfter(hunk, patch[index])
        /\ ~(hunk'.old < 0 \/ hunk'.new < 0)
        /\ index' = index + 1 /\ UNCHANGED <<doing, outcome>>
    BY <1>2 DEF HunkBody, Returns, Advance, More, This
  <2>2. /\ index \in 1 .. Len(patch) /\ index \in Nat /\ Len(patch) \in Nat /\ index' - 1 = index
        /\ Live /\ Live' /\ ~Accepted /\ ~Accepted' /\ HandInv
        /\ index \in DOMAIN patch /\ IsLine(patch[index])
    BY <1>0, <2>1, LinesAreLines DEF ParserTypes, Live, LimitsInv, Accepted, Reading, HunkInv
  <2> DEFINE op == patch[index].op
  <2>3. /\ hunk' \in InHand /\ hunk'.start = hunk.start
        /\ hunk'.old = hunk.old - (IF op \in OldOps THEN 1 ELSE 0)
        /\ hunk'.new = hunk.new - (IF op \in NewOps THEN 1 ELSE 0)
        /\ LinesOf(hunk') = LinesOf(hunk) \cup (IF op = "added" THEN {index} ELSE {})
        /\ op \in {"added", "removed", "context", "marker"}
    BY <2>1, LineOfHunk
  <2>4. ParserTypes'
    <3>1. ParsedFile' = ParsedFile /\ Values' = Values /\ InHand' = InHand
      BY <1>0 DEF Values, ParsedFile, InHand
    <3>2. index' \in 1 .. Len(patch') + 1
      BY <1>0, <2>1, <2>2
    <3>3. hunk' \in InHand'
      BY <2>3, <3>1
    <3> QED
      BY <1>0, <2>1, <3>1, <3>2, <3>3 DEF ParserTypes, Complete
  <2>5. LimitsInv'
    BY <1>0, <2>1, <2>2 DEF LimitsInv, Reading
  <2>6. HunkInv'
    <3>1. Stored' = Stored
      BY <1>0, <2>1, <2>2 DEF Stored, InRecord
    <3>2. \A h \in Stored : IsComplete(h)'
      BY <1>0, <2>1, <2>2, CompleteKept, StoredTypes DEF Complete, HunkInv
    <3>3. HandInv'
      <4>1. hunk.start \in Nat /\ hunk.start < index /\ hunk.start \in DOMAIN patch
        BY <2>2 DEF HandInv, ParserTypes, InHand
      <4>2. /\ Between(hunk.start, index)' = Between(hunk.start, index + 1)
            /\ Pluses(hunk.start, index)' = Pluses(hunk.start, index + 1)
        BY <1>0, <2>1, <2>3 DEF Between, Pluses
      <4>3. /\ CountOf(Between(hunk.start, index), OldOps) \in Nat
            /\ CountOf(Between(hunk.start, index + 1), OldOps)
                 = CountOf(Between(hunk.start, index), OldOps) + IF op \in OldOps THEN 1 ELSE 0
            /\ CountOf(Between(hunk.start, index), NewOps) \in Nat
            /\ CountOf(Between(hunk.start, index + 1), NewOps)
                 = CountOf(Between(hunk.start, index), NewOps) + IF op \in NewOps THEN 1 ELSE 0
        BY <2>2, <4>1, OneMoreOfBoth
      <4>9. /\ CountOf(Between(hunk.start, index), OldOps)'
                 = CountOf(Between(hunk.start, index + 1), OldOps)
            /\ CountOf(Between(hunk.start, index), NewOps)'
                 = CountOf(Between(hunk.start, index + 1), NewOps)
        BY <4>2 DEF CountOf
      <4>4. Pluses(hunk.start, index)'
              = Pluses(hunk.start, index) \cup IF op = "added" THEN {index} ELSE {}
        BY <2>2, <4>1, <4>2, OneMorePlus
      <4>5. hunk.old \in Nat /\ hunk.new \in Nat
        BY DEF ParserTypes, InHand
      <4>6. /\ patch[hunk.start].old = hunk'.old + CountOf(Between(hunk.start, index), OldOps)'
            /\ patch[hunk.start].new = hunk'.new + CountOf(Between(hunk.start, index), NewOps)'
        <5>1. /\ patch[hunk.start].old = hunk.old + CountOf(Between(hunk.start, index), OldOps)
              /\ patch[hunk.start].new = hunk.new + CountOf(Between(hunk.start, index), NewOps)
          BY <2>2 DEF HandInv
        <5>2. patch[hunk.start].old = hunk'.old + CountOf(Between(hunk.start, index), OldOps)'
          BY <2>3, <4>3, <4>5, <4>9, <5>1
        <5>3. patch[hunk.start].new = hunk'.new + CountOf(Between(hunk.start, index), NewOps)'
          BY <2>3, <4>3, <4>5, <4>9, <5>1
        <5> QED
          BY <5>2, <5>3
      <4>7. LinesOf(hunk') = Pluses(hunk.start, index)'
        BY <2>2, <2>3, <4>4 DEF HandInv
      <4>8. \A h \in Stored : h.end <= hunk.start
        BY <2>2 DEF HandInv
      <4>10. \A h \in Stored' : h.end <= hunk'.start
        BY <2>3, <3>1, <4>8
      <4>11. hunk'.start \in DOMAIN patch' /\ hunk'.start < index'
        <5>1. hunk'.start \in DOMAIN patch'
          BY <1>0, <2>3, <4>1
        <5>2. hunk'.start < index'
          BY <2>1, <2>2, <2>3, <4>1
        <5> QED
          BY <5>1, <5>2
      <4>12. LinesOf(hunk)' = Pluses(hunk.start, index)'
        BY <4>7 DEF LinesOf
      <4>13. patch'[hunk'.start] = patch[hunk.start]
        BY <1>0, <2>3
      <4> QED
        BY <4>6, <4>10, <4>11, <4>12, <4>13 DEF HandInv
    <3> QED
      BY <1>0, <2>1, <2>2, <3>1, <3>2, <3>3 DEF HunkInv, Apart
  <2>7. Record(index) = Record(index - 1) /\ Record(index) \in 1 .. index - 1
    <3>1. patch[index].is \notin {"diff", "commit"}
      BY <2>2, <2>3 DEF IsLine
    <3> QED
      BY <1>0, <2>2, <3>1, RecordOfNext DEF RecordInv, InRecord
  <2>8. RecordInv'
    <3>1. file.payload => \E j \in Record(index) .. index : patch[j].is = "payload"
      BY <1>0, <2>2, <2>7 DEF RecordInv, InRecord
    <3> QED
      BY <1>0, <2>1, <2>2, <2>7, <3>1, SameLines DEF RecordInv, InRecord
  <2>9. LinesInv'
    <3> SUFFICES ASSUME NEW i \in 1 .. index, AddedLine(i) PROVE Covered(i)'
      BY <1>0, <2>2, SameLines DEF LinesInv
    <3>1. CASE i = index
      <4>1. i \in LinesOf(hunk)'
        BY <2>3, <3>1 DEF AddedLine, LinesOf
      <4> QED
        BY <1>0, <2>1, <2>2, <2>7, <3>1, <4>1, SameLines DEF Covered, InRecord
    <3>2. CASE i # index
      <4>1. Covered(i)
        BY <2>2, <3>2 DEF LinesInv
      <4>2. i \in LinesOf(hunk) => i \in LinesOf(hunk)'
        BY <2>3 DEF LinesOf
      <4> QED
        BY <1>0, <2>1, <2>2, <2>7, <4>1, <4>2, SameLines DEF Covered, InRecord
    <3> QED
      BY <3>1, <3>2
  <2> QED
    BY <2>4, <2>5, <2>6, <2>8, <2>9
<1> QED
  BY <1>1, <1>2

\* A hunk that lacks nothing is stored, with the marker behind it.
LEMMA HunkEndsKeeps ==
  ASSUME ParserInv, HunkEnds
  PROVE  ParserInv'
<1> USE DEF ParserInv
<1> DEFINE marked == More /\ This.op = "marker"
           h == IF marked THEN WithoutNewline(hunk) ELSE hunk
           new == [at |-> h.at, added |-> h.added, start |-> h.start, end |-> index]
<1>0. /\ doing = "hunk" /\ hunk.old = 0 /\ hunk.new = 0
      /\ doing' = "file" /\ outcome' = outcome
      /\ UNCHANGED <<patch, limits, commit, hunk, hunks, files, events>>
      /\ index' = IF marked THEN index + 1 ELSE index
      /\ file' = [file EXCEPT !.hunks = Append(@, new)]
  BY DEF HunkEnds, Goes, Do, inputVars
<1>1. /\ hunk \in InHand /\ h \in InHand /\ h.start = hunk.start /\ LinesOf(h) = LinesOf(hunk)
  BY MarkerKeepsLines DEF ParserTypes
<1>2. /\ index \in 1 .. Len(patch) + 1 /\ index \in Nat /\ Len(patch) \in Nat
      /\ index' \in 1 .. Len(patch) + 1 /\ index <= index' /\ index' \in Nat
      /\ Live /\ Live' /\ ~Accepted /\ ~Accepted' /\ HandInv
  BY <1>0 DEF ParserTypes, Live, LimitsInv, Accepted, Reading, HunkInv, More
<1> PICK stored : stored = new
  OBVIOUS
<1>3. /\ stored \in Complete /\ stored.start = hunk.start /\ stored.end = index
      /\ stored.added = h.added /\ file' = [file EXCEPT !.hunks = Append(@, stored)]
  BY <1>0, <1>1, <1>2 DEF Complete, InHand
<1> HIDE DEF h, new
<1>4. /\ file' \in ParsedFile /\ file'.hunks = Append(file.hunks, stored)
      /\ file'.path = file.path /\ file'.payload = file.payload
  <2>1. file \in ParsedFile
    BY DEF ParserTypes
  <2>2. Append(file.hunks, stored) \in Seq(Complete)
    BY <1>3, <2>1 DEF ParsedFile
  <2> QED
    BY <1>3, <2>1, <2>2 DEF ParsedFile
<1>5. \A k : k \in HunksOf(file') <=> k \in HunksOf(file) \/ k = stored
  <2>1. file.hunks \in Seq(Complete)
    BY DEF ParserTypes, ParsedFile
  <2> DEFINE s == Append(file.hunks, stored)
  <2>2. /\ \A i \in DOMAIN file.hunks : i \in DOMAIN s /\ s[i] = file.hunks[i]
        /\ \A i \in DOMAIN s : i \in DOMAIN file.hunks \/ s[i] = stored
        /\ \E i \in DOMAIN s : s[i] = stored
    <3>1. Len(s) = Len(file.hunks) + 1 /\ s[Len(s)] = stored /\ Len(s) \in DOMAIN s
      BY <1>3, <2>1
    <3> QED
      BY <1>3, <2>1, <3>1
  <2> HIDE DEF s
  <2>3. /\ \A k : k \in HunksOf(file') <=> \E i \in DOMAIN s : k = s[i]
        /\ \A k : k \in HunksOf(file) <=> \E i \in DOMAIN file.hunks : k = file.hunks[i]
    BY <1>4 DEF HunksOf, s
  <2> QED
    BY <2>2, <2>3
<1>6. ParserTypes'
  <2>1. ParsedFile' = ParsedFile /\ Values' = Values
    BY <1>0 DEF Values, ParsedFile
  <2> QED
    BY <1>0, <1>2, <1>4, <2>1 DEF ParserTypes, Complete, InHand, Reading
<1>7. LimitsInv'
  BY <1>0, <1>2 DEF LimitsInv, Reading
<1>8. LinesOf(stored) = LinesOf(hunk)
  BY <1>1, <1>3 DEF LinesOf
<1>9. HunkInv'
  <2>1. \A k \in Stored' : k \in Stored \/ k = stored
    <3>1. \A k \in Stored' :
            (\E f \in DOMAIN files : k \in HunksOf(files[f])) \/ k \in HunksOf(file')
      BY <1>0 DEF Stored, InRecord, HunksOf
    <3> QED
      BY <1>0, <1>5, <3>1 DEF Stored, InRecord
  <2>2. \A k \in Stored : IsComplete(k)' /\ k.end <= hunk.start
    BY <1>0, <1>2, CompleteKept, StoredTypes DEF Complete, HunkInv, HandInv
  <2>3. IsComplete(stored)'
    <3>1. hunk.start \in DOMAIN patch /\ hunk.start < index
          /\ patch[hunk.start].old = CountOf(Between(hunk.start, index), OldOps)
          /\ patch[hunk.start].new = CountOf(Between(hunk.start, index), NewOps)
          /\ LinesOf(hunk) = Pluses(hunk.start, index)
      <4>1. hunk.start \in Nat /\ hunk.start < index
        BY <1>2 DEF HandInv, ParserTypes, InHand
      <4>2. /\ CountOf(Between(hunk.start, index), OldOps) \in Nat
            /\ CountOf(Between(hunk.start, index), NewOps) \in Nat
        BY <1>2, <4>1, CountIsNat
      <4> QED
        BY <1>0, <1>2, <4>2 DEF HandInv
    <3>2. IsComplete(stored)
      BY <1>2, <1>3, <1>8, <3>1 DEF IsComplete
    <3> QED
      BY <1>0, <1>2, <1>3, <3>2, CompleteKept
  <2>4. \A k \in Stored : Apart(k, stored) /\ Apart(stored, k)
    BY <1>3, <2>2 DEF Apart
  <2>5. \A k, l \in Stored : Apart(k, l)
    BY <1>2 DEF HunkInv
  <2>6. \A k, l \in Stored' : Apart(k, l)
    BY <2>1, <2>4, <2>5 DEF Apart
  <2> QED
    BY <1>0, <2>1, <2>2, <2>3, <2>6 DEF HunkInv, Apart
<1>10. index' # index =>
         /\ index \in 1 .. Len(patch) /\ index' - 1 = index /\ patch[index].op = "marker"
         /\ IsLine(patch[index])
  BY <1>0, <1>2, LinesAreLines DEF More, This
<1>11. Record(index' - 1) = Record(index - 1) /\ Record(index - 1) \in 1 .. index - 1
  <2>1. Record(index - 1) \in 1 .. index - 1
    BY <1>0 DEF RecordInv, InRecord
  <2>2. CASE index' # index
    <3>1. patch[index].is \notin {"diff", "commit"}
      BY <1>10, <2>2 DEF IsLine
    <3>2. Record(index) = Record(index - 1)
      BY <1>10, <2>2, <3>1, RecordOfNext
    <3> QED
      BY <1>10, <2>1, <2>2, <3>2
  <2> QED
    BY <2>1, <2>2
<1>12. RecordInv'
  <2>1. file.payload => \E j \in Record(index - 1) .. index' - 1 : patch[j].is = "payload"
    BY <1>0, <1>2, <1>11 DEF RecordInv, InRecord
  <2> QED
    BY <1>0, <1>2, <1>4, <1>11, <2>1, SameLines DEF RecordInv, InRecord
<1>13. LinesInv'
  <2> SUFFICES ASSUME NEW i \in 1 .. index' - 1, AddedLine(i) PROVE Covered(i)'
    BY <1>0, <1>2, SameLines DEF LinesInv
  <2>1. i \in 1 .. index - 1
    BY <1>0, <1>2, <1>10 DEF AddedLine
  <2>2. Covered(i)
    BY <1>2, <2>1 DEF LinesInv
  <2> QED
    BY <1>0, <1>2, <1>5, <1>8, <1>11, <2>2, SameLines DEF Covered, InRecord
<1> QED
  BY <1>6, <1>7, <1>9, <1>12, <1>13

-----------------------------------------------------------------------------
(* What is accepted is complete.                                           *)

LEMMA ParserStarts ==
  PatchInit => ParserInv
<1> SUFFICES ASSUME PatchInit PROVE ParserInv
  OBVIOUS
<1> USE DEF PatchInit
<1>1. /\ patch \in Seq(Range(patch)) /\ \A i \in DOMAIN patch : IsLine(patch[i])
      /\ limits.lines \in Nat /\ limits.files \in Nat /\ limits.hunks \in Nat
  <2>1. \E h \in Histories : patch \in Damage[h] \cup {Written(h)}
    OBVIOUS
  <2> QED
    BY <2>1, PatchAssumption
<1>2. /\ Len(patch) \in Nat /\ ~Accepted /\ files = <<>> /\ doing = "stderr" /\ index = 1
      /\ hunks = 0 /\ events = <<>> /\ outcome = "Continue"
  BY <1>1 DEF Accepted
<1>3. ParserTypes
  <2>1. file \in ParsedFile /\ hunk \in InHand /\ commit \in Values
    BY DEF NoFile, NoHunk, ParsedFile, InHand, Values
  <2> QED
    BY <1>1, <1>2, <2>1 DEF ParserTypes, Reading
<1>4. LimitsInv
  BY <1>1, <1>2 DEF LimitsInv, Reading
<1>5. Stored = {}
  BY <1>2 DEF Stored, InRecord
<1> QED
  BY <1>2, <1>3, <1>4, <1>5 DEF ParserInv, HunkInv, RecordInv, LinesInv, InRecord

LEMMA ParserKeeps ==
  ParserInv /\ [PatchNext]_patchVars => ParserInv'
<1> SUFFICES ASSUME ParserInv, [PatchNext]_patchVars PROVE ParserInv'
  OBVIOUS
<1>0. /\ doing \in Reading \cup {"emit", "done"}
      /\ (doing \in Reading \cup {"emit"} => outcome = "Continue")
      /\ (doing \in Reading => events = <<>>)
      /\ hunks \in Nat
  BY DEF ParserInv, ParserTypes, LimitsInv
<1>1. CASE UNCHANGED patchVars
  <2>1. UNCHANGED <<patch, limits, index, commit, file, hunk, files, hunks, doing, outcome, events>>
    BY <1>1 DEF patchVars, inputVars, parseVars
  <2> QED
    BY <1>0, <2>1, Untouched DEF Accepted, ReadVars
<1>2. CASE CancelVisit
  <2>1. UNCHANGED <<patch, limits, index, commit, file, hunk, files, hunks, doing, outcome, events>>
    BY <1>2 DEF CancelVisit, inputVars, parseVars
  <2> QED
    BY <1>0, <2>1, Untouched DEF Accepted, ReadVars
<1>3. CASE IsCancelled
  <2>1. /\ doing' = "done" /\ outcome' = "Cancelled"
        /\ UNCHANGED <<patch, limits, index, commit, file, hunk, files, hunks, events>>
    BY <1>3 DEF IsCancelled, Returns, inputVars, parseVars
  <2>2. CASE doing \in Reading
    BY <1>0, <2>1, <2>2, StopsForGood DEF ReadVars
  <2>3. CASE doing = "emit"
    BY <2>1, <2>3, Untouched DEF ReadVars, Accepted, Reading
  <2>4. doing # "done"
    BY <1>3 DEF IsCancelled, Polls
  <2> QED
    BY <1>0, <2>2, <2>3, <2>4
<1>4. CASE StderrIssue
  <2>1. /\ doing = "stderr"
        /\ UNCHANGED <<patch, limits, index, commit, file, hunk, files, hunks, events>>
        /\ \/ doing' = "split" /\ outcome' = outcome
           \/ doing' = "done" /\ outcome' \in {"Stop", "Callback"}
    BY <1>4 DEF StderrIssue, Do, Returns, inputVars, parseVars
  <2>2. CASE doing' = "split"
    BY <2>1, <2>2, GoesOn DEF ReadVars
  <2>3. CASE doing' = "done"
    BY <1>0, <2>1, <2>3, StopsForGood DEF ReadVars, Reading
  <2> QED
    BY <2>1, <2>2, <2>3
<1>5. CASE SplitLines
  <2>1. /\ doing = "split"
        /\ UNCHANGED <<patch, limits, index, commit, file, hunk, files, hunks, events>>
        /\ \/ doing' = "patch" /\ outcome' = outcome /\ ~(Len(patch) > limits.lines)
           \/ doing' = "done" /\ outcome' = "Limit"
    BY <1>5 DEF SplitLines, Goes, Do, Returns, inputVars, parseVars
  <2>2. CASE doing' = "patch"
    <3>1. Len(patch) <= limits.lines
      BY <2>1, <2>2 DEF ParserInv, ParserTypes
    <3> QED
      BY <2>1, <2>2, <3>1, GoesOn DEF ReadVars
  <2>3. CASE doing' = "done"
    BY <1>0, <2>1, <2>3, StopsForGood DEF ReadVars, Reading
  <2> QED
    BY <2>1, <2>2, <2>3
<1>6. CASE CommitLine
  BY <1>6, CommitLineKeeps
<1>7. CASE HeaderLine
  BY <1>7, HeaderLineKeeps
<1>8. CASE DiffLine
  BY <1>8, DiffLineKeeps
<1>9. CASE Preamble
  BY <1>9, PreambleKeeps
<1>10. CASE ParseEnds
  <2>2. /\ doing = "patch" /\ doing' = "emit" /\ ~(index <= Len(patch))
        /\ UNCHANGED <<patch, limits, index, commit, file, hunk, files, hunks, outcome, events>>
    BY <1>10 DEF ParseEnds, Goes, More, Do, inputVars, parseVars
  <2>3. index = Len(patch) + 1
    BY <2>2 DEF ParserInv, ParserTypes
  <2>4. Len(patch) <= limits.lines
    BY <2>2 DEF ParserInv, LimitsInv, Live, Reading
  <2> QED
    BY <2>2, <2>3, <2>4, GoesOn DEF ReadVars
<1>11. CASE FileLine
  BY <1>11, FileLineKeeps
<1>12. CASE FileEnds
  BY <1>12, FileEndsKeeps
<1>13. CASE HunkLine
  BY <1>13, HunkLineKeeps
<1>14. CASE HunkBody
  BY <1>14, HunkBodyKeeps
<1>15. CASE HunkEnds
  BY <1>15, HunkEndsKeeps
<1>16. CASE SkipFile \/ EmitHunk \/ VisitBlob \/ VisitEnds
  <2>1. /\ doing = "emit" /\ doing' \in {"emit", "done"} /\ (doing' = "emit" => outcome' = outcome)
        /\ UNCHANGED <<patch, limits, index, commit, file, hunk, files, hunks>>
    <3>1. CASE SkipFile
      BY <3>1 DEF SkipFile, Emitting, inputVars, parseVars
    <3>2. CASE EmitHunk
      BY <3>2 DEF EmitHunk, Emitting, Emit, Returns, inputVars, parseVars
    <3>3. CASE VisitBlob
      BY <3>3 DEF VisitBlob, Emitting, Emit, Returns, inputVars, parseVars
    <3>4. CASE VisitEnds
      BY <3>4 DEF VisitEnds, Do, inputVars, parseVars
    <3> QED
      BY <1>16, <3>1, <3>2, <3>3, <3>4
  <2> QED
    BY <1>0, <2>1, Untouched DEF ReadVars, Accepted, Reading
<1>17. CASE Done
  <2>1. UNCHANGED <<patch, limits, index, commit, file, hunk, files, hunks, doing, outcome, events>>
    BY <1>17 DEF Done, patchVars, inputVars, parseVars
  <2> QED
    BY <1>0, <2>1, Untouched DEF Accepted, ReadVars
<1> QED
  BY <1>1, <1>2, <1>3, <1>4, <1>5, <1>6, <1>7, <1>8, <1>9, <1>10, <1>11, <1>12, <1>13, <1>14, <1>15,
     <1>16, <1>17 DEF PatchNext, Parse

LEMMA ParserInvIsEnough ==
  ParserInv => AcceptedIsComplete
<1> SUFFICES ASSUME ParserInv, Accepted PROVE AcceptedIsComplete
  BY DEF AcceptedIsComplete
<1> USE DEF ParserInv
<1>1. /\ Live /\ doing \notin {"stderr", "split"} /\ doing \notin InRecord
      /\ index = Len(patch) + 1 /\ Len(patch) \in Nat
  BY DEF Live, Accepted, LimitsInv, InRecord, ParserTypes
<1>2. Len(patch) <= limits.lines /\ Len(files) <= limits.files /\ hunks <= limits.hunks
  BY <1>1 DEF LimitsInv
<1>3. \A f \in DOMAIN files : \A h \in HunksOf(files[f]) : h \in Stored
  BY DEF Stored
<1>4. ASSUME NEW f \in DOMAIN files, NEW h \in HunksOf(files[f])
      PROVE  LET body == SubSeq(patch, h.start + 1, h.end - 1) IN
               /\ patch[h.start].old = CountOf(body, OldOps)
               /\ patch[h.start].new = CountOf(body, NewOps)
               /\ LinesOf(h) = {i \in h.start + 1 .. h.end - 1 : patch[i].op = "added"}
               /\ \A g \in DOMAIN files : \A k \in HunksOf(files[g]) :
                    k # h => LinesOf(k) \cap LinesOf(h) = {}
  <2>1. IsComplete(h) /\ h \in Stored
    BY <1>1, <1>3, <1>4 DEF HunkInv
  <2>2. ASSUME NEW g \in DOMAIN files, NEW k \in HunksOf(files[g]), k # h
        PROVE  LinesOf(k) \cap LinesOf(h) = {}
    <3>1. IsComplete(k) /\ Apart(h, k) /\ h \in Complete /\ k \in Complete
      BY <1>1, <1>3, <2>1, <2>2, StoredTypes DEF HunkInv
    <3>2. /\ LinesOf(h) = Pluses(h.start, h.end) /\ LinesOf(k) = Pluses(k.start, k.end)
          /\ h.start \in Nat /\ h.end \in Nat /\ k.start \in Nat /\ k.end \in Nat
      BY <2>1, <3>1 DEF IsComplete, Complete
    <3>3. h.end <= k.start \/ k.end <= h.start
      BY <2>2, <3>1 DEF Apart
    <3> QED
      BY <3>2, <3>3 DEF Pluses
  <2> QED
    BY <2>1, <2>2 DEF IsComplete, Between, Pluses, OldOps, NewOps
<1>5. ASSUME NEW i \in DOMAIN patch, patch[i].op = "added" /\ patch[i].is # "newPath" /\ InDiff(i)
      PROVE  \/ \E f \in DOMAIN files : \E h \in HunksOf(files[f]) : i \in LinesOf(h)
             \/ Unnamed(Record(i))
  <2>1. i \in 1 .. index - 1
    BY <1>1 DEF ParserTypes
  <2> QED
    BY <1>1, <1>5, <2>1 DEF LinesInv, AddedLine, Covered
<1> QED
  BY <1>2, <1>4, <1>5 DEF AcceptedIsComplete, OldOps, NewOps

\* Whatever the lines, the limits, the token and the callback are: a patch that is
\* accepted is complete. Its hunks are whole, no added line is left out or taken
\* twice, and the ceilings are kept.
THEOREM AcceptedPatchIsComplete == PatchSpec => []AcceptedIsComplete
<1>1. PatchInit => ParserInv
  BY ParserStarts
<1>2. ParserInv /\ [PatchNext]_patchVars => ParserInv'
  BY ParserKeeps
<1>3. ParserInv => AcceptedIsComplete
  BY ParserInvIsEnough
<1> QED
  BY <1>1, <1>2, <1>3, PTL DEF PatchSpec

-----------------------------------------------------------------------------
(* Induction, and sequences by their elements.                             *)

\* Induction over a set of numbers, which needs no operator to be given.
LEMMA SetInduction ==
  ASSUME NEW S, 0 \in S, \A n \in Nat : n \in S => n + 1 \in S
  PROVE  Nat \subseteq S
<1> DEFINE R == OpToRel(<, Nat)
<1>1. IsWellFoundedOn(R, Nat)
  BY NatLessThanWellFounded, Zenon
<1>2. \A x, y \in Nat : x < y => <<x, y>> \in R
  BY DEF OpToRel
<1> HIDE DEF R
<1> SUFFICES ASSUME Nat \ S # {} PROVE FALSE
  OBVIOUS
<1>3. PICK n \in Nat \ S : \A m \in Nat \ S : ~(<<m, n>> \in R)
  BY WFMin, <1>1, Zenon
<1>4. n - 1 \in Nat /\ n - 1 < n
  OBVIOUS
<1>5. n - 1 \in S
  BY <1>2, <1>3, <1>4
<1> QED
  BY <1>3, <1>4, <1>5

\* f puts the parts together one after another.
Steps(f, parts, n) ==
  /\ f[0] = <<>>
  /\ \A i \in 1 .. n : f[i] = f[i - 1] \o parts[i]

\* Concat goes through such steps.
LEMMA ConcatSteps ==
  ASSUME NEW n \in Nat, NEW parts, DOMAIN parts = 1 .. n
  PROVE  \E f : Steps(f, parts, n) /\ Concat(parts) = f[n]
<1> DEFINE Is(f, m) == f = [i \in 0 .. m |-> IF i = 0 THEN <<>> ELSE f[i - 1] \o parts[i]]
           S == {m \in Nat : \E f : Is(f, m)}
<1>1. 0 \in S
  <2> DEFINE f == [i \in 0 .. 0 |-> <<>>]
  <2>1. Is(f, 0)
    OBVIOUS
  <2> QED
    BY <2>1
<1>2. ASSUME NEW m \in Nat, m \in S PROVE m + 1 \in S
  <2>1. PICK f : Is(f, m)
    BY <1>2
  <2> DEFINE g == [i \in 0 .. m + 1 |-> IF i \in 0 .. m THEN f[i] ELSE f[m] \o parts[m + 1]]
  <2>2. \A i \in 0 .. m : f[i] = IF i = 0 THEN <<>> ELSE f[i - 1] \o parts[i]
    BY <2>1
  <2>3. ASSUME NEW i \in 0 .. m + 1
        PROVE  g[i] = IF i = 0 THEN <<>> ELSE g[i - 1] \o parts[i]
    <3>1. CASE i = 0
      BY <3>1, <2>2
    <3>2. CASE i \in 1 .. m
      <4>1. i - 1 \in 0 .. m /\ i \in 0 .. m /\ i # 0
        BY <3>2
      <4>2. g[i] = f[i] /\ g[i - 1] = f[i - 1]
        BY <4>1
      <4> HIDE DEF g
      <4> QED
        BY <4>1, <4>2, <2>2
    <3>3. CASE i = m + 1
      <4>1. i - 1 = m /\ i \notin 0 .. m /\ m \in 0 .. m /\ m \in 0 .. m + 1 /\ i # 0
        BY <3>3
      <4> QED
        BY <4>1, <3>3
    <3> QED
      BY <3>1, <3>2, <3>3
  <2> HIDE DEF g
  <2>4. g = [i \in 0 .. m + 1 |-> g[i]]
    BY DEF g
  <2>5. Is(g, m + 1)
    BY <2>3, <2>4
  <2>6. m + 1 \in Nat
    OBVIOUS
  <2> HIDE DEF Is
  <2> QED
    BY <2>5, <2>6, Zenon
<1>3. n \in S
  <2> HIDE DEF S
  <2> QED
    BY <1>1, <1>2, SetInduction
<1>4. {0} \cup DOMAIN parts = 0 .. n
  OBVIOUS
<1>5. Cardinality(DOMAIN parts) = n
  BY FS_Interval
<1> DEFINE choice == CHOOSE f : Is(f, n)
<1>6. Is(choice, n)
  BY <1>3
<1>7. Concat(parts) = choice[n]
  BY <1>4, <1>5 DEF Concat
<1> HIDE DEF choice
<1>8. PICK f : Is(f, n) /\ Concat(parts) = f[n]
  BY <1>6, <1>7
<1>9. \A i \in 0 .. n : f[i] = IF i = 0 THEN <<>> ELSE f[i - 1] \o parts[i]
  BY <1>8
<1> HIDE DEF Is, S
<1>10. Steps(f, parts, n)
  <2>1. 0 \in 0 .. n /\ \A i \in 1 .. n : i \in 0 .. n /\ i # 0
    OBVIOUS
  <2> QED
    BY <1>9, <2>1, Zenon DEF Steps
<1> QED
  BY <1>8, <1>10

\* Two ways of taking the steps go together.
LEMMA ConcatUnique ==
  ASSUME NEW n \in Nat, NEW parts, DOMAIN parts = 1 .. n, NEW g, Steps(g, parts, n)
  PROVE  Concat(parts) = g[n]
<1>1. PICK f : Steps(f, parts, n) /\ Concat(parts) = f[n]
  BY ConcatSteps
<1> DEFINE S == {m \in Nat : m <= n => f[m] = g[m]}
<1>2. 0 \in S
  BY <1>1 DEF Steps
<1>3. ASSUME NEW m \in Nat, m \in S PROVE m + 1 \in S
  <2>1. SUFFICES ASSUME m + 1 <= n PROVE f[m + 1] = g[m + 1]
    OBVIOUS
  <2>2. m + 1 \in 1 .. n /\ (m + 1) - 1 = m /\ f[m] = g[m]
    BY <1>3, <2>1
  <2>3. f[m + 1] = f[m] \o parts[m + 1] /\ g[m + 1] = g[m] \o parts[m + 1]
    BY <1>1, <2>2, Zenon DEF Steps
  <2> QED
    BY <2>2, <2>3
<1>4. n \in S
  <2> HIDE DEF S
  <2> QED
    BY <1>2, <1>3, SetInduction
<1> QED
  BY <1>1, <1>4

IsSeq(s) == s \in Seq(Range(s))

LEMMA SeqIsSeq ==
  ASSUME NEW T, NEW s \in Seq(T)
  PROVE  IsSeq(s)
BY SeqOfRange DEF IsSeq

LEMMA SeqFacts ==
  ASSUME NEW s, IsSeq(s)
  PROVE  /\ Len(s) \in Nat /\ DOMAIN s = 1 .. Len(s)
         /\ \A i \in 1 .. Len(s) : s[i] \in Range(s)
BY DEF IsSeq, Range

LEMMA SameSeq ==
  ASSUME NEW s, IsSeq(s), NEW t, IsSeq(t), Len(s) = Len(t), \A i \in 1 .. Len(s) : s[i] = t[i]
  PROVE  s = t
<1>1. s = [i \in 1 .. Len(s) |-> s[i]] /\ t = [i \in 1 .. Len(t) |-> t[i]]
  BY DEF IsSeq
<1> QED
  BY <1>1

\* t comes behind s in u.
Joined(s, t, u) ==
  /\ IsSeq(u) /\ Len(s) \in Nat /\ Len(t) \in Nat /\ Len(u) = Len(s) + Len(t)
  /\ \A i \in 1 .. Len(s) : u[i] = s[i]
  /\ \A i \in Len(s) + 1 .. Len(u) : u[i] = t[i - Len(s)]

LEMMA JoinFacts ==
  ASSUME NEW s, IsSeq(s), NEW t, IsSeq(t)
  PROVE  Joined(s, t, s \o t)
<1> DEFINE T == Range(s) \cup Range(t)
<1>1. s \in Seq(T) /\ t \in Seq(T)
  <2>1. Range(s) \subseteq T /\ Range(t) \subseteq T
    OBVIOUS
  <2> QED
    BY <2>1, SeqMonotonic DEF IsSeq
<1> HIDE DEF T
<1>2. /\ s \o t \in Seq(T) /\ Len(s \o t) = Len(s) + Len(t)
      /\ Len(s) \in Nat /\ Len(t) \in Nat
  BY <1>1
<1>3. \A i \in 1 .. Len(s) : (s \o t)[i] = s[i]
  BY <1>1
<1>4. \A i \in Len(s) + 1 .. Len(s \o t) : (s \o t)[i] = t[i - Len(s)]
  BY <1>1
<1>5. IsSeq(s \o t)
  BY <1>2, SeqIsSeq
<1> DEFINE u == s \o t
<1> HIDE DEF u
<1>6. /\ IsSeq(u) /\ Len(u) = Len(s) + Len(t)
      /\ \A i \in 1 .. Len(s) : u[i] = s[i]
      /\ \A i \in Len(s) + 1 .. Len(u) : u[i] = t[i - Len(s)]
  BY <1>2, <1>3, <1>4, <1>5, Zenon DEF u
<1>7. Joined(s, t, u)
  BY <1>2, <1>6, Zenon DEF Joined
<1> QED
  BY <1>7 DEF u

LEMMA NothingJoined ==
  ASSUME NEW s, IsSeq(s)
  PROVE  <<>> \o s = s /\ s \o <<>> = s
BY ConcatEmptySeq DEF IsSeq

LEMMA JoinsAssociate ==
  ASSUME NEW s, IsSeq(s), NEW t, IsSeq(t), NEW u, IsSeq(u)
  PROVE  (s \o t) \o u = s \o (t \o u)
<1> DEFINE T == Range(s) \cup Range(t) \cup Range(u)
<1>1. Range(s) \subseteq T /\ Range(t) \subseteq T /\ Range(u) \subseteq T
  OBVIOUS
<1> HIDE DEF T
<1>2. s \in Seq(T) /\ t \in Seq(T) /\ u \in Seq(T)
  BY <1>1, SeqMonotonic DEF IsSeq
<1> QED
  BY <1>2, ConcatAssociative

LEMMA TupleIsSeq ==
  /\ IsSeq(<<>>) /\ Len(<<>>) = 0
  /\ \A a : IsSeq(<<a>>) /\ Len(<<a>>) = 1
<1>1. <<>> \in Seq({}) /\ Len(<<>>) = 0
  OBVIOUS
<1>2. \A a : <<a>> \in Seq({a}) /\ Len(<<a>>) = 1
  OBVIOUS
<1> QED
  BY <1>1, <1>2, SeqIsSeq

-----------------------------------------------------------------------------
(* Parts that are put together.                                            *)

\* The first i parts, one after another.
UpTo(parts, i) == Concat([m \in 1 .. i |-> parts[m]])

LEMMA UpToSteps ==
  ASSUME NEW n \in Nat, NEW parts, DOMAIN parts = 1 .. n
  PROVE  /\ UpTo(parts, 0) = <<>> /\ UpTo(parts, n) = Concat(parts)
         /\ \A i \in 1 .. n : UpTo(parts, i) = UpTo(parts, i - 1) \o parts[i]
<1>1. PICK f : Steps(f, parts, n) /\ Concat(parts) = f[n]
  BY ConcatSteps
<1>2. ASSUME NEW i \in 0 .. n PROVE UpTo(parts, i) = f[i]
  <2> DEFINE some == [m \in 1 .. i |-> parts[m]]
  <2>1. DOMAIN some = 1 .. i /\ i \in Nat /\ \A m \in 1 .. i : some[m] = parts[m] /\ m \in 1 .. n
    OBVIOUS
  <2> HIDE DEF some
  <2>2. Steps(f, some, i)
    BY <1>1, <2>1, Zenon DEF Steps
  <2>3. Concat(some) = f[i]
    BY <2>1, <2>2, ConcatUnique
  <2> QED
    BY <2>3 DEF UpTo, some
<1>3. f[0] = <<>> /\ \A i \in 1 .. n : f[i] = f[i - 1] \o parts[i]
  BY <1>1, Zenon DEF Steps
<1>4. 0 \in 0 .. n /\ n \in 0 .. n /\ \A i \in 1 .. n : i \in 0 .. n /\ i - 1 \in 0 .. n
  OBVIOUS
<1> QED
  BY <1>1, <1>2, <1>3, <1>4

LEMMA UpToIsSeq ==
  ASSUME NEW n \in Nat, NEW parts, DOMAIN parts = 1 .. n, \A i \in 1 .. n : IsSeq(parts[i])
  PROVE  /\ \A i \in 0 .. n : IsSeq(UpTo(parts, i)) /\ Len(UpTo(parts, i)) \in Nat
         /\ IsSeq(Concat(parts))
<1> DEFINE S == {m \in Nat : m <= n => IsSeq(UpTo(parts, m))}
<1>1. 0 \in S
  BY UpToSteps, TupleIsSeq
<1>2. ASSUME NEW m \in Nat, m \in S PROVE m + 1 \in S
  <2> SUFFICES ASSUME m + 1 <= n PROVE IsSeq(UpTo(parts, m + 1))
    OBVIOUS
  <2>1. m + 1 \in 1 .. n /\ (m + 1) - 1 = m /\ IsSeq(UpTo(parts, m))
    BY <1>2
  <2>2. UpTo(parts, m + 1) = UpTo(parts, m) \o parts[m + 1] /\ IsSeq(parts[m + 1])
    BY <2>1, UpToSteps
  <2> DEFINE s == UpTo(parts, m)
             t == parts[m + 1]
  <2>3. IsSeq(s) /\ IsSeq(t)
    BY <2>1, <2>2
  <2> HIDE DEF s, t
  <2>4. Joined(s, t, s \o t)
    BY <2>3, JoinFacts
  <2>5. IsSeq(s \o t)
    BY <2>4, Zenon DEF Joined
  <2> QED
    BY <2>2, <2>5 DEF s, t
<1>3. Nat \subseteq S
  <2> HIDE DEF S
  <2> QED
    BY <1>1, <1>2, SetInduction
<1>4. \A i \in 0 .. n : IsSeq(UpTo(parts, i))
  BY <1>3
<1> HIDE DEF S
<1>5. UpTo(parts, n) = Concat(parts)
  BY UpToSteps
<1>6. n \in 0 .. n
  OBVIOUS
<1> QED
  BY <1>4, <1>5, <1>6, SeqFacts

LEMMA UpToJoins ==
  ASSUME NEW n \in Nat, NEW parts, DOMAIN parts = 1 .. n, \A i \in 1 .. n : IsSeq(parts[i]),
         NEW i \in 1 .. n
  PROVE  Joined(UpTo(parts, i - 1), parts[i], UpTo(parts, i))
<1>1. i - 1 \in 0 .. n
  OBVIOUS
<1>2. IsSeq(UpTo(parts, i - 1))
  BY <1>1, UpToIsSeq
<1>3. UpTo(parts, i) = UpTo(parts, i - 1) \o parts[i]
  BY UpToSteps
<1>4. IsSeq(parts[i])
  OBVIOUS
<1> DEFINE s == UpTo(parts, i - 1)
           t == parts[i]
<1> HIDE DEF s, t
<1>5. IsSeq(s) /\ IsSeq(t)
  BY <1>2, <1>4 DEF s, t
<1>6. Joined(s, t, s \o t)
  BY <1>5, JoinFacts
<1> QED
  BY <1>3, <1>6 DEF s, t

\* The first parts are the beginning of all of them.
LEMMA UpToBegins ==
  ASSUME NEW n \in Nat, NEW parts, DOMAIN parts = 1 .. n, \A i \in 1 .. n : IsSeq(parts[i]),
         NEW i \in 0 .. n
  PROVE  /\ Len(UpTo(parts, i)) <= Len(Concat(parts))
         /\ \A p \in 1 .. Len(UpTo(parts, i)) : Concat(parts)[p] = UpTo(parts, i)[p]
<1> DEFINE Extends(m) == /\ Len(UpTo(parts, i)) <= Len(UpTo(parts, m))
                         /\ \A p \in 1 .. Len(UpTo(parts, i)) : UpTo(parts, m)[p] = UpTo(parts, i)[p]
           S == {m \in Nat : i + m <= n => Extends(i + m)}
<1>0. Len(UpTo(parts, i)) \in Nat
  BY UpToIsSeq
<1>1. 0 \in S
  <2>1. Extends(i)
    BY <1>0
  <2> HIDE DEF Extends
  <2> QED
    BY <2>1
<1>2. ASSUME NEW m \in Nat, m \in S PROVE m + 1 \in S
  <2> SUFFICES ASSUME i + (m + 1) <= n PROVE Extends(i + (m + 1))
    OBVIOUS
  <2> DEFINE k == i + (m + 1)
  <2>1. k \in 1 .. n /\ k - 1 = i + m /\ Extends(i + m)
    BY <1>2
  <2>2. Joined(UpTo(parts, k - 1), parts[k], UpTo(parts, k))
    BY <2>1, UpToJoins
  <2> HIDE DEF k
  <2> DEFINE some == UpTo(parts, i)
             old == UpTo(parts, k - 1)
             new == UpTo(parts, k)
  <2>3. /\ Len(old) \in Nat /\ Len(parts[k]) \in Nat /\ Len(new) = Len(old) + Len(parts[k])
        /\ \A p \in 1 .. Len(old) : new[p] = old[p]
    BY <2>2, Zenon DEF Joined
  <2>4. Len(some) \in Nat /\ Len(some) <= Len(old) /\ \A p \in 1 .. Len(some) : old[p] = some[p]
    BY <1>0, <2>1
  <2> HIDE DEF some, old, new
  <2>5. Len(some) <= Len(new)
    BY <2>3, <2>4
  <2>6. \A p \in 1 .. Len(some) : new[p] = some[p]
    BY <2>3, <2>4
  <2> USE DEF some, new
  <2>7. Extends(k)
    BY <2>5, <2>6
  <2> HIDE DEF Extends
  <2> QED
    BY <2>7 DEF k
<1>3. Nat \subseteq S
  <2> HIDE DEF S
  <2> QED
    BY <1>1, <1>2, SetInduction
<1>4. n - i \in S /\ i + (n - i) = n
  BY <1>3
<1>5. Extends(n)
  <2> HIDE DEF Extends
  <2> QED
    BY <1>4
<1>6. UpTo(parts, n) = Concat(parts)
  BY UpToSteps
<1> QED
  BY <1>5, <1>6

\* Where the elements of a part are.
LEMMA PartIsThere ==
  ASSUME NEW n \in Nat, NEW parts, DOMAIN parts = 1 .. n, \A i \in 1 .. n : IsSeq(parts[i]),
         NEW i \in 1 .. n, NEW m \in 1 .. Len(parts[i])
  PROVE  /\ Len(UpTo(parts, i - 1)) + m \in 1 .. Len(Concat(parts))
         /\ Concat(parts)[Len(UpTo(parts, i - 1)) + m] = parts[i][m]
<1> DEFINE old == UpTo(parts, i - 1)
           new == UpTo(parts, i)
           all == Concat(parts)
           p == Len(old) + m
<1>1. Joined(old, parts[i], new)
  BY UpToJoins
<1>2. Len(new) <= Len(all) /\ \A q \in 1 .. Len(new) : all[q] = new[q]
  <2>1. i \in 0 .. n
    OBVIOUS
  <2> QED
    BY <2>1, UpToBegins
<1>3. Len(all) \in Nat
  BY UpToIsSeq, SeqFacts
<1> HIDE DEF old, new, all
<1>4. /\ Len(old) \in Nat /\ Len(parts[i]) \in Nat /\ Len(new) = Len(old) + Len(parts[i])
      /\ \A q \in Len(old) + 1 .. Len(new) : new[q] = parts[i][q - Len(old)]
  BY <1>1, Zenon DEF Joined
<1>5. p \in Len(old) + 1 .. Len(new) /\ p - Len(old) = m /\ p \in 1 .. Len(new)
  BY <1>4
<1> HIDE DEF p
<1>6. new[p] = parts[i][m] /\ all[p] = new[p]
  BY <1>2, <1>4, <1>5
<1>7. p \in 1 .. Len(all)
  BY <1>2, <1>3, <1>4, <1>5
<1> QED
  BY <1>6, <1>7 DEF p, old, all

-----------------------------------------------------------------------------
(* The lines of a change.                                                  *)

\* The headers of the paths come behind one, two or four others.
ThreeBehind(s, x, y, z, t) ==
  /\ IsSeq(t) /\ Len(t) = Len(s) + 3 /\ Len(s) \in Nat
  /\ \A i \in 1 .. Len(s) : t[i] = s[i]
  /\ t[Len(s) + 1] = x /\ t[Len(s) + 2] = y /\ t[Len(s) + 3] = z

LEMMA ThreeMore ==
  ASSUME NEW s, IsSeq(s), NEW x, NEW y, NEW z
  PROVE  ThreeBehind(s, x, y, z, s \o <<x, y, z>>)
<1> DEFINE u == <<x, y, z>>
           t == s \o u
<1>1. u \in Seq({x, y, z}) /\ Len(u) = 3 /\ u[1] = x /\ u[2] = y /\ u[3] = z
  OBVIOUS
<1> HIDE DEF u
<1>2. IsSeq(u)
  BY <1>1, SeqIsSeq
<1>3. Joined(s, u, t)
  BY <1>2, JoinFacts
<1> HIDE DEF t
<1>4. /\ IsSeq(t) /\ Len(s) \in Nat /\ Len(t) = Len(s) + Len(u)
      /\ \A i \in 1 .. Len(s) : t[i] = s[i]
      /\ \A i \in Len(s) + 1 .. Len(t) : t[i] = u[i - Len(s)]
  BY <1>3, Zenon DEF Joined
<1>5. Len(t) = Len(s) + 3 /\ t[Len(s) + 1] = x /\ t[Len(s) + 2] = y /\ t[Len(s) + 3] = z
  BY <1>1, <1>4
<1>6. ThreeBehind(s, x, y, z, t)
  BY <1>4, <1>5, Zenon DEF ThreeBehind
<1> QED
  BY <1>6 DEF t, u

LEMMA TuplesAre ==
  /\ \A a : IsSeq(<<a>>) /\ Len(<<a>>) = 1 /\ <<a>>[1] = a
  /\ \A a, b : IsSeq(<<a, b>>) /\ Len(<<a, b>>) = 2
  /\ \A a, b, c : IsSeq(<<a, b, c>>) /\ Len(<<a, b, c>>) = 3
  /\ \A a, b, c, d : IsSeq(<<a, b, c, d>>) /\ Len(<<a, b, c, d>>) = 4
  /\ \A a, b, c, d, e : IsSeq(<<a, b, c, d, e>>) /\ Len(<<a, b, c, d, e>>) = 5
  /\ \A a, b, c, d, e, f : IsSeq(<<a, b, c, d, e, f>>) /\ Len(<<a, b, c, d, e, f>>) = 6
<1>1. /\ \A a : <<a>> \in Seq({a}) /\ Len(<<a>>) = 1 /\ <<a>>[1] = a
      /\ \A a, b : <<a, b>> \in Seq({a, b}) /\ Len(<<a, b>>) = 2
      /\ \A a, b, c : <<a, b, c>> \in Seq({a, b, c}) /\ Len(<<a, b, c>>) = 3
  OBVIOUS
<1>2. /\ \A a, b, c, d : <<a, b, c, d>> \in Seq({a, b, c, d}) /\ Len(<<a, b, c, d>>) = 4
  OBVIOUS
<1>3. /\ \A a, b, c, d, e : <<a, b, c, d, e>> \in Seq({a, b, c, d, e}) /\ Len(<<a, b, c, d, e>>) = 5
  OBVIOUS
<1>4. /\ \A a, b, c, d, e, f : <<a, b, c, d, e, f>> \in Seq({a, b, c, d, e, f})
                                 /\ Len(<<a, b, c, d, e, f>>) = 6
  OBVIOUS
<1> QED
  BY <1>1, <1>2, <1>3, <1>4, SeqIsSeq

\* What the headers of a change are: the first one begins a record, the others are of a kind
\* that the parser expects there, and together they say what the change is.
Named(line) == line.is \in {"diff", "newPath", "renameTo", "copyTo"} /\ line.value \notin {None, DevNull}
Deletes(line) == line.is = "deleted" \/ (line.is = "newPath" /\ line.value = DevNull)
Binary(line) == line.is \in {"binary", "payload"}

Opens(h, c) ==
  /\ IsSeq(h) /\ Len(h) \in Nat \ {0} /\ h[1].is = "diff" /\ h[1].value \in {None, c.path}
  /\ \E m \in 1 .. Len(h) : Named(h[m])

Expected(h, c, m) ==
  \/ h[m].is \in {"deleted", "binary", "oldPath", "oldMode", "newFile", "newMode",
                  "renameFrom", "copyFrom", "index"}
  \/ h[m].is = "newPath" /\ m > 2 /\ h[m - 1].is = "oldPath" /\ h[m].value \in {c.path, DevNull}
  \/ h[m].is = "renameTo" /\ m > 2 /\ h[m - 1].is = "renameFrom" /\ h[m].value = c.path
  \/ h[m].is = "copyTo" /\ m > 2 /\ h[m - 1].is = "copyFrom" /\ h[m].value = c.path

\* In a patch of binary content lines follow that may look like anything but a record.
Follows(h, c) ==
  \/ /\ c.kind # "payload"
     /\ \A m \in 2 .. Len(h) : Expected(h, c, m)
  \/ /\ c.kind = "payload" /\ Len(h) > 3 /\ h[2].is = "index" /\ h[3].is = "payload"
     /\ \A m \in 4 .. Len(h) : h[m].is \in {"other", "blank"}

\* The structures of a record.
Structures ==
  {{"oldPath", "newPath"}, {"oldMode", "newMode"}, {"deleted"}, {"newFile"},
   {"renameFrom", "renameTo"}, {"copyFrom", "copyTo"}}

Says(h, c) ==
  /\ (\E m \in 1 .. Len(h) : Deletes(h[m])) <=> c.kind = "delete"
  /\ (\E m \in 1 .. Len(h) : Binary(h[m])) <=> c.kind \in {"binary", "payload"}
  /\ (\E m \in 1 .. Len(h) : h[m].is = "payload") <=> c.kind = "payload"
  /\ \/ c.kind \in {"binary", "payload"} \/ c.hunks # <<>>
     \/ \E s \in Structures : s \subseteq {h[m].is : m \in 2 .. Len(h)}

\* The headers of a change without the ones of its paths.
Lead(c) ==
  CASE c.kind = "modify" -> <<Header("diff", c.path)>>
    [] c.kind = "create" -> <<Header("diff", c.path), Header("newFile", None)>>
    [] c.kind = "delete" -> <<Header("diff", c.path), Header("deleted", None)>>
    [] c.kind = "rename" ->
         <<Header("diff", None), Header("index", None), Header("renameFrom", c.from),
           Header("renameTo", c.path)>>
    [] c.kind = "copy" ->
         <<Header("diff", None), Header("index", None), Header("copyFrom", c.from),
           Header("copyTo", c.path)>>
    [] c.kind = "mode" ->
         <<Header("diff", c.path), Header("oldMode", None), Header("newMode", None)>>
    [] c.kind = "binary" ->
         <<Header("diff", c.path), Header("index", None), Header("binary", None)>>
    [] c.kind = "payload" ->
         <<Header("diff", c.path), Header("index", None), Header("payload", None),
           Header("other", None), Line("other", "added", None), Blank>>

LEMMA LeadIs ==
  ASSUME NEW c, IsChange(c)
  PROVE  LET h == Lead(c) IN
         /\ IsSeq(h) /\ Len(h) \in 1 .. 6
         /\ h[1].is = "diff" /\ h[1].value \in {None, c.path}
         /\ Follows(h, c)
         /\ \A m \in 1 .. Len(h) : h[m].is # "newPath" /\ h[m].op # "marker"
         /\ c.kind # "modify" => Says(h, c)
         /\ (\E m \in 1 .. Len(h) : Named(h[m]))
         /\ Len(h) < 3 => c.kind \in {"modify", "create", "delete"}
<1> USE DEF Header, Line, Blank
<1>0. c.path \notin {None, DevNull} /\ c.kind \in Kinds
  BY DEF IsChange
<1>1. CASE c.kind = "modify"
  <2> DEFINE h == <<Header("diff", c.path)>>
  <2>1. Lead(c) = h
    BY <1>1 DEF Lead
  <2>2. Len(h) = 1 /\ IsSeq(h) /\ h[1] = Header("diff", c.path)
    BY TuplesAre
  <2> HIDE DEF h
  <2> QED
    BY <1>0, <1>1, <2>1, <2>2 DEF Follows, Named
<1>2. CASE c.kind = "create"
  <2> DEFINE h == <<Header("diff", c.path), Header("newFile", None)>>
  <2>1. Lead(c) = h
    BY <1>2 DEF Lead
  <2>2. /\ Len(h) = 2 /\ IsSeq(h)
        /\ h[1] = Header("diff", c.path) /\ h[2] = Header("newFile", None)
    BY TuplesAre
  <2> HIDE DEF h
  <2>3. 1 .. Len(h) = {1, 2} /\ 2 .. Len(h) = {2}
    BY <2>2
  <2>4. Says(h, c)
    <3>1. {"newFile"} \in Structures /\ {"newFile"} \subseteq {h[m].is : m \in 2 .. Len(h)}
      BY <2>2, <2>3 DEF Structures
    <3> QED
      BY <1>2, <2>2, <2>3, <3>1 DEF Says, Deletes, Binary
  <2> QED
    BY <1>0, <1>2, <2>1, <2>2, <2>3, <2>4 DEF Follows, Named, Expected
<1>3. CASE c.kind = "delete"
  <2> DEFINE h == <<Header("diff", c.path), Header("deleted", None)>>
  <2>1. Lead(c) = h
    BY <1>3 DEF Lead
  <2>2. /\ Len(h) = 2 /\ IsSeq(h)
        /\ h[1] = Header("diff", c.path) /\ h[2] = Header("deleted", None)
    BY TuplesAre
  <2> HIDE DEF h
  <2>3. 1 .. Len(h) = {1, 2} /\ 2 .. Len(h) = {2}
    BY <2>2
  <2>4. Says(h, c)
    <3>1. {"deleted"} \in Structures /\ {"deleted"} \subseteq {h[m].is : m \in 2 .. Len(h)}
      BY <2>2, <2>3 DEF Structures
    <3> QED
      BY <1>3, <2>2, <2>3, <3>1 DEF Says, Deletes, Binary
  <2> QED
    BY <1>0, <1>3, <2>1, <2>2, <2>3, <2>4 DEF Follows, Named, Expected
<1>4. CASE c.kind = "rename"
  <2> DEFINE h == <<Header("diff", None), Header("index", None), Header("renameFrom", c.from),
                    Header("renameTo", c.path)>>
  <2>1. Lead(c) = h
    BY <1>4 DEF Lead
  <2>2. /\ Len(h) = 4 /\ IsSeq(h)
        /\ h[1] = Header("diff", None) /\ h[2] = Header("index", None)
        /\ h[3] = Header("renameFrom", c.from) /\ h[4] = Header("renameTo", c.path)
    BY TuplesAre
  <2> HIDE DEF h
  <2>3. 1 .. Len(h) = {1, 2, 3, 4} /\ 2 .. Len(h) = {2, 3, 4}
    BY <2>2
  <2>4. Says(h, c)
    <3>1. /\ {"renameFrom", "renameTo"} \in Structures
          /\ {"renameFrom", "renameTo"} \subseteq {h[m].is : m \in 2 .. Len(h)}
      BY <2>2, <2>3 DEF Structures
    <3> QED
      BY <1>4, <2>2, <2>3, <3>1 DEF Says, Deletes, Binary
  <2>5. Follows(h, c)
    BY <1>4, <2>2, <2>3 DEF Follows, Expected
  <2> QED
    BY <1>0, <1>4, <2>1, <2>2, <2>3, <2>4, <2>5 DEF Named
<1>5. CASE c.kind = "copy"
  <2> DEFINE h == <<Header("diff", None), Header("index", None), Header("copyFrom", c.from),
                    Header("copyTo", c.path)>>
  <2>1. Lead(c) = h
    BY <1>5 DEF Lead
  <2>2. /\ Len(h) = 4 /\ IsSeq(h)
        /\ h[1] = Header("diff", None) /\ h[2] = Header("index", None)
        /\ h[3] = Header("copyFrom", c.from) /\ h[4] = Header("copyTo", c.path)
    BY TuplesAre
  <2> HIDE DEF h
  <2>3. 1 .. Len(h) = {1, 2, 3, 4} /\ 2 .. Len(h) = {2, 3, 4}
    BY <2>2
  <2>4. Says(h, c)
    <3>1. /\ {"copyFrom", "copyTo"} \in Structures
          /\ {"copyFrom", "copyTo"} \subseteq {h[m].is : m \in 2 .. Len(h)}
      BY <2>2, <2>3 DEF Structures
    <3> QED
      BY <1>5, <2>2, <2>3, <3>1 DEF Says, Deletes, Binary
  <2>5. Follows(h, c)
    BY <1>5, <2>2, <2>3 DEF Follows, Expected
  <2> QED
    BY <1>0, <1>5, <2>1, <2>2, <2>3, <2>4, <2>5 DEF Named
<1>6. CASE c.kind = "mode"
  <2> DEFINE h == <<Header("diff", c.path), Header("oldMode", None), Header("newMode", None)>>
  <2>1. Lead(c) = h
    BY <1>6 DEF Lead
  <2>2. /\ Len(h) = 3 /\ IsSeq(h)
        /\ h[1] = Header("diff", c.path) /\ h[2] = Header("oldMode", None)
        /\ h[3] = Header("newMode", None)
    BY TuplesAre
  <2> HIDE DEF h
  <2>3. 1 .. Len(h) = {1, 2, 3} /\ 2 .. Len(h) = {2, 3}
    BY <2>2
  <2>4. Says(h, c)
    <3>1. /\ {"oldMode", "newMode"} \in Structures
          /\ {"oldMode", "newMode"} \subseteq {h[m].is : m \in 2 .. Len(h)}
      BY <2>2, <2>3 DEF Structures
    <3> QED
      BY <1>6, <2>2, <2>3, <3>1 DEF Says, Deletes, Binary
  <2> QED
    BY <1>0, <1>6, <2>1, <2>2, <2>3, <2>4 DEF Follows, Named, Expected
<1>7. CASE c.kind = "binary"
  <2> DEFINE h == <<Header("diff", c.path), Header("index", None), Header("binary", None)>>
  <2>1. Lead(c) = h
    BY <1>7 DEF Lead
  <2>2. /\ Len(h) = 3 /\ IsSeq(h)
        /\ h[1] = Header("diff", c.path) /\ h[2] = Header("index", None)
        /\ h[3] = Header("binary", None)
    BY TuplesAre
  <2> HIDE DEF h
  <2>3. 1 .. Len(h) = {1, 2, 3} /\ 2 .. Len(h) = {2, 3}
    BY <2>2
  <2>4. Says(h, c)
    BY <1>7, <2>2, <2>3 DEF Says, Deletes, Binary
  <2> QED
    BY <1>0, <1>7, <2>1, <2>2, <2>3, <2>4 DEF Follows, Named, Expected
<1>8. CASE c.kind = "payload"
  <2> DEFINE h == <<Header("diff", c.path), Header("index", None), Header("payload", None),
                    Header("other", None), Line("other", "added", None), Blank>>
  <2>1. Lead(c) = h
    BY <1>8 DEF Lead
  <2>2. /\ Len(h) = 6 /\ IsSeq(h)
        /\ h[1] = Header("diff", c.path) /\ h[2] = Header("index", None)
        /\ h[3] = Header("payload", None) /\ h[4] = Header("other", None)
        /\ h[5] = Line("other", "added", None) /\ h[6] = Blank
    BY TuplesAre
  <2> HIDE DEF h
  <2>3. 1 .. Len(h) = {1, 2, 3, 4, 5, 6} /\ 2 .. Len(h) = {2, 3, 4, 5, 6} /\ 4 .. Len(h) = {4, 5, 6}
    BY <2>2
  <2>4. Says(h, c)
    BY <1>8, <2>2, <2>3 DEF Says, Deletes, Binary
  <2>5. Follows(h, c)
    BY <1>8, <2>2, <2>3 DEF Follows
  <2> QED
    BY <1>0, <1>8, <2>1, <2>2, <2>3, <2>4, <2>5 DEF Named
<1> QED
  BY <1>0, <1>1, <1>2, <1>3, <1>4, <1>5, <1>6, <1>7, <1>8 DEF Kinds

Three(old, c) ==
  <<Header("index", None), OldPath(old), NewPath(IF c.kind = "delete" THEN DevNull ELSE c.path)>>

LEMMA HeadersSplit ==
  ASSUME NEW c, IsChange(c)
  PROVE  \/ c.hunks = <<>> /\ Headers(c) = Lead(c)
         \/ /\ c.hunks # <<>> /\ c.kind \in {"modify", "create", "delete", "rename", "copy"}
            /\ \E old : Headers(c) = Lead(c) \o Three(old, c)
<1>0. c.kind \in Kinds /\ (c.kind \in {"mode", "binary", "payload"} => c.hunks = <<>>)
      /\ (c.kind = "modify" => c.hunks # <<>>)
  BY DEF IsChange
<1>1. CASE c.kind \in {"mode", "binary", "payload"}
  <2>1. Headers(c) = Lead(c)
    BY <1>1 DEF Headers, Lead
  <2> QED
    BY <1>0, <1>1, <2>1
<1>2. CASE c.kind \notin {"mode", "binary", "payload"}
  <2>1. \E old : Headers(c) = Lead(c) \o Paths(old, IF c.kind = "delete" THEN DevNull ELSE c.path, c)
    <3>1. CASE c.kind = "modify"
      <4>1. Headers(c) = Lead(c) \o Paths(c.path, c.path, c)
        BY <3>1 DEF Headers, Lead
      <4> QED
        BY <3>1, <4>1
    <3>2. CASE c.kind = "create"
      <4>1. Headers(c) = Lead(c) \o Paths(DevNull, c.path, c)
        BY <3>2 DEF Headers, Lead
      <4> QED
        BY <3>2, <4>1
    <3>3. CASE c.kind = "delete"
      <4>1. Headers(c) = Lead(c) \o Paths(c.path, DevNull, c)
        BY <3>3 DEF Headers, Lead
      <4> QED
        BY <3>3, <4>1
    <3>4. CASE c.kind = "rename"
      <4>1. Headers(c) = Lead(c) \o Paths(c.from, c.path, c)
        BY <3>4 DEF Headers, Lead
      <4> QED
        BY <3>4, <4>1
    <3>5. CASE c.kind = "copy"
      <4>1. Headers(c) = Lead(c) \o Paths(c.from, c.path, c)
        BY <3>5 DEF Headers, Lead
      <4> QED
        BY <3>5, <4>1
    <3> QED
      BY <1>0, <1>2, <3>1, <3>2, <3>3, <3>4, <3>5 DEF Kinds
  <2>2. PICK old : Headers(c) = Lead(c) \o Paths(old, IF c.kind = "delete" THEN DevNull ELSE c.path, c)
    BY <2>1
  <2>3. CASE c.hunks = <<>>
    <3>1. Paths(old, IF c.kind = "delete" THEN DevNull ELSE c.path, c) = <<>>
      BY <2>3 DEF Paths
    <3>2. IsSeq(Lead(c))
      BY LeadIs
    <3>3. Headers(c) = Lead(c)
      BY <2>2, <3>1, <3>2, NothingJoined
    <3> QED
      BY <2>3, <3>3
  <2>4. CASE c.hunks # <<>>
    <3>1. Paths(old, IF c.kind = "delete" THEN DevNull ELSE c.path, c) = Three(old, c)
      BY <2>4, Zenon DEF Paths, Three
    <3>2. Headers(c) = Lead(c) \o Three(old, c)
      BY <2>2, <3>1
    <3> QED
      BY <1>0, <1>2, <2>4, <3>2 DEF Kinds
  <2> QED
    BY <2>3, <2>4
<1> QED
  BY <1>1, <1>2

LEMMA HeadersAre ==
  ASSUME NEW c, IsChange(c)
  PROVE  LET h == Headers(c) IN
         /\ Opens(h, c) /\ Follows(h, c) /\ Says(h, c)
         /\ \A m \in 1 .. Len(h) : h[m].op # "marker"
<1> DEFINE h == Headers(c)
<1>0. c.path \notin {None, DevNull}
  BY DEF IsChange
<1>1. CASE c.hunks = <<>> /\ Headers(c) = Lead(c)
  <2>1. c.kind # "modify"
    BY <1>1 DEF IsChange
  <2>2. /\ IsSeq(h) /\ Len(h) \in 1 .. 6 /\ h[1].is = "diff" /\ h[1].value \in {None, c.path}
        /\ Follows(h, c) /\ (\A m \in 1 .. Len(h) : h[m].op # "marker")
        /\ Says(h, c) /\ (\E m \in 1 .. Len(h) : Named(h[m]))
    BY <1>1, <2>1, LeadIs
  <2> QED
    BY <2>2 DEF Opens
<1>2. CASE /\ c.hunks # <<>> /\ c.kind \in {"modify", "create", "delete", "rename", "copy"}
           /\ \E old : Headers(c) = Lead(c) \o Three(old, c)
  <2> DEFINE s == Lead(c)
             n == Len(s)
  <2>1. PICK old : h = s \o Three(old, c)
    BY <1>2
  <2>2. /\ IsSeq(s) /\ n \in 1 .. 6 /\ s[1].is = "diff" /\ s[1].value \in {None, c.path}
        /\ Follows(s, c)
        /\ \A m \in 1 .. n : s[m].is # "newPath" /\ s[m].op # "marker"
        /\ c.kind # "modify" => Says(s, c)
        /\ n < 3 => c.kind \in {"modify", "create", "delete"}
        /\ \E m \in 1 .. n : Named(s[m])
    BY LeadIs
  <2>a. c.kind = "modify" => \A m \in 1 .. n : s[m].is \notin {"deleted", "payload", "binary"}
    <3> SUFFICES ASSUME c.kind = "modify", NEW m \in 1 .. n
                 PROVE  s[m].is \notin {"deleted", "payload", "binary"}
      OBVIOUS
    <3>1. s = <<Header("diff", c.path)>>
      BY DEF Lead
    <3>2. n = 1 /\ s[1] = Header("diff", c.path)
      BY <3>1, TuplesAre
    <3> HIDE DEF s, n
    <3> QED
      BY <3>2 DEF Header, Line
  <2> HIDE DEF s
  <2> DEFINE new == IF c.kind = "delete" THEN DevNull ELSE c.path
  <2>3. /\ IsSeq(h) /\ Len(h) = n + 3
        /\ \A i \in 1 .. n : h[i] = s[i]
        /\ h[n + 1] = Header("index", None) /\ h[n + 2] = OldPath(old) /\ h[n + 3] = NewPath(new)
    <3> DEFINE x == Header("index", None)
               y == OldPath(old)
               z == NewPath(new)
    <3>1. h = s \o <<x, y, z>>
      BY <2>1 DEF Three
    <3>2. IsSeq(s)
      BY <2>2
    <3> HIDE DEF x, y, z, h
    <3>3. ThreeBehind(s, x, y, z, h)
      BY <3>1, <3>2, ThreeMore
    <3> QED
      BY <3>3 DEF x, y, z, ThreeBehind
  <2> HIDE DEF h
  <2>4. /\ h[n + 1].is = "index" /\ h[n + 1].op = "none"
        /\ h[n + 2].is = "oldPath" /\ h[n + 2].op = "removed"
        /\ h[n + 3].is = "newPath" /\ h[n + 3].op = "added" /\ h[n + 3].value = new
    BY <2>3 DEF Header, OldPath, NewPath, Line
  <2>5. \A m \in 1 .. Len(h) : (m \in 1 .. n /\ h[m] = s[m]) \/ m \in {n + 1, n + 2, n + 3}
    BY <2>2, <2>3
  <2>6. \A m \in 1 .. n : m \in 1 .. Len(h)
    BY <2>2, <2>3
  <2> HIDE DEF n, new
  <2>7. Opens(h, c)
    <3>1. 1 \in 1 .. n /\ Len(h) \in Nat \ {0}
      BY <2>2, <2>3
    <3>2. \E m \in 1 .. Len(h) : Named(h[m])
      BY <2>2, <2>3, <2>6
    <3> QED
      BY <2>2, <2>3, <3>1, <3>2 DEF Opens
  <2>8. Follows(h, c)
    <3>1. c.kind # "payload" /\ \A m \in 2 .. n : Expected(s, c, m)
      BY <1>2, <2>2 DEF Follows, n
    <3>2. new \in {c.path, DevNull}
      BY DEF new
    <3>3. ASSUME NEW m \in 2 .. Len(h) PROVE Expected(h, c, m)
      <4>1. m \in 1 .. Len(h) /\ m - 1 \in Nat /\ n \in Nat
        BY <2>2
      <4>2. CASE m \in 1 .. n
        <5>1. m \in 2 .. n /\ m - 1 \in 1 .. n
          BY <4>1, <4>2
        <5>2. h[m] = s[m] /\ h[m - 1] = s[m - 1] /\ Expected(s, c, m)
          BY <2>3, <3>1, <4>2, <5>1
        <5> QED
          BY <5>2 DEF Expected
      <4>3. CASE m \in {n + 1, n + 2}
        BY <2>4, <4>3 DEF Expected
      <4>4. CASE m = n + 3
        <5>1. m - 1 = n + 2 /\ m > 2
          BY <2>2, <4>4
        <5> QED
          BY <2>4, <3>2, <4>4, <5>1 DEF Expected
      <4> QED
        BY <2>5, <4>1, <4>2, <4>3, <4>4
    <3> QED
      BY <3>1, <3>3 DEF Follows
  <2>9. Says(h, c)
    <3>0. n + 3 \in 1 .. Len(h) /\ n + 1 \in 1 .. Len(h)
      BY <2>2, <2>3
    <3>1. (\E m \in 1 .. Len(h) : Deletes(h[m])) <=> c.kind = "delete"
      <4>1. CASE c.kind = "delete"
        BY <2>4, <3>0, <4>1 DEF Deletes, new
      <4>2. CASE c.kind # "delete"
        <5>1. \A m \in 1 .. n : ~Deletes(s[m])
          BY <2>2, <2>a, <4>2 DEF Says, Deletes, n
        <5>2. new # DevNull
          BY <1>0, <4>2 DEF new
        <5> QED
          BY <2>4, <2>5, <4>2, <5>1, <5>2 DEF Deletes
      <4> QED
        BY <4>1, <4>2
    <3>2. \A m \in 1 .. n : ~Binary(s[m]) /\ s[m].is # "payload"
      BY <1>2, <2>2, <2>a DEF Says, Binary, n
    <3>3. \A m \in 1 .. Len(h) : ~Binary(h[m]) /\ h[m].is # "payload"
      BY <2>4, <2>5, <3>2 DEF Binary
    <3> QED
      BY <1>2, <3>1, <3>3 DEF Says
  <2>10. \A m \in 1 .. Len(h) : h[m].op # "marker"
    BY <2>2, <2>4, <2>5
  <2> QED
    BY <2>7, <2>8, <2>9, <2>10 DEF h
<1> QED
  BY <1>1, <1>2, HeadersSplit

\* The lines of a hunk are its header and its body.
LEMMA HunkLinesAre ==
  ASSUME NEW h, IsHunk(h)
  PROVE  LET lines == HunkLines(h) IN
         /\ IsSeq(h.body) /\ Len(h.body) \in Nat
         /\ IsSeq(lines) /\ Len(lines) = Len(h.body) + 1
         /\ lines[1].is = "hunk" /\ lines[1].op = "none" /\ lines[1].at = h.at
         /\ lines[1].old = CountOf(h.body, {"removed", "context"})
         /\ lines[1].new = CountOf(h.body, {"added", "context"})
         /\ \A b \in 1 .. Len(h.body) : lines[b + 1] = h.body[b]
<1> DEFINE first == [Header("hunk", None) EXCEPT !.at = h.at,
                       !.old = CountOf(h.body, {"removed", "context"}),
                       !.new = CountOf(h.body, {"added", "context"})]
           head == <<first>>
<1>1. IsSeq(h.body)
  BY DEF IsHunk, IsSeq
<1>2. /\ first.is = "hunk" /\ first.op = "none" /\ first.at = h.at
      /\ first.old = CountOf(h.body, {"removed", "context"})
      /\ first.new = CountOf(h.body, {"added", "context"})
  BY DEF Header, Line
<1>3. HunkLines(h) = head \o h.body
  BY DEF HunkLines
<1> HIDE DEF first
<1>4. IsSeq(head) /\ Len(head) = 1 /\ head[1] = first
  BY TuplesAre
<1> DEFINE lines == head \o h.body
<1> HIDE DEF head
<1>5. Joined(head, h.body, lines)
  <2> DEFINE body == h.body
  <2>1. IsSeq(body)
    BY <1>1
  <2> HIDE DEF body
  <2>2. Joined(head, body, head \o body)
    BY <1>4, <2>1, JoinFacts
  <2> QED
    BY <2>2 DEF body
<1> HIDE DEF lines
<1>6. /\ IsSeq(lines) /\ Len(lines) = Len(head) + Len(h.body)
      /\ \A i \in 1 .. Len(head) : lines[i] = head[i]
      /\ \A i \in Len(head) + 1 .. Len(lines) : lines[i] = h.body[i - Len(head)]
  BY <1>5, Zenon DEF Joined
<1>9. Len(h.body) \in Nat
  BY <1>1, SeqFacts
<1>10. lines[1] = first
  BY <1>4, <1>6
<1>11. Len(lines) = Len(h.body) + 1 /\ \A b \in 1 .. Len(h.body) : lines[b + 1] = h.body[b]
  BY <1>4, <1>6, <1>9
<1> QED
  BY <1>1, <1>2, <1>3, <1>6, <1>9, <1>10, <1>11 DEF lines

-----------------------------------------------------------------------------
(* Where the lines are.                                                    *)

\* s stands in u behind p elements.
Stands(s, p, u) ==
  /\ p \in Nat /\ Len(s) \in Nat /\ Len(u) \in Nat /\ p + Len(s) <= Len(u)
  /\ \A m \in 1 .. Len(s) : u[p + m] = s[m]

LEMMA StandsIn ==
  ASSUME NEW s, NEW p, NEW t, NEW q, NEW u, Stands(s, p, t), Stands(t, q, u)
  PROVE  Stands(s, q + p, u)
<1>1. /\ p \in Nat /\ q \in Nat /\ Len(s) \in Nat /\ Len(t) \in Nat /\ Len(u) \in Nat
      /\ p + Len(s) <= Len(t) /\ q + Len(t) <= Len(u)
  BY DEF Stands
<1>2. ASSUME NEW m \in 1 .. Len(s) PROVE u[(q + p) + m] = s[m]
  <2>1. p + m \in 1 .. Len(t) /\ (q + p) + m = q + (p + m)
    BY <1>1
  <2>2. t[p + m] = s[m] /\ u[q + (p + m)] = t[p + m]
    BY <2>1 DEF Stands
  <2> QED
    BY <2>1, <2>2
<1>3. q + p \in Nat /\ (q + p) + Len(s) <= Len(u)
  BY <1>1
<1> QED
  BY <1>1, <1>2, <1>3 DEF Stands

LEMMA JoinedStand ==
  ASSUME NEW s, NEW t, NEW u, Joined(s, t, u)
  PROVE  Stands(s, 0, u) /\ Stands(t, Len(s), u)
<1>1. /\ Len(s) \in Nat /\ Len(t) \in Nat /\ Len(u) = Len(s) + Len(t)
      /\ \A i \in 1 .. Len(s) : u[i] = s[i]
      /\ \A i \in Len(s) + 1 .. Len(u) : u[i] = t[i - Len(s)]
  BY DEF Joined
<1>2. \A m \in 1 .. Len(t) :
        /\ Len(s) + m \in Len(s) + 1 .. Len(u) /\ (Len(s) + m) - Len(s) = m
  BY <1>1
<1>3. \A m \in 1 .. Len(t) : u[Len(s) + m] = t[m]
  BY <1>1, <1>2
<1>4. \A m \in 1 .. Len(s) : 0 + m = m
  BY <1>1
<1>5. Stands(s, 0, u)
  BY <1>1, <1>4 DEF Stands
<1> QED
  BY <1>1, <1>3, <1>5 DEF Stands

LEMMA PartStands ==
  ASSUME NEW n \in Nat, NEW parts, DOMAIN parts = 1 .. n, \A i \in 1 .. n : IsSeq(parts[i]),
         NEW i \in 1 .. n
  PROVE  Stands(parts[i], Len(UpTo(parts, i - 1)), Concat(parts))
<1> DEFINE old == UpTo(parts, i - 1)
           new == UpTo(parts, i)
           all == Concat(parts)
<1>1. Joined(old, parts[i], new)
  BY UpToJoins
<1>2. Stands(parts[i], Len(old), new)
  BY <1>1, JoinedStand
<1>3. Len(new) <= Len(all) /\ \A q \in 1 .. Len(new) : all[q] = new[q]
  <2>1. i \in 0 .. n
    OBVIOUS
  <2> QED
    BY <2>1, UpToBegins
<1>4. Len(all) \in Nat
  BY UpToIsSeq, SeqFacts
<1> HIDE DEF old, new, all
<1>5. Len(new) \in Nat
  BY <1>2 DEF Stands
<1>6. Stands(new, 0, all)
  <2>1. \A q \in 1 .. Len(new) : 0 + q = q
    BY <1>5
  <2> QED
    BY <1>3, <1>4, <1>5, <2>1 DEF Stands
<1>7. Stands(parts[i], 0 + Len(old), all) /\ 0 + Len(old) = Len(old)
  BY <1>2, <1>6, StandsIn DEF Stands
<1> QED
  BY <1>7 DEF old, all

\* The parts of a change and of a commit.
HunkParts(c) == [i \in DOMAIN c.hunks |-> HunkLines(c.hunks[i])]
ChangeParts(c) == [j \in DOMAIN c.changes |-> ChangeLines(c.changes[j])]
CommitParts(h) == [k \in DOMAIN h |-> CommitLines(h[k])]

IsCommit(c) ==
  /\ c.changes \in Seq(Range(c.changes))
  /\ \A j \in DOMAIN c.changes : IsChange(c.changes[j])

LEMMA ChangeLinesAre ==
  ASSUME NEW c, IsChange(c)
  PROVE  /\ Len(c.hunks) \in Nat /\ DOMAIN c.hunks = 1 .. Len(c.hunks)
         /\ DOMAIN HunkParts(c) = 1 .. Len(c.hunks)
         /\ \A i \in 1 .. Len(c.hunks) : /\ IsHunk(c.hunks[i])
                                        /\ HunkParts(c)[i] = HunkLines(c.hunks[i])
                                        /\ IsSeq(HunkParts(c)[i])
         /\ Joined(Headers(c), Concat(HunkParts(c)), ChangeLines(c))
<1>1. Len(c.hunks) \in Nat /\ DOMAIN c.hunks = 1 .. Len(c.hunks)
  BY SeqFacts DEF IsChange, IsSeq
<1>2. \A i \in 1 .. Len(c.hunks) : IsHunk(c.hunks[i])
  BY <1>1 DEF IsChange
<1>3. /\ DOMAIN HunkParts(c) = 1 .. Len(c.hunks)
      /\ \A i \in 1 .. Len(c.hunks) : HunkParts(c)[i] = HunkLines(c.hunks[i])
  BY <1>1 DEF HunkParts
<1>4. ASSUME NEW i \in 1 .. Len(c.hunks) PROVE IsSeq(HunkParts(c)[i])
  <2>1. IsSeq(HunkLines(c.hunks[i]))
    BY <1>2, HunkLinesAre
  <2> QED
    BY <1>3, <2>1
<1>5. IsSeq(Concat(HunkParts(c)))
  BY <1>1, <1>3, <1>4, UpToIsSeq
<1>6. IsSeq(Headers(c))
  BY HeadersAre DEF Opens
<1>7. Joined(Headers(c), Concat(HunkParts(c)), ChangeLines(c))
  <2> DEFINE s == Headers(c)
             t == Concat(HunkParts(c))
  <2>1. ChangeLines(c) = s \o t
    BY DEF ChangeLines, HunkParts
  <2>2. IsSeq(s) /\ IsSeq(t)
    BY <1>5, <1>6
  <2> HIDE DEF s, t
  <2>3. Joined(s, t, s \o t)
    BY <2>2, JoinFacts
  <2> QED
    BY <2>1, <2>3 DEF s, t
<1> QED
  BY <1>1, <1>2, <1>3, <1>4, <1>7

LEMMA OpeningIs ==
  ASSUME NEW c
  PROVE  /\ IsSeq(Opening(c)) /\ IsSeq(Closing(c))
         /\ c.sha = None => Len(Opening(c)) = 0 /\ Len(Closing(c)) = 0
         /\ c.sha # None =>
              /\ Len(Opening(c)) = 5
              /\ Opening(c)[1].is = "commit" /\ Opening(c)[1].value = c.sha
              /\ \A m \in 2 .. 5 : Opening(c)[m].is \in {"other", "blank"}
              /\ Len(Closing(c)) = 1 /\ Closing(c)[1] = Blank
<1>1. CASE c.sha = None
  BY <1>1, TupleIsSeq DEF Opening, Closing
<1>2. CASE c.sha # None
  <2> DEFINE h == <<Header("commit", c.sha), Header("other", None), Blank, Line("other", "context", None),
                    Blank>>
             e == <<Blank>>
  <2>1. Opening(c) = h /\ Closing(c) = e
    BY <1>2 DEF Opening, Closing
  <2>2. /\ IsSeq(h) /\ Len(h) = 5 /\ h[1] = Header("commit", c.sha) /\ h[2] = Header("other", None)
        /\ h[3] = Blank /\ h[4] = Line("other", "context", None) /\ h[5] = Blank
    BY TuplesAre
  <2>3. IsSeq(e) /\ Len(e) = 1 /\ e[1] = Blank
    BY TuplesAre
  <2> HIDE DEF h, e
  <2>4. h[1].is = "commit" /\ h[1].value = c.sha
    BY <2>2 DEF Header, Line
  <2>5. \A m \in 2 .. 5 : h[m].is \in {"other", "blank"}
    <3>1. \A m \in 2 .. 5 : m \in {2, 3, 4, 5}
      OBVIOUS
    <3> QED
      BY <2>2, <3>1 DEF Header, Line, Blank
  <2> QED
    BY <1>2, <2>1, <2>2, <2>3, <2>4, <2>5
<1> QED
  BY <1>1, <1>2

LEMMA CommitLinesAre ==
  ASSUME NEW c, IsCommit(c)
  PROVE  /\ Len(c.changes) \in Nat /\ DOMAIN c.changes = 1 .. Len(c.changes)
         /\ DOMAIN ChangeParts(c) = 1 .. Len(c.changes)
         /\ \A j \in 1 .. Len(c.changes) : /\ IsChange(c.changes[j])
                                          /\ ChangeParts(c)[j] = ChangeLines(c.changes[j])
                                          /\ IsSeq(ChangeParts(c)[j])
         /\ \E s : /\ Joined(Opening(c), Concat(ChangeParts(c)), s)
                   /\ Joined(s, Closing(c), CommitLines(c))
<1>1. Len(c.changes) \in Nat /\ DOMAIN c.changes = 1 .. Len(c.changes)
  BY SeqFacts DEF IsCommit, IsSeq
<1>2. \A j \in 1 .. Len(c.changes) : IsChange(c.changes[j])
  BY <1>1 DEF IsCommit
<1>3. /\ DOMAIN ChangeParts(c) = 1 .. Len(c.changes)
      /\ \A j \in 1 .. Len(c.changes) : ChangeParts(c)[j] = ChangeLines(c.changes[j])
  BY <1>1 DEF ChangeParts
<1>4. ASSUME NEW j \in 1 .. Len(c.changes) PROVE IsSeq(ChangeParts(c)[j])
  <2>1. IsSeq(ChangeLines(c.changes[j]))
    BY <1>2, ChangeLinesAre DEF Joined
  <2> QED
    BY <1>3, <2>1
<1> DEFINE a == Opening(c)
           b == Concat(ChangeParts(c))
           e == Closing(c)
<1>5. IsSeq(a) /\ IsSeq(b) /\ IsSeq(e)
  BY <1>1, <1>3, <1>4, UpToIsSeq, OpeningIs
<1>6. CommitLines(c) = (a \o b) \o e
  BY DEF CommitLines, ChangeParts
<1> HIDE DEF a, b, e
<1>7. Joined(a, b, a \o b)
  BY <1>5, JoinFacts
<1>8. PICK s : s = a \o b
  OBVIOUS
<1>9. IsSeq(s) /\ CommitLines(c) = s \o e
  BY <1>6, <1>7, <1>8 DEF Joined
<1>10. Joined(s, e, s \o e)
  BY <1>5, <1>9, JoinFacts
<1>11. Joined(a, b, s) /\ Joined(s, e, CommitLines(c))
  BY <1>7, <1>8, <1>9, <1>10
<1> QED
  BY <1>1, <1>2, <1>3, <1>4, <1>11 DEF a, b, e

LEMMA HistoryIs ==
  ASSUME NEW h \in Histories
  PROVE  /\ Len(h) \in Nat /\ DOMAIN h = 1 .. Len(h)
         /\ \A k \in 1 .. Len(h) : IsCommit(h[k]) /\ (h[k].sha = None => Len(h) = 1)
         /\ DOMAIN CommitParts(h) = 1 .. Len(h)
         /\ \A k \in 1 .. Len(h) : /\ CommitParts(h)[k] = CommitLines(h[k])
                                  /\ IsSeq(CommitParts(h)[k])
         /\ Written(h) = Concat(CommitParts(h)) /\ IsSeq(Written(h))
<1>0. IsHistory(h)
  BY HistoryAssumption
<1>1. Len(h) \in Nat /\ DOMAIN h = 1 .. Len(h)
  BY <1>0, SeqFacts DEF IsHistory, IsSeq
<1>2. \A k \in 1 .. Len(h) : IsCommit(h[k]) /\ (h[k].sha = None => Len(h) = 1)
  BY <1>0, <1>1 DEF IsHistory, IsCommit
<1>3. /\ DOMAIN CommitParts(h) = 1 .. Len(h)
      /\ \A k \in 1 .. Len(h) : CommitParts(h)[k] = CommitLines(h[k])
  BY <1>1 DEF CommitParts
<1>4. ASSUME NEW k \in 1 .. Len(h) PROVE IsSeq(CommitParts(h)[k])
  <2>1. IsSeq(CommitLines(h[k]))
    BY <1>2, CommitLinesAre DEF Joined
  <2> QED
    BY <1>3, <2>1
<1>5. Written(h) = Concat(CommitParts(h))
  BY DEF Written, CommitParts
<1>6. IsSeq(Concat(CommitParts(h)))
  BY <1>1, <1>3, <1>4, UpToIsSeq
<1> QED
  BY <1>1, <1>2, <1>3, <1>4, <1>5, <1>6

\* The lines before a commit, before a change of it and before a hunk of that.
CommitAt(h, k) == Len(UpTo(CommitParts(h), k - 1))
ChangeAt(h, k, j) ==
  CommitAt(h, k) + (Len(Opening(h[k])) + Len(UpTo(ChangeParts(h[k]), j - 1)))
HunkAt(h, k, j, i) ==
  ChangeAt(h, k, j)
    + (Len(Headers(h[k].changes[j])) + Len(UpTo(HunkParts(h[k].changes[j]), i - 1)))

\* How long the first parts are.
LEMMA UpToLengths ==
  ASSUME NEW n \in Nat, NEW parts, DOMAIN parts = 1 .. n, \A i \in 1 .. n : IsSeq(parts[i])
  PROVE  /\ Len(UpTo(parts, 1 - 1)) = 0 /\ Len(UpTo(parts, (n + 1) - 1)) = Len(Concat(parts))
         /\ \A i \in 1 .. n :
              /\ Len(UpTo(parts, i - 1)) \in Nat /\ Len(parts[i]) \in Nat
              /\ Len(UpTo(parts, (i + 1) - 1)) = Len(UpTo(parts, i - 1)) + Len(parts[i])
<1>1. UpTo(parts, 0) = <<>> /\ UpTo(parts, n) = Concat(parts)
  BY UpToSteps
<1>2. 1 - 1 = 0 /\ (n + 1) - 1 = n /\ \A i \in 1 .. n : (i + 1) - 1 = i
  OBVIOUS
<1>3. ASSUME NEW i \in 1 .. n
      PROVE  /\ Len(UpTo(parts, i - 1)) \in Nat /\ Len(parts[i]) \in Nat
             /\ Len(UpTo(parts, i)) = Len(UpTo(parts, i - 1)) + Len(parts[i])
  <2>1. Joined(UpTo(parts, i - 1), parts[i], UpTo(parts, i))
    BY UpToJoins
  <2> QED
    BY <2>1, Zenon DEF Joined
<1>4. Len(<<>>) = 0
  OBVIOUS
<1> QED
  BY <1>1, <1>2, <1>3, <1>4, Zenon

LEMMA CommitStands ==
  ASSUME NEW h \in Histories, NEW k \in 1 .. Len(h)
  PROVE  /\ Stands(CommitLines(h[k]), CommitAt(h, k), Written(h))
         /\ CommitAt(h, 1) = 0 /\ CommitAt(h, Len(h) + 1) = Len(Written(h))
         /\ CommitAt(h, k + 1) = CommitAt(h, k) + Len(CommitLines(h[k]))
<1>1. /\ Len(h) \in Nat
      /\ DOMAIN CommitParts(h) = 1 .. Len(h)
      /\ \A i \in 1 .. Len(h) : IsSeq(CommitParts(h)[i])
      /\ CommitParts(h)[k] = CommitLines(h[k])
      /\ Written(h) = Concat(CommitParts(h))
  BY HistoryIs
<1>2. Stands(CommitParts(h)[k], CommitAt(h, k), Concat(CommitParts(h)))
  BY <1>1, PartStands DEF CommitAt
<1>3. /\ CommitAt(h, 1) = 0 /\ CommitAt(h, Len(h) + 1) = Len(Concat(CommitParts(h)))
      /\ CommitAt(h, k + 1) = CommitAt(h, k) + Len(CommitParts(h)[k])
  BY <1>1, UpToLengths, Zenon DEF CommitAt
<1> QED
  BY <1>1, <1>2, <1>3

LEMMA ChangeStands ==
  ASSUME NEW h \in Histories, NEW k \in 1 .. Len(h)
  PROVE  LET c == h[k]
             n == Len(c.changes)
             p == Written(h) IN
         /\ n \in Nat /\ DOMAIN c.changes = 1 .. n
         /\ Stands(Opening(c), CommitAt(h, k), p)
         /\ CommitAt(h, k) \in Nat /\ ChangeAt(h, k, 1) = CommitAt(h, k) + Len(Opening(c))
         /\ \A j \in 1 .. n :
              /\ IsChange(c.changes[j])
              /\ Stands(ChangeLines(c.changes[j]), ChangeAt(h, k, j), p)
              /\ ChangeAt(h, k, j + 1) = ChangeAt(h, k, j) + Len(ChangeLines(c.changes[j]))
         /\ Stands(Closing(c), ChangeAt(h, k, n + 1), p)
         /\ CommitAt(h, k + 1) = ChangeAt(h, k, n + 1) + Len(Closing(c))
<1> DEFINE c == h[k]
           n == Len(c.changes)
           p == Written(h)
           parts == ChangeParts(c)
           q == CommitAt(h, k)
<1>1. IsCommit(c)
  BY HistoryIs
<1>2. /\ Stands(CommitLines(c), q, p) /\ CommitAt(h, k + 1) = q + Len(CommitLines(c))
  BY CommitStands
<1>3. /\ n \in Nat /\ DOMAIN c.changes = 1 .. n /\ DOMAIN parts = 1 .. n
      /\ \A j \in 1 .. n : /\ IsChange(c.changes[j])
                           /\ parts[j] = ChangeLines(c.changes[j]) /\ IsSeq(parts[j])
      /\ \E s : Joined(Opening(c), Concat(parts), s) /\ Joined(s, Closing(c), CommitLines(c))
  BY <1>1, CommitLinesAre
<1>4. PICK s : Joined(Opening(c), Concat(parts), s) /\ Joined(s, Closing(c), CommitLines(c))
  BY <1>3
<1> DEFINE m == Len(Opening(c))
           all == Concat(parts)
<1>5. /\ Stands(Opening(c), 0, s) /\ Stands(all, m, s)
      /\ Stands(s, 0, CommitLines(c)) /\ Stands(Closing(c), Len(s), CommitLines(c))
  BY <1>4, JoinedStand
<1>6. /\ q \in Nat /\ m \in Nat /\ Len(all) \in Nat /\ Len(Closing(c)) \in Nat
      /\ Len(s) = m + Len(all) /\ Len(CommitLines(c)) = Len(s) + Len(Closing(c))
  BY <1>2, <1>4, Zenon DEF Joined, Stands
<1>7. Stands(s, q, p)
  <2>1. Stands(s, q + 0, p) /\ q + 0 = q
    BY <1>2, <1>5, <1>6, StandsIn
  <2> QED
    BY <2>1
<1>8. Stands(Opening(c), q, p)
  <2>1. Stands(Opening(c), q + 0, p) /\ q + 0 = q
    BY <1>5, <1>6, <1>7, StandsIn
  <2> QED
    BY <2>1
<1>9. Stands(all, q + m, p)
  BY <1>5, <1>7, StandsIn
<1>10. Stands(Closing(c), q + Len(s), p)
  BY <1>2, <1>5, StandsIn
<1>11. /\ Len(UpTo(parts, 1 - 1)) = 0 /\ Len(UpTo(parts, (n + 1) - 1)) = Len(all)
       /\ \A j \in 1 .. n :
            /\ Len(UpTo(parts, j - 1)) \in Nat /\ Len(parts[j]) \in Nat
            /\ Len(UpTo(parts, (j + 1) - 1)) = Len(UpTo(parts, j - 1)) + Len(parts[j])
  BY <1>3, UpToLengths, Zenon
<1>12. \A j : ChangeAt(h, k, j) = q + (m + Len(UpTo(parts, j - 1)))
  BY DEF ChangeAt
<1> HIDE DEF c, n, p, parts, q, m, all
<1>13. ASSUME NEW j \in 1 .. n
       PROVE  /\ Stands(ChangeLines(c.changes[j]), ChangeAt(h, k, j), p)
              /\ ChangeAt(h, k, j + 1) = ChangeAt(h, k, j) + Len(ChangeLines(c.changes[j]))
  <2> DEFINE d == Len(UpTo(parts, j - 1))
  <2>1. Stands(parts[j], d, all)
    BY <1>3, PartStands DEF all
  <2>2. d \in Nat /\ Len(parts[j]) \in Nat /\ ChangeAt(h, k, j) = q + (m + d)
        /\ ChangeAt(h, k, j + 1) = q + (m + (d + Len(parts[j])))
    BY <1>11, <1>12
  <2> HIDE DEF d
  <2>3. Stands(parts[j], (q + m) + d, p)
    BY <1>9, <2>1, StandsIn
  <2>4. (q + m) + d = q + (m + d) /\ q + (m + (d + Len(parts[j]))) = (q + (m + d)) + Len(parts[j])
    <3>1. q \in Nat /\ m \in Nat
      BY <1>6
    <3> DEFINE x == Len(parts[j])
    <3>2. d \in Nat /\ x \in Nat
      BY <2>2
    <3> HIDE DEF x
    <3>3. (q + m) + d = q + (m + d) /\ q + (m + (d + x)) = (q + (m + d)) + x
      BY <3>1, <3>2
    <3> QED
      BY <3>3 DEF x
  <2>5. parts[j] = ChangeLines(c.changes[j])
    BY <1>3
  <2> QED
    BY <2>2, <2>3, <2>4, <2>5
<1>14. ChangeAt(h, k, 1) = q + m
  BY <1>6, <1>11, <1>12
<1>15. ChangeAt(h, k, n + 1) = q + Len(s)
  BY <1>6, <1>11, <1>12
<1>16. CommitAt(h, k + 1) = ChangeAt(h, k, n + 1) + Len(Closing(c))
  BY <1>2, <1>6, <1>15 DEF Stands
<1>17. Stands(Closing(c), ChangeAt(h, k, n + 1), p)
  BY <1>10, <1>15
<1> QED
  BY <1>3, <1>6, <1>8, <1>13, <1>14, <1>16, <1>17 DEF c, n, p, q, m

LEMMA HunkStands ==
  ASSUME NEW h \in Histories, NEW k \in 1 .. Len(h), NEW j \in 1 .. Len(h[k].changes)
  PROVE  LET c == h[k].changes[j]
             n == Len(c.hunks)
             p == Written(h) IN
         /\ n \in Nat /\ DOMAIN c.hunks = 1 .. n
         /\ Stands(Headers(c), ChangeAt(h, k, j), p)
         /\ HunkAt(h, k, j, 1) = ChangeAt(h, k, j) + Len(Headers(c))
         /\ \A i \in 1 .. n :
              /\ IsHunk(c.hunks[i])
              /\ Stands(HunkLines(c.hunks[i]), HunkAt(h, k, j, i), p)
              /\ HunkAt(h, k, j, i + 1) = HunkAt(h, k, j, i) + Len(HunkLines(c.hunks[i]))
         /\ ChangeAt(h, k, j + 1) = HunkAt(h, k, j, n + 1)
<1> DEFINE c == h[k].changes[j]
           n == Len(c.hunks)
           p == Written(h)
           parts == HunkParts(c)
           q == ChangeAt(h, k, j)
           m == Len(Headers(c))
           all == Concat(parts)
<1>1. /\ IsChange(c) /\ Stands(ChangeLines(c), q, p)
      /\ ChangeAt(h, k, j + 1) = q + Len(ChangeLines(c))
  BY ChangeStands
<1>2. /\ n \in Nat /\ DOMAIN c.hunks = 1 .. n /\ DOMAIN parts = 1 .. n
      /\ \A i \in 1 .. n : /\ IsHunk(c.hunks[i])
                           /\ parts[i] = HunkLines(c.hunks[i]) /\ IsSeq(parts[i])
      /\ Joined(Headers(c), all, ChangeLines(c))
  BY <1>1, ChangeLinesAre
<1>3. Stands(Headers(c), 0, ChangeLines(c)) /\ Stands(all, m, ChangeLines(c))
  BY <1>2, JoinedStand
<1>4. q \in Nat /\ m \in Nat /\ Len(all) \in Nat /\ Len(ChangeLines(c)) = m + Len(all)
  BY <1>1, <1>2, Zenon DEF Joined, Stands
<1>5. Stands(Headers(c), q, p)
  <2>1. Stands(Headers(c), q + 0, p) /\ q + 0 = q
    BY <1>1, <1>3, <1>4, StandsIn
  <2> QED
    BY <2>1
<1>6. Stands(all, q + m, p)
  BY <1>1, <1>3, StandsIn
<1>7. /\ Len(UpTo(parts, 1 - 1)) = 0 /\ Len(UpTo(parts, (n + 1) - 1)) = Len(all)
      /\ \A i \in 1 .. n :
           /\ Len(UpTo(parts, i - 1)) \in Nat /\ Len(parts[i]) \in Nat
           /\ Len(UpTo(parts, (i + 1) - 1)) = Len(UpTo(parts, i - 1)) + Len(parts[i])
  BY <1>2, UpToLengths, Zenon
<1>8. \A i : HunkAt(h, k, j, i) = q + (m + Len(UpTo(parts, i - 1)))
  BY DEF HunkAt
<1> HIDE DEF c, n, p, parts, q, m, all
<1>9. ASSUME NEW i \in 1 .. n
      PROVE  /\ Stands(HunkLines(c.hunks[i]), HunkAt(h, k, j, i), p)
             /\ HunkAt(h, k, j, i + 1) = HunkAt(h, k, j, i) + Len(HunkLines(c.hunks[i]))
  <2> DEFINE d == Len(UpTo(parts, i - 1))
  <2>1. Stands(parts[i], d, all)
    BY <1>2, PartStands DEF all
  <2>2. d \in Nat /\ Len(parts[i]) \in Nat /\ HunkAt(h, k, j, i) = q + (m + d)
        /\ HunkAt(h, k, j, i + 1) = q + (m + (d + Len(parts[i])))
    BY <1>7, <1>8
  <2> HIDE DEF d
  <2>3. Stands(parts[i], (q + m) + d, p)
    BY <1>6, <2>1, StandsIn
  <2>4. (q + m) + d = q + (m + d) /\ q + (m + (d + Len(parts[i]))) = (q + (m + d)) + Len(parts[i])
    <3>1. q \in Nat /\ m \in Nat
      BY <1>4
    <3> DEFINE x == Len(parts[i])
    <3>2. d \in Nat /\ x \in Nat
      BY <2>2
    <3> HIDE DEF x
    <3>3. (q + m) + d = q + (m + d) /\ q + (m + (d + x)) = (q + (m + d)) + x
      BY <3>1, <3>2
    <3> QED
      BY <3>3 DEF x
  <2>5. parts[i] = HunkLines(c.hunks[i])
    BY <1>2
  <2> QED
    BY <2>2, <2>3, <2>4, <2>5
<1>10. HunkAt(h, k, j, 1) = q + m
  BY <1>4, <1>7, <1>8
<1>11. ChangeAt(h, k, j + 1) = HunkAt(h, k, j, n + 1)
  BY <1>1, <1>4, <1>7, <1>8
<1> QED
  BY <1>2, <1>5, <1>9, <1>10, <1>11 DEF c, n, p, q, m

\* j changes of a commit stand before a line, perhaps also what closes it.
Behind(h, k, j, line) ==
  \/ line = ChangeAt(h, k, j + 1) + 1
  \/ j = Len(h[k].changes) /\ line = CommitAt(h, k + 1) + 1

\* What stands in a line behind the first changes of a commit: the next change, what closes
\* the commit, the next commit or nothing.
ChangeComes(h, k, j, line) ==
  /\ j + 1 \in 1 .. Len(h[k].changes) /\ line = ChangeAt(h, k, j + 1) + 1
  /\ line \in 1 .. Len(Written(h)) /\ Written(h)[line].is = "diff"
  /\ Written(h)[line].op # "marker"
Closes(h, k, j, line) ==
  /\ j = Len(h[k].changes) /\ h[k].sha # None
  /\ line \in 1 .. Len(Written(h)) /\ Written(h)[line] = Blank
  /\ line + 1 = CommitAt(h, k + 1) + 1
CommitComes(h, k, j, line) ==
  /\ j = Len(h[k].changes) /\ k + 1 \in 1 .. Len(h) /\ h[k + 1].sha # None
  /\ line = CommitAt(h, k + 1) + 1
  /\ line \in 1 .. Len(Written(h)) /\ Written(h)[line].is = "commit"
  /\ Written(h)[line].op # "marker"
AllRead(h, k, j, line) ==
  j = Len(h[k].changes) /\ k = Len(h) /\ line = Len(Written(h)) + 1

LEMMA NextRecord ==
  ASSUME NEW h \in Histories, NEW k \in 1 .. Len(h), NEW j \in 0 .. Len(h[k].changes),
         NEW line, Behind(h, k, j, line)
  PROVE  \/ ChangeComes(h, k, j, line) \/ Closes(h, k, j, line)
         \/ CommitComes(h, k, j, line) \/ AllRead(h, k, j, line)
<1> USE DEF ChangeComes, Closes, CommitComes, AllRead
<1> DEFINE p == Written(h)
           c == h[k]
           n == Len(c.changes)
<1>0. Len(h) \in Nat /\ n \in Nat
  BY HistoryIs, ChangeStands
<1>1. CASE j < n
  <2>1. j + 1 \in 1 .. n
    BY <1>0, <1>1
  <2> DEFINE d == c.changes[j + 1]
             q == ChangeAt(h, k, j + 1)
  <2>2. Stands(Headers(d), q, p)
    BY <2>1, HunkStands
  <2>3. IsChange(d)
    BY <2>1, ChangeStands
  <2>4. /\ Len(Headers(d)) \in Nat \ {0} /\ Headers(d)[1].is = "diff"
        /\ \A m \in 1 .. Len(Headers(d)) : Headers(d)[m].op # "marker"
    BY <2>3, HeadersAre DEF Opens
  <2>5. line = q + 1
    BY <1>0, <1>1 DEF Behind
  <2> HIDE DEF q, d, p
  <2>6. 1 \in 1 .. Len(Headers(d)) /\ q + 1 \in 1 .. Len(p) /\ p[q + 1] = Headers(d)[1]
    BY <2>2, <2>4 DEF Stands
  <2>7. p[line].is = "diff" /\ p[line].op # "marker" /\ line \in 1 .. Len(p)
    BY <2>4, <2>5, <2>6
  <2> QED
    BY <2>1, <2>5, <2>7 DEF q, p
<1>2. CASE j = n
  <2>1. /\ Stands(Closing(c), ChangeAt(h, k, n + 1), p)
        /\ CommitAt(h, k + 1) = ChangeAt(h, k, n + 1) + Len(Closing(c))
    BY ChangeStands
  <2>2. CASE line = CommitAt(h, k + 1) + 1
    <3>1. CASE k = Len(h)
      <4>1. CommitAt(h, Len(h) + 1) = Len(p)
        BY CommitStands
      <4> QED
        BY <1>2, <2>2, <3>1, <4>1
    <3>2. CASE k # Len(h)
      <4>1. k + 1 \in 1 .. Len(h) /\ Len(h) # 1
        <5>1. \A a \in Nat : \A b \in 1 .. a : b # a => b + 1 \in 1 .. a /\ a # 1
          OBVIOUS
        <5> QED
          BY <1>0, <3>2, <5>1, Zenon
      <4>2. h[k + 1].sha # None
        <5> DEFINE l == k + 1
        <5>1. l \in 1 .. Len(h)
          BY <4>1
        <5>2. h[l].sha = None => Len(h) = 1
          <6> HIDE DEF l
          <6> QED
            BY <5>1, HistoryIs
        <5> QED
          BY <4>1, <5>2
      <4> DEFINE o == Opening(h[k + 1])
                 q == CommitAt(h, k + 1)
      <4>3. Stands(o, q, p)
        BY <4>1, ChangeStands
      <4>4. Len(o) = 5 /\ o[1].is = "commit" /\ o[1].op # "marker"
        <5>1. Len(o) = 5 /\ o[1].is = "commit"
          BY <4>2, OpeningIs
        <5>2. o[1] = Header("commit", h[k + 1].sha)
          <6> DEFINE a == Header("commit", h[k + 1].sha)
                     b == Header("other", None)
                     d == Line("other", "context", None)
          <6>1. o = <<a, b, Blank, d, Blank>>
            BY <4>2 DEF Opening
          <6> HIDE DEF a, b, d, o
          <6>2. o[1] = a
            BY <6>1
          <6> QED
            BY <6>2 DEF a
        <5> HIDE DEF o
        <5> QED
          BY <5>1, <5>2 DEF Header, Line
      <4> HIDE DEF o, q, p
      <4>5. q + 1 \in 1 .. Len(p) /\ p[q + 1] = o[1]
        BY <4>3, <4>4 DEF Stands
      <4>6. p[line].is = "commit" /\ p[line].op # "marker" /\ line \in 1 .. Len(p)
        BY <2>2, <4>4, <4>5 DEF q
      <4> QED
        BY <1>2, <2>2, <4>1, <4>2, <4>6 DEF p
    <3> QED
      BY <3>1, <3>2
  <2>3. CASE line = ChangeAt(h, k, j + 1) + 1 /\ line # CommitAt(h, k + 1) + 1
    <3> DEFINE q == ChangeAt(h, k, n + 1)
               e == Closing(c)
    <3>1. q \in Nat /\ Len(e) \in Nat
      BY <2>1 DEF Stands
    <3>2. c.sha # None
      <4> SUFFICES ASSUME c.sha = None PROVE FALSE
        OBVIOUS
      <4>1. Len(e) = 0
        BY OpeningIs
      <4> QED
        BY <1>2, <2>1, <2>3, <3>1, <4>1
    <3>3. Len(e) = 1 /\ e[1] = Blank
      BY <3>2, OpeningIs
    <3>a. line = q + 1 /\ CommitAt(h, k + 1) = q + Len(e) /\ Stands(e, q, p)
      BY <1>2, <2>1, <2>3
    <3> HIDE DEF q, e, p
    <3>4. q + 1 \in 1 .. Len(p) /\ p[q + 1] = Blank
      BY <3>3, <3>a DEF Stands
    <3>5. line + 1 = CommitAt(h, k + 1) + 1
      BY <3>1, <3>3, <3>a
    <3> QED
      BY <1>2, <3>2, <3>4, <3>5, <3>a DEF p
  <2> QED
    BY <1>2, <2>2, <2>3 DEF Behind
<1> QED
  BY <1>0, <1>1, <1>2

-----------------------------------------------------------------------------
(* Where the parser is in what Git wrote, and what it has of it.           *)

\* The events of a history, of a commit and of what comes before a change.
CommitEvents(c) == [j \in DOMAIN c.changes |-> EventsOfChange(c.sha, c.changes[j])]
HistoryEvents(h) == [k \in DOMAIN h |-> Concat(CommitEvents(h[k]))]
EventsBefore(h, k, j) == UpTo(HistoryEvents(h), k - 1) \o UpTo(CommitEvents(h[k]), j - 1)

\* The events of the files that the parser has found in lines p.
Shown(p, added) ==
  [i \in DOMAIN added |-> [value |-> p[added[i].line].value, newline |-> added[i].newline]]
EventsOfFile(p, f) ==
  LET event(is, at, added) ==
        [commit |-> f.commit, path |-> f.path, is |-> is, at |-> at, added |-> added]
  IN  IF f.deleted \/ (f.binary /\ f.path \notin Archives) THEN <<>>
      ELSE IF f.binary THEN <<event("blob", 0, <<>>)>>
      ELSE [i \in DOMAIN f.hunks |->
              event("fragment", f.hunks[i].at, Shown(p, f.hunks[i].added))]
FileEvents(p, fs) == [n \in DOMAIN fs |-> EventsOfFile(p, fs[n])]
Gathered(p, fs) == Concat(FileEvents(p, fs))

\* What the first n headers of a change make of a file.
FileIs(c, n, f) ==
  /\ f.path = IF \E m \in 1 .. n : Named(Headers(c)[m]) THEN c.path ELSE None
  /\ f.deleted <=> \E m \in 1 .. n : Deletes(Headers(c)[m])
  /\ f.binary <=> \E m \in 1 .. n : Binary(Headers(c)[m])
  /\ f.payload <=> \E m \in 1 .. n : Headers(c)[m].is = "payload"
  /\ c.kind # "payload" => \A m \in 2 .. n : Headers(c)[m].is \in f.saw

\* The first i hunks of a change are stored.
HunksAre(p, c, i, f) ==
  /\ Len(f.hunks) = i
  /\ \A m \in 1 .. i : /\ f.hunks[m].at = c.hunks[m].at
                       /\ Shown(p, f.hunks[m].added) = AddedBy(c.hunks[m].body)

\* The first b lines of a hunk are in hand; a marker that follows is about the last of them.
BodyIs(p, body, b, u) ==
  /\ Shown(p, u.added) = AddedBy(SubSeq(body, 1, b))
  /\ b > 0 /\ body[b].op = "added" => u.previous
  /\ u.previous => \/ b > 0 /\ body[b].op = "added"
                   \/ u.added # <<>> /\ ~u.added[Len(u.added)].newline

\* The parser is at a commit, at a change of it, behind n lines of the header of one, or at
\* the end; sha is the commit in hand, and fs are the files that are stored.
AtCommit(h, k, line, fs) ==
  /\ h[k].sha # None /\ line = CommitAt(h, k) + 1
  /\ Gathered(Written(h), fs) = EventsBefore(h, k, 1)
AtChange(h, k, j, line, sha, fs) ==
  /\ sha = h[k].sha /\ line = ChangeAt(h, k, j) + 1
  /\ Gathered(Written(h), fs) = EventsBefore(h, k, j)
AtEnd(h, line, fs) ==
  line = Len(Written(h)) + 1 /\ Gathered(Written(h), fs) = Meaning(h)
PatchPlace(h, line, sha, fs) ==
  \/ AtEnd(h, line, fs)
  \/ \E k \in 1 .. Len(h) : AtCommit(h, k, line, fs)
  \/ \E k \in 1 .. Len(h) : \E j \in 1 .. Len(h[k].changes) : AtChange(h, k, j, line, sha, fs)

InHeader(h, k, line, sha, fs) ==
  /\ h[k].sha # None /\ sha = h[k].sha
  /\ Gathered(Written(h), fs) = EventsBefore(h, k, 1)
  /\ (\E n \in 1 .. 4 : line = CommitAt(h, k) + (n + 1)) \/ Behind(h, k, 0, line)
HeaderPlace(h, line, sha, fs) == \E k \in 1 .. Len(h) : InHeader(h, k, line, sha, fs)

\* It is in the record of a change: behind some of its headers, at a hunk, or behind the last.
InChange(h, k, j, sha, f, fs) ==
  /\ sha = h[k].sha /\ f.commit = h[k].sha
  /\ Gathered(Written(h), fs) = EventsBefore(h, k, j)
InHeaders(h, k, j, line, f) ==
  \E n \in 1 .. Len(Headers(h[k].changes[j])) - 1 :
    /\ line = ChangeAt(h, k, j) + (n + 1)
    /\ FileIs(h[k].changes[j], n, f) /\ f.hunks = <<>>
HasHunks(h, k, j, i, f) ==
  /\ FileIs(h[k].changes[j], Len(Headers(h[k].changes[j])), f)
  /\ HunksAre(Written(h), h[k].changes[j], i, f)
AtHunk(h, k, j, line, f) ==
  \E i \in 1 .. Len(h[k].changes[j].hunks) :
    line = HunkAt(h, k, j, i) + 1 /\ HasHunks(h, k, j, i - 1, f)
AtLast(h, k, j, line, f) ==
  Behind(h, k, j, line) /\ HasHunks(h, k, j, Len(h[k].changes[j].hunks), f)
InFile(h, k, j, line, f) ==
  InHeaders(h, k, j, line, f) \/ AtHunk(h, k, j, line, f) \/ AtLast(h, k, j, line, f)
FilePlace(h, line, sha, f, fs) ==
  \E k \in 1 .. Len(h) : \E j \in 1 .. Len(h[k].changes) :
    InChange(h, k, j, sha, f, fs) /\ InFile(h, k, j, line, f)

\* It is in hunk i, behind b lines of its body.
InHunk(h, k, j, i, b, line, f, u) ==
  LET g == h[k].changes[j].hunks[i] IN
    /\ HasHunks(h, k, j, i - 1, f)
    /\ u.at = g.at /\ u.start = HunkAt(h, k, j, i) + 1
    /\ line = HunkAt(h, k, j, i) + (b + 2) /\ BodyIs(Written(h), g.body, b, u)
HunkPlace(h, line, sha, f, u, fs) ==
  \E k \in 1 .. Len(h) : \E j \in 1 .. Len(h[k].changes) :
    /\ InChange(h, k, j, sha, f, fs)
    /\ \E i \in 1 .. Len(h[k].changes[j].hunks) :
         \E b \in 0 .. Len(h[k].changes[j].hunks[i].body) : InHunk(h, k, j, i, b, line, f, u)

\* The events of n files are emitted, and m of the next.
Emitted(p, fs, n, m, evs) ==
  \/ /\ n \in 0 .. Len(fs) - 1 /\ m \in 0 .. Len(EventsOfFile(p, fs[n + 1]))
     /\ evs = UpTo(FileEvents(p, fs), n) \o SubSeq(EventsOfFile(p, fs[n + 1]), 1, m)
  \/ n = Len(fs) /\ m = 0 /\ evs = Gathered(p, fs)
EmitPlace(h, nx, fs, evs) ==
  /\ Gathered(Written(h), fs) = Meaning(h)
  /\ \E n, m \in Nat : /\ nx = [file |-> n + 1, hunk |-> m + 1]
                       /\ Emitted(Written(h), fs, n, m, evs)
                       /\ m > 0 => ~fs[n + 1].binary

DonePlace(h, what, evs) ==
  IsPrefix(evs, Meaning(h)) /\ (what = "Continue" => evs = Meaning(h))

-----------------------------------------------------------------------------
(* The events of what Git wrote.                                           *)

LEMMA FunctionIsSeq ==
  ASSUME NEW n \in Nat, NEW s, s = [i \in 1 .. n |-> s[i]]
  PROVE  IsSeq(s) /\ Len(s) = n
<1>1. DOMAIN s = 1 .. n
  OBVIOUS
<1>2. \A i \in 1 .. n : s[i] \in Range(s)
  BY <1>1 DEF Range
<1>3. s \in [1 .. n -> Range(s)]
  BY <1>2
<1>4. s \in Seq(Range(s))
  BY <1>3
<1> QED
  BY <1>1, <1>4 DEF IsSeq

LEMMA EmptyIsNone ==
  ASSUME NEW s, IsSeq(s), Len(s) = 0
  PROVE  s = <<>>
BY SameSeq, TupleIsSeq

LEMMA EventsOfChangeAreSeq ==
  ASSUME NEW c, IsChange(c), NEW sha
  PROVE  IsSeq(EventsOfChange(sha, c))
<1>1. Len(c.hunks) \in Nat /\ DOMAIN c.hunks = 1 .. Len(c.hunks)
  BY ChangeLinesAre
<1> DEFINE e(is, at, added) ==
             [commit |-> sha, path |-> c.path, is |-> is, at |-> at, added |-> added]
           s == [i \in DOMAIN c.hunks |-> e("fragment", c.hunks[i].at, AddedBy(c.hunks[i].body))]
<1>2. IsSeq(s)
  <2>1. s = [i \in 1 .. Len(c.hunks) |-> s[i]]
    BY <1>1
  <2> HIDE DEF s
  <2> QED
    BY <1>1, <2>1, FunctionIsSeq
<1>3. IsSeq(<<>>) /\ IsSeq(<<e("blob", 0, <<>>)>>)
  BY TupleIsSeq
<1>4. EventsOfChange(sha, c) \in {<<>>, <<e("blob", 0, <<>>)>>, s}
  BY DEF EventsOfChange
<1> HIDE DEF s, e
<1> QED
  BY <1>2, <1>3, <1>4

LEMMA CommitEventsAre ==
  ASSUME NEW h \in Histories, NEW k \in 1 .. Len(h)
  PROVE  /\ Len(h[k].changes) \in Nat
         /\ DOMAIN CommitEvents(h[k]) = 1 .. Len(h[k].changes)
         /\ \A j \in 1 .. Len(h[k].changes) :
              /\ CommitEvents(h[k])[j] = EventsOfChange(h[k].sha, h[k].changes[j])
              /\ IsSeq(CommitEvents(h[k])[j])
         /\ IsSeq(Concat(CommitEvents(h[k])))
<1> DEFINE c == h[k]
           n == Len(c.changes)
<1>1. IsCommit(c)
  BY HistoryIs
<1>2. n \in Nat /\ DOMAIN c.changes = 1 .. n /\ \A j \in 1 .. n : IsChange(c.changes[j])
  BY <1>1, CommitLinesAre
<1> HIDE DEF c
<1>3. /\ DOMAIN CommitEvents(c) = 1 .. n
      /\ \A j \in 1 .. n : CommitEvents(c)[j] = EventsOfChange(c.sha, c.changes[j])
  BY <1>2 DEF CommitEvents
<1>4. ASSUME NEW j \in 1 .. n PROVE IsSeq(CommitEvents(c)[j])
  BY <1>2, <1>3, EventsOfChangeAreSeq
<1>5. IsSeq(Concat(CommitEvents(c)))
  BY <1>2, <1>3, <1>4, UpToIsSeq
<1> QED
  BY <1>2, <1>3, <1>4, <1>5 DEF c

LEMMA HistoryEventsAre ==
  ASSUME NEW h \in Histories
  PROVE  /\ Len(h) \in Nat /\ DOMAIN HistoryEvents(h) = 1 .. Len(h)
         /\ \A k \in 1 .. Len(h) : /\ HistoryEvents(h)[k] = Concat(CommitEvents(h[k]))
                                  /\ IsSeq(HistoryEvents(h)[k])
         /\ Meaning(h) = Concat(HistoryEvents(h)) /\ IsSeq(Meaning(h))
<1>1. Len(h) \in Nat /\ DOMAIN h = 1 .. Len(h)
  BY HistoryIs
<1>2. /\ DOMAIN HistoryEvents(h) = 1 .. Len(h)
      /\ \A k \in 1 .. Len(h) : HistoryEvents(h)[k] = Concat(CommitEvents(h[k]))
  BY <1>1 DEF HistoryEvents
<1>3. ASSUME NEW k \in 1 .. Len(h) PROVE IsSeq(HistoryEvents(h)[k])
  BY <1>2, CommitEventsAre
<1>4. Meaning(h) = Concat(HistoryEvents(h))
  BY DEF Meaning, HistoryEvents, CommitEvents
<1>5. IsSeq(Concat(HistoryEvents(h)))
  BY <1>1, <1>2, <1>3, UpToIsSeq
<1> QED
  BY <1>1, <1>2, <1>3, <1>4, <1>5

\* The events before a change, before the next, and before what comes after the last.
LEMMA EventsGoOn ==
  ASSUME NEW h \in Histories, NEW k \in 1 .. Len(h), NEW j \in 1 .. Len(h[k].changes)
  PROVE  EventsBefore(h, k, j + 1) =
           EventsBefore(h, k, j) \o EventsOfChange(h[k].sha, h[k].changes[j])
<1> DEFINE parts == CommitEvents(h[k])
           n == Len(h[k].changes)
           all == HistoryEvents(h)
           e == EventsOfChange(h[k].sha, h[k].changes[j])
<1>1. /\ n \in Nat /\ DOMAIN parts = 1 .. n
      /\ parts[j] = e /\ \A i \in 1 .. n : IsSeq(parts[i])
  BY CommitEventsAre
<1>2. /\ Len(h) \in Nat /\ DOMAIN all = 1 .. Len(h)
      /\ \A i \in 1 .. Len(h) : IsSeq(all[i])
  BY HistoryEventsAre
<1>3. (j + 1) - 1 = j /\ j - 1 \in 0 .. n /\ k - 1 \in 0 .. Len(h)
  BY <1>1, <1>2
<1> HIDE DEF parts, n, all, e
<1>4. UpTo(parts, j) = UpTo(parts, j - 1) \o parts[j]
  <2>1. j \in 1 .. n
    BY DEF n
  <2> QED
    BY <1>1, <2>1, UpToSteps
<1>5. IsSeq(UpTo(parts, j - 1))
  BY <1>1, <1>3, UpToIsSeq
<1>6. IsSeq(UpTo(all, k - 1))
  BY <1>2, <1>3, UpToIsSeq
<1>7. IsSeq(e)
  <2>1. j \in 1 .. n
    BY DEF n
  <2> QED
    BY <1>1, <2>1
<1>8. (UpTo(all, k - 1) \o UpTo(parts, j - 1)) \o e
        = UpTo(all, k - 1) \o (UpTo(parts, j - 1) \o e)
  <2> DEFINE r == UpTo(all, k - 1)
             s == UpTo(parts, j - 1)
  <2>1. IsSeq(r) /\ IsSeq(s) /\ IsSeq(e)
    BY <1>5, <1>6, <1>7
  <2> HIDE DEF r, s
  <2>2. (r \o s) \o e = r \o (s \o e)
    BY <2>1, JoinsAssociate, SMTT(30)
  <2> QED
    BY <2>2 DEF r, s
<1>9. /\ EventsBefore(h, k, j + 1) = UpTo(all, k - 1) \o UpTo(parts, j)
      /\ EventsBefore(h, k, j) = UpTo(all, k - 1) \o UpTo(parts, j - 1)
  BY <1>3 DEF EventsBefore, all, parts
<1> QED
  BY <1>1, <1>4, <1>8, <1>9 DEF e

LEMMA EventsOfCommit ==
  ASSUME NEW h \in Histories, NEW k \in 1 .. Len(h)
  PROVE  /\ EventsBefore(h, k, 1) = UpTo(HistoryEvents(h), k - 1)
         /\ EventsBefore(h, k, Len(h[k].changes) + 1) = UpTo(HistoryEvents(h), k)
         /\ IsSeq(EventsBefore(h, k, 1))
<1> DEFINE parts == CommitEvents(h[k])
           n == Len(h[k].changes)
           all == HistoryEvents(h)
<1>1. n \in Nat /\ DOMAIN parts = 1 .. n
  BY CommitEventsAre
<1>2. /\ Len(h) \in Nat /\ DOMAIN all = 1 .. Len(h)
      /\ \A i \in 1 .. Len(h) : IsSeq(all[i])
      /\ all[k] = Concat(parts)
  BY HistoryEventsAre
<1>3. (n + 1) - 1 = n /\ 1 - 1 = 0 /\ k - 1 \in 0 .. Len(h)
  BY <1>1, <1>2
<1>4. /\ EventsBefore(h, k, n + 1) = UpTo(all, k - 1) \o UpTo(parts, n)
      /\ EventsBefore(h, k, 1) = UpTo(all, k - 1) \o UpTo(parts, 0)
  BY <1>3 DEF EventsBefore
<1> HIDE DEF parts, n, all
<1>5. UpTo(parts, 0) = <<>> /\ UpTo(parts, n) = Concat(parts)
  BY <1>1, UpToSteps
<1>6. UpTo(all, k) = UpTo(all, k - 1) \o all[k]
  BY <1>2, UpToSteps
<1>7. IsSeq(UpTo(all, k - 1))
  BY <1>2, <1>3, UpToIsSeq
<1>8. UpTo(all, k - 1) \o <<>> = UpTo(all, k - 1)
  BY <1>7, NothingJoined
<1> QED
  BY <1>2, <1>4, <1>5, <1>6, <1>7, <1>8 DEF n, all

LEMMA EventsOfHistory ==
  ASSUME NEW h \in Histories
  PROVE  /\ Len(h) = 0 => Meaning(h) = <<>>
         /\ Len(h) > 0 =>
              /\ EventsBefore(h, 1, 1) = <<>>
              /\ EventsBefore(h, Len(h), Len(h[Len(h)].changes) + 1) = Meaning(h)
         /\ \A k \in 1 .. Len(h) : k + 1 \in 1 .. Len(h) =>
              EventsBefore(h, k + 1, 1) = EventsBefore(h, k, Len(h[k].changes) + 1)
<1> DEFINE all == HistoryEvents(h)
           n == Len(h)
<1>1. n \in Nat /\ DOMAIN all = 1 .. n /\ Meaning(h) = Concat(all)
  BY HistoryEventsAre
<1>2. UpTo(all, 0) = <<>> /\ UpTo(all, n) = Concat(all)
  BY <1>1, UpToSteps
<1>3. ASSUME NEW k \in 1 .. n
      PROVE  /\ EventsBefore(h, k, 1) = UpTo(all, k - 1)
             /\ EventsBefore(h, k, Len(h[k].changes) + 1) = UpTo(all, k)
  BY EventsOfCommit
<1> HIDE DEF all
<1>4. n = 0 => Meaning(h) = <<>>
  BY <1>1, <1>2
<1>5. ASSUME n > 0
      PROVE  /\ EventsBefore(h, 1, 1) = <<>>
             /\ EventsBefore(h, n, Len(h[n].changes) + 1) = Meaning(h)
  <2>1. 1 \in 1 .. n /\ n \in 1 .. n /\ 1 - 1 = 0
    BY <1>1, <1>5
  <2> HIDE DEF n
  <2>2. EventsBefore(h, 1, 1) = UpTo(all, 0)
    BY <1>3, <2>1
  <2>3. EventsBefore(h, n, Len(h[n].changes) + 1) = UpTo(all, n)
    BY <1>3, <2>1
  <2> QED
    BY <1>1, <1>2, <2>2, <2>3
<1>6. ASSUME NEW k \in 1 .. n, k + 1 \in 1 .. n
      PROVE  EventsBefore(h, k + 1, 1) = EventsBefore(h, k, Len(h[k].changes) + 1)
  <2> DEFINE l == k + 1
  <2>1. l - 1 = k /\ l \in 1 .. n
    BY <1>6
  <2> HIDE DEF l
  <2>2. EventsBefore(h, l, 1) = UpTo(all, l - 1)
    BY <1>3, <2>1
  <2>3. EventsBefore(h, k, Len(h[k].changes) + 1) = UpTo(all, k)
    BY <1>3
  <2> QED
    BY <2>1, <2>2, <2>3 DEF l
<1> QED
  BY <1>4, <1>5, <1>6

\* The events of the files that the parser has stored.
LEMMA EventsOfFileAreSeq ==
  ASSUME NEW p, NEW f, IsSeq(f.hunks)
  PROVE  IsSeq(EventsOfFile(p, f))
<1>1. Len(f.hunks) \in Nat /\ DOMAIN f.hunks = 1 .. Len(f.hunks)
  BY SeqFacts
<1> DEFINE e(is, at, added) ==
             [commit |-> f.commit, path |-> f.path, is |-> is, at |-> at, added |-> added]
           s == [i \in DOMAIN f.hunks |->
                   e("fragment", f.hunks[i].at, Shown(p, f.hunks[i].added))]
<1>2. IsSeq(s)
  <2>1. s = [i \in 1 .. Len(f.hunks) |-> s[i]]
    BY <1>1
  <2> HIDE DEF s
  <2> QED
    BY <1>1, <2>1, FunctionIsSeq
<1>3. IsSeq(<<>>) /\ IsSeq(<<e("blob", 0, <<>>)>>)
  BY TupleIsSeq
<1>4. EventsOfFile(p, f) \in {<<>>, <<e("blob", 0, <<>>)>>, s}
  BY DEF EventsOfFile
<1> HIDE DEF s, e
<1> QED
  BY <1>2, <1>3, <1>4

LEMMA FileEventsAre ==
  ASSUME NEW p, NEW T, NEW fs \in Seq(T), \A n \in 1 .. Len(fs) : IsSeq(fs[n].hunks)
  PROVE  /\ Len(fs) \in Nat /\ DOMAIN FileEvents(p, fs) = 1 .. Len(fs)
         /\ \A n \in 1 .. Len(fs) : /\ FileEvents(p, fs)[n] = EventsOfFile(p, fs[n])
                                   /\ IsSeq(FileEvents(p, fs)[n])
         /\ IsSeq(Gathered(p, fs))
<1>1. Len(fs) \in Nat /\ DOMAIN fs = 1 .. Len(fs)
  OBVIOUS
<1>2. /\ DOMAIN FileEvents(p, fs) = 1 .. Len(fs)
      /\ \A n \in 1 .. Len(fs) : FileEvents(p, fs)[n] = EventsOfFile(p, fs[n])
  BY <1>1 DEF FileEvents
<1>3. ASSUME NEW n \in 1 .. Len(fs) PROVE IsSeq(FileEvents(p, fs)[n])
  BY <1>2, EventsOfFileAreSeq
<1>4. IsSeq(Concat(FileEvents(p, fs)))
  BY <1>1, <1>2, <1>3, UpToIsSeq
<1> QED
  BY <1>1, <1>2, <1>3, <1>4 DEF Gathered

LEMMA GatheredMore ==
  ASSUME NEW p, NEW T, NEW fs \in Seq(T), \A n \in 1 .. Len(fs) : IsSeq(fs[n].hunks),
         NEW f \in T, IsSeq(f.hunks)
  PROVE  Gathered(p, Append(fs, f)) = Gathered(p, fs) \o EventsOfFile(p, f)
<1> DEFINE gs == Append(fs, f)
           n == Len(fs)
<1>1. /\ n \in Nat /\ gs \in Seq(T) /\ Len(gs) = n + 1 /\ gs[n + 1] = f
      /\ \A i \in 1 .. n : gs[i] = fs[i]
  OBVIOUS
<1>2. \A i \in 1 .. n + 1 : i = n + 1 \/ i \in 1 .. n
  BY <1>1
<1> HIDE DEF gs
<1>3. \A i \in 1 .. Len(gs) : IsSeq(gs[i].hunks)
  BY <1>1, <1>2
<1> DEFINE parts == FileEvents(p, gs)
           old == FileEvents(p, fs)
<1>4. DOMAIN parts = 1 .. n + 1 /\ \A i \in 1 .. n + 1 : parts[i] = EventsOfFile(p, gs[i])
  BY <1>1, <1>3, FileEventsAre
<1>5. DOMAIN old = 1 .. n /\ \A i \in 1 .. n : old[i] = EventsOfFile(p, fs[i])
  BY FileEventsAre
<1>6. old = [i \in 1 .. n |-> EventsOfFile(p, fs[i])]
  BY <1>1 DEF FileEvents
<1> HIDE DEF parts, old
<1>7. [i \in 1 .. n |-> parts[i]] = old
  <2>1. \A i \in 1 .. n : parts[i] = EventsOfFile(p, fs[i])
    BY <1>1, <1>4
  <2> QED
    BY <1>6, <2>1
<1>8. UpTo(parts, n) = Concat(old)
  BY <1>7 DEF UpTo
<1>9. n + 1 \in Nat /\ n + 1 \in 1 .. n + 1 /\ (n + 1) - 1 = n
  BY <1>1
<1>10. UpTo(parts, n + 1) = Concat(parts)
  BY <1>4, <1>9, UpToSteps
<1>11. UpTo(parts, n + 1) = UpTo(parts, (n + 1) - 1) \o parts[n + 1]
  BY <1>4, <1>9, UpToSteps
<1>12. parts[n + 1] = EventsOfFile(p, f)
  BY <1>1, <1>4, <1>9
<1> QED
  BY <1>8, <1>9, <1>10, <1>11, <1>12 DEF Gathered, gs, parts, old

LEMMA NothingGathered ==
  ASSUME NEW p
  PROVE  Gathered(p, <<>>) = <<>>
<1>1. DOMAIN FileEvents(p, <<>>) = 1 .. 0
  BY DEF FileEvents
<1>2. UpTo(FileEvents(p, <<>>), 0) = <<>> /\ UpTo(FileEvents(p, <<>>), 0) = Concat(FileEvents(p, <<>>))
  BY <1>1, UpToSteps
<1> QED
  BY <1>2 DEF Gathered

\* A file that has all the headers and the hunks of a change says what the change says.
FlagsAre(f) == {f.deleted, f.binary, f.payload} \subseteq BOOLEAN

LEMMA SaysTheSame ==
  ASSUME NEW c, IsChange(c), NEW f, FileIs(c, Len(Headers(c)), f), FlagsAre(f)
  PROVE  /\ f.path = c.path /\ f.path # None
         /\ f.deleted <=> c.kind = "delete"
         /\ f.binary <=> c.kind \in {"binary", "payload"}
         /\ f.payload <=> c.kind = "payload"
<1>1. Opens(Headers(c), c) /\ Says(Headers(c), c)
  BY HeadersAre
<1>2. \E m \in 1 .. Len(Headers(c)) : Named(Headers(c)[m])
  BY <1>1 DEF Opens
<1>3. f.path = c.path
  BY <1>2 DEF FileIs
<1>4. c.path # None
  BY DEF IsChange
<1>5. f.deleted <=> c.kind = "delete"
  BY <1>1, Zenon DEF FileIs, Says
<1>6. f.binary <=> c.kind \in {"binary", "payload"}
  BY <1>1, Zenon DEF FileIs, Says
<1>7. f.payload <=> c.kind = "payload"
  BY <1>1, Zenon DEF FileIs, Says
<1> QED
  BY <1>3, <1>4, <1>5, <1>6, <1>7

LEMMA EventsAgree ==
  ASSUME NEW p, NEW c, IsChange(c), NEW f, FileIs(c, Len(Headers(c)), f), FlagsAre(f),
         HunksAre(p, c, Len(c.hunks), f), IsSeq(f.hunks)
  PROVE  EventsOfFile(p, f) = EventsOfChange(f.commit, c)
<1>1. /\ f.path = c.path
      /\ f.deleted <=> c.kind = "delete"
      /\ f.binary <=> c.kind \in {"binary", "payload"}
  BY SaysTheSame
<1>2. /\ DOMAIN c.hunks = 1 .. Len(c.hunks) /\ Len(c.hunks) \in Nat
      /\ DOMAIN f.hunks = 1 .. Len(f.hunks)
  BY ChangeLinesAre, SeqFacts
<1>3. Len(f.hunks) = Len(c.hunks)
  BY DEF HunksAre
<1> DEFINE e(is, at, added) ==
             [commit |-> f.commit, path |-> c.path, is |-> is, at |-> at, added |-> added]
           s == [i \in DOMAIN f.hunks |->
                   e("fragment", f.hunks[i].at, Shown(p, f.hunks[i].added))]
           t == [i \in DOMAIN c.hunks |-> e("fragment", c.hunks[i].at, AddedBy(c.hunks[i].body))]
<1>4. s = t
  <2>1. \A i \in DOMAIN c.hunks :
          f.hunks[i].at = c.hunks[i].at /\ Shown(p, f.hunks[i].added) = AddedBy(c.hunks[i].body)
    BY <1>2 DEF HunksAre
  <2>2. DOMAIN f.hunks = DOMAIN c.hunks
    BY <1>2, <1>3
  <2> QED
    BY <2>1, <2>2
<1>5. EventsOfFile(p, f) =
        IF f.deleted \/ (f.binary /\ f.path \notin Archives) THEN <<>>
        ELSE IF f.binary THEN <<e("blob", 0, <<>>)>> ELSE s
  BY <1>1 DEF EventsOfFile
<1>6. EventsOfChange(f.commit, c) =
        IF c.kind \in {"delete", "mode"} THEN <<>>
        ELSE IF c.kind \in {"binary", "payload"}
        THEN IF c.path \in Archives THEN <<e("blob", 0, <<>>)>> ELSE <<>>
        ELSE t
  BY DEF EventsOfChange
<1>7. ASSUME c.kind = "mode" PROVE t = <<>>
  <2>1. c.hunks = <<>>
    BY <1>7 DEF IsChange
  <2>2. t = [i \in 1 .. 0 |-> t[i]]
    BY <2>1
  <2> HIDE DEF t
  <2>3. IsSeq(t) /\ Len(t) = 0
    BY <2>2, FunctionIsSeq
  <2> QED
    BY <2>3, EmptyIsNone
<1> HIDE DEF s, t, e
<1> QED
  BY <1>1, <1>4, <1>5, <1>6, <1>7

-----------------------------------------------------------------------------
(* From line to line, outside of the record of a change.                   *)

IsRecord(line) == line.is \in {"diff", "commit"}

LEMMA CommitBegins ==
  ASSUME NEW h \in Histories, NEW k \in 1 .. Len(h), h[k].sha # None
  PROVE  /\ CommitAt(h, k) \in Nat /\ ChangeAt(h, k, 1) = CommitAt(h, k) + 5
         /\ CommitAt(h, k) + 1 \in 1 .. Len(Written(h))
         /\ Written(h)[CommitAt(h, k) + 1].is = "commit"
         /\ Written(h)[CommitAt(h, k) + 1].value = h[k].sha
         /\ \A m \in 2 .. 5 : /\ CommitAt(h, k) + m \in 1 .. Len(Written(h))
                              /\ Written(h)[CommitAt(h, k) + m].is \in {"other", "blank"}
<1> DEFINE p == Written(h)
           q == CommitAt(h, k)
           o == Opening(h[k])
<1>1. /\ Stands(o, q, p) /\ q \in Nat /\ ChangeAt(h, k, 1) = q + Len(o)
  BY ChangeStands
<1>2. /\ Len(o) = 5 /\ o[1].is = "commit" /\ o[1].value = h[k].sha
      /\ \A m \in 2 .. 5 : o[m].is \in {"other", "blank"}
  BY OpeningIs
<1> HIDE DEF p, q, o
<1>3. \A m \in 1 .. 5 : q + m \in 1 .. Len(p) /\ p[q + m] = o[m]
  BY <1>1, <1>2 DEF Stands
<1>4. 1 \in 1 .. 5 /\ \A m \in 2 .. 5 : m \in 1 .. 5
  OBVIOUS
<1> QED
  BY <1>1, <1>2, <1>3, <1>4 DEF p, q, o

LEMMA ChangeBegins ==
  ASSUME NEW h \in Histories, NEW k \in 1 .. Len(h), NEW j \in 1 .. Len(h[k].changes)
  PROVE  /\ IsChange(h[k].changes[j])
         /\ ChangeAt(h, k, j) \in Nat /\ Len(Headers(h[k].changes[j])) \in Nat \ {0}
         /\ \A m \in 1 .. Len(Headers(h[k].changes[j])) :
              /\ ChangeAt(h, k, j) + m \in 1 .. Len(Written(h))
              /\ Written(h)[ChangeAt(h, k, j) + m] = Headers(h[k].changes[j])[m]
         /\ Headers(h[k].changes[j])[1].is = "diff"
         /\ Headers(h[k].changes[j])[1].value \in {None, h[k].changes[j].path}
<1> DEFINE c == h[k].changes[j]
           p == Written(h)
           q == ChangeAt(h, k, j)
           s == Headers(c)
<1>1. IsChange(c)
  BY ChangeStands
<1>2. Stands(s, q, p)
  BY HunkStands
<1>3. Len(s) \in Nat \ {0} /\ s[1].is = "diff" /\ s[1].value \in {None, c.path}
  BY <1>1, HeadersAre DEF Opens
<1> HIDE DEF c, p, q, s
<1>4. q \in Nat /\ \A m \in 1 .. Len(s) : q + m \in 1 .. Len(p) /\ p[q + m] = s[m]
  BY <1>2 DEF Stands
<1> QED
  BY <1>1, <1>3, <1>4 DEF c, p, q, s

\* A line in front of which the parser looks for a record begins one.
LEMMA CommitIsHere ==
  ASSUME NEW h \in Histories, NEW line, NEW sha, NEW fs, PatchPlace(h, line, sha, fs),
         line \in 1 .. Len(Written(h))
  PROVE  /\ IsRecord(Written(h)[line])
         /\ Written(h)[line].is = "commit" =>
              HeaderPlace(h, line + 1, Written(h)[line].value, fs)
         /\ Written(h)[line].is = "diff" =>
              \E k \in 1 .. Len(h) : \E j \in 1 .. Len(h[k].changes) :
                AtChange(h, k, j, line, sha, fs)
<1> DEFINE p == Written(h)
<1>1. CASE AtEnd(h, line, fs)
  <2>1. line = Len(p) + 1 /\ Len(p) \in Nat
    BY <1>1, HistoryIs, SeqFacts DEF AtEnd
  <2> HIDE DEF p
  <2> QED
    BY <2>1 DEF p
<1>2. ASSUME NEW k \in 1 .. Len(h), AtCommit(h, k, line, fs)
      PROVE  p[line].is = "commit" /\ HeaderPlace(h, line + 1, p[line].value, fs)
  <2> DEFINE q == CommitAt(h, k)
  <2>1. h[k].sha # None /\ line = q + 1 /\ Gathered(p, fs) = EventsBefore(h, k, 1)
    BY <1>2 DEF AtCommit
  <2>2. q \in Nat /\ p[q + 1].is = "commit" /\ p[q + 1].value = h[k].sha
    BY <2>1, CommitBegins
  <2> HIDE DEF p, q
  <2>3. 1 \in 1 .. 4 /\ line + 1 = q + (1 + 1)
    BY <2>1, <2>2
  <2>4. InHeader(h, k, line + 1, h[k].sha, fs)
    BY <2>1, <2>3 DEF InHeader, p, q
  <2> QED
    BY <2>1, <2>2, <2>4 DEF HeaderPlace
<1>3. ASSUME NEW k \in 1 .. Len(h), NEW j \in 1 .. Len(h[k].changes),
             AtChange(h, k, j, line, sha, fs)
      PROVE  p[line].is = "diff"
  <2> DEFINE q == ChangeAt(h, k, j)
             s == Headers(h[k].changes[j])
  <2>1. line = q + 1
    BY <1>3 DEF AtChange
  <2>2. Len(s) \in Nat \ {0} /\ s[1].is = "diff"
    BY ChangeBegins
  <2>3. 1 \in 1 .. Len(s)
    BY <2>2
  <2>4. p[q + 1] = s[1]
    BY <2>3, ChangeBegins
  <2> HIDE DEF p, q, s
  <2> QED
    BY <2>1, <2>2, <2>4
<1>4. CASE \E k \in 1 .. Len(h) : AtCommit(h, k, line, fs)
  BY <1>2, <1>4 DEF IsRecord
<1>5. CASE \E k \in 1 .. Len(h) : \E j \in 1 .. Len(h[k].changes) : AtChange(h, k, j, line, sha, fs)
  <2>1. p[line].is = "diff"
    BY <1>3, <1>5
  <2> HIDE DEF p
  <2> QED
    BY <1>5, <2>1 DEF IsRecord, p
<1> QED
  BY <1>1, <1>4, <1>5, Zenon DEF PatchPlace

LEMMA EndIsHere ==
  ASSUME NEW h \in Histories, NEW line, NEW sha, NEW fs, PatchPlace(h, line, sha, fs),
         line \notin 1 .. Len(Written(h))
  PROVE  Gathered(Written(h), fs) = Meaning(h)
<1>1. ASSUME NEW k \in 1 .. Len(h), AtCommit(h, k, line, fs) PROVE FALSE
  BY <1>1, CommitBegins DEF AtCommit
<1>2. ASSUME NEW k \in 1 .. Len(h), NEW j \in 1 .. Len(h[k].changes),
             AtChange(h, k, j, line, sha, fs)
      PROVE  FALSE
  <2> DEFINE q == ChangeAt(h, k, j)
             s == Headers(h[k].changes[j])
  <2>1. line = q + 1
    BY <1>2 DEF AtChange
  <2>2. Len(s) \in Nat \ {0} /\ \A m \in 1 .. Len(s) : q + m \in 1 .. Len(Written(h))
    BY ChangeBegins
  <2> HIDE DEF q, s
  <2>3. 1 \in 1 .. Len(s)
    BY <2>2
  <2> QED
    BY <2>1, <2>2, <2>3
<1> QED
  BY <1>1, <1>2, Zenon DEF PatchPlace, AtEnd

\* Behind the changes of a commit that are read, the parser looks for the next record.
LEMMA RecordEnds ==
  ASSUME NEW h \in Histories, NEW k \in 1 .. Len(h), NEW j \in 0 .. Len(h[k].changes),
         NEW line, Behind(h, k, j, line), ~Closes(h, k, j, line),
         NEW fs, Gathered(Written(h), fs) = EventsBefore(h, k, j + 1)
  PROVE  PatchPlace(h, line, h[k].sha, fs)
<1>1. CASE ChangeComes(h, k, j, line)
  <2>1. j + 1 \in 1 .. Len(h[k].changes) /\ AtChange(h, k, j + 1, line, h[k].sha, fs)
    BY <1>1 DEF ChangeComes, AtChange
  <2> QED
    BY <2>1 DEF PatchPlace
<1>2. CASE CommitComes(h, k, j, line)
  <2>1. EventsBefore(h, k + 1, 1) = EventsBefore(h, k, j + 1)
    BY <1>2, EventsOfHistory DEF CommitComes
  <2>2. k + 1 \in 1 .. Len(h) /\ AtCommit(h, k + 1, line, fs)
    BY <1>2, <2>1 DEF CommitComes, AtCommit
  <2> QED
    BY <2>2 DEF PatchPlace
<1>3. CASE AllRead(h, k, j, line)
  <2>1. Len(h) > 0
    BY HistoryIs
  <2>2. EventsBefore(h, k, j + 1) = Meaning(h)
    <3>1. j = Len(h[k].changes) /\ k = Len(h)
      BY <1>3 DEF AllRead
    <3>2. EventsBefore(h, Len(h), Len(h[Len(h)].changes) + 1) = Meaning(h)
      BY <2>1, EventsOfHistory
    <3> QED
      BY <3>1, <3>2
  <2>3. AtEnd(h, line, fs)
    BY <1>3, <2>2 DEF AllRead, AtEnd
  <2> QED
    BY <2>3 DEF PatchPlace
<1> QED
  BY <1>1, <1>2, <1>3, NextRecord

\* Before the first change, nothing is behind.
LEMMA NothingRead ==
  ASSUME NEW h \in Histories
  PROVE  PatchPlace(h, 1, None, <<>>)
<1>1. Gathered(Written(h), <<>>) = <<>>
  BY NothingGathered
<1>2. Len(h) \in Nat
  BY HistoryIs
<1>3. CASE Len(h) = 0
  <2>1. /\ DOMAIN CommitParts(h) = 1 .. 0 /\ Written(h) = Concat(CommitParts(h))
    BY <1>3, HistoryIs
  <2>2. Written(h) = <<>>
    BY <2>1, UpToSteps
  <2>3. Meaning(h) = <<>>
    BY <1>3, EventsOfHistory
  <2>4. AtEnd(h, 1, <<>>)
    BY <1>1, <2>2, <2>3 DEF AtEnd
  <2> QED
    BY <2>4 DEF PatchPlace
<1>4. CASE Len(h) > 0
  <2>1. 1 \in 1 .. Len(h) /\ EventsBefore(h, 1, 1) = <<>>
    BY <1>2, <1>4, EventsOfHistory
  <2>2. CommitAt(h, 1) = 0
    BY <2>1, CommitStands
  <2>3. CASE h[1].sha # None
    <3>1. AtCommit(h, 1, 1, <<>>)
      BY <1>1, <2>1, <2>2, <2>3 DEF AtCommit
    <3> QED
      BY <2>1, <3>1 DEF PatchPlace
  <2>4. CASE h[1].sha = None
    <3> DEFINE n == Len(h[1].changes)
    <3>1. ChangeAt(h, 1, 1) = 0 + Len(Opening(h[1])) /\ n \in Nat
      BY <2>1, <2>2, ChangeStands
    <3>2. Len(Opening(h[1])) = 0
      BY <2>4, OpeningIs
    <3>3. 0 \in 0 .. n /\ 0 + 1 = 1
      BY <3>1
    <3>4. Behind(h, 1, 0, 1)
      BY <3>1, <3>2 DEF Behind
    <3>5. ~Closes(h, 1, 0, 1)
      BY <2>4 DEF Closes
    <3>6. Gathered(Written(h), <<>>) = EventsBefore(h, 1, 0 + 1)
      BY <1>1, <2>1
    <3> HIDE DEF n
    <3>7. PatchPlace(h, 1, h[1].sha, <<>>)
      BY <2>1, <3>3, <3>4, <3>5, <3>6, RecordEnds DEF n
    <3> QED
      BY <2>4, <3>7
  <2> QED
    BY <2>3, <2>4
<1> QED
  BY <1>2, <1>3, <1>4

\* The lines of a commit up to its first change.
LEMMA HeaderGoesOn ==
  ASSUME NEW h \in Histories, NEW line, NEW sha, NEW fs, HeaderPlace(h, line, sha, fs)
  PROVE  IF line \notin 1 .. Len(Written(h)) \/ IsRecord(Written(h)[line])
         THEN PatchPlace(h, line, sha, fs) ELSE HeaderPlace(h, line + 1, sha, fs)
<1> DEFINE p == Written(h)
<1>1. PICK k \in 1 .. Len(h) : InHeader(h, k, line, sha, fs)
  BY DEF HeaderPlace
<1>2. h[k].sha # None /\ sha = h[k].sha /\ Gathered(p, fs) = EventsBefore(h, k, 1)
  BY <1>1 DEF InHeader
<1> DEFINE q == CommitAt(h, k)
           n == Len(h[k].changes)
<1>3. /\ q \in Nat /\ ChangeAt(h, k, 1) = q + 5
      /\ \A m \in 2 .. 5 : q + m \in 1 .. Len(p) /\ p[q + m].is \in {"other", "blank"}
  BY <1>2, CommitBegins
<1>4. n \in Nat
  BY CommitEventsAre
<1>5. ASSUME NEW m \in 1 .. 4, line = q + (m + 1)
      PROVE  line \in 1 .. Len(p) /\ ~IsRecord(p[line]) /\ HeaderPlace(h, line + 1, sha, fs)
  <2>1. m + 1 \in 2 .. 5
    OBVIOUS
  <2>2. line \in 1 .. Len(p) /\ p[line].is \in {"other", "blank"}
    BY <1>3, <1>5, <2>1
  <2>3. \/ m + 1 \in 1 .. 4 /\ line + 1 = q + ((m + 1) + 1)
        \/ line + 1 = (q + 5) + 1
    <3>1. m + 1 \in 1 .. 4 \/ m + 1 = 5
      OBVIOUS
    <3>2. q \in Nat
      BY <1>3
    <3> HIDE DEF q
    <3> QED
      BY <1>5, <3>1, <3>2
  <2>4. line + 1 = (q + 5) + 1 => Behind(h, k, 0, line + 1)
    BY <1>3 DEF Behind
  <2> HIDE DEF p, q
  <2>5. InHeader(h, k, line + 1, sha, fs)
    BY <1>2, <2>3, <2>4 DEF InHeader, p, q
  <2> QED
    BY <2>2, <2>5 DEF IsRecord, HeaderPlace
<1>6. CASE Behind(h, k, 0, line)
  <2>1. 0 \in 0 .. n /\ 0 + 1 = 1
    BY <1>4
  <2>2. CASE Closes(h, k, 0, line)
    <3>1. /\ line \in 1 .. Len(p) /\ p[line] = Blank /\ 0 = n
          /\ line + 1 = CommitAt(h, k + 1) + 1
      BY <2>2 DEF Closes
    <3>2. ~IsRecord(p[line])
      BY <3>1 DEF IsRecord, Blank, Line
    <3>3. Behind(h, k, 0, line + 1)
      BY <3>1 DEF Behind
    <3>4. InHeader(h, k, line + 1, sha, fs)
      BY <1>2, <3>3 DEF InHeader
    <3>5. HeaderPlace(h, line + 1, sha, fs)
      BY <3>4 DEF HeaderPlace
    <3> HIDE DEF p
    <3> QED
      BY <3>1, <3>2, <3>5 DEF p
  <2>3. CASE ~Closes(h, k, 0, line)
    <3>1. PatchPlace(h, line, sha, fs)
      BY <1>2, <1>6, <2>1, <2>3, RecordEnds
    <3>2. line \notin 1 .. Len(p) \/ IsRecord(p[line])
      BY <3>1, CommitIsHere
    <3> QED
      BY <3>1, <3>2
  <2> QED
    BY <2>2, <2>3
<1>7. CASE \E m \in 1 .. 4 : line = q + (m + 1)
  <2>1. line \in 1 .. Len(p) /\ ~IsRecord(p[line]) /\ HeaderPlace(h, line + 1, sha, fs)
    BY <1>5, <1>7
  <2> HIDE DEF p
  <2> QED
    BY <2>1 DEF p
<1> QED
  BY <1>1, <1>6, <1>7, Zenon DEF InHeader

-----------------------------------------------------------------------------
(* From line to line, in the record of a change.                           *)

\* What a header makes of a file, and when it is refused.
Renames(line) == line.is \in {"newPath", "renameTo", "copyTo"} /\ ~Deletes(line)
Became(f, g, line) ==
  /\ g.hunks = f.hunks /\ g.commit = f.commit
  /\ f.payload =>
       /\ g.path = f.path /\ g.deleted = f.deleted /\ g.binary = f.binary /\ g.payload
       /\ g.saw = f.saw
  /\ ~f.payload =>
       /\ g.path = IF Renames(line) THEN line.value ELSE f.path
       /\ g.deleted <=> f.deleted \/ Deletes(line)
       /\ g.binary <=> f.binary \/ Binary(line)
       /\ g.payload <=> line.is = "payload"
       /\ f.saw \subseteq g.saw /\ line.is \in g.saw
Belongs(f, line) ==
  \/ f.payload
  \/ line.is \in {"deleted", "binary", "payload", "oldPath", "oldMode", "newFile", "newMode",
                  "renameFrom", "copyFrom", "index", "blank"}
  \/ line.is = "newPath" /\ "oldPath" \in f.saw
  \/ line.is = "renameTo" /\ "renameFrom" \in f.saw
  \/ line.is = "copyTo" /\ "copyFrom" \in f.saw

LEMMA HeaderFollows ==
  ASSUME NEW c, IsChange(c), NEW n \in 1 .. Len(Headers(c)) - 1, NEW f, FileIs(c, n, f)
  PROVE  LET line == Headers(c)[n + 1] IN
         /\ ~IsRecord(line) /\ line.is \notin {"hunk", "badHunk"}
         /\ Belongs(f, line)
         /\ f.payload =>
              ~Named(line) /\ ~Deletes(line) /\ ~Binary(line) /\ c.kind = "payload"
         /\ Renames(line) => line.value = c.path /\ Named(line)
<1> DEFINE h == Headers(c)
           line == h[n + 1]
<1>1. Opens(h, c) /\ Follows(h, c) /\ Says(h, c)
  BY HeadersAre
<1>2. /\ Len(h) \in Nat \ {0} /\ h[1].is = "diff"
      /\ n + 1 \in 2 .. Len(h) /\ n \in 1 .. Len(h) /\ n \in Nat
  BY <1>1 DEF Opens
<1>3. /\ f.payload <=> \E m \in 1 .. n : h[m].is = "payload"
      /\ c.kind # "payload" => \A m \in 2 .. n : h[m].is \in f.saw
  BY DEF FileIs
<1>4. (\E m \in 1 .. Len(h) : h[m].is = "payload") <=> c.kind = "payload"
  BY <1>1 DEF Says
<1>5. c.path \notin {None, DevNull}
  BY DEF IsChange
<1> HIDE DEF h
<1>6. CASE c.kind # "payload"
  <2>1. ~f.payload
    <3>1. \A m \in 1 .. n : m \in 1 .. Len(h)
      BY <1>2
    <3> QED
      BY <1>3, <1>4, <1>6, <3>1
  <2>2. Expected(h, c, n + 1)
    BY <1>1, <1>2, <1>6 DEF Follows
  <2>3. n + 1 > 2 => n \in 2 .. n /\ h[n].is \in f.saw
    BY <1>2, <1>3, <1>6
  <2>4. (n + 1) - 1 = n
    BY <1>2
  <2>5. ~IsRecord(line) /\ line.is \notin {"hunk", "badHunk"}
    BY <2>2 DEF Expected, IsRecord
  <2>6. Belongs(f, line)
    BY <2>2, <2>3, <2>4 DEF Expected, Belongs
  <2>7. Renames(line) => line.value = c.path /\ Named(line)
    BY <1>5, <2>2 DEF Expected, Renames, Named, Deletes
  <2> QED
    BY <2>1, <2>5, <2>6, <2>7 DEF h
<1>7. CASE c.kind = "payload"
  <2>1. /\ Len(h) > 3 /\ h[2].is = "index" /\ h[3].is = "payload"
        /\ \A m \in 4 .. Len(h) : h[m].is \in {"other", "blank"}
    BY <1>1, <1>7 DEF Follows
  <2>2. \/ n + 1 = 2 /\ n = 1
        \/ n + 1 = 3 /\ n = 2
        \/ n + 1 \in 4 .. Len(h) /\ 3 \in 1 .. n
    BY <1>2
  <2>3. CASE n + 1 = 2 /\ n = 1
    <3>1. ~f.payload
      BY <1>2, <1>3, <2>3
    <3>2. line.is = "index"
      BY <2>1, <2>3
    <3> QED
      BY <3>1, <3>2 DEF h, IsRecord, Belongs, Renames
  <2>4. CASE n + 1 = 3 /\ n = 2
    <3>1. ~f.payload
      <4>1. \A m \in 1 .. 2 : m = 1 \/ m = 2
        OBVIOUS
      <4> QED
        BY <1>2, <1>3, <2>1, <2>4, <4>1
    <3>2. line.is = "payload"
      BY <2>1, <2>4
    <3> QED
      BY <3>1, <3>2 DEF h, IsRecord, Belongs, Renames
  <2>5. CASE n + 1 \in 4 .. Len(h) /\ 3 \in 1 .. n
    <3>1. f.payload
      BY <1>3, <2>1, <2>5
    <3>2. line.is \in {"other", "blank"}
      BY <2>1, <2>5
    <3> QED
      BY <1>7, <3>1, <3>2 DEF h, IsRecord, Belongs, Renames, Named, Deletes, Binary
  <2> QED
    BY <2>2, <2>3, <2>4, <2>5
<1> QED
  BY <1>6, <1>7

LEMMA HeaderFits ==
  ASSUME NEW c, IsChange(c), NEW n \in 1 .. Len(Headers(c)) - 1, NEW f, FileIs(c, n, f),
         FlagsAre(f), NEW g, FlagsAre(g), Became(f, g, Headers(c)[n + 1])
  PROVE  FileIs(c, n + 1, g)
<1> DEFINE h == Headers(c)
           line == h[n + 1]
<1>1. /\ Belongs(f, line)
      /\ f.payload => ~Named(line) /\ ~Deletes(line) /\ ~Binary(line) /\ c.kind = "payload"
      /\ Renames(line) => line.value = c.path /\ Named(line)
      /\ ~IsRecord(line)
  BY HeaderFollows
<1>2. n \in Nat /\ \A m : m \in 1 .. n + 1 <=> m \in 1 .. n \/ m = n + 1
  <2>1. Len(h) \in Nat
    BY HeadersAre DEF Opens
  <2>2. n \in Nat
    BY <2>1
  <2> QED
    BY <2>2
<1>3. n + 1 \in 1 .. n + 1 /\ \A m \in 1 .. n : m \in 1 .. n + 1
  BY <1>2
<1>4. Named(line) <=> Renames(line) /\ line.value \notin {None, DevNull}
  BY <1>1 DEF Named, Renames, Deletes, IsRecord
<1>5. c.path \notin {None, DevNull}
  BY DEF IsChange
<1> HIDE DEF h, line
<1>6. g.path = IF \E m \in 1 .. n + 1 : Named(h[m]) THEN c.path ELSE None
  <2>1. f.path = IF \E m \in 1 .. n : Named(h[m]) THEN c.path ELSE None
    BY DEF FileIs, h
  <2>2. (\E m \in 1 .. n + 1 : Named(h[m])) <=> (\E m \in 1 .. n : Named(h[m])) \/ Named(line)
    BY <1>2, <1>3 DEF line
  <2>3. g.path = IF Named(line) THEN c.path ELSE f.path
    BY <1>1, <1>4, <1>5 DEF Became, h, line
  <2> QED
    BY <2>1, <2>2, <2>3
<1>7. g.deleted <=> \E m \in 1 .. n + 1 : Deletes(h[m])
  <2>1. f.deleted <=> \E m \in 1 .. n : Deletes(h[m])
    BY DEF FileIs, h
  <2>2. (\E m \in 1 .. n + 1 : Deletes(h[m])) <=> (\E m \in 1 .. n : Deletes(h[m])) \/ Deletes(line)
    BY <1>2, <1>3 DEF line
  <2>3. g.deleted <=> f.deleted \/ Deletes(line)
    BY <1>1 DEF Became, h, line
  <2> QED
    BY <2>1, <2>2, <2>3
<1>8. g.binary <=> \E m \in 1 .. n + 1 : Binary(h[m])
  <2>1. f.binary <=> \E m \in 1 .. n : Binary(h[m])
    BY DEF FileIs, h
  <2>2. (\E m \in 1 .. n + 1 : Binary(h[m])) <=> (\E m \in 1 .. n : Binary(h[m])) \/ Binary(line)
    BY <1>2, <1>3 DEF line
  <2>3. g.binary <=> f.binary \/ Binary(line)
    BY <1>1 DEF Became, h, line
  <2> QED
    BY <2>1, <2>2, <2>3
<1>9. g.payload <=> \E m \in 1 .. n + 1 : h[m].is = "payload"
  <2>1. f.payload <=> \E m \in 1 .. n : h[m].is = "payload"
    BY DEF FileIs, h
  <2>2. (\E m \in 1 .. n + 1 : h[m].is = "payload")
          <=> (\E m \in 1 .. n : h[m].is = "payload") \/ line.is = "payload"
    BY <1>2, <1>3 DEF line
  <2>3. g.payload <=> f.payload \/ line.is = "payload"
    BY <1>1 DEF Became, Binary, h, line
  <2> QED
    BY <2>1, <2>2, <2>3
<1>10. c.kind # "payload" => \A m \in 2 .. n + 1 : h[m].is \in g.saw
  <2> SUFFICES ASSUME c.kind # "payload", NEW m \in 2 .. n + 1 PROVE h[m].is \in g.saw
    OBVIOUS
  <2>1. ~f.payload /\ f.saw \subseteq g.saw /\ line.is \in g.saw
    BY <1>1 DEF Became, h, line
  <2>2. CASE m = n + 1
    BY <2>1, <2>2 DEF line
  <2>3. CASE m \in 2 .. n
    <3>1. h[m].is \in f.saw
      BY <2>3 DEF FileIs, h
    <3> QED
      BY <2>1, <3>1
  <2> QED
    BY <1>2, <2>2, <2>3
<1> QED
  BY <1>6, <1>7, <1>8, <1>9, <1>10 DEF FileIs, h

\* A record that begins.
LEMMA FirstHeader ==
  ASSUME NEW c, IsChange(c), NEW f, f.path = Headers(c)[1].value, f.deleted = FALSE,
         f.binary = FALSE, f.payload = FALSE
  PROVE  FileIs(c, 1, f)
<1> DEFINE h == Headers(c)
<1>1. h[1].is = "diff" /\ h[1].value \in {None, c.path}
  BY HeadersAre DEF Opens
<1>2. c.path \notin {None, DevNull}
  BY DEF IsChange
<1>3. \A m : m \in 1 .. 1 <=> m = 1
  OBVIOUS
<1>4. \A m : m \notin 2 .. 1
  OBVIOUS
<1> HIDE DEF h
<1>5. Named(h[1]) <=> h[1].value = c.path
  BY <1>1, <1>2 DEF Named
<1>6. f.path = h[1].value
  BY DEF h
<1>7. f.path = IF \E m \in 1 .. 1 : Named(h[m]) THEN c.path ELSE None
  BY <1>1, <1>2, <1>3, <1>5, <1>6
<1>8. ~Deletes(h[1]) /\ ~Binary(h[1]) /\ h[1].is # "payload"
  BY <1>1 DEF Deletes, Binary
<1> QED
  BY <1>3, <1>4, <1>7, <1>8 DEF FileIs, h

\* Behind the headers and some hunks of a change, and behind some of the headers.
LEMMA HunksRead ==
  ASSUME NEW h \in Histories, NEW k \in 1 .. Len(h), NEW j \in 1 .. Len(h[k].changes),
         NEW i \in 0 .. Len(h[k].changes[j].hunks), NEW line, line = HunkAt(h, k, j, i + 1) + 1,
         NEW f, HasHunks(h, k, j, i, f)
  PROVE  InFile(h, k, j, line, f)
<1> DEFINE n == Len(h[k].changes[j].hunks)
<1>1. n \in Nat /\ ChangeAt(h, k, j + 1) = HunkAt(h, k, j, n + 1)
  BY HunkStands
<1>2. CASE i = n
  <2>1. Behind(h, k, j, line)
    BY <1>1, <1>2 DEF Behind
  <2>2. AtLast(h, k, j, line, f)
    BY <1>2, <2>1 DEF AtLast
  <2> QED
    BY <2>2 DEF InFile
<1>3. CASE i # n
  <2>1. i + 1 \in 1 .. n /\ (i + 1) - 1 = i
    BY <1>1, <1>3
  <2>2. AtHunk(h, k, j, line, f)
    BY <2>1 DEF AtHunk
  <2> QED
    BY <2>2 DEF InFile
<1> QED
  BY <1>2, <1>3

LEMMA HeadersRead ==
  ASSUME NEW h \in Histories, NEW k \in 1 .. Len(h), NEW j \in 1 .. Len(h[k].changes),
         NEW n \in 1 .. Len(Headers(h[k].changes[j])),
         NEW line, line = ChangeAt(h, k, j) + (n + 1),
         NEW f, FileIs(h[k].changes[j], n, f), f.hunks = <<>>
  PROVE  InFile(h, k, j, line, f)
<1> DEFINE c == h[k].changes[j]
           l == Len(Headers(c))
           q == ChangeAt(h, k, j)
<1>1. l \in Nat \ {0} /\ q \in Nat
  BY ChangeBegins
<1>2. CASE n # l
  <2>1. n \in 1 .. l - 1
    BY <1>1, <1>2
  <2>2. InHeaders(h, k, j, line, f)
    BY <2>1 DEF InHeaders
  <2> QED
    BY <2>2 DEF InFile
<1>3. CASE n = l
  <2>1. HunkAt(h, k, j, 1) = q + l /\ Len(c.hunks) \in Nat
    BY HunkStands
  <2>2. HasHunks(h, k, j, 0, f)
    BY <1>3 DEF HasHunks, HunksAre
  <2>3. line = HunkAt(h, k, j, 0 + 1) + 1
    <3> HIDE DEF l, q
    <3>1. q + (l + 1) = (q + l) + 1 /\ 0 + 1 = 1
      BY <1>1
    <3> QED
      BY <1>3, <2>1, <3>1 DEF l, q
  <2>4. 0 \in 0 .. Len(c.hunks)
    BY <2>1
  <2> QED
    BY <2>2, <2>3, <2>4, HunksRead
<1> QED
  BY <1>2, <1>3

\* What stands at each place.
IsHeader(h, k, j, n, line, f) ==
  /\ line \in 1 .. Len(Written(h))
  /\ Written(h)[line] = Headers(h[k].changes[j])[n + 1]
  /\ ~IsRecord(Written(h)[line]) /\ Written(h)[line].is \notin {"hunk", "badHunk"}
  /\ Belongs(f, Written(h)[line])

LEMMA LineInHeaders ==
  ASSUME NEW h \in Histories, NEW k \in 1 .. Len(h), NEW j \in 1 .. Len(h[k].changes),
         NEW n \in 1 .. Len(Headers(h[k].changes[j])) - 1,
         NEW line, line = ChangeAt(h, k, j) + (n + 1),
         NEW f, FileIs(h[k].changes[j], n, f)
  PROVE  IsHeader(h, k, j, n, line, f)
<1> DEFINE c == h[k].changes[j]
           l == Len(Headers(c))
<1>1. /\ IsChange(c) /\ l \in Nat \ {0}
      /\ \A m \in 1 .. l : /\ ChangeAt(h, k, j) + m \in 1 .. Len(Written(h))
                           /\ Written(h)[ChangeAt(h, k, j) + m] = Headers(c)[m]
  BY ChangeBegins
<1>2. n + 1 \in 1 .. l
  BY <1>1
<1>3. line \in 1 .. Len(Written(h)) /\ Written(h)[line] = Headers(c)[n + 1]
  BY <1>1, <1>2
<1>4. /\ ~IsRecord(Headers(c)[n + 1]) /\ Headers(c)[n + 1].is \notin {"hunk", "badHunk"}
      /\ Belongs(f, Headers(c)[n + 1])
  BY <1>1, HeaderFollows
<1> QED
  BY <1>3, <1>4 DEF IsHeader

Opened(h, k, j, i, line) ==
  LET g == h[k].changes[j].hunks[i] IN
    /\ line.is = "hunk" /\ line.op = "none" /\ line.at = g.at
    /\ line.old = CountOf(g.body, {"removed", "context"})
    /\ line.new = CountOf(g.body, {"added", "context"})

LEMMA LineAtHunk ==
  ASSUME NEW h \in Histories, NEW k \in 1 .. Len(h), NEW j \in 1 .. Len(h[k].changes),
         NEW i \in 1 .. Len(h[k].changes[j].hunks), NEW line, line = HunkAt(h, k, j, i) + 1,
         NEW f, HasHunks(h, k, j, i - 1, f), FlagsAre(f)
  PROVE  line \in 1 .. Len(Written(h)) /\ Opened(h, k, j, i, Written(h)[line]) /\ ~f.payload
<1> DEFINE c == h[k].changes[j]
           g == c.hunks[i]
           q == HunkAt(h, k, j, i)
           p == Written(h)
<1>1. /\ Len(c.hunks) \in Nat /\ DOMAIN c.hunks = 1 .. Len(c.hunks)
      /\ IsHunk(g) /\ Stands(HunkLines(g), q, p)
  BY HunkStands
<1> DEFINE s == HunkLines(g)
<1>2. /\ Len(g.body) \in Nat /\ Len(s) = Len(g.body) + 1
      /\ s[1].is = "hunk" /\ s[1].op = "none" /\ s[1].at = g.at
      /\ s[1].old = CountOf(g.body, {"removed", "context"})
      /\ s[1].new = CountOf(g.body, {"added", "context"})
  BY <1>1, HunkLinesAre
<1>3. q + 1 \in 1 .. Len(p) /\ p[q + 1] = s[1]
  <2>1. Stands(s, q, p)
    BY <1>1
  <2> HIDE DEF q, p, s
  <2>2. 1 \in 1 .. Len(s)
    BY <1>2
  <2> QED
    BY <2>1, <2>2 DEF Stands
<1>4. ~f.payload
  <2>1. IsChange(c)
    BY ChangeStands
  <2>2. f.payload <=> c.kind = "payload"
    BY <2>1, SaysTheSame DEF HasHunks
  <2>3. c.hunks # <<>>
    BY <1>1
  <2> QED
    BY <2>1, <2>2, <2>3 DEF IsChange
<1> QED
  BY <1>2, <1>3, <1>4 DEF Opened

LEMMA LineAtLast ==
  ASSUME NEW h \in Histories, NEW k \in 1 .. Len(h), NEW j \in 1 .. Len(h[k].changes),
         NEW line, Behind(h, k, j, line)
  PROVE  \/ Closes(h, k, j, line)
         \/ /\ ~Closes(h, k, j, line)
            /\ line \notin 1 .. Len(Written(h)) \/ IsRecord(Written(h)[line])
<1>1. j \in 0 .. Len(h[k].changes)
  OBVIOUS
<1>2. Len(Written(h)) \in Nat
  BY HistoryIs, SeqFacts
<1>3. \/ ChangeComes(h, k, j, line) \/ Closes(h, k, j, line)
      \/ CommitComes(h, k, j, line) \/ AllRead(h, k, j, line)
  BY <1>1, NextRecord
<1>4. ChangeComes(h, k, j, line) => IsRecord(Written(h)[line])
  BY DEF ChangeComes, IsRecord
<1>5. CommitComes(h, k, j, line) => IsRecord(Written(h)[line])
  BY DEF CommitComes, IsRecord
<1>6. AllRead(h, k, j, line) => line \notin 1 .. Len(Written(h))
  BY <1>2 DEF AllRead
<1> QED
  BY <1>3, <1>4, <1>5, <1>6

LEMMA BlankIs == ~IsRecord(Blank) /\ Blank.is = "blank" /\ Blank.op = "context"
BY DEF IsRecord, Blank, Line

\* A line that is no record and no hunk is taken.
LEMMA FileGoesOn ==
  ASSUME NEW h \in Histories, NEW k \in 1 .. Len(h), NEW j \in 1 .. Len(h[k].changes),
         NEW line, NEW f, InFile(h, k, j, line, f), FlagsAre(f),
         line \in 1 .. Len(Written(h)), ~IsRecord(Written(h)[line]),
         f.payload \/ Written(h)[line].is \notin {"hunk", "badHunk"}
  PROVE  /\ Belongs(f, Written(h)[line])
         /\ \A g : FlagsAre(g) /\ Became(f, g, Written(h)[line]) => InFile(h, k, j, line + 1, g)
<1> DEFINE c == h[k].changes[j]
           p == Written(h)
<1>1. CASE InHeaders(h, k, j, line, f)
  <2>1. PICK n \in 1 .. Len(Headers(c)) - 1 :
          /\ line = ChangeAt(h, k, j) + (n + 1)
          /\ FileIs(c, n, f) /\ f.hunks = <<>>
    BY <1>1 DEF InHeaders
  <2>2. p[line] = Headers(c)[n + 1] /\ Belongs(f, p[line])
    <3>1. IsHeader(h, k, j, n, line, f)
      BY <2>1, LineInHeaders
    <3> QED
      BY <3>1, Zenon DEF IsHeader
  <2>3. ASSUME NEW g, FlagsAre(g), Became(f, g, p[line]) PROVE InFile(h, k, j, line + 1, g)
    <3>1. IsChange(c) /\ Len(Headers(c)) \in Nat /\ ChangeAt(h, k, j) \in Nat
      BY ChangeBegins
    <3>2. FileIs(c, n + 1, g)
      BY <2>1, <2>2, <2>3, <3>1, HeaderFits
    <3>3. g.hunks = <<>>
      BY <2>1, <2>3 DEF Became
    <3>4. n + 1 \in 1 .. Len(Headers(c)) /\ line + 1 = ChangeAt(h, k, j) + ((n + 1) + 1)
      <4> DEFINE q == ChangeAt(h, k, j)
                 l == Len(Headers(c))
      <4>1. q \in Nat /\ l \in Nat /\ line = q + (n + 1) /\ n \in 1 .. l - 1
        BY <2>1, <3>1
      <4> HIDE DEF q, l
      <4>2. n + 1 \in 1 .. l /\ line + 1 = q + ((n + 1) + 1)
        BY <4>1
      <4> QED
        BY <4>2 DEF q, l
    <3> QED
      BY <3>2, <3>3, <3>4, HeadersRead
  <2> QED
    BY <2>2, <2>3
<1>2. CASE AtHunk(h, k, j, line, f)
  <2>1. PICK i \in 1 .. Len(c.hunks) : line = HunkAt(h, k, j, i) + 1 /\ HasHunks(h, k, j, i - 1, f)
    BY <1>2 DEF AtHunk
  <2>2. Opened(h, k, j, i, p[line]) /\ ~f.payload
    BY <2>1, LineAtHunk, Zenon
  <2>3. p[line].is = "hunk"
    BY <2>2, Zenon DEF Opened
  <2> HIDE DEF p
  <2> QED
    BY <2>2, <2>3 DEF p
<1>3. CASE AtLast(h, k, j, line, f)
  <2>1. Behind(h, k, j, line) /\ HasHunks(h, k, j, Len(c.hunks), f)
    BY <1>3 DEF AtLast
  <2>2. Closes(h, k, j, line)
    BY <2>1, LineAtLast
  <2>3. p[line] = Blank /\ j = Len(h[k].changes) /\ line + 1 = CommitAt(h, k + 1) + 1
    BY <2>2 DEF Closes
  <2>4. Belongs(f, p[line])
    BY <2>3, BlankIs DEF Belongs
  <2>5. ASSUME NEW g, FlagsAre(g), Became(f, g, p[line]) PROVE InFile(h, k, j, line + 1, g)
    <3>1. /\ g.hunks = f.hunks /\ g.path = f.path /\ f.saw \subseteq g.saw
          /\ g.deleted = f.deleted /\ g.binary = f.binary /\ g.payload = f.payload
      <4>1. ~Renames(Blank) /\ ~Deletes(Blank) /\ ~Binary(Blank) /\ Blank.is # "payload"
        BY BlankIs DEF Renames, Deletes, Binary
      <4> QED
        BY <2>3, <2>5, <4>1 DEF Became, FlagsAre
    <3>2. FileIs(c, Len(Headers(c)), g)
      BY <2>1, <3>1 DEF HasHunks, FileIs
    <3>3. HunksAre(p, c, Len(c.hunks), g)
      BY <2>1, <3>1 DEF HasHunks, HunksAre
    <3>4. Behind(h, k, j, line + 1)
      BY <2>3 DEF Behind
    <3> QED
      BY <3>2, <3>3, <3>4 DEF InFile, AtLast, HasHunks
  <2> QED
    BY <2>4, <2>5
<1> QED
  BY <1>1, <1>2, <1>3 DEF InFile

\* A record ends behind its last hunk, and a hunk begins where there is one.
LEMMA FileIsComplete ==
  ASSUME NEW h \in Histories, NEW k \in 1 .. Len(h), NEW j \in 1 .. Len(h[k].changes),
         NEW line, NEW f, InFile(h, k, j, line, f), FlagsAre(f),
         line \notin 1 .. Len(Written(h)) \/ IsRecord(Written(h)[line])
  PROVE  /\ Behind(h, k, j, line) /\ ~Closes(h, k, j, line)
         /\ HasHunks(h, k, j, Len(h[k].changes[j].hunks), f)
<1>1. ~InHeaders(h, k, j, line, f)
  BY LineInHeaders DEF InHeaders, IsHeader
<1>2. ~AtHunk(h, k, j, line, f)
  BY LineAtHunk DEF AtHunk, IsRecord, Opened
<1>3. AtLast(h, k, j, line, f)
  BY <1>1, <1>2 DEF InFile
<1>4. ~Closes(h, k, j, line)
  BY BlankIs DEF Closes
<1> QED
  BY <1>3, <1>4 DEF AtLast

LEMMA HunkIsHere ==
  ASSUME NEW h \in Histories, NEW k \in 1 .. Len(h), NEW j \in 1 .. Len(h[k].changes),
         NEW line, NEW f, InFile(h, k, j, line, f), FlagsAre(f),
         line \in 1 .. Len(Written(h)), Written(h)[line].is \in {"hunk", "badHunk"}, ~f.payload
  PROVE  AtHunk(h, k, j, line, f)
<1>1. ~InHeaders(h, k, j, line, f)
  BY LineInHeaders DEF InHeaders, IsHeader
<1>2. ~AtLast(h, k, j, line, f)
  <2> SUFFICES ASSUME AtLast(h, k, j, line, f) PROVE FALSE
    OBVIOUS
  <2>1. Behind(h, k, j, line)
    BY DEF AtLast
  <2>2. Closes(h, k, j, line)
    BY <2>1, LineAtLast DEF IsRecord
  <2> QED
    BY <2>2, BlankIs DEF Closes
<1> QED
  BY <1>1, <1>2 DEF InFile

-----------------------------------------------------------------------------
(* The lines that a hunk adds, one by one.                                 *)

\* What each line of a body adds.
AddedParts(body) ==
  [i \in DOMAIN body |->
     IF body[i].op = "added"
     THEN <<[value |-> body[i].value, newline |-> ~(i < Len(body) /\ body[i + 1].op = "marker")]>>
     ELSE <<>>]

LEMMA AddedPartsAre ==
  ASSUME NEW body, IsSeq(body)
  PROVE  /\ AddedBy(body) = Concat(AddedParts(body))
         /\ DOMAIN AddedParts(body) = 1 .. Len(body) /\ Len(body) \in Nat
         /\ \A i \in 1 .. Len(body) : IsSeq(AddedParts(body)[i])
<1>1. Len(body) \in Nat /\ DOMAIN body = 1 .. Len(body)
  BY SeqFacts
<1>2. AddedBy(body) = Concat(AddedParts(body))
  BY DEF AddedBy, AddedParts
<1>3. DOMAIN AddedParts(body) = 1 .. Len(body)
  BY <1>1 DEF AddedParts
<1>4. ASSUME NEW i \in 1 .. Len(body) PROVE IsSeq(AddedParts(body)[i])
  <2> DEFINE e == [value |-> body[i].value,
                   newline |-> ~(i < Len(body) /\ body[i + 1].op = "marker")]
  <2>1. IsSeq(<<e>>) /\ IsSeq(<<>>)
    BY TupleIsSeq
  <2>2. AddedParts(body)[i] = IF body[i].op = "added" THEN <<e>> ELSE <<>>
    BY <1>1 DEF AddedParts
  <2> HIDE DEF e
  <2> QED
    BY <2>1, <2>2
<1> QED
  BY <1>1, <1>2, <1>3, <1>4

LEMMA FirstLines ==
  ASSUME NEW body, IsSeq(body), NEW b \in 0 .. Len(body)
  PROVE  /\ IsSeq(SubSeq(body, 1, b)) /\ Len(SubSeq(body, 1, b)) = b
         /\ \A i \in 1 .. b : SubSeq(body, 1, b)[i] = body[i]
<1>1. body \in Seq(Range(body)) /\ Len(body) \in Nat
  BY SeqFacts DEF IsSeq
<1> DEFINE T == Range(body)
<1>2. body \in Seq(T)
  BY <1>1
<1> HIDE DEF T
<1>3. SubSeq(body, 1, b) \in Seq(T) /\ Len(SubSeq(body, 1, b)) = b
  BY <1>1, <1>2
<1>4. \A i \in 1 .. b : SubSeq(body, 1, b)[i] = body[i]
  BY <1>1, <1>2
<1> QED
  BY <1>3, <1>4, SeqIsSeq

\* What the first lines add, and what one more does to that.
AddedOf(body, b) == AddedBy(SubSeq(body, 1, b))
NewLine(line, newline) == [value |-> line.value, newline |-> newline]

LEMMA PartsOfFirst ==
  ASSUME NEW body, IsSeq(body), NEW b \in 0 .. Len(body)
  PROVE  /\ DOMAIN AddedParts(SubSeq(body, 1, b)) = 1 .. b /\ b \in Nat
         /\ \A i \in 1 .. b :
              AddedParts(SubSeq(body, 1, b))[i] =
                IF body[i].op = "added"
                THEN <<NewLine(body[i], ~(i < b /\ body[i + 1].op = "marker"))>>
                ELSE <<>>
<1> DEFINE s == SubSeq(body, 1, b)
<1>1. IsSeq(s) /\ Len(s) = b /\ \A i \in 1 .. b : s[i] = body[i]
  BY FirstLines
<1>2. Len(body) \in Nat /\ b \in Nat
  <2>1. Len(body) \in Nat
    BY SeqFacts
  <2> QED
    BY <2>1
<1> HIDE DEF s
<1>3. DOMAIN s = 1 .. b
  BY <1>1, SeqFacts
<1>4. ASSUME NEW i \in 1 .. b
      PROVE  AddedParts(s)[i] =
               IF body[i].op = "added"
               THEN <<NewLine(body[i], ~(i < b /\ body[i + 1].op = "marker"))>>
               ELSE <<>>
  <2>1. (i < b /\ s[i + 1].op = "marker") <=> (i < b /\ body[i + 1].op = "marker")
    <3>1. i < b => i + 1 \in 1 .. b
      BY <1>2
    <3> QED
      BY <1>1, <3>1
  <2>2. s[i] = body[i]
    BY <1>1
  <2>3. AddedParts(s)[i] =
          IF s[i].op = "added"
          THEN <<NewLine(s[i], ~(i < b /\ s[i + 1].op = "marker"))>> ELSE <<>>
    BY <1>1, <1>3 DEF AddedParts, NewLine
  <2>4. CASE i < b /\ s[i + 1].op = "marker"
    <3>1. NewLine(s[i], ~(i < b /\ s[i + 1].op = "marker"))
            = NewLine(body[i], ~(i < b /\ body[i + 1].op = "marker"))
      BY <2>1, <2>2, <2>4 DEF NewLine
    <3> QED
      BY <2>2, <2>3, <3>1
  <2>5. CASE ~(i < b /\ s[i + 1].op = "marker")
    <3>1. NewLine(s[i], ~(i < b /\ s[i + 1].op = "marker"))
            = NewLine(body[i], ~(i < b /\ body[i + 1].op = "marker"))
      BY <2>1, <2>2, <2>5 DEF NewLine
    <3> QED
      BY <2>2, <2>3, <3>1
  <2> QED
    BY <2>4, <2>5
<1>5. DOMAIN AddedParts(s) = 1 .. b
  BY <1>3 DEF AddedParts
<1> QED
  BY <1>2, <1>4, <1>5 DEF s

LEMMA AddedOfFirst ==
  ASSUME NEW body, IsSeq(body), NEW b \in 0 .. Len(body)
  PROVE  /\ AddedOf(body, b) = UpTo(AddedParts(SubSeq(body, 1, b)), b)
         /\ IsSeq(AddedOf(body, b))
         /\ b = 0 => AddedOf(body, b) = <<>>
<1> DEFINE s == SubSeq(body, 1, b)
<1>1. IsSeq(s) /\ Len(s) = b
  BY FirstLines
<1> HIDE DEF s
<1>2. /\ AddedBy(s) = Concat(AddedParts(s))
      /\ DOMAIN AddedParts(s) = 1 .. b /\ b \in Nat
      /\ \A i \in 1 .. b : IsSeq(AddedParts(s)[i])
  BY <1>1, AddedPartsAre
<1>3. UpTo(AddedParts(s), 0) = <<>> /\ UpTo(AddedParts(s), b) = Concat(AddedParts(s))
  BY <1>2, UpToSteps
<1>4. IsSeq(Concat(AddedParts(s)))
  BY <1>2, UpToIsSeq
<1> QED
  BY <1>2, <1>3, <1>4 DEF AddedOf, s

\* The parts before the last line are the same, unless a marker follows an added line.
LEMMA AddedOnce ==
  ASSUME NEW body, IsSeq(body), NEW b \in 0 .. Len(body) - 1,
         ~(body[b + 1].op = "marker" /\ b > 0 /\ body[b].op = "added")
  PROVE  AddedOf(body, b + 1) =
           AddedOf(body, b) \o IF body[b + 1].op = "added" THEN <<NewLine(body[b + 1], TRUE)>>
                               ELSE <<>>
<1> DEFINE s == AddedParts(SubSeq(body, 1, b))
           t == AddedParts(SubSeq(body, 1, b + 1))
           n == b + 1
<1>1. /\ Len(body) \in Nat /\ b \in Nat /\ b \in 0 .. Len(body) /\ n \in 0 .. Len(body)
      /\ n \in Nat /\ n \in 1 .. n /\ n - 1 = b
  <2>1. Len(body) \in Nat
    BY SeqFacts
  <2> QED
    BY <2>1
<1>2. /\ DOMAIN s = 1 .. b
      /\ \A i \in 1 .. b :
           s[i] = IF body[i].op = "added"
                  THEN <<NewLine(body[i], ~(i < b /\ body[i + 1].op = "marker"))>> ELSE <<>>
  BY <1>1, PartsOfFirst
<1>3. /\ DOMAIN t = 1 .. n
      /\ \A i \in 1 .. n :
           t[i] = IF body[i].op = "added"
                  THEN <<NewLine(body[i], ~(i < n /\ body[i + 1].op = "marker"))>> ELSE <<>>
  BY <1>1, PartsOfFirst
<1>4. AddedOf(body, b) = UpTo(s, b) /\ AddedOf(body, n) = UpTo(t, n)
  BY <1>1, AddedOfFirst
<1>5. UpTo(t, n) = UpTo(t, n - 1) \o t[n]
  <2> HIDE DEF t, n
  <2> QED
    BY <1>1, <1>3, UpToSteps
<1> HIDE DEF s, t
<1>6. t[n] = IF body[n].op = "added" THEN <<NewLine(body[n], TRUE)>> ELSE <<>>
  <2>1. ~(n < n)
    BY <1>1
  <2>2. NewLine(body[n], ~(n < n /\ body[n + 1].op = "marker")) = NewLine(body[n], TRUE)
    BY <2>1 DEF NewLine
  <2> HIDE DEF n
  <2> QED
    BY <1>1, <1>3, <2>2
<1>7. [i \in 1 .. b |-> t[i]] = [i \in 1 .. b |-> s[i]]
  <2> SUFFICES ASSUME NEW i \in 1 .. b PROVE t[i] = s[i]
    OBVIOUS
  <2>1. i \in 1 .. n
    BY <1>1
  <2>2. CASE body[i].op # "added"
    BY <1>2, <1>3, <2>1, <2>2
  <2>3. CASE body[i].op = "added"
    <3>1. (i < n /\ body[i + 1].op = "marker") <=> (i < b /\ body[i + 1].op = "marker")
      <4>1. CASE i = b
        BY <1>1, <2>3, <4>1
      <4>2. CASE i # b
        BY <1>1, <4>2
      <4> QED
        BY <4>1, <4>2
    <3>2. NewLine(body[i], ~(i < n /\ body[i + 1].op = "marker"))
            = NewLine(body[i], ~(i < b /\ body[i + 1].op = "marker"))
      <4>1. CASE i < b /\ body[i + 1].op = "marker"
        BY <3>1, <4>1 DEF NewLine
      <4>2. CASE ~(i < b /\ body[i + 1].op = "marker")
        BY <3>1, <4>2 DEF NewLine
      <4> QED
        BY <4>1, <4>2
    <3> QED
      BY <1>2, <1>3, <2>1, <2>3, <3>2
  <2> QED
    BY <2>2, <2>3
<1>8. UpTo(t, b) = UpTo(s, b)
  BY <1>7 DEF UpTo
<1> QED
  BY <1>1, <1>4, <1>5, <1>6, <1>8

\* A marker takes the newline from the added line before it.
LEMMA AddedUnmarked ==
  ASSUME NEW body, IsSeq(body), NEW b \in 1 .. Len(body) - 1,
         body[b + 1].op = "marker", body[b].op = "added"
  PROVE  \E r : /\ IsSeq(r)
                /\ AddedOf(body, b) = r \o <<NewLine(body[b], TRUE)>>
                /\ AddedOf(body, b + 1) = r \o <<NewLine(body[b], FALSE)>>
<1> DEFINE s == AddedParts(SubSeq(body, 1, b))
           t == AddedParts(SubSeq(body, 1, b + 1))
           n == b + 1
           a == b - 1
<1>1. /\ Len(body) \in Nat /\ b \in Nat /\ b \in 0 .. Len(body) /\ n \in 0 .. Len(body)
      /\ n \in Nat /\ n \in 1 .. n /\ n - 1 = b /\ b \in 1 .. b /\ b \in 1 .. n /\ a \in 0 .. b
      /\ a \in Nat /\ a + 1 = b /\ b < n /\ ~(b < b)
  <2>1. Len(body) \in Nat
    BY SeqFacts
  <2> QED
    BY <2>1
<1>2. /\ DOMAIN s = 1 .. b
      /\ \A i \in 1 .. b :
           s[i] = IF body[i].op = "added"
                  THEN <<NewLine(body[i], ~(i < b /\ body[i + 1].op = "marker"))>> ELSE <<>>
  BY <1>1, PartsOfFirst
<1>3. /\ DOMAIN t = 1 .. n
      /\ \A i \in 1 .. n :
           t[i] = IF body[i].op = "added"
                  THEN <<NewLine(body[i], ~(i < n /\ body[i + 1].op = "marker"))>> ELSE <<>>
  BY <1>1, PartsOfFirst
<1>4. AddedOf(body, b) = UpTo(s, b) /\ AddedOf(body, n) = UpTo(t, n)
  BY <1>1, AddedOfFirst
<1> HIDE DEF s, t
<1>5. \A i \in 1 .. b : IsSeq(s[i])
  <2>1. \A x : IsSeq(<<x>>)
    BY TupleIsSeq
  <2>2. IsSeq(<<>>)
    BY TupleIsSeq
  <2> QED
    BY <1>2, <2>1, <2>2
<1>6. UpTo(s, b) = UpTo(s, b - 1) \o s[b]
  BY <1>1, <1>2, UpToSteps
<1>7. UpTo(t, n) = UpTo(t, n - 1) \o t[n] /\ UpTo(t, b) = UpTo(t, b - 1) \o t[b]
  <2> HIDE DEF n
  <2> QED
    BY <1>1, <1>3, UpToSteps
<1>8. s[b] = <<NewLine(body[b], TRUE)>>
  <2>1. NewLine(body[b], ~(b < b /\ body[b + 1].op = "marker")) = NewLine(body[b], TRUE)
    BY <1>1 DEF NewLine
  <2> QED
    BY <1>1, <1>2, <2>1
<1>9. t[b] = <<NewLine(body[b], FALSE)>> /\ t[n] = <<>>
  <2>1. NewLine(body[b], ~(b < n /\ body[b + 1].op = "marker")) = NewLine(body[b], FALSE)
    BY <1>1 DEF NewLine
  <2>2. t[b] = <<NewLine(body[b], FALSE)>>
    BY <1>1, <1>3, <2>1
  <2>3. t[n] = <<>>
    BY <1>1, <1>3
  <2> QED
    BY <2>2, <2>3
<1>10. [i \in 1 .. a |-> t[i]] = [i \in 1 .. a |-> s[i]]
  <2> SUFFICES ASSUME NEW i \in 1 .. a PROVE t[i] = s[i]
    OBVIOUS
  <2>1. i \in 1 .. n /\ i \in 1 .. b /\ i < b /\ i < n
    BY <1>1
  <2> QED
    BY <1>2, <1>3, <2>1
<1>11. UpTo(t, a) = UpTo(s, a)
  BY <1>10 DEF UpTo
<1> DEFINE r == UpTo(s, a)
<1>12. IsSeq(r)
  BY <1>1, <1>2, <1>5, UpToIsSeq
<1>13. IsSeq(<<NewLine(body[b], FALSE)>>)
  BY TupleIsSeq
<1>14. AddedOf(body, b) = r \o <<NewLine(body[b], TRUE)>>
  BY <1>4, <1>6, <1>8
<1>15. AddedOf(body, n) = (r \o <<NewLine(body[b], FALSE)>>) \o <<>>
  BY <1>1, <1>4, <1>7, <1>9, <1>11
<1>16. (r \o <<NewLine(body[b], FALSE)>>) \o <<>> = r \o <<NewLine(body[b], FALSE)>>
  <2> DEFINE u == <<NewLine(body[b], FALSE)>>
  <2> HIDE DEF r, u
  <2>1. IsSeq(r \o u)
    BY <1>12, <1>13, JoinFacts DEF Joined, u
  <2>2. (r \o u) \o <<>> = r \o u
    BY <2>1, NothingJoined
  <2> QED
    BY <2>2 DEF u
<1> HIDE DEF r
<1> QED
  BY <1>12, <1>14, <1>15, <1>16 DEF n

\* What a line of a hunk does to the lines that it has added; at is where it is.
Takes(u, v, line, at) ==
  CASE line.op = "added" -> /\ v.added = Append(u.added, [line |-> at, newline |-> TRUE])
                            /\ v.previous
    [] line.op \in {"removed", "context"} -> v.added = u.added /\ ~v.previous
    [] line.op = "marker" -> v.added = WithoutNewline(u).added /\ v.previous = u.previous

LEMMA ShownIs ==
  ASSUME NEW p, NEW added \in Seq(Added)
  PROVE  /\ IsSeq(Shown(p, added)) /\ Len(Shown(p, added)) = Len(added)
         /\ \A i \in 1 .. Len(added) :
              Shown(p, added)[i] = NewLine(p[added[i].line], added[i].newline)
<1> DEFINE n == Len(added)
           s == Shown(p, added)
<1>1. n \in Nat /\ DOMAIN added = 1 .. n
  OBVIOUS
<1>2. s = [i \in 1 .. n |-> NewLine(p[added[i].line], added[i].newline)]
  BY <1>1 DEF Shown, NewLine
<1> HIDE DEF s, n
<1>3. s = [i \in 1 .. n |-> s[i]] /\ \A i \in 1 .. n : s[i] = NewLine(p[added[i].line], added[i].newline)
  BY <1>2
<1>4. IsSeq(s) /\ Len(s) = n
  BY <1>1, <1>3, FunctionIsSeq
<1> QED
  BY <1>3, <1>4 DEF s, n

LEMMA ShownMore ==
  ASSUME NEW p, NEW added \in Seq(Added), NEW at \in Nat
  PROVE  Shown(p, Append(added, [line |-> at, newline |-> TRUE]))
           = Shown(p, added) \o <<NewLine(p[at], TRUE)>>
<1> DEFINE last == [line |-> at, newline |-> TRUE]
           more == Append(added, last)
           n == Len(added)
           s == Shown(p, added)
           t == Shown(p, more)
           u == <<NewLine(p[at], TRUE)>>
           w == s \o u
<1>0. last \in Added /\ last.line = at /\ last.newline = TRUE
  BY DEF Added
<1> HIDE DEF last
<1>1. /\ n \in Nat /\ more \in Seq(Added) /\ Len(more) = n + 1 /\ more[n + 1] = last
      /\ \A i \in 1 .. n : more[i] = added[i]
  BY <1>0
<1> HIDE DEF more
<1>2. IsSeq(s) /\ Len(s) = n /\ \A i \in 1 .. n : s[i] = NewLine(p[added[i].line], added[i].newline)
  BY ShownIs
<1>3. /\ IsSeq(t) /\ Len(t) = Len(more)
      /\ \A i \in 1 .. Len(more) : t[i] = NewLine(p[more[i].line], more[i].newline)
  BY <1>1, ShownIs
<1>4. IsSeq(u) /\ Len(u) = 1 /\ u[1] = NewLine(p[at], TRUE)
  BY TupleIsSeq
<1> HIDE DEF s, t, u, n
<1>5. Joined(s, u, w)
  BY <1>2, <1>4, JoinFacts
<1> HIDE DEF w
<1>6. /\ n + 1 \in 1 .. n + 1 /\ n + 1 \in n + 1 .. n + 1 /\ (n + 1) - n = 1
      /\ \A i \in 1 .. n + 1 : i = n + 1 \/ i \in 1 .. n
      /\ \A i \in 1 .. n : i \in 1 .. n + 1
  BY <1>1
<1>7. IsSeq(w) /\ Len(w) = n + 1 /\ w[n + 1] = u[1] /\ \A i \in 1 .. n : w[i] = s[i]
  <2>1. IsSeq(w) /\ Len(w) = n + 1
    BY <1>2, <1>4, <1>5 DEF Joined
  <2>2. w[n + 1] = u[(n + 1) - n]
    BY <1>2, <1>5, <1>6, <2>1 DEF Joined
  <2>3. \A i \in 1 .. n : w[i] = s[i]
    BY <1>2, <1>5 DEF Joined
  <2> QED
    BY <1>6, <2>1, <2>2, <2>3
<1>8. t[n + 1] = w[n + 1]
  <2>1. t[n + 1] = NewLine(p[more[n + 1].line], more[n + 1].newline)
    BY <1>1, <1>3, <1>6
  <2> QED
    BY <1>0, <1>1, <1>4, <1>7, <2>1
<1>9. \A i \in 1 .. n : t[i] = w[i]
  BY <1>1, <1>2, <1>3, <1>6, <1>7
<1>10. \A i \in 1 .. n + 1 : t[i] = w[i]
  BY <1>6, <1>8, <1>9
<1>11. t = w
  BY <1>1, <1>3, <1>7, <1>10, SameSeq
<1> QED
  BY <1>11 DEF last, more, s, t, u, w

\* The newline of the last line is taken away.
Unmarks(added, less) ==
  /\ less \in Seq(Added) /\ Len(less) = Len(added) /\ Len(added) \in Nat \ {0}
  /\ less[Len(added)].line = added[Len(added)].line /\ less[Len(added)].newline = FALSE
  /\ \A i \in 1 .. Len(added) - 1 : less[i] = added[i]

LEMMA MarkerUnmarks ==
  ASSUME NEW u \in InHand, u.previous, u.added # <<>>
  PROVE  /\ Unmarks(u.added, WithoutNewline(u).added)
         /\ WithoutNewline(u).previous /\ WithoutNewline(u).old = u.old
         /\ WithoutNewline(u).new = u.new /\ WithoutNewline(u).at = u.at
         /\ WithoutNewline(u).start = u.start
<1> DEFINE n == Len(u.added)
           x == [u.added[n] EXCEPT !.newline = FALSE]
           less == [u.added EXCEPT ![n] = x]
<1>1. u.added \in Seq(Added) /\ n \in Nat \ {0} /\ DOMAIN u.added = 1 .. n
  BY DEF InHand
<1>2. u.added[n] \in Added
  BY <1>1
<1>3. x \in Added /\ x.line = u.added[n].line /\ x.newline = FALSE
  BY <1>2 DEF Added
<1>4. WithoutNewline(u) = [u EXCEPT !.added = less]
  BY DEF WithoutNewline
<1>5. less \in Seq(Added) /\ Len(less) = n /\ less[n] = x /\ \A i \in 1 .. n - 1 : less[i] = u.added[i]
  <2> HIDE DEF x, n
  <2> QED
    BY <1>1, <1>3
<1> HIDE DEF less, x
<1>6. /\ WithoutNewline(u).added = less /\ WithoutNewline(u).previous = u.previous
      /\ WithoutNewline(u).old = u.old /\ WithoutNewline(u).new = u.new
      /\ WithoutNewline(u).at = u.at /\ WithoutNewline(u).start = u.start
  BY <1>4 DEF InHand
<1> QED
  BY <1>1, <1>3, <1>5, <1>6 DEF Unmarks

LEMMA ShownUnmarked ==
  ASSUME NEW p, NEW added \in Seq(Added), NEW less, Unmarks(added, less)
  PROVE  /\ ~added[Len(added)].newline => Shown(p, less) = Shown(p, added)
         /\ \A r, x : IsSeq(r) /\ Shown(p, added) = r \o <<NewLine(x, TRUE)>> =>
              Shown(p, less) = r \o <<NewLine(x, FALSE)>>
<1> DEFINE n == Len(added)
           s == Shown(p, added)
           t == Shown(p, less)
<1>1. IsSeq(s) /\ Len(s) = n /\ \A i \in 1 .. n : s[i] = NewLine(p[added[i].line], added[i].newline)
  BY ShownIs
<1>2. less \in Seq(Added) /\ Len(less) = n /\ n \in Nat \ {0}
  BY DEF Unmarks
<1>3. IsSeq(t) /\ Len(t) = n /\ \A i \in 1 .. n : t[i] = NewLine(p[less[i].line], less[i].newline)
  <2> HIDE DEF n
  <2>1. /\ IsSeq(t) /\ Len(t) = Len(less)
        /\ \A i \in 1 .. Len(less) : t[i] = NewLine(p[less[i].line], less[i].newline)
    BY <1>2, ShownIs
  <2> QED
    BY <1>2, <2>1
<1>4. n \in 1 .. n /\ \A i \in 1 .. n : i = n \/ i \in 1 .. n - 1
  BY <1>2
<1>5. /\ less[n].line = added[n].line /\ less[n].newline = FALSE
      /\ \A i \in 1 .. n - 1 : less[i] = added[i]
  BY DEF Unmarks
<1>6. added[n].newline \in BOOLEAN
  <2>1. added[n] \in Added
    BY <1>4
  <2> QED
    BY <2>1 DEF Added
<1> HIDE DEF s, t, n
<1>7. t[n] = NewLine(p[added[n].line], FALSE) /\ \A i \in 1 .. n - 1 : t[i] = s[i]
  <2>1. \A i \in 1 .. n - 1 : i \in 1 .. n
    BY <1>2
  <2> QED
    BY <1>1, <1>3, <1>4, <1>5, <2>1
<1>8. ASSUME ~added[n].newline PROVE t = s
  <2>1. t[n] = s[n]
    BY <1>1, <1>4, <1>6, <1>7, <1>8
  <2>2. \A i \in 1 .. n : t[i] = s[i]
    BY <1>4, <1>7, <2>1
  <2> QED
    BY <1>1, <1>3, <2>2, SameSeq
<1>9. ASSUME NEW r, NEW x, IsSeq(r), s = r \o <<NewLine(x, TRUE)>>
      PROVE  t = r \o <<NewLine(x, FALSE)>>
  <2> DEFINE a == <<NewLine(x, TRUE)>>
             b == <<NewLine(x, FALSE)>>
             w == r \o b
             v == r \o a
  <2>1. /\ IsSeq(a) /\ Len(a) = 1 /\ IsSeq(b) /\ Len(b) = 1
        /\ a[1] = NewLine(x, TRUE) /\ b[1] = NewLine(x, FALSE)
    BY TupleIsSeq
  <2>2. Joined(r, a, v)
    BY <1>9, <2>1, JoinFacts
  <2>3. Joined(r, b, w)
    BY <1>9, <2>1, JoinFacts
  <2>4. s = v
    BY <1>9
  <2> HIDE DEF a, b, v, w
  <2>5. /\ Len(r) \in Nat /\ n = Len(r) + 1
        /\ \A i \in 1 .. n - 1 : s[i] = r[i]
        /\ s[n] = a[1]
    <3>1. Len(r) \in Nat /\ n = Len(r) + 1
      BY <1>1, <2>1, <2>2, <2>4 DEF Joined
    <3>2. n \in Len(r) + 1 .. Len(v) /\ n - Len(r) = 1 /\ n - 1 = Len(r)
      BY <1>1, <2>4, <3>1
    <3>3. s[n] = a[n - Len(r)]
      BY <2>2, <2>4, <3>2 DEF Joined
    <3>4. \A i \in 1 .. n - 1 : s[i] = r[i]
      BY <2>2, <2>4, <3>2 DEF Joined
    <3> QED
      BY <3>1, <3>2, <3>3, <3>4
  <2>6. IsSeq(w) /\ Len(w) = n /\ w[n] = b[1] /\ \A i \in 1 .. n - 1 : w[i] = r[i]
    <3>1. IsSeq(w) /\ Len(w) = n
      BY <2>1, <2>3, <2>5 DEF Joined
    <3>2. n \in Len(r) + 1 .. Len(w) /\ n - Len(r) = 1 /\ n - 1 = Len(r)
      BY <2>5, <3>1
    <3>3. w[n] = b[n - Len(r)]
      BY <2>3, <3>2 DEF Joined
    <3>4. \A i \in 1 .. n - 1 : w[i] = r[i]
      BY <2>3, <3>2 DEF Joined
    <3> QED
      BY <3>1, <3>2, <3>3, <3>4
  <2>7. NewLine(p[added[n].line], added[n].newline) = NewLine(x, TRUE)
    BY <1>1, <1>4, <2>1, <2>5
  <2>8. p[added[n].line].value = x.value
    BY <2>7 DEF NewLine
  <2>9. t[n] = w[n]
    BY <1>7, <2>1, <2>6, <2>8 DEF NewLine
  <2>10. \A i \in 1 .. n : t[i] = w[i]
    BY <1>4, <1>7, <2>5, <2>6, <2>9
  <2>11. t = w
    BY <1>3, <2>6, <2>10, SameSeq
  <2> QED
    BY <2>11 DEF w, b
<1> QED
  BY <1>8, <1>9 DEF n, s, t

\* One line more of a hunk.
LEMMA BodyGoesOn ==
  ASSUME NEW p, NEW body, IsSeq(body), NEW b \in 0 .. Len(body) - 1, NEW u \in InHand,
         BodyIs(p, body, b, u), body[b + 1].op \in {"added", "removed", "context", "marker"},
         NEW v, NEW at \in Nat, Takes(u, v, body[b + 1], at), p[at] = body[b + 1]
  PROVE  BodyIs(p, body, b + 1, v)
<1> DEFINE n == b + 1
           line == body[n]
           s == Shown(p, u.added)
           t == Shown(p, v.added)
<1>1. /\ Len(body) \in Nat /\ b \in Nat /\ b \in 0 .. Len(body) /\ n \in 0 .. Len(body) /\ n > 0
      /\ (b > 0 => b \in 1 .. Len(body) - 1)
  <2>1. Len(body) \in Nat
    BY SeqFacts
  <2> QED
    BY <2>1
<1>2. /\ s = AddedOf(body, b)
      /\ b > 0 /\ body[b].op = "added" => u.previous
      /\ u.previous => \/ b > 0 /\ body[b].op = "added"
                       \/ u.added # <<>> /\ ~u.added[Len(u.added)].newline
  BY DEF BodyIs, AddedOf
<1>3. u.added \in Seq(Added) /\ u.previous \in BOOLEAN
  BY DEF InHand
<1>4. IsSeq(AddedOf(body, b))
  BY <1>1, AddedOfFirst
<1>5. AddedOf(body, b) \o <<>> = AddedOf(body, b)
  BY <1>4, NothingJoined
<1>6. ~(line.op = "marker" /\ b > 0 /\ body[b].op = "added") =>
        AddedOf(body, n) = AddedOf(body, b) \o IF line.op = "added" THEN <<NewLine(line, TRUE)>>
                                               ELSE <<>>
  BY AddedOnce
<1>a. /\ line.op \in {"added", "removed", "context", "marker"} /\ Takes(u, v, line, at)
      /\ p[at] = line
  OBVIOUS
<1> SUFFICES /\ t = AddedOf(body, n)
             /\ line.op = "added" => v.previous
             /\ v.previous => \/ line.op = "added"
                              \/ v.added # <<>> /\ ~v.added[Len(v.added)].newline
  BY <1>1 DEF BodyIs, AddedOf
<1> HIDE DEF s, t, line
<1>7. CASE line.op = "added"
  <2>1. v.added = Append(u.added, [line |-> at, newline |-> TRUE]) /\ v.previous
    BY <1>7, <1>a DEF Takes
  <2>2. t = s \o <<NewLine(line, TRUE)>>
    <3>1. Shown(p, v.added) = Shown(p, u.added) \o <<NewLine(p[at], TRUE)>>
      BY <1>3, <2>1, ShownMore
    <3> QED
      BY <1>a, <3>1 DEF s, t
  <2> QED
    BY <1>2, <1>6, <1>7, <2>1, <2>2
<1>8. CASE line.op \in {"removed", "context"}
  <2>1. v.added = u.added /\ ~v.previous
    BY <1>8, <1>a DEF Takes
  <2>2. t = s
    BY <2>1 DEF s, t
  <2> QED
    BY <1>2, <1>5, <1>6, <1>8, <2>1, <2>2
<1>9. CASE line.op = "marker"
  <2>1. v.added = WithoutNewline(u).added /\ v.previous = u.previous
    BY <1>9, <1>a DEF Takes
  <2>2. CASE b > 0 /\ body[b].op = "added"
    <3>1. PICK r : /\ IsSeq(r) /\ AddedOf(body, b) = r \o <<NewLine(body[b], TRUE)>>
                   /\ AddedOf(body, n) = r \o <<NewLine(body[b], FALSE)>>
      BY <1>1, <1>9, <2>2, AddedUnmarked DEF line
    <3>2. u.added # <<>>
      <4> SUFFICES ASSUME u.added = <<>> PROVE FALSE
        OBVIOUS
      <4>1. Len(s) = 0
        <5>1. Len(Shown(p, u.added)) = Len(u.added)
          BY <1>3, ShownIs
        <5> QED
          BY <5>1 DEF s
      <4> DEFINE a == <<NewLine(body[b], TRUE)>>
      <4>2. IsSeq(a) /\ Len(a) = 1
        BY TupleIsSeq
      <4> HIDE DEF a
      <4>3. Joined(r, a, r \o a)
        BY <3>1, <4>2, JoinFacts
      <4>4. Len(r \o a) = Len(r) + 1 /\ Len(r) \in Nat
        BY <4>2, <4>3 DEF Joined
      <4> QED
        BY <1>2, <3>1, <4>1, <4>4 DEF a
    <3>3. Unmarks(u.added, v.added)
      BY <1>2, <2>1, <2>2, <3>2, MarkerUnmarks
    <3>4. Shown(p, v.added) = r \o <<NewLine(body[b], FALSE)>>
      <4>1. Shown(p, u.added) = r \o <<NewLine(body[b], TRUE)>>
        BY <1>2, <3>1 DEF s
      <4>2. \A q, x : IsSeq(q) /\ Shown(p, u.added) = q \o <<NewLine(x, TRUE)>> =>
                        Shown(p, v.added) = q \o <<NewLine(x, FALSE)>>
        BY <1>3, <3>3, ShownUnmarked
      <4> QED
        BY <3>1, <4>1, <4>2, Zenon
    <3>5. v.added # <<>> /\ ~v.added[Len(v.added)].newline
      BY <3>3 DEF Unmarks
    <3> QED
      BY <1>9, <3>1, <3>4, <3>5 DEF t
  <2>3. CASE ~(b > 0 /\ body[b].op = "added")
    <3>1. AddedOf(body, n) = s
      BY <1>2, <1>5, <1>6, <1>9, <2>3
    <3>2. CASE ~u.previous
      <4>1. WithoutNewline(u) = u
        BY <3>2 DEF WithoutNewline
      <4>2. v.added = u.added
        BY <2>1, <4>1
      <4>3. t = s
        BY <4>2 DEF s, t
      <4> QED
        BY <1>9, <2>1, <3>1, <3>2, <4>3
    <3>3. CASE u.previous
      <4>1. u.added # <<>> /\ ~u.added[Len(u.added)].newline
        BY <1>2, <2>3, <3>3
      <4>2. Unmarks(u.added, v.added)
        BY <2>1, <3>3, <4>1, MarkerUnmarks
      <4>3. Shown(p, v.added) = Shown(p, u.added)
        BY <1>3, <4>1, <4>2, ShownUnmarked
      <4>4. v.added # <<>> /\ ~v.added[Len(v.added)].newline
        BY <4>2 DEF Unmarks
      <4> QED
        BY <1>9, <3>1, <4>3, <4>4 DEF s, t
    <3> QED
      BY <1>3, <3>2, <3>3
  <2> QED
    BY <2>2, <2>3
<1> QED
  BY <1>7, <1>8, <1>9, <1>a

\* What a hunk lacks is what is to come.
LEMMA CountGrows ==
  ASSUME NEW body, IsSeq(body), NEW b \in 0 .. Len(body), NEW ops
  PROVE  /\ CountOf(SubSeq(body, 1, b), ops) \in Nat /\ CountOf(body, ops) \in Nat
         /\ CountOf(SubSeq(body, 1, b), ops) <= CountOf(body, ops)
         /\ CountOf(SubSeq(body, 1, b), ops) = CountOf(body, ops)
              <=> \A m \in b + 1 .. Len(body) : body[m].op \notin ops
<1> DEFINE s == SubSeq(body, 1, b)
           n == Len(body)
           S == {i \in 1 .. b : body[i].op \in ops}
           T == {i \in 1 .. n : body[i].op \in ops}
<1>1. n \in Nat /\ DOMAIN body = 1 .. n
  BY SeqFacts
<1>2. IsSeq(s) /\ Len(s) = b /\ \A i \in 1 .. b : s[i] = body[i]
  BY FirstLines
<1> HIDE DEF s
<1>3. DOMAIN s = 1 .. b
  BY <1>2, SeqFacts
<1>4. CountOf(s, ops) = Cardinality(S)
  <2>1. {i \in DOMAIN s : s[i].op \in ops} = S
    BY <1>2, <1>3
  <2> QED
    BY <2>1 DEF CountOf
<1>5. CountOf(body, ops) = Cardinality(T)
  <2>1. {i \in DOMAIN body : body[i].op \in ops} = T
    BY <1>1
  <2> QED
    BY <2>1 DEF CountOf
<1>6. S \in SUBSET T /\ T \in SUBSET (1 .. n)
  BY <1>1
<1>7. (S = T) <=> \A m \in b + 1 .. n : body[m].op \notin ops
  <2> HIDE DEF n
  <2>1. \A m : m \in 1 .. n <=> m \in 1 .. b \/ m \in b + 1 .. n
    BY <1>1 DEF n
  <2>2. \A m \in b + 1 .. n : m \notin 1 .. b
    BY <1>1 DEF n
  <2> QED
    BY <2>1, <2>2
<1> HIDE DEF S, T
<1>8. IsFiniteSet(1 .. n)
  BY <1>1, FS_Interval
<1>9. IsFiniteSet(T)
  BY <1>6, <1>8, FS_Subset
<1>10. /\ IsFiniteSet(S) /\ Cardinality(S) <= Cardinality(T)
       /\ Cardinality(S) = Cardinality(T) => S = T
  BY <1>6, <1>9, FS_Subset
<1>11. Cardinality(S) \in Nat /\ Cardinality(T) \in Nat
  BY <1>9, <1>10, FS_CardinalityType
<1> QED
  BY <1>4, <1>5, <1>7, <1>10, <1>11 DEF s

Lacks(body, b, u) ==
  /\ CountOf(body, OldOps) = u.old + CountOf(SubSeq(body, 1, b), OldOps)
  /\ CountOf(body, NewOps) = u.new + CountOf(SubSeq(body, 1, b), NewOps)

LEMMA HunkIsOpen ==
  ASSUME NEW body, IsSeq(body), NEW b \in 0 .. Len(body), NEW u \in InHand, Lacks(body, b, u),
         u.old > 0 \/ u.new > 0
  PROVE  /\ b + 1 \in 1 .. Len(body) /\ b \in 0 .. Len(body) - 1
         /\ body[b + 1].op \in OldOps => u.old > 0
         /\ body[b + 1].op \in NewOps => u.new > 0
<1> DEFINE o == CountOf(SubSeq(body, 1, b), OldOps)
           w == CountOf(SubSeq(body, 1, b), NewOps)
           co == CountOf(body, OldOps)
           cw == CountOf(body, NewOps)
<1>1. /\ o \in Nat /\ co \in Nat
      /\ o = co <=> \A m \in b + 1 .. Len(body) : body[m].op \notin OldOps
  BY CountGrows
<1>2. /\ w \in Nat /\ cw \in Nat
      /\ w = cw <=> \A m \in b + 1 .. Len(body) : body[m].op \notin NewOps
  BY CountGrows
<1>3. co = u.old + o /\ cw = u.new + w /\ u.old \in Nat /\ u.new \in Nat
  BY DEF Lacks, InHand
<1> HIDE DEF o, w, co, cw
<1>4. Len(body) \in Nat
  BY SeqFacts
<1>5. b # Len(body)
  <2> SUFFICES ASSUME b = Len(body) PROVE FALSE
    OBVIOUS
  <2>1. b + 1 .. Len(body) = {}
    BY <1>4
  <2>2. o = co /\ w = cw
    BY <1>1, <1>2, <2>1
  <2>3. u.old = 0
    BY <1>1, <1>3, <2>2
  <2>4. u.new = 0
    BY <1>2, <1>3, <2>2
  <2> QED
    BY <2>3, <2>4
<1>6. /\ b + 1 \in 1 .. Len(body) /\ b \in 0 .. Len(body) - 1 /\ b + 1 \in b + 1 .. Len(body)
  BY <1>4, <1>5
<1>7. body[b + 1].op \in OldOps => o # co
  BY <1>1, <1>6
<1>8. body[b + 1].op \in NewOps => w # cw
  BY <1>2, <1>6
<1>9. u.old = 0 => o = co
  BY <1>1, <1>3
<1>10. u.new = 0 => w = cw
  BY <1>2, <1>3
<1> QED
  BY <1>3, <1>6, <1>7, <1>8, <1>9, <1>10

LEMMA HunkIsFull ==
  ASSUME NEW g, IsHunk(g), NEW b \in 0 .. Len(g.body), NEW u \in InHand, Lacks(g.body, b, u),
         u.old = 0, u.new = 0
  PROVE  \/ b = Len(g.body)
         \/ b \in 0 .. Len(g.body) - 1 /\ b + 1 = Len(g.body) /\ g.body[b + 1].op = "marker"
<1> DEFINE body == g.body
           n == Len(body)
<1>0. IsSeq(body) /\ n \in Nat /\ DOMAIN body = 1 .. n
  BY SeqFacts DEF IsHunk, IsSeq
<1>1. \A m \in 1 .. n :
        /\ body[m].op \in {"added", "removed", "context", "marker"}
        /\ m < n /\ body[m].op = "marker" => body[m + 1].op # "marker"
  BY <1>0 DEF IsHunk
<1> DEFINE o == CountOf(SubSeq(body, 1, b), OldOps)
           w == CountOf(SubSeq(body, 1, b), NewOps)
<1>2. /\ o \in Nat /\ CountOf(body, OldOps) \in Nat
      /\ o = CountOf(body, OldOps) <=> \A m \in b + 1 .. n : body[m].op \notin OldOps
  BY <1>0, CountGrows
<1>3. /\ w \in Nat /\ CountOf(body, NewOps) \in Nat
      /\ w = CountOf(body, NewOps) <=> \A m \in b + 1 .. n : body[m].op \notin NewOps
  BY <1>0, CountGrows
<1>4. CountOf(body, OldOps) = o /\ CountOf(body, NewOps) = w
  BY <1>2, <1>3 DEF Lacks
<1> HIDE DEF o, w, body
<1>5. ASSUME NEW m \in b + 1 .. n PROVE m \in 1 .. n /\ body[m].op = "marker"
  <2>1. m \in 1 .. n
    BY <1>0
  <2>2. body[m].op \notin OldOps /\ body[m].op \notin NewOps
    BY <1>2, <1>3, <1>4
  <2> QED
    BY <1>1, <2>1, <2>2 DEF OldOps, NewOps
<1>6. b \in 0 .. n
  BY DEF body
<1> HIDE DEF n
<1>7. CASE b = n
  BY <1>7 DEF n, body
<1>8. CASE b < n
  <2>1. b + 1 \in b + 1 .. n /\ b \in 0 .. n - 1
    BY <1>0, <1>6, <1>8
  <2>2. b + 1 = n
    <3> SUFFICES ASSUME b + 1 # n PROVE FALSE
      OBVIOUS
    <3>1. (b + 1) + 1 \in b + 1 .. n /\ b + 1 < n
      BY <1>0, <1>6, <1>8
    <3>2. body[b + 1].op = "marker" /\ b + 1 \in 1 .. n /\ body[(b + 1) + 1].op = "marker"
      BY <1>5, <2>1, <3>1
    <3> QED
      BY <1>1, <3>1, <3>2
  <2> QED
    BY <1>5, <2>1, <2>2 DEF n, body
<1> QED
  BY <1>0, <1>6, <1>7, <1>8

-----------------------------------------------------------------------------
(* From line to line, in a hunk.                                           *)

Body(h, k, j, i) == h[k].changes[j].hunks[i].body

LEMMA HunkIs ==
  ASSUME NEW h \in Histories, NEW k \in 1 .. Len(h), NEW j \in 1 .. Len(h[k].changes),
         NEW i \in 1 .. Len(h[k].changes[j].hunks)
  PROVE  /\ IsHunk(h[k].changes[j].hunks[i])
         /\ IsSeq(Body(h, k, j, i)) /\ Len(Body(h, k, j, i)) \in Nat
         /\ HunkAt(h, k, j, i) \in Nat /\ Len(Written(h)) \in Nat
         /\ HunkAt(h, k, j, i + 1) = HunkAt(h, k, j, i) + (Len(Body(h, k, j, i)) + 1)
         /\ HunkAt(h, k, j, i) + (Len(Body(h, k, j, i)) + 1) <= Len(Written(h))
         /\ \A b \in 1 .. Len(Body(h, k, j, i)) :
              /\ HunkAt(h, k, j, i) + (b + 1) \in 1 .. Len(Written(h))
              /\ Written(h)[HunkAt(h, k, j, i) + (b + 1)] = Body(h, k, j, i)[b]
<1> DEFINE g == h[k].changes[j].hunks[i]
           q == HunkAt(h, k, j, i)
           p == Written(h)
           s == HunkLines(g)
           body == Body(h, k, j, i)
<1>1. IsHunk(g) /\ Stands(s, q, p) /\ HunkAt(h, k, j, i + 1) = q + Len(s)
  BY HunkStands
<1>2. /\ IsSeq(body) /\ Len(body) \in Nat /\ Len(s) = Len(body) + 1
      /\ \A b \in 1 .. Len(body) : s[b + 1] = body[b]
  BY <1>1, HunkLinesAre DEF Body
<1> HIDE DEF g, q, p, s, body
<1>3. q \in Nat /\ Len(p) \in Nat /\ q + (Len(body) + 1) <= Len(p)
  BY <1>1, <1>2 DEF Stands
<1>4. ASSUME NEW b \in 1 .. Len(body)
      PROVE  q + (b + 1) \in 1 .. Len(p) /\ p[q + (b + 1)] = body[b]
  <2>1. b + 1 \in 1 .. Len(s)
    BY <1>2
  <2>2. p[q + (b + 1)] = s[b + 1]
    BY <1>1, <2>1 DEF Stands
  <2>3. q + (b + 1) \in 1 .. Len(p)
    BY <1>2, <1>3, <2>1
  <2> QED
    BY <1>2, <2>2, <2>3
<1> QED
  BY <1>1, <1>2, <1>3, <1>4 DEF g, q, p, body

LEMMA HunkBegins ==
  ASSUME NEW h \in Histories, NEW k \in 1 .. Len(h), NEW j \in 1 .. Len(h[k].changes),
         NEW line, NEW f, FlagsAre(f), AtHunk(h, k, j, line, f),
         NEW u, u.at = Written(h)[line].at, u.added = <<>>, u.previous = FALSE, u.start = line
  PROVE  /\ Written(h)[line].is = "hunk"
         /\ \E i \in 1 .. Len(h[k].changes[j].hunks) :
              \E b \in 0 .. Len(h[k].changes[j].hunks[i].body) :
                InHunk(h, k, j, i, b, line + 1, f, u)
<1>1. PICK i \in 1 .. Len(h[k].changes[j].hunks) :
        line = HunkAt(h, k, j, i) + 1 /\ HasHunks(h, k, j, i - 1, f)
  BY DEF AtHunk
<1>2. Opened(h, k, j, i, Written(h)[line])
  BY <1>1, LineAtHunk
<1>3. /\ Written(h)[line].is = "hunk" /\ Written(h)[line].at = h[k].changes[j].hunks[i].at
  BY <1>2 DEF Opened
<1>4. /\ IsSeq(Body(h, k, j, i)) /\ Len(Body(h, k, j, i)) \in Nat /\ HunkAt(h, k, j, i) \in Nat
  BY HunkIs
<1>5. 0 \in 0 .. Len(Body(h, k, j, i))
  BY <1>4
<1>6. BodyIs(Written(h), Body(h, k, j, i), 0, u)
  <2>1. <<>> \in Seq(Added)
    OBVIOUS
  <2>2. IsSeq(Shown(Written(h), <<>>)) /\ Len(Shown(Written(h), <<>>)) = Len(<<>>)
    BY <2>1, ShownIs
  <2>3. Shown(Written(h), <<>>) = <<>>
    BY <2>2, EmptyIsNone
  <2>4. AddedOf(Body(h, k, j, i), 0) = <<>>
    BY <1>4, <1>5, AddedOfFirst
  <2> QED
    BY <2>3, <2>4 DEF BodyIs, AddedOf
<1>7. line + 1 = HunkAt(h, k, j, i) + (0 + 2)
  <2> DEFINE q == HunkAt(h, k, j, i)
  <2>1. q \in Nat /\ line = q + 1
    BY <1>1, <1>4
  <2> HIDE DEF q
  <2>2. line + 1 = q + (0 + 2)
    BY <2>1
  <2> QED
    BY <2>2 DEF q
<1>8. InHunk(h, k, j, i, 0, line + 1, f, u)
  BY <1>1, <1>3, <1>6, <1>7 DEF InHunk, Body
<1> QED
  BY <1>3, <1>5, <1>8 DEF Body

Announces(line, body) ==
  line.old = CountOf(body, OldOps) /\ line.new = CountOf(body, NewOps)
ReadSoFar(p, first, last, body, b) ==
  SubSeq(p, first + 1, last - 1) = SubSeq(body, 1, b)

\* What the hunk in hand lacks, as the header of the hunk says.
LEMMA HunkLacks ==
  ASSUME NEW h \in Histories, NEW k \in 1 .. Len(h), NEW j \in 1 .. Len(h[k].changes),
         NEW i \in 1 .. Len(h[k].changes[j].hunks), NEW b \in 0 .. Len(Body(h, k, j, i)),
         NEW line, NEW f, FlagsAre(f), NEW u, InHunk(h, k, j, i, b, line, f, u)
  PROVE  /\ Announces(Written(h)[u.start], Body(h, k, j, i))
         /\ ReadSoFar(Written(h), u.start, line, Body(h, k, j, i), b)
<1> DEFINE q == HunkAt(h, k, j, i)
           p == Written(h)
           body == Body(h, k, j, i)
<1>1. HasHunks(h, k, j, i - 1, f) /\ u.start = q + 1 /\ line = q + (b + 2)
  BY DEF InHunk
<1>2. Opened(h, k, j, i, p[u.start])
  BY <1>1, LineAtHunk
<1>3. p[u.start].old = CountOf(body, OldOps) /\ p[u.start].new = CountOf(body, NewOps)
  BY <1>2 DEF Opened, Body, OldOps, NewOps
<1>4. /\ IsSeq(body) /\ Len(body) \in Nat /\ q \in Nat /\ Len(p) \in Nat
      /\ q + (Len(body) + 1) <= Len(p)
      /\ \A m \in 1 .. Len(body) : p[q + (m + 1)] = body[m]
  BY HunkIs
<1>5. p \in Seq(Range(p))
  BY HistoryIs DEF IsSeq
<1>6. b \in 0 .. Len(body)
  OBVIOUS
<1> DEFINE s == SubSeq(p, q + 2, q + (b + 1))
           t == SubSeq(body, 1, b)
<1>7. IsSeq(t) /\ Len(t) = b /\ \A m \in 1 .. b : t[m] = body[m]
  BY <1>4, FirstLines
<1> DEFINE T == Range(p)
<1>a. p \in Seq(T)
  BY <1>5
<1> HIDE DEF q, p, body, t, T
<1>8. s \in Seq(T) /\ Len(s) = b /\ \A m \in 1 .. b : s[m] = p[q + (m + 1)]
  <2>1. q + 2 \in 1 .. Len(p) + 1 /\ q + (b + 1) \in 0 .. Len(p) /\ (q + (b + 1)) - (q + 2) + 1 = b
    <3> DEFINE n == Len(p)
               l == Len(body)
    <3>1. n \in Nat /\ l \in Nat /\ q \in Nat /\ q + (l + 1) <= n /\ b \in 0 .. l
      BY <1>4, <1>6
    <3> HIDE DEF n, l
    <3>2. q + 2 \in 1 .. n + 1 /\ q + (b + 1) \in 0 .. n /\ (q + (b + 1)) - (q + 2) + 1 = b
      BY <3>1
    <3> QED
      BY <3>2 DEF n
  <2>2. s \in Seq(T)
    BY <1>4, <1>a, <2>1
  <2>3. Len(s) = b
    BY <1>4, <1>6, <1>a, <2>1
  <2>4. ASSUME NEW m \in 1 .. b PROVE s[m] = p[q + (m + 1)]
    <3>1. s[m] = p[(q + 2) + m - 1]
      BY <1>4, <1>6, <1>a, <2>1
    <3>2. (q + 2) + m - 1 = q + (m + 1)
      BY <1>4, <1>6
    <3> QED
      BY <3>1, <3>2
  <2> QED
    BY <2>2, <2>3, <2>4
<1> HIDE DEF s
<1>9. IsSeq(s)
  BY <1>8, SeqIsSeq
<1>10. ASSUME NEW m \in 1 .. b PROVE s[m] = t[m]
  <2>1. m \in 1 .. Len(body)
    BY <1>4, <1>6
  <2>2. p[q + (m + 1)] = body[m]
    BY <1>4, <2>1
  <2> QED
    BY <1>7, <1>8, <2>2
<1>11. s = t
  BY <1>7, <1>8, <1>9, <1>10, SameSeq
<1>12. u.start + 1 = q + 2 /\ line - 1 = q + (b + 1)
  BY <1>1, <1>4, <1>6
<1>13. SubSeq(p, u.start + 1, line - 1) = t
  BY <1>11, <1>12 DEF s
<1> QED
  BY <1>3, <1>13 DEF p, body, t, ReadSoFar, Announces

\* Behind a hunk there is no marker.
LEMMA BehindHunk ==
  ASSUME NEW h \in Histories, NEW k \in 1 .. Len(h), NEW j \in 1 .. Len(h[k].changes),
         NEW i \in 1 .. Len(h[k].changes[j].hunks), NEW line, line = HunkAt(h, k, j, i + 1) + 1
  PROVE  line \notin 1 .. Len(Written(h)) \/ Written(h)[line].op # "marker"
<1> DEFINE n == Len(h[k].changes[j].hunks)
           p == Written(h)
<1>1. n \in Nat /\ ChangeAt(h, k, j + 1) = HunkAt(h, k, j, n + 1)
  BY HunkStands
<1>2. CASE i = n
  <2>1. Behind(h, k, j, line)
    BY <1>1, <1>2 DEF Behind
  <2>2. j \in 0 .. Len(h[k].changes) /\ Len(p) \in Nat
    BY HistoryIs, SeqFacts
  <2>3. \/ ChangeComes(h, k, j, line) \/ Closes(h, k, j, line)
        \/ CommitComes(h, k, j, line) \/ AllRead(h, k, j, line)
    BY <2>1, <2>2, NextRecord
  <2>4. Closes(h, k, j, line) => p[line].op # "marker"
    BY BlankIs DEF Closes
  <2>5. AllRead(h, k, j, line) => line \notin 1 .. Len(p)
    BY <2>2 DEF AllRead
  <2>6. ChangeComes(h, k, j, line) \/ CommitComes(h, k, j, line) => p[line].op # "marker"
    BY DEF ChangeComes, CommitComes
  <2> HIDE DEF p
  <2> QED
    BY <2>3, <2>4, <2>5, <2>6 DEF p
<1>3. CASE i # n
  <2> DEFINE l == i + 1
             s == HunkLines(h[k].changes[j].hunks[l])
             q == HunkAt(h, k, j, l)
             m == Len(h[k].changes[j].hunks[l].body)
  <2>1. l \in 1 .. n
    BY <1>1, <1>3
  <2> HIDE DEF l
  <2>2. IsHunk(h[k].changes[j].hunks[l]) /\ Stands(s, q, p)
    BY <2>1, HunkStands
  <2>3. Len(s) = m + 1 /\ m \in Nat /\ s[1].op = "none"
    BY <2>2, HunkLinesAre
  <2>4. line = q + 1
    BY DEF l
  <2> HIDE DEF s, q, p, m
  <2>5. 1 \in 1 .. Len(s)
    BY <2>3
  <2>6. p[q + 1] = s[1]
    BY <2>2, <2>5 DEF Stands
  <2> QED
    BY <2>3, <2>4, <2>6 DEF p
<1> QED
  BY <1>2, <1>3

\* A hunk that is complete is stored.
Adds(f, g, u) ==
  \E x : /\ x.at = u.at /\ x.added = u.added /\ g.hunks = Append(f.hunks, x)
         /\ g.path = f.path /\ g.commit = f.commit /\ g.deleted = f.deleted
         /\ g.binary = f.binary /\ g.payload = f.payload /\ g.saw = f.saw

LEMMA HunkIsStored ==
  ASSUME NEW h \in Histories, NEW k \in 1 .. Len(h), NEW j \in 1 .. Len(h[k].changes),
         NEW i \in 1 .. Len(h[k].changes[j].hunks), NEW f, IsSeq(f.hunks),
         HasHunks(h, k, j, i - 1, f), NEW u, u.at = h[k].changes[j].hunks[i].at,
         BodyIs(Written(h), Body(h, k, j, i), Len(Body(h, k, j, i)), u),
         NEW g, Adds(f, g, u)
  PROVE  InFile(h, k, j, HunkAt(h, k, j, i + 1) + 1, g)
<1> DEFINE c == h[k].changes[j]
           body == Body(h, k, j, i)
           p == Written(h)
<1>1. IsSeq(body) /\ Len(body) \in Nat /\ Len(c.hunks) \in Nat
  BY HunkIs, HunkStands
<1>2. Shown(p, u.added) = AddedBy(body)
  <2>1. Shown(p, u.added) = AddedBy(SubSeq(body, 1, Len(body)))
    BY DEF BodyIs
  <2>2. Len(body) \in 0 .. Len(body)
    BY <1>1
  <2> HIDE DEF body
  <2>3. SubSeq(body, 1, Len(body)) = body
    <3>1. /\ IsSeq(SubSeq(body, 1, Len(body))) /\ Len(SubSeq(body, 1, Len(body))) = Len(body)
          /\ \A m \in 1 .. Len(body) : SubSeq(body, 1, Len(body))[m] = body[m]
      BY <1>1, <2>2, FirstLines
    <3> QED
      BY <1>1, <3>1, SameSeq
  <2> QED
    BY <2>1, <2>3
<1>3. PICK x : /\ x.at = u.at /\ x.added = u.added /\ g.hunks = Append(f.hunks, x)
               /\ g.path = f.path /\ g.commit = f.commit /\ g.deleted = f.deleted
               /\ g.binary = f.binary /\ g.payload = f.payload /\ g.saw = f.saw
  BY DEF Adds
<1>4. FileIs(c, Len(Headers(c)), g)
  BY <1>3 DEF HasHunks, FileIs
<1>5. HunksAre(p, c, i - 1, f)
  BY DEF HasHunks
<1>6. f.hunks \in Seq(Range(f.hunks)) /\ Len(f.hunks) = i - 1 /\ i - 1 \in Nat
  BY <1>1, <1>5 DEF IsSeq, HunksAre
<1> DEFINE hs == f.hunks
<1>7. Len(g.hunks) = i /\ g.hunks[i] = x /\ \A m \in 1 .. i - 1 : g.hunks[m] = hs[m]
  <2>1. g.hunks = Append(hs, x) /\ hs \in Seq(Range(hs)) /\ Len(hs) = i - 1 /\ i - 1 \in Nat
    BY <1>3, <1>6
  <2> HIDE DEF hs
  <2> DEFINE S == Range(hs) \cup {x}
  <2>2. hs \in Seq(S) /\ x \in S
    BY <2>1
  <2> HIDE DEF S
  <2> QED
    BY <2>1, <2>2
<1>8. HunksAre(p, c, i, g)
  <2>1. \A m \in 1 .. i : m = i \/ m \in 1 .. i - 1
    BY <1>6
  <2>2. x.at = c.hunks[i].at /\ Shown(p, x.added) = AddedBy(c.hunks[i].body)
    BY <1>2, <1>3 DEF Body
  <2>3. \A m \in 1 .. i - 1 : /\ hs[m].at = c.hunks[m].at
                              /\ Shown(p, hs[m].added) = AddedBy(c.hunks[m].body)
    BY <1>5 DEF HunksAre
  <2> HIDE DEF c, p, hs
  <2> QED
    BY <1>7, <2>1, <2>2, <2>3 DEF HunksAre
<1>9. HasHunks(h, k, j, i, g)
  BY <1>4, <1>8 DEF HasHunks
<1>10. i \in 0 .. Len(c.hunks)
  BY <1>1
<1> QED
  BY <1>9, <1>10, HunksRead

-----------------------------------------------------------------------------
(* From event to event.                                                    *)

LEMMA AppendIs ==
  ASSUME NEW s, IsSeq(s), NEW e
  PROVE  Append(s, e) = s \o <<e>>
<1> DEFINE T == Range(s) \cup {e}
<1>1. s \in Seq(T) /\ e \in T
  <2>1. s \in Seq(Range(s))
    BY DEF IsSeq
  <2> QED
    BY <2>1
<1> HIDE DEF T
<1> QED
  BY <1>1

LEMMA PrefixIs ==
  ASSUME NEW s, IsSeq(s), NEW t, IsSeq(t), Len(s) <= Len(t), \A i \in 1 .. Len(s) : t[i] = s[i]
  PROVE  IsPrefix(s, t)
<1> DEFINE n == Len(s)
<1>1. Len(s) \in Nat /\ Len(t) \in Nat
  BY SeqFacts
<1>2. n \in 0 .. Len(s) /\ n \in 0 .. Len(t)
  BY <1>1
<1> HIDE DEF n
<1>3. IsSeq(SubSeq(s, 1, n)) /\ Len(SubSeq(s, 1, n)) = n /\ \A i \in 1 .. n : SubSeq(s, 1, n)[i] = s[i]
  BY <1>2, FirstLines
<1>4. IsSeq(SubSeq(t, 1, n)) /\ Len(SubSeq(t, 1, n)) = n /\ \A i \in 1 .. n : SubSeq(t, 1, n)[i] = t[i]
  BY <1>2, FirstLines
<1>5. \A i \in 1 .. n : SubSeq(s, 1, n)[i] = SubSeq(t, 1, n)[i]
  BY <1>3, <1>4 DEF n
<1>6. SubSeq(s, 1, n) = SubSeq(t, 1, n)
  BY <1>3, <1>4, <1>5, SameSeq
<1> QED
  BY <1>6 DEF IsPrefix, n

LEMMA NothingIsPrefix ==
  ASSUME NEW t, IsSeq(t)
  PROVE  IsPrefix(<<>>, t)
<1>1. IsSeq(<<>>) /\ Len(<<>>) = 0 /\ Len(t) \in Nat
  BY TupleIsSeq, SeqFacts
<1>2. Len(<<>>) <= Len(t) /\ \A i \in 1 .. Len(<<>>) : t[i] = <<>>[i]
  BY <1>1
<1> QED
  BY <1>1, <1>2, PrefixIs

LEMMA WholeIsPrefix ==
  ASSUME NEW t, IsSeq(t)
  PROVE  IsPrefix(t, t)
<1>1. Len(t) <= Len(t) /\ \A i \in 1 .. Len(t) : t[i] = t[i]
  BY SeqFacts
<1> QED
  BY <1>1, PrefixIs

FilesAre(fs) ==
  /\ \E T : fs \in Seq(T)
  /\ Len(fs) \in Nat /\ \A n \in 1 .. Len(fs) : IsSeq(fs[n].hunks)

LEMMA EventsAre ==
  ASSUME NEW p, NEW fs, FilesAre(fs)
  PROVE  /\ Len(fs) \in Nat /\ DOMAIN FileEvents(p, fs) = 1 .. Len(fs)
         /\ \A n \in 1 .. Len(fs) : IsSeq(FileEvents(p, fs)[n])
         /\ \A n \in 0 .. Len(fs) - 1 :
              FileEvents(p, fs)[n + 1] = EventsOfFile(p, fs[n + 1])
         /\ IsSeq(Gathered(p, fs))
<1>1. PICK T : fs \in Seq(T)
  BY DEF FilesAre
<1>2. /\ Len(fs) \in Nat /\ DOMAIN FileEvents(p, fs) = 1 .. Len(fs)
      /\ \A n \in 1 .. Len(fs) : /\ FileEvents(p, fs)[n] = EventsOfFile(p, fs[n])
                                /\ IsSeq(FileEvents(p, fs)[n])
      /\ IsSeq(Gathered(p, fs))
  BY <1>1, FileEventsAre DEF FilesAre
<1>3. \A n \in 0 .. Len(fs) - 1 : n + 1 \in 1 .. Len(fs)
  BY <1>2
<1> QED
  BY <1>2, <1>3

LEMMA EmittedNext ==
  ASSUME NEW p, NEW fs, FilesAre(fs), NEW n \in 0 .. Len(fs)
  PROVE  Emitted(p, fs, n, 0, UpTo(FileEvents(p, fs), n))
<1> DEFINE parts == FileEvents(p, fs)
           l == Len(fs)
<1>1. /\ l \in Nat /\ DOMAIN parts = 1 .. l /\ \A i \in 1 .. l : IsSeq(parts[i])
      /\ \A i \in 0 .. l - 1 : parts[i + 1] = EventsOfFile(p, fs[i + 1])
  BY EventsAre
<1> HIDE DEF parts
<1>2. UpTo(parts, l) = Concat(parts)
  BY <1>1, UpToSteps
<1>3. CASE n = l
  BY <1>2, <1>3 DEF Emitted, Gathered, parts
<1>4. CASE n # l
  <2> DEFINE e == EventsOfFile(p, fs[n + 1])
  <2>1. n \in 0 .. l - 1 /\ n + 1 \in 1 .. l
    BY <1>1, <1>4
  <2>2. IsSeq(e)
    BY <1>1, <2>1
  <2>3. IsSeq(UpTo(parts, n))
    BY <1>1, UpToIsSeq
  <2>4. 0 \in 0 .. Len(e)
    BY <2>2, SeqFacts
  <2> HIDE DEF e
  <2>5. IsSeq(SubSeq(e, 1, 0)) /\ Len(SubSeq(e, 1, 0)) = 0
    BY <2>2, <2>4, FirstLines
  <2>6. SubSeq(e, 1, 0) = <<>>
    BY <2>5, EmptyIsNone
  <2>7. UpTo(parts, n) = UpTo(parts, n) \o SubSeq(e, 1, 0)
    BY <2>3, <2>6, NothingJoined
  <2> QED
    BY <2>1, <2>4, <2>7 DEF Emitted, parts, e
<1> QED
  BY <1>3, <1>4

\* What is emitted when events of a file are.
LEMMA EmittedIs ==
  ASSUME NEW p, NEW fs, FilesAre(fs), NEW n \in 0 .. Len(fs) - 1,
         NEW m \in 0 .. Len(EventsOfFile(p, fs[n + 1])), NEW evs, Emitted(p, fs, n, m, evs)
  PROVE  /\ evs = UpTo(FileEvents(p, fs), n) \o SubSeq(EventsOfFile(p, fs[n + 1]), 1, m)
         /\ IsSeq(UpTo(FileEvents(p, fs), n)) /\ IsSeq(EventsOfFile(p, fs[n + 1]))
         /\ IsSeq(evs)
<1> DEFINE parts == FileEvents(p, fs)
           l == Len(fs)
           e == EventsOfFile(p, fs[n + 1])
           r == UpTo(parts, n)
           s == SubSeq(e, 1, m)
<1>1. /\ l \in Nat /\ DOMAIN parts = 1 .. l /\ \A i \in 1 .. l : IsSeq(parts[i])
      /\ parts[n + 1] = e
  BY EventsAre
<1>2. n # l /\ n + 1 \in 1 .. l /\ n \in 0 .. l
  BY <1>1
<1>3. evs = r \o s
  BY <1>2 DEF Emitted
<1>4. IsSeq(e)
  BY <1>1, <1>2
<1> HIDE DEF parts, e
<1>5. IsSeq(r)
  BY <1>1, <1>2, UpToIsSeq
<1>6. IsSeq(s)
  BY <1>4, FirstLines DEF e
<1> HIDE DEF r, s
<1>7. IsSeq(r \o s)
  BY <1>5, <1>6, JoinFacts DEF Joined
<1> QED
  BY <1>3, <1>4, <1>5, <1>7 DEF parts, e, r, s

LEMMA EmittedFile ==
  ASSUME NEW p, NEW fs, FilesAre(fs), NEW n \in 0 .. Len(fs) - 1, NEW evs,
         Emitted(p, fs, n, Len(EventsOfFile(p, fs[n + 1])), evs)
  PROVE  Emitted(p, fs, n + 1, 0, evs)
<1> DEFINE parts == FileEvents(p, fs)
           l == Len(fs)
           e == EventsOfFile(p, fs[n + 1])
<1>1. /\ l \in Nat /\ DOMAIN parts = 1 .. l /\ \A i \in 1 .. l : IsSeq(parts[i])
      /\ parts[n + 1] = e
  BY EventsAre
<1>2. n + 1 \in 1 .. l /\ n + 1 \in 0 .. l /\ (n + 1) - 1 = n /\ n # l
  BY <1>1
<1>3. IsSeq(e)
  BY <1>1, <1>2
<1>4. Len(e) \in 0 .. Len(e)
  BY <1>3, SeqFacts
<1>5. evs = UpTo(parts, n) \o SubSeq(e, 1, Len(e))
  BY <1>2 DEF Emitted
<1> HIDE DEF parts, e
<1>6. SubSeq(e, 1, Len(e)) = e
  <2>1. /\ IsSeq(SubSeq(e, 1, Len(e))) /\ Len(SubSeq(e, 1, Len(e))) = Len(e)
        /\ \A i \in 1 .. Len(e) : SubSeq(e, 1, Len(e))[i] = e[i]
    BY <1>3, <1>4, FirstLines
  <2> QED
    BY <1>3, <2>1, SameSeq
<1>7. UpTo(parts, n + 1) = UpTo(parts, n) \o parts[n + 1]
  BY <1>1, <1>2, UpToSteps
<1>8. evs = UpTo(parts, n + 1)
  BY <1>1, <1>5, <1>6, <1>7
<1>9. Emitted(p, fs, n + 1, 0, UpTo(FileEvents(p, fs), n + 1))
  BY <1>2, EmittedNext
<1> QED
  BY <1>8, <1>9 DEF parts

LEMMA EmittedMore ==
  ASSUME NEW p, NEW fs, FilesAre(fs), NEW n \in 0 .. Len(fs) - 1,
         NEW m \in 0 .. Len(EventsOfFile(p, fs[n + 1])) - 1,
         NEW evs, Emitted(p, fs, n, m, evs)
  PROVE  Emitted(p, fs, n, m + 1, Append(evs, EventsOfFile(p, fs[n + 1])[m + 1]))
<1> DEFINE e == EventsOfFile(p, fs[n + 1])
           r == UpTo(FileEvents(p, fs), n)
           x == e[m + 1]
           s == SubSeq(e, 1, m)
           t == SubSeq(e, 1, m + 1)
           u == <<x>>
<1>1. IsSeq(e)
  <2>1. FileEvents(p, fs)[n + 1] = e /\ n + 1 \in 1 .. Len(fs)
    BY EventsAre
  <2> QED
    BY <2>1, EventsAre
<1>2. /\ Len(e) \in Nat /\ m \in 0 .. Len(e) /\ m + 1 \in 0 .. Len(e) /\ m \in Nat
      /\ m + 1 \in 1 .. m + 1 /\ m + 1 \in m + 1 .. m + 1 /\ (m + 1) - m = 1
      /\ \A i \in 1 .. m + 1 : i = m + 1 \/ i \in 1 .. m
      /\ \A i \in 1 .. m : i \in 1 .. m + 1
  <2>1. Len(e) \in Nat
    BY <1>1, SeqFacts
  <2>2. m \in 0 .. Len(e) - 1
    OBVIOUS
  <2> HIDE DEF e
  <2> QED
    BY <2>1, <2>2
<1>b. Len(fs) \in Nat /\ n # Len(fs) /\ n \in 0 .. Len(fs)
  BY DEF FilesAre
<1>3. evs = r \o s /\ IsSeq(r) /\ IsSeq(evs)
  <2>1. evs = r \o s
    BY <1>b DEF Emitted
  <2>2. IsSeq(r) /\ IsSeq(evs)
    BY <1>2, EmittedIs
  <2> QED
    BY <2>1, <2>2
<1>4. IsSeq(s) /\ Len(s) = m /\ \A i \in 1 .. m : s[i] = e[i]
  BY <1>1, <1>2, FirstLines
<1>5. IsSeq(t) /\ Len(t) = m + 1 /\ \A i \in 1 .. m + 1 : t[i] = e[i]
  BY <1>1, <1>2, FirstLines
<1>6. IsSeq(u) /\ Len(u) = 1 /\ u[1] = x
  BY TupleIsSeq
<1>7. Append(evs, x) = evs \o u
  BY <1>3, AppendIs
<1>a. x = e[m + 1]
  OBVIOUS
<1> HIDE DEF e, r, s, t, u, x
<1>8. (r \o s) \o u = r \o (s \o u)
  <2>1. IsSeq(r) /\ IsSeq(s) /\ IsSeq(u)
    BY <1>3, <1>4, <1>6
  <2> QED
    BY <2>1, JoinsAssociate, SMTT(30)
<1>9. s \o u = t
  <2> DEFINE w == s \o u
  <2>1. Joined(s, u, w)
    BY <1>4, <1>6, JoinFacts
  <2> HIDE DEF w
  <2>2. IsSeq(w) /\ Len(w) = m + 1
    BY <1>4, <1>6, <2>1 DEF Joined
  <2>3. \A i \in 1 .. m : w[i] = t[i]
    BY <1>2, <1>4, <1>5, <2>1 DEF Joined
  <2>4. w[m + 1] = u[(m + 1) - m]
    BY <1>2, <1>4, <2>1, <2>2 DEF Joined
  <2>5. w[m + 1] = t[m + 1]
    BY <1>2, <1>5, <1>6, <1>a, <2>4
  <2>6. \A i \in 1 .. m + 1 : w[i] = t[i]
    BY <1>2, <2>3, <2>5
  <2>7. w = t
    BY <1>5, <2>2, <2>6, SameSeq
  <2> QED
    BY <2>7 DEF w
<1>10. Append(evs, x) = r \o t
  BY <1>3, <1>7, <1>8, <1>9
<1> QED
  BY <1>2, <1>10 DEF Emitted, e, r, t, x

LEMMA EmittedBegins ==
  ASSUME NEW p, NEW fs, FilesAre(fs), NEW n \in Nat, NEW m \in Nat, NEW evs,
         Emitted(p, fs, n, m, evs)
  PROVE  IsPrefix(evs, Gathered(p, fs)) /\ IsSeq(Gathered(p, fs))
<1> DEFINE parts == FileEvents(p, fs)
           l == Len(fs)
           all == Gathered(p, fs)
<1>1. /\ l \in Nat /\ DOMAIN parts = 1 .. l /\ \A i \in 1 .. l : IsSeq(parts[i])
      /\ IsSeq(all)
  BY EventsAre
<1>2. CASE n = l /\ m = 0 /\ evs = all
  BY <1>1, <1>2, WholeIsPrefix
<1>3. CASE /\ n \in 0 .. l - 1 /\ m \in 0 .. Len(EventsOfFile(p, fs[n + 1]))
           /\ evs = UpTo(parts, n) \o SubSeq(EventsOfFile(p, fs[n + 1]), 1, m)
  <2> DEFINE e == EventsOfFile(p, fs[n + 1])
             r == UpTo(parts, n)
             s == SubSeq(e, 1, m)
             t == UpTo(parts, n + 1)
  <2>1. parts[n + 1] = e
    BY <1>3, EventsAre
  <2>2. n + 1 \in 1 .. l /\ n + 1 \in 0 .. l /\ (n + 1) - 1 = n /\ n \in 0 .. l
    BY <1>1, <1>3
  <2>3. IsSeq(e)
    BY <1>1, <2>1, <2>2
  <2>4. evs = r \o s /\ m \in 0 .. Len(e)
    BY <1>3
  <2> HIDE DEF e, parts, l
  <2>5. IsSeq(s) /\ Len(s) = m /\ \A i \in 1 .. m : s[i] = e[i]
    BY <2>3, <2>4, FirstLines
  <2>6. IsSeq(r)
    BY <1>1, <2>2, UpToIsSeq
  <2>7. Joined(r, s, r \o s)
    BY <2>5, <2>6, JoinFacts
  <2>8. Joined(r, e, t)
    <3>1. Joined(UpTo(parts, (n + 1) - 1), parts[n + 1], UpTo(parts, n + 1))
      BY <1>1, <2>2, UpToJoins
    <3> QED
      BY <2>1, <2>2, <3>1
  <2>9. Len(t) <= Len(Concat(parts)) /\ \A i \in 1 .. Len(t) : Concat(parts)[i] = t[i]
    BY <1>1, <2>2, UpToBegins
  <2>10. all = Concat(parts)
    BY DEF Gathered, parts
  <2> HIDE DEF r, s, t, all
  <2>11. /\ IsSeq(evs) /\ Len(evs) = Len(r) + m /\ Len(r) \in Nat
         /\ Len(t) = Len(r) + Len(e) /\ Len(e) \in Nat /\ m <= Len(e) /\ Len(all) \in Nat
    <3>1. IsSeq(evs) /\ Len(evs) = Len(r) + m /\ Len(r) \in Nat
      BY <2>4, <2>5, <2>7 DEF Joined
    <3>2. Len(t) = Len(r) + Len(e) /\ Len(e) \in Nat
      BY <2>8 DEF Joined
    <3>3. Len(all) \in Nat
      BY <1>1, SeqFacts
    <3> QED
      BY <2>4, <3>1, <3>2, <3>3
  <2>12. Len(evs) <= Len(all)
    BY <2>9, <2>10, <2>11
  <2>13. ASSUME NEW i \in 1 .. Len(evs) PROVE all[i] = evs[i]
    <3>1. i \in 1 .. Len(t)
      BY <2>11
    <3>2. all[i] = t[i]
      BY <2>9, <2>10, <3>1
    <3>3. CASE i \in 1 .. Len(r)
      <4>1. evs[i] = r[i]
        BY <2>4, <2>7, <3>3 DEF Joined
      <4>2. t[i] = r[i]
        BY <2>8, <3>3 DEF Joined
      <4> QED
        BY <3>2, <4>1, <4>2
    <3>4. CASE i \notin 1 .. Len(r)
      <4>1. i \in Len(r) + 1 .. Len(evs) /\ i \in Len(r) + 1 .. Len(t) /\ i - Len(r) \in 1 .. m
        BY <2>11, <3>1, <3>4
      <4>2. evs[i] = s[i - Len(r)]
        BY <2>4, <2>7, <4>1 DEF Joined
      <4>3. t[i] = e[i - Len(r)]
        BY <2>8, <4>1 DEF Joined
      <4> QED
        BY <2>5, <3>2, <4>1, <4>2, <4>3
    <3> QED
      BY <3>3, <3>4
  <2> QED
    BY <1>1, <2>11, <2>12, <2>13, PrefixIs DEF all
<1> QED
  BY <1>1, <1>2, <1>3 DEF Emitted

Place ==
  CASE doing \in {"stderr", "split"} -> index = 1 /\ files = <<>> /\ commit = None
    [] doing = "patch" -> PatchPlace(history, index, commit, files)
    [] doing = "header" -> HeaderPlace(history, index, commit, files)
    [] doing = "file" -> FilePlace(history, index, commit, file, files)
    [] doing = "hunk" -> HunkPlace(history, index, commit, file, hunk, files)
    [] doing = "emit" -> EmitPlace(history, next, files, events)
    [] doing = "done" -> DonePlace(history, outcome, events)

WrittenInv ==
  history # None =>
    /\ history \in Histories /\ patch = Written(history)
    /\ doing # "done" => outcome = "Continue"
    /\ doing \in Reading => next = [file |-> 1, hunk |-> 1] /\ events = <<>>
    /\ outcome # "Invalid"
    /\ Place

-----------------------------------------------------------------------------
(* The steps of the parser.                                                *)

LEMMA TypesAre ==
  ASSUME ParserTypes
  PROVE  /\ FlagsAre(file) /\ IsSeq(file.hunks) /\ file.hunks \in Seq(Complete)
         /\ hunk \in InHand /\ hunk.added \in Seq(Added)
         /\ index \in 1 .. Len(patch) + 1 /\ Len(patch) \in Nat
         /\ files \in Seq(ParsedFile) /\ \A n \in 1 .. Len(files) : IsSeq(files[n].hunks)
         /\ FilesAre(files)
<1>1. /\ file \in ParsedFile /\ hunk \in InHand /\ files \in Seq(ParsedFile)
      /\ index \in 1 .. Len(patch) + 1 /\ Len(patch) \in Nat
  BY DEF ParserTypes
<1>2. \A f \in ParsedFile : FlagsAre(f) /\ f.hunks \in Seq(Complete)
  BY DEF ParsedFile, FlagsAre
<1>3. \A s : s \in Seq(Complete) => IsSeq(s)
  BY SeqIsSeq
<1>4. \A n \in 1 .. Len(files) : files[n] \in ParsedFile
  BY <1>1
<1>5. \A n \in 1 .. Len(files) : IsSeq(files[n].hunks)
  BY <1>2, <1>3, <1>4
<1>6. FilesAre(files)
  <2>1. Len(files) \in Nat /\ \E T : files \in Seq(T)
    BY <1>1
  <2> QED
    BY <1>5, <2>1 DEF FilesAre
<1>7. hunk.added \in Seq(Added)
  BY <1>1 DEF InHand
<1> QED
  BY <1>1, <1>2, <1>3, <1>5, <1>6, <1>7

LEMMA AtPlace ==
  ASSUME WrittenInv, history # None
  PROVE  /\ history \in Histories /\ patch = Written(history)
         /\ doing # "done" => outcome = "Continue"
         /\ doing \in Reading => next = [file |-> 1, hunk |-> 1] /\ events = <<>>
         /\ outcome # "Invalid"
         /\ doing \in {"stderr", "split"} => index = 1 /\ files = <<>> /\ commit = None
         /\ doing = "patch" => PatchPlace(history, index, commit, files)
         /\ doing = "header" => HeaderPlace(history, index, commit, files)
         /\ doing = "file" => FilePlace(history, index, commit, file, files)
         /\ doing = "hunk" => HunkPlace(history, index, commit, file, hunk, files)
         /\ doing = "emit" => EmitPlace(history, next, files, events)
         /\ doing = "done" => DonePlace(history, outcome, events)
<1>1. Place
  BY DEF WrittenInv
<1>2. doing = "done" => DonePlace(history, outcome, events)
  BY <1>1 DEF Place
<1> QED
  BY <1>1, <1>2 DEF WrittenInv, Place

\* A parser that goes on is at the place where it is then.
GoesOnAt ==
  \/ doing' = "split" /\ index' = 1 /\ files' = <<>> /\ commit' = None
  \/ doing' = "patch" /\ PatchPlace(history, index', commit', files')
  \/ doing' = "header" /\ HeaderPlace(history, index', commit', files')
  \/ doing' = "file" /\ FilePlace(history, index', commit', file', files')
  \/ doing' = "hunk" /\ HunkPlace(history, index', commit', file', hunk', files')

LEMMA ReadsOn ==
  ASSUME WrittenInv, history # None, doing \in Reading, UNCHANGED <<history, patch, next, events>>,
         outcome' = outcome, GoesOnAt
  PROVE  WrittenInv'
<1>1. /\ history' \in Histories /\ patch' = Written(history') /\ outcome' = "Continue"
      /\ next' = [file |-> 1, hunk |-> 1] /\ events' = <<>>
  BY AtPlace DEF Reading
<1>2. Place'
  BY DEF GoesOnAt, Place
<1> QED
  BY <1>1, <1>2 DEF WrittenInv

\* A parser that stops early has emitted nothing.
LEMMA StopsReading ==
  ASSUME WrittenInv, history # None, doing \in Reading, UNCHANGED <<history, patch, events>>,
         doing' = "done", outcome' \notin {"Continue", "Invalid"}
  PROVE  WrittenInv'
<1>1. history' \in Histories /\ patch' = Written(history') /\ events' = <<>>
  BY AtPlace DEF Reading
<1>2. IsPrefix(<<>>, Meaning(history))
  BY AtPlace, HistoryEventsAre, NothingIsPrefix
<1>3. DonePlace(history', outcome', events')
  BY <1>1, <1>2 DEF DonePlace
<1>4. Place'
  BY <1>3 DEF Place
<1> QED
  BY <1>1, <1>4 DEF WrittenInv, Reading

LEMMA StderrReadsOn ==
  ASSUME WrittenInv, history # None, StderrIssue
  PROVE  WrittenInv'
<1>1. /\ doing = "stderr"
      /\ UNCHANGED <<history, patch, index, commit, file, files, next, events>>
      /\ \/ doing' = "split" /\ outcome' = outcome
         \/ doing' = "done" /\ outcome' \in {"Stop", "Callback"}
  BY DEF StderrIssue, Do, Returns, inputVars, parseVars
<1>2. CASE doing' = "split"
  <2>1. GoesOnAt
    BY <1>1, <1>2, AtPlace DEF GoesOnAt
  <2> QED
    BY <1>1, <1>2, <2>1, ReadsOn DEF Reading
<1>3. CASE doing' = "done"
  BY <1>1, <1>3, StopsReading DEF Reading
<1> QED
  BY <1>1, <1>2, <1>3

LEMMA SplitReadsOn ==
  ASSUME WrittenInv, history # None, SplitLines
  PROVE  WrittenInv'
<1>1. /\ doing = "split"
      /\ UNCHANGED <<history, patch, index, commit, file, files, next, events>>
      /\ \/ doing' = "patch" /\ outcome' = outcome
         \/ doing' = "done" /\ outcome' = "Limit"
  BY DEF SplitLines, Goes, Do, Returns, inputVars, parseVars
<1>2. CASE doing' = "patch"
  <2>1. history \in Histories /\ index = 1 /\ files = <<>> /\ commit = None
    BY <1>1, AtPlace
  <2>2. PatchPlace(history, index', commit', files')
    BY <1>1, <2>1, NothingRead
  <2> QED
    BY <1>1, <1>2, <2>2, ReadsOn DEF GoesOnAt, Reading
<1>3. CASE doing' = "done"
  BY <1>1, <1>3, StopsReading DEF Reading
<1> QED
  BY <1>1, <1>2, <1>3

LEMMA CommitReadsOn ==
  ASSUME ParserInv, WrittenInv, history # None, CommitLine
  PROVE  WrittenInv'
<1>1. /\ doing = "patch" /\ index <= Len(patch) /\ patch[index].is = "commit"
      /\ UNCHANGED <<history, patch, file, files, next, events>>
      /\ \/ doing' = "header" /\ outcome' = outcome /\ index' = index + 1
            /\ commit' = patch[index].value
         \/ doing' = "done" /\ outcome' = "Limit"
  BY DEF CommitLine, Goes, More, This, Do, Returns, Advance, inputVars
<1>2. CASE doing' = "header"
  <2>1. index \in 1 .. Len(patch)
    BY <1>1, TypesAre DEF ParserInv
  <2>2. history \in Histories /\ patch = Written(history) /\ PatchPlace(history, index, commit, files)
    BY <1>1, AtPlace
  <2>3. HeaderPlace(history, index + 1, patch[index].value, files)
    BY <1>1, <2>1, <2>2, CommitIsHere
  <2>4. GoesOnAt
    BY <1>1, <1>2, <2>3 DEF GoesOnAt
  <2> QED
    BY <1>1, <1>2, <2>4, ReadsOn DEF Reading
<1>3. CASE doing' = "done"
  BY <1>1, <1>3, StopsReading DEF Reading
<1> QED
  BY <1>1, <1>2, <1>3

LEMMA HeaderReadsOn ==
  ASSUME ParserInv, WrittenInv, history # None, HeaderLine
  PROVE  WrittenInv'
<1>1. /\ doing = "header"
      /\ UNCHANGED <<history, patch, commit, file, files, outcome, next, events>>
      /\ IF ~(index <= Len(patch)) \/ (index <= Len(patch) /\ IsRecord(patch[index]))
         THEN doing' = "patch" /\ index' = index ELSE doing' = doing /\ index' = index + 1
  BY DEF HeaderLine, Goes, More, AtRecord, This, IsRecord, Do, Advance, Stay, inputVars, parseVars
<1>2. index <= Len(patch) <=> index \in 1 .. Len(patch)
  BY TypesAre DEF ParserInv
<1>3. /\ history \in Histories /\ patch = Written(history)
      /\ HeaderPlace(history, index, commit, files)
  BY <1>1, AtPlace
<1>4. IF index \notin 1 .. Len(patch) \/ IsRecord(patch[index])
      THEN PatchPlace(history, index, commit, files)
      ELSE HeaderPlace(history, index + 1, commit, files)
  BY <1>3, HeaderGoesOn
<1>5. GoesOnAt
  BY <1>1, <1>2, <1>4 DEF GoesOnAt
<1> QED
  BY <1>1, <1>5, ReadsOn DEF Reading

LEMMA DiffReadsOn ==
  ASSUME ParserInv, WrittenInv, history # None, DiffLine
  PROVE  WrittenInv'
<1>1. /\ doing = "patch" /\ index <= Len(patch) /\ patch[index].is = "diff"
      /\ UNCHANGED <<history, patch, commit, files, next, events>>
      /\ \/ /\ doing' = "file" /\ outcome' = outcome /\ index' = index + 1
            /\ file' = [NoFile EXCEPT !.path = patch[index].value, !.commit = commit]
         \/ doing' = "done" /\ outcome' = "Limit"
  BY DEF DiffLine, Goes, More, This, Do, Returns, Advance, inputVars
<1>2. CASE doing' = "file"
  <2>1. index \in 1 .. Len(patch)
    BY <1>1, TypesAre DEF ParserInv
  <2>2. history \in Histories /\ patch = Written(history) /\ PatchPlace(history, index, commit, files)
    BY <1>1, AtPlace
  <2>3. \E k \in 1 .. Len(history) : \E j \in 1 .. Len(history[k].changes) :
          AtChange(history, k, j, index, commit, files)
    BY <1>1, <2>1, <2>2, CommitIsHere
  <2>4. PICK k \in 1 .. Len(history) : \E j \in 1 .. Len(history[k].changes) :
          AtChange(history, k, j, index, commit, files)
    BY <2>3
  <2>5. PICK j \in 1 .. Len(history[k].changes) : AtChange(history, k, j, index, commit, files)
    BY <2>4
  <2>6. /\ commit = history[k].sha /\ index = ChangeAt(history, k, j) + 1
        /\ Gathered(Written(history), files) = EventsBefore(history, k, j)
    BY <2>5 DEF AtChange
  <2> DEFINE c == history[k].changes[j]
  <2>7. /\ IsChange(c) /\ ChangeAt(history, k, j) \in Nat /\ Len(Headers(c)) \in Nat \ {0}
        /\ 1 \in 1 .. Len(Headers(c))
    BY <2>2, ChangeBegins
  <2>8. Written(history)[ChangeAt(history, k, j) + 1] = Headers(c)[1]
    BY <2>2, <2>7, ChangeBegins
  <2>9. /\ file'.path = Headers(c)[1].value /\ file'.deleted = FALSE /\ file'.binary = FALSE
        /\ file'.payload = FALSE /\ file'.hunks = <<>> /\ file'.commit = history[k].sha
    BY <1>1, <1>2, <2>2, <2>6, <2>8 DEF NoFile
  <2>10. FileIs(c, 1, file')
    BY <2>7, <2>9, FirstHeader
  <2>11. index' = ChangeAt(history, k, j) + (1 + 1)
    BY <1>1, <1>2, <2>6, <2>7
  <2>12. InFile(history, k, j, index', file')
    BY <2>2, <2>7, <2>9, <2>10, <2>11, HeadersRead
  <2>13. InChange(history, k, j, commit', file', files')
    BY <1>1, <2>6, <2>9 DEF InChange
  <2>14. FilePlace(history, index', commit', file', files')
    BY <2>12, <2>13 DEF FilePlace
  <2>15. GoesOnAt
    BY <1>2, <2>14 DEF GoesOnAt
  <2> QED
    BY <1>1, <1>2, <2>15, ReadsOn DEF Reading
<1>3. CASE doing' = "done"
  BY <1>1, <1>3, StopsReading DEF Reading
<1> QED
  BY <1>1, <1>2, <1>3

\* Git writes nothing between its records.
LEMMA PreambleIsNone ==
  ASSUME ParserInv, WrittenInv, history # None
  PROVE  ~Preamble
<1> SUFFICES ASSUME Preamble PROVE FALSE
  OBVIOUS
<1>1. doing = "patch" /\ index <= Len(patch) /\ ~IsRecord(patch[index])
  BY DEF Preamble, Goes, More, AtRecord, This, IsRecord
<1>2. index \in 1 .. Len(patch)
  BY <1>1, TypesAre DEF ParserInv
<1>3. history \in Histories /\ patch = Written(history) /\ PatchPlace(history, index, commit, files)
  BY <1>1, AtPlace
<1> QED
  BY <1>1, <1>2, <1>3, CommitIsHere

LEMMA FilePlaceIs ==
  ASSUME WrittenInv, history # None, doing = "file"
  PROVE  \E k \in 1 .. Len(history) : \E j \in 1 .. Len(history[k].changes) :
           /\ InChange(history, k, j, commit, file, files)
           /\ InFile(history, k, j, index, file)
  BY AtPlace DEF FilePlace

\* A header that belongs is taken.
LEMMA HeaderIsTaken ==
  ASSUME ParserTypes, index <= Len(patch), FileHeader, Belongs(file, patch[index])
  PROVE  \/ /\ UNCHANGED <<doing, outcome>> /\ index' = index + 1
            /\ FlagsAre(file') /\ Became(file, file', patch[index])
         \/ doing' = "done" /\ outcome' = "Limit"
<1>1. index \in 1 .. Len(patch)
  BY TypesAre
<1>2. /\ file \in ParsedFile /\ patch[index].value \in Values
      /\ patch[index].is \in {patch[j].is : j \in DOMAIN patch}
  BY <1>1, LinesAreLines DEF ParserTypes
<1>3. FlagsAre(file)
  BY TypesAre
<1> DEFINE line == patch[index]
<1>4. CASE file.payload
  <2>1. UNCHANGED <<doing, outcome, file>> /\ index' = index + 1
    BY <1>4 DEF FileHeader, Advance
  <2>2. Became(file, file', line)
    BY <1>4, <2>1 DEF Became
  <2> QED
    BY <1>3, <2>1, <2>2
<1>5. CASE ~file.payload
  <2> DEFINE Noted(g) == /\ index' = index + 1 /\ UNCHANGED <<doing, outcome>>
                         /\ file' = [g EXCEPT !.saw = @ \cup {line.is}]
             NotedPath == \/ Noted([file EXCEPT !.deleted = TRUE]) /\ Deletes(line)
                          \/ Noted([file EXCEPT !.path = line.value]) /\ ~Deletes(line)
                          \/ doing' = "done" /\ outcome' = "Limit"
  <2>1. PathHeader /\ line.is \in {"newPath", "renameTo", "copyTo"} => NotedPath
    BY DEF PathHeader, Note, Refuse, Returns, Advance, This, Deletes
  <2>2. \/ line.is = "deleted" /\ Noted([file EXCEPT !.deleted = TRUE])
        \/ line.is \in {"newPath", "renameTo", "copyTo"} /\ NotedPath
        \/ line.is = "binary" /\ Noted([file EXCEPT !.binary = TRUE])
        \/ line.is = "payload" /\ Noted([file EXCEPT !.binary = TRUE, !.payload = TRUE])
        \/ /\ line.is \in {"oldPath", "oldMode", "newFile", "newMode", "renameFrom", "copyFrom",
                           "index", "blank"}
           /\ Noted(file)
    <3> HIDE DEF NotedPath
    <3>1. \/ line.is \in {"deleted", "binary", "payload", "oldPath", "oldMode", "newFile", "newMode",
                          "renameFrom", "copyFrom", "index", "blank"}
          \/ line.is = "newPath" /\ "oldPath" \in file.saw
          \/ line.is = "renameTo" /\ "renameFrom" \in file.saw
          \/ line.is = "copyTo" /\ "copyFrom" \in file.saw
      BY <1>5 DEF Belongs
    <3>2. CASE line.is = "newPath" /\ "oldPath" \in file.saw
      BY <1>5, <2>1, <3>2 DEF FileHeader, This
    <3>3. CASE line.is = "renameTo" /\ "renameFrom" \in file.saw
      BY <1>5, <2>1, <3>3 DEF FileHeader, This
    <3>4. CASE line.is = "copyTo" /\ "copyFrom" \in file.saw
      BY <1>5, <2>1, <3>4 DEF FileHeader, This
    <3>5. CASE line.is = "deleted"
      BY <1>5, <3>5 DEF FileHeader, This, Note, Advance
    <3>6. CASE line.is = "binary"
      BY <1>5, <3>6 DEF FileHeader, This, Note, Advance
    <3>7. CASE line.is = "payload"
      BY <1>5, <3>7 DEF FileHeader, This, Note, Advance
    <3>8. CASE line.is \in {"oldPath", "oldMode", "newFile", "newMode", "renameFrom", "copyFrom",
                            "index", "blank"}
      BY <1>5, <3>8 DEF FileHeader, This, Note, Advance
    <3> QED
      BY <3>1, <3>2, <3>3, <3>4, <3>5, <3>6, <3>7, <3>8
  <2>3. \/ doing' = "done" /\ outcome' = "Limit"
        \/ /\ index' = index + 1 /\ UNCHANGED <<doing, outcome>>
           /\ file'.hunks = file.hunks /\ file'.commit = file.commit
           /\ file'.path = IF Renames(line) THEN line.value ELSE file.path
           /\ file'.deleted = (file.deleted \/ Deletes(line))
           /\ file'.binary = (file.binary \/ Binary(line))
           /\ file'.payload = (line.is = "payload")
           /\ file'.saw = file.saw \cup {line.is}
    <3>1. CASE line.is = "deleted" /\ Noted([file EXCEPT !.deleted = TRUE])
      BY <1>2, <1>5, <3>1 DEF ParsedFile, Renames, Deletes, Binary
    <3>2. CASE line.is \in {"newPath", "renameTo", "copyTo"} /\ NotedPath
      <4>1. CASE Noted([file EXCEPT !.deleted = TRUE]) /\ Deletes(line)
        BY <1>2, <1>5, <3>2, <4>1 DEF ParsedFile, Renames, Binary
      <4>2. CASE Noted([file EXCEPT !.path = line.value]) /\ ~Deletes(line)
        BY <1>2, <1>5, <3>2, <4>2 DEF ParsedFile, Renames, Binary
      <4> QED
        BY <3>2, <4>1, <4>2
    <3>3. CASE line.is = "binary" /\ Noted([file EXCEPT !.binary = TRUE])
      BY <1>2, <1>5, <3>3 DEF ParsedFile, Renames, Deletes, Binary
    <3>4. CASE line.is = "payload" /\ Noted([file EXCEPT !.binary = TRUE, !.payload = TRUE])
      BY <1>2, <1>5, <3>4 DEF ParsedFile, Renames, Deletes, Binary
    <3>5. CASE /\ line.is \in {"oldPath", "oldMode", "newFile", "newMode", "renameFrom", "copyFrom",
                               "index", "blank"}
               /\ Noted(file)
      BY <1>2, <1>5, <3>5 DEF ParsedFile, Renames, Deletes, Binary
    <3> QED
      BY <2>2, <3>1, <3>2, <3>3, <3>4, <3>5
  <2>4. CASE doing' = "done" /\ outcome' = "Limit"
    BY <2>4
  <2>5. CASE ~(doing' = "done" /\ outcome' = "Limit")
    <3>1. FlagsAre(file')
      BY <1>3, <2>3, <2>5 DEF FlagsAre, Deletes, Binary
    <3>2. Became(file, file', line)
      BY <1>5, <2>3, <2>5 DEF Became
    <3> QED
      BY <2>3, <2>5, <3>1, <3>2
  <2> QED
    BY <2>4, <2>5
<1> QED
  BY <1>4, <1>5

LEMMA FileLineReadsOn ==
  ASSUME ParserInv, WrittenInv, history # None, FileLine
  PROVE  WrittenInv'
<1>1. /\ doing = "file" /\ index <= Len(patch) /\ ~IsRecord(patch[index]) /\ FileHeader
      /\ file.payload \/ patch[index].is \notin {"hunk", "badHunk"}
      /\ UNCHANGED <<history, patch, commit, files, next, events>>
  BY DEF FileLine, Goes, More, AtRecord, This, IsRecord, inputVars
<1>2. index \in 1 .. Len(patch) /\ FlagsAre(file)
  BY <1>1, TypesAre DEF ParserInv
<1>3. history \in Histories /\ patch = Written(history)
  BY AtPlace
<1>4. PICK k \in 1 .. Len(history) : \E j \in 1 .. Len(history[k].changes) :
        /\ InChange(history, k, j, commit, file, files)
        /\ InFile(history, k, j, index, file)
  BY <1>1, FilePlaceIs
<1>5. PICK j \in 1 .. Len(history[k].changes) :
        /\ InChange(history, k, j, commit, file, files)
        /\ InFile(history, k, j, index, file)
  BY <1>4
<1>6. /\ Belongs(file, patch[index])
      /\ \A g : FlagsAre(g) /\ Became(file, g, patch[index]) =>
           InFile(history, k, j, index + 1, g)
  BY <1>1, <1>2, <1>3, <1>5, FileGoesOn
<1>7. \/ /\ UNCHANGED <<doing, outcome>> /\ index' = index + 1
         /\ FlagsAre(file') /\ Became(file, file', patch[index])
      \/ doing' = "done" /\ outcome' = "Limit"
  BY <1>1, <1>6, HeaderIsTaken DEF ParserInv
<1>8. CASE doing' = "done" /\ outcome' = "Limit"
  BY <1>1, <1>8, StopsReading DEF Reading
<1>9. CASE /\ UNCHANGED <<doing, outcome>> /\ index' = index + 1
           /\ FlagsAre(file') /\ Became(file, file', patch[index])
  <2>1. InFile(history, k, j, index', file')
    BY <1>6, <1>9
  <2>2. InChange(history, k, j, commit', file', files')
    BY <1>1, <1>5, <1>9 DEF InChange, Became
  <2>3. FilePlace(history, index', commit', file', files')
    BY <2>1, <2>2 DEF FilePlace
  <2>4. GoesOnAt
    BY <1>1, <1>9, <2>3 DEF GoesOnAt
  <2> QED
    BY <1>1, <1>9, <2>4, ReadsOn DEF Reading
<1> QED
  BY <1>7, <1>8, <1>9

\* A record that Git wrote has a structure.
LEMMA StructureIsValid ==
  ASSUME NEW c, IsChange(c), FileIs(c, Len(Headers(c)), file), FlagsAre(file),
         Len(file.hunks) = Len(c.hunks)
  PROVE  ValidStructure
<1> DEFINE hs == Headers(c)
<1>1. Says(hs, c)
  BY HeadersAre
<1>2. \/ c.kind \in {"binary", "payload"} \/ c.hunks # <<>>
      \/ \E s \in Structures : s \subseteq {hs[m].is : m \in 2 .. Len(hs)}
  BY <1>1 DEF Says
<1>3. CASE c.kind \in {"binary", "payload"}
  BY <1>3, SaysTheSame DEF ValidStructure
<1>4. CASE c.hunks # <<>>
  <2>1. c.hunks \in Seq(Range(c.hunks))
    BY DEF IsChange
  <2>2. IsSeq(c.hunks)
    BY <2>1 DEF IsSeq
  <2>3. Len(c.hunks) # 0
    BY <1>4, <2>2, EmptyIsNone
  <2>4. file.hunks # <<>>
    BY <2>3
  <2> QED
    BY <2>4 DEF ValidStructure
<1>5. CASE /\ c.kind \notin {"binary", "payload"}
           /\ \E s \in Structures : s \subseteq {hs[m].is : m \in 2 .. Len(hs)}
  <2>1. PICK s \in Structures : s \subseteq {hs[m].is : m \in 2 .. Len(hs)}
    BY <1>5
  <2>2. \A m \in 2 .. Len(hs) : hs[m].is \in file.saw
    BY <1>5 DEF FileIs
  <2>3. s \subseteq file.saw
    BY <2>1, <2>2
  <2> QED
    BY <2>3 DEF ValidStructure, Structures
<1> QED
  BY <1>2, <1>3, <1>4, <1>5

LEMMA FileEndsReadsOn ==
  ASSUME ParserInv, WrittenInv, history # None, FileEnds
  PROVE  WrittenInv'
<1>1. /\ doing = "file" /\ (~(index <= Len(patch)) \/ IsRecord(patch[index]))
      /\ UNCHANGED <<history, patch, index, commit, file, next, events>>
      /\ IF ~ValidStructure THEN doing' = "done" /\ outcome' = "Invalid"
         ELSE \/ file.path = None /\ doing' = "patch" /\ outcome' = outcome /\ files' = files
              \/ doing' = "done" /\ outcome' = "Limit"
              \/ doing' = "patch" /\ outcome' = outcome /\ files' = Append(files, file)
  <2>1. /\ doing = "file" /\ (~(index <= Len(patch)) \/ IsRecord(patch[index]))
        /\ UNCHANGED <<history, patch, index, commit, file, next, events>>
    BY DEF FileEnds, Goes, More, AtRecord, This, IsRecord, inputVars
  <2>2. /\ IF ~ValidStructure THEN doing' = "done" /\ outcome' = "Invalid"
           ELSE \/ file.path = None /\ doing' = "patch" /\ outcome' = outcome /\ files' = files
                \/ doing' = "done" /\ outcome' = "Limit"
                \/ doing' = "patch" /\ outcome' = outcome /\ files' = Append(files, file)
    BY DEF FileEnds, Do, Returns
  <2> QED
    BY <2>1, <2>2
<1>2. /\ index \notin 1 .. Len(patch) \/ IsRecord(patch[index])
      /\ FlagsAre(file) /\ IsSeq(file.hunks) /\ files \in Seq(ParsedFile)
      /\ \A n \in 1 .. Len(files) : IsSeq(files[n].hunks)
      /\ file \in ParsedFile
  BY <1>1, TypesAre DEF ParserInv, ParserTypes
<1>3. history \in Histories /\ patch = Written(history) /\ doing = "file"
  BY <1>1, AtPlace
<1>4. PICK k \in 1 .. Len(history) : \E j \in 1 .. Len(history[k].changes) :
        /\ InChange(history, k, j, commit, file, files)
        /\ InFile(history, k, j, index, file)
  BY <1>3, FilePlaceIs
<1>5. PICK j \in 1 .. Len(history[k].changes) :
        /\ InChange(history, k, j, commit, file, files)
        /\ InFile(history, k, j, index, file)
  BY <1>4
<1> DEFINE c == history[k].changes[j]
           p == Written(history)
<1>6. /\ Behind(history, k, j, index) /\ ~Closes(history, k, j, index)
      /\ HasHunks(history, k, j, Len(c.hunks), file)
  BY <1>2, <1>3, <1>5, FileIsComplete
<1>7. /\ commit = history[k].sha /\ file.commit = history[k].sha
      /\ Gathered(p, files) = EventsBefore(history, k, j)
  BY <1>5 DEF InChange
<1>8. /\ FileIs(c, Len(Headers(c)), file) /\ HunksAre(p, c, Len(c.hunks), file)
      /\ Len(file.hunks) = Len(c.hunks)
  BY <1>6 DEF HasHunks, HunksAre
<1>9. IsChange(c)
  BY <1>3, ChangeBegins
<1>10. ValidStructure
  BY <1>2, <1>8, <1>9, StructureIsValid
<1>11. file.path # None
  BY <1>2, <1>8, <1>9, SaysTheSame
<1>12. CASE doing' = "done" /\ outcome' = "Limit"
  BY <1>1, <1>3, <1>12, StopsReading DEF Reading
<1>13. CASE doing' = "patch" /\ outcome' = outcome /\ files' = Append(files, file)
  <2>1. EventsOfFile(p, file) = EventsOfChange(history[k].sha, c)
    BY <1>2, <1>7, <1>8, <1>9, EventsAgree
  <2>2. Gathered(p, Append(files, file)) = Gathered(p, files) \o EventsOfFile(p, file)
    BY <1>2, GatheredMore
  <2>3. EventsBefore(history, k, j + 1) =
          EventsBefore(history, k, j) \o EventsOfChange(history[k].sha, c)
    BY <1>3, EventsGoOn
  <2>4. Gathered(p, files') = EventsBefore(history, k, j + 1)
    BY <1>7, <1>13, <2>1, <2>2, <2>3
  <2>5. j \in 0 .. Len(history[k].changes)
    OBVIOUS
  <2>6. PatchPlace(history, index, history[k].sha, files')
    BY <1>3, <1>6, <2>4, <2>5, RecordEnds
  <2>7. PatchPlace(history, index', commit', files')
    BY <1>1, <1>7, <2>6
  <2>8. GoesOnAt
    BY <1>13, <2>7 DEF GoesOnAt
  <2> QED
    BY <1>1, <1>3, <1>13, <2>8, ReadsOn DEF Reading
<1> QED
  BY <1>1, <1>10, <1>11, <1>12, <1>13

LEMMA HunkLineReadsOn ==
  ASSUME ParserInv, WrittenInv, history # None, HunkLine
  PROVE  WrittenInv'
<1>1. /\ doing = "file" /\ index <= Len(patch) /\ patch[index].is \in {"hunk", "badHunk"}
      /\ ~file.payload /\ UNCHANGED <<history, patch, commit, file, files, next, events>>
      /\ \/ doing' = "done" /\ outcome' = "Limit"
         \/ patch[index].is = "badHunk"
         \/ /\ doing' = "hunk" /\ outcome' = outcome /\ index' = index + 1
            /\ hunk'.at = patch[index].at /\ hunk'.added = <<>> /\ hunk'.previous = FALSE
            /\ hunk'.start = index
  <2>1. /\ doing = "file" /\ index <= Len(patch) /\ patch[index].is \in {"hunk", "badHunk"}
        /\ ~file.payload /\ UNCHANGED <<history, patch, commit, file, files, next, events>>
    BY DEF HunkLine, Goes, More, This, inputVars
  <2>2. \/ doing' = "done" /\ outcome' = "Limit"
        \/ patch[index].is = "badHunk"
        \/ /\ doing' = "hunk" /\ outcome' = outcome /\ index' = index + 1
           /\ hunk' = [NoHunk EXCEPT !.at = patch[index].at, !.old = patch[index].old,
                                     !.new = patch[index].new, !.start = index]
    BY DEF HunkLine, This, Do, Returns, Advance
  <2> QED
    BY <2>1, <2>2 DEF NoHunk
<1>2. index \in 1 .. Len(patch) /\ FlagsAre(file)
  BY <1>1, TypesAre DEF ParserInv
<1>3. history \in Histories /\ patch = Written(history) /\ doing = "file"
  BY <1>1, AtPlace
<1>4. PICK k \in 1 .. Len(history) : \E j \in 1 .. Len(history[k].changes) :
        /\ InChange(history, k, j, commit, file, files)
        /\ InFile(history, k, j, index, file)
  BY <1>3, FilePlaceIs
<1>5. PICK j \in 1 .. Len(history[k].changes) :
        /\ InChange(history, k, j, commit, file, files)
        /\ InFile(history, k, j, index, file)
  BY <1>4
<1>6. AtHunk(history, k, j, index, file)
  BY <1>1, <1>2, <1>3, <1>5, HunkIsHere
<1>7. \A u : u.at = Written(history)[index].at /\ u.added = <<>> /\ u.previous = FALSE
             /\ u.start = index
         => /\ Written(history)[index].is = "hunk"
            /\ \E i \in 1 .. Len(history[k].changes[j].hunks) :
                 \E b \in 0 .. Len(history[k].changes[j].hunks[i].body) :
                   InHunk(history, k, j, i, b, index + 1, file, u)
  BY <1>2, <1>3, <1>6, HunkBegins
<1>8. CASE doing' = "done" /\ outcome' = "Limit"
  BY <1>1, <1>3, <1>8, StopsReading DEF Reading
<1>9. patch[index].is = "hunk"
  <2> DEFINE u == [NoHunk EXCEPT !.at = Written(history)[index].at, !.start = index]
  <2>1. /\ u.at = Written(history)[index].at /\ u.added = <<>> /\ u.previous = FALSE
        /\ u.start = index
    BY DEF NoHunk
  <2> HIDE DEF u
  <2> QED
    BY <1>3, <1>7, <2>1
<1>10. CASE /\ doing' = "hunk" /\ outcome' = outcome /\ index' = index + 1
            /\ hunk'.at = patch[index].at /\ hunk'.added = <<>> /\ hunk'.previous = FALSE
            /\ hunk'.start = index
  <2>1. \E i \in 1 .. Len(history[k].changes[j].hunks) :
          \E b \in 0 .. Len(history[k].changes[j].hunks[i].body) :
            InHunk(history, k, j, i, b, index', file', hunk')
    BY <1>1, <1>3, <1>7, <1>10
  <2>2. InChange(history, k, j, commit', file', files')
    BY <1>1, <1>5
  <2>3. HunkPlace(history, index', commit', file', hunk', files')
    BY <2>1, <2>2 DEF HunkPlace
  <2>4. GoesOnAt
    BY <1>10, <2>3 DEF GoesOnAt
  <2> QED
    BY <1>1, <1>3, <1>10, <2>4, ReadsOn DEF Reading
<1> QED
  BY <1>1, <1>8, <1>9, <1>10

LEMMA MarkedIs ==
  ASSUME NEW h \in InHand
  PROVE  /\ WithoutNewline(h).old = h.old /\ WithoutNewline(h).new = h.new
         /\ WithoutNewline(h).previous = h.previous /\ WithoutNewline(h).at = h.at
         /\ WithoutNewline(h).start = h.start
  BY DEF WithoutNewline, InHand

\* A line that a hunk still lacks is taken.
LEMMA LineIsTaken ==
  ASSUME NEW line, line.op \in {"added", "removed", "context", "marker"}, hunk \in InHand,
         line.op \in OldOps => hunk.old > 0, line.op \in NewOps => hunk.new > 0,
         NEW h, h = HunkAfter(hunk, line)
  PROVE  /\ ~(h.old < 0 \/ h.new < 0)
         /\ Takes(hunk, h, line, index) /\ h.at = hunk.at /\ h.start = hunk.start
<1> USE DEF OldOps, NewOps
<1>1. hunk.old \in Nat /\ hunk.new \in Nat /\ hunk.added \in Seq(Added)
  BY DEF InHand
<1>2. CASE line.op = "added"
  <2>1. h = [hunk EXCEPT !.new = @ - 1, !.previous = TRUE,
                         !.added = Append(@, [line |-> index, newline |-> TRUE])]
    BY <1>2 DEF HunkAfter
  <2>2. /\ h.old = hunk.old /\ h.new = hunk.new - 1 /\ h.previous /\ h.at = hunk.at
        /\ h.start = hunk.start
        /\ h.added = Append(hunk.added, [line |-> index, newline |-> TRUE])
    BY <2>1 DEF InHand
  <2>3. Takes(hunk, h, line, index)
    BY <1>2, <2>2 DEF Takes
  <2> QED
    BY <1>1, <1>2, <2>2, <2>3
<1>3. CASE line.op = "removed"
  <2>1. h = [hunk EXCEPT !.old = @ - 1, !.previous = FALSE]
    BY <1>3 DEF HunkAfter
  <2>2. /\ h.old = hunk.old - 1 /\ h.new = hunk.new /\ ~h.previous /\ h.at = hunk.at
        /\ h.start = hunk.start /\ h.added = hunk.added
    BY <2>1 DEF InHand
  <2>3. Takes(hunk, h, line, index)
    BY <1>3, <2>2 DEF Takes
  <2> QED
    BY <1>1, <1>3, <2>2, <2>3
<1>4. CASE line.op = "context"
  <2>1. h = [hunk EXCEPT !.old = @ - 1, !.new = @ - 1, !.previous = FALSE]
    BY <1>4 DEF HunkAfter
  <2>2. /\ h.old = hunk.old - 1 /\ h.new = hunk.new - 1 /\ ~h.previous /\ h.at = hunk.at
        /\ h.start = hunk.start /\ h.added = hunk.added
    BY <2>1 DEF InHand
  <2>3. Takes(hunk, h, line, index)
    BY <1>4, <2>2 DEF Takes
  <2> QED
    BY <1>1, <1>4, <2>2, <2>3
<1>5. CASE line.op = "marker"
  <2>1. h = WithoutNewline(hunk)
    BY <1>5 DEF HunkAfter
  <2>2. /\ h.old = hunk.old /\ h.new = hunk.new /\ h.previous = hunk.previous /\ h.at = hunk.at
        /\ h.start = hunk.start
    BY <2>1, MarkedIs
  <2>3. Takes(hunk, h, line, index)
    BY <1>5, <2>1, <2>2 DEF Takes
  <2> QED
    BY <1>1, <2>2, <2>3
<1> QED
  BY <1>2, <1>3, <1>4, <1>5

LEMMA HunkPlaceIs ==
  ASSUME ParserInv, WrittenInv, history # None, doing = "hunk"
  PROVE  \E k \in 1 .. Len(history) : \E j \in 1 .. Len(history[k].changes) :
         \E i \in 1 .. Len(history[k].changes[j].hunks) :
         \E b \in 0 .. Len(Body(history, k, j, i)) :
           /\ InChange(history, k, j, commit, file, files)
           /\ InHunk(history, k, j, i, b, index, file, hunk)
           /\ Lacks(Body(history, k, j, i), b, hunk)
<1>1. history \in Histories /\ patch = Written(history)
  BY AtPlace
<1>2. HunkPlace(history, index, commit, file, hunk, files)
  BY AtPlace
<1>3. PICK k \in 1 .. Len(history) : \E j \in 1 .. Len(history[k].changes) :
        /\ InChange(history, k, j, commit, file, files)
        /\ \E i \in 1 .. Len(history[k].changes[j].hunks) :
             \E b \in 0 .. Len(history[k].changes[j].hunks[i].body) :
               InHunk(history, k, j, i, b, index, file, hunk)
  BY <1>2 DEF HunkPlace
<1>4. PICK j \in 1 .. Len(history[k].changes) :
        /\ InChange(history, k, j, commit, file, files)
        /\ \E i \in 1 .. Len(history[k].changes[j].hunks) :
             \E b \in 0 .. Len(history[k].changes[j].hunks[i].body) :
               InHunk(history, k, j, i, b, index, file, hunk)
  BY <1>3
<1>5. PICK i \in 1 .. Len(history[k].changes[j].hunks) :
        \E b \in 0 .. Len(history[k].changes[j].hunks[i].body) :
          InHunk(history, k, j, i, b, index, file, hunk)
  BY <1>4
<1>6. PICK b \in 0 .. Len(Body(history, k, j, i)) : InHunk(history, k, j, i, b, index, file, hunk)
  BY <1>5 DEF Body
<1>7. /\ patch[hunk.start].old = CountOf(Body(history, k, j, i), OldOps)
      /\ patch[hunk.start].new = CountOf(Body(history, k, j, i), NewOps)
      /\ Between(hunk.start, index) = SubSeq(Body(history, k, j, i), 1, b)
  <2>1. FlagsAre(file)
    BY TypesAre DEF ParserInv
  <2>2. Announces(Written(history)[hunk.start], Body(history, k, j, i))
    BY <1>1, <1>6, <2>1, HunkLacks
  <2>3. ReadSoFar(Written(history), hunk.start, index, Body(history, k, j, i), b)
    BY <1>1, <1>6, <2>1, HunkLacks
  <2>4. Between(hunk.start, index) = SubSeq(Body(history, k, j, i), 1, b)
    BY <1>1, <2>3, Zenon DEF Between, ReadSoFar
  <2> QED
    BY <1>1, <2>2, <2>4 DEF Announces
<1>8. /\ patch[hunk.start].old = hunk.old + CountOf(Between(hunk.start, index), OldOps)
      /\ patch[hunk.start].new = hunk.new + CountOf(Between(hunk.start, index), NewOps)
  BY DEF ParserInv, HunkInv, HandInv, Live, Reading
<1>9. Lacks(Body(history, k, j, i), b, hunk)
  BY <1>7, <1>8 DEF Lacks
<1> QED
  BY <1>4, <1>6, <1>9

LEMMA HunkBodyReadsOn ==
  ASSUME ParserInv, WrittenInv, history # None, HunkBody
  PROVE  WrittenInv'
<1> DEFINE h == HunkAfter(hunk, patch[index])
<1>1. /\ doing = "hunk" /\ (hunk.old > 0 \/ hunk.new > 0)
      /\ UNCHANGED <<history, patch, commit, file, files, next, events>>
      /\ index <= Len(patch) /\ ~(h.old < 0 \/ h.new < 0) =>
           hunk' = h /\ index' = index + 1 /\ doing' = doing /\ outcome' = outcome
  BY DEF HunkBody, Goes, More, This, Advance, inputVars
<1>2. hunk \in InHand /\ index \in Nat /\ FlagsAre(file)
  BY TypesAre DEF ParserInv
<1>3. history \in Histories /\ patch = Written(history)
  BY AtPlace
<1>4. PICK k \in 1 .. Len(history) : \E j \in 1 .. Len(history[k].changes) :
        \E i \in 1 .. Len(history[k].changes[j].hunks) :
        \E b \in 0 .. Len(Body(history, k, j, i)) :
           /\ InChange(history, k, j, commit, file, files)
           /\ InHunk(history, k, j, i, b, index, file, hunk)
           /\ Lacks(Body(history, k, j, i), b, hunk)
  BY <1>1, HunkPlaceIs
<1>a. PICK j \in 1 .. Len(history[k].changes) :
        \E i \in 1 .. Len(history[k].changes[j].hunks) :
        \E b \in 0 .. Len(Body(history, k, j, i)) :
           /\ InChange(history, k, j, commit, file, files)
           /\ InHunk(history, k, j, i, b, index, file, hunk)
           /\ Lacks(Body(history, k, j, i), b, hunk)
  BY <1>4
<1>b. PICK i \in 1 .. Len(history[k].changes[j].hunks) :
        \E b \in 0 .. Len(Body(history, k, j, i)) :
           /\ InChange(history, k, j, commit, file, files)
           /\ InHunk(history, k, j, i, b, index, file, hunk)
           /\ Lacks(Body(history, k, j, i), b, hunk)
  BY <1>a
<1>5. PICK b \in 0 .. Len(Body(history, k, j, i)) :
           /\ InChange(history, k, j, commit, file, files)
           /\ InHunk(history, k, j, i, b, index, file, hunk)
           /\ Lacks(Body(history, k, j, i), b, hunk)
  BY <1>b
<1> DEFINE body == Body(history, k, j, i)
           at == HunkAt(history, k, j, i)
<1>6. /\ HasHunks(history, k, j, i - 1, file) /\ hunk.at = history[k].changes[j].hunks[i].at
      /\ hunk.start = at + 1 /\ index = at + (b + 2) /\ BodyIs(Written(history), body, b, hunk)
  BY <1>5 DEF InHunk, Body
<1>7. /\ IsHunk(history[k].changes[j].hunks[i]) /\ IsSeq(body) /\ Len(body) \in Nat /\ at \in Nat
      /\ \A m \in 1 .. Len(body) : /\ at + (m + 1) \in 1 .. Len(Written(history))
                                  /\ Written(history)[at + (m + 1)] = body[m]
  BY <1>3, HunkIs
<1>8. /\ b + 1 \in 1 .. Len(body) /\ b \in 0 .. Len(body) - 1
      /\ body[b + 1].op \in OldOps => hunk.old > 0
      /\ body[b + 1].op \in NewOps => hunk.new > 0
  BY <1>1, <1>2, <1>5, <1>7, HunkIsOpen
<1>9. index \in 1 .. Len(patch) /\ patch[index] = body[b + 1]
  <2>1. at + ((b + 1) + 1) \in 1 .. Len(Written(history))
        /\ Written(history)[at + ((b + 1) + 1)] = body[b + 1]
    BY <1>7, <1>8
  <2>2. at + ((b + 1) + 1) = index
    BY <1>6, <1>7
  <2> QED
    BY <1>3, <2>1, <2>2
<1>10. patch[index].op \in {"added", "removed", "context", "marker"}
  <2>1. DOMAIN body = 1 .. Len(body)
    BY <1>7, SeqFacts
  <2>2. body[b + 1].op \in {"added", "removed", "context", "marker"}
    BY <1>7, <1>8, <2>1 DEF IsHunk, Body
  <2> QED
    BY <1>9, <2>2
<1>11. /\ ~(h.old < 0 \/ h.new < 0)
       /\ Takes(hunk, h, patch[index], index) /\ h.at = hunk.at /\ h.start = hunk.start
  BY <1>2, <1>8, <1>9, <1>10, LineIsTaken
<1> HIDE DEF h
<1>12. hunk' = h /\ index' = index + 1 /\ doing' = doing /\ outcome' = outcome
  BY <1>1, <1>9, <1>11
<1>13. BodyIs(Written(history), body, b + 1, hunk')
  <2>1. Takes(hunk, hunk', body[b + 1], index)
    BY <1>9, <1>11, <1>12
  <2>2. body[b + 1].op \in {"added", "removed", "context", "marker"}
    BY <1>9, <1>10
  <2>3. Written(history)[index] = body[b + 1]
    BY <1>3, <1>9
  <2> QED
    BY <1>2, <1>6, <1>7, <1>8, <2>1, <2>2, <2>3, BodyGoesOn
<1>14. index' = at + ((b + 1) + 2) /\ b + 1 \in 0 .. Len(body)
  BY <1>6, <1>7, <1>8, <1>12
<1>15. InHunk(history, k, j, i, b + 1, index', file', hunk')
  BY <1>1, <1>6, <1>11, <1>12, <1>13, <1>14 DEF InHunk, Body
<1>16. HunkPlace(history, index', commit', file', hunk', files')
  <2>1. InChange(history, k, j, commit', file', files')
    BY <1>1, <1>5
  <2>2. b + 1 \in 0 .. Len(history[k].changes[j].hunks[i].body)
    BY <1>14 DEF Body
  <2> HIDE DEF body, at
  <2> QED
    BY <1>15, <2>1, <2>2 DEF HunkPlace
<1>17. GoesOnAt
  BY <1>1, <1>12, <1>16 DEF GoesOnAt
<1> QED
  BY <1>1, <1>12, <1>17, ReadsOn DEF Reading

LEMMA HunkEndsReadsOn ==
  ASSUME ParserInv, WrittenInv, history # None, HunkEnds
  PROVE  WrittenInv'
<1> DEFINE marked == index <= Len(patch) /\ patch[index].op = "marker"
           stored(h) == Adds(file, file', h)
<1>1. /\ doing = "hunk" /\ hunk.old = 0 /\ hunk.new = 0 /\ doing' = "file" /\ outcome' = outcome
      /\ UNCHANGED <<history, patch, commit, files, next, events>>
      /\ index' = IF marked THEN index + 1 ELSE index
  BY DEF HunkEnds, Goes, More, This, Do, inputVars
<1>2. hunk \in InHand /\ index \in Nat /\ FlagsAre(file) /\ IsSeq(file.hunks) /\ file \in ParsedFile
  BY TypesAre DEF ParserInv, ParserTypes
<1>3. Adds(file, file', IF marked THEN WithoutNewline(hunk) ELSE hunk)
  <2> DEFINE h == IF marked THEN WithoutNewline(hunk) ELSE hunk
             x == [at |-> h.at, added |-> h.added, start |-> h.start, end |-> index]
  <2>1. file' = [file EXCEPT !.hunks = Append(@, x)]
    BY DEF HunkEnds, More, This
  <2>2. x.at = h.at /\ x.added = h.added
    OBVIOUS
  <2> HIDE DEF h, x
  <2>3. /\ file'.hunks = Append(file.hunks, x)
        /\ file'.path = file.path /\ file'.commit = file.commit /\ file'.deleted = file.deleted
        /\ file'.binary = file.binary /\ file'.payload = file.payload /\ file'.saw = file.saw
    BY <1>2, <2>1 DEF ParsedFile
  <2>4. Adds(file, file', h)
    BY <2>2, <2>3 DEF Adds
  <2> QED
    BY <2>4 DEF h
<1>a. file'.commit = file.commit
  BY <1>3 DEF Adds
<1>4. history \in Histories /\ patch = Written(history)
  BY AtPlace
<1>5. PICK k \in 1 .. Len(history) : \E j \in 1 .. Len(history[k].changes) :
        \E i \in 1 .. Len(history[k].changes[j].hunks) :
        \E b \in 0 .. Len(Body(history, k, j, i)) :
           /\ InChange(history, k, j, commit, file, files)
           /\ InHunk(history, k, j, i, b, index, file, hunk)
           /\ Lacks(Body(history, k, j, i), b, hunk)
  BY <1>1, HunkPlaceIs
<1>6. PICK j \in 1 .. Len(history[k].changes) :
        \E i \in 1 .. Len(history[k].changes[j].hunks) :
        \E b \in 0 .. Len(Body(history, k, j, i)) :
           /\ InChange(history, k, j, commit, file, files)
           /\ InHunk(history, k, j, i, b, index, file, hunk)
           /\ Lacks(Body(history, k, j, i), b, hunk)
  BY <1>5
<1>7. PICK i \in 1 .. Len(history[k].changes[j].hunks) :
        \E b \in 0 .. Len(Body(history, k, j, i)) :
           /\ InChange(history, k, j, commit, file, files)
           /\ InHunk(history, k, j, i, b, index, file, hunk)
           /\ Lacks(Body(history, k, j, i), b, hunk)
  BY <1>6
<1>8. PICK b \in 0 .. Len(Body(history, k, j, i)) :
           /\ InChange(history, k, j, commit, file, files)
           /\ InHunk(history, k, j, i, b, index, file, hunk)
           /\ Lacks(Body(history, k, j, i), b, hunk)
  BY <1>7
<1> DEFINE g == history[k].changes[j].hunks[i]
           body == Body(history, k, j, i)
           at == HunkAt(history, k, j, i)
           behind == HunkAt(history, k, j, i + 1)
<1>9. /\ HasHunks(history, k, j, i - 1, file) /\ hunk.at = g.at
      /\ index = at + (b + 2) /\ BodyIs(Written(history), body, b, hunk)
  BY <1>8 DEF InHunk, Body
<1>10. /\ IsHunk(g) /\ IsSeq(body) /\ Len(body) \in Nat /\ at \in Nat /\ body = g.body
       /\ behind = at + (Len(body) + 1)
       /\ \A m \in 1 .. Len(body) : /\ at + (m + 1) \in 1 .. Len(Written(history))
                                   /\ Written(history)[at + (m + 1)] = body[m]
  BY <1>4, HunkIs DEF Body
<1>b. /\ b = Len(body) => index = behind + 1
      /\ b + 1 = Len(body) => b + 1 \in 1 .. Len(body)
      /\ b + 1 = Len(body) =>
           index = behind /\ index + 1 = behind + 1 /\ index = at + ((b + 1) + 1)
  <2> DEFINE l == Len(body)
  <2>1. l \in Nat /\ at \in Nat /\ b \in 0 .. l /\ behind = at + (l + 1) /\ index = at + (b + 2)
    BY <1>9, <1>10
  <2> HIDE DEF l, at, behind
  <2>2. b = l => index = behind + 1
    BY <2>1
  <2>3. b + 1 = l => index = behind /\ index + 1 = behind + 1 /\ index = at + ((b + 1) + 1)
    BY <2>1
  <2>4. b + 1 = l => b + 1 \in 1 .. l
    BY <2>1
  <2> QED
    BY <2>2, <2>3, <2>4 DEF l
<1>11. \/ b = Len(body)
       \/ b \in 0 .. Len(body) - 1 /\ b + 1 = Len(body) /\ body[b + 1].op = "marker"
  <2>1. IsHunk(g) /\ b \in 0 .. Len(g.body) /\ Lacks(g.body, b, hunk)
    BY <1>8, <1>10
  <2>2. \/ b = Len(g.body)
        \/ b \in 0 .. Len(g.body) - 1 /\ b + 1 = Len(g.body) /\ g.body[b + 1].op = "marker"
    BY <1>1, <1>2, <2>1, HunkIsFull
  <2> QED
    BY <1>10, <2>2
<1>12. \A u : /\ u.at = g.at /\ BodyIs(Written(history), body, Len(body), u)
              /\ Adds(file, file', u) /\ index' = behind + 1
         => InFile(history, k, j, index', file')
  <2>1. \A u : /\ u.at = g.at /\ BodyIs(Written(history), body, Len(body), u)
               /\ Adds(file, file', u)
          => InFile(history, k, j, behind + 1, file')
    BY <1>2, <1>4, <1>9, HunkIsStored
  <2> HIDE DEF body, behind, g
  <2> QED
    BY <2>1
<1>13. InFile(history, k, j, index', file')
  <2>1. CASE b = Len(body)
    <3>1. index = behind + 1
      BY <1>b, <2>1
    <3>2. index \notin 1 .. Len(Written(history)) \/ Written(history)[index].op # "marker"
      BY <1>4, <3>1, BehindHunk
    <3>3. Len(patch) \in Nat /\ index \in 1 .. Len(patch) + 1
      BY TypesAre DEF ParserInv
    <3>4. ~marked
      BY <1>4, <3>2, <3>3
    <3>5. Adds(file, file', hunk) /\ index' = index
      BY <1>1, <1>3, <3>4
    <3>6. BodyIs(Written(history), body, Len(body), hunk)
      BY <1>9, <2>1
    <3> HIDE DEF body, behind, g
    <3> QED
      BY <1>9, <1>12, <3>1, <3>5, <3>6
  <2>2. CASE b \in 0 .. Len(body) - 1 /\ b + 1 = Len(body) /\ body[b + 1].op = "marker"
    <3> DEFINE h == WithoutNewline(hunk)
    <3>1. index = behind /\ index + 1 = behind + 1 /\ index = at + ((b + 1) + 1)
      BY <1>b, <2>2
    <3>2. b + 1 \in 1 .. Len(body)
      BY <1>b, <2>2
    <3>3. index \in 1 .. Len(Written(history)) /\ Written(history)[index] = body[b + 1]
      BY <1>10, <3>1, <3>2
    <3>4. marked
      BY <1>4, <2>2, <3>3
    <3>5. Adds(file, file', h) /\ index' = index + 1
      BY <1>1, <1>3, <3>4
    <3>6. h.at = hunk.at /\ h.previous = hunk.previous
      BY <1>2, MarkedIs
    <3>7. Takes(hunk, h, body[b + 1], index)
      BY <2>2, <3>6 DEF Takes
    <3>8. BodyIs(Written(history), body, b + 1, h)
      BY <1>2, <1>9, <1>10, <2>2, <3>3, <3>7, BodyGoesOn
    <3>9. BodyIs(Written(history), body, Len(body), h)
      BY <2>2, <3>8
    <3> HIDE DEF body, behind, g, h, at
    <3> QED
      BY <1>9, <1>12, <3>1, <3>5, <3>6, <3>9
  <2> QED
    BY <1>11, <2>1, <2>2
<1>14. InChange(history, k, j, commit', file', files')
  BY <1>1, <1>8, <1>a DEF InChange
<1>15. FilePlace(history, index', commit', file', files')
  BY <1>13, <1>14 DEF FilePlace
<1>16. GoesOnAt
  BY <1>1, <1>15 DEF GoesOnAt
<1> QED
  BY <1>1, <1>16, ReadsOn DEF Reading

-----------------------------------------------------------------------------
(* The steps of the emission.                                              *)

\* The events of a file are none, one blob, or one for each of its hunks.
BlobOf(f) == [commit |-> f.commit, path |-> f.path, is |-> "blob", at |-> 0, added |-> <<>>]
FragmentOf(p, f, i) ==
  [commit |-> f.commit, path |-> f.path, is |-> "fragment", at |-> f.hunks[i].at,
   added |-> Shown(p, f.hunks[i].added)]
Fragments(p, f, evs) ==
  Len(evs) = Len(f.hunks) /\ \A i \in 1 .. Len(f.hunks) : evs[i] = FragmentOf(p, f, i)

LEMMA EventsOfFileAre ==
  ASSUME NEW p, NEW f, IsSeq(f.hunks), FlagsAre(f)
  PROVE  /\ f.deleted \/ (f.binary /\ f.path \notin Archives) => Len(EventsOfFile(p, f)) = 0
         /\ ~f.deleted /\ f.binary /\ f.path \in Archives =>
              Len(EventsOfFile(p, f)) = 1 /\ EventsOfFile(p, f)[1] = BlobOf(f)
         /\ ~f.deleted /\ ~f.binary => Fragments(p, f, EventsOfFile(p, f))
<1>1. Len(f.hunks) \in Nat /\ DOMAIN f.hunks = 1 .. Len(f.hunks)
  BY SeqFacts
<1> DEFINE s == [i \in DOMAIN f.hunks |-> FragmentOf(p, f, i)]
<1>2. CASE f.deleted \/ (f.binary /\ f.path \notin Archives)
  <2>1. EventsOfFile(p, f) = <<>>
    BY <1>2 DEF EventsOfFile
  <2>2. Len(EventsOfFile(p, f)) = 0
    BY <2>1, TupleIsSeq
  <2> QED
    BY <1>2, <2>2
<1>3. CASE ~f.deleted /\ f.binary /\ f.path \in Archives
  <2>1. EventsOfFile(p, f) = <<BlobOf(f)>>
    BY <1>3 DEF EventsOfFile, BlobOf
  <2>2. Len(EventsOfFile(p, f)) = 1 /\ EventsOfFile(p, f)[1] = BlobOf(f)
    BY <2>1, TupleIsSeq
  <2> QED
    BY <1>3, <2>2
<1>4. CASE ~f.deleted /\ ~f.binary
  <2>1. EventsOfFile(p, f) = s
    BY <1>4 DEF EventsOfFile, FragmentOf
  <2>2. /\ s = [i \in 1 .. Len(f.hunks) |-> s[i]]
        /\ \A i \in 1 .. Len(f.hunks) : s[i] = FragmentOf(p, f, i)
    BY <1>1
  <2> HIDE DEF s
  <2>3. Len(s) = Len(f.hunks)
    BY <1>1, <2>2, FunctionIsSeq
  <2> QED
    BY <1>4, <2>1, <2>2, <2>3 DEF Fragments
<1> QED
  BY <1>2, <1>3, <1>4 DEF FlagsAre

LEMMA EmitPlaceIs ==
  ASSUME ParserInv, WrittenInv, history # None, doing = "emit"
  PROVE  /\ history \in Histories /\ patch = Written(history) /\ outcome = "Continue"
         /\ Gathered(patch, files) = Meaning(history)
         /\ FilesAre(files) /\ Len(files) \in Nat
         /\ \E n, m \in Nat : /\ next = [file |-> n + 1, hunk |-> m + 1]
                              /\ Emitted(patch, files, n, m, events)
                              /\ m > 0 => ~files[n + 1].binary
<1>1. history \in Histories /\ patch = Written(history) /\ outcome = "Continue"
  BY AtPlace
<1>2. EmitPlace(history, next, files, events)
  BY AtPlace
<1>3. FilesAre(files) /\ Len(files) \in Nat
  BY TypesAre DEF ParserInv, FilesAre
<1> QED
  BY <1>1, <1>2, <1>3 DEF EmitPlace

\* Emission goes on, or it stops with what it has emitted.
LEMMA EmitsOn ==
  ASSUME ParserInv, WrittenInv, history # None, doing = "emit", UNCHANGED <<history, patch, files>>,
         NEW n \in Nat, NEW m \in Nat, Emitted(patch, files, n, m, events'),
         \/ /\ doing' = "emit" /\ outcome' = outcome /\ next' = [file |-> n + 1, hunk |-> m + 1]
            /\ m > 0 => ~files[n + 1].binary
         \/ doing' = "done" /\ outcome' \notin {"Continue", "Invalid"}
  PROVE  WrittenInv'
<1>1. /\ history \in Histories /\ patch = Written(history) /\ outcome = "Continue"
      /\ Gathered(patch, files) = Meaning(history) /\ FilesAre(files)
  BY EmitPlaceIs
<1>2. /\ history' \in Histories /\ patch' = Written(history')
      /\ Emitted(Written(history'), files', n, m, events')
      /\ Gathered(Written(history'), files') = Meaning(history')
  BY <1>1
<1>3. CASE /\ doing' = "emit" /\ outcome' = outcome /\ next' = [file |-> n + 1, hunk |-> m + 1]
           /\ m > 0 => ~files[n + 1].binary
  <2>1. EmitPlace(history', next', files', events')
    BY <1>2, <1>3 DEF EmitPlace
  <2>2. Place'
    BY <1>3, <2>1 DEF Place
  <2> QED
    BY <1>1, <1>2, <1>3, <2>2 DEF WrittenInv, Reading
<1>4. CASE doing' = "done" /\ outcome' \notin {"Continue", "Invalid"}
  <2>1. IsPrefix(events', Gathered(patch, files))
    BY <1>1, EmittedBegins
  <2>2. DonePlace(history', outcome', events')
    BY <1>1, <1>4, <2>1 DEF DonePlace
  <2>3. Place'
    BY <1>4, <2>2 DEF Place
  <2> QED
    BY <1>2, <1>4, <2>3 DEF WrittenInv, Reading
<1> QED
  BY <1>3, <1>4

LEMMA ParseEndsEmits ==
  ASSUME ParserInv, WrittenInv, history # None, ParseEnds
  PROVE  WrittenInv'
<1>1. /\ doing = "patch" /\ ~(index <= Len(patch)) /\ doing' = "emit" /\ outcome' = outcome
      /\ UNCHANGED <<history, patch, files, next, events>>
  BY DEF ParseEnds, Goes, More, Do, inputVars, parseVars
<1>2. /\ index \notin 1 .. Len(patch) /\ FilesAre(files)
  BY <1>1, TypesAre DEF ParserInv
<1>3. /\ history \in Histories /\ patch = Written(history) /\ outcome = "Continue"
      /\ PatchPlace(history, index, commit, files)
      /\ next = [file |-> 1, hunk |-> 1] /\ events = <<>>
  BY <1>1, AtPlace DEF Reading
<1>4. Gathered(Written(history), files) = Meaning(history)
  BY <1>2, <1>3, EndIsHere
<1>5. Emitted(Written(history), files, 0, 0, events)
  <2>1. 0 \in 0 .. Len(files)
    BY <1>2 DEF FilesAre
  <2>2. Emitted(Written(history), files, 0, 0, UpTo(FileEvents(Written(history), files), 0))
    BY <1>2, <2>1, EmittedNext
  <2>3. Len(files) \in Nat /\ DOMAIN FileEvents(Written(history), files) = 1 .. Len(files)
    BY <1>2, EventsAre
  <2>4. UpTo(FileEvents(Written(history), files), 0) = <<>>
    BY <2>3, UpToSteps
  <2> QED
    BY <1>3, <2>2, <2>4
<1>6. 0 \in Nat /\ next = [file |-> 0 + 1, hunk |-> 0 + 1] /\ (0 > 0 => ~files[0 + 1].binary)
  BY <1>3
<1>7. EmitPlace(history', next', files', events')
  BY <1>1, <1>4, <1>5, <1>6 DEF EmitPlace
<1>8. Place'
  BY <1>1, <1>7 DEF Place
<1>9. history' \in Histories /\ patch' = Written(history') /\ outcome' = "Continue"
  BY <1>1, <1>3
<1> QED
  BY <1>1, <1>8, <1>9 DEF WrittenInv, Reading

\* The file that is in hand, and how many of its events are emitted.
LEMMA FileInHand ==
  ASSUME ParserInv, WrittenInv, history # None, Emitting
  PROVE  \E n \in 0 .. Len(files) - 1 : \E m \in 0 .. Len(EventsOfFile(patch, files[n + 1])) :
           /\ next.file = n + 1 /\ next.hunk = m + 1 /\ next = [file |-> n + 1, hunk |-> m + 1]
           /\ Parsed = files[n + 1] /\ IsSeq(Parsed.hunks) /\ FlagsAre(Parsed)
           /\ Emitted(patch, files, n, m, events) /\ (m > 0 => ~Parsed.binary)
<1>1. doing = "emit" /\ next.file <= Len(files)
  BY DEF Emitting
<1>2. FilesAre(files) /\ Len(files) \in Nat
  BY <1>1, EmitPlaceIs
<1>3. PICK n \in Nat, m \in Nat : /\ next = [file |-> n + 1, hunk |-> m + 1]
                                  /\ Emitted(patch, files, n, m, events)
                                  /\ m > 0 => ~files[n + 1].binary
  BY <1>1, EmitPlaceIs
<1>4. next.file = n + 1 /\ next.hunk = m + 1
  BY <1>3
<1>5. n \in 0 .. Len(files) - 1 /\ n + 1 \in 1 .. Len(files) /\ n # Len(files)
  BY <1>1, <1>2, <1>4
<1>6. m \in 0 .. Len(EventsOfFile(patch, files[n + 1]))
  BY <1>3, <1>5 DEF Emitted
<1>7. Parsed = files[n + 1]
  BY <1>4 DEF Parsed
<1>8. IsSeq(files[n + 1].hunks)
  BY <1>2, <1>5 DEF FilesAre
<1>9. FlagsAre(files[n + 1])
  <2>1. files \in Seq(ParsedFile)
    BY TypesAre DEF ParserInv
  <2>2. files[n + 1] \in ParsedFile
    BY <1>5, <2>1
  <2> QED
    BY <2>2 DEF ParsedFile, FlagsAre
<1> QED
  BY <1>3, <1>4, <1>5, <1>6, <1>7, <1>8, <1>9

LEMMA SkipFileEmits ==
  ASSUME ParserInv, WrittenInv, history # None, SkipFile
  PROVE  WrittenInv'
<1>1. /\ Emitting /\ UNCHANGED <<history, patch, files, doing, outcome, events>>
      /\ next' = [file |-> next.file + 1, hunk |-> 1]
      /\ \/ Parsed.deleted
         \/ Parsed.binary /\ Parsed.path \notin Archives
         \/ ~Parsed.binary /\ next.hunk > Len(Parsed.hunks)
  BY DEF SkipFile, NextFile, inputVars, parseVars
<1>2. doing = "emit"
  BY <1>1 DEF Emitting
<1>3. FilesAre(files) /\ Len(files) \in Nat
  BY <1>2, EmitPlaceIs
<1>4. PICK n \in 0 .. Len(files) - 1 : \E m \in 0 .. Len(EventsOfFile(patch, files[n + 1])) :
           /\ next.file = n + 1 /\ next.hunk = m + 1 /\ next = [file |-> n + 1, hunk |-> m + 1]
           /\ Parsed = files[n + 1] /\ IsSeq(Parsed.hunks) /\ FlagsAre(Parsed)
           /\ Emitted(patch, files, n, m, events) /\ (m > 0 => ~Parsed.binary)
  BY <1>1, FileInHand
<1>5. PICK m \in 0 .. Len(EventsOfFile(patch, files[n + 1])) :
           /\ next.file = n + 1 /\ next.hunk = m + 1 /\ next = [file |-> n + 1, hunk |-> m + 1]
           /\ Parsed = files[n + 1] /\ IsSeq(Parsed.hunks) /\ FlagsAre(Parsed)
           /\ Emitted(patch, files, n, m, events) /\ (m > 0 => ~Parsed.binary)
  BY <1>4
<1> DEFINE f == files[n + 1]
           l == Len(EventsOfFile(patch, f))
<1>6. m \in 0 .. l /\ (Len(f.hunks) \in Nat)
  BY <1>5, SeqFacts
<1>7. \/ l = 0
      \/ l = Len(f.hunks) /\ m + 1 > Len(f.hunks)
  <2>0. \/ f.deleted \/ (f.binary /\ f.path \notin Archives)
        \/ ~f.binary /\ m + 1 > Len(f.hunks)
    BY <1>1, <1>5
  <2>1. CASE f.deleted \/ (f.binary /\ f.path \notin Archives)
    BY <1>5, <2>1, EventsOfFileAre
  <2>2. CASE ~f.deleted /\ ~f.binary /\ m + 1 > Len(f.hunks)
    <3>1. IsSeq(f.hunks) /\ FlagsAre(f)
      BY <1>5
    <3> HIDE DEF f
    <3>2. Len(EventsOfFile(patch, f)) = Len(f.hunks)
      BY <2>2, <3>1, EventsOfFileAre DEF Fragments
    <3> QED
      BY <2>2, <3>2
  <2> QED
    BY <2>0, <2>1, <2>2
<1>8. m = l
  <2> HIDE DEF l, f
  <2> DEFINE k == Len(f.hunks)
  <2>1. m \in 0 .. l /\ k \in Nat /\ (l = 0 \/ (l = k /\ m + 1 > k))
    BY <1>6, <1>7
  <2> HIDE DEF k
  <2> QED
    BY <2>1
<1>9. Emitted(patch, files, n, Len(EventsOfFile(patch, files[n + 1])), events)
  BY <1>5, <1>8
<1>10. Emitted(patch, files, n + 1, 0, events)
  BY <1>3, <1>9, EmittedFile
<1>11. n + 1 \in Nat /\ 0 \in Nat /\ next' = [file |-> (n + 1) + 1, hunk |-> 0 + 1] /\ ~(0 > 0)
  BY <1>1, <1>3, <1>5
<1>12. Emitted(patch, files, n + 1, 0, events')
  BY <1>1, <1>10
<1> QED
  BY <1>1, <1>2, <1>11, <1>12, EmitsOn

LEMMA EmitHunkEmits ==
  ASSUME ParserInv, WrittenInv, history # None, EmitHunk
  PROVE  WrittenInv'
<1> DEFINE h == Parsed.hunks[next.hunk]
           e == [commit |-> Parsed.commit, path |-> Parsed.path, is |-> "fragment", at |-> h.at,
                 added |-> Shown(patch, h.added)]
<1>1. /\ Emitting /\ ~Parsed.deleted /\ ~Parsed.binary /\ next.hunk <= Len(Parsed.hunks)
      /\ UNCHANGED <<history, patch, files>>
      /\ next' = [next EXCEPT !.hunk = @ + 1]
      /\ \/ UNCHANGED <<doing, outcome>>
         \/ doing' = "done" /\ outcome' \in {"Stop", "Callback"}
  BY DEF EmitHunk, Emit, Returns, inputVars, parseVars
<1>2. events' = Append(events, e)
  BY DEF EmitHunk, Emit, Shown
<1>3. doing = "emit"
  BY <1>1 DEF Emitting
<1>4. FilesAre(files) /\ Len(files) \in Nat
  BY <1>3, EmitPlaceIs
<1>5. PICK n \in 0 .. Len(files) - 1 : \E m \in 0 .. Len(EventsOfFile(patch, files[n + 1])) :
           /\ next.file = n + 1 /\ next.hunk = m + 1 /\ next = [file |-> n + 1, hunk |-> m + 1]
           /\ Parsed = files[n + 1] /\ IsSeq(Parsed.hunks) /\ FlagsAre(Parsed)
           /\ Emitted(patch, files, n, m, events) /\ (m > 0 => ~Parsed.binary)
  BY <1>1, FileInHand
<1>6. PICK m \in 0 .. Len(EventsOfFile(patch, files[n + 1])) :
           /\ next.file = n + 1 /\ next.hunk = m + 1 /\ next = [file |-> n + 1, hunk |-> m + 1]
           /\ Parsed = files[n + 1] /\ IsSeq(Parsed.hunks) /\ FlagsAre(Parsed)
           /\ Emitted(patch, files, n, m, events) /\ (m > 0 => ~Parsed.binary)
  BY <1>5
<1> DEFINE f == files[n + 1]
           all == EventsOfFile(patch, f)
<1>7. Fragments(patch, f, all)
  <2>1. IsSeq(f.hunks) /\ FlagsAre(f) /\ ~f.deleted /\ ~f.binary
    BY <1>1, <1>6
  <2> QED
    BY <2>1, EventsOfFileAre
<1>8. m \in 0 .. Len(all) - 1 /\ m + 1 \in 1 .. Len(f.hunks) /\ m \in Nat /\ m + 1 \in Nat
  <2> DEFINE l == Len(f.hunks)
  <2>1. l \in Nat /\ m \in 0 .. l /\ m + 1 <= l /\ Len(all) = l
    BY <1>1, <1>6, <1>7, SeqFacts DEF Fragments
  <2> HIDE DEF l, all
  <2>2. m \in 0 .. Len(all) - 1 /\ m + 1 \in 1 .. l /\ m \in Nat /\ m + 1 \in Nat
    BY <2>1
  <2> QED
    BY <2>2 DEF l
<1>9. all[m + 1] = e
  <2>1. all[m + 1] = FragmentOf(patch, f, m + 1)
    BY <1>7, <1>8 DEF Fragments
  <2>2. Parsed = f /\ next.hunk = m + 1
    BY <1>6
  <2> QED
    BY <2>1, <2>2 DEF FragmentOf
<1>10. Emitted(patch, files, n, m + 1, events')
  <2>1. Emitted(patch, files, n, m + 1, Append(events, EventsOfFile(patch, files[n + 1])[m + 1]))
    BY <1>4, <1>6, <1>8, EmittedMore
  <2> HIDE DEF e
  <2> QED
    BY <1>2, <1>9, <2>1
<1>11. /\ n \in Nat /\ next' = [file |-> n + 1, hunk |-> (m + 1) + 1]
       /\ (m + 1 > 0 => ~files[n + 1].binary)
  BY <1>1, <1>4, <1>6
<1>12. \/ doing' = "emit" /\ outcome' = outcome
       \/ doing' = "done" /\ outcome' \notin {"Continue", "Invalid"}
  BY <1>1, <1>3
<1> HIDE DEF f, all, e, h
<1> QED
  BY <1>1, <1>3, <1>8, <1>10, <1>11, <1>12, EmitsOn

LEMMA VisitBlobEmits ==
  ASSUME ParserInv, WrittenInv, history # None, VisitBlob
  PROVE  WrittenInv'
<1> DEFINE e == [commit |-> Parsed.commit, path |-> Parsed.path, is |-> "blob", at |-> 0,
                 added |-> <<>>]
<1>1. /\ Emitting /\ ~Parsed.deleted /\ Parsed.binary /\ Parsed.path \in Archives
      /\ UNCHANGED <<history, patch, files>>
      /\ next' = [file |-> next.file + 1, hunk |-> 1]
      /\ \/ doing' = "done" /\ outcome' = "Failed" /\ events' = events
         \/ /\ events' = Append(events, e)
            /\ \/ UNCHANGED <<doing, outcome>>
               \/ doing' = "done" /\ outcome' \in {"Stop", "Callback"}
  BY DEF VisitBlob, NextFile, Emit, Returns, inputVars, parseVars
<1>3. doing = "emit"
  BY <1>1 DEF Emitting
<1>4. FilesAre(files) /\ Len(files) \in Nat
  BY <1>3, EmitPlaceIs
<1>5. PICK n \in 0 .. Len(files) - 1 : \E m \in 0 .. Len(EventsOfFile(patch, files[n + 1])) :
           /\ next.file = n + 1 /\ next.hunk = m + 1 /\ next = [file |-> n + 1, hunk |-> m + 1]
           /\ Parsed = files[n + 1] /\ IsSeq(Parsed.hunks) /\ FlagsAre(Parsed)
           /\ Emitted(patch, files, n, m, events) /\ (m > 0 => ~Parsed.binary)
  BY <1>1, FileInHand
<1>6. PICK m \in 0 .. Len(EventsOfFile(patch, files[n + 1])) :
           /\ next.file = n + 1 /\ next.hunk = m + 1 /\ next = [file |-> n + 1, hunk |-> m + 1]
           /\ Parsed = files[n + 1] /\ IsSeq(Parsed.hunks) /\ FlagsAre(Parsed)
           /\ Emitted(patch, files, n, m, events) /\ (m > 0 => ~Parsed.binary)
  BY <1>5
<1> DEFINE f == files[n + 1]
           all == EventsOfFile(patch, f)
<1>7. Len(all) = 1 /\ all[1] = e
  <2>1. IsSeq(f.hunks) /\ FlagsAre(f) /\ ~f.deleted /\ f.binary /\ f.path \in Archives /\ Parsed = f
    BY <1>1, <1>6
  <2>2. Len(all) = 1 /\ all[1] = BlobOf(f)
    BY <2>1, EventsOfFileAre
  <2> QED
    BY <2>1, <2>2 DEF BlobOf
<1>8. m = 0 /\ 0 \in 0 .. Len(all) - 1 /\ n \in Nat /\ n + 1 \in Nat /\ 0 \in Nat
  <2> HIDE DEF all
  <2>1. m = 0
    BY <1>1, <1>6
  <2> QED
    BY <1>4, <1>7, <2>1
<1>9. Emitted(patch, files, n, 0, events)
  BY <1>6, <1>8
<1>10. CASE doing' = "done" /\ outcome' = "Failed" /\ events' = events
  <2>1. outcome' \notin {"Continue", "Invalid"}
    BY <1>10
  <2>2. Emitted(patch, files, n, 0, events')
    BY <1>9, <1>10
  <2> QED
    BY <1>1, <1>3, <1>8, <1>10, <2>1, <2>2, EmitsOn
<1>11. CASE /\ events' = Append(events, e)
            /\ \/ UNCHANGED <<doing, outcome>>
               \/ doing' = "done" /\ outcome' \in {"Stop", "Callback"}
  <2>1. Emitted(patch, files, n, 0 + 1, Append(events, EventsOfFile(patch, files[n + 1])[0 + 1]))
    BY <1>4, <1>8, <1>9, EmittedMore
  <2>2. Emitted(patch, files, n, 1, Append(events, EventsOfFile(patch, files[n + 1])[1]))
    BY <2>1
  <2>3. Emitted(patch, files, n, Len(EventsOfFile(patch, files[n + 1])), events')
    <3> HIDE DEF e
    <3> QED
      BY <1>7, <1>11, <2>2
  <2>4. Emitted(patch, files, n + 1, 0, events')
    BY <1>4, <2>3, EmittedFile
  <2>5. next' = [file |-> (n + 1) + 1, hunk |-> 0 + 1] /\ ~(0 > 0)
    BY <1>1, <1>6
  <2>6. \/ doing' = "emit" /\ outcome' = outcome
        \/ doing' = "done" /\ outcome' \notin {"Continue", "Invalid"}
    BY <1>3, <1>11
  <2> HIDE DEF f, all, e
  <2> QED
    BY <1>1, <1>3, <1>8, <2>4, <2>5, <2>6, EmitsOn
<1> QED
  BY <1>1, <1>10, <1>11

LEMMA VisitEndsEmits ==
  ASSUME ParserInv, WrittenInv, history # None, VisitEnds
  PROVE  WrittenInv'
<1>1. /\ doing = "emit" /\ next.file > Len(files) /\ doing' = "done" /\ outcome' = outcome
      /\ UNCHANGED <<history, patch, files, events>>
  BY DEF VisitEnds, Do, inputVars, parseVars
<1>2. /\ history \in Histories /\ patch = Written(history) /\ outcome = "Continue"
      /\ Gathered(patch, files) = Meaning(history) /\ Len(files) \in Nat
  BY <1>1, EmitPlaceIs
<1>3. PICK n \in Nat, m \in Nat : /\ next = [file |-> n + 1, hunk |-> m + 1]
                                  /\ Emitted(patch, files, n, m, events)
  BY <1>1, EmitPlaceIs
<1>4. ~(n \in 0 .. Len(files) - 1)
  BY <1>1, <1>2, <1>3
<1>5. events = Gathered(patch, files)
  BY <1>3, <1>4 DEF Emitted
<1>6. events' = Meaning(history) /\ IsPrefix(events', Meaning(history))
  BY <1>1, <1>2, <1>5, HistoryEventsAre, WholeIsPrefix
<1>7. DonePlace(history', outcome', events')
  BY <1>1, <1>6 DEF DonePlace
<1>8. Place'
  BY <1>1, <1>7 DEF Place
<1>9. history' \in Histories /\ patch' = Written(history') /\ outcome' = "Continue"
  BY <1>1, <1>2
<1> QED
  BY <1>1, <1>8, <1>9 DEF WrittenInv, Reading

-----------------------------------------------------------------------------
(* What the parser makes of what Git wrote.                                *)

LEMMA WritingStarts ==
  PatchInit => WrittenInv
<1> SUFFICES ASSUME PatchInit, history # None PROVE WrittenInv
  BY DEF WrittenInv
<1>1. /\ doing = "stderr" /\ outcome = "Continue" /\ index = 1 /\ files = <<>> /\ commit = None
      /\ next = [file |-> 1, hunk |-> 1] /\ events = <<>>
  BY DEF PatchInit
<1>2. history \in Histories /\ patch = Written(history)
  BY DEF PatchInit
<1>3. Place
  BY <1>1 DEF Place
<1> QED
  BY <1>1, <1>2, <1>3 DEF WrittenInv

\* A step that changes nothing that counts.
LEMMA StaysAtPlace ==
  ASSUME WrittenInv,
         UNCHANGED <<history, patch, doing, outcome, index, commit, file, hunk, files, next, events>>
  PROVE  WrittenInv'
<1>1. CASE history # None
  <2>1. Place'
    <3>1. Place
      BY <1>1 DEF WrittenInv
    <3> QED
      BY <3>1 DEF Place
  <2> QED
    BY <2>1 DEF WrittenInv
<1>2. CASE history = None
  BY <1>2 DEF WrittenInv
<1> QED
  BY <1>1, <1>2

LEMMA CancelStops ==
  ASSUME ParserInv, WrittenInv, history # None, IsCancelled
  PROVE  WrittenInv'
<1>1. /\ doing' = "done" /\ outcome' = "Cancelled" /\ doing # "done"
      /\ UNCHANGED <<history, patch, files, events>>
  BY DEF IsCancelled, Polls, Returns, inputVars, parseVars
<1>2. CASE doing \in Reading
  BY <1>1, <1>2, StopsReading
<1>3. CASE doing = "emit"
  <2>1. PICK n \in Nat, m \in Nat : Emitted(patch, files, n, m, events)
    BY <1>3, EmitPlaceIs
  <2>2. Emitted(patch, files, n, m, events')
    BY <1>1, <2>1
  <2> QED
    BY <1>1, <1>3, <2>2, EmitsOn
<1>4. doing \in Reading \cup {"emit", "done"}
  BY DEF ParserInv, ParserTypes
<1> QED
  BY <1>1, <1>2, <1>3, <1>4

LEMMA WritingKeeps ==
  ParserInv /\ WrittenInv /\ [PatchNext]_patchVars => WrittenInv'
<1> SUFFICES ASSUME ParserInv, WrittenInv, [PatchNext]_patchVars PROVE WrittenInv'
  OBVIOUS
<1>1. CASE UNCHANGED patchVars \/ CancelVisit \/ Done
  <2>1. UNCHANGED <<history, patch, doing, outcome, index, commit, file, hunk, files, next, events>>
    BY <1>1 DEF CancelVisit, Done, patchVars, inputVars, parseVars
  <2> QED
    BY <2>1, StaysAtPlace
<1>2. CASE history = None
  <2>1. history' = history
    <3>1. CASE Parse
      BY <3>1 DEF Parse, SplitLines, CommitLine, HeaderLine, DiffLine, Preamble, ParseEnds, FileLine,
                  FileEnds, HunkLine, HunkBody, HunkEnds, Goes, inputVars
    <3>2. CASE IsCancelled \/ StderrIssue
      BY <3>2 DEF IsCancelled, StderrIssue, inputVars
    <3>3. CASE SkipFile \/ EmitHunk \/ VisitBlob \/ VisitEnds
      BY <3>3 DEF SkipFile, EmitHunk, VisitBlob, VisitEnds, inputVars
    <3>4. CASE UNCHANGED patchVars \/ CancelVisit \/ Done
      BY <3>4 DEF CancelVisit, Done, patchVars, inputVars
    <3> QED
      BY <3>1, <3>2, <3>3, <3>4 DEF PatchNext
  <2> QED
    BY <1>2, <2>1 DEF WrittenInv
<1>3. CASE history # None /\ Parse
  <2> USE <1>3
  <2>1. CASE SplitLines
    BY <2>1, SplitReadsOn
  <2>2. CASE CommitLine
    BY <2>2, CommitReadsOn
  <2>3. CASE HeaderLine
    BY <2>3, HeaderReadsOn
  <2>4. CASE DiffLine
    BY <2>4, DiffReadsOn
  <2>5. CASE Preamble
    BY <2>5, PreambleIsNone
  <2>6. CASE ParseEnds
    BY <2>6, ParseEndsEmits
  <2>7. CASE FileLine
    BY <2>7, FileLineReadsOn
  <2>8. CASE FileEnds
    BY <2>8, FileEndsReadsOn
  <2>9. CASE HunkLine
    BY <2>9, HunkLineReadsOn
  <2>10. CASE HunkBody
    BY <2>10, HunkBodyReadsOn
  <2>11. CASE HunkEnds
    BY <2>11, HunkEndsReadsOn
  <2> QED
    BY <2>1, <2>2, <2>3, <2>4, <2>5, <2>6, <2>7, <2>8, <2>9, <2>10, <2>11 DEF Parse
<1>4. CASE history # None /\ IsCancelled
  BY <1>4, CancelStops
<1>5. CASE history # None /\ StderrIssue
  BY <1>5, StderrReadsOn
<1>6. CASE history # None /\ SkipFile
  BY <1>6, SkipFileEmits
<1>7. CASE history # None /\ EmitHunk
  BY <1>7, EmitHunkEmits
<1>8. CASE history # None /\ VisitBlob
  BY <1>8, VisitBlobEmits
<1>9. CASE history # None /\ VisitEnds
  BY <1>9, VisitEndsEmits
<1> QED
  BY <1>1, <1>2, <1>3, <1>4, <1>5, <1>6, <1>7, <1>8, <1>9 DEF PatchNext

LEMMA WrittenInvIsEnough ==
  ParserInv /\ WrittenInv => ReadAsWritten
<1> SUFFICES ASSUME ParserInv, WrittenInv, history # None
             PROVE  /\ IsPrefix(events, Meaning(history))
                    /\ doing = "done" /\ outcome = "Continue" => events = Meaning(history)
                    /\ outcome # "Invalid"
  BY DEF ReadAsWritten
<1>1. history \in Histories /\ outcome # "Invalid"
  BY AtPlace
<1>2. CASE doing \in Reading
  <2>1. events = <<>> /\ doing # "done"
    BY <1>2, AtPlace DEF Reading
  <2> QED
    BY <1>1, <2>1, HistoryEventsAre, NothingIsPrefix
<1>3. CASE doing = "emit"
  <2>1. Gathered(patch, files) = Meaning(history) /\ FilesAre(files)
    BY <1>3, EmitPlaceIs
  <2>2. PICK n \in Nat, m \in Nat : Emitted(patch, files, n, m, events)
    BY <1>3, EmitPlaceIs
  <2>3. IsPrefix(events, Gathered(patch, files))
    BY <2>1, <2>2, EmittedBegins
  <2> QED
    BY <1>1, <1>3, <2>1, <2>3
<1>4. CASE doing = "done"
  <2>1. DonePlace(history, outcome, events)
    BY <1>4, AtPlace
  <2> QED
    BY <1>1, <2>1 DEF DonePlace
<1>5. doing \in Reading \cup {"emit", "done"}
  BY DEF ParserInv, ParserTypes
<1> QED
  BY <1>2, <1>3, <1>4, <1>5

\* Whatever Git was asked to print, and wherever a limit, the token or the callback stops the
\* visit: the fragments that were emitted are what the commits added, in their order and with
\* their newlines, all of them if the visit ends normally, and nothing that Git writes is refused.
THEOREM HistoryIsReadAsWritten == PatchSpec => []ReadAsWritten
<1>1. PatchInit => ParserInv /\ WrittenInv
  BY ParserStarts, WritingStarts
<1>2. ParserInv /\ WrittenInv /\ [PatchNext]_patchVars => ParserInv' /\ WrittenInv'
  BY ParserKeeps, WritingKeeps
<1>3. ParserInv /\ WrittenInv => ReadAsWritten
  BY WrittenInvIsEnough
<1> QED
  BY <1>1, <1>2, <1>3, PTL DEF PatchSpec

=============================================================================
