------------------------ MODULE RemoteDiscovery_proofs ------------------------
(***************************************************************************)
(* Theorems about RemoteDiscovery, for every output limit, pipe capacity   *)
(* and amount of output.  The argument is that of GitCommand_proofs; the   *)
(* reader may lose a block without noticing that it passed the limit, so   *)
(* the account of a stream is exact only while neither flag is raised.     *)
(***************************************************************************)
EXTENDS RemoteDiscovery, TLAPS

StreamInv ==
  \A s \in Stream :
    /\ kept[s] + pipe[s] <= written[s]
    /\ ~exceeded[s] /\ ~lost[s] => kept[s] + pipe[s] = written[s]
    /\ exceeded[s] => written[s] > OutputLimit
    /\ reader[s] = "ended" => pipe[s] = 0 /\ ~WritersExist

BeforeSpawn == {"discover", "spawn"}
BeforeKill == BeforeSpawn \cup {"readers", "poll", "wait"}
Joining == {"joinOut", "joinErr"}

\* What is known at each program counter.
PhaseInv ==
  /\ collector \in BeforeSpawn =>
       child = "none" /\ helper = "none" /\ \A s \in Stream : reader[s] = "unspawned"
  /\ collector = "readers" => reader["err"] = "unspawned"
  /\ collector \in BeforeKill => cause = "None"
  /\ collector \in BeforeKill \cup {"kill"} => ~signalled /\ ~killError /\ ~waitError
  /\ collector \in {"kill", "reap"} => cause # "None"
  /\ collector = "reap" => ~waitError
  /\ collector \in Joining => child = "reaped" \/ (cause # "None" /\ waitError)
  /\ collector = "joinErr" =>
       reader["out"] \in {"ended", "failed"} /\ (cause = "None" => reader["out"] = "ended")

\* What a cause and a result mean.
OutcomeInv ==
  /\ cause = "None" => ~signalled
  /\ cause = "Cancelled" => token
  /\ result = "None" <=> collector \notin {"unwind", "done"}
  /\ collector = "unwind" => result \in {"Panic", "ReadFailed"}
  /\ result \in {"ReadFailed", "Allocation", "OutputLimit", "GitExit", "Remote"} =>
       child = "reaped"
  /\ result \in {"NoPlatform", "Cancelled"} => child \in {"none", "reaped"}
  /\ collector = "done" => child \in {"none", "reaped"} \/ result \in {"Cleanup", "Panic"}
  /\ result \in {"Remote", "NoPlatform"} /\ child # "none" =>
       /\ succeeded <=> result = "Remote"
       /\ \A s \in Stream : reader[s] = "ended" /\ ~exceeded[s] /\ ~lost[s]
  /\ result = "OutputLimit" => \E s \in Stream : exceeded[s]
  /\ result = "GitExit" => ~signalled /\ ~succeeded
  /\ result = "Cancelled" => token

CollectorInv == PhaseInv /\ OutcomeInv
IInv == TypeOK /\ StreamInv /\ CollectorInv

\* A reader that takes a block keeps a prefix of it, and knows whether it passed the limit.
LEMMA ReadAccounts ==
  ASSUME IInv, NEW s \in Stream, Read(s)
  PROVE  StreamInv'
<1> USE ChildAssumption, OutputLimitAssumption
      DEF childVars, processVars, streamVars, collectorVars
<1>1. PICK n \in 1 .. pipe[s] :
        /\ pipe' = [pipe EXCEPT ![s] = @ - n]
        /\ kept' = [kept EXCEPT ![s] = IF lost[s] THEN @ ELSE @ + Keep(s, n)]
        /\ exceeded' = [exceeded EXCEPT ![s] = @ \/ Exceeds(s, n)]
  BY DEF Read, Take
<1>2. UNCHANGED <<child, helper, written, reader, lost>> /\ reader[s] = "reading"
  BY DEF Read, Take
<1>3. /\ n \in Nat /\ 1 <= n /\ n <= pipe[s]
      /\ pipe[s] \in Nat /\ kept[s] \in Nat /\ written[s] \in Nat /\ kept[s] <= OutputLimit
  BY DEF IInv, TypeOK, ChildTypeOK
<1>4. Keep(s, n) \in Nat /\ Keep(s, n) <= n
  BY <1>3 DEF Keep
<1>5. Keep(s, n) # n => kept[s] + n > OutputLimit
  BY <1>3 DEF Keep
<1>6. /\ pipe'[s] = pipe[s] - n
      /\ lost[s] => kept'[s] = kept[s]
      /\ ~lost[s] => kept'[s] = kept[s] + Keep(s, n)
      /\ exceeded'[s] <=> exceeded[s] \/ Keep(s, n) # n
  BY <1>1, <1>2 DEF IInv, TypeOK, ChildTypeOK, Exceeds
<1>7. ASSUME NEW t \in Stream, t # s
      PROVE  pipe'[t] = pipe[t] /\ kept'[t] = kept[t] /\ exceeded'[t] = exceeded[t]
  BY <1>1, <1>7 DEF IInv, TypeOK, ChildTypeOK
<1>8. SUFFICES ASSUME NEW t \in Stream
               PROVE  /\ kept'[t] + pipe'[t] <= written'[t]
                      /\ ~exceeded'[t] /\ ~lost'[t] => kept'[t] + pipe'[t] = written'[t]
                      /\ exceeded'[t] => written'[t] > OutputLimit
                      /\ reader'[t] = "ended" => pipe'[t] = 0 /\ ~WritersExist'
  BY DEF StreamInv
<1>9. CASE t = s
  <2>1. /\ kept[s] + pipe[s] <= written[s]
        /\ ~exceeded[s] /\ ~lost[s] => kept[s] + pipe[s] = written[s]
        /\ exceeded[s] => written[s] > OutputLimit
    BY DEF IInv, StreamInv
  <2> QED
    BY <1>2, <1>3, <1>4, <1>5, <1>6, <1>9, <2>1
<1>10. CASE t # s
  BY <1>2, <1>7, <1>10 DEF IInv, StreamInv, WritersExist
<1> QED
  BY <1>9, <1>10

\* Every step keeps the types, and what a reader retains within its limit.
LEMMA TypeStep ==
  ASSUME TypeOK, [Next]_vars
  PROVE  TypeOK'
<1> USE ChildAssumption, OutputLimitAssumption
      DEF collectorVars, readerVars, processVars, streamVars, childVars
<1>1. CASE ChildDies /\ UNCHANGED <<collectorVars, readerVars>>
  <2>1. child' = "exited" /\ succeeded' = FALSE
        /\ UNCHANGED <<token, helper, signalled, streamVars>>
    BY <1>1 DEF ChildDies
  <2>2. ChildTypeOK'
    BY <2>1 DEF TypeOK, ChildTypeOK
  <2> QED
    BY <1>1, <2>2 DEF TypeOK
<1> USE DEF TypeOK, ChildTypeOK
<1>2. CASE Cancel /\ UNCHANGED <<collectorVars, readerVars>>
  BY <1>2 DEF Cancel
<1>3. ASSUME NEW s \in Stream, Write(s) /\ UNCHANGED <<collectorVars, readerVars>>
      PROVE  TypeOK'
  BY <1>3 DEF Write
<1>4. CASE StartHelper /\ UNCHANGED <<collectorVars, readerVars>>
  BY <1>4 DEF StartHelper
<1>5. CASE HelperEnds /\ UNCHANGED <<collectorVars, readerVars>>
  BY <1>5 DEF HelperEnds
<1>6. CASE ChildExits /\ UNCHANGED <<collectorVars, readerVars>>
  BY <1>6 DEF ChildExits
<1>7. CASE DiscoverNothing
  BY <1>7 DEF DiscoverNothing, Return
<1>8. CASE PollBeforeSpawn
  BY <1>8 DEF PollBeforeSpawn, Return, Goto
<1>9. CASE SpawnChild
  BY <1>9 DEF SpawnChild, Spawn, Goto
<1>10. ASSUME NEW s \in Stream, SpawnReader(s)
      PROVE  TypeOK'
  BY <1>10 DEF SpawnReader, NextReader, Goto
<1>11. CASE PollToken
  BY <1>11 DEF PollToken, StopBecause, Goto
<1>12. CASE TryWaitDone
  BY <1>12 DEF TryWaitDone, Wait, Goto
<1>13. CASE TryWaitRunning
  BY <1>13 DEF TryWaitRunning, Goto
<1>14. CASE KillChild
  BY <1>14 DEF KillChild, Kill, Goto
<1>15. CASE ReapChild
  BY <1>15 DEF ReapChild, Wait, Goto
<1>16. CASE JoinStdout
  BY <1>16 DEF JoinStdout, Finished, Goto, Unwind
<1>17. CASE JoinStderr
  BY <1>17 DEF JoinStderr, Finished, Return, Verdicts, CancelOutcome
<1>18. CASE LeaveScope
  BY <1>18 DEF LeaveScope, Finished
<1>19. CASE SpawnChildFails
  BY <1>19 DEF SpawnChildFails, Return
<1>20. ASSUME NEW s \in Stream, SpawnReaderPanics(s)
      PROVE  TypeOK'
  BY <1>20 DEF SpawnReaderPanics, NextReader, Unwind
<1>21. CASE TryWaitFails
  BY <1>21 DEF TryWaitFails, StopBecause
<1>22. CASE KillChildFails
  BY <1>22 DEF KillChildFails
<1>23. CASE ReapChildFails
  BY <1>23 DEF ReapChildFails
<1>24. ASSUME NEW s \in Stream, Read(s)
      PROVE  TypeOK'
  BY <1>24 DEF Read, Take, Exceeds, Keep
<1>25. ASSUME NEW s \in Stream, ReadWithoutMemory(s)
      PROVE  TypeOK'
  BY <1>25 DEF ReadWithoutMemory, Take, Keep
<1>26. ASSUME NEW s \in Stream, ReaderEnds(s)
      PROVE  TypeOK'
  BY <1>26 DEF ReaderEnds, CloseReadEnd, AtEndOfFile
<1>27. ASSUME NEW s \in Stream, ReaderFails(s)
      PROVE  TypeOK'
  BY <1>27 DEF ReaderFails, CloseReadEnd
<1>28. CASE UNCHANGED vars
  BY <1>28 DEF vars
<1> QED
  BY <1>1, <1>2, <1>3, <1>4, <1>5, <1>6, <1>7, <1>8, <1>9, <1>10, <1>11, <1>12, <1>13,
    <1>14, <1>15, <1>16, <1>17, <1>18, <1>19, <1>20, <1>21, <1>22, <1>23, <1>24, <1>25,
    <1>26, <1>27, <1>28
     DEF Next, EnvironmentStep, Environment, CollectorStep, CollectorFailure, ReaderStep,
         ReaderFailure, Returned

\* Every step keeps the account of each stream: only writers and its reader change it,
\* and nobody becomes a writer once a reader saw the end.
LEMMA StreamStep ==
  ASSUME IInv, [Next]_vars
  PROVE  StreamInv'
<1> USE ChildAssumption, OutputLimitAssumption
      DEF collectorVars, readerVars, processVars, streamVars, childVars
<1>1. ASSUME NEW s \in Stream, Read(s)
      PROVE  StreamInv'
  BY <1>1, ReadAccounts
<1> USE DEF IInv, TypeOK, ChildTypeOK, StreamInv, CollectorInv, PhaseInv, BeforeSpawn,
      WritersExist
<1>2. CASE Cancel /\ UNCHANGED <<collectorVars, readerVars>>
  BY <1>2 DEF Cancel
<1>3. ASSUME NEW s \in Stream, Write(s) /\ UNCHANGED <<collectorVars, readerVars>>
      PROVE  StreamInv'
  BY <1>3 DEF Write
<1>4. CASE StartHelper /\ UNCHANGED <<collectorVars, readerVars>>
  BY <1>4 DEF StartHelper
<1>5. CASE HelperEnds /\ UNCHANGED <<collectorVars, readerVars>>
  BY <1>5 DEF HelperEnds
<1>6. CASE ChildExits /\ UNCHANGED <<collectorVars, readerVars>>
  BY <1>6 DEF ChildExits
<1>7. CASE ChildDies /\ UNCHANGED <<collectorVars, readerVars>>
  BY <1>7 DEF ChildDies
<1>8. CASE DiscoverNothing
  BY <1>8 DEF DiscoverNothing, Return
<1>9. CASE PollBeforeSpawn
  BY <1>9 DEF PollBeforeSpawn, Return, Goto
<1>10. CASE SpawnChild
  BY <1>10 DEF SpawnChild, Spawn, Goto
<1>11. ASSUME NEW s \in Stream, SpawnReader(s)
      PROVE  StreamInv'
  BY <1>11 DEF SpawnReader, NextReader, Goto
<1>12. CASE PollToken
  BY <1>12 DEF PollToken, StopBecause, Goto
<1>13. CASE TryWaitDone
  BY <1>13 DEF TryWaitDone, Wait, Goto
<1>14. CASE TryWaitRunning
  BY <1>14 DEF TryWaitRunning, Goto
<1>15. CASE KillChild
  BY <1>15 DEF KillChild, Kill, Goto
<1>16. CASE ReapChild
  BY <1>16 DEF ReapChild, Wait, Goto
<1>17. CASE JoinStdout
  BY <1>17 DEF JoinStdout, Finished, Goto, Unwind
<1>18. CASE JoinStderr
  BY <1>18 DEF JoinStderr, Finished, Return, Verdicts, CancelOutcome
<1>19. CASE LeaveScope
  BY <1>19 DEF LeaveScope, Finished
<1>20. CASE SpawnChildFails
  BY <1>20 DEF SpawnChildFails, Return
<1>21. ASSUME NEW s \in Stream, SpawnReaderPanics(s)
      PROVE  StreamInv'
  BY <1>21 DEF SpawnReaderPanics, NextReader, Unwind
<1>22. CASE TryWaitFails
  BY <1>22 DEF TryWaitFails, StopBecause
<1>23. CASE KillChildFails
  BY <1>23 DEF KillChildFails
<1>24. CASE ReapChildFails
  BY <1>24 DEF ReapChildFails
<1>25. ASSUME NEW s \in Stream, ReadWithoutMemory(s)
      PROVE  StreamInv'
  BY <1>25 DEF ReadWithoutMemory, Take, Keep
<1>26. ASSUME NEW s \in Stream, ReaderEnds(s)
      PROVE  StreamInv'
  BY <1>26 DEF ReaderEnds, CloseReadEnd, AtEndOfFile
<1>27. ASSUME NEW s \in Stream, ReaderFails(s)
      PROVE  StreamInv'
  BY <1>27 DEF ReaderFails, CloseReadEnd
<1>28. CASE UNCHANGED vars
  BY <1>28 DEF vars
<1> QED
  BY <1>1, <1>2, <1>3, <1>4, <1>5, <1>6, <1>7, <1>8, <1>9, <1>10, <1>11, <1>12, <1>13,
    <1>14, <1>15, <1>16, <1>17, <1>18, <1>19, <1>20, <1>21, <1>22, <1>23, <1>24, <1>25,
    <1>26, <1>27, <1>28
     DEF Next, EnvironmentStep, Environment, CollectorStep, CollectorFailure, ReaderStep,
         ReaderFailure, Returned

\* Every step leads to a program counter whose facts hold.
LEMMA PhaseStep ==
  ASSUME IInv, [Next]_vars
  PROVE  PhaseInv'
<1> USE ChildAssumption, OutputLimitAssumption
      DEF collectorVars, readerVars, processVars, streamVars, childVars
<1> USE DEF IInv, TypeOK, ChildTypeOK, CollectorInv, PhaseInv, BeforeSpawn, BeforeKill,
      Joining, Stream
<1>1. CASE Cancel /\ UNCHANGED <<collectorVars, readerVars>>
  BY <1>1 DEF Cancel
<1>2. ASSUME NEW s \in Stream, Write(s) /\ UNCHANGED <<collectorVars, readerVars>>
      PROVE  PhaseInv'
  BY <1>2 DEF Write
<1>3. CASE StartHelper /\ UNCHANGED <<collectorVars, readerVars>>
  BY <1>3 DEF StartHelper
<1>4. CASE HelperEnds /\ UNCHANGED <<collectorVars, readerVars>>
  BY <1>4 DEF HelperEnds
<1>5. CASE ChildExits /\ UNCHANGED <<collectorVars, readerVars>>
  BY <1>5 DEF ChildExits
<1>6. CASE ChildDies /\ UNCHANGED <<collectorVars, readerVars>>
  BY <1>6 DEF ChildDies
<1>7. CASE DiscoverNothing
  BY <1>7 DEF DiscoverNothing, Return
<1>8. CASE PollBeforeSpawn
  BY <1>8 DEF PollBeforeSpawn, Return, Goto
<1>9. CASE SpawnChild
  BY <1>9 DEF SpawnChild, Spawn, Goto
<1>10. ASSUME NEW s \in Stream, SpawnReader(s)
      PROVE  PhaseInv'
  BY <1>10 DEF SpawnReader, NextReader, Goto
<1>11. CASE PollToken
  BY <1>11 DEF PollToken, StopBecause, Goto
<1>12. CASE TryWaitDone
  BY <1>12 DEF TryWaitDone, Wait, Goto
<1>13. CASE TryWaitRunning
  BY <1>13 DEF TryWaitRunning, Goto
<1>14. CASE KillChild
  BY <1>14 DEF KillChild, Kill, Goto
<1>15. CASE ReapChild
  BY <1>15 DEF ReapChild, Wait, Goto
<1>16. CASE JoinStdout
  BY <1>16 DEF JoinStdout, Finished, Goto, Unwind
<1>17. CASE JoinStderr
  BY <1>17 DEF JoinStderr, Finished, Return, Verdicts, CancelOutcome
<1>18. CASE LeaveScope
  BY <1>18 DEF LeaveScope, Finished
<1>19. CASE SpawnChildFails
  BY <1>19 DEF SpawnChildFails, Return
<1>20. ASSUME NEW s \in Stream, SpawnReaderPanics(s)
      PROVE  PhaseInv'
  BY <1>20 DEF SpawnReaderPanics, NextReader, Unwind
<1>21. CASE TryWaitFails
  BY <1>21 DEF TryWaitFails, StopBecause
<1>22. CASE KillChildFails
  BY <1>22 DEF KillChildFails
<1>23. CASE ReapChildFails
  BY <1>23 DEF ReapChildFails
<1>24. ASSUME NEW s \in Stream, Read(s)
      PROVE  PhaseInv'
  BY <1>24 DEF Read, Take, Exceeds, Keep
<1>25. ASSUME NEW s \in Stream, ReadWithoutMemory(s)
      PROVE  PhaseInv'
  BY <1>25 DEF ReadWithoutMemory, Take, Keep
<1>26. ASSUME NEW s \in Stream, ReaderEnds(s)
      PROVE  PhaseInv'
  BY <1>26 DEF ReaderEnds, CloseReadEnd, AtEndOfFile
<1>27. ASSUME NEW s \in Stream, ReaderFails(s)
      PROVE  PhaseInv'
  BY <1>27 DEF ReaderFails, CloseReadEnd
<1>28. CASE UNCHANGED vars
  BY <1>28 DEF vars
<1> QED
  BY <1>1, <1>2, <1>3, <1>4, <1>5, <1>6, <1>7, <1>8, <1>9, <1>10, <1>11, <1>12, <1>13,
    <1>14, <1>15, <1>16, <1>17, <1>18, <1>19, <1>20, <1>21, <1>22, <1>23, <1>24, <1>25,
    <1>26, <1>27, <1>28
     DEF Next, EnvironmentStep, Environment, CollectorStep, CollectorFailure, ReaderStep,
         ReaderFailure, Returned

\* Every step keeps the meaning of the reason to stop and of the result.
LEMMA OutcomeStep ==
  ASSUME IInv, [Next]_vars
  PROVE  OutcomeInv'
<1> USE ChildAssumption, OutputLimitAssumption
      DEF collectorVars, readerVars, processVars, streamVars, childVars
<1> USE DEF IInv, TypeOK, ChildTypeOK, StreamInv, CollectorInv, PhaseInv, OutcomeInv,
      BeforeSpawn, BeforeKill, Joining, Stream
<1>1. CASE Cancel /\ UNCHANGED <<collectorVars, readerVars>>
  BY <1>1 DEF Cancel
<1>2. ASSUME NEW s \in Stream, Write(s) /\ UNCHANGED <<collectorVars, readerVars>>
      PROVE  OutcomeInv'
  BY <1>2 DEF Write
<1>3. CASE StartHelper /\ UNCHANGED <<collectorVars, readerVars>>
  BY <1>3 DEF StartHelper
<1>4. CASE HelperEnds /\ UNCHANGED <<collectorVars, readerVars>>
  BY <1>4 DEF HelperEnds
<1>5. CASE ChildExits /\ UNCHANGED <<collectorVars, readerVars>>
  BY <1>5 DEF ChildExits
<1>6. CASE ChildDies /\ UNCHANGED <<collectorVars, readerVars>>
  BY <1>6 DEF ChildDies
<1>7. CASE DiscoverNothing
  BY <1>7 DEF DiscoverNothing, Return
<1>8. CASE PollBeforeSpawn
  BY <1>8 DEF PollBeforeSpawn, Return, Goto
<1>9. CASE SpawnChild
  BY <1>9 DEF SpawnChild, Spawn, Goto
<1>10. ASSUME NEW s \in Stream, SpawnReader(s)
      PROVE  OutcomeInv'
  BY <1>10 DEF SpawnReader, NextReader, Goto
<1>11. CASE PollToken
  BY <1>11 DEF PollToken, StopBecause, Goto
<1>12. CASE TryWaitDone
  BY <1>12 DEF TryWaitDone, Wait, Goto
<1>13. CASE TryWaitRunning
  BY <1>13 DEF TryWaitRunning, Goto
<1>14. CASE KillChild
  BY <1>14 DEF KillChild, Kill, Goto
<1>15. CASE ReapChild
  BY <1>15 DEF ReapChild, Wait, Goto
<1>16. CASE JoinStdout
  BY <1>16 DEF JoinStdout, Finished, Goto, Unwind
<1>17. CASE JoinStderr
  BY <1>17 DEF JoinStderr, Finished, Return, Verdicts, CancelOutcome
<1>18. CASE LeaveScope
  BY <1>18 DEF LeaveScope, Finished
<1>19. CASE SpawnChildFails
  BY <1>19 DEF SpawnChildFails, Return
<1>20. ASSUME NEW s \in Stream, SpawnReaderPanics(s)
      PROVE  OutcomeInv'
  BY <1>20 DEF SpawnReaderPanics, NextReader, Unwind
<1>21. CASE TryWaitFails
  BY <1>21 DEF TryWaitFails, StopBecause
<1>22. CASE KillChildFails
  BY <1>22 DEF KillChildFails
<1>23. CASE ReapChildFails
  BY <1>23 DEF ReapChildFails
<1>24. ASSUME NEW s \in Stream, Read(s)
      PROVE  OutcomeInv'
  BY <1>24 DEF Read, Take, Exceeds, Keep
<1>25. ASSUME NEW s \in Stream, ReadWithoutMemory(s)
      PROVE  OutcomeInv'
  BY <1>25 DEF ReadWithoutMemory, Take, Keep
<1>26. ASSUME NEW s \in Stream, ReaderEnds(s)
      PROVE  OutcomeInv'
  BY <1>26 DEF ReaderEnds, CloseReadEnd, AtEndOfFile
<1>27. ASSUME NEW s \in Stream, ReaderFails(s)
      PROVE  OutcomeInv'
  BY <1>27 DEF ReaderFails, CloseReadEnd
<1>28. CASE UNCHANGED vars
  BY <1>28 DEF vars
<1> QED
  BY <1>1, <1>2, <1>3, <1>4, <1>5, <1>6, <1>7, <1>8, <1>9, <1>10, <1>11, <1>12, <1>13,
    <1>14, <1>15, <1>16, <1>17, <1>18, <1>19, <1>20, <1>21, <1>22, <1>23, <1>24, <1>25,
    <1>26, <1>27, <1>28
     DEF Next, EnvironmentStep, Environment, CollectorStep, CollectorFailure, ReaderStep,
         ReaderFailure, Returned

\* The invariant holds of every run.
LEMMA RunInvariant == Spec => []IInv
<1>1. Init => IInv
  <2>1. ASSUME Init
        PROVE  TypeOK
    <3>1. 0 \in 0 .. MaxOutput /\ 0 \in 0 .. PipeCapacity /\ 0 \in 0 .. OutputLimit
      BY ChildAssumption, OutputLimitAssumption
    <3>2. ChildTypeOK
      BY <2>1, <3>1 DEF Init, ChildInit, ChildTypeOK
    <3>3. /\ reader \in [Stream -> {"unspawned", "reading", "ended", "failed"}]
          /\ kept \in [Stream -> 0 .. OutputLimit]
          /\ exceeded \in [Stream -> BOOLEAN] /\ lost \in [Stream -> BOOLEAN]
      BY <2>1, <3>1 DEF Init
    <3> QED
      BY <2>1, <3>2, <3>3 DEF Init, TypeOK
  <2>2. Init => StreamInv
    BY DEF Init, ChildInit, StreamInv
  <2>3. Init => CollectorInv
    BY DEF Init, ChildInit, CollectorInv, PhaseInv, OutcomeInv, BeforeSpawn, BeforeKill, Joining
  <2> QED
    BY <2>1, <2>2, <2>3 DEF IInv
<1>2. IInv /\ [Next]_vars => IInv'
  <2>1. ASSUME IInv, [Next]_vars
        PROVE  TypeOK'
    BY <2>1, TypeStep DEF IInv
  <2> QED
    BY <2>1, StreamStep, PhaseStep, OutcomeStep DEF IInv, CollectorInv
<1> QED
  BY <1>1, <1>2, PTL DEF Spec

\* Every variable keeps its type, and no reader retains more than OUTPUT_LIMIT.
THEOREM TypeCorrect == Spec => []TypeOK
<1>1. IInv => TypeOK
  BY DEF IInv
<1> QED
  BY <1>1, RunInvariant, PTL

\* discover concludes from all of the output or reports why it cannot.
THEOREM ConclusionIsFromAll == Spec => []ConclusionFromAll
<1>1. IInv => ConclusionFromAll
  BY DEF IInv, TypeOK, ChildTypeOK, StreamInv, CollectorInv, OutcomeInv, ConclusionFromAll, Stream
<1> QED
  BY <1>1, RunInvariant, PTL

\* The errors of discover name their cause.
THEOREM ErrorsAreTruthful == Spec => []VerdictIsTrue
<1>1. IInv => VerdictIsTrue
  BY DEF IInv, StreamInv, CollectorInv, OutcomeInv, VerdictIsTrue
<1> QED
  BY <1>1, RunInvariant, PTL

\* discover leaves no child behind that it does not report.
THEOREM ChildIsReaped == Spec => []NoOrphan
<1>1. IInv => NoOrphan
  BY DEF IInv, CollectorInv, OutcomeInv, NoOrphan
<1> QED
  BY <1>1, RunInvariant, PTL
=============================================================================
