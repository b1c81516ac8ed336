------------------------ MODULE RunLifecycleProofs ------------------------
(***************************************************************************)
(* Proofs about RunLifecycle, for any number of resume and cancel          *)
(* commands, any providers and any routing.max_attempts, with crashes and  *)
(* I/O faults.  Every theorem follows from a step lemma: the invariant,    *)
(* with TypeOK, is preserved by every action.  RunningHasOwner is          *)
(* inductive relative to TypeOK.  AttemptHasOwner needs to know what an    *)
(* invocation still does that leaves a row behind (LeftInv), what a        *)
(* canceled run says of the cancelers (CancelInv), and, as the three       *)
(* properties of the attempt loop do, in which order an invocation writes  *)
(* its attempt rows (AttemptsInOrder).  Those three need besides what the  *)
(* local variables promise about the row not written yet (ReadableInv,     *)
(* MovesOnInv, ProgressInv); all but eight actions leave what they speak   *)
(* of alone (QuietSteps).  What holds of commands that come one at a time  *)
(* rests on the fact that every step is then the move of one process,      *)
(* alone (EveryStepMoves).                                                 *)
(***************************************************************************)
EXTENDS RunLifecycle, TLAPS

-----------------------------------------------------------------------------
(* Type correctness *)

\* The attempt an invocation works on is a row of table attempts.
LEMMA CurrentIsAttemptId ==
  ASSUME LoopOK, NEW l \in Launchers
  PROVE  Current(l) \in AttemptIds
  BY DEF LoopOK, Current, AttemptIds

\* FinishAttempt and cancelRun update the state column: rows stay rows.
LEMMA StateWritten ==
  ASSUME attempts \in [AttemptIds -> Rows],
         NEW a \in AttemptIds, NEW s \in AttemptStates,
         attempts' = [attempts EXCEPT ![a].state = s]
  PROVE  attempts' \in [AttemptIds -> Rows]
  BY DEF Rows

\* UpdateAttemptProviderRef: rows stay rows.
LEMMA RefWritten ==
  ASSUME attempts \in [AttemptIds -> Rows], NEW a \in AttemptIds,
         attempts' = [attempts EXCEPT ![a].ref = TRUE]
  PROVE  attempts' \in [AttemptIds -> Rows]
  BY DEF Rows

\* A (code, error) pair a command returns keeps ret well typed.
LEMMA ResultWritten ==
  ASSUME ret \in [Procs -> [code : Nat, err : BOOLEAN]],
         NEW p \in Procs, NEW code \in Nat, NEW err \in BOOLEAN,
         Return(p, code, err)
  PROVE  ret' \in [Procs -> [code : Nat, err : BOOLEAN]]
  BY DEF Return

\* Who stops early joins those who have left a row, and nobody drops out.
LEMMA Abandoned ==
  ASSUME ResultOK, NEW p, Abandons(p)
  PROVE  /\ left' \in [run : SUBSET Launchers, attempt : SUBSET Launchers,
                       canceled : SUBSET Launchers]
         /\ left'.run = left.run \cup ({p} \cap Working)
         /\ left'.attempt = left.attempt \cup ({p} \cap Attempting)
         /\ left'.canceled = left.canceled
<1>1. Working \subseteq Launchers /\ Attempting \subseteq Launchers
  BY DEF Working, Attempting
<1> QED
  BY <1>1 DEF ResultOK, Abandons

\* What Submit returned can be written to the run row.
LEMMA OutcomeCode ==
  ASSUME LoopOK, NEW l \in Launchers
  PROVE  /\ outcome[l].code \in Nat
         /\ FinalState(outcome[l]) \in RunStates
<1>1. outcome[l] \in Outcomes \/ outcome[l] = NoOutcome
  BY DEF LoopOK
<1>2. outcome[l].code \in Nat
  <2>1. CASE outcome[l] \in Outcomes
    BY <2>1, LifecycleAssumption DEF Outcomes
  <2>2. CASE outcome[l] = NoOutcome
    BY <2>2 DEF NoOutcome
  <2> QED
    BY <1>1, <2>1, <2>2
<1>3. FinalState(outcome[l]) \in RunStates
  BY DEF FinalState, RunStates
<1> QED
  BY <1>2, <1>3

\* Every action of launchers and cancelers preserves the type invariant.
LEMMA TypeStep == TypeOK /\ [Next]_vars => TypeOK'
<1> SUFFICES ASSUME TypeOK PROVE [Next]_vars => TypeOK'
  OBVIOUS
<1> USE LifecycleAssumption
    DEF dbVars, files, loopVars, locals, Procs, Launchers,
        LauncherPcs, CancelerPcs, WorkingPcs, AttemptPcs, SummaryPcs, EndPcs
<1>1. ASSUME NEW l \in Launchers, StartTrain(l) PROVE TypeOK'
  <2>1. RowsOK'
    BY <1>1 DEF TypeOK, RowsOK, RunStates, AttemptStates, StartTrain
  <2>2. PcOK'
    BY <1>1 DEF TypeOK, PcOK, Goto, StartTrain
  <2>3. LoopOK'
    BY <1>1 DEF TypeOK, LoopOK, Targets, StartTrain
  <2>4. FilesOK' /\ ResumeOK' /\ ResultOK'
    BY <1>1 DEF TypeOK, FilesOK, ResumeOK, ResultOK, StartTrain
  <2> QED
    BY <2>1, <2>2, <2>3, <2>4 DEF TypeOK
<1>2. ASSUME NEW l \in Launchers, ResumeScan(l) PROVE TypeOK'
  <2>1. PcOK'
    BY <1>2 DEF TypeOK, PcOK, Goto, ResumeScan
  <2>2. ResumeOK'
    <3>1. CASE UNCHANGED resumeFrom
      BY <1>2, <3>1 DEF TypeOK, ResumeOK, ResumeScan
    <3>2. ASSUME NEW i \in DOMAIN events,
                 resumeFrom' = [resumeFrom EXCEPT ![l] = i]
          PROVE  ResumeOK'
      BY <1>2, <3>2 DEF TypeOK, ResumeOK, ResumeScan
    <3> QED
      BY <1>2, <3>1, <3>2 DEF ResumeScan
  <2>3. ResultOK'
    <3>1. CASE Return(l, exitCodeInvalidSpec, TRUE)
      BY <1>2, <3>1, ResultWritten
      DEF TypeOK, ResultOK, ResumeScan, exitCodeInvalidSpec
    <3>2. CASE Return(l, exitCodeMissingResume, TRUE)
      BY <1>2, <3>2, ResultWritten
      DEF TypeOK, ResultOK, ResumeScan, exitCodeMissingResume
    <3>3. CASE UNCHANGED ret
      BY <1>2, <3>3, ResultWritten
      DEF TypeOK, ResultOK, ResumeScan
    <3> QED
      BY <1>2, <3>1, <3>2, <3>3 DEF ResumeScan
  <2>4. RowsOK' /\ FilesOK' /\ LoopOK'
    BY <1>2 DEF TypeOK, RowsOK, FilesOK, LoopOK, ResumeScan
  <2> QED
    BY <2>1, <2>2, <2>3, <2>4 DEF TypeOK
<1>3. ASSUME NEW l \in Launchers, ResumeNotPrepared(l) PROVE TypeOK'
  <2>1. PcOK'
    BY <1>3 DEF TypeOK, PcOK, Goto, ResumeNotPrepared
  <2>2. ResultOK'
    <3>1. CASE Return(l, exitCodeInvalidSpec, TRUE)
      BY <1>3, <3>1, ResultWritten
      DEF TypeOK, ResultOK, ResumeNotPrepared, exitCodeInvalidSpec
    <3>2. CASE Return(l, exitCodeInternal, TRUE)
      BY <1>3, <3>2, ResultWritten
      DEF TypeOK, ResultOK, ResumeNotPrepared, exitCodeInternal
    <3> QED
      BY <1>3, <3>1, <3>2 DEF ResumeNotPrepared
  <2>3. RowsOK' /\ FilesOK' /\ LoopOK' /\ ResumeOK'
    BY <1>3 DEF TypeOK, RowsOK, FilesOK, LoopOK, ResumeOK, ResumeNotPrepared
  <2> QED
    BY <2>1, <2>2, <2>3 DEF TypeOK
<1>4. ASSUME NEW l \in Launchers, RestartRun(l) PROVE TypeOK'
  <2>1. RowsOK'
    BY <1>4 DEF TypeOK, RowsOK, RunStates, AttemptStates, RestartRun
  <2>2. PcOK'
    BY <1>4 DEF TypeOK, PcOK, Goto, RestartRun
  <2>3. LoopOK'
    BY <1>4 DEF TypeOK, LoopOK, Targets, RestartRun
  <2>4. FilesOK' /\ ResumeOK' /\ ResultOK'
    BY <1>4 DEF TypeOK, FilesOK, ResumeOK, ResultOK, RestartRun
  <2> QED
    BY <2>1, <2>2, <2>3, <2>4 DEF TypeOK
<1>5. ASSUME NEW l \in Launchers, SelectProvider(l) PROVE TypeOK'
  <2>1. PcOK'
    BY <1>5 DEF TypeOK, PcOK, Goto, SelectProvider
  <2>2. LoopOK'
    BY <1>5 DEF TypeOK, LoopOK, Eligible, SelectProvider
  <2>3. RowsOK' /\ FilesOK' /\ ResumeOK' /\ ResultOK'
    BY <1>5 DEF TypeOK, RowsOK, FilesOK, ResumeOK, ResultOK, SelectProvider
  <2> QED
    BY <2>1, <2>2, <2>3 DEF TypeOK
<1>6. ASSUME NEW l \in Launchers, RoutingFails(l) PROVE TypeOK'
  <2>1. PcOK'
    BY <1>6 DEF TypeOK, PcOK, Goto, RoutingFails
  <2>2. ResultOK'
    BY <1>6 DEF TypeOK, ResultOK, Return, exitCodeMissingResume,
       exitCodeRouting, RoutingFails
  <2>3. RowsOK' /\ FilesOK' /\ LoopOK' /\ ResumeOK'
    BY <1>6 DEF TypeOK, RowsOK, FilesOK, LoopOK, ResumeOK, RoutingFails
  <2> QED
    BY <2>1, <2>2, <2>3 DEF TypeOK
<1>7. ASSUME NEW l \in Launchers, UseExplicitProvider(l) PROVE TypeOK'
  <2>1. PcOK'
    BY <1>7 DEF TypeOK, PcOK, Goto, UseExplicitProvider
  <2>2. LoopOK'
    BY <1>7 DEF TypeOK, LoopOK, Targets, UseExplicitProvider
  <2>3. RowsOK' /\ FilesOK' /\ ResumeOK' /\ ResultOK'
    BY <1>7 DEF TypeOK, RowsOK, FilesOK, ResumeOK, ResultOK,
       UseExplicitProvider
  <2> QED
    BY <2>1, <2>2, <2>3 DEF TypeOK
<1>8. ASSUME NEW l \in Launchers, ExplicitProviderCannotResume(l) PROVE TypeOK'
  <2>1. PcOK'
    BY <1>8 DEF TypeOK, PcOK, Goto, ExplicitProviderCannotResume
  <2>2. ResultOK'
    BY <1>8 DEF TypeOK, ResultOK, Return, exitCodeMissingResume,
       ExplicitProviderCannotResume
  <2>3. RowsOK' /\ FilesOK' /\ LoopOK' /\ ResumeOK'
    BY <1>8 DEF TypeOK, RowsOK, FilesOK, LoopOK, ResumeOK,
       ExplicitProviderCannotResume
  <2> QED
    BY <2>1, <2>2, <2>3 DEF TypeOK
<1>9. ASSUME NEW l \in Launchers, CreateAttempt(l) PROVE TypeOK'
  <2>1. RowsOK'
    BY <1>9 DEF TypeOK, RowsOK, RunStates, AttemptStates, Rows, AttemptIds,
       Current, LoopOK, NewRow, ResumeOK, CreateAttempt
  <2>2. PcOK'
    BY <1>9 DEF TypeOK, PcOK, Goto, CreateAttempt
  <2>3. ResumeOK'
    BY <1>9 DEF TypeOK, ResumeOK, RowsOK, Rows, NewRow, CreateAttempt
  <2>4. FilesOK' /\ LoopOK' /\ ResultOK'
    BY <1>9 DEF TypeOK, FilesOK, LoopOK, ResultOK, CreateAttempt
  <2> QED
    BY <2>1, <2>2, <2>3, <2>4 DEF TypeOK
<1>10. ASSUME NEW l \in Launchers, PrepareFails(l) PROVE TypeOK'
  <2>1. PcOK'
    BY <1>10 DEF TypeOK, PcOK, Goto, PrepareFails
  <2>2. ResultOK'
    BY <1>10 DEF TypeOK, ResultOK, Return, exitCodeInternal,
       exitCodeInvalidSpec, exitCodeRouting, PrepareFails
  <2>3. RowsOK' /\ FilesOK' /\ LoopOK' /\ ResumeOK'
    BY <1>10 DEF TypeOK, RowsOK, FilesOK, LoopOK, ResumeOK, PrepareFails
  <2> QED
    BY <2>1, <2>2, <2>3 DEF TypeOK
<1>11. ASSUME NEW l \in Launchers, FailAttempt(l) PROVE TypeOK'
  <2>1. RowsOK'
    <3>1. Current(l) \in AttemptIds
      BY <1>11, CurrentIsAttemptId DEF TypeOK
    <3>2. attempts' \in [AttemptIds -> Rows]
      BY <1>11, <3>1, StateWritten DEF TypeOK, RowsOK, FailAttempt, AttemptStates, RunStates
    <3> QED
      BY <1>11, <3>2 DEF TypeOK, RowsOK, FailAttempt
  <2>2. PcOK'
    BY <1>11 DEF TypeOK, PcOK, Goto, FailAttempt
  <2>3. ResumeOK'
    BY <1>11 DEF TypeOK, ResumeOK, RowsOK, Rows, FailAttempt
  <2>4. FilesOK' /\ LoopOK' /\ ResultOK'
    BY <1>11 DEF TypeOK, FilesOK, LoopOK, ResultOK, FailAttempt
  <2> QED
    BY <2>1, <2>2, <2>3, <2>4 DEF TypeOK
<1>12. ASSUME NEW l \in Launchers, CallSubmit(l) PROVE TypeOK'
  <2>1. PcOK'
    BY <1>12 DEF TypeOK, PcOK, Goto, CallSubmit
  <2>2. RowsOK' /\ FilesOK' /\ LoopOK' /\ ResumeOK' /\ ResultOK'
    BY <1>12 DEF TypeOK, RowsOK, FilesOK, LoopOK, ResumeOK, ResultOK,
       CallSubmit
  <2> QED
    BY <2>1, <2>2 DEF TypeOK
<1>13. ASSUME NEW l \in Launchers, OnStarted(l) PROVE TypeOK'
  <2>1. RowsOK'
    <3>1. Current(l) \in AttemptIds
      BY <1>13, CurrentIsAttemptId DEF TypeOK
    <3>2. attempts' \in [AttemptIds -> Rows]
      BY <1>13, <3>1, RefWritten DEF TypeOK, RowsOK, OnStarted
    <3> QED
      BY <1>13, <3>2 DEF TypeOK, RowsOK, OnStarted
  <2>2. PcOK'
    BY <1>13 DEF TypeOK, PcOK, Goto, OnStarted
  <2>3. ResumeOK'
    BY <1>13 DEF TypeOK, ResumeOK, RowsOK, Rows, OnStarted
  <2>4. FilesOK' /\ LoopOK' /\ ResultOK'
    BY <1>13 DEF TypeOK, FilesOK, LoopOK, ResultOK, OnStarted
  <2> QED
    BY <2>1, <2>2, <2>3, <2>4 DEF TypeOK
<1>14. ASSUME NEW l \in Launchers, SubmitReturns(l) PROVE TypeOK'
  <2>1. PcOK'
    BY <1>14 DEF TypeOK, PcOK, Goto, SubmitReturns
  <2>2. LoopOK'
    BY <1>14 DEF TypeOK, LoopOK, SubmitReturns
  <2>3. RowsOK' /\ FilesOK' /\ ResumeOK' /\ ResultOK'
    BY <1>14 DEF TypeOK, RowsOK, FilesOK, ResumeOK, ResultOK, SubmitReturns
  <2> QED
    BY <2>1, <2>2, <2>3 DEF TypeOK
<1>15. ASSUME NEW l \in Launchers, CheckRun(l) PROVE TypeOK'
  <2>1. PcOK'
    BY <1>15 DEF TypeOK, PcOK, Goto, CheckRun
  <2>2. ResultOK'
    <3>1. CASE run.state = "canceled"
      <4>1. /\ Return(l, exitCodeCanceled, FALSE) /\ UNCHANGED picked
            /\ left' = [left EXCEPT !.canceled = @ \cup {l}]
        BY <1>15, <3>1 DEF CheckRun
      <4>2. ret' \in [Procs -> [code : Nat, err : BOOLEAN]]
        BY <4>1, ResultWritten DEF TypeOK, ResultOK, exitCodeCanceled
      <4>3. left' \in [run : SUBSET Launchers, attempt : SUBSET Launchers,
                       canceled : SUBSET Launchers]
        BY <4>1 DEF TypeOK, ResultOK
      <4> QED
        BY <4>1, <4>2, <4>3 DEF TypeOK, ResultOK
    <3>2. CASE run.state # "canceled"
      BY <1>15, <3>2 DEF TypeOK, ResultOK, CheckRun
    <3> QED
      BY <3>1, <3>2
  <2>3. RowsOK' /\ FilesOK' /\ LoopOK' /\ ResumeOK'
    BY <1>15 DEF TypeOK, RowsOK, FilesOK, LoopOK, ResumeOK, CheckRun
  <2> QED
    BY <2>1, <2>2, <2>3 DEF TypeOK
<1>16. ASSUME NEW l \in Launchers, FinishAttempt(l) PROVE TypeOK'
  <2>1. RowsOK'
    <3>1. Current(l) \in AttemptIds /\ FinalState(outcome[l]) \in AttemptStates
      BY <1>16, CurrentIsAttemptId, OutcomeCode DEF TypeOK, AttemptStates
    <3>2. attempts' \in [AttemptIds -> Rows]
      BY <1>16, <3>1, StateWritten DEF TypeOK, RowsOK, FinishAttempt
    <3> QED
      BY <1>16, <3>2 DEF TypeOK, RowsOK, FinishAttempt
  <2>2. PcOK'
    BY <1>16 DEF TypeOK, PcOK, Goto, AfterAttempt, FinishAttempt
  <2>3. ResumeOK'
    BY <1>16 DEF TypeOK, ResumeOK, RowsOK, Rows, FinishAttempt
  <2>4. ResultOK'
    BY <1>16 DEF TypeOK, ResultOK, Return, LoopOK, Outcomes, NoOutcome,
       FinishAttempt
  <2>5. FilesOK' /\ LoopOK'
    BY <1>16 DEF TypeOK, FilesOK, LoopOK, FinishAttempt
  <2> QED
    BY <2>1, <2>2, <2>3, <2>4, <2>5 DEF TypeOK
<1>17. ASSUME NEW l \in Launchers, FinishRun(l) PROVE TypeOK'
  <2>1. RowsOK'
    BY <1>17, OutcomeCode DEF TypeOK, RowsOK, FinishRun
  <2>2. PcOK'
    BY <1>17 DEF TypeOK, PcOK, Goto, FinishRun
  <2>3. FilesOK' /\ LoopOK' /\ ResumeOK' /\ ResultOK'
    BY <1>17 DEF TypeOK, FilesOK, LoopOK, ResumeOK, ResultOK, FinishRun
  <2> QED
    BY <2>1, <2>2, <2>3 DEF TypeOK
<1>18. ASSUME NEW l \in Launchers, OutOfAttempts(l) PROVE TypeOK'
  <2>1. PcOK'
    BY <1>18 DEF TypeOK, PcOK, Goto, OutOfAttempts
  <2>2. RowsOK' /\ FilesOK' /\ LoopOK' /\ ResumeOK' /\ ResultOK'
    BY <1>18 DEF TypeOK, RowsOK, FilesOK, LoopOK, ResumeOK, ResultOK,
       OutOfAttempts
  <2> QED
    BY <2>1, <2>2 DEF TypeOK
<1>19. ASSUME NEW l \in Launchers, NoCheckpointToFailOver(l) PROVE TypeOK'
  <2>1. PcOK'
    BY <1>19 DEF TypeOK, PcOK, Goto, NoCheckpointToFailOver
  <2>2. LoopOK'
    BY <1>19 DEF TypeOK, LoopOK, NoCheckpointToFailOver
  <2>3. ResultOK'
    BY <1>19 DEF TypeOK, ResultOK, Return, exitCodeMissingResume,
       NoCheckpointToFailOver
  <2>4. RowsOK' /\ FilesOK' /\ ResumeOK'
    BY <1>19 DEF TypeOK, RowsOK, FilesOK, ResumeOK, NoCheckpointToFailOver
  <2> QED
    BY <2>1, <2>2, <2>3, <2>4 DEF TypeOK
<1>20. ASSUME NEW l \in Launchers, FailOver(l) PROVE TypeOK'
  <2>1. PcOK'
    BY <1>20 DEF TypeOK, PcOK, Goto, FailOver
  <2>2. LoopOK'
    <3>1. number[l] + 1 \in 1..maxAttempts
      <4>1. number[l] \in 1..maxAttempts /\ number[l] # maxAttempts
        BY <1>20 DEF TypeOK, LoopOK, FailOver, LastAttempt
      <4>2. maxAttempts \in Int
        BY LifecycleAssumption DEF maxAttempts
      <4> QED
        BY <4>1, <4>2
    <3> QED
      BY <1>20, <3>1 DEF TypeOK, LoopOK, FailOver
  <2>3. ResumeOK'
    <3>1. PICK i \in DOMAIN events : resumeFrom' = [resumeFrom EXCEPT ![l] = i]
      BY <1>20 DEF FailOver
    <3> QED
      BY <1>20, <3>1 DEF TypeOK, ResumeOK, FailOver
  <2>4. RowsOK' /\ FilesOK' /\ ResultOK'
    BY <1>20 DEF TypeOK, RowsOK, FilesOK, ResultOK, FailOver
  <2> QED
    BY <2>1, <2>2, <2>3, <2>4 DEF TypeOK
<1>21. ASSUME NEW l \in Launchers, GiveUp(l) PROVE TypeOK'
  <2>1. RowsOK'
    BY <1>21 DEF TypeOK, RowsOK, RunStates, AttemptStates, ResultOK, GiveUp
  <2>2. PcOK'
    BY <1>21 DEF TypeOK, PcOK, Goto, GiveUp
  <2>3. FilesOK' /\ LoopOK' /\ ResumeOK' /\ ResultOK'
    BY <1>21 DEF TypeOK, FilesOK, LoopOK, ResumeOK, ResultOK, GiveUp
  <2> QED
    BY <2>1, <2>2, <2>3 DEF TypeOK
<1>22. ASSUME NEW l \in Launchers, EmitCheckpoint(l) PROVE TypeOK'
  <2>1. ResumeOK'
    BY <1>22 DEF TypeOK, ResumeOK, RowsOK, Rows, Events, AttemptIds, Current,
       LoopOK, EmitCheckpoint
  <2>2. RowsOK' /\ FilesOK' /\ PcOK' /\ LoopOK' /\ ResultOK'
    BY <1>22 DEF TypeOK, RowsOK, FilesOK, PcOK, LoopOK, ResultOK,
       EmitCheckpoint
  <2> QED
    BY <2>1, <2>2 DEF TypeOK
<1>23. ASSUME NEW l \in Launchers, DBError(l) PROVE TypeOK'
  <2>1. PcOK'
    BY <1>23 DEF TypeOK, PcOK, Goto, DBError
  <2>2. ResultOK'
    <3>1. ret' \in [Procs -> [code : Nat, err : BOOLEAN]]
      BY <1>23, ResultWritten DEF TypeOK, ResultOK, exitCodeInternal, DBError
    <3> QED
      BY <1>23, <3>1, Abandoned DEF TypeOK, ResultOK, DBError
  <2>3. RowsOK' /\ FilesOK' /\ LoopOK' /\ ResumeOK'
    BY <1>23 DEF TypeOK, RowsOK, FilesOK, LoopOK, ResumeOK, DBError
  <2> QED
    BY <2>1, <2>2, <2>3 DEF TypeOK
<1>24. ASSUME NEW l \in Launchers, LostWrite(l) PROVE TypeOK'
  <2>1. PcOK'
    BY <1>24 DEF TypeOK, PcOK, Goto, LostWrite
  <2>2. ResultOK'
    BY <1>24 DEF TypeOK, ResultOK, Return, Procs, LostWrite
  <2>3. RowsOK' /\ FilesOK' /\ LoopOK' /\ ResumeOK'
    BY <1>24 DEF TypeOK, RowsOK, FilesOK, LoopOK, ResumeOK, LostWrite
  <2> QED
    BY <2>1, <2>2, <2>3 DEF TypeOK
<1>25. ASSUME NEW l \in Launchers, SummaryFails(l) PROVE TypeOK'
  <2>1. PcOK'
    BY ZenonT(30), <1>25 DEF TypeOK, PcOK, Goto, SummaryFails
  <2>2. ResultOK'
    <3>1. CASE Return(l, exitCodeInternal, TRUE)
      BY <1>25, <3>1, ResultWritten
      DEF TypeOK, ResultOK, SummaryFails, exitCodeInternal
    <3>2. CASE UNCHANGED ret
      BY <1>25, <3>2, ResultWritten
      DEF TypeOK, ResultOK, SummaryFails
    <3> QED
      BY <1>25, <3>1, <3>2 DEF SummaryFails
  <2>3. RowsOK' /\ FilesOK' /\ LoopOK' /\ ResumeOK'
    BY <1>25 DEF TypeOK, RowsOK, FilesOK, LoopOK, ResumeOK, SummaryFails
  <2> QED
    BY <2>1, <2>2, <2>3 DEF TypeOK
<1>26. ASSUME NEW c \in Cancelers, CancelReadRun(c) PROVE TypeOK'
  <2>1. PcOK'
    BY <1>26 DEF TypeOK, PcOK, Goto, CancelReadRun
  <2>2. ResultOK'
    <3>1. CASE Return(c, exitCodeInternal, TRUE)
      BY <1>26, <3>1, ResultWritten
      DEF TypeOK, ResultOK, CancelReadRun, exitCodeInternal
    <3>2. CASE Return(c, 0, FALSE)
      BY <1>26, <3>2, ResultWritten
      DEF TypeOK, ResultOK, CancelReadRun
    <3>3. CASE UNCHANGED ret
      BY <1>26, <3>3, ResultWritten
      DEF TypeOK, ResultOK, CancelReadRun
    <3> QED
      BY <1>26, <3>1, <3>2, <3>3 DEF CancelReadRun
  <2>3. RowsOK' /\ FilesOK' /\ LoopOK' /\ ResumeOK'
    BY <1>26 DEF TypeOK, RowsOK, FilesOK, LoopOK, ResumeOK, CancelReadRun
  <2> QED
    BY <2>1, <2>2, <2>3 DEF TypeOK
<1>27. ASSUME NEW c \in Cancelers, CancelPick(c) PROVE TypeOK'
  <2>1. PcOK'
    BY <1>27 DEF TypeOK, PcOK, Goto, CancelPick
  <2>2. ResultOK'
    <3>1. /\ UNCHANGED left
          /\ UNCHANGED ret \/ Return(c, exitCodeInternal, TRUE)
          /\ \/ UNCHANGED picked
             \/ \E a \in AttemptIds : picked' = [picked EXCEPT ![c] = a]
      BY <1>27 DEF CancelPick
    <3>2. ret' \in [Procs -> [code : Nat, err : BOOLEAN]]
      BY <3>1, ResultWritten DEF TypeOK, ResultOK, exitCodeInternal
    <3>3. picked' \in [Cancelers -> AttemptIds \cup {NoAttempt}]
      <4> HIDE DEF Launchers, Procs
      <4> QED
        BY <3>1 DEF TypeOK, ResultOK
    <3> QED
      BY <3>1, <3>2, <3>3 DEF TypeOK, ResultOK
  <2>3. RowsOK' /\ FilesOK' /\ LoopOK' /\ ResumeOK'
    BY <1>27 DEF TypeOK, RowsOK, FilesOK, LoopOK, ResumeOK, CancelPick
  <2> QED
    BY <2>1, <2>2, <2>3 DEF TypeOK
<1>28. ASSUME NEW c \in Cancelers, CancelAttempt(c) PROVE TypeOK'
  <2>1. RowsOK'
    <3>1. attempts' \in [AttemptIds -> Rows]
      <4>1. CASE picked[c] \in AttemptIds
        BY <1>28, <4>1, StateWritten
        DEF TypeOK, RowsOK, CancelAttempt, AttemptStates, RunStates
      <4>2. CASE picked[c] \notin AttemptIds
        BY <1>28, <4>2 DEF TypeOK, RowsOK, CancelAttempt
      <4> QED
        BY <4>1, <4>2
    <3> QED
      BY <1>28, <3>1 DEF TypeOK, RowsOK, CancelAttempt
  <2>2. PcOK'
    BY <1>28 DEF TypeOK, PcOK, Goto, CancelAttempt
  <2>3. ResumeOK'
    BY <1>28 DEF TypeOK, ResumeOK, RowsOK, Rows, CancelAttempt
  <2>4. FilesOK' /\ LoopOK' /\ ResultOK'
    BY <1>28 DEF TypeOK, FilesOK, LoopOK, ResultOK, CancelAttempt
  <2> QED
    BY <2>1, <2>2, <2>3, <2>4 DEF TypeOK
<1>29. ASSUME NEW c \in Cancelers, CancelRun(c) PROVE TypeOK'
  <2>1. RowsOK'
    BY <1>29 DEF TypeOK, RowsOK, RunStates, AttemptStates, exitCodeCanceled,
       CancelRun
  <2>2. PcOK'
    BY <1>29 DEF TypeOK, PcOK, Goto, CancelRun
  <2>3. FilesOK' /\ LoopOK' /\ ResumeOK' /\ ResultOK'
    BY <1>29 DEF TypeOK, FilesOK, LoopOK, ResumeOK, ResultOK, CancelRun
  <2> QED
    BY <2>1, <2>2, <2>3 DEF TypeOK
<1>30. ASSUME NEW c \in Cancelers, CancelFails(c) PROVE TypeOK'
  <2>1. PcOK'
    BY <1>30 DEF TypeOK, PcOK, Goto, CancelFails
  <2>2. ResultOK'
    BY <1>30 DEF TypeOK, ResultOK, Return, exitCodeInternal, CancelFails
  <2>3. RowsOK' /\ FilesOK' /\ LoopOK' /\ ResumeOK'
    BY <1>30 DEF TypeOK, RowsOK, FilesOK, LoopOK, ResumeOK, CancelFails
  <2> QED
    BY <2>1, <2>2, <2>3 DEF TypeOK
<1>31. ASSUME NEW p \in Procs, ReadRun(p) PROVE TypeOK'
  <2>1. FilesOK'
    BY <1>31 DEF TypeOK, FilesOK, Summaries, RowsOK, ReadRun
  <2>2. PcOK'
    BY <1>31 DEF TypeOK, PcOK, Goto, ReadRun
  <2>3. RowsOK' /\ LoopOK' /\ ResumeOK' /\ ResultOK'
    BY <1>31 DEF TypeOK, RowsOK, LoopOK, ResumeOK, ResultOK, ReadRun
  <2> QED
    BY <2>1, <2>2, <2>3 DEF TypeOK
<1>32. ASSUME NEW p \in Procs, ReadAttempts(p) PROVE TypeOK'
  <2>1. FilesOK'
    BY <1>32 DEF TypeOK, FilesOK, Summaries, RowsOK, Rows, ReadAttempts
  <2>2. PcOK'
    BY <1>32 DEF TypeOK, PcOK, Goto, ReadAttempts
  <2>3. RowsOK' /\ LoopOK' /\ ResumeOK' /\ ResultOK'
    BY <1>32 DEF TypeOK, RowsOK, LoopOK, ResumeOK, ResultOK, ReadAttempts
  <2> QED
    BY <2>1, <2>2, <2>3 DEF TypeOK
<1>33. ASSUME NEW p \in Procs, WriteSummary(p) PROVE TypeOK'
  <2>1. FilesOK'
    BY <1>33 DEF TypeOK, FilesOK, Summaries, NoSummary, AttemptStates,
       WriteSummary
  <2>2. PcOK'
    BY <1>33 DEF TypeOK, PcOK, Goto, WriteSummary
  <2>3. RowsOK' /\ LoopOK' /\ ResumeOK' /\ ResultOK'
    BY <1>33 DEF TypeOK, RowsOK, LoopOK, ResumeOK, ResultOK, WriteSummary
  <2> QED
    BY <2>1, <2>2, <2>3 DEF TypeOK
<1>34. ASSUME NEW p \in Procs, Crash(p) PROVE TypeOK'
  <2>1. PcOK'
    BY <1>34 DEF TypeOK, PcOK, Goto, Crash
  <2>2. ResultOK'
    BY <1>34, Abandoned DEF TypeOK, ResultOK, Crash
  <2>3. RowsOK' /\ FilesOK' /\ LoopOK' /\ ResumeOK'
    BY <1>34 DEF TypeOK, RowsOK, FilesOK, LoopOK, ResumeOK, Crash
  <2> QED
    BY <2>1, <2>2, <2>3 DEF TypeOK
<1>35. ASSUME UNCHANGED vars PROVE TypeOK'
  BY <1>35 DEF TypeOK, RowsOK, FilesOK, PcOK, LoopOK, ResumeOK, ResultOK, vars
<1> QED
  BY <1>1, <1>2, <1>3, <1>4, <1>5, <1>6, <1>7, <1>8, <1>9, <1>10, <1>11,
     <1>12, <1>13, <1>14, <1>15, <1>16, <1>17, <1>18, <1>19, <1>20, <1>21, <1>22,
     <1>23, <1>24, <1>25, <1>26, <1>27, <1>28, <1>29, <1>30, <1>31, <1>32, <1>33,
     <1>34, <1>35 DEF Next, LauncherStep, LauncherFault, SummaryStep, CancelStep

\* Whatever commands, crashes and I/O errors interleave, the rows, the files
\* and the variables of the commands keep their types, and no invocation makes
\* more attempts than routing.max_attempts allows.
THEOREM TypeCorrect == Spec => []TypeOK
<1>1. Init => TypeOK
  <2> SUFFICES ASSUME Init PROVE TypeOK
    OBVIOUS
  <2> USE LifecycleAssumption DEF Init
  <2>1. 1 \in 1..maxAttempts
    BY DEF maxAttempts
  <2>2. NoRow \in Rows
    BY DEF NoRow, Rows, AttemptStates
  <2>3. NoSummary \in Summaries
    BY DEF NoSummary, Summaries, AttemptStates
  <2>4. RowsOK
    BY <2>2 DEF RowsOK
  <2>5. FilesOK
    BY <2>3 DEF FilesOK
  <2>6. PcOK
    BY DEF PcOK, Procs, LauncherPcs, CancelerPcs, EndPcs
  <2>7. LoopOK
    BY <2>1 DEF LoopOK, Targets
  <2>8. ResumeOK
    BY DEF ResumeOK, NoRow
  <2>9. ResultOK
    BY DEF ResultOK
  <2> QED
    BY <2>4, <2>5, <2>6, <2>7, <2>8, <2>9 DEF TypeOK
<1> QED
  BY <1>1, TypeStep, PTL DEF Spec

-----------------------------------------------------------------------------
(* Who owns a running row *)

\* Leaving the attempt loop means writing a final state, dying, or having met
\* a failed statement: the run row is never abandoned as running.
LEMMA OwnerStep == TypeOK /\ RunningHasOwner /\ [Next]_vars => RunningHasOwner'
<1> SUFFICES ASSUME TypeOK, RunningHasOwner PROVE [Next]_vars => RunningHasOwner'
  OBVIOUS
<1> USE LifecycleAssumption
    DEF dbVars, files, loopVars, locals, Procs, Launchers,
        Working, WorkingPcs, AttemptPcs, SummaryPcs
<1>1. ASSUME NEW l \in Launchers, StartTrain(l) PROVE RunningHasOwner'
  BY <1>1 DEF RunningHasOwner, TypeOK, PcOK, Goto, StartTrain
<1>2. ASSUME NEW l \in Launchers, ResumeScan(l) PROVE RunningHasOwner'
  BY <1>2 DEF RunningHasOwner, TypeOK, PcOK, Goto, ResumeScan
<1>3. ASSUME NEW l \in Launchers, ResumeNotPrepared(l) PROVE RunningHasOwner'
  BY <1>3 DEF RunningHasOwner, TypeOK, PcOK, Goto, ResumeNotPrepared
<1>4. ASSUME NEW l \in Launchers, RestartRun(l) PROVE RunningHasOwner'
  BY <1>4 DEF RunningHasOwner, TypeOK, PcOK, Goto, RestartRun
<1>5. ASSUME NEW l \in Launchers, SelectProvider(l) PROVE RunningHasOwner'
  BY <1>5 DEF RunningHasOwner, TypeOK, PcOK, Goto, SelectProvider
<1>6. ASSUME NEW l \in Launchers, RoutingFails(l) PROVE RunningHasOwner'
  BY <1>6 DEF RunningHasOwner, TypeOK, PcOK, Goto, RoutingFails
<1>7. ASSUME NEW l \in Launchers, UseExplicitProvider(l) PROVE RunningHasOwner'
  BY <1>7 DEF RunningHasOwner, TypeOK, PcOK, Goto, UseExplicitProvider
<1>8. ASSUME NEW l \in Launchers, ExplicitProviderCannotResume(l) PROVE RunningHasOwner'
  BY <1>8 DEF RunningHasOwner, TypeOK, PcOK, Goto,
     ExplicitProviderCannotResume
<1>9. ASSUME NEW l \in Launchers, CreateAttempt(l) PROVE RunningHasOwner'
  BY <1>9 DEF RunningHasOwner, TypeOK, PcOK, Goto, CreateAttempt
<1>10. ASSUME NEW l \in Launchers, PrepareFails(l) PROVE RunningHasOwner'
  BY <1>10 DEF RunningHasOwner, TypeOK, PcOK, Goto, PrepareFails
<1>11. ASSUME NEW l \in Launchers, FailAttempt(l) PROVE RunningHasOwner'
  BY <1>11 DEF RunningHasOwner, TypeOK, PcOK, Goto, FailAttempt
<1>12. ASSUME NEW l \in Launchers, CallSubmit(l) PROVE RunningHasOwner'
  BY <1>12 DEF RunningHasOwner, TypeOK, PcOK, Goto, CallSubmit
<1>13. ASSUME NEW l \in Launchers, OnStarted(l) PROVE RunningHasOwner'
  BY <1>13 DEF RunningHasOwner, TypeOK, PcOK, Goto, OnStarted
<1>14. ASSUME NEW l \in Launchers, SubmitReturns(l) PROVE RunningHasOwner'
  BY <1>14 DEF RunningHasOwner, TypeOK, PcOK, Goto, SubmitReturns
<1>15. ASSUME NEW l \in Launchers, CheckRun(l) PROVE RunningHasOwner'
  BY <1>15 DEF RunningHasOwner, TypeOK, PcOK, Goto, CheckRun
<1>16. ASSUME NEW l \in Launchers, FinishAttempt(l) PROVE RunningHasOwner'
  BY <1>16 DEF RunningHasOwner, TypeOK, PcOK, Goto, FinishAttempt,
     AfterAttempt
<1>17. ASSUME NEW l \in Launchers, FinishRun(l) PROVE RunningHasOwner'
  BY <1>17 DEF RunningHasOwner, TypeOK, PcOK, Goto, FinishRun, FinalState
<1>18. ASSUME NEW l \in Launchers, OutOfAttempts(l) PROVE RunningHasOwner'
  BY <1>18 DEF RunningHasOwner, TypeOK, PcOK, Goto, OutOfAttempts
<1>19. ASSUME NEW l \in Launchers, NoCheckpointToFailOver(l) PROVE RunningHasOwner'
  BY <1>19 DEF RunningHasOwner, TypeOK, PcOK, Goto, NoCheckpointToFailOver
<1>20. ASSUME NEW l \in Launchers, FailOver(l) PROVE RunningHasOwner'
  BY <1>20 DEF RunningHasOwner, TypeOK, PcOK, Goto, FailOver
<1>21. ASSUME NEW l \in Launchers, GiveUp(l) PROVE RunningHasOwner'
  BY <1>21 DEF RunningHasOwner, TypeOK, PcOK, Goto, GiveUp
<1>22. ASSUME NEW l \in Launchers, EmitCheckpoint(l) PROVE RunningHasOwner'
  BY <1>22 DEF RunningHasOwner, TypeOK, PcOK, Goto, EmitCheckpoint
<1>23. ASSUME NEW l \in Launchers, DBError(l) PROVE RunningHasOwner'
  BY <1>23, Abandoned DEF RunningHasOwner, TypeOK, PcOK, DBError
<1>24. ASSUME NEW l \in Launchers, LostWrite(l) PROVE RunningHasOwner'
  BY <1>24 DEF RunningHasOwner, TypeOK, PcOK, ResultOK, Goto, LostWrite
<1>25. ASSUME NEW l \in Launchers, SummaryFails(l) PROVE RunningHasOwner'
  BY <1>25 DEF RunningHasOwner, TypeOK, PcOK, Goto, SummaryFails
<1>26. ASSUME NEW c \in Cancelers, CancelReadRun(c) PROVE RunningHasOwner'
  BY <1>26 DEF RunningHasOwner, TypeOK, PcOK, Goto, CancelReadRun
<1>27. ASSUME NEW c \in Cancelers, CancelPick(c) PROVE RunningHasOwner'
  BY <1>27 DEF RunningHasOwner, TypeOK, PcOK, Goto, CancelPick
<1>28. ASSUME NEW c \in Cancelers, CancelAttempt(c) PROVE RunningHasOwner'
  BY <1>28 DEF RunningHasOwner, TypeOK, PcOK, Goto, CancelAttempt
<1>29. ASSUME NEW c \in Cancelers, CancelRun(c) PROVE RunningHasOwner'
  BY <1>29 DEF RunningHasOwner, TypeOK, PcOK, Goto, CancelRun
<1>30. ASSUME NEW c \in Cancelers, CancelFails(c) PROVE RunningHasOwner'
  BY <1>30 DEF RunningHasOwner, TypeOK, PcOK, Goto, CancelFails
<1>31. ASSUME NEW p \in Procs, ReadRun(p) PROVE RunningHasOwner'
  BY <1>31 DEF RunningHasOwner, TypeOK, PcOK, Goto, ReadRun
<1>32. ASSUME NEW p \in Procs, ReadAttempts(p) PROVE RunningHasOwner'
  BY <1>32 DEF RunningHasOwner, TypeOK, PcOK, Goto, ReadAttempts
<1>33. ASSUME NEW p \in Procs, WriteSummary(p) PROVE RunningHasOwner'
  BY <1>33 DEF RunningHasOwner, TypeOK, PcOK, Goto, WriteSummary
<1>34. ASSUME NEW p \in Procs, Crash(p) PROVE RunningHasOwner'
  BY <1>34, Abandoned DEF RunningHasOwner, TypeOK, PcOK, Crash
<1>35. ASSUME UNCHANGED vars PROVE RunningHasOwner'
  BY <1>35 DEF RunningHasOwner, TypeOK, PcOK, Goto, vars
<1> QED
  BY <1>1, <1>2, <1>3, <1>4, <1>5, <1>6, <1>7, <1>8, <1>9, <1>10, <1>11,
     <1>12, <1>13, <1>14, <1>15, <1>16, <1>17, <1>18, <1>19, <1>20, <1>21, <1>22,
     <1>23, <1>24, <1>25, <1>26, <1>27, <1>28, <1>29, <1>30, <1>31, <1>32, <1>33,
     <1>34, <1>35 DEF Next, LauncherStep, LauncherFault, SummaryStep, CancelStep

\* A run row says running only while an invocation still works on it, or if,
\* since the last restart, one was killed in its attempt loop or had the
\* statement fail that was to settle the row: runTrain and runResume have no
\* other path that returns and leaves the row behind, whoever else works on it.
THEOREM RunningRunIsOwned == Spec => []RunningHasOwner
<1>1. Init => RunningHasOwner
  BY DEF Init, RunningHasOwner
<1> QED
  BY <1>1, TypeCorrect, OwnerStep, PTL DEF Spec

-----------------------------------------------------------------------------
(* The order of attempt rows *)

\* Where an invocation has not inserted the row of its current attempt yet.
BeforeAttempt == {"idle", "restart", "route", "create"}

\* The row of attempt i of l may exist.
Begun(l, i) ==
  \/ i < number[l]
  \/ i = number[l] /\ pc[l] \notin BeforeAttempt

\* Attempt rows are written in the order of their numbers; the row an
\* invocation works on exists, and so does the row a canceler picked.
AttemptsInOrder ==
  /\ \A l \in Launchers : \A i \in 1..maxAttempts : Exists(<<l, i>>) => Begun(l, i)
  /\ \A l \in Launchers : pc[l] \in {"idle", "restart"} => number[l] = 1
  /\ \A l \in Launchers : pc[l] \in AttemptPcs => Exists(Current(l))
  /\ \A c \in Cancelers : picked[c] # NoAttempt => Exists(picked[c])

\* No row appears or disappears; providers and resume points stay.
RowsKept ==
  \A a \in AttemptIds :
    /\ Exists(a)' <=> Exists(a)
    /\ attempts'[a].provider = attempts[a].provider
    /\ attempts'[a].resume = attempts[a].resume

\* runAttempt's updates touch only the state and the ref of its own row.
LEMMA LauncherKeepsRows ==
  ASSUME TypeOK, AttemptsInOrder, NEW l \in Launchers,
         FailAttempt(l) \/ OnStarted(l) \/ FinishAttempt(l)
  PROVE  RowsKept
<1>1. Current(l) \in AttemptIds
  BY CurrentIsAttemptId DEF TypeOK
<1>2. Exists(Current(l))
  BY DEF AttemptsInOrder, AttemptPcs, FailAttempt, OnStarted, FinishAttempt, Goto
<1>3. CASE FailAttempt(l)
  BY <1>1, <1>2, <1>3 DEF TypeOK, RowsOK, Rows, RowsKept, Exists, FailAttempt
<1>4. CASE OnStarted(l)
  BY <1>1, <1>2, <1>4 DEF TypeOK, RowsOK, Rows, RowsKept, Exists, OnStarted
<1>5. CASE FinishAttempt(l)
  BY <1>1, <1>2, <1>5
  DEF TypeOK, RowsOK, Rows, RowsKept, Exists, FinishAttempt, FinalState
<1> QED
  BY <1>3, <1>4, <1>5

\* cancelRun's update touches only the state of an existing row.
LEMMA CancelKeepsRows ==
  ASSUME TypeOK, AttemptsInOrder, NEW c \in Cancelers, CancelAttempt(c)
  PROVE  RowsKept
<1>1. CASE picked[c] \in AttemptIds
  <2>1. Exists(picked[c])
    BY <1>1 DEF AttemptsInOrder, NoAttempt, AttemptIds
  <2> QED
    BY <1>1, <2>1 DEF TypeOK, RowsOK, Rows, RowsKept, Exists, CancelAttempt
<1>2. CASE picked[c] \notin AttemptIds
  BY <1>2 DEF TypeOK, RowsOK, RowsKept, Exists, CancelAttempt
<1> QED
  BY <1>1, <1>2

\* runAttempts inserts the rows of an invocation in the order of their
\* numbers, and a canceler only picks rows that exist.
LEMMA OrderStep == TypeOK /\ AttemptsInOrder /\ [Next]_vars => AttemptsInOrder'
<1> SUFFICES ASSUME TypeOK, AttemptsInOrder PROVE [Next]_vars => AttemptsInOrder'
  OBVIOUS
<1> USE LifecycleAssumption
    DEF dbVars, files, loopVars, locals, Procs, Launchers
<1>1. ASSUME NEW l \in Launchers, StartTrain(l) PROVE AttemptsInOrder'
  BY <1>1 DEF AttemptsInOrder, Begun, BeforeAttempt, AttemptPcs, Exists,
     Current, TypeOK, PcOK, LoopOK, Goto, StartTrain
<1>2. ASSUME NEW l \in Launchers, ResumeScan(l) PROVE AttemptsInOrder'
  BY <1>2 DEF AttemptsInOrder, Begun, BeforeAttempt, AttemptPcs, Exists,
     Current, TypeOK, PcOK, LoopOK, Goto, ResumeScan
<1>3. ASSUME NEW l \in Launchers, ResumeNotPrepared(l) PROVE AttemptsInOrder'
  BY <1>3 DEF AttemptsInOrder, Begun, BeforeAttempt, AttemptPcs, Exists,
     Current, TypeOK, PcOK, LoopOK, Goto, ResumeNotPrepared
<1>4. ASSUME NEW l \in Launchers, RestartRun(l) PROVE AttemptsInOrder'
  BY <1>4 DEF AttemptsInOrder, Begun, BeforeAttempt, AttemptPcs, Exists,
     Current, TypeOK, PcOK, LoopOK, Goto, RestartRun
<1>5. ASSUME NEW l \in Launchers, SelectProvider(l) PROVE AttemptsInOrder'
  BY <1>5 DEF AttemptsInOrder, Begun, BeforeAttempt, AttemptPcs, Exists,
     Current, TypeOK, PcOK, LoopOK, Goto, SelectProvider
<1>6. ASSUME NEW l \in Launchers, RoutingFails(l) PROVE AttemptsInOrder'
  BY <1>6 DEF AttemptsInOrder, Begun, BeforeAttempt, AttemptPcs, Exists,
     Current, TypeOK, PcOK, LoopOK, Goto, RoutingFails
<1>7. ASSUME NEW l \in Launchers, UseExplicitProvider(l) PROVE AttemptsInOrder'
  BY <1>7 DEF AttemptsInOrder, Begun, BeforeAttempt, AttemptPcs, Exists,
     Current, TypeOK, PcOK, LoopOK, Goto, UseExplicitProvider
<1>8. ASSUME NEW l \in Launchers, ExplicitProviderCannotResume(l) PROVE AttemptsInOrder'
  BY <1>8 DEF AttemptsInOrder, Begun, BeforeAttempt, AttemptPcs, Exists,
     Current, TypeOK, PcOK, LoopOK, Goto, ExplicitProviderCannotResume
<1>9. ASSUME NEW l \in Launchers, CreateAttempt(l) PROVE AttemptsInOrder'
  BY <1>9 DEF AttemptsInOrder, Begun, BeforeAttempt, AttemptPcs, Exists,
     Current, TypeOK, PcOK, LoopOK, Goto, CreateAttempt, RowsOK, Rows,
     AttemptIds, NewRow
<1>10. ASSUME NEW l \in Launchers, PrepareFails(l) PROVE AttemptsInOrder'
  BY <1>10 DEF AttemptsInOrder, Begun, BeforeAttempt, AttemptPcs, Exists,
     Current, TypeOK, PcOK, LoopOK, Goto, PrepareFails
<1>11. ASSUME NEW l \in Launchers, FailAttempt(l) PROVE AttemptsInOrder'
  BY <1>11 DEF AttemptsInOrder, Begun, BeforeAttempt, AttemptPcs, Exists,
     Current, TypeOK, PcOK, LoopOK, Goto, FailAttempt, RowsOK, Rows, AttemptIds
<1>12. ASSUME NEW l \in Launchers, CallSubmit(l) PROVE AttemptsInOrder'
  BY <1>12 DEF AttemptsInOrder, Begun, BeforeAttempt, AttemptPcs, Exists,
     Current, TypeOK, PcOK, LoopOK, Goto, CallSubmit
<1>13. ASSUME NEW l \in Launchers, OnStarted(l) PROVE AttemptsInOrder'
  BY <1>13 DEF AttemptsInOrder, Begun, BeforeAttempt, AttemptPcs, Exists,
     Current, TypeOK, PcOK, LoopOK, Goto, OnStarted, RowsOK, Rows, AttemptIds
<1>14. ASSUME NEW l \in Launchers, SubmitReturns(l) PROVE AttemptsInOrder'
  BY <1>14 DEF AttemptsInOrder, Begun, BeforeAttempt, AttemptPcs, Exists,
     Current, TypeOK, PcOK, LoopOK, Goto, SubmitReturns
<1>15. ASSUME NEW l \in Launchers, CheckRun(l) PROVE AttemptsInOrder'
  BY ZenonT(30), <1>15 DEF AttemptsInOrder, Begun, BeforeAttempt, AttemptPcs, Exists,
     Current, TypeOK, PcOK, LoopOK, Goto, CheckRun
<1>16. ASSUME NEW l \in Launchers, FinishAttempt(l) PROVE AttemptsInOrder'
  BY <1>16 DEF AttemptsInOrder, Begun, BeforeAttempt, AttemptPcs, Exists,
     Current, TypeOK, PcOK, LoopOK, Goto, FinishAttempt, RowsOK, Rows,
     AttemptIds, AfterAttempt, FinalState
<1>17. ASSUME NEW l \in Launchers, FinishRun(l) PROVE AttemptsInOrder'
  BY <1>17 DEF AttemptsInOrder, Begun, BeforeAttempt, AttemptPcs, Exists,
     Current, TypeOK, PcOK, LoopOK, Goto, FinishRun
<1>18. ASSUME NEW l \in Launchers, OutOfAttempts(l) PROVE AttemptsInOrder'
  BY <1>18 DEF AttemptsInOrder, Begun, BeforeAttempt, AttemptPcs, Exists,
     Current, TypeOK, PcOK, LoopOK, Goto, OutOfAttempts
<1>19. ASSUME NEW l \in Launchers, NoCheckpointToFailOver(l) PROVE AttemptsInOrder'
  BY <1>19 DEF AttemptsInOrder, Begun, BeforeAttempt, AttemptPcs, Exists,
     Current, TypeOK, PcOK, LoopOK, Goto, NoCheckpointToFailOver
<1>20. ASSUME NEW l \in Launchers, FailOver(l) PROVE AttemptsInOrder'
  <2>1. number[l] \in Nat /\ number' = [number EXCEPT ![l] = number[l] + 1]
    BY <1>20 DEF TypeOK, LoopOK, FailOver
  <2>2. \A i \in 1..maxAttempts : Exists(<<l, i>>) => i <= number[l]
    BY <2>1 DEF AttemptsInOrder, Begun
  <2>3. \A k \in Launchers : \A i \in 1..maxAttempts :
          Begun(k, i) => Begun(k, i)'
    <3> SUFFICES ASSUME NEW k \in Launchers, NEW i \in 1..maxAttempts, Begun(k, i)
                 PROVE  Begun(k, i)'
      OBVIOUS
    <3>1. CASE k = l
      <4>1. i \in Int /\ i <= number[l]
        BY <2>1, <3>1 DEF Begun
      <4>2. number'[l] = number[l] + 1
        BY <2>1 DEF TypeOK, LoopOK
      <4>3. number[l] \in Int
        BY <2>1
      <4>4. i < number'[k]
        BY <3>1, <4>1, <4>2, <4>3
      <4> QED
        BY <4>4 DEF Begun, BeforeAttempt
    <3>2. CASE k # l
      BY <1>20, <2>1, <3>2 DEF Begun, TypeOK, PcOK, LoopOK, Goto, FailOver
    <3> QED
      BY <3>1, <3>2
  <2> QED
    BY <1>20, <2>1, <2>2, <2>3
    DEF AttemptsInOrder, BeforeAttempt, AttemptPcs, Exists, Current,
        TypeOK, PcOK, LoopOK, Goto, FailOver
<1>21. ASSUME NEW l \in Launchers, GiveUp(l) PROVE AttemptsInOrder'
  BY <1>21 DEF AttemptsInOrder, Begun, BeforeAttempt, AttemptPcs, Exists,
     Current, TypeOK, PcOK, LoopOK, Goto, GiveUp
<1>22. ASSUME NEW l \in Launchers, EmitCheckpoint(l) PROVE AttemptsInOrder'
  BY <1>22 DEF AttemptsInOrder, Begun, BeforeAttempt, AttemptPcs, Exists,
     Current, TypeOK, PcOK, LoopOK, Goto, EmitCheckpoint
<1>23. ASSUME NEW l \in Launchers, DBError(l) PROVE AttemptsInOrder'
  BY <1>23 DEF AttemptsInOrder, Begun, BeforeAttempt, AttemptPcs, Exists,
     Current, TypeOK, PcOK, LoopOK, Goto, DBError
<1>24. ASSUME NEW l \in Launchers, LostWrite(l) PROVE AttemptsInOrder'
  BY <1>24 DEF AttemptsInOrder, Begun, BeforeAttempt, AttemptPcs, Exists,
     Current, TypeOK, PcOK, LoopOK, Goto, LostWrite
<1>25. ASSUME NEW l \in Launchers, SummaryFails(l) PROVE AttemptsInOrder'
  BY ZenonT(30), <1>25 DEF AttemptsInOrder, Begun, BeforeAttempt, AttemptPcs, Exists,
     Current, TypeOK, PcOK, LoopOK, Goto, SummaryFails
<1>26. ASSUME NEW c \in Cancelers, CancelReadRun(c) PROVE AttemptsInOrder'
  BY <1>26 DEF AttemptsInOrder, Begun, BeforeAttempt, AttemptPcs, Exists,
     Current, TypeOK, PcOK, LoopOK, Goto, CancelReadRun
<1>27. ASSUME NEW c \in Cancelers, CancelPick(c) PROVE AttemptsInOrder'
  <2>1. \A d \in Cancelers : picked'[d] = picked[d] \/ Exists(picked'[d])
    BY <1>27 DEF Exists, LastRunning, TypeOK, ResultOK, CancelPick
  <2>2. \A d \in Cancelers : (picked[d] # NoAttempt => Exists(picked[d]))'
    BY <1>27, <2>1 DEF AttemptsInOrder, Exists, CancelPick
  <2> QED
    BY ZenonT(30), <1>27, <2>2
    DEF AttemptsInOrder, Begun, BeforeAttempt, AttemptPcs, Exists, Current,
        TypeOK, PcOK, Goto, CancelPick
<1>28. ASSUME NEW c \in Cancelers, CancelAttempt(c) PROVE AttemptsInOrder'
  <2>1. \A a \in AttemptIds : Exists(a)' <=> Exists(a)
    <3>1. CASE picked[c] \in AttemptIds
      <4>1. Exists(picked[c])
        BY <1>28, <3>1 DEF AttemptsInOrder, NoAttempt, AttemptIds
      <4> QED
        BY <1>28, <3>1, <4>1 DEF Exists, TypeOK, RowsOK, Rows, CancelAttempt
    <3>2. CASE picked[c] \notin AttemptIds
      BY <1>28, <3>2 DEF Exists, TypeOK, RowsOK, CancelAttempt
    <3> QED
      BY <3>1, <3>2
  <2> QED
    BY <1>28, <2>1
    DEF AttemptsInOrder, Begun, BeforeAttempt, AttemptPcs, AttemptIds, Current,
        TypeOK, PcOK, LoopOK, ResultOK, Goto, CancelAttempt
<1>29. ASSUME NEW c \in Cancelers, CancelRun(c) PROVE AttemptsInOrder'
  BY <1>29 DEF AttemptsInOrder, Begun, BeforeAttempt, AttemptPcs, Exists,
     Current, TypeOK, PcOK, LoopOK, Goto, CancelRun
<1>30. ASSUME NEW c \in Cancelers, CancelFails(c) PROVE AttemptsInOrder'
  BY <1>30 DEF AttemptsInOrder, Begun, BeforeAttempt, AttemptPcs, Exists,
     Current, TypeOK, PcOK, LoopOK, Goto, CancelFails
<1>31. ASSUME NEW p \in Procs, ReadRun(p) PROVE AttemptsInOrder'
  BY <1>31 DEF AttemptsInOrder, Begun, BeforeAttempt, AttemptPcs, Exists,
     Current, TypeOK, PcOK, LoopOK, Goto, ReadRun
<1>32. ASSUME NEW p \in Procs, ReadAttempts(p) PROVE AttemptsInOrder'
  BY <1>32 DEF AttemptsInOrder, Begun, BeforeAttempt, AttemptPcs, Exists,
     Current, TypeOK, PcOK, LoopOK, Goto, ReadAttempts
<1>33. ASSUME NEW p \in Procs, WriteSummary(p) PROVE AttemptsInOrder'
  BY <1>33 DEF AttemptsInOrder, Begun, BeforeAttempt, AttemptPcs, Exists,
     Current, TypeOK, PcOK, LoopOK, Goto, WriteSummary
<1>34. ASSUME NEW p \in Procs, Crash(p) PROVE AttemptsInOrder'
  BY <1>34 DEF AttemptsInOrder, Begun, BeforeAttempt, AttemptPcs, Exists,
     Current, TypeOK, PcOK, LoopOK, Goto, Crash
<1>35. ASSUME UNCHANGED vars PROVE AttemptsInOrder'
  BY <1>35 DEF AttemptsInOrder, Begun, BeforeAttempt, AttemptPcs, Exists,
     Current, TypeOK, PcOK, LoopOK, Goto, vars
<1> QED
  BY <1>1, <1>2, <1>3, <1>4, <1>5, <1>6, <1>7, <1>8, <1>9, <1>10, <1>11,
     <1>12, <1>13, <1>14, <1>15, <1>16, <1>17, <1>18, <1>19, <1>20, <1>21, <1>22,
     <1>23, <1>24, <1>25, <1>26, <1>27, <1>28, <1>29, <1>30, <1>31, <1>32, <1>33,
     <1>34, <1>35 DEF Next, LauncherStep, LauncherFault, SummaryStep, CancelStep

\* The attempts table of a run starts empty.
LEMMA NoRowsAtFirst ==
  Init => \A l \in Launchers : \A i \in 1..maxAttempts : ~Exists(<<l, i>>)
  BY DEF Init, Exists, AttemptIds, NoRow

\* runAttempts inserts one row per turn, in order; whoever updates a row
\* updates one that exists.
THEOREM AttemptRowsAreOrdered == Spec => []AttemptsInOrder
<1>1. Init => AttemptsInOrder
  BY NoRowsAtFirst, LifecycleAssumption
  DEF Init, AttemptsInOrder, AttemptPcs, Launchers, Procs
<1> QED
  BY <1>1, TypeCorrect, OrderStep, PTL DEF Spec

-----------------------------------------------------------------------------
(* Who owns a running attempt *)

\* The canceler has picked an attempt, which does not run any more.
PickedOver(c) == picked[c] # NoAttempt /\ attempts[picked[c]].state # "running"

\* A canceler picks once, and marks the run after the attempt it picked; a
\* run is canceled by nobody else.
CancelInv ==
  /\ \A c \in Cancelers : pc[c] \in {"idle", "pick"} => picked[c] = NoAttempt
  /\ \A c \in Cancelers : pc[c] = "cancelAttempt" => picked[c] # NoAttempt
  /\ \A c \in Cancelers : pc[c] = "cancelRun" => PickedOver(c)
  /\ run.state = "canceled" => \E c \in Cancelers : PickedOver(c)

\* Where an invocation only writes the summary, or nothing at all.
Ending == SummaryPcs \cup {"done", "crashed"}

\* An invocation that leaves a row behind makes no other attempt.
LeftInv ==
  /\ \A l \in left.attempt : pc[l] \in Ending \cup {"giveUp"}
  /\ \A l \in left.canceled : pc[l] \in Ending

AttemptOwnerInv == CancelInv /\ LeftInv /\ AttemptHasOwner

\* Only the insert makes a row running, and it makes no old row so.
LEMMA NoRowRevives ==
  ASSUME TypeOK, AttemptsInOrder, [Next]_vars, NEW a \in AttemptIds,
         attempts'[a].state = "running", attempts[a].state # "running"
  PROVE  /\ ~Exists(a)
         /\ \E l \in Launchers : CreateAttempt(l) /\ a = Current(l)
<1> USE DEF dbVars, files, loopVars, locals
<1>1. ASSUME NEW l \in Launchers,
             FailAttempt(l) \/ OnStarted(l) \/ FinishAttempt(l)
      PROVE  FALSE
  BY <1>1, CurrentIsAttemptId
  DEF TypeOK, RowsOK, Rows, FailAttempt, OnStarted, FinishAttempt, FinalState
<1>2. ASSUME NEW c \in Cancelers, CancelAttempt(c) PROVE FALSE
  BY <1>2 DEF TypeOK, RowsOK, Rows, CancelAttempt
<1>3. ASSUME NEW l \in Launchers, CreateAttempt(l)
      PROVE  a = Current(l) /\ ~Exists(a)
  <2>1. a = Current(l)
    BY <1>3, CurrentIsAttemptId DEF TypeOK, RowsOK, CreateAttempt
  <2>2. pc[l] = "create" /\ ~Begun(l, number[l])
    BY <1>3 DEF CreateAttempt, Goto, Begun, BeforeAttempt, TypeOK, LoopOK
  <2> QED
    BY <2>1, <2>2 DEF AttemptsInOrder, Current, TypeOK, LoopOK
<1>4. ~UNCHANGED attempts
  OBVIOUS
<1> QED
  BY <1>1, <1>2, <1>3, <1>4
  DEF vars, Next, LauncherStep, LauncherFault, SummaryStep, CancelStep, StartTrain,
      ResumeScan, ResumeNotPrepared, RestartRun, SelectProvider, RoutingFails,
      UseExplicitProvider, ExplicitProviderCannotResume, PrepareFails, CallSubmit,
      EmitCheckpoint, SubmitReturns, CheckRun, FinishRun, OutOfAttempts,
      NoCheckpointToFailOver, FailOver, GiveUp, ReadRun, ReadAttempts, WriteSummary,
      CancelReadRun, CancelPick, CancelRun, CancelFails, DBError, LostWrite,
      SummaryFails, Crash

\* What a canceler picked stays picked.
LEMMA PickStays ==
  ASSUME TypeOK, CancelInv, [Next]_vars, NEW c \in Cancelers, picked[c] # NoAttempt
  PROVE  picked'[c] = picked[c]
<1>1. CASE UNCHANGED picked
  BY <1>1
<1>2. ASSUME NEW d \in Cancelers, CancelPick(d) PROVE picked'[c] = picked[c]
  <2>1. d # c
    BY <1>2 DEF CancelInv, CancelPick, Goto
  <2> QED
    BY <1>2, <2>1 DEF TypeOK, ResultOK, CancelPick
<1> QED
  BY <1>1, <1>2
  DEF vars, Next, LauncherStep, LauncherFault, SummaryStep, CancelStep, StartTrain,
      ResumeScan, ResumeNotPrepared, RestartRun, SelectProvider, RoutingFails,
      UseExplicitProvider, ExplicitProviderCannotResume, CreateAttempt, PrepareFails,
      FailAttempt, CallSubmit, OnStarted, EmitCheckpoint, SubmitReturns, CheckRun,
      FinishAttempt, FinishRun, OutOfAttempts, NoCheckpointToFailOver, FailOver,
      GiveUp, ReadRun, ReadAttempts, WriteSummary, CancelReadRun, CancelAttempt,
      CancelRun, CancelFails, DBError, LostWrite, SummaryFails, Crash, locals

\* A cancel moves nobody but itself.
LEMMA CancelMoves ==
  ASSUME NEW c \in Cancelers, NEW p \in Procs \ {c}, TypeOK, CancelStep(c) \/ CancelFails(c)
  PROVE  pc'[p] = pc[p]
<1> USE DEF TypeOK, PcOK, Goto
<1>1. CASE CancelReadRun(c)
  BY <1>1 DEF CancelReadRun
<1>2. CASE CancelPick(c)
  BY <1>2 DEF CancelPick
<1>3. CASE CancelAttempt(c) \/ CancelRun(c)
  BY <1>3 DEF CancelAttempt, CancelRun
<1>4. CASE CancelFails(c)
  BY <1>4 DEF CancelFails
<1> QED
  BY <1>1, <1>2, <1>3, <1>4 DEF CancelStep

\* A run is marked canceled after an attempt that was picked for it.
LEMMA CancelInvStep ==
  TypeOK /\ AttemptsInOrder /\ CancelInv /\ [Next]_vars => CancelInv'
<1> SUFFICES ASSUME TypeOK, AttemptsInOrder, CancelInv, [Next]_vars PROVE CancelInv'
  OBVIOUS
<1> USE LifecycleAssumption DEF dbVars, files, loopVars, locals, Launchers, Procs
<1>1. ASSUME NEW c \in Cancelers, PickedOver(c) PROVE PickedOver(c)'
  <2>1. picked'[c] = picked[c]
    BY <1>1, PickStays DEF PickedOver
  <2>2. picked[c] \in AttemptIds /\ Exists(picked[c])
    BY <1>1 DEF PickedOver, AttemptsInOrder, TypeOK, ResultOK
  <2>3. attempts'[picked[c]].state # "running"
    BY <1>1, <2>2, NoRowRevives DEF PickedOver
  <2> QED
    BY <1>1, <2>1, <2>3 DEF PickedOver
\* Most steps write neither a canceled run nor a canceler's variables.
<1>2. ASSUME run' = run \/ run'.state # "canceled",
             \A c \in Cancelers :
               \/ pc'[c] = pc[c] /\ picked'[c] = picked[c]
               \/ pc'[c] \notin {"idle", "pick", "cancelAttempt", "cancelRun"}
      PROVE  CancelInv'
  BY <1>1, <1>2 DEF CancelInv
<1>3. ASSUME NEW l \in Launchers, StartTrain(l) \/ ResumeScan(l) \/ ResumeNotPrepared(l)
      PROVE  CancelInv'
  <2>1. UNCHANGED picked /\ \A c \in Cancelers : pc'[c] = pc[c]
    BY <1>3 DEF StartTrain, ResumeScan, ResumeNotPrepared, Goto, TypeOK, PcOK
  <2>2. CASE StartTrain(l)
    BY <1>2, <2>1, <2>2 DEF StartTrain
  <2>3. CASE ResumeScan(l) \/ ResumeNotPrepared(l)
    BY <1>2, <2>1, <2>3 DEF ResumeScan, ResumeNotPrepared
  <2> QED
    BY <1>3, <2>2, <2>3
<1>4. ASSUME NEW l \in Launchers, LauncherStep(l) PROVE CancelInv'
  <2>1. UNCHANGED picked /\ \A c \in Cancelers : pc'[c] = pc[c]
    BY <1>4 DEF LauncherStep, RestartRun, SelectProvider, RoutingFails, UseExplicitProvider,
       ExplicitProviderCannotResume, CreateAttempt, PrepareFails, FailAttempt, CallSubmit,
       OnStarted, SubmitReturns, CheckRun, FinishAttempt, FinishRun, OutOfAttempts,
       NoCheckpointToFailOver, FailOver, GiveUp, Goto, TypeOK, PcOK
  <2>2. run' = run \/ run'.state # "canceled"
    <3>1. CASE RestartRun(l) \/ FinishRun(l) \/ GiveUp(l)
      BY <3>1 DEF RestartRun, FinishRun, GiveUp, FinalState
    <3>2. CASE ~(RestartRun(l) \/ FinishRun(l) \/ GiveUp(l))
      BY <1>4, <3>2 DEF LauncherStep, SelectProvider, RoutingFails, UseExplicitProvider,
         ExplicitProviderCannotResume, CreateAttempt, PrepareFails, FailAttempt, CallSubmit,
         OnStarted, SubmitReturns, CheckRun, FinishAttempt, OutOfAttempts,
         NoCheckpointToFailOver, FailOver
    <3> QED
      BY <3>1, <3>2
  <2> QED
    BY <1>2, <2>1, <2>2
<1>5. ASSUME NEW l \in Launchers, EmitCheckpoint(l) \/ LauncherFault(l) PROVE CancelInv'
  BY <1>2, <1>5
  DEF EmitCheckpoint, LauncherFault, DBError, LostWrite, SummaryFails, Goto, TypeOK, PcOK
<1>6. ASSUME NEW c \in Cancelers, CancelReadRun(c) PROVE CancelInv'
  BY <1>1, <1>6 DEF CancelInv, CancelReadRun, Goto, TypeOK, PcOK
<1>7. ASSUME NEW c \in Cancelers, CancelPick(c) PROVE CancelInv'
  <2>1. \A d \in Cancelers : d # c => pc'[d] = pc[d] /\ picked'[d] = picked[d]
    BY <1>7 DEF CancelPick, Goto, TypeOK, PcOK, ResultOK
  <2>2. (pc'[c] = "cancelAttempt" /\ picked'[c] # NoAttempt) \/ pc'[c] = "done"
    <3>1. CASE \E a \in AttemptIds : picked' = [picked EXCEPT ![c] = a]
      <4>1. picked'[c] \in AttemptIds
        BY <3>1 DEF TypeOK, ResultOK
      <4>2. pc'[c] \in {"cancelAttempt", "done"}
        BY <1>7 DEF CancelPick, Goto, TypeOK, PcOK
      <4> QED
        BY <4>1, <4>2 DEF NoAttempt, AttemptIds
    <3>2. CASE ~\E a \in AttemptIds : picked' = [picked EXCEPT ![c] = a]
      BY <1>7, <3>2 DEF CancelPick, Goto, TypeOK, PcOK
    <3> QED
      BY <3>1, <3>2
  <2>3. run' = run
    BY <1>7 DEF CancelPick
  <2> QED
    BY <1>1, <2>1, <2>2, <2>3 DEF CancelInv
<1>8. ASSUME NEW c \in Cancelers, CancelAttempt(c) PROVE CancelInv'
  <2>1. pc[c] = "cancelAttempt" /\ pc' = [pc EXCEPT ![c] = "cancelRun"]
        /\ UNCHANGED <<run, picked>>
    BY <1>8 DEF CancelAttempt, Goto
  <2>2. picked[c] # NoAttempt /\ picked[c] \in AttemptIds
    BY <2>1 DEF CancelInv, TypeOK, ResultOK
  <2>3. attempts'[picked[c]].state = "canceled"
    BY <1>8, <2>2 DEF CancelAttempt, TypeOK, RowsOK, Rows
  <2>4. PickedOver(c)'
    BY <2>1, <2>2, <2>3 DEF PickedOver
  <2> QED
    BY <1>1, <2>1, <2>4 DEF CancelInv, TypeOK, PcOK
<1>9. ASSUME NEW c \in Cancelers, CancelRun(c) PROVE CancelInv'
  <2>1. PickedOver(c)
    BY <1>9 DEF CancelInv, CancelRun, Goto
  <2> QED
    BY <1>1, <1>9, <2>1 DEF CancelInv, CancelRun, Goto, TypeOK, PcOK
<1>10. ASSUME NEW c \in Cancelers, CancelFails(c) PROVE CancelInv'
  BY <1>2, <1>10 DEF CancelFails, TypeOK, PcOK
<1>11. ASSUME NEW p \in Procs, SummaryStep(p) \/ Crash(p) PROVE CancelInv'
  BY <1>2, <1>11
  DEF SummaryStep, ReadRun, ReadAttempts, WriteSummary, Crash, Goto, TypeOK, PcOK
<1>12. CASE UNCHANGED vars
  BY <1>2, <1>12 DEF vars
<1> QED
  BY <1>3, <1>4, <1>5, <1>6, <1>7, <1>8, <1>9, <1>10, <1>11, <1>12 DEF Next, CancelStep

\* After a failed statement, a kill or a canceled run, an invocation does
\* nothing but settle the run and write the summary.
LEMMA LeftInvStep == TypeOK /\ LeftInv /\ [Next]_vars => LeftInv'
<1> SUFFICES ASSUME TypeOK, LeftInv, [Next]_vars PROVE LeftInv'
  OBVIOUS
<1> USE LifecycleAssumption
    DEF dbVars, files, loopVars, locals, Launchers, Procs, LeftInv, Ending, SummaryPcs,
        TypeOK, PcOK, ResultOK, Goto
<1>1. ASSUME NEW l \in Launchers, StartTrain(l) \/ ResumeScan(l) \/ ResumeNotPrepared(l)
      PROVE  LeftInv'
  BY <1>1 DEF StartTrain, ResumeScan, ResumeNotPrepared
<1>2. ASSUME NEW l \in Launchers, LauncherStep(l) PROVE LeftInv'
  <2>1. CASE RestartRun(l)
    BY <2>1 DEF RestartRun
  <2>2. CASE CheckRun(l)
    <3>1. CASE run.state = "canceled"
      <4>1. left' = [left EXCEPT !.canceled = @ \cup {l}] /\ pc' = [pc EXCEPT ![l] = "readRun"]
        BY <2>2, <3>1 DEF CheckRun
      <4> QED
        BY <4>1
    <3>2. CASE run.state # "canceled"
      BY <2>2, <3>2 DEF CheckRun
    <3> QED
      BY <3>1, <3>2
  <2>3. CASE GiveUp(l)
    BY <2>3 DEF GiveUp
  <2>4. CASE /\ ~RestartRun(l) /\ ~CheckRun(l) /\ ~GiveUp(l)
    <3>1. UNCHANGED left /\ \A k \in Launchers : k # l => pc'[k] = pc[k]
      BY <1>2, <2>4 DEF LauncherStep, SelectProvider, RoutingFails, UseExplicitProvider,
         ExplicitProviderCannotResume, CreateAttempt, PrepareFails, FailAttempt, CallSubmit,
         OnStarted, SubmitReturns, FinishAttempt, FinishRun, OutOfAttempts,
         NoCheckpointToFailOver, FailOver
    <3>2. pc[l] \notin Ending \cup {"giveUp"}
      BY <1>2, <2>4 DEF LauncherStep, SelectProvider, RoutingFails, UseExplicitProvider,
         ExplicitProviderCannotResume, CreateAttempt, PrepareFails, FailAttempt, CallSubmit,
         OnStarted, SubmitReturns, FinishAttempt, FinishRun, OutOfAttempts,
         NoCheckpointToFailOver, FailOver
    <3> QED
      BY <3>1, <3>2
  <2> QED
    BY <2>1, <2>2, <2>3, <2>4
<1>3. ASSUME NEW l \in Launchers, EmitCheckpoint(l) PROVE LeftInv'
  BY <1>3 DEF EmitCheckpoint
<1>4. ASSUME NEW l \in Launchers, DBError(l) PROVE LeftInv'
  BY <1>4, Abandoned DEF DBError
<1>5. ASSUME NEW l \in Launchers, LostWrite(l) PROVE LeftInv'
  BY <1>5 DEF LostWrite
<1>6. ASSUME NEW l \in Launchers, SummaryFails(l) PROVE LeftInv'
  BY <1>6 DEF SummaryFails
<1>7. ASSUME NEW c \in Cancelers, CancelStep(c) \/ CancelFails(c) PROVE LeftInv'
  <2>1. \A l \in Launchers : pc'[l] = pc[l]
    BY <1>7, CancelMoves
  <2>2. UNCHANGED left
    BY <1>7 DEF CancelStep, CancelReadRun, CancelPick, CancelAttempt, CancelRun, CancelFails
  <2> QED
    BY <2>1, <2>2
<1>8. ASSUME NEW p \in Procs, SummaryStep(p) PROVE LeftInv'
  BY <1>8 DEF SummaryStep, ReadRun, ReadAttempts, WriteSummary
<1>9. ASSUME NEW p \in Procs, Crash(p) PROVE LeftInv'
  BY <1>9, Abandoned DEF Crash
<1>10. CASE UNCHANGED vars
  BY <1>10 DEF vars
<1> QED
  BY <1>1, <1>2, <1>3, <1>4, <1>5, <1>6, <1>7, <1>8, <1>9, <1>10 DEF Next, LauncherFault

\* runAttempt marks its row finished before it returns, unless it died, met a
\* failed write, or found the run canceled after another attempt was picked.
LEMMA AttemptOwnerStep ==
  TypeOK /\ AttemptsInOrder /\ AttemptOwnerInv /\ [Next]_vars => AttemptHasOwner'
<1> SUFFICES ASSUME TypeOK, AttemptsInOrder, AttemptOwnerInv, [Next]_vars,
                    NEW l \in Launchers, NEW i \in 1..maxAttempts,
                    attempts'[<<l, i>>].state = "running"
             PROVE  /\ number'[l] = i
                    /\ \/ l \in (Attempting \cup left.attempt)'
                       \/ /\ l \in left'.canceled
                          /\ \E c \in Cancelers : picked'[c] \notin {NoAttempt, <<l, i>>}
  BY DEF AttemptHasOwner
<1> USE LifecycleAssumption
    DEF dbVars, files, loopVars, locals, Launchers, Procs, TypeOK, PcOK, LoopOK, ResultOK
<1> DEFINE a == <<l, i>>
<1>a. a \in AttemptIds
  BY DEF AttemptIds
<1>1. CASE attempts[a].state # "running"
  \* the row has just been inserted
  <2>1. PICK k \in Launchers : CreateAttempt(k) /\ a = Current(k)
    BY <1>a, <1>1, NoRowRevives
  <2>2. k = l /\ number[l] = i
    BY <2>1 DEF Current
  <2> QED
    BY <2>1, <2>2 DEF CreateAttempt, Goto, Attempting, AttemptPcs
<1>2. CASE attempts[a].state = "running"
  <2>1. /\ number[l] = i
        /\ \/ l \in Attempting \cup left.attempt
           \/ /\ l \in left.canceled
              /\ \E c \in Cancelers : picked[c] \notin {NoAttempt, a}
    BY <1>2 DEF AttemptOwnerInv, AttemptHasOwner
  <2>2. (\E c \in Cancelers : picked[c] \notin {NoAttempt, a})
          => \E c \in Cancelers : picked'[c] \notin {NoAttempt, a}
    BY PickStays DEF AttemptOwnerInv
  <2>3. pc[l] \in AttemptPcs \cup Ending \cup {"giveUp"}
    BY <2>1 DEF AttemptOwnerInv, LeftInv, Attempting
  \* Most steps keep the invocation where it is, as far as its row goes.
  <2>4. ASSUME number'[l] = number[l], left.attempt \subseteq left'.attempt,
               left.canceled \subseteq left'.canceled,
               pc[l] \in AttemptPcs => pc'[l] \in AttemptPcs \/ l \in left'.attempt
        PROVE  /\ number'[l] = i
               /\ \/ l \in (Attempting \cup left.attempt)'
                  \/ /\ l \in left'.canceled
                     /\ \E c \in Cancelers : picked'[c] \notin {NoAttempt, a}
    BY <2>1, <2>2, <2>4 DEF Attempting
  <2>5. ASSUME NEW k \in Launchers, LauncherStep(k) \/ EmitCheckpoint(k),
               ~CheckRun(k), ~FailAttempt(k), ~FinishAttempt(k), ~FailOver(k)
        PROVE  /\ number' = number /\ left'.attempt = left.attempt
               /\ left'.canceled = left.canceled
               /\ pc[l] \in AttemptPcs => pc'[l] \in AttemptPcs
    BY <2>5 DEF LauncherStep, RestartRun, SelectProvider, RoutingFails,
       UseExplicitProvider, ExplicitProviderCannotResume, CreateAttempt, PrepareFails,
       CallSubmit, OnStarted, SubmitReturns, FinishRun, OutOfAttempts,
       NoCheckpointToFailOver, GiveUp, EmitCheckpoint, Goto, AttemptPcs
  <2>6. ASSUME NEW k \in Launchers, FailAttempt(k) \/ FinishAttempt(k)
        PROVE  /\ k # l
               /\ number' = number /\ left' = left /\ pc'[l] = pc[l]
    <3>1. CASE k = l
      <4>1. PICK s \in {"failed", "succeeded"} :
              attempts' = [attempts EXCEPT ![Current(l)].state = s]
        BY <2>6, <3>1 DEF FailAttempt, FinishAttempt, FinalState
      <4>2. a = Current(l)
        BY <2>1 DEF Current
      <4>3. attempts'[a].state = s
        BY <1>a, <4>1, <4>2 DEF RowsOK, Rows
      <4> QED
        BY <4>1, <4>3
    <3>2. CASE k # l
      BY <2>6, <3>2 DEF FailAttempt, FinishAttempt, Goto
    <3> QED
      BY <3>1, <3>2
  <2>7. ASSUME NEW k \in Launchers, FailOver(k)
        PROVE  k # l /\ number'[l] = number[l] /\ left' = left /\ pc'[l] = pc[l]
    <3>1. k # l
      BY <2>3, <2>7 DEF FailOver, Goto, AttemptPcs, Ending, SummaryPcs
    <3> QED
      BY <2>7, <3>1 DEF FailOver, Goto
  <2>8. ASSUME NEW k \in Launchers, CheckRun(k), run.state # "canceled"
        PROVE  /\ number' = number /\ left' = left
               /\ pc[l] \in AttemptPcs => pc'[l] \in AttemptPcs
    BY <2>8 DEF CheckRun, Goto, AttemptPcs
  <2>9. ASSUME NEW k \in Launchers, CheckRun(k), run.state = "canceled"
        PROVE  /\ number'[l] = i
               /\ \/ l \in (Attempting \cup left.attempt)'
                  \/ /\ l \in left'.canceled
                     /\ \E c \in Cancelers : picked'[c] \notin {NoAttempt, a}
    <3>1. /\ number' = number /\ pc' = [pc EXCEPT ![k] = "readRun"]
          /\ left' = [left EXCEPT !.canceled = @ \cup {k}]
      BY <2>9 DEF CheckRun, Goto
    <3>2. \E c \in Cancelers : picked[c] \notin {NoAttempt, a}
      BY <1>2, <2>9 DEF AttemptOwnerInv, CancelInv, PickedOver
    <3>3. CASE k = l
      BY <2>1, <2>2, <3>1, <3>2, <3>3
    <3>4. CASE k # l
      BY <2>4, <3>1, <3>4
    <3> QED
      BY <3>3, <3>4
  <2>10. ASSUME NEW k \in Launchers, LauncherFault(k)
         PROVE  /\ number' = number /\ left.attempt \subseteq left'.attempt
                /\ left'.canceled = left.canceled
                /\ pc[l] \in AttemptPcs => pc'[l] \in AttemptPcs \/ l \in left'.attempt
    <3>1. CASE DBError(k)
      BY <3>1, Abandoned DEF DBError, Attempting
    <3>2. CASE LostWrite(k)
      BY <3>2 DEF LostWrite, Goto, AttemptPcs
    <3>3. CASE SummaryFails(k)
      BY <3>3 DEF SummaryFails, AttemptPcs
    <3> QED
      BY <2>10, <3>1, <3>2, <3>3 DEF LauncherFault
  <2>11. ASSUME NEW p \in Procs, SummaryStep(p)
         PROVE  /\ number' = number /\ left' = left
                /\ pc[l] \in AttemptPcs => pc'[l] \in AttemptPcs
    BY <2>11 DEF SummaryStep, ReadRun, ReadAttempts, WriteSummary, Goto, AttemptPcs
  <2>12. ASSUME NEW p \in Procs, Crash(p)
         PROVE  /\ number' = number /\ left.attempt \subseteq left'.attempt
                /\ left'.canceled = left.canceled
                /\ pc[l] \in AttemptPcs => pc'[l] \in AttemptPcs \/ l \in left'.attempt
    BY <2>12, Abandoned DEF Crash, Attempting
  <2>13. ASSUME NEW c \in Cancelers, CancelStep(c) \/ CancelFails(c)
         PROVE  number' = number /\ left' = left /\ pc'[l] = pc[l]
    <3>1. pc'[l] = pc[l]
      BY <2>13, CancelMoves
    <3> QED
      BY <2>13, <3>1
      DEF CancelStep, CancelReadRun, CancelPick, CancelAttempt, CancelRun, CancelFails
  <2>14. ASSUME NEW k \in Launchers, StartTrain(k) \/ ResumeScan(k) \/ ResumeNotPrepared(k)
         PROVE  /\ number' = number /\ left' = left
                /\ pc[l] \in AttemptPcs => pc'[l] \in AttemptPcs
    BY <2>14 DEF StartTrain, ResumeScan, ResumeNotPrepared, Goto, AttemptPcs
  <2>15. CASE UNCHANGED vars
    BY <2>4, <2>15 DEF vars
  <2> QED
    BY <2>4, <2>5, <2>6, <2>7, <2>8, <2>9, <2>10, <2>11, <2>12, <2>13, <2>14, <2>15
    DEF Next
<1> QED
  BY <1>1, <1>2

\* An attempt row says running only while its invocation is inside
\* runAttempt, was killed or had a statement fail there, or returned 130
\* because it found the run canceled by a canceler that had picked another.
THEOREM RunningAttemptIsOwned == Spec => []AttemptHasOwner
<1>1. Init => AttemptOwnerInv
  BY NoRowsAtFirst, LifecycleAssumption
  DEF Init, AttemptOwnerInv, CancelInv, LeftInv, AttemptHasOwner, Exists, Procs
<1>2. TypeOK /\ AttemptsInOrder /\ AttemptOwnerInv /\ [Next]_vars => AttemptOwnerInv'
  BY CancelInvStep, LeftInvStep, AttemptOwnerStep DEF AttemptOwnerInv
<1>3. AttemptOwnerInv => AttemptHasOwner
  BY DEF AttemptOwnerInv
<1> QED
  BY <1>1, <1>2, <1>3, TypeCorrect, AttemptRowsAreOrdered, PTL DEF Spec

-----------------------------------------------------------------------------
(* What the attempt loop promises about the next row *)

\* A provider selected for the next attempt reads the checkpoint it will
\* resume from.
ReadableInv ==
  /\ ResumeIsReadable
  /\ \A l \in Launchers :
       pc[l] = "create" => Supports(provider[l], resumeFrom[l])

\* The providers of earlier attempts are excluded, and a provider selected
\* by routing is not one of them.
MovesOnInv ==
  /\ FailoverMovesOn
  /\ \A l \in Launchers : number[l] > 1 => target[l] = AutoRoute
  /\ \A l \in Launchers :
       pc[l] = "create" /\ target[l] = AutoRoute => provider[l] \notin excluded[l]
  /\ \A l \in Launchers : \A i \in 1..maxAttempts :
       Exists(<<l, i>>) =>
         IF i < number[l] THEN attempts[<<l, i>>].provider \in excluded[l]
                          ELSE attempts[<<l, i>>].provider = provider[l]

\* Checkpoints are recorded by attempts that exist.
CheckpointsInOrder ==
  \A l \in Launchers : \A i \in 1..maxAttempts : \A k \in DOMAIN events :
    events[k].by = <<l, i>> => Begun(l, i)

\* After a failover the checkpoint to resume from is at least as far as all
\* that the earlier attempts of the invocation recorded or resumed from.
NextResumeCovers ==
  \A l \in Launchers : pc[l] \in {"route", "create"} /\ number[l] > 1 =>
    /\ resumeFrom[l] # 0
    /\ \A i \in 1..maxAttempts : \A k \in DOMAIN events :
         i < number[l] /\ (events[k].by = <<l, i>> \/ k = attempts[<<l, i>>].resume)
           => events[k].step <= events[resumeFrom[l]].step

\* No recorded progress is lost, by the rows that exist and by the next one.
ProgressInv == NoProgressLost /\ CheckpointsInOrder /\ NextResumeCovers

\* The step leaves alone what the attempt loop's properties speak of.
Quiet ==
  /\ RowsKept
  /\ UNCHANGED <<events, target, number, excluded, provider>>
  /\ \A l \in Launchers :
       /\ pc[l] \notin BeforeAttempt => pc'[l] \notin BeforeAttempt
       /\ pc'[l] \in {"route", "create"} =>
            pc'[l] = pc[l] /\ resumeFrom'[l] = resumeFrom[l]

\* The other steps.
AttemptLoopStep(l) ==
  \/ StartTrain(l) \/ RestartRun(l)
  \/ SelectProvider(l) \/ UseExplicitProvider(l)
  \/ CreateAttempt(l) \/ EmitCheckpoint(l)
  \/ NoCheckpointToFailOver(l) \/ FailOver(l)

\* Only eight actions touch what the properties of the attempt loop speak of.
LEMMA QuietSteps ==
  ASSUME TypeOK, AttemptsInOrder, [Next]_vars
  PROVE  Quiet \/ \E l \in Launchers : AttemptLoopStep(l)
<1> USE LifecycleAssumption
    DEF dbVars, files, loopVars, locals, Procs, Launchers
<1>1. ASSUME NEW l \in Launchers, ResumeScan(l) PROVE Quiet
  BY <1>1 DEF Quiet, RowsKept, Exists, BeforeAttempt, TypeOK, PcOK, Goto,
     ResumeOK, ResumeScan
<1>2. ASSUME NEW l \in Launchers, ResumeNotPrepared(l) PROVE Quiet
  BY <1>2 DEF Quiet, RowsKept, Exists, BeforeAttempt, TypeOK, PcOK, Goto,
     ResumeNotPrepared
<1>3. ASSUME NEW l \in Launchers, RoutingFails(l) PROVE Quiet
  BY <1>3 DEF Quiet, RowsKept, Exists, BeforeAttempt, TypeOK, PcOK, Goto,
     RoutingFails
<1>4. ASSUME NEW l \in Launchers, ExplicitProviderCannotResume(l) PROVE Quiet
  BY <1>4 DEF Quiet, RowsKept, Exists, BeforeAttempt, TypeOK, PcOK, Goto,
     ExplicitProviderCannotResume
<1>5. ASSUME NEW l \in Launchers, PrepareFails(l) PROVE Quiet
  BY <1>5 DEF Quiet, RowsKept, Exists, BeforeAttempt, TypeOK, PcOK, Goto,
     PrepareFails
<1>6. ASSUME NEW l \in Launchers, FailAttempt(l) PROVE Quiet
  BY <1>6, LauncherKeepsRows DEF Quiet, BeforeAttempt, TypeOK, PcOK, Goto,
     FailAttempt
<1>7. ASSUME NEW l \in Launchers, CallSubmit(l) PROVE Quiet
  BY <1>7 DEF Quiet, RowsKept, Exists, BeforeAttempt, TypeOK, PcOK, Goto,
     CallSubmit
<1>8. ASSUME NEW l \in Launchers, OnStarted(l) PROVE Quiet
  BY <1>8, LauncherKeepsRows DEF Quiet, BeforeAttempt, TypeOK, PcOK, Goto,
     OnStarted
<1>9. ASSUME NEW l \in Launchers, SubmitReturns(l) PROVE Quiet
  BY <1>9 DEF Quiet, RowsKept, Exists, BeforeAttempt, TypeOK, PcOK, Goto,
     SubmitReturns
<1>10. ASSUME NEW l \in Launchers, CheckRun(l) PROVE Quiet
  BY <1>10 DEF Quiet, RowsKept, Exists, BeforeAttempt, TypeOK, PcOK, Goto,
     CheckRun
<1>11. ASSUME NEW l \in Launchers, FinishAttempt(l) PROVE Quiet
  BY <1>11, LauncherKeepsRows DEF Quiet, BeforeAttempt, TypeOK, PcOK, Goto,
     AfterAttempt, FinishAttempt
<1>12. ASSUME NEW l \in Launchers, FinishRun(l) PROVE Quiet
  BY <1>12 DEF Quiet, RowsKept, Exists, BeforeAttempt, TypeOK, PcOK, Goto,
     FinishRun
<1>13. ASSUME NEW l \in Launchers, OutOfAttempts(l) PROVE Quiet
  BY <1>13 DEF Quiet, RowsKept, Exists, BeforeAttempt, TypeOK, PcOK, Goto,
     OutOfAttempts
<1>14. ASSUME NEW l \in Launchers, GiveUp(l) PROVE Quiet
  BY <1>14 DEF Quiet, RowsKept, Exists, BeforeAttempt, TypeOK, PcOK, Goto,
     GiveUp
<1>15. ASSUME NEW l \in Launchers, DBError(l) PROVE Quiet
  BY <1>15 DEF Quiet, RowsKept, Exists, BeforeAttempt, TypeOK, PcOK, Goto,
     DBError
<1>16. ASSUME NEW l \in Launchers, LostWrite(l) PROVE Quiet
  BY <1>16 DEF Quiet, RowsKept, Exists, BeforeAttempt, TypeOK, PcOK, Goto,
     LostWrite
<1>17. ASSUME NEW l \in Launchers, SummaryFails(l) PROVE Quiet
  BY <1>17 DEF Quiet, RowsKept, Exists, BeforeAttempt, TypeOK, PcOK, Goto,
     SummaryFails
<1>18. ASSUME NEW c \in Cancelers, CancelReadRun(c) PROVE Quiet
  BY <1>18 DEF Quiet, RowsKept, Exists, BeforeAttempt, TypeOK, PcOK, Goto,
     CancelReadRun
<1>19. ASSUME NEW c \in Cancelers, CancelPick(c) PROVE Quiet
  BY <1>19 DEF Quiet, RowsKept, Exists, BeforeAttempt, TypeOK, PcOK, Goto,
     CancelPick
<1>20. ASSUME NEW c \in Cancelers, CancelAttempt(c) PROVE Quiet
  BY <1>20, CancelKeepsRows DEF Quiet, BeforeAttempt, TypeOK, PcOK, Goto,
     CancelAttempt
<1>21. ASSUME NEW c \in Cancelers, CancelRun(c) PROVE Quiet
  BY <1>21 DEF Quiet, RowsKept, Exists, BeforeAttempt, TypeOK, PcOK, Goto,
     CancelRun
<1>22. ASSUME NEW c \in Cancelers, CancelFails(c) PROVE Quiet
  BY <1>22 DEF Quiet, RowsKept, Exists, BeforeAttempt, TypeOK, PcOK, Goto,
     CancelFails
<1>23. ASSUME NEW p \in Procs, ReadRun(p) PROVE Quiet
  BY <1>23 DEF Quiet, RowsKept, Exists, BeforeAttempt, TypeOK, PcOK, Goto,
     ReadRun
<1>24. ASSUME NEW p \in Procs, ReadAttempts(p) PROVE Quiet
  BY <1>24 DEF Quiet, RowsKept, Exists, BeforeAttempt, TypeOK, PcOK, Goto,
     ReadAttempts
<1>25. ASSUME NEW p \in Procs, WriteSummary(p) PROVE Quiet
  BY <1>25 DEF Quiet, RowsKept, Exists, BeforeAttempt, TypeOK, PcOK, Goto,
     WriteSummary
<1>26. ASSUME NEW p \in Procs, Crash(p) PROVE Quiet
  BY <1>26 DEF Quiet, RowsKept, Exists, BeforeAttempt, TypeOK, PcOK, Goto,
     Crash
<1>27. ASSUME UNCHANGED vars PROVE Quiet
  BY <1>27 DEF Quiet, RowsKept, Exists, vars
<1> QED
  BY <1>1, <1>2, <1>3, <1>4, <1>5, <1>6, <1>7, <1>8, <1>9, <1>10, <1>11,
     <1>12, <1>13, <1>14, <1>15, <1>16, <1>17, <1>18, <1>19, <1>20, <1>21, <1>22,
     <1>23, <1>24, <1>25, <1>26, <1>27 DEF Next, LauncherStep, LauncherFault,
     SummaryStep, CancelStep, AttemptLoopStep

\* Every step preserves ReadableInv: the checkpoint of a row is readable.
LEMMA ReadableStep ==
  TypeOK /\ AttemptsInOrder /\ ReadableInv /\ [Next]_vars => ReadableInv'
<1> SUFFICES ASSUME TypeOK, AttemptsInOrder, ReadableInv, [Next]_vars PROVE ReadableInv'
  OBVIOUS
<1> USE LifecycleAssumption DEF dbVars, files, loopVars, locals, Launchers, Procs
<1>1. CASE Quiet
  BY <1>1 DEF Quiet, RowsKept, AttemptIds, ReadableInv, ResumeIsReadable,
     Supports
<1>2. ASSUME NEW l \in Launchers, StartTrain(l) PROVE ReadableInv'
  BY <1>2 DEF ReadableInv, ResumeIsReadable, Exists, Supports, TypeOK, PcOK,
     LoopOK, ResumeOK, Goto, StartTrain
<1>3. ASSUME NEW l \in Launchers, RestartRun(l) PROVE ReadableInv'
  BY <1>3 DEF ReadableInv, ResumeIsReadable, Exists, Supports, TypeOK, PcOK,
     LoopOK, ResumeOK, Goto, RestartRun
<1>4. ASSUME NEW l \in Launchers, SelectProvider(l) PROVE ReadableInv'
  BY <1>4 DEF ReadableInv, ResumeIsReadable, Exists, Supports, TypeOK, PcOK,
     LoopOK, ResumeOK, Goto, SelectProvider, Eligible
<1>5. ASSUME NEW l \in Launchers, UseExplicitProvider(l) PROVE ReadableInv'
  BY <1>5 DEF ReadableInv, ResumeIsReadable, Exists, Supports, TypeOK, PcOK,
     LoopOK, ResumeOK, Goto, UseExplicitProvider
<1>6. ASSUME NEW l \in Launchers, CreateAttempt(l) PROVE ReadableInv'
  BY <1>6 DEF ReadableInv, ResumeIsReadable, Exists, Supports, TypeOK, PcOK,
     LoopOK, ResumeOK, Goto, CreateAttempt, RowsOK, Rows, AttemptIds, Current,
     NewRow
<1>7. ASSUME NEW l \in Launchers, EmitCheckpoint(l) PROVE ReadableInv'
  <2>1. \A k \in 1..Len(events) : events'[k] = events[k]
    BY <1>7 DEF TypeOK, ResumeOK, EmitCheckpoint
  <2>2. \A a \in AttemptIds : attempts[a].resume \in 0..Len(events)
    BY DEF TypeOK, RowsOK, Rows, ResumeOK
  <2>3. \A k \in Launchers : resumeFrom[k] \in 0..Len(events)
    BY DEF TypeOK, ResumeOK
  <2> QED
    BY <1>7, <2>1, <2>2, <2>3
    DEF ReadableInv, ResumeIsReadable, Exists, Supports, EmitCheckpoint
<1>8. ASSUME NEW l \in Launchers, NoCheckpointToFailOver(l) PROVE ReadableInv'
  BY <1>8 DEF ReadableInv, ResumeIsReadable, Exists, Supports, TypeOK, PcOK,
     LoopOK, ResumeOK, Goto, NoCheckpointToFailOver
<1>9. ASSUME NEW l \in Launchers, FailOver(l) PROVE ReadableInv'
  BY <1>9 DEF ReadableInv, ResumeIsReadable, Exists, Supports, TypeOK, PcOK,
     LoopOK, ResumeOK, Goto, FailOver
<1> QED
  BY <1>1, <1>2, <1>3, <1>4, <1>5, <1>6, <1>7, <1>8, <1>9, QuietSteps DEF
     AttemptLoopStep

\* An attempt that resumes runs on a provider whose adapter reads the scheme
\* of the checkpoint URI: Select filters by it, and the explicit path checks it,
\* against the very checkpoint the row then records.
THEOREM ResumedAttemptsCanRead == Spec => []ResumeIsReadable
<1>1. Init => ReadableInv
  <2>1. Init => ResumeIsReadable
    BY NoRowsAtFirst DEF ResumeIsReadable, AttemptIds
  <2>2. Init => \A l \in Launchers : pc[l] # "create"
    BY DEF Init, Procs
  <2> QED
    BY <2>1, <2>2 DEF ReadableInv
<1>2. ReadableInv => ResumeIsReadable
  BY DEF ReadableInv
<1> QED
  BY <1>1, <1>2, TypeCorrect, AttemptRowsAreOrdered, ReadableStep, PTL DEF Spec

\* Every step preserves MovesOnInv: routing never returns to a provider.
LEMMA MovesOnStep ==
  TypeOK /\ AttemptsInOrder /\ MovesOnInv /\ [Next]_vars => MovesOnInv'
<1> SUFFICES ASSUME TypeOK, AttemptsInOrder, MovesOnInv, [Next]_vars PROVE MovesOnInv'
  OBVIOUS
<1> USE LifecycleAssumption DEF dbVars, files, loopVars, locals, Launchers, Procs
<1>1. CASE Quiet
  BY <1>1 DEF Quiet, RowsKept, AttemptIds, MovesOnInv, FailoverMovesOn
<1>2. ASSUME NEW l \in Launchers, StartTrain(l) PROVE MovesOnInv'
  BY <1>2 DEF MovesOnInv, FailoverMovesOn, Exists, TypeOK, PcOK, LoopOK, Goto,
     StartTrain, AttemptsInOrder, Begun, BeforeAttempt
<1>3. ASSUME NEW l \in Launchers, RestartRun(l) PROVE MovesOnInv'
  BY <1>3 DEF MovesOnInv, FailoverMovesOn, Exists, TypeOK, PcOK, LoopOK, Goto,
     RestartRun, AttemptsInOrder, Begun, BeforeAttempt
<1>4. ASSUME NEW l \in Launchers, SelectProvider(l) PROVE MovesOnInv'
  BY <1>4 DEF MovesOnInv, FailoverMovesOn, Exists, TypeOK, PcOK, LoopOK, Goto,
     SelectProvider, AttemptsInOrder, Begun, BeforeAttempt, Eligible
<1>5. ASSUME NEW l \in Launchers, UseExplicitProvider(l) PROVE MovesOnInv'
  BY <1>5 DEF MovesOnInv, FailoverMovesOn, Exists, TypeOK, PcOK, LoopOK, Goto,
     UseExplicitProvider, AttemptsInOrder, Begun, BeforeAttempt
<1>6. ASSUME NEW l \in Launchers, CreateAttempt(l) PROVE MovesOnInv'
  BY <1>6 DEF MovesOnInv, FailoverMovesOn, Exists, TypeOK, PcOK, LoopOK, Goto,
     CreateAttempt, AttemptsInOrder, Begun, BeforeAttempt, RowsOK, Rows,
     AttemptIds, Current, NewRow
<1>7. ASSUME NEW l \in Launchers, EmitCheckpoint(l) PROVE MovesOnInv'
  BY <1>7 DEF MovesOnInv, FailoverMovesOn, Exists, TypeOK, PcOK, LoopOK, Goto,
     EmitCheckpoint
<1>8. ASSUME NEW l \in Launchers, NoCheckpointToFailOver(l) PROVE MovesOnInv'
  BY <1>8 DEF MovesOnInv, FailoverMovesOn, Exists, TypeOK, PcOK, LoopOK, Goto,
     NoCheckpointToFailOver, LastAttempt
<1>9. ASSUME NEW l \in Launchers, FailOver(l) PROVE MovesOnInv'
  BY <1>9 DEF MovesOnInv, FailoverMovesOn, Exists, TypeOK, PcOK, LoopOK, Goto,
     FailOver, AttemptsInOrder, Begun, BeforeAttempt, LastAttempt
<1> QED
  BY <1>1, <1>2, <1>3, <1>4, <1>5, <1>6, <1>7, <1>8, <1>9, QuietSteps DEF
     AttemptLoopStep

\* No two attempts of an invocation use the same provider, and only `auto`
\* makes two: the excluded map of runAttempts outlives every turn of the loop.
THEOREM FailoverNeverReturns == Spec => []FailoverMovesOn
<1>1. Init => MovesOnInv
  BY NoRowsAtFirst, LifecycleAssumption
  DEF Init, MovesOnInv, FailoverMovesOn, Launchers, Procs
<1>2. MovesOnInv => FailoverMovesOn
  BY DEF MovesOnInv
<1> QED
  BY <1>1, <1>2, TypeCorrect, AttemptRowsAreOrdered, MovesOnStep, PTL DEF Spec

\* Every step preserves ProgressInv: no recorded checkpoint is lost.
LEMMA ProgressStep ==
  TypeOK /\ AttemptsInOrder /\ ProgressInv /\ [Next]_vars => ProgressInv'
<1> SUFFICES ASSUME TypeOK, AttemptsInOrder, ProgressInv, [Next]_vars PROVE ProgressInv'
  OBVIOUS
<1> USE LifecycleAssumption DEF dbVars, files, loopVars, locals, Launchers, Procs
<1>1. CASE Quiet
  BY <1>1 DEF Quiet, RowsKept, AttemptIds, ProgressInv, NoProgressLost,
     CheckpointsInOrder, NextResumeCovers, Exists, Begun, BeforeAttempt
<1>2. ASSUME NEW l \in Launchers, StartTrain(l) PROVE ProgressInv'
  <2>1. NoProgressLost'
    BY <1>2 DEF ProgressInv, NoProgressLost, Exists, StartTrain
  <2>2. CheckpointsInOrder'
    BY <1>2 DEF ProgressInv, CheckpointsInOrder, Begun, BeforeAttempt, TypeOK,
       PcOK, LoopOK, Goto, StartTrain
  <2>3. NextResumeCovers'
    BY <1>2 DEF ProgressInv, NextResumeCovers, TypeOK, PcOK, LoopOK, Goto,
       StartTrain, AttemptsInOrder
  <2> QED
    BY <2>1, <2>2, <2>3 DEF ProgressInv
<1>3. ASSUME NEW l \in Launchers, RestartRun(l) PROVE ProgressInv'
  <2>1. NoProgressLost'
    BY <1>3 DEF ProgressInv, NoProgressLost, Exists, RestartRun
  <2>2. CheckpointsInOrder'
    BY <1>3 DEF ProgressInv, CheckpointsInOrder, Begun, BeforeAttempt, TypeOK,
       PcOK, LoopOK, Goto, RestartRun
  <2>3. NextResumeCovers'
    BY <1>3 DEF ProgressInv, NextResumeCovers, TypeOK, PcOK, LoopOK, Goto,
       RestartRun, AttemptsInOrder
  <2> QED
    BY <2>1, <2>2, <2>3 DEF ProgressInv
<1>4. ASSUME NEW l \in Launchers, SelectProvider(l) PROVE ProgressInv'
  <2>1. NoProgressLost'
    BY <1>4 DEF ProgressInv, NoProgressLost, Exists, SelectProvider
  <2>2. CheckpointsInOrder'
    BY <1>4 DEF ProgressInv, CheckpointsInOrder, Begun, BeforeAttempt, TypeOK,
       PcOK, LoopOK, Goto, SelectProvider
  <2>3. NextResumeCovers'
    BY <1>4 DEF ProgressInv, NextResumeCovers, TypeOK, PcOK, LoopOK, Goto,
       SelectProvider
  <2> QED
    BY <2>1, <2>2, <2>3 DEF ProgressInv
<1>5. ASSUME NEW l \in Launchers, UseExplicitProvider(l) PROVE ProgressInv'
  <2>1. NoProgressLost'
    BY <1>5 DEF ProgressInv, NoProgressLost, Exists, UseExplicitProvider
  <2>2. CheckpointsInOrder'
    BY <1>5 DEF ProgressInv, CheckpointsInOrder, Begun, BeforeAttempt, TypeOK,
       PcOK, LoopOK, Goto, UseExplicitProvider
  <2>3. NextResumeCovers'
    BY <1>5 DEF ProgressInv, NextResumeCovers, TypeOK, PcOK, LoopOK, Goto,
       UseExplicitProvider
  <2> QED
    BY <2>1, <2>2, <2>3 DEF ProgressInv
<1>6. ASSUME NEW l \in Launchers, CreateAttempt(l) PROVE ProgressInv'
  <2>1. NoProgressLost'
    <3> SUFFICES ASSUME NEW k \in Launchers, NEW i \in 1..maxAttempts,
                        NEW j \in 1..maxAttempts, i < j, Exists(<<k, j>>)'
                 PROVE  /\ attempts'[<<k, j>>].resume # 0
                        /\ \A e \in DOMAIN events :
                             \/ events[e].by = <<k, i>>
                             \/ e = attempts'[<<k, i>>].resume
                             => events[e].step <= events[attempts'[<<k, j>>].resume].step
      BY <1>6 DEF NoProgressLost, CreateAttempt
    <3>1. CASE k = l /\ j = number[l]
      <4>1. attempts'[<<l, j>>].resume = resumeFrom[l]
        BY <1>6, <3>1 DEF TypeOK, RowsOK, AttemptIds, Current, NewRow, CreateAttempt
      <4>2. attempts'[<<l, i>>] = attempts[<<l, i>>]
        BY <1>6, <3>1 DEF TypeOK, RowsOK, AttemptIds, Current, CreateAttempt
      <4>3. pc[l] = "create" /\ number[l] > 1
        BY <1>6, <3>1 DEF Goto, CreateAttempt
      <4> QED
        BY <3>1, <4>1, <4>2, <4>3 DEF ProgressInv, NextResumeCovers
    <3>2. CASE ~(k = l /\ j = number[l])
      <4>1. attempts'[<<k, j>>] = attempts[<<k, j>>]
        BY <1>6, <3>2 DEF TypeOK, RowsOK, AttemptIds, Current, CreateAttempt
      <4>2. Exists(<<k, j>>)
        BY <4>1 DEF Exists
      <4>3. ~(k = l /\ i = number[l])
        BY <4>2 DEF AttemptsInOrder, Begun, TypeOK, LoopOK
      <4>4. attempts'[<<k, i>>] = attempts[<<k, i>>]
        BY <1>6, <4>3 DEF TypeOK, RowsOK, AttemptIds, Current, CreateAttempt
      <4> QED
        BY <4>1, <4>2, <4>4 DEF ProgressInv, NoProgressLost
    <3> QED
      BY <3>1, <3>2
  <2>2. CheckpointsInOrder'
    BY <1>6 DEF ProgressInv, CheckpointsInOrder, Begun, BeforeAttempt, TypeOK,
       PcOK, LoopOK, Goto, CreateAttempt
  <2>3. NextResumeCovers'
    <3>1. \A k \in Launchers : \A i \in 1..maxAttempts :
            k # l => attempts'[<<k, i>>] = attempts[<<k, i>>]
      BY <1>6 DEF TypeOK, RowsOK, AttemptIds, Current, CreateAttempt
    <3>2. pc'[l] = "prepare"
      BY <1>6 DEF TypeOK, PcOK, Goto, CreateAttempt
    <3>3. \A k \in Launchers : k # l => pc'[k] = pc[k]
      BY <1>6 DEF TypeOK, PcOK, Goto, CreateAttempt
    <3>4. UNCHANGED <<events, number, resumeFrom>>
      BY <1>6 DEF CreateAttempt
    <3> QED
      BY <3>1, <3>2, <3>3, <3>4 DEF ProgressInv, NextResumeCovers
  <2> QED
    BY <2>1, <2>2, <2>3 DEF ProgressInv
<1>7. ASSUME NEW l \in Launchers, EmitCheckpoint(l) PROVE ProgressInv'
  <2> DEFINE n == Len(events) + 1
  <2>1. /\ DOMAIN events' = DOMAIN events \cup {n}
        /\ \A k \in DOMAIN events : events'[k] = events[k]
        /\ events'[n].by = Current(l)
    BY <1>7 DEF TypeOK, ResumeOK, EmitCheckpoint
  <2>2. /\ \A a \in AttemptIds : attempts[a].resume \in DOMAIN events \cup {0}
        /\ \A k \in Launchers : resumeFrom[k] \in DOMAIN events \cup {0}
        /\ n \notin DOMAIN events \cup {0}
    BY DEF TypeOK, RowsOK, Rows, ResumeOK
  <2>3. UNCHANGED <<attempts, pc, number, resumeFrom>>
    BY <1>7 DEF EmitCheckpoint
  <2>4. pc[l] = "running"
    BY <1>7 DEF EmitCheckpoint
  <2> HIDE DEF n
  <2>5. NoProgressLost'
    <3> SUFFICES ASSUME NEW k \in Launchers, NEW i \in 1..maxAttempts,
                        NEW j \in 1..maxAttempts, i < j, Exists(<<k, j>>),
                        NEW e \in DOMAIN events \cup {n},
                        events'[e].by = <<k, i>> \/ e = attempts[<<k, i>>].resume
                 PROVE  events'[e].step <= events'[attempts[<<k, j>>].resume].step
      BY <2>1, <2>3 DEF ProgressInv, NoProgressLost, Exists
    <3>1. attempts[<<k, j>>].resume \in DOMAIN events
      BY <2>2 DEF ProgressInv, NoProgressLost, AttemptIds
    <3>2. Begun(k, j)
      BY DEF AttemptsInOrder
    <3>3. e # n
      BY <2>1, <2>2, <3>2 DEF Begun, AttemptIds, Current, TypeOK, LoopOK
    <3> QED
      BY <2>1, <3>1, <3>3 DEF ProgressInv, NoProgressLost
  <2>6. CheckpointsInOrder'
    <3>1. Begun(l, number[l])
      BY <2>4 DEF Begun, BeforeAttempt
    <3> QED
      BY <2>1, <2>3, <3>1 DEF ProgressInv, CheckpointsInOrder, Begun, Current
  <2>7. NextResumeCovers'
    <3> SUFFICES ASSUME NEW k \in Launchers, NEW i \in 1..maxAttempts,
                        pc[k] \in {"route", "create"}, number[k] > 1, i < number[k],
                        NEW e \in DOMAIN events \cup {n},
                        events'[e].by = <<k, i>> \/ e = attempts[<<k, i>>].resume
                 PROVE  events'[e].step <= events'[resumeFrom[k]].step
      BY <2>1, <2>3 DEF ProgressInv, NextResumeCovers
    <3>1. k # l
      BY <2>4
    <3>2. e # n
      BY <2>1, <2>2, <3>1 DEF Current, AttemptIds
    <3>3. resumeFrom[k] \in DOMAIN events
      BY <2>2 DEF ProgressInv, NextResumeCovers
    <3> QED
      BY <2>1, <3>2, <3>3 DEF ProgressInv, NextResumeCovers
  <2> QED
    BY <2>5, <2>6, <2>7 DEF ProgressInv
<1>8. ASSUME NEW l \in Launchers, NoCheckpointToFailOver(l) PROVE ProgressInv'
  <2>1. NoProgressLost'
    BY <1>8 DEF ProgressInv, NoProgressLost, Exists, NoCheckpointToFailOver
  <2>2. CheckpointsInOrder'
    BY <1>8 DEF ProgressInv, CheckpointsInOrder, Begun, BeforeAttempt, TypeOK,
       PcOK, LoopOK, Goto, NoCheckpointToFailOver
  <2>3. NextResumeCovers'
    BY <1>8 DEF ProgressInv, NextResumeCovers, TypeOK, PcOK, LoopOK, Goto,
       NoCheckpointToFailOver
  <2> QED
    BY <2>1, <2>2, <2>3 DEF ProgressInv
<1>9. ASSUME NEW l \in Launchers, FailOver(l) PROVE ProgressInv'
  <2>1. NoProgressLost'
    BY <1>9 DEF ProgressInv, NoProgressLost, Exists, FailOver
  <2>2. CheckpointsInOrder'
    <3>1. \A k \in Launchers : number[k] \in Int /\ number'[k] >= number[k]
      BY <1>9 DEF TypeOK, LoopOK, FailOver
    <3>2. number'[l] = number[l] + 1
      BY <1>9 DEF TypeOK, LoopOK, FailOver
    <3>3. ASSUME NEW k \in Launchers, NEW i \in 1..maxAttempts, Begun(k, i)
          PROVE  Begun(k, i)'
      BY <1>9, <3>1, <3>2, <3>3
      DEF Begun, BeforeAttempt, TypeOK, PcOK, LoopOK, Goto, FailOver
    <3> QED
      BY <1>9, <3>3 DEF ProgressInv, CheckpointsInOrder, FailOver
  <2>3. NextResumeCovers'
    <3>1. PICK m \in DOMAIN events :
            Latest(m) /\ resumeFrom' = [resumeFrom EXCEPT ![l] = m]
      BY <1>9 DEF FailOver
    <3>2. resumeFrom'[l] # 0 /\ events'[resumeFrom'[l]] = events[m]
      BY <1>9, <3>1 DEF TypeOK, ResumeOK, FailOver
    <3>3. \A e \in DOMAIN events : events[e].step <= events[m].step
      <4>1. \A e \in DOMAIN events : events[e] \in Events
        BY DEF TypeOK, ResumeOK
      <4>2. \A e \in DOMAIN events : events[e].step \in Steps
        BY <4>1 DEF Events
      <4>3. Steps \subseteq Int
        BY LifecycleAssumption
      <4>4. \A e \in DOMAIN events :
              events[e].step < events[m].step \/ events[e].step = events[m].step
        BY <3>1 DEF Latest
      <4>5. events[m].step \in Int /\ \A e \in DOMAIN events : events[e].step \in Int
        BY <3>1, <4>2, <4>3
      <4> QED
        BY <4>4, <4>5
    <3>4. ASSUME NEW k \in Launchers, k # l
          PROVE  pc'[k] = pc[k] /\ number'[k] = number[k] /\ resumeFrom'[k] = resumeFrom[k]
      BY <1>9, <3>1, <3>4 DEF TypeOK, PcOK, LoopOK, ResumeOK, Goto, FailOver
    <3> QED
      BY <1>9, <3>2, <3>3, <3>4 DEF ProgressInv, NextResumeCovers, FailOver
  <2> QED
    BY <2>1, <2>2, <2>3 DEF ProgressInv
<1> QED
  BY <1>1, <1>2, <1>3, <1>4, <1>5, <1>6, <1>7, <1>8, <1>9, QuietSteps DEF
     AttemptLoopStep

\* A later attempt of an invocation resumes from a step at least as high as
\* every checkpoint its earlier attempts recorded or resumed from, though other
\* commands may append to events.jsonl in between.
THEOREM FailoverKeepsProgress == Spec => []NoProgressLost
<1>1. Init => ProgressInv
  BY NoRowsAtFirst, LifecycleAssumption
  DEF Init, ProgressInv, NoProgressLost, CheckpointsInOrder, NextResumeCovers,
      Launchers, Procs
<1>2. ProgressInv => NoProgressLost
  BY DEF ProgressInv
<1> QED
  BY <1>1, <1>2, TypeCorrect, AttemptRowsAreOrdered, ProgressStep, PTL DEF Spec

-----------------------------------------------------------------------------
(* A cancel in time *)

\* The train invocation finds the cancel when it looks, or has found it, and
\* writes neither row any more.
Heeded ==
  /\ run.state = "canceled"
  /\ pc[Trainer] \in {"submit", "running", "check", "done", "crashed"} \cup SummaryPcs

LEMMA HeededStep == Resumers = {} /\ TypeOK /\ Heeded /\ [Next]_vars => Heeded'
<1> SUFFICES ASSUME Resumers = {}, TypeOK, Heeded, [Next]_vars PROVE Heeded'
  OBVIOUS
<1> USE LifecycleAssumption
    DEF Heeded, SummaryPcs, Launchers, Procs, TypeOK, PcOK, Goto, dbVars, files, loopVars, locals
<1>1. ASSUME NEW l \in Launchers, StartTrain(l) \/ ResumeScan(l) \/ ResumeNotPrepared(l)
      PROVE  Heeded'
  BY <1>1 DEF StartTrain, ResumeScan, ResumeNotPrepared
<1>2. ASSUME NEW l \in Launchers, LauncherStep(l) PROVE Heeded'
  BY <1>2 DEF LauncherStep, RestartRun, SelectProvider, RoutingFails, UseExplicitProvider,
     ExplicitProviderCannotResume, CreateAttempt, PrepareFails, FailAttempt, CallSubmit,
     OnStarted, SubmitReturns, CheckRun, FinishAttempt, FinishRun, OutOfAttempts,
     NoCheckpointToFailOver, FailOver, GiveUp
<1>3. ASSUME NEW l \in Launchers, EmitCheckpoint(l) PROVE Heeded'
  BY <1>3 DEF EmitCheckpoint
<1>4. ASSUME NEW l \in Launchers, LauncherFault(l) PROVE Heeded'
  BY <1>4 DEF LauncherFault, DBError, LostWrite, SummaryFails
<1>5. ASSUME NEW c \in Cancelers, CancelStep(c) \/ CancelFails(c) PROVE Heeded'
  <2>1. c # Trainer
    BY DEF Launchers
  <2>2. pc'[Trainer] = pc[Trainer]
    BY <1>5, <2>1, CancelMoves
  <2>3. run' = run \/ CancelRun(c)
    BY <1>5 DEF CancelStep, CancelReadRun, CancelPick, CancelAttempt, CancelFails
  <2>4. run'.state = "canceled"
    BY <2>3 DEF CancelRun
  <2> QED
    BY <2>2, <2>4
<1>6. ASSUME NEW p \in Procs, SummaryStep(p) \/ Crash(p) PROVE Heeded'
  BY <1>6 DEF SummaryStep, ReadRun, ReadAttempts, WriteSummary, Crash
<1>7. CASE UNCHANGED vars
  BY <1>7 DEF vars
<1> QED
  BY <1>1, <1>2, <1>3, <1>4, <1>5, <1>6, <1>7 DEF Next

\* Without resumers, a cancel that is recorded before runAttempt looks at the
\* run row after Submit is final (runAttempt, cancelRun).
THEOREM EarlyCancelsAreFinal ==
  ASSUME Resumers = {}
  PROVE  Spec => EarlyCancelIsFinal
<1>1. TypeOK /\ Heeded /\ [Next]_vars => Heeded'
  BY HeededStep
<1>2. ASSUME NEW l \in Launchers
      PROVE  run.state = "canceled" /\ pc[l] \in {"submit", "running", "check"} => Heeded
  BY <1>2 DEF Launchers, Heeded
<1>3. Heeded => run.state = "canceled"
  BY DEF Heeded
<1>4. ASSUME NEW l \in Launchers
      PROVE  Spec => [](run.state = "canceled" /\ pc[l] \in {"submit", "running", "check"}
                          => [](run.state = "canceled"))
  <2>1. run.state = "canceled" /\ pc[l] \in {"submit", "running", "check"} => Heeded
    BY <1>2
  <2> QED
    BY <1>1, <2>1, <1>3, TypeCorrect, PTL DEF Spec
<1> QED
  BY <1>4 DEF EarlyCancelIsFinal

-----------------------------------------------------------------------------
(* Commands issued one at a time *)

\* A command that has written nothing the summary does not show.
Waiting == {"idle", "done", "restart", "pick"}

\* A command that will write the summary before it ends.
Busy == WorkingPcs \cup {"cancelAttempt", "cancelRun", "readRun"}

\* Process p takes a step, alone: it works on its rows, or looks at them
\* without writing, or writes the summary.
Moves(p) ==
  /\ Active(p) \/ \A q \in Procs : ~Active(q)
  /\ \A q \in Procs : q # p => pc'[q] = pc[q]
  /\ \/ pc'[p] \in Busy
     \/ pc[p] \in Waiting /\ pc'[p] \in Waiting /\ UNCHANGED dbVars
     \/ SummaryStep(p)

\* Without I/O errors every step is the move of one process (the actions of train,
\* resume and cancel), or its crash.
LEMMA EveryStepMoves ==
  ~Overlap /\ "io" \notin Faults /\ TypeOK /\ Next => \E p \in Procs : Moves(p) \/ Crash(p)
<1> SUFFICES ASSUME ~Overlap, "io" \notin Faults, TypeOK, Next
             PROVE  \E p \in Procs : Moves(p) \/ Crash(p)
  OBVIOUS
<1> USE DEF Moves, Active, Goto, Waiting, Busy, WorkingPcs, AttemptPcs, dbVars
<1>0. pc \in [Procs -> LauncherPcs \cup CancelerPcs] /\ Launchers \subseteq Procs
      /\ Cancelers \subseteq Procs
  BY DEF TypeOK, PcOK, Procs
<1>1. ASSUME NEW l \in Launchers, StartTrain(l) PROVE Moves(l)
  BY <1>0, <1>1 DEF StartTrain, MayStart
<1>2. ASSUME NEW l \in Launchers, ResumeScan(l) PROVE Moves(l)
  BY <1>0, <1>2 DEF ResumeScan, MayStart
<1>3. ASSUME NEW l \in Launchers, ResumeNotPrepared(l) PROVE Moves(l)
  BY <1>0, <1>3 DEF ResumeNotPrepared
<1>4. ASSUME NEW l \in Launchers, LauncherStep(l) PROVE Moves(l)
  <2>1. CASE RestartRun(l)
    BY <1>0, <2>1 DEF RestartRun
  <2>2. CASE SelectProvider(l) \/ RoutingFails(l)
    BY <1>0, <2>2 DEF SelectProvider, RoutingFails
  <2>3. CASE UseExplicitProvider(l) \/ ExplicitProviderCannotResume(l)
    BY <1>0, <2>3 DEF UseExplicitProvider, ExplicitProviderCannotResume
  <2>4. CASE CreateAttempt(l) \/ PrepareFails(l) \/ FailAttempt(l)
    BY <1>0, <2>4 DEF CreateAttempt, PrepareFails, FailAttempt
  <2>5. CASE CallSubmit(l) \/ OnStarted(l) \/ SubmitReturns(l)
    BY <1>0, <2>5 DEF CallSubmit, OnStarted, SubmitReturns
  <2>6. CASE CheckRun(l) \/ FinishRun(l)
    BY <1>0, <2>6 DEF CheckRun, FinishRun
  <2>7. CASE FinishAttempt(l)
    BY <1>0, <2>7 DEF FinishAttempt, AfterAttempt
  <2>8. CASE OutOfAttempts(l) \/ NoCheckpointToFailOver(l)
    BY <1>0, <2>8 DEF OutOfAttempts, NoCheckpointToFailOver
  <2>9. CASE FailOver(l) \/ GiveUp(l)
    BY <1>0, <2>9 DEF FailOver, GiveUp
  <2> QED
    BY <1>4, <2>1, <2>2, <2>3, <2>4, <2>5, <2>6, <2>7, <2>8, <2>9 DEF LauncherStep
<1>5. ASSUME NEW l \in Launchers, EmitCheckpoint(l) PROVE Moves(l)
  BY <1>0, <1>5 DEF EmitCheckpoint
<1>6. ASSUME NEW c \in Cancelers, CancelStep(c) PROVE Moves(c)
  <2>1. CASE CancelReadRun(c)
    BY <1>0, <2>1 DEF CancelReadRun, MayStart
  <2>2. CASE CancelPick(c)
    BY <1>0, <2>2 DEF CancelPick
  <2>3. CASE CancelAttempt(c) \/ CancelRun(c)
    BY <1>0, <2>3 DEF CancelAttempt, CancelRun
  <2> QED
    BY <1>6, <2>1, <2>2, <2>3 DEF CancelStep
<1>7. ASSUME NEW p \in Procs, SummaryStep(p) PROVE Moves(p)
  BY <1>0, <1>7 DEF SummaryStep, ReadRun, ReadAttempts, WriteSummary
<1>8. /\ \A l \in Launchers : ~LauncherFault(l)
      /\ \A c \in Cancelers : ~CancelFails(c)
  BY DEF LauncherFault, DBError, LostWrite, SummaryFails, CancelFails
<1> QED
  BY <1>0, <1>1, <1>2, <1>3, <1>4, <1>5, <1>6, <1>7, <1>8 DEF Next

OneAtATime == \A p, q \in Procs : Active(p) /\ Active(q) => p = q

LEMMA OneAtATimeStep ==
  ~Overlap /\ "io" \notin Faults /\ TypeOK /\ OneAtATime /\ [Next]_vars => OneAtATime'
<1> SUFFICES ASSUME ~Overlap, "io" \notin Faults, TypeOK, OneAtATime, [Next]_vars
             PROVE  OneAtATime'
  OBVIOUS
<1>1. CASE UNCHANGED vars
  BY <1>1 DEF OneAtATime, Active, vars, locals
<1>2. ASSUME NEW p \in Procs, Moves(p) PROVE OneAtATime'
  BY <1>2 DEF OneAtATime, Active, Moves
<1>3. ASSUME NEW p \in Procs, Crash(p) PROVE OneAtATime'
  BY <1>3 DEF OneAtATime, Active, Crash, TypeOK, PcOK
<1> QED
  BY <1>1, <1>2, <1>3, EveryStepMoves

\* When no command has unfinished business, the summary shows the rows.  While
\* a command writes the summary, what it has read so far is still so.
SummaryInv ==
  /\ OneAtATime
  /\ \A p \in Procs : pc[p] # "crashed"
  /\ (\A p \in Procs : pc[p] \in Waiting) /\ run.state # "absent" =>
       summary = [run |-> run.state,
                  attempts |-> [a \in AttemptIds |-> attempts[a].state]]
  /\ \A p \in Procs : pc[p] \in {"readAttempts", "writeSummary"} =>
       snap[p].run = run.state
  /\ \A p \in Procs : pc[p] = "writeSummary" =>
       snap[p].attempts = [a \in AttemptIds |-> attempts[a].state]

LEMMA SummaryInvStep ==
  ~Overlap /\ Faults = {} /\ TypeOK /\ SummaryInv /\ [Next]_vars => SummaryInv'
<1> SUFFICES ASSUME ~Overlap, Faults = {}, TypeOK, SummaryInv, [Next]_vars
             PROVE  SummaryInv'
  OBVIOUS
<1>0. pc \in [Procs -> LauncherPcs \cup CancelerPcs] /\ snap \in [Procs -> Summaries]
  BY DEF TypeOK, PcOK, FilesOK
<1>1. CASE UNCHANGED vars
  BY <1>1 DEF SummaryInv, OneAtATime, vars, dbVars, files, locals, Active
<1>2. ASSUME NEW p \in Procs, Moves(p) PROVE SummaryInv'
  <2>1. \A q \in Procs : q # p => pc[q] \in {"idle", "done"} /\ pc'[q] = pc[q]
    BY <1>2 DEF SummaryInv, OneAtATime, Moves, Active
  <2>2. CASE pc'[p] \in Busy
    <3>1. pc'[p] \notin {"crashed", "readAttempts", "writeSummary"} \cup Waiting
      BY <2>2 DEF Busy, Waiting, WorkingPcs, AttemptPcs
    <3> QED
      BY <2>1, <3>1 DEF SummaryInv, OneAtATime, Active
  <2>3. CASE pc[p] \in Waiting /\ pc'[p] \in Waiting /\ UNCHANGED dbVars
    <3>1. \A q \in Procs : pc[q] \in Waiting /\ pc'[q] \in Waiting
      BY <2>1, <2>3 DEF Waiting
    <3> QED
      BY <2>1, <2>3, <3>1 DEF SummaryInv, OneAtATime, Active, Waiting, dbVars, files
  <2>4. CASE ReadRun(p)
    <3>1. snap'[p].run = run.state /\ UNCHANGED <<run, attempts, summary>>
      BY <1>0, <2>4 DEF ReadRun, dbVars, files, Summaries
    <3>2. pc'[p] = "readAttempts"
      BY <1>0, <2>4 DEF ReadRun, Goto
    <3> QED
      BY <2>1, <3>1, <3>2 DEF SummaryInv, OneAtATime, Active, Waiting
  <2>5. CASE ReadAttempts(p)
    <3>1. /\ snap'[p].run = snap[p].run
          /\ snap'[p].attempts = [a \in AttemptIds |-> attempts[a].state]
          /\ UNCHANGED <<run, attempts, summary>>
      BY <1>0, <2>5 DEF ReadAttempts, dbVars, files, Summaries
    <3>2. pc[p] = "readAttempts" /\ pc'[p] = "writeSummary"
      BY <1>0, <2>5 DEF ReadAttempts, Goto
    <3> QED
      BY <2>1, <3>1, <3>2 DEF SummaryInv, OneAtATime, Active, Waiting
  <2>6. CASE WriteSummary(p)
    <3>1. pc[p] = "writeSummary" /\ pc'[p] = "done"
      BY <1>0, <2>6 DEF WriteSummary, Goto
    <3>2. summary' = snap[p] /\ snap[p] \in Summaries /\ UNCHANGED <<run, attempts>>
      BY <1>0, <2>6 DEF WriteSummary
    <3>3. /\ snap[p].run = run.state
          /\ snap[p].attempts = [a \in AttemptIds |-> attempts[a].state]
      BY <3>1 DEF SummaryInv
    <3>4. summary' = [run |-> run.state,
                      attempts |-> [a \in AttemptIds |-> attempts[a].state]]
      BY <3>2, <3>3 DEF Summaries
    <3> QED
      BY <2>1, <3>1, <3>2, <3>4 DEF SummaryInv, OneAtATime, Active
  <2> QED
    BY <1>2, <2>2, <2>3, <2>4, <2>5, <2>6 DEF Moves, SummaryStep
<1>3. \A p \in Procs : ~Crash(p)
  BY DEF Crash
<1> QED
  BY <1>1, <1>2, <1>3, EveryStepMoves

\* Where commands come one at a time and nothing fails, summary.json shows
\* the rows whenever no command runs (writeSummary at the end of every path
\* through runAttempts and cancelRun).
THEOREM SummariesAreCurrent ==
  ASSUME ~Overlap, Faults = {}
  PROVE  Spec => []SummaryIsCurrent
<1>1. Init => SummaryInv
  BY DEF Init, SummaryInv, OneAtATime, Active
<1>2. TypeOK /\ SummaryInv /\ [Next]_vars => SummaryInv'
  BY SummaryInvStep
<1>3. SummaryInv => SummaryIsCurrent
  BY DEF SummaryInv, SummaryIsCurrent, Active, Waiting
<1> QED
  BY <1>1, <1>2, <1>3, TypeCorrect, PTL DEF Spec

\* What an invocation will return agrees with the rows it has written.
Told(l) == (ExitStatus(l) = 0 <=> run.state = "succeeded") /\ ret[l].code = run.code

\* An invocation that is about to write `failed` has an error to return, and one
\* that is about to write an outcome returns that outcome.
ReturnInv ==
  /\ run.state = "canceled" => run.code = exitCodeCanceled
  /\ \A l \in Launchers :
       /\ pc[l] \in {"giveUp", "failAttempt", "failover"} => ret[l].err
       /\ pc[l] = "finishRun" =>
            /\ ret[l].code = outcome[l].code
            /\ ret[l].err <=> outcome[l].kind # "result"
       /\ pc[l] \in SummaryPcs => Told(l)

\* What Return writes.
LEMMA ReturnWritten ==
  ASSUME TypeOK, NEW p \in Procs, NEW code, NEW err, Return(p, code, err)
  PROVE  ret'[p].code = code /\ ret'[p].err = err
  BY DEF TypeOK, ResultOK, Return

LEMMA ReturnInvStep ==
  ~Overlap /\ "io" \notin Faults /\ TypeOK /\ OneAtATime /\ ReturnInv /\ [Next]_vars => ReturnInv'
<1> SUFFICES ASSUME ~Overlap, "io" \notin Faults, TypeOK, OneAtATime, ReturnInv, [Next]_vars
             PROVE  ReturnInv'
  OBVIOUS
<1>0. /\ pc \in [Procs -> LauncherPcs \cup CancelerPcs]
      /\ Launchers \subseteq Procs /\ Cancelers \subseteq Procs
      /\ \A l \in Launchers : l \notin Cancelers
  BY LifecycleAssumption DEF TypeOK, PcOK, Procs
\* The others do not work while one process moves.
<1>a. ASSUME NEW p \in Procs, Active(p) \/ \A q \in Procs : ~Active(q)
      PROVE  \A q \in Procs : q # p => pc[q] \in {"idle", "done", "crashed"}
  BY <1>a DEF OneAtATime, Active
\* It is enough to look at the launcher that moves.
<1>b. ASSUME NEW l \in Launchers, Active(l) \/ \A q \in Procs : ~Active(q),
             \A q \in Procs : q # l => pc'[q] = pc[q],
             run'.state = "canceled" => run'.code = exitCodeCanceled,
             pc'[l] \in {"giveUp", "failAttempt", "failover"} => ret'[l].err,
             pc'[l] = "finishRun" =>
               /\ ret'[l].code = outcome'[l].code
               /\ ret'[l].err <=> outcome'[l].kind # "result",
             pc'[l] \in SummaryPcs => Told(l)'
      PROVE  ReturnInv'
  <2>1. \A k \in Launchers : k # l => pc'[k] \in {"idle", "done", "crashed"}
    BY <1>0, <1>a, <1>b
  <2> QED
    BY <1>b, <2>1 DEF ReturnInv, SummaryPcs
\* A canceler moves while no launcher works.
<1>c. ASSUME NEW c \in Cancelers, Active(c) \/ \A q \in Procs : ~Active(q),
             \A q \in Procs : q # c => pc'[q] = pc[q],
             run'.state = "canceled" => run'.code = exitCodeCanceled
      PROVE  ReturnInv'
  <2>1. \A k \in Launchers : pc'[k] \in {"idle", "done", "crashed"}
    BY <1>0, <1>a, <1>c
  <2> QED
    BY <1>c, <2>1 DEF ReturnInv, SummaryPcs
<1> DEFINE Others(p) == /\ Active(p) \/ \A q \in Procs : ~Active(q)
                        /\ \A q \in Procs : q # p => pc'[q] = pc[q]
<1> USE DEF ReturnInv, Goto, SummaryPcs
<1>1. ASSUME NEW l \in Launchers, StartTrain(l) PROVE ReturnInv'
  <2>1. pc'[l] = "route" /\ run'.state = "running" /\ Others(l)
    BY <1>0, <1>1 DEF StartTrain, MayStart
  <2> QED
    BY <1>b, <2>1
<1>2. ASSUME NEW l \in Launchers, ResumeScan(l) \/ ResumeNotPrepared(l) PROVE ReturnInv'
  <2>1. pc'[l] \in {"done", "restart"} /\ UNCHANGED run /\ Others(l)
    BY <1>0, <1>2 DEF ResumeScan, ResumeNotPrepared, MayStart, Active, dbVars
  <2> QED
    BY <1>b, <2>1
<1>3. ASSUME NEW l \in Launchers, LauncherStep(l) PROVE ReturnInv'
  <2>0. Others(l)
    <3>1. \A q \in Procs : q # l => pc'[q] = pc[q]
      BY <1>0, <1>3 DEF LauncherStep, RestartRun, SelectProvider, RoutingFails,
         UseExplicitProvider, ExplicitProviderCannotResume, CreateAttempt, PrepareFails,
         FailAttempt, CallSubmit, OnStarted, SubmitReturns, CheckRun, FinishAttempt,
         FinishRun, OutOfAttempts, NoCheckpointToFailOver, FailOver, GiveUp
    <3>2. pc[l] \notin {"idle", "done", "crashed"}
      BY <1>3 DEF LauncherStep, RestartRun, SelectProvider, RoutingFails,
         UseExplicitProvider, ExplicitProviderCannotResume, CreateAttempt, PrepareFails,
         FailAttempt, CallSubmit, OnStarted, SubmitReturns, CheckRun, FinishAttempt,
         FinishRun, OutOfAttempts, NoCheckpointToFailOver, FailOver, GiveUp
    <3> QED
      BY <3>1, <3>2 DEF Active
  <2>1. CASE RestartRun(l)
    <3>1. pc'[l] = "route" /\ run'.state = "running"
      BY <1>0, <2>1 DEF RestartRun
    <3> QED
      BY <1>b, <2>0, <3>1
  <2>2. CASE SelectProvider(l) \/ UseExplicitProvider(l) \/ CreateAttempt(l) \/ CallSubmit(l)
             \/ OnStarted(l) \/ SubmitReturns(l) \/ FailOver(l)
    <3>1. pc'[l] \in {"create", "prepare", "submit", "running", "check", "route"} /\ UNCHANGED run
      BY <1>0, <2>2 DEF SelectProvider, UseExplicitProvider, CreateAttempt, CallSubmit,
         OnStarted, SubmitReturns, FailOver, dbVars
    <3> QED
      BY <1>b, <2>0, <3>1
  <2>3. CASE RoutingFails(l) \/ ExplicitProviderCannotResume(l) \/ PrepareFails(l)
             \/ NoCheckpointToFailOver(l)
    <3>1. pc'[l] \in {"giveUp", "failAttempt"} /\ UNCHANGED run
      BY <1>0, <2>3 DEF RoutingFails, ExplicitProviderCannotResume, PrepareFails,
         NoCheckpointToFailOver, dbVars
    <3>2. \E code : Return(l, code, TRUE)
      BY <2>3 DEF RoutingFails, ExplicitProviderCannotResume, PrepareFails,
         NoCheckpointToFailOver
    <3>3. ret'[l].err
      BY <1>0, <3>2, ReturnWritten
    <3> QED
      BY <1>b, <2>0, <3>1, <3>3
  <2>4. CASE FailAttempt(l) \/ OutOfAttempts(l)
    <3>1. pc'[l] = "giveUp" /\ pc[l] \in {"failAttempt", "failover"} /\ UNCHANGED <<run, ret>>
      BY <1>0, <2>4 DEF FailAttempt, OutOfAttempts, locals, dbVars
    <3> QED
      BY <1>b, <2>0, <3>1
  <2>5. CASE CheckRun(l)
    <3>1. CASE run.state = "canceled"
      <4>1. pc'[l] = "readRun" /\ UNCHANGED run /\ Return(l, exitCodeCanceled, FALSE)
        BY <1>0, <2>5, <3>1 DEF CheckRun, dbVars
      <4>2. ret'[l].code = exitCodeCanceled /\ ret'[l].err = FALSE
        BY <1>0, <4>1 DEF Return, TypeOK, ResultOK
      <4>3. Told(l)'
        BY <3>1, <4>1, <4>2 DEF Told, ExitStatus, exitCodeCanceled
      <4> QED
        BY <1>b, <2>0, <3>1, <4>1, <4>3
    <3>2. CASE run.state # "canceled"
      <4>1. pc'[l] = "finishAttempt" /\ UNCHANGED run
        BY <1>0, <2>5, <3>2 DEF CheckRun, dbVars
      <4> QED
        BY <1>b, <2>0, <4>1
    <3> QED
      BY <3>1, <3>2
  <2>6. CASE FinishAttempt(l)
    <3>1. /\ pc'[l] = AfterAttempt(outcome[l]) /\ UNCHANGED <<run, outcome>>
          /\ Return(l, outcome[l].code, outcome[l].kind # "result")
      BY <1>0, <2>6 DEF FinishAttempt, loopVars
    <3>2. ret'[l].code = outcome[l].code /\ (ret'[l].err <=> outcome[l].kind # "result")
      BY <1>0, <3>1 DEF Return, TypeOK, ResultOK
    <3>3. CASE outcome[l].kind = "retryable"
      <4>1. pc'[l] = "failover"
        BY <3>1, <3>3 DEF AfterAttempt
      <4> QED
        BY <1>b, <2>0, <3>1, <3>2, <3>3, <4>1
    <3>4. CASE outcome[l].kind # "retryable"
      <4>1. pc'[l] = "finishRun"
        BY <3>1, <3>4 DEF AfterAttempt
      <4> QED
        BY <1>b, <2>0, <3>1, <3>2, <4>1
    <3> QED
      BY <3>3, <3>4
  <2>7. CASE FinishRun(l)
    <3>1. /\ pc[l] = "finishRun" /\ pc'[l] = "readRun" /\ UNCHANGED ret
          /\ run' = [state |-> FinalState(outcome[l]), code |-> outcome[l].code]
      BY <1>0, <2>7 DEF FinishRun, locals
    <3>2. ret'[l].code = outcome[l].code /\ (ret'[l].err <=> outcome[l].kind # "result")
      BY <3>1
    <3>3. ExitStatus(l)' = 0 <=> run'.state = "succeeded"
      BY <3>1, <3>2 DEF ExitStatus, FinalState
    <3>4. Told(l)'
      BY <3>1, <3>2, <3>3 DEF Told
    <3>5. run'.state # "canceled"
      BY <3>1 DEF FinalState
    <3> QED
      BY <1>b, <2>0, <3>1, <3>4, <3>5
  <2>8. CASE GiveUp(l)
    <3>1. /\ pc[l] = "giveUp" /\ pc'[l] = "readRun" /\ UNCHANGED ret
          /\ run' = [state |-> "failed", code |-> ret[l].code]
      BY <1>0, <2>8 DEF GiveUp, locals
    <3>2. ret'[l].err
      BY <3>1
    <3>3. Told(l)'
      BY <3>1, <3>2 DEF Told, ExitStatus
    <3> QED
      BY <1>b, <2>0, <3>1, <3>3
  <2> QED
    BY <1>3, <2>1, <2>2, <2>3, <2>4, <2>5, <2>6, <2>7, <2>8 DEF LauncherStep
<1>4. ASSUME NEW l \in Launchers, EmitCheckpoint(l) PROVE ReturnInv'
  BY <1>4 DEF EmitCheckpoint, locals, loopVars, Told, ExitStatus
<1>5. ASSUME NEW c \in Cancelers, CancelStep(c) PROVE ReturnInv'
  <2>1. CASE CancelReadRun(c) \/ CancelPick(c) \/ CancelAttempt(c)
    <3>1. Others(c) /\ UNCHANGED run
      BY <1>0, <2>1 DEF CancelReadRun, CancelPick, CancelAttempt, MayStart, Active, dbVars
    <3> QED
      BY <1>c, <3>1
  <2>2. CASE CancelRun(c)
    <3>1. Others(c) /\ run' = [state |-> "canceled", code |-> exitCodeCanceled]
      BY <1>0, <2>2 DEF CancelRun, Active
    <3> QED
      BY <1>c, <3>1
  <2> QED
    BY <1>5, <2>1, <2>2 DEF CancelStep
<1>6. ASSUME NEW p \in Procs, SummaryStep(p) PROVE ReturnInv'
  <2>1. /\ pc[p] \in SummaryPcs /\ \A q \in Procs : pc'[q] = IF q = p THEN pc'[p] ELSE pc[q]
        /\ pc'[p] \in SummaryPcs \cup {"done"} /\ UNCHANGED <<run, ret, outcome>>
    BY <1>0, <1>6 DEF SummaryStep, ReadRun, ReadAttempts, WriteSummary, dbVars, loopVars
  <2>2. \A l \in Launchers : pc[l] \in SummaryPcs => Told(l)'
    BY <2>1 DEF Told, ExitStatus
  <2> QED
    BY <1>0, <2>1, <2>2
<1>7. /\ \A l \in Launchers : ~LauncherFault(l)
      /\ \A c \in Cancelers : ~CancelFails(c)
  BY DEF LauncherFault, DBError, LostWrite, SummaryFails, CancelFails
<1>8. CASE UNCHANGED vars
  BY <1>8 DEF vars, dbVars, locals, loopVars, Told, ExitStatus
<1>9. ASSUME NEW p \in Procs, Crash(p) PROVE ReturnInv'
  BY <1>0, <1>9 DEF Crash, dbVars, locals, loopVars, Told, ExitStatus
<1> QED
  BY <1>1, <1>2, <1>3, <1>4, <1>5, <1>6, <1>7, <1>8, <1>9 DEF Next

\* Where commands come one at a time and I/O does not fail, an invocation that
\* ends returns the code it wrote to the run, and the process exits with 0
\* just when the run has succeeded (runAttempts, Execute), whatever commands
\* died before.
THEOREM ExitsTellRunState ==
  ASSUME ~Overlap, "io" \notin Faults
  PROVE  Spec => ExitTellsRunState
<1>1. Init => OneAtATime /\ ReturnInv
  BY DEF Init, OneAtATime, ReturnInv, Active, Procs, SummaryPcs
<1>2. TypeOK /\ OneAtATime /\ [Next]_vars => OneAtATime'
  BY OneAtATimeStep
<1>3. TypeOK /\ OneAtATime /\ ReturnInv /\ [Next]_vars => ReturnInv'
  BY ReturnInvStep
<1>4. ReturnInv =>
        [\A l \in Launchers :
           pc[l] = "writeSummary" /\ pc'[l] = "done" =>
             /\ ExitStatus(l) = 0 <=> run.state = "succeeded"
             /\ ret[l].code = run.code]_vars
  BY DEF ReturnInv, Told, SummaryPcs
<1> QED
  BY <1>1, <1>2, <1>3, <1>4, TypeCorrect, PTL DEF Spec, ExitTellsRunState

=============================================================================
