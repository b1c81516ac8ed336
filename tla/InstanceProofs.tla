------------------------- MODULE InstanceProofs -------------------------
(***************************************************************************)
(* Proofs about InstanceLifecycle, for any number of instances and         *)
(* operators, any configurations and all faults.  Each safety property is  *)
(* strengthened to what the processes still hold in their variables about  *)
(* a row or an instance they looked at earlier: the state Submit is about  *)
(* to store (final), the state a command is about to store (observed), and *)
(* the rows a command read and has not handled (todo).                     *)
(***************************************************************************)
EXTENDS InstanceLifecycle, TLAPS

-----------------------------------------------------------------------------
(* Type correctness *)

\* Every action preserves the type invariant.
LEMMA TypeStep == TypeOK /\ [Next]_vars => TypeOK'
<1> SUFFICES ASSUME TypeOK PROVE [Next]_vars => TypeOK'
  OBVIOUS
<1> USE DEF submitVars, dbVars, toolVars
<1>1. ASSUME NEW i \in Instances, CloudStep(i)
      PROVE  TypeOK'
  <2>1. SubmitOK'
    BY <1>1
    DEF TypeOK, SubmitOK, SubmitPcs, RowStates, ActiveStates, CloudStep
  <2>2. ToolsOK'
    BY <1>1
    DEF TypeOK, ToolsOK, SharedOK, SubmitOK, RowStates, ActiveStates,
        CloudStates, Filters, CloudStep
  <2>3. SharedOK'
    BY <1>1
    DEF TypeOK, SharedOK, ToolsOK, SubmitOK, RowStates, ActiveStates,
        CloudStates, CloudStep
  <2> QED
    BY <2>1, <2>2, <2>3
    DEF TypeOK
<1>2. ASSUME NEW i \in Instances, CloudFault(i)
      PROVE  TypeOK'
  <2>1. SubmitOK'
    BY <1>2
    DEF TypeOK, SubmitOK, SubmitPcs, RowStates, ActiveStates, CloudFault
  <2>2. ToolsOK'
    BY <1>2
    DEF TypeOK, ToolsOK, SharedOK, SubmitOK, RowStates, ActiveStates,
        CloudStates, Filters, CloudFault
  <2>3. SharedOK'
    BY <1>2
    DEF TypeOK, SharedOK, ToolsOK, SubmitOK, RowStates, ActiveStates,
        CloudStates, CloudFault
  <2> QED
    BY <2>1, <2>2, <2>3
    DEF TypeOK
<1>3. ASSUME NEW i \in Instances, Launch(i)
      PROVE  TypeOK'
  <2>1. SubmitOK'
    BY <1>3
    DEF TypeOK, SubmitOK, SubmitPcs, RowStates, ActiveStates, Launch, Goto
  <2>2. ToolsOK'
    BY <1>3
    DEF TypeOK, ToolsOK, SharedOK, SubmitOK, RowStates, ActiveStates,
        CloudStates, Filters, Launch, Goto
  <2>3. SharedOK'
    BY <1>3
    DEF TypeOK, SharedOK, ToolsOK, SubmitOK, RowStates, ActiveStates,
        CloudStates, Launch, Goto
  <2> QED
    BY <2>1, <2>2, <2>3
    DEF TypeOK
<1>4. ASSUME NEW i \in Instances, LaunchFails(i)
      PROVE  TypeOK'
  <2>1. SubmitOK'
    BY <1>4
    DEF TypeOK, SubmitOK, SubmitPcs, RowStates, ActiveStates, LaunchFails,
        Goto
  <2>2. ToolsOK'
    BY <1>4
    DEF TypeOK, ToolsOK, SharedOK, SubmitOK, RowStates, ActiveStates,
        CloudStates, Filters, LaunchFails, Goto
  <2>3. SharedOK'
    BY <1>4
    DEF TypeOK, SharedOK, ToolsOK, SubmitOK, RowStates, ActiveStates,
        CloudStates, LaunchFails, Goto
  <2> QED
    BY <2>1, <2>2, <2>3
    DEF TypeOK
<1>5. ASSUME NEW i \in Instances, NotifyCreated(i)
      PROVE  TypeOK'
  <2>1. SubmitOK'
    BY <1>5
    DEF TypeOK, SubmitOK, SubmitPcs, RowStates, ActiveStates, NotifyCreated,
        Goto, ShowRow
  <2>2. ToolsOK'
    BY <1>5
    DEF TypeOK, ToolsOK, SharedOK, SubmitOK, RowStates, ActiveStates,
        CloudStates, Filters, NotifyCreated, Goto, ShowRow
  <2>3. SharedOK'
    BY <1>5
    DEF TypeOK, SharedOK, ToolsOK, SubmitOK, RowStates, ActiveStates,
        CloudStates, NotifyCreated, Goto, ShowRow
  <2> QED
    BY <2>1, <2>2, <2>3
    DEF TypeOK
<1>6. ASSUME NEW i \in Instances, OnStarted(i)
      PROVE  TypeOK'
  <2>1. SubmitOK'
    BY <1>6
    DEF TypeOK, SubmitOK, SubmitPcs, RowStates, ActiveStates, OnStarted, Goto
  <2>2. ToolsOK'
    BY <1>6
    DEF TypeOK, ToolsOK, SharedOK, SubmitOK, RowStates, ActiveStates,
        CloudStates, Filters, OnStarted, Goto
  <2>3. SharedOK'
    BY <1>6
    DEF TypeOK, SharedOK, ToolsOK, SubmitOK, RowStates, ActiveStates,
        CloudStates, OnStarted, Goto
  <2> QED
    BY <2>1, <2>2, <2>3
    DEF TypeOK
<1>7. ASSUME NEW i \in Instances, StartNotRecorded(i)
      PROVE  TypeOK'
  <2>1. SubmitOK'
    BY <1>7
    DEF TypeOK, SubmitOK, SubmitPcs, RowStates, ActiveStates, StartNotRecorded,
        Goto
  <2>2. ToolsOK'
    BY <1>7
    DEF TypeOK, ToolsOK, SharedOK, SubmitOK, RowStates, ActiveStates,
        CloudStates, Filters, StartNotRecorded, Goto
  <2>3. SharedOK'
    BY <1>7
    DEF TypeOK, SharedOK, ToolsOK, SubmitOK, RowStates, ActiveStates,
        CloudStates, StartNotRecorded, Goto
  <2> QED
    BY <2>1, <2>2, <2>3
    DEF TypeOK
<1>8. ASSUME NEW i \in Instances, Abort(i)
      PROVE  TypeOK'
  <2>1. SubmitOK'
    BY <1>8
    DEF TypeOK, SubmitOK, SubmitPcs, RowStates, ActiveStates, Abort, Goto,
        Terminate, TerminateFails, AfterTerminate
  <2>2. ToolsOK'
    BY <1>8
    DEF TypeOK, ToolsOK, SharedOK, SubmitOK, RowStates, ActiveStates,
        CloudStates, Filters, Abort, Goto, Terminate, TerminateFails,
        AfterTerminate
  <2>3. SharedOK'
    BY <1>8
    DEF TypeOK, SharedOK, ToolsOK, SubmitOK, RowStates, ActiveStates,
        CloudStates, Abort, Goto, Terminate, TerminateFails, AfterTerminate
  <2> QED
    BY <2>1, <2>2, <2>3
    DEF TypeOK
<1>9. ASSUME NEW i \in Instances, WaitForActive(i)
      PROVE  TypeOK'
  <2>1. SubmitOK'
    BY <1>9
    DEF TypeOK, SubmitOK, SubmitPcs, RowStates, ActiveStates, WaitForActive,
        Goto
  <2>2. ToolsOK'
    BY <1>9
    DEF TypeOK, ToolsOK, SharedOK, SubmitOK, RowStates, ActiveStates,
        CloudStates, Filters, WaitForActive, Goto
  <2>3. SharedOK'
    BY <1>9
    DEF TypeOK, SharedOK, ToolsOK, SubmitOK, RowStates, ActiveStates,
        CloudStates, WaitForActive, Goto
  <2> QED
    BY <2>1, <2>2, <2>3
    DEF TypeOK
<1>10. ASSUME NEW i \in Instances, NotifyRunning(i)
      PROVE  TypeOK'
  <2>1. SubmitOK'
    BY <1>10
    DEF TypeOK, SubmitOK, SubmitPcs, RowStates, ActiveStates, NotifyRunning,
        Goto, ShowRow
  <2>2. ToolsOK'
    BY <1>10
    DEF TypeOK, ToolsOK, SharedOK, SubmitOK, RowStates, ActiveStates,
        CloudStates, Filters, NotifyRunning, Goto, ShowRow
  <2>3. SharedOK'
    BY <1>10
    DEF TypeOK, SharedOK, ToolsOK, SubmitOK, RowStates, ActiveStates,
        CloudStates, NotifyRunning, Goto, ShowRow
  <2> QED
    BY <2>1, <2>2, <2>3
    DEF TypeOK
<1>11. ASSUME NEW i \in Instances, RunningNotRecorded(i)
      PROVE  TypeOK'
  <2>1. SubmitOK'
    BY <1>11
    DEF TypeOK, SubmitOK, SubmitPcs, RowStates, ActiveStates,
        RunningNotRecorded, Goto
  <2>2. ToolsOK'
    BY <1>11
    DEF TypeOK, ToolsOK, SharedOK, SubmitOK, RowStates, ActiveStates,
        CloudStates, Filters, RunningNotRecorded, Goto
  <2>3. SharedOK'
    BY <1>11
    DEF TypeOK, SharedOK, ToolsOK, SubmitOK, RowStates, ActiveStates,
        CloudStates, RunningNotRecorded, Goto
  <2> QED
    BY <2>1, <2>2, <2>3
    DEF TypeOK
<1>12. ASSUME NEW i \in Instances, WaitForReady(i)
      PROVE  TypeOK'
  <2>1. SubmitOK'
    BY <1>12
    DEF TypeOK, SubmitOK, SubmitPcs, RowStates, ActiveStates, WaitForReady,
        Goto
  <2>2. ToolsOK'
    BY <1>12
    DEF TypeOK, ToolsOK, SharedOK, SubmitOK, RowStates, ActiveStates,
        CloudStates, Filters, WaitForReady, Goto
  <2>3. SharedOK'
    BY <1>12
    DEF TypeOK, SharedOK, ToolsOK, SubmitOK, RowStates, ActiveStates,
        CloudStates, WaitForReady, Goto
  <2> QED
    BY <2>1, <2>2, <2>3
    DEF TypeOK
<1>13. ASSUME NEW i \in Instances, JobExits(i)
      PROVE  TypeOK'
  <2>1. SubmitOK'
    BY <1>13
    DEF TypeOK, SubmitOK, SubmitPcs, RowStates, ActiveStates, JobExits, Ends,
        Goto
  <2>2. ToolsOK'
    BY <1>13
    DEF TypeOK, ToolsOK, SharedOK, SubmitOK, RowStates, ActiveStates,
        CloudStates, Filters, JobExits, Ends, Goto
  <2>3. SharedOK'
    BY <1>13
    DEF TypeOK, SharedOK, ToolsOK, SubmitOK, RowStates, ActiveStates,
        CloudStates, JobExits, Ends, Goto
  <2> QED
    BY <2>1, <2>2, <2>3
    DEF TypeOK
<1>14. ASSUME NEW i \in Instances, JobFails(i)
      PROVE  TypeOK'
  <2>1. SubmitOK'
    BY <1>14
    DEF TypeOK, SubmitOK, SubmitPcs, RowStates, ActiveStates, JobFails, Ends,
        Goto
  <2>2. ToolsOK'
    BY <1>14
    DEF TypeOK, ToolsOK, SharedOK, SubmitOK, RowStates, ActiveStates,
        CloudStates, Filters, JobFails, Ends, Goto
  <2>3. SharedOK'
    BY <1>14
    DEF TypeOK, SharedOK, ToolsOK, SubmitOK, RowStates, ActiveStates,
        CloudStates, JobFails, Ends, Goto
  <2> QED
    BY <2>1, <2>2, <2>3
    DEF TypeOK
<1>15. ASSUME NEW i \in Instances, Settle(i)
      PROVE  TypeOK'
  <2>1. SubmitOK'
    BY <1>15
    DEF TypeOK, SubmitOK, SubmitPcs, RowStates, ActiveStates, Settle, Goto,
        Terminate, TerminateFails, AfterTerminate, Settled, JobState,
        ShouldTerminate
  <2>2. ToolsOK'
    BY <1>15
    DEF TypeOK, ToolsOK, SharedOK, SubmitOK, RowStates, ActiveStates,
        CloudStates, Filters, Settle, Goto, Terminate, TerminateFails,
        AfterTerminate, Settled, JobState, ShouldTerminate
  <2>3. SharedOK'
    BY <1>15
    DEF TypeOK, SharedOK, ToolsOK, SubmitOK, RowStates, ActiveStates,
        CloudStates, Settle, Goto, Terminate, TerminateFails, AfterTerminate,
        Settled, JobState, ShouldTerminate
  <2> QED
    BY <2>1, <2>2, <2>3
    DEF TypeOK
<1>16. ASSUME NEW i \in Instances, NotifyFinal(i)
      PROVE  TypeOK'
  <2>1. SubmitOK'
    BY <1>16
    DEF TypeOK, SubmitOK, SubmitPcs, RowStates, ActiveStates, NotifyFinal,
        Goto, ShowRow
  <2>2. ToolsOK'
    BY <1>16
    DEF TypeOK, ToolsOK, SharedOK, SubmitOK, RowStates, ActiveStates,
        CloudStates, Filters, NotifyFinal, Goto, ShowRow
  <2>3. SharedOK'
    BY <1>16
    DEF TypeOK, SharedOK, ToolsOK, SubmitOK, RowStates, ActiveStates,
        CloudStates, NotifyFinal, Goto, ShowRow
  <2> QED
    BY <2>1, <2>2, <2>3
    DEF TypeOK
<1>17. ASSUME NEW i \in Instances, FinalNotRecorded(i)
      PROVE  TypeOK'
  <2>1. SubmitOK'
    BY <1>17
    DEF TypeOK, SubmitOK, SubmitPcs, RowStates, ActiveStates, FinalNotRecorded,
        Goto
  <2>2. ToolsOK'
    BY <1>17
    DEF TypeOK, ToolsOK, SharedOK, SubmitOK, RowStates, ActiveStates,
        CloudStates, Filters, FinalNotRecorded, Goto
  <2>3. SharedOK'
    BY <1>17
    DEF TypeOK, SharedOK, ToolsOK, SubmitOK, RowStates, ActiveStates,
        CloudStates, FinalNotRecorded, Goto
  <2> QED
    BY <2>1, <2>2, <2>3
    DEF TypeOK
<1>18. ASSUME NEW i \in Instances, AttemptOver(i)
      PROVE  TypeOK'
  <2>1. SubmitOK'
    BY <1>18
    DEF TypeOK, SubmitOK, SubmitPcs, RowStates, ActiveStates, AttemptOver,
        Goto
  <2>2. ToolsOK'
    BY <1>18
    DEF TypeOK, ToolsOK, SharedOK, SubmitOK, RowStates, ActiveStates,
        CloudStates, Filters, AttemptOver, Goto
  <2>3. SharedOK'
    BY <1>18
    DEF TypeOK, SharedOK, ToolsOK, SubmitOK, RowStates, ActiveStates,
        CloudStates, AttemptOver, Goto
  <2> QED
    BY <2>1, <2>2, <2>3
    DEF TypeOK
<1>19. ASSUME NEW i \in Instances, Crash(i)
      PROVE  TypeOK'
  <2>1. SubmitOK'
    BY <1>19
    DEF TypeOK, SubmitOK, SubmitPcs, RowStates, ActiveStates, Crash
  <2>2. ToolsOK'
    BY <1>19
    DEF TypeOK, ToolsOK, SharedOK, SubmitOK, RowStates, ActiveStates,
        CloudStates, Filters, Crash
  <2>3. SharedOK'
    BY <1>19
    DEF TypeOK, SharedOK, ToolsOK, SubmitOK, RowStates, ActiveStates,
        CloudStates, Crash
  <2> QED
    BY <2>1, <2>2, <2>3
    DEF TypeOK
<1>20. ASSUME NEW i \in Instances, UserCancel(i)
      PROVE  TypeOK'
  <2>1. SubmitOK'
    BY <1>20
    DEF TypeOK, SubmitOK, SubmitPcs, RowStates, ActiveStates, UserCancel,
        Terminate, TerminateFails, AfterTerminate
  <2>2. ToolsOK'
    BY <1>20
    DEF TypeOK, ToolsOK, SharedOK, SubmitOK, RowStates, ActiveStates,
        CloudStates, Filters, UserCancel, Terminate, TerminateFails,
        AfterTerminate
  <2>3. SharedOK'
    BY <1>20
    DEF TypeOK, SharedOK, ToolsOK, SubmitOK, RowStates, ActiveStates,
        CloudStates, UserCancel, Terminate, TerminateFails, AfterTerminate
  <2> QED
    BY <2>1, <2>2, <2>3
    DEF TypeOK
<1>21. ASSUME NEW o \in Operators, NEW t \in {"refresh", "cleanup"},
             NEW filter \in Filters, ReadRows(o, t, filter)
      PROVE  TypeOK'
  <2>1. SubmitOK'
    BY <1>21
    DEF TypeOK, SubmitOK, SubmitPcs, RowStates, ActiveStates, ReadRows,
        RowsFor, CleanupEligible
  <2>2. ToolsOK'
    BY <1>21
    DEF TypeOK, ToolsOK, SharedOK, SubmitOK, RowStates, ActiveStates,
        CloudStates, Filters, ReadRows, RowsFor, CleanupEligible
  <2>3. SharedOK'
    BY <1>21
    DEF TypeOK, SharedOK, ToolsOK, SubmitOK, RowStates, ActiveStates,
        CloudStates, ReadRows, RowsFor, CleanupEligible
  <2> QED
    BY <2>1, <2>2, <2>3
    DEF TypeOK
<1>22. ASSUME NEW o \in Operators, NEW i \in Instances, Refresh(o, i)
      PROVE  TypeOK'
  <2>1. SubmitOK'
    BY <1>22
    DEF TypeOK, SubmitOK, SubmitPcs, RowStates, ActiveStates, Refresh, Handle,
        ResourceState
  <2>2. ToolsOK'
    BY <1>22
    DEF TypeOK, ToolsOK, SharedOK, SubmitOK, RowStates, ActiveStates,
        CloudStates, Filters, Refresh, Handle, ResourceState
  <2>3. SharedOK'
    BY <1>22
    DEF TypeOK, SharedOK, ToolsOK, SubmitOK, RowStates, ActiveStates,
        CloudStates, Refresh, Handle, ResourceState
  <2> QED
    BY <2>1, <2>2, <2>3
    DEF TypeOK
<1>23. ASSUME NEW o \in Operators, NEW i \in Instances, Cleanup(o, i)
      PROVE  TypeOK'
  <2>1. SubmitOK'
    BY <1>23
    DEF TypeOK, SubmitOK, SubmitPcs, RowStates, ActiveStates, Cleanup, Handle,
        Terminate, AfterTerminate
  <2>2. ToolsOK'
    BY <1>23
    DEF TypeOK, ToolsOK, SharedOK, SubmitOK, RowStates, ActiveStates,
        CloudStates, Filters, Cleanup, Handle, Terminate, AfterTerminate
  <2>3. SharedOK'
    BY <1>23
    DEF TypeOK, SharedOK, ToolsOK, SubmitOK, RowStates, ActiveStates,
        CloudStates, Cleanup, Handle, Terminate, AfterTerminate
  <2> QED
    BY <2>1, <2>2, <2>3
    DEF TypeOK
<1>24. ASSUME NEW o \in Operators, SaveRow(o)
      PROVE  TypeOK'
  <2>1. SubmitOK'
    BY <1>24
    DEF TypeOK, SubmitOK, SubmitPcs, RowStates, ActiveStates, SaveRow, ShowRow,
        Finish
  <2>2. ToolsOK'
    BY <1>24
    DEF TypeOK, ToolsOK, SharedOK, SubmitOK, RowStates, ActiveStates,
        CloudStates, Filters, SaveRow, ShowRow, Finish
  <2>3. SharedOK'
    BY <1>24
    DEF TypeOK, SharedOK, ToolsOK, SubmitOK, RowStates, ActiveStates,
        CloudStates, SaveRow, ShowRow, Finish
  <2> QED
    BY <2>1, <2>2, <2>3
    DEF TypeOK
<1>25. ASSUME NEW o \in Operators, ToolFails(o)
      PROVE  TypeOK'
  <2>1. SubmitOK'
    BY <1>25
    DEF TypeOK, SubmitOK, SubmitPcs, RowStates, ActiveStates, ToolFails,
        Finish, TerminateFails, AfterTerminate
  <2>2. ToolsOK'
    BY <1>25
    DEF TypeOK, ToolsOK, SharedOK, SubmitOK, RowStates, ActiveStates,
        CloudStates, Filters, ToolFails, Finish, TerminateFails,
        AfterTerminate
  <2>3. SharedOK'
    BY <1>25
    DEF TypeOK, SharedOK, ToolsOK, SubmitOK, RowStates, ActiveStates,
        CloudStates, ToolFails, Finish, TerminateFails, AfterTerminate
  <2> QED
    BY <2>1, <2>2, <2>3
    DEF TypeOK
<1>26. CASE UNCHANGED vars
  BY <1>26
  DEF TypeOK, SubmitOK, ToolsOK, SharedOK, vars, submitVars, dbVars, toolVars
<1> QED
  BY <1>1, <1>2, <1>3, <1>4, <1>5, <1>6, <1>7, <1>8, <1>9, <1>10, <1>11, <1>12,
      <1>13, <1>14, <1>15, <1>16, <1>17, <1>18, <1>19, <1>20, <1>21, <1>22,
      <1>23, <1>24, <1>25, <1>26
  DEF Next, SubmitStep, OperatorStep

\* Rows, locals and the cloud's states keep their types; a row once written
\* stays, and commands handle rows that exist only (resources refresh and
\* cleanup, root.go 1348-1458).
THEOREM TypeCorrect == Spec => []TypeOK
<1>1. Init => TypeOK
  BY InstanceAssumption DEF Init, TypeOK, SubmitOK, ToolsOK, SharedOK,
     SubmitPcs, RowStates, CloudStates
<1> QED
  BY <1>1, TypeStep, PTL DEF Spec

-----------------------------------------------------------------------------
(* A row that says the instance is going away tells the truth *)

Going == {"terminating", "terminated"}

Gone(i) == cloud[i] \notin Running \cup {"none"}

GoingInv ==
  /\ \A i \in Instances :
       /\ pc[i] = "launch" => cloud[i] = "none"
       /\ row[i] \in Going => Gone(i)
       /\ final[i] \in Going => Gone(i)
  /\ \A o \in Operators : \A i \in current[o] : observed[o] \in Going => Gone(i)

\* Every action preserves it.
LEMMA GoingStep == TypeOK /\ GoingInv /\ [Next]_vars => GoingInv'
<1> SUFFICES ASSUME TypeOK, GoingInv PROVE [Next]_vars => GoingInv'
  OBVIOUS
<1> USE DEF submitVars, dbVars, toolVars
<1>1. ASSUME NEW i \in Instances, CloudStep(i)
      PROVE  GoingInv'
    BY <1>1
    DEF TypeOK, SubmitOK, ToolsOK, SharedOK, CloudStates, GoingInv, Gone,
        Going, Running, ActiveStates, Filters, CloudStep
<1>2. ASSUME NEW i \in Instances, CloudFault(i)
      PROVE  GoingInv'
    BY <1>2
    DEF TypeOK, SubmitOK, ToolsOK, SharedOK, CloudStates, GoingInv, Gone,
        Going, Running, ActiveStates, Filters, CloudFault
<1>3. ASSUME NEW i \in Instances, Launch(i)
      PROVE  GoingInv'
    BY <1>3
    DEF TypeOK, SubmitOK, ToolsOK, SharedOK, CloudStates, GoingInv, Gone,
        Going, Running, ActiveStates, Filters, Launch, Goto
<1>4. ASSUME NEW i \in Instances, LaunchFails(i)
      PROVE  GoingInv'
    BY <1>4
    DEF TypeOK, SubmitOK, ToolsOK, SharedOK, CloudStates, GoingInv, Gone,
        Going, Running, ActiveStates, Filters, LaunchFails, Goto
<1>5. ASSUME NEW i \in Instances, NotifyCreated(i)
      PROVE  GoingInv'
    BY <1>5
    DEF TypeOK, SubmitOK, ToolsOK, SharedOK, CloudStates, GoingInv, Gone,
        Going, Running, ActiveStates, Filters, NotifyCreated, Goto, ShowRow
<1>6. ASSUME NEW i \in Instances, OnStarted(i)
      PROVE  GoingInv'
    BY <1>6
    DEF TypeOK, SubmitOK, ToolsOK, SharedOK, CloudStates, GoingInv, Gone,
        Going, Running, ActiveStates, Filters, OnStarted, Goto
<1>7. ASSUME NEW i \in Instances, StartNotRecorded(i)
      PROVE  GoingInv'
    BY <1>7
    DEF TypeOK, SubmitOK, ToolsOK, SharedOK, CloudStates, GoingInv, Gone,
        Going, Running, ActiveStates, Filters, StartNotRecorded, Goto
<1>8. ASSUME NEW i \in Instances, Abort(i)
      PROVE  GoingInv'
    BY <1>8
    DEF TypeOK, SubmitOK, ToolsOK, SharedOK, CloudStates, GoingInv, Gone,
        Going, Running, ActiveStates, Filters, Abort, Goto, Terminate,
        TerminateFails, AfterTerminate
<1>9. ASSUME NEW i \in Instances, WaitForActive(i)
      PROVE  GoingInv'
    BY <1>9
    DEF TypeOK, SubmitOK, ToolsOK, SharedOK, CloudStates, GoingInv, Gone,
        Going, Running, ActiveStates, Filters, WaitForActive, Goto
<1>10. ASSUME NEW i \in Instances, NotifyRunning(i)
      PROVE  GoingInv'
    BY <1>10
    DEF TypeOK, SubmitOK, ToolsOK, SharedOK, CloudStates, GoingInv, Gone,
        Going, Running, ActiveStates, Filters, NotifyRunning, Goto, ShowRow
<1>11. ASSUME NEW i \in Instances, RunningNotRecorded(i)
      PROVE  GoingInv'
    BY <1>11
    DEF TypeOK, SubmitOK, ToolsOK, SharedOK, CloudStates, GoingInv, Gone,
        Going, Running, ActiveStates, Filters, RunningNotRecorded, Goto
<1>12. ASSUME NEW i \in Instances, WaitForReady(i)
      PROVE  GoingInv'
    BY <1>12
    DEF TypeOK, SubmitOK, ToolsOK, SharedOK, CloudStates, GoingInv, Gone,
        Going, Running, ActiveStates, Filters, WaitForReady, Goto
<1>13. ASSUME NEW i \in Instances, JobExits(i)
      PROVE  GoingInv'
    BY <1>13
    DEF TypeOK, SubmitOK, ToolsOK, SharedOK, CloudStates, GoingInv, Gone,
        Going, Running, ActiveStates, Filters, JobExits, Ends, Goto
<1>14. ASSUME NEW i \in Instances, JobFails(i)
      PROVE  GoingInv'
    BY <1>14
    DEF TypeOK, SubmitOK, ToolsOK, SharedOK, CloudStates, GoingInv, Gone,
        Going, Running, ActiveStates, Filters, JobFails, Ends, Goto
<1>15. ASSUME NEW i \in Instances, Settle(i)
      PROVE  GoingInv'
    BY <1>15
    DEF TypeOK, SubmitOK, ToolsOK, SharedOK, CloudStates, GoingInv, Gone,
        Going, Running, ActiveStates, Filters, Settle, Goto, Terminate,
        TerminateFails, AfterTerminate, Settled, JobState, ShouldTerminate
<1>16. ASSUME NEW i \in Instances, NotifyFinal(i)
      PROVE  GoingInv'
    BY <1>16
    DEF TypeOK, SubmitOK, ToolsOK, SharedOK, CloudStates, GoingInv, Gone,
        Going, Running, ActiveStates, Filters, NotifyFinal, Goto, ShowRow
<1>17. ASSUME NEW i \in Instances, FinalNotRecorded(i)
      PROVE  GoingInv'
    BY <1>17
    DEF TypeOK, SubmitOK, ToolsOK, SharedOK, CloudStates, GoingInv, Gone,
        Going, Running, ActiveStates, Filters, FinalNotRecorded, Goto
<1>18. ASSUME NEW i \in Instances, AttemptOver(i)
      PROVE  GoingInv'
    BY <1>18
    DEF TypeOK, SubmitOK, ToolsOK, SharedOK, CloudStates, GoingInv, Gone,
        Going, Running, ActiveStates, Filters, AttemptOver, Goto
<1>19. ASSUME NEW i \in Instances, Crash(i)
      PROVE  GoingInv'
    BY <1>19
    DEF TypeOK, SubmitOK, ToolsOK, SharedOK, CloudStates, GoingInv, Gone,
        Going, Running, ActiveStates, Filters, Crash
<1>20. ASSUME NEW i \in Instances, UserCancel(i)
      PROVE  GoingInv'
    BY <1>20
    DEF TypeOK, SubmitOK, ToolsOK, SharedOK, CloudStates, GoingInv, Gone,
        Going, Running, ActiveStates, Filters, UserCancel, Terminate,
        TerminateFails, AfterTerminate
<1>21. ASSUME NEW o \in Operators, NEW t \in {"refresh", "cleanup"},
             NEW filter \in Filters, ReadRows(o, t, filter)
      PROVE  GoingInv'
    BY <1>21
    DEF TypeOK, SubmitOK, ToolsOK, SharedOK, CloudStates, GoingInv, Gone,
        Going, Running, ActiveStates, Filters, ReadRows, RowsFor,
        CleanupEligible
<1>22. ASSUME NEW o \in Operators, NEW i \in Instances, Refresh(o, i)
      PROVE  GoingInv'
    BY <1>22
    DEF TypeOK, SubmitOK, ToolsOK, SharedOK, CloudStates, GoingInv, Gone,
        Going, Running, ActiveStates, Filters, Refresh, Handle, ResourceState
<1>23. ASSUME NEW o \in Operators, NEW i \in Instances, Cleanup(o, i)
      PROVE  GoingInv'
    BY <1>23
    DEF TypeOK, SubmitOK, ToolsOK, SharedOK, CloudStates, GoingInv, Gone,
        Going, Running, ActiveStates, Filters, Cleanup, Handle, Terminate,
        AfterTerminate
<1>24. ASSUME NEW o \in Operators, SaveRow(o)
      PROVE  GoingInv'
    BY <1>24
    DEF TypeOK, SubmitOK, ToolsOK, SharedOK, CloudStates, GoingInv, Gone,
        Going, Running, ActiveStates, Filters, SaveRow, ShowRow, Finish
<1>25. ASSUME NEW o \in Operators, ToolFails(o)
      PROVE  GoingInv'
    BY <1>25
    DEF TypeOK, SubmitOK, ToolsOK, SharedOK, CloudStates, GoingInv, Gone,
        Going, Running, ActiveStates, Filters, ToolFails, Finish,
        TerminateFails, AfterTerminate
<1>26. CASE UNCHANGED vars
  BY <1>26
  DEF GoingInv, Gone, TypeOK, SubmitOK, ToolsOK, SharedOK, vars, submitVars,
      dbVars, toolVars
<1> QED
  BY <1>1, <1>2, <1>3, <1>4, <1>5, <1>6, <1>7, <1>8, <1>9, <1>10, <1>11, <1>12,
      <1>13, <1>14, <1>15, <1>16, <1>17, <1>18, <1>19, <1>20, <1>21, <1>22,
      <1>23, <1>24, <1>25, <1>26
  DEF Next, SubmitStep, OperatorStep

\* No row says `terminating` or `terminated` of an instance that still runs,
\* whoever wrote it (Submit, refresh, cleanup) and whatever failed.
THEOREM TerminatingRowsAreTrue == Spec => []TerminatingIsTrue
<1>1. Init => GoingInv
  BY DEF Init, GoingInv, Going
<1>2. GoingInv => TerminatingIsTrue
  BY DEF GoingInv, TerminatingIsTrue, Going, Gone
<1> QED
  BY <1>1, <1>2, GoingStep, TypeCorrect, PTL DEF Spec

-----------------------------------------------------------------------------
(* An instance the configuration retains stays *)

EndPcs == {"notifyFinal", "returned", "finished", "crashed"}

\* Submit asks for termination last, when the outcome is known.
SettledAsked ==
  \A i \in Instances :
    /\ outcome[i] # "none" => pc[i] \in EndPcs \cup {"settle"}
    /\ "settle" \in asked[i] => pc[i] \in EndPcs /\ ~Retained(i)

NeverAsked ==
  \A i \in Instances :
    ~config[i].terminate /\ config[i].keep =>
      "settle" \notin asked[i] /\ "cleanup" \notin asked[i]

CleanupAllowed ==
  \A o \in Operators : \A i \in todo[o] :
    tool[o] = "cleanup" => config[i].terminate \/ ~config[i].keep

RetainedInv == SettledAsked /\ NeverAsked /\ CleanupAllowed

\* Every action preserves it.
LEMMA RetainedStep == TypeOK /\ RetainedInv /\ [Next]_vars => RetainedInv'
<1> SUFFICES ASSUME TypeOK, RetainedInv PROVE [Next]_vars => RetainedInv'
  OBVIOUS
<1> USE DEF submitVars, dbVars, toolVars
<1>1. ASSUME NEW i \in Instances, CloudStep(i)
      PROVE  RetainedInv'
  <2>1. SettledAsked'
    BY <1>1, InstanceAssumption
    DEF TypeOK, SubmitOK, ToolsOK, SharedOK, RetainedInv, SettledAsked,
        Retained, EndPcs, Filters, CloudStep
  <2>2. NeverAsked'
    BY <1>1, InstanceAssumption
    DEF TypeOK, SubmitOK, ToolsOK, SharedOK, RetainedInv, NeverAsked,
        CleanupAllowed, Filters, CloudStep
  <2>3. CleanupAllowed'
    BY <1>1, InstanceAssumption
    DEF TypeOK, SubmitOK, ToolsOK, SharedOK, RetainedInv, CleanupAllowed,
        CleanupPolicy, Filters, CloudStep
  <2> QED
    BY <2>1, <2>2, <2>3
    DEF RetainedInv
<1>2. ASSUME NEW i \in Instances, CloudFault(i)
      PROVE  RetainedInv'
  <2>1. SettledAsked'
    BY <1>2, InstanceAssumption
    DEF TypeOK, SubmitOK, ToolsOK, SharedOK, RetainedInv, SettledAsked,
        Retained, EndPcs, Filters, CloudFault
  <2>2. NeverAsked'
    BY <1>2, InstanceAssumption
    DEF TypeOK, SubmitOK, ToolsOK, SharedOK, RetainedInv, NeverAsked,
        CleanupAllowed, Filters, CloudFault
  <2>3. CleanupAllowed'
    BY <1>2, InstanceAssumption
    DEF TypeOK, SubmitOK, ToolsOK, SharedOK, RetainedInv, CleanupAllowed,
        CleanupPolicy, Filters, CloudFault
  <2> QED
    BY <2>1, <2>2, <2>3
    DEF RetainedInv
<1>3. ASSUME NEW i \in Instances, Launch(i)
      PROVE  RetainedInv'
  <2>1. SettledAsked'
    BY <1>3, InstanceAssumption
    DEF TypeOK, SubmitOK, ToolsOK, SharedOK, RetainedInv, SettledAsked,
        Retained, EndPcs, Filters, Launch, Goto
  <2>2. NeverAsked'
    BY <1>3, InstanceAssumption
    DEF TypeOK, SubmitOK, ToolsOK, SharedOK, RetainedInv, NeverAsked,
        CleanupAllowed, Filters, Launch, Goto
  <2>3. CleanupAllowed'
    BY <1>3, InstanceAssumption
    DEF TypeOK, SubmitOK, ToolsOK, SharedOK, RetainedInv, CleanupAllowed,
        CleanupPolicy, Filters, Launch, Goto
  <2> QED
    BY <2>1, <2>2, <2>3
    DEF RetainedInv
<1>4. ASSUME NEW i \in Instances, LaunchFails(i)
      PROVE  RetainedInv'
  <2>1. SettledAsked'
    BY <1>4, InstanceAssumption
    DEF TypeOK, SubmitOK, ToolsOK, SharedOK, RetainedInv, SettledAsked,
        Retained, EndPcs, Filters, LaunchFails, Goto
  <2>2. NeverAsked'
    BY <1>4, InstanceAssumption
    DEF TypeOK, SubmitOK, ToolsOK, SharedOK, RetainedInv, NeverAsked,
        CleanupAllowed, Filters, LaunchFails, Goto
  <2>3. CleanupAllowed'
    BY <1>4, InstanceAssumption
    DEF TypeOK, SubmitOK, ToolsOK, SharedOK, RetainedInv, CleanupAllowed,
        CleanupPolicy, Filters, LaunchFails, Goto
  <2> QED
    BY <2>1, <2>2, <2>3
    DEF RetainedInv
<1>5. ASSUME NEW i \in Instances, NotifyCreated(i)
      PROVE  RetainedInv'
  <2>1. SettledAsked'
    BY <1>5, InstanceAssumption
    DEF TypeOK, SubmitOK, ToolsOK, SharedOK, RetainedInv, SettledAsked,
        Retained, EndPcs, Filters, NotifyCreated, Goto, ShowRow
  <2>2. NeverAsked'
    BY <1>5, InstanceAssumption
    DEF TypeOK, SubmitOK, ToolsOK, SharedOK, RetainedInv, NeverAsked,
        CleanupAllowed, Filters, NotifyCreated, Goto, ShowRow
  <2>3. CleanupAllowed'
    BY <1>5, InstanceAssumption
    DEF TypeOK, SubmitOK, ToolsOK, SharedOK, RetainedInv, CleanupAllowed,
        CleanupPolicy, Filters, NotifyCreated, Goto, ShowRow
  <2> QED
    BY <2>1, <2>2, <2>3
    DEF RetainedInv
<1>6. ASSUME NEW i \in Instances, OnStarted(i)
      PROVE  RetainedInv'
  <2>1. SettledAsked'
    BY <1>6, InstanceAssumption
    DEF TypeOK, SubmitOK, ToolsOK, SharedOK, RetainedInv, SettledAsked,
        Retained, EndPcs, Filters, OnStarted, Goto
  <2>2. NeverAsked'
    BY <1>6, InstanceAssumption
    DEF TypeOK, SubmitOK, ToolsOK, SharedOK, RetainedInv, NeverAsked,
        CleanupAllowed, Filters, OnStarted, Goto
  <2>3. CleanupAllowed'
    BY <1>6, InstanceAssumption
    DEF TypeOK, SubmitOK, ToolsOK, SharedOK, RetainedInv, CleanupAllowed,
        CleanupPolicy, Filters, OnStarted, Goto
  <2> QED
    BY <2>1, <2>2, <2>3
    DEF RetainedInv
<1>7. ASSUME NEW i \in Instances, StartNotRecorded(i)
      PROVE  RetainedInv'
  <2>1. SettledAsked'
    BY ZenonT(30), <1>7, InstanceAssumption
    DEF TypeOK, SubmitOK, ToolsOK, SharedOK, RetainedInv, SettledAsked,
        Retained, EndPcs, Filters, StartNotRecorded, Goto
  <2>2. NeverAsked'
    BY <1>7, InstanceAssumption
    DEF TypeOK, SubmitOK, ToolsOK, SharedOK, RetainedInv, NeverAsked,
        CleanupAllowed, Filters, StartNotRecorded, Goto
  <2>3. CleanupAllowed'
    BY <1>7, InstanceAssumption
    DEF TypeOK, SubmitOK, ToolsOK, SharedOK, RetainedInv, CleanupAllowed,
        CleanupPolicy, Filters, StartNotRecorded, Goto
  <2> QED
    BY <2>1, <2>2, <2>3
    DEF RetainedInv
<1>8. ASSUME NEW i \in Instances, Abort(i)
      PROVE  RetainedInv'
  <2>1. SettledAsked'
    BY <1>8, InstanceAssumption
    DEF TypeOK, SubmitOK, ToolsOK, SharedOK, RetainedInv, SettledAsked,
        Retained, EndPcs, Filters, Abort, Goto, Terminate, TerminateFails,
        AfterTerminate
  <2>2. NeverAsked'
    <3>1. asked' = [asked EXCEPT ![i] = @ \cup {"abort"}]
      BY <1>8
      DEF Abort, Terminate, TerminateFails
    <3>2. config' = config
      BY <1>8
      DEF Abort
    <3> QED
      BY <3>1, <3>2
      DEF TypeOK, SharedOK, RetainedInv, NeverAsked
  <2>3. CleanupAllowed'
    BY <1>8, InstanceAssumption
    DEF TypeOK, SubmitOK, ToolsOK, SharedOK, RetainedInv, CleanupAllowed,
        CleanupPolicy, Filters, Abort, Goto, Terminate, TerminateFails,
        AfterTerminate
  <2> QED
    BY <2>1, <2>2, <2>3
    DEF RetainedInv
<1>9. ASSUME NEW i \in Instances, WaitForActive(i)
      PROVE  RetainedInv'
  <2>1. SettledAsked'
    BY <1>9, InstanceAssumption
    DEF TypeOK, SubmitOK, ToolsOK, SharedOK, RetainedInv, SettledAsked,
        Retained, EndPcs, Filters, WaitForActive, Goto
  <2>2. NeverAsked'
    BY <1>9, InstanceAssumption
    DEF TypeOK, SubmitOK, ToolsOK, SharedOK, RetainedInv, NeverAsked,
        CleanupAllowed, Filters, WaitForActive, Goto
  <2>3. CleanupAllowed'
    BY <1>9, InstanceAssumption
    DEF TypeOK, SubmitOK, ToolsOK, SharedOK, RetainedInv, CleanupAllowed,
        CleanupPolicy, Filters, WaitForActive, Goto
  <2> QED
    BY <2>1, <2>2, <2>3
    DEF RetainedInv
<1>10. ASSUME NEW i \in Instances, NotifyRunning(i)
      PROVE  RetainedInv'
  <2>1. SettledAsked'
    BY <1>10, InstanceAssumption
    DEF TypeOK, SubmitOK, ToolsOK, SharedOK, RetainedInv, SettledAsked,
        Retained, EndPcs, Filters, NotifyRunning, Goto, ShowRow
  <2>2. NeverAsked'
    BY <1>10, InstanceAssumption
    DEF TypeOK, SubmitOK, ToolsOK, SharedOK, RetainedInv, NeverAsked,
        CleanupAllowed, Filters, NotifyRunning, Goto, ShowRow
  <2>3. CleanupAllowed'
    BY <1>10, InstanceAssumption
    DEF TypeOK, SubmitOK, ToolsOK, SharedOK, RetainedInv, CleanupAllowed,
        CleanupPolicy, Filters, NotifyRunning, Goto, ShowRow
  <2> QED
    BY <2>1, <2>2, <2>3
    DEF RetainedInv
<1>11. ASSUME NEW i \in Instances, RunningNotRecorded(i)
      PROVE  RetainedInv'
  <2>1. SettledAsked'
    BY <1>11, InstanceAssumption
    DEF TypeOK, SubmitOK, ToolsOK, SharedOK, RetainedInv, SettledAsked,
        Retained, EndPcs, Filters, RunningNotRecorded, Goto
  <2>2. NeverAsked'
    BY <1>11, InstanceAssumption
    DEF TypeOK, SubmitOK, ToolsOK, SharedOK, RetainedInv, NeverAsked,
        CleanupAllowed, Filters, RunningNotRecorded, Goto
  <2>3. CleanupAllowed'
    BY <1>11, InstanceAssumption
    DEF TypeOK, SubmitOK, ToolsOK, SharedOK, RetainedInv, CleanupAllowed,
        CleanupPolicy, Filters, RunningNotRecorded, Goto
  <2> QED
    BY <2>1, <2>2, <2>3
    DEF RetainedInv
<1>12. ASSUME NEW i \in Instances, WaitForReady(i)
      PROVE  RetainedInv'
  <2>1. SettledAsked'
    BY <1>12, InstanceAssumption
    DEF TypeOK, SubmitOK, ToolsOK, SharedOK, RetainedInv, SettledAsked,
        Retained, EndPcs, Filters, WaitForReady, Goto
  <2>2. NeverAsked'
    BY <1>12, InstanceAssumption
    DEF TypeOK, SubmitOK, ToolsOK, SharedOK, RetainedInv, NeverAsked,
        CleanupAllowed, Filters, WaitForReady, Goto
  <2>3. CleanupAllowed'
    BY <1>12, InstanceAssumption
    DEF TypeOK, SubmitOK, ToolsOK, SharedOK, RetainedInv, CleanupAllowed,
        CleanupPolicy, Filters, WaitForReady, Goto
  <2> QED
    BY <2>1, <2>2, <2>3
    DEF RetainedInv
<1>13. ASSUME NEW i \in Instances, JobExits(i)
      PROVE  RetainedInv'
  <2>1. SettledAsked'
    BY <1>13, InstanceAssumption
    DEF TypeOK, SubmitOK, ToolsOK, SharedOK, RetainedInv, SettledAsked,
        Retained, EndPcs, Filters, JobExits, Ends, Goto
  <2>2. NeverAsked'
    BY <1>13, InstanceAssumption
    DEF TypeOK, SubmitOK, ToolsOK, SharedOK, RetainedInv, NeverAsked,
        CleanupAllowed, Filters, JobExits, Ends, Goto
  <2>3. CleanupAllowed'
    BY <1>13, InstanceAssumption
    DEF TypeOK, SubmitOK, ToolsOK, SharedOK, RetainedInv, CleanupAllowed,
        CleanupPolicy, Filters, JobExits, Ends, Goto
  <2> QED
    BY <2>1, <2>2, <2>3
    DEF RetainedInv
<1>14. ASSUME NEW i \in Instances, JobFails(i)
      PROVE  RetainedInv'
  <2>1. SettledAsked'
    BY <1>14, InstanceAssumption
    DEF TypeOK, SubmitOK, ToolsOK, SharedOK, RetainedInv, SettledAsked,
        Retained, EndPcs, Filters, JobFails, Ends, Goto
  <2>2. NeverAsked'
    BY <1>14, InstanceAssumption
    DEF TypeOK, SubmitOK, ToolsOK, SharedOK, RetainedInv, NeverAsked,
        CleanupAllowed, Filters, JobFails, Ends, Goto
  <2>3. CleanupAllowed'
    BY <1>14, InstanceAssumption
    DEF TypeOK, SubmitOK, ToolsOK, SharedOK, RetainedInv, CleanupAllowed,
        CleanupPolicy, Filters, JobFails, Ends, Goto
  <2> QED
    BY <2>1, <2>2, <2>3
    DEF RetainedInv
<1>15. ASSUME NEW i \in Instances, Settle(i)
      PROVE  RetainedInv'
  <2>1. SettledAsked'
    BY <1>15, InstanceAssumption
    DEF TypeOK, SubmitOK, ToolsOK, SharedOK, RetainedInv, SettledAsked,
        Retained, EndPcs, Filters, Settle, Goto, Terminate, TerminateFails,
        AfterTerminate, Settled, JobState, ShouldTerminate
  <2>2. NeverAsked'
    BY <1>15, InstanceAssumption
    DEF TypeOK, SubmitOK, ToolsOK, SharedOK, RetainedInv, NeverAsked,
        CleanupAllowed, Filters, Settle, Goto, Terminate, TerminateFails,
        AfterTerminate, Settled, JobState, ShouldTerminate
  <2>3. CleanupAllowed'
    BY <1>15, InstanceAssumption
    DEF TypeOK, SubmitOK, ToolsOK, SharedOK, RetainedInv, CleanupAllowed,
        CleanupPolicy, Filters, Settle, Goto, Terminate, TerminateFails,
        AfterTerminate, Settled, JobState, ShouldTerminate
  <2> QED
    BY <2>1, <2>2, <2>3
    DEF RetainedInv
<1>16. ASSUME NEW i \in Instances, NotifyFinal(i)
      PROVE  RetainedInv'
  <2>1. SettledAsked'
    BY <1>16, InstanceAssumption
    DEF TypeOK, SubmitOK, ToolsOK, SharedOK, RetainedInv, SettledAsked,
        Retained, EndPcs, Filters, NotifyFinal, Goto, ShowRow
  <2>2. NeverAsked'
    BY <1>16, InstanceAssumption
    DEF TypeOK, SubmitOK, ToolsOK, SharedOK, RetainedInv, NeverAsked,
        CleanupAllowed, Filters, NotifyFinal, Goto, ShowRow
  <2>3. CleanupAllowed'
    BY <1>16, InstanceAssumption
    DEF TypeOK, SubmitOK, ToolsOK, SharedOK, RetainedInv, CleanupAllowed,
        CleanupPolicy, Filters, NotifyFinal, Goto, ShowRow
  <2> QED
    BY <2>1, <2>2, <2>3
    DEF RetainedInv
<1>17. ASSUME NEW i \in Instances, FinalNotRecorded(i)
      PROVE  RetainedInv'
  <2>1. SettledAsked'
    BY <1>17, InstanceAssumption
    DEF TypeOK, SubmitOK, ToolsOK, SharedOK, RetainedInv, SettledAsked,
        Retained, EndPcs, Filters, FinalNotRecorded, Goto
  <2>2. NeverAsked'
    BY <1>17, InstanceAssumption
    DEF TypeOK, SubmitOK, ToolsOK, SharedOK, RetainedInv, NeverAsked,
        CleanupAllowed, Filters, FinalNotRecorded, Goto
  <2>3. CleanupAllowed'
    BY <1>17, InstanceAssumption
    DEF TypeOK, SubmitOK, ToolsOK, SharedOK, RetainedInv, CleanupAllowed,
        CleanupPolicy, Filters, FinalNotRecorded, Goto
  <2> QED
    BY <2>1, <2>2, <2>3
    DEF RetainedInv
<1>18. ASSUME NEW i \in Instances, AttemptOver(i)
      PROVE  RetainedInv'
  <2>1. SettledAsked'
    BY <1>18, InstanceAssumption
    DEF TypeOK, SubmitOK, ToolsOK, SharedOK, RetainedInv, SettledAsked,
        Retained, EndPcs, Filters, AttemptOver, Goto
  <2>2. NeverAsked'
    BY <1>18, InstanceAssumption
    DEF TypeOK, SubmitOK, ToolsOK, SharedOK, RetainedInv, NeverAsked,
        CleanupAllowed, Filters, AttemptOver, Goto
  <2>3. CleanupAllowed'
    BY <1>18, InstanceAssumption
    DEF TypeOK, SubmitOK, ToolsOK, SharedOK, RetainedInv, CleanupAllowed,
        CleanupPolicy, Filters, AttemptOver, Goto
  <2> QED
    BY <2>1, <2>2, <2>3
    DEF RetainedInv
<1>19. ASSUME NEW i \in Instances, Crash(i)
      PROVE  RetainedInv'
  <2>1. SettledAsked'
    BY <1>19, InstanceAssumption
    DEF TypeOK, SubmitOK, ToolsOK, SharedOK, RetainedInv, SettledAsked,
        Retained, EndPcs, Filters, Crash
  <2>2. NeverAsked'
    BY <1>19, InstanceAssumption
    DEF TypeOK, SubmitOK, ToolsOK, SharedOK, RetainedInv, NeverAsked,
        CleanupAllowed, Filters, Crash
  <2>3. CleanupAllowed'
    BY <1>19, InstanceAssumption
    DEF TypeOK, SubmitOK, ToolsOK, SharedOK, RetainedInv, CleanupAllowed,
        CleanupPolicy, Filters, Crash
  <2> QED
    BY <2>1, <2>2, <2>3
    DEF RetainedInv
<1>20. ASSUME NEW i \in Instances, UserCancel(i)
      PROVE  RetainedInv'
  <2>1. SettledAsked'
    BY SMTT(30), <1>20, InstanceAssumption
    DEF TypeOK, SubmitOK, ToolsOK, SharedOK, RetainedInv, SettledAsked,
        Retained, EndPcs, Filters, UserCancel, Terminate, TerminateFails,
        AfterTerminate
  <2>2. NeverAsked'
    <3>1. asked' = [asked EXCEPT ![i] = @ \cup {"cancel"}]
      BY <1>20
      DEF UserCancel, Terminate, TerminateFails
    <3>2. config' = config
      BY <1>20
      DEF UserCancel
    <3> QED
      BY <3>1, <3>2
      DEF TypeOK, SharedOK, RetainedInv, NeverAsked
  <2>3. CleanupAllowed'
    BY <1>20, InstanceAssumption
    DEF TypeOK, SubmitOK, ToolsOK, SharedOK, RetainedInv, CleanupAllowed,
        CleanupPolicy, Filters, UserCancel, Terminate, TerminateFails,
        AfterTerminate
  <2> QED
    BY <2>1, <2>2, <2>3
    DEF RetainedInv
<1>21. ASSUME NEW o \in Operators, NEW t \in {"refresh", "cleanup"},
             NEW filter \in Filters, ReadRows(o, t, filter)
      PROVE  RetainedInv'
  <2>1. SettledAsked'
    BY <1>21, InstanceAssumption
    DEF TypeOK, SubmitOK, ToolsOK, SharedOK, RetainedInv, SettledAsked,
        Retained, EndPcs, Filters, ReadRows, RowsFor, CleanupEligible
  <2>2. NeverAsked'
    BY <1>21, InstanceAssumption
    DEF TypeOK, SubmitOK, ToolsOK, SharedOK, RetainedInv, NeverAsked,
        CleanupAllowed, Filters, ReadRows, RowsFor, CleanupEligible
  <2>3. CleanupAllowed'
    BY <1>21, InstanceAssumption
    DEF TypeOK, SubmitOK, ToolsOK, SharedOK, RetainedInv, CleanupAllowed,
        CleanupPolicy, Filters, ReadRows, RowsFor, CleanupEligible
  <2> QED
    BY <2>1, <2>2, <2>3
    DEF RetainedInv
<1>22. ASSUME NEW o \in Operators, NEW i \in Instances, Refresh(o, i)
      PROVE  RetainedInv'
  <2>1. SettledAsked'
    BY <1>22, InstanceAssumption
    DEF TypeOK, SubmitOK, ToolsOK, SharedOK, RetainedInv, SettledAsked,
        Retained, EndPcs, Filters, Refresh, Handle, ResourceState
  <2>2. NeverAsked'
    BY <1>22, InstanceAssumption
    DEF TypeOK, SubmitOK, ToolsOK, SharedOK, RetainedInv, NeverAsked,
        CleanupAllowed, Filters, Refresh, Handle, ResourceState
  <2>3. CleanupAllowed'
    BY <1>22, InstanceAssumption
    DEF TypeOK, SubmitOK, ToolsOK, SharedOK, RetainedInv, CleanupAllowed,
        CleanupPolicy, Filters, Refresh, Handle, ResourceState
  <2> QED
    BY <2>1, <2>2, <2>3
    DEF RetainedInv
<1>23. ASSUME NEW o \in Operators, NEW i \in Instances, Cleanup(o, i)
      PROVE  RetainedInv'
  <2>1. SettledAsked'
    BY <1>23, InstanceAssumption
    DEF TypeOK, SubmitOK, ToolsOK, SharedOK, RetainedInv, SettledAsked,
        Retained, EndPcs, Filters, Cleanup, Handle, Terminate, AfterTerminate
  <2>2. NeverAsked'
    BY <1>23, InstanceAssumption
    DEF TypeOK, SubmitOK, ToolsOK, SharedOK, RetainedInv, NeverAsked,
        CleanupAllowed, Filters, Cleanup, Handle, Terminate, AfterTerminate
  <2>3. CleanupAllowed'
    BY <1>23, InstanceAssumption
    DEF TypeOK, SubmitOK, ToolsOK, SharedOK, RetainedInv, CleanupAllowed,
        CleanupPolicy, Filters, Cleanup, Handle, Terminate, AfterTerminate
  <2> QED
    BY <2>1, <2>2, <2>3
    DEF RetainedInv
<1>24. ASSUME NEW o \in Operators, SaveRow(o)
      PROVE  RetainedInv'
  <2>1. SettledAsked'
    BY <1>24, InstanceAssumption
    DEF TypeOK, SubmitOK, ToolsOK, SharedOK, RetainedInv, SettledAsked,
        Retained, EndPcs, Filters, SaveRow, ShowRow, Finish
  <2>2. NeverAsked'
    BY <1>24, InstanceAssumption
    DEF TypeOK, SubmitOK, ToolsOK, SharedOK, RetainedInv, NeverAsked,
        CleanupAllowed, Filters, SaveRow, ShowRow, Finish
  <2>3. CleanupAllowed'
    BY <1>24, InstanceAssumption
    DEF TypeOK, SubmitOK, ToolsOK, SharedOK, RetainedInv, CleanupAllowed,
        CleanupPolicy, Filters, SaveRow, ShowRow, Finish
  <2> QED
    BY <2>1, <2>2, <2>3
    DEF RetainedInv
<1>25. ASSUME NEW o \in Operators, ToolFails(o)
      PROVE  RetainedInv'
  <2>1. SettledAsked'
    BY <1>25, InstanceAssumption
    DEF TypeOK, SubmitOK, ToolsOK, SharedOK, RetainedInv, SettledAsked,
        Retained, EndPcs, Filters, ToolFails, Finish, TerminateFails,
        AfterTerminate
  <2>2. NeverAsked'
    BY <1>25, InstanceAssumption
    DEF TypeOK, SubmitOK, ToolsOK, SharedOK, RetainedInv, NeverAsked,
        CleanupAllowed, Filters, ToolFails, Finish, TerminateFails,
        AfterTerminate
  <2>3. CleanupAllowed'
    BY <1>25, InstanceAssumption
    DEF TypeOK, SubmitOK, ToolsOK, SharedOK, RetainedInv, CleanupAllowed,
        CleanupPolicy, Filters, ToolFails, Finish, TerminateFails,
        AfterTerminate
  <2> QED
    BY <2>1, <2>2, <2>3
    DEF RetainedInv
<1>26. CASE UNCHANGED vars
  BY <1>26
  DEF RetainedInv, SettledAsked, NeverAsked, CleanupAllowed, Retained, TypeOK,
      vars, submitVars, dbVars, toolVars
<1> QED
  BY <1>1, <1>2, <1>3, <1>4, <1>5, <1>6, <1>7, <1>8, <1>9, <1>10, <1>11, <1>12,
      <1>13, <1>14, <1>15, <1>16, <1>17, <1>18, <1>19, <1>20, <1>21, <1>22,
      <1>23, <1>24, <1>25, <1>26
  DEF Next, SubmitStep, OperatorStep

\* shouldTerminate and the cleanup policy agree with the configuration: what
\* it retains is terminated neither by Submit nor, if it is retained whatever
\* the outcome, by cleanup.
THEOREM RetainedInstancesStay == Spec => []RetainedStays
<1>1. Init => RetainedInv
  BY DEF Init, RetainedInv, SettledAsked, NeverAsked, CleanupAllowed, Retained
<1>2. RetainedInv => RetainedStays
  BY DEF RetainedInv, SettledAsked, NeverAsked, RetainedStays
<1> QED
  BY <1>1, <1>2, RetainedStep, TypeCorrect, PTL DEF Spec

-----------------------------------------------------------------------------
(* An instance that outlives its Submit call is listed *)

\* What Submit owes: an instance it leaves running has an active row, or is
\* one to retain; before the row is written nobody but Submit knows it.
SubmitLists ==
  \A i \in Instances :
    /\ pc[i] = "launch" => cloud[i] = "none"
    /\ outcome[i] # "none" => pc[i] \in EndPcs \cup {"settle"}
    /\ pc[i] = "settle" => outcome[i] # "none"
    /\ pc[i] = "notifyFinal" => Retained(i) \/ cloud[i] \notin Running
    /\ cloud[i] \in Running =>
         \/ Retained(i)
         \/ row[i] \in ActiveStates
         \/ row[i] = "none" /\ pc[i] \in {"created", "abort", "crashed"}

\* What a command owes: it stores an active state for a running instance.
ToolsList ==
  \A o \in Operators : \A i \in current[o] :
    cloud[i] \in Running => observed[o] \in ActiveStates

ListedInv == SubmitLists /\ ToolsList

\* Every action preserves it, when launch and terminate requests do not fail.
LEMMA ListedStep ==
  ASSUME Faults \cap {"launch", "terminate"} = {}
  PROVE  TypeOK /\ ListedInv /\ [Next]_vars => ListedInv'
<1> SUFFICES ASSUME TypeOK, ListedInv PROVE [Next]_vars => ListedInv'
  OBVIOUS
<1> USE DEF submitVars, dbVars, toolVars
<1>1. ASSUME NEW i \in Instances, CloudStep(i)
      PROVE  ListedInv'
  <2>1. SubmitLists'
    BY <1>1
    DEF TypeOK, SubmitOK, ToolsOK, SharedOK, CloudStates, ListedInv, Running,
        ActiveStates, SubmitLists, ToolsList, Retained, EndPcs, Filters,
        CloudStep
  <2>2. ToolsList'
    BY <1>1
    DEF TypeOK, SubmitOK, ToolsOK, SharedOK, CloudStates, ListedInv, Running,
        ActiveStates, SubmitLists, ToolsList, Filters, CloudStep
  <2> QED
    BY <2>1, <2>2
    DEF ListedInv
<1>2. ASSUME NEW i \in Instances, CloudFault(i)
      PROVE  ListedInv'
  <2>1. SubmitLists'
    BY <1>2
    DEF TypeOK, SubmitOK, ToolsOK, SharedOK, CloudStates, ListedInv, Running,
        ActiveStates, SubmitLists, ToolsList, Retained, EndPcs, Filters,
        CloudFault
  <2>2. ToolsList'
    BY <1>2
    DEF TypeOK, SubmitOK, ToolsOK, SharedOK, CloudStates, ListedInv, Running,
        ActiveStates, SubmitLists, ToolsList, Filters, CloudFault
  <2> QED
    BY <2>1, <2>2
    DEF ListedInv
<1>3. ASSUME NEW i \in Instances, Launch(i)
      PROVE  ListedInv'
  <2>1. SubmitLists'
    BY <1>3
    DEF TypeOK, SubmitOK, ToolsOK, SharedOK, CloudStates, ListedInv, Running,
        ActiveStates, SubmitLists, ToolsList, Retained, EndPcs, Filters,
        Launch, Goto
  <2>2. ToolsList'
    BY <1>3
    DEF TypeOK, SubmitOK, ToolsOK, SharedOK, CloudStates, ListedInv, Running,
        ActiveStates, SubmitLists, ToolsList, Filters, Launch, Goto
  <2> QED
    BY <2>1, <2>2
    DEF ListedInv
<1>4. ASSUME NEW i \in Instances, LaunchFails(i)
      PROVE  ListedInv'
  <2>1. SubmitLists'
    BY <1>4
    DEF TypeOK, SubmitOK, ToolsOK, SharedOK, CloudStates, ListedInv, Running,
        ActiveStates, SubmitLists, ToolsList, Retained, EndPcs, Filters,
        LaunchFails, Goto
  <2>2. ToolsList'
    BY <1>4
    DEF TypeOK, SubmitOK, ToolsOK, SharedOK, CloudStates, ListedInv, Running,
        ActiveStates, SubmitLists, ToolsList, Filters, LaunchFails, Goto
  <2> QED
    BY <2>1, <2>2
    DEF ListedInv
<1>5. ASSUME NEW i \in Instances, NotifyCreated(i)
      PROVE  ListedInv'
  <2>1. SubmitLists'
    BY <1>5
    DEF TypeOK, SubmitOK, ToolsOK, SharedOK, CloudStates, ListedInv, Running,
        ActiveStates, SubmitLists, ToolsList, Retained, EndPcs, Filters,
        NotifyCreated, Goto, ShowRow
  <2>2. ToolsList'
    BY <1>5
    DEF TypeOK, SubmitOK, ToolsOK, SharedOK, CloudStates, ListedInv, Running,
        ActiveStates, SubmitLists, ToolsList, Filters, NotifyCreated, Goto,
        ShowRow
  <2> QED
    BY <2>1, <2>2
    DEF ListedInv
<1>6. ASSUME NEW i \in Instances, OnStarted(i)
      PROVE  ListedInv'
  <2>1. SubmitLists'
    BY <1>6
    DEF TypeOK, SubmitOK, ToolsOK, SharedOK, CloudStates, ListedInv, Running,
        ActiveStates, SubmitLists, ToolsList, Retained, EndPcs, Filters,
        OnStarted, Goto
  <2>2. ToolsList'
    BY <1>6
    DEF TypeOK, SubmitOK, ToolsOK, SharedOK, CloudStates, ListedInv, Running,
        ActiveStates, SubmitLists, ToolsList, Filters, OnStarted, Goto
  <2> QED
    BY <2>1, <2>2
    DEF ListedInv
<1>7. ASSUME NEW i \in Instances, StartNotRecorded(i)
      PROVE  ListedInv'
  <2>1. SubmitLists'
    BY <1>7
    DEF TypeOK, SubmitOK, ToolsOK, SharedOK, CloudStates, ListedInv, Running,
        ActiveStates, SubmitLists, ToolsList, Retained, EndPcs, Filters,
        StartNotRecorded, Goto
  <2>2. ToolsList'
    BY <1>7
    DEF TypeOK, SubmitOK, ToolsOK, SharedOK, CloudStates, ListedInv, Running,
        ActiveStates, SubmitLists, ToolsList, Filters, StartNotRecorded, Goto
  <2> QED
    BY <2>1, <2>2
    DEF ListedInv
<1>8. ASSUME NEW i \in Instances, Abort(i)
      PROVE  ListedInv'
  <2>1. SubmitLists'
    BY <1>8
    DEF TypeOK, SubmitOK, ToolsOK, SharedOK, CloudStates, ListedInv, Running,
        ActiveStates, SubmitLists, ToolsList, Retained, EndPcs, Filters, Abort,
        Goto, Terminate, TerminateFails, AfterTerminate
  <2>2. ToolsList'
    BY <1>8
    DEF TypeOK, SubmitOK, ToolsOK, SharedOK, CloudStates, ListedInv, Running,
        ActiveStates, SubmitLists, ToolsList, Filters, Abort, Goto, Terminate,
        TerminateFails, AfterTerminate
  <2> QED
    BY <2>1, <2>2
    DEF ListedInv
<1>9. ASSUME NEW i \in Instances, WaitForActive(i)
      PROVE  ListedInv'
  <2>1. SubmitLists'
    BY <1>9
    DEF TypeOK, SubmitOK, ToolsOK, SharedOK, CloudStates, ListedInv, Running,
        ActiveStates, SubmitLists, ToolsList, Retained, EndPcs, Filters,
        WaitForActive, Goto
  <2>2. ToolsList'
    BY <1>9
    DEF TypeOK, SubmitOK, ToolsOK, SharedOK, CloudStates, ListedInv, Running,
        ActiveStates, SubmitLists, ToolsList, Filters, WaitForActive, Goto
  <2> QED
    BY <2>1, <2>2
    DEF ListedInv
<1>10. ASSUME NEW i \in Instances, NotifyRunning(i)
      PROVE  ListedInv'
  <2>1. SubmitLists'
    BY <1>10
    DEF TypeOK, SubmitOK, ToolsOK, SharedOK, CloudStates, ListedInv, Running,
        ActiveStates, SubmitLists, ToolsList, Retained, EndPcs, Filters,
        NotifyRunning, Goto, ShowRow
  <2>2. ToolsList'
    BY <1>10
    DEF TypeOK, SubmitOK, ToolsOK, SharedOK, CloudStates, ListedInv, Running,
        ActiveStates, SubmitLists, ToolsList, Filters, NotifyRunning, Goto,
        ShowRow
  <2> QED
    BY <2>1, <2>2
    DEF ListedInv
<1>11. ASSUME NEW i \in Instances, RunningNotRecorded(i)
      PROVE  ListedInv'
  <2>1. SubmitLists'
    BY <1>11
    DEF TypeOK, SubmitOK, ToolsOK, SharedOK, CloudStates, ListedInv, Running,
        ActiveStates, SubmitLists, ToolsList, Retained, EndPcs, Filters,
        RunningNotRecorded, Goto
  <2>2. ToolsList'
    BY <1>11
    DEF TypeOK, SubmitOK, ToolsOK, SharedOK, CloudStates, ListedInv, Running,
        ActiveStates, SubmitLists, ToolsList, Filters, RunningNotRecorded,
        Goto
  <2> QED
    BY <2>1, <2>2
    DEF ListedInv
<1>12. ASSUME NEW i \in Instances, WaitForReady(i)
      PROVE  ListedInv'
  <2>1. SubmitLists'
    BY <1>12
    DEF TypeOK, SubmitOK, ToolsOK, SharedOK, CloudStates, ListedInv, Running,
        ActiveStates, SubmitLists, ToolsList, Retained, EndPcs, Filters,
        WaitForReady, Goto
  <2>2. ToolsList'
    BY <1>12
    DEF TypeOK, SubmitOK, ToolsOK, SharedOK, CloudStates, ListedInv, Running,
        ActiveStates, SubmitLists, ToolsList, Filters, WaitForReady, Goto
  <2> QED
    BY <2>1, <2>2
    DEF ListedInv
<1>13. ASSUME NEW i \in Instances, JobExits(i)
      PROVE  ListedInv'
  <2>1. SubmitLists'
    BY <1>13
    DEF TypeOK, SubmitOK, ToolsOK, SharedOK, CloudStates, ListedInv, Running,
        ActiveStates, SubmitLists, ToolsList, Retained, EndPcs, Filters,
        JobExits, Ends, Goto
  <2>2. ToolsList'
    BY <1>13
    DEF TypeOK, SubmitOK, ToolsOK, SharedOK, CloudStates, ListedInv, Running,
        ActiveStates, SubmitLists, ToolsList, Filters, JobExits, Ends, Goto
  <2> QED
    BY <2>1, <2>2
    DEF ListedInv
<1>14. ASSUME NEW i \in Instances, JobFails(i)
      PROVE  ListedInv'
  <2>1. SubmitLists'
    BY <1>14
    DEF TypeOK, SubmitOK, ToolsOK, SharedOK, CloudStates, ListedInv, Running,
        ActiveStates, SubmitLists, ToolsList, Retained, EndPcs, Filters,
        JobFails, Ends, Goto
  <2>2. ToolsList'
    BY <1>14
    DEF TypeOK, SubmitOK, ToolsOK, SharedOK, CloudStates, ListedInv, Running,
        ActiveStates, SubmitLists, ToolsList, Filters, JobFails, Ends, Goto
  <2> QED
    BY <2>1, <2>2
    DEF ListedInv
<1>15. ASSUME NEW i \in Instances, Settle(i)
      PROVE  ListedInv'
  <2>1. SubmitLists'
    <3>1. CASE ShouldTerminate(i)
      <4>1. Terminate(i, "settle")
        BY <1>15, <3>1
        DEF Settle, TerminateFails
      <4>2. \A j \in Instances : cloud'[j] \in Running => j # i /\ cloud[j] \in Running
        BY <4>1
        DEF Terminate, AfterTerminate, Running, TypeOK, SharedOK, CloudStates
      <4>3. UNCHANGED <<outcome, row, config>> /\ Goto(i, "settle", "notifyFinal")
        BY <1>15
        DEF Settle
      <4>4. \A j \in Instances : pc'[j] = "launch" => cloud'[j] = "none"
        BY <4>1, <4>3
        DEF Terminate, AfterTerminate, Goto, Running, TypeOK, SubmitOK,
            ToolsOK, SharedOK, ListedInv, SubmitLists
      <4> QED
        BY <4>2, <4>3, <4>4
        DEF Goto, TypeOK, SubmitOK, SharedOK, ListedInv, SubmitLists, Retained,
            EndPcs
    <3>2. CASE ~ShouldTerminate(i)
      <4>1. Retained(i)
        BY <3>2, <1>15
        DEF TypeOK, SubmitOK, Settle, Goto, ShouldTerminate, Retained,
            ListedInv, SubmitLists
      <4>2. UNCHANGED <<outcome, row, config, cloud>> /\ Goto(i, "settle", "notifyFinal")
        BY <1>15, <3>2
        DEF Settle
      <4> QED
        BY <4>1, <4>2
        DEF Goto, TypeOK, SubmitOK, SharedOK, ListedInv, SubmitLists, Retained,
            EndPcs
    <3> QED
      BY <3>1, <3>2
  <2>2. ToolsList'
    BY <1>15
    DEF TypeOK, SubmitOK, ToolsOK, SharedOK, CloudStates, ListedInv, Running,
        ActiveStates, SubmitLists, ToolsList, Filters, Settle, Goto, Terminate,
        TerminateFails, AfterTerminate, Settled, JobState, ShouldTerminate
  <2> QED
    BY <2>1, <2>2
    DEF ListedInv
<1>16. ASSUME NEW i \in Instances, NotifyFinal(i)
      PROVE  ListedInv'
  <2>1. SubmitLists'
    BY <1>16
    DEF TypeOK, SubmitOK, ToolsOK, SharedOK, CloudStates, ListedInv, Running,
        ActiveStates, SubmitLists, ToolsList, Retained, EndPcs, Filters,
        NotifyFinal, Goto, ShowRow
  <2>2. ToolsList'
    BY <1>16
    DEF TypeOK, SubmitOK, ToolsOK, SharedOK, CloudStates, ListedInv, Running,
        ActiveStates, SubmitLists, ToolsList, Filters, NotifyFinal, Goto,
        ShowRow
  <2> QED
    BY <2>1, <2>2
    DEF ListedInv
<1>17. ASSUME NEW i \in Instances, FinalNotRecorded(i)
      PROVE  ListedInv'
  <2>1. SubmitLists'
    BY <1>17
    DEF TypeOK, SubmitOK, ToolsOK, SharedOK, CloudStates, ListedInv, Running,
        ActiveStates, SubmitLists, ToolsList, Retained, EndPcs, Filters,
        FinalNotRecorded, Goto
  <2>2. ToolsList'
    BY <1>17
    DEF TypeOK, SubmitOK, ToolsOK, SharedOK, CloudStates, ListedInv, Running,
        ActiveStates, SubmitLists, ToolsList, Filters, FinalNotRecorded, Goto
  <2> QED
    BY <2>1, <2>2
    DEF ListedInv
<1>18. ASSUME NEW i \in Instances, AttemptOver(i)
      PROVE  ListedInv'
  <2>1. SubmitLists'
    BY <1>18
    DEF TypeOK, SubmitOK, ToolsOK, SharedOK, CloudStates, ListedInv, Running,
        ActiveStates, SubmitLists, ToolsList, Retained, EndPcs, Filters,
        AttemptOver, Goto
  <2>2. ToolsList'
    BY <1>18
    DEF TypeOK, SubmitOK, ToolsOK, SharedOK, CloudStates, ListedInv, Running,
        ActiveStates, SubmitLists, ToolsList, Filters, AttemptOver, Goto
  <2> QED
    BY <2>1, <2>2
    DEF ListedInv
<1>19. ASSUME NEW i \in Instances, Crash(i)
      PROVE  ListedInv'
  <2>1. SubmitLists'
    BY <1>19
    DEF TypeOK, SubmitOK, ToolsOK, SharedOK, CloudStates, ListedInv, Running,
        ActiveStates, SubmitLists, ToolsList, Retained, EndPcs, Filters, Crash
  <2>2. ToolsList'
    BY <1>19
    DEF TypeOK, SubmitOK, ToolsOK, SharedOK, CloudStates, ListedInv, Running,
        ActiveStates, SubmitLists, ToolsList, Filters, Crash
  <2> QED
    BY <2>1, <2>2
    DEF ListedInv
<1>20. ASSUME NEW i \in Instances, UserCancel(i)
      PROVE  ListedInv'
  <2>1. SubmitLists'
    BY <1>20
    DEF TypeOK, SubmitOK, ToolsOK, SharedOK, CloudStates, ListedInv, Running,
        ActiveStates, SubmitLists, ToolsList, Retained, EndPcs, Filters,
        UserCancel, Terminate, TerminateFails, AfterTerminate
  <2>2. ToolsList'
    BY <1>20
    DEF TypeOK, SubmitOK, ToolsOK, SharedOK, CloudStates, ListedInv, Running,
        ActiveStates, SubmitLists, ToolsList, Filters, UserCancel, Terminate,
        TerminateFails, AfterTerminate
  <2> QED
    BY <2>1, <2>2
    DEF ListedInv
<1>21. ASSUME NEW o \in Operators, NEW t \in {"refresh", "cleanup"},
             NEW filter \in Filters, ReadRows(o, t, filter)
      PROVE  ListedInv'
  <2>1. SubmitLists'
    BY <1>21
    DEF TypeOK, SubmitOK, ToolsOK, SharedOK, CloudStates, ListedInv, Running,
        ActiveStates, SubmitLists, ToolsList, Retained, EndPcs, Filters,
        ReadRows, RowsFor, CleanupEligible
  <2>2. ToolsList'
    BY <1>21
    DEF TypeOK, SubmitOK, ToolsOK, SharedOK, CloudStates, ListedInv, Running,
        ActiveStates, SubmitLists, ToolsList, Filters, ReadRows, RowsFor,
        CleanupEligible
  <2> QED
    BY <2>1, <2>2
    DEF ListedInv
<1>22. ASSUME NEW o \in Operators, NEW i \in Instances, Refresh(o, i)
      PROVE  ListedInv'
  <2>1. SubmitLists'
    BY <1>22
    DEF TypeOK, SubmitOK, ToolsOK, SharedOK, CloudStates, ListedInv, Running,
        ActiveStates, SubmitLists, ToolsList, Retained, EndPcs, Filters,
        Refresh, Handle, ResourceState
  <2>2. ToolsList'
    BY <1>22
    DEF TypeOK, SubmitOK, ToolsOK, SharedOK, CloudStates, ListedInv, Running,
        ActiveStates, SubmitLists, ToolsList, Filters, Refresh, Handle,
        ResourceState
  <2> QED
    BY <2>1, <2>2
    DEF ListedInv
<1>23. ASSUME NEW o \in Operators, NEW i \in Instances, Cleanup(o, i)
      PROVE  ListedInv'
  <2>1. SubmitLists'
    BY <1>23
    DEF TypeOK, SubmitOK, ToolsOK, SharedOK, CloudStates, ListedInv, Running,
        ActiveStates, SubmitLists, ToolsList, Retained, EndPcs, Filters,
        Cleanup, Handle, Terminate, AfterTerminate
  <2>2. ToolsList'
    BY <1>23
    DEF TypeOK, SubmitOK, ToolsOK, SharedOK, CloudStates, ListedInv, Running,
        ActiveStates, SubmitLists, ToolsList, Filters, Cleanup, Handle,
        Terminate, AfterTerminate
  <2> QED
    BY <2>1, <2>2
    DEF ListedInv
<1>24. ASSUME NEW o \in Operators, SaveRow(o)
      PROVE  ListedInv'
  <2>1. SubmitLists'
    BY <1>24
    DEF TypeOK, SubmitOK, ToolsOK, SharedOK, CloudStates, ListedInv, Running,
        ActiveStates, SubmitLists, ToolsList, Retained, EndPcs, Filters,
        SaveRow, ShowRow, Finish
  <2>2. ToolsList'
    BY <1>24
    DEF TypeOK, SubmitOK, ToolsOK, SharedOK, CloudStates, ListedInv, Running,
        ActiveStates, SubmitLists, ToolsList, Filters, SaveRow, ShowRow,
        Finish
  <2> QED
    BY <2>1, <2>2
    DEF ListedInv
<1>25. ASSUME NEW o \in Operators, ToolFails(o)
      PROVE  ListedInv'
  <2>1. SubmitLists'
    BY <1>25
    DEF TypeOK, SubmitOK, ToolsOK, SharedOK, CloudStates, ListedInv, Running,
        ActiveStates, SubmitLists, ToolsList, Retained, EndPcs, Filters,
        ToolFails, Finish, TerminateFails, AfterTerminate
  <2>2. ToolsList'
    BY <1>25
    DEF TypeOK, SubmitOK, ToolsOK, SharedOK, CloudStates, ListedInv, Running,
        ActiveStates, SubmitLists, ToolsList, Filters, ToolFails, Finish,
        TerminateFails, AfterTerminate
  <2> QED
    BY <2>1, <2>2
    DEF ListedInv
<1>26. CASE UNCHANGED vars
  BY <1>26
  DEF ListedInv, SubmitLists, ToolsList, Retained, TypeOK, vars, submitVars,
      dbVars, toolVars
<1> QED
  BY <1>1, <1>2, <1>3, <1>4, <1>5, <1>6, <1>7, <1>8, <1>9, <1>10, <1>11, <1>12,
      <1>13, <1>14, <1>15, <1>16, <1>17, <1>18, <1>19, <1>20, <1>21, <1>22,
      <1>23, <1>24, <1>25, <1>26
  DEF Next, SubmitStep, OperatorStep

\* Where launch and terminate requests do not fail, an instance that outlives
\* its Submit call and that the configuration does not retain has an active
\* row, so that `resources list --active` and `resources cleanup` see it; the
\* exception is a train process that died before it wrote the row.
THEOREM SurvivorsAreListed ==
  ASSUME Faults \cap {"launch", "terminate"} = {}
  PROVE  Spec => []SurvivorIsListed
<1>1. Init => ListedInv
  BY DEF Init, ListedInv, SubmitLists, ToolsList, Running
<1>2. ListedInv => SurvivorIsListed
  BY DEF ListedInv, SubmitLists, SurvivorIsListed, Over
<1>3. TypeOK /\ ListedInv /\ [Next]_vars => ListedInv'
  BY ListedStep
<1> QED
  BY <1>1, <1>2, <1>3, TypeCorrect, PTL DEF Spec

=============================================================================
