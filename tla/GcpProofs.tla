------------------------------ MODULE GcpProofs ------------------------------
(***************************************************************************)
(* Proofs about GcpJob, for any number of attempts and log entries and any *)
(* faults: what the rows say of the jobs, which jobs are left behind, and  *)
(* what of their log entries arrives in the log.                           *)
(***************************************************************************)
EXTENDS GcpJob, FiniteSetTheorems, TLAPS

Touched == <<job, tableVars, pc, result, faulted, canceler, tool>>

\* What only concerns the log leaves the states alone.
LEMMA QuietSteps ==
  ASSUME NEW a \in Attempts, NEW b,
         JobWrites(a, b) \/ Arrives(a, b)
  PROVE  UNCHANGED Touched
BY DEF JobWrites, Arrives, Touched, tableVars, submitVars

-----------------------------------------------------------------------------
(* Types *)

\* The first state has the types.
LEMMA StatesInit == Init => StatesOK
BY GcpAssumption DEF Init, StatesOK, Each, Attempts, JobStates, RowStates, Returned, Idle, None

\* A job's state has a counterpart in its row.
LEMMA StatusType == \A j \in JobStates : Status(j) \in RowStates
BY DEF JobStates, RowStates, Live, Final, Status

\* Every step keeps the types.
LEMMA StatesStep == StatesOK /\ [Next]_vars => StatesOK'
<1> SUFFICES ASSUME StatesOK, [Next]_vars PROVE StatesOK'
  OBVIOUS
<1> USE GcpAssumption DEF StatesOK, JobStates, RowStates, Returned, tableVars, submitVars, cloudVars
<1>1. ASSUME UNCHANGED Touched PROVE StatesOK'
  BY <1>1 DEF Touched
<1>2. ASSUME NEW a \in Attempts, CloudStep(a) \/ Start(a) \/ SubmitStep(a) \/ Crash(a) \/ CancelStep(a) \/ RefreshStep(a)
      PROVE  StatesOK'
  <2>1. CASE JobEnds(a)
    BY <2>1 DEF JobEnds, Final
  <2>2. CASE Start(a)
    BY <2>2 DEF Start, Goto
  <2>3. CASE Create(a)
    BY <2>3 DEF Create, Goto, Live
  <2>4. CASE CreateFails(a)
    BY <2>4 DEF CreateFails, Meets, Returns, Goto, Live, AllFaults
  <2>5. CASE OnResourceCreated(a)
    BY <2>5 DEF OnResourceCreated, Goto
  <2>6. CASE OnStarted(a)
    BY <2>6 DEF OnStarted, Goto
  <2>7. CASE NotRecorded(a)
    BY <2>7 DEF NotRecorded, Meets, Returns, Goto, Asked, CanFail, Live, AllFaults
  <2>8. CASE Drain(a)
    BY <2>8 DEF Drain, Goto
  <2>9. CASE DrainFails(a)
    BY <2>9 DEF DrainFails, Goto, AllFaults
  <2>10. CASE SeesSuccess(a)
    BY <2>10 DEF SeesSuccess, Goto
  <2>11. CASE SeesFailure(a)
    BY <2>11 DEF SeesFailure, Known
  <2>12. CASE GoesRound(a)
    BY <2>12 DEF GoesRound, Known, Goto
  <2>13. CASE PollFails(a)
    BY <2>13 DEF PollFails, Meets, Returns, Goto, AllFaults
  <2>14. CASE OnResourceUpdated(a)
    BY <2>14 DEF OnResourceUpdated, Goto
  <2>15. CASE UpdateFails(a)
    BY <2>15 DEF UpdateFails, Meets, Returns, Goto, AllFaults
  <2>16. CASE Check(a)
    BY <2>16 DEF Check, Goto
  <2>17. CASE FinishAttempt(a)
    BY <2>17 DEF FinishAttempt, Outcome, Goto
  <2>18. CASE FinishRun(a)
    BY <2>18 DEF FinishRun, Outcome, Goto
  <2>19. CASE Crash(a)
    BY <2>19 DEF Crash, Meets, Goto, AllFaults
  <2>20. CASE CancelReads(a)
    BY <2>20 DEF CancelReads, Idle, Attempts
  <2>21. CASE CancelAsks(a)
    BY <2>21 DEF CancelAsks, Asked, Live
  <2>22. CASE CancelFails(a)
    BY <2>22 DEF CancelFails, Idle, Attempts
  <2>23. CASE CancelFinishesAttempt(a)
    BY <2>23 DEF CancelFinishesAttempt
  <2>24. CASE CancelFinishesRun(a)
    BY <2>24 DEF CancelFinishesRun, Idle, Attempts
  <2>25. CASE RefreshReads(a)
    <3>1. Status(job[a]) \in RowStates
      BY StatusType
    <3> QED
      BY <2>25, <3>1 DEF RefreshReads, None, Attempts
  <2>26. CASE RefreshSaves(a)
    BY <2>26 DEF RefreshSaves, None, Attempts
  <2>27. CASE RefreshFails(a)
    BY <2>27 DEF RefreshFails, None, Attempts
  <2>28. CASE \E k \in Kinds : JobWrites(a, k)
    BY <2>28, <1>1, QuietSteps
  <2>29. CASE \E e \in DOMAIN entries[a] : Arrives(a, e)
    BY <2>29, <1>1, QuietSteps
  <2> QED
    BY <1>2, <2>1, <2>2, <2>3, <2>4, <2>5, <2>6, <2>7, <2>8, <2>9, <2>10, <2>11, <2>12,
       <2>13, <2>14, <2>15, <2>16, <2>17, <2>18, <2>19, <2>20, <2>21, <2>22, <2>23, <2>24,
       <2>25, <2>26, <2>27, <2>28, <2>29
    DEF CloudStep, SubmitStep, CancelStep, RefreshStep
<1>3. CASE UNCHANGED vars
  BY <1>1, <1>3 DEF vars, Touched
<1> QED
  BY <1>2, <1>3 DEF Next

\* The types hold always.
LEMMA StatesCorrect == Spec => []StatesOK
<1>1. Init => StatesOK
  BY StatesInit
<1>2. StatesOK /\ [Next]_vars => StatesOK'
  BY StatesStep
<1> QED
  BY <1>1, <1>2, PTL DEF Spec

-----------------------------------------------------------------------------
(* The invariant *)

\* Before its job exists, nobody else knows of an attempt.
EarlyInv(a) ==
  /\ pc[a] \in {"none", "create"} =>
       /\ job[a] = "none" /\ row[a] = "none" /\ ~ref[a]
       /\ result[a] = "none" /\ attempt[a] \in {"none", "running"}
  /\ job[a] = "none" => row[a] = "none" /\ ~ref[a]
  /\ ~ref[a] => canceler.attempt # a
  /\ row[a] = "none" => tool.attempt # a

\* Where Submit is, and what it has seen of its job.
SubmitInv(a) ==
  /\ pc[a] \in {"created", "started", "drain", "poll"} => job[a] # "none"
  /\ pc[a] \in {"started", "drain", "poll"} => row[a] # "none"
  /\ pc[a] \in {"created", "started"} => result[a] = "none"
  /\ result[a] = "succeeded" => job[a] = "succeeded"
  /\ result[a] = "canceled" => job[a] = "cancelled"
  /\ pc[a] = "drain" => result[a] # "failed"
  /\ result[a] = "failed" /\ pc[a] = "poll" => job[a] = "failed"

Settled == {"succeeded", "failed", "canceled"}

\* What a row says, and what a `refresh` is about to make it say.
RowInv(a) ==
  /\ row[a] \in Settled => row[a] = Status(job[a])
  /\ attempt[a] = "succeeded" => job[a] = "succeeded"
  /\ tool.attempt = a => tool.state # "none"
  /\ tool.attempt = a /\ tool.state \in Settled => tool.state = Status(job[a])

\* What `cancel` has asked for before it writes its rows.
CancelInv(a) ==
  /\ canceler.attempt = a /\ canceler.at \in {"attempt", "run"} => job[a] # "running"
  /\ attempt[a] = "canceled" => job[a] # "running"

\* Why a job is left behind, and why its row may be missing.
LeftInv(a) ==
  pc[a] \in Returned /\ job[a] = "running" =>
    /\ faulted[a] \cap {"answer", "cancel", "poll", "crash"} # {}
    /\ row[a] # "none" \/ "answer" \in faulted[a]
       \/ {"row", "cancel"} \subseteq faulted[a] \/ "crash" \in faulted[a]

JobInv == \A a \in Attempts :
  EarlyInv(a) /\ SubmitInv(a) /\ RowInv(a) /\ CancelInv(a) /\ LeftInv(a)

\* The invariant holds at first.
LEMMA JobInit == Init => JobInv
BY DEF Init, JobInv, EarlyInv, SubmitInv, RowInv, CancelInv, LeftInv, Each, Attempts, Settled,
       Returned, Idle, None

\* Every step of any attempt keeps the invariant for every attempt.
LEMMA JobStep == StatesOK /\ JobInv /\ [Next]_vars => JobInv'
<1> SUFFICES ASSUME StatesOK, JobInv, [Next]_vars, NEW a \in Attempts
             PROVE  (EarlyInv(a) /\ SubmitInv(a) /\ RowInv(a) /\ CancelInv(a) /\ LeftInv(a))'
  BY DEF JobInv
<1> DEFINE Inv == EarlyInv(a) /\ SubmitInv(a) /\ RowInv(a) /\ CancelInv(a) /\ LeftInv(a)
<1> USE DEF StatesOK, Returned, Settled, tableVars, submitVars, cloudVars,
            EarlyInv, SubmitInv, RowInv, CancelInv, LeftInv
<1>0. EarlyInv(a) /\ SubmitInv(a) /\ RowInv(a) /\ CancelInv(a) /\ LeftInv(a)
  BY DEF JobInv
<1>1. ASSUME UNCHANGED Touched PROVE Inv'
  BY <1>0, <1>1 DEF Touched
<1>2. ASSUME NEW b \in Attempts,
             CloudStep(b) \/ Start(b) \/ SubmitStep(b) \/ Crash(b) \/ CancelStep(b) \/ RefreshStep(b)
      PROVE  Inv'
  <2>1. CASE JobEnds(b)
    BY <2>1, <1>0 DEF JobEnds, Status, Live, Final
  <2>2. CASE Start(b)
    BY <2>2, <1>0 DEF Start, Goto
  <2>3. CASE Create(b)
    BY <2>3, <1>0 DEF Create, Goto, Live
  <2>4. CASE CreateFails(b)
    BY <2>4, <1>0 DEF CreateFails, Meets, Returns, Goto
  <2>5. CASE OnResourceCreated(b)
    BY <2>5, <1>0 DEF OnResourceCreated, Goto
  <2>6. CASE OnStarted(b)
    BY <2>6, <1>0 DEF OnStarted, Goto
  <2>7. CASE NotRecorded(b)
    BY <2>7, <1>0 DEF NotRecorded, Meets, Returns, Goto, Asked, CanFail, Status, Live
  <2>8. CASE Drain(b)
    BY <2>8, <1>0 DEF Drain, Goto
  <2>9. CASE DrainFails(b)
    BY <2>9, <1>0 DEF DrainFails, Goto
  <2>10. CASE SeesSuccess(b)
    BY <2>10, <1>0 DEF SeesSuccess, Goto
  <2>11. CASE SeesFailure(b)
    BY <2>11, <1>0 DEF SeesFailure, Known
  <2>12. CASE GoesRound(b)
    BY <2>12, <1>0 DEF GoesRound, Known, Goto
  <2>13. CASE PollFails(b)
    BY SMTT(30), <2>13, <1>0 DEF PollFails, Meets, Returns, Goto
  <2>14. CASE OnResourceUpdated(b)
    BY <2>14, <1>0 DEF OnResourceUpdated, Goto, Status, Live
  <2>15. CASE UpdateFails(b)
    BY <2>15, <1>0 DEF UpdateFails, Meets, Returns, Goto
  <2>16. CASE Check(b)
    BY <2>16, <1>0 DEF Check, Goto
  <2>17. CASE FinishAttempt(b)
    BY <2>17, <1>0 DEF FinishAttempt, Outcome, Goto
  <2>18. CASE FinishRun(b)
    BY <2>18, <1>0 DEF FinishRun, Outcome, Goto
  <2>19. CASE Crash(b)
    BY <2>19, <1>0 DEF Crash, Meets, Goto
  <2>20. CASE CancelReads(b)
    BY <2>20, <1>0 DEF CancelReads, Idle
  <2>21. CASE CancelAsks(b)
    BY <2>21, <1>0 DEF CancelAsks, Asked, Status, Live
  <2>22. CASE CancelFails(b)
    BY <2>22, <1>0, GcpAssumption DEF CancelFails, Idle, Attempts
  <2>23. CASE CancelFinishesAttempt(b)
    BY <2>23, <1>0 DEF CancelFinishesAttempt
  <2>24. CASE CancelFinishesRun(b)
    BY <2>24, <1>0, GcpAssumption DEF CancelFinishesRun, Idle, Attempts
  <2>25. CASE RefreshReads(b)
    BY <2>25, <1>0 DEF RefreshReads, None, Status, Live, Final, JobStates
  <2>26. CASE RefreshSaves(b)
    BY <2>26, <1>0, GcpAssumption DEF RefreshSaves, None, Attempts
  <2>27. CASE RefreshFails(b)
    BY <2>27, <1>0, GcpAssumption DEF RefreshFails, None, Attempts
  <2>28. CASE \E k \in Kinds : JobWrites(b, k)
    BY <2>28, <1>1, QuietSteps
  <2>29. CASE \E e \in DOMAIN entries[b] : Arrives(b, e)
    BY <2>29, <1>1, QuietSteps
  <2> QED
    BY <1>2, <2>1, <2>2, <2>3, <2>4, <2>5, <2>6, <2>7, <2>8, <2>9, <2>10, <2>11, <2>12,
       <2>13, <2>14, <2>15, <2>16, <2>17, <2>18, <2>19, <2>20, <2>21, <2>22, <2>23, <2>24,
       <2>25, <2>26, <2>27, <2>28, <2>29
    DEF CloudStep, SubmitStep, CancelStep, RefreshStep
<1>3. CASE UNCHANGED vars
  BY <1>1, <1>3 DEF vars, Touched
<1> QED
  BY <1>2, <1>3 DEF Next

\* The invariant holds always.
LEMMA JobInvCorrect == Spec => []JobInv
<1>1. Init => JobInv
  BY JobInit
<1>2. StatesOK /\ JobInv /\ [Next]_vars => JobInv'
  BY JobStep
<1> QED
  BY <1>1, <1>2, StatesCorrect, PTL DEF Spec

-----------------------------------------------------------------------------
(* Theorems *)

\* A row of a job that is over says how it ended (providerResourceStateFromStatus,
\* notifyResource), and an attempt has succeeded only if its job has.
THEOREM RowsTellTheTruth == Spec => []RowsAreTrue
<1>1. JobInv => RowsAreTrue
  BY DEF JobInv, RowInv, RowsAreTrue, Settled
<1> QED
  BY <1>1, JobInvCorrect, PTL

\* Submit leaves a running job behind only if a request of its own has failed
\* or its process has died.
THEOREM JobsAreAbandonedByFaultsOnly == Spec => []NoJobIsAbandoned
<1>1. JobInv => NoJobIsAbandoned
  BY DEF JobInv, LeftInv, NoJobIsAbandoned
<1> QED
  BY <1>1, JobInvCorrect, PTL

\* A job that is left behind has a row that says `running`, unless the row
\* could not be written.
THEOREM AbandonedJobsAreListed == Spec => []LiveJobIsListed
<1>1. StatesOK /\ JobInv => LiveJobIsListed
  <2> SUFFICES ASSUME StatesOK, JobInv, NEW a \in Attempts,
                      pc[a] \in Returned, job[a] = "running",
                      "answer" \notin faulted[a], ~({"row", "cancel"} \subseteq faulted[a]),
                      row[a] # "running"
               PROVE  "crash" \in faulted[a] /\ row[a] = "none"
    BY DEF LiveJobIsListed
  <2>1. row[a] \notin Settled
    BY DEF JobInv, RowInv, Settled, Status, Live
  <2>2. row[a] = "none"
    BY <2>1 DEF StatesOK, RowStates, Settled
  <2> QED
    BY <2>2 DEF JobInv, LeftInv
<1> QED
  BY <1>1, StatesCorrect, JobInvCorrect, PTL

\* Whenever `cancel` has marked an attempt, its job has been asked to stop or
\* is over, whatever Submit and other attempts do meanwhile.
THEOREM CanceledJobsAreAsked == Spec => []CanceledJobIsAsked
<1>1. JobInv => CanceledJobIsAsked
  BY DEF JobInv, CancelInv, CanceledJobIsAsked
<1> QED
  BY <1>1, JobInvCorrect, PTL

-----------------------------------------------------------------------------
(* The log *)

EntryType == [attempt : Attempts, entry : Nat]

\* Types of what concerns the log.
LogTypes ==
  /\ entries \in [Attempts -> Seq(Kinds)]
  /\ arrived \in [Attempts -> Seq(Nat)]
  /\ log \in Seq(EntryType)
  /\ seen \in [Attempts -> SUBSET Nat]
  /\ due \in [Attempts -> SUBSET Nat]

\* What came up before the last drain was seen by it, and what was seen is in
\* the log unless it is blank.
SeenInv(a) ==
  /\ \A i \in DOMAIN arrived[a] : arrived[a][i] \in DOMAIN entries[a]
  /\ seen[a] \subseteq Listable(a)
  /\ \A i, j \in DOMAIN arrived[a] :
       arrived[a][i] \in seen[a] /\ arrived[a][j] \notin seen[a] => i < j
  /\ \A e \in seen[a] : entries[a][e] # "blank" => Entry(a, e) \in ToSet(log)
  /\ \A p \in DOMAIN log : log[p].attempt = a => log[p].entry \in seen[a]

\* What could be listed when Submit saw success has been seen once the drain
\* that follows is over, unless it has failed.
DueInv(a) ==
  /\ due[a] \subseteq Listable(a)
  /\ due[a] # {} => result[a] # "none"
  /\ pc[a] \notin {"drain", "over"} \/ attempt[a] = "succeeded" =>
       due[a] \subseteq seen[a] \/ "list" \in faulted[a]
  /\ attempt[a] = "succeeded" => pc[a] \in {"run", "over"}

LogInv == LogTypes /\ EntriesOnceInOrder /\ \A a \in Attempts : SeenInv(a) /\ DueInv(a)

\* The order of a loop over positions of a sequence.
LEMMA AscendingFacts ==
  ASSUME NEW n \in Nat, NEW S, S \subseteq 1..n, NEW s \in Ascending(S)
  PROVE  /\ s \in Seq(S)
         /\ \A x \in S : \E k \in DOMAIN s : s[k] = x
         /\ \A j, k \in DOMAIN s : j < k => s[j] < s[k]
<1>1. IsFiniteSet(S)
  <2>1. IsFiniteSet(1..n)
    BY FS_Interval
  <2> QED
    BY <2>1, FS_Subset
<1>2. Cardinality(S) \in Nat
  BY <1>1, FS_CardinalityType
<1>3. s \in [1..Cardinality(S) -> S] /\ {s[k] : k \in DOMAIN s} = S
  BY DEF Ascending
<1>4. \A j, k \in DOMAIN s : j < k => s[j] < s[k]
  BY DEF Ascending
<1>5. s \in Seq(S)
  BY <1>2, <1>3
<1>6. \A x \in S : \E k \in DOMAIN s : s[k] = x
  BY <1>3
<1> QED
  BY <1>4, <1>5, <1>6

\* What stands where after an append.
LEMMA Appended ==
  ASSUME NEW E, NEW l, NEW m, l \in Seq(E), m \in Seq(E)
  PROVE  /\ l \o m \in Seq(E)
         /\ \A k \in DOMAIN (l \o m) :
              \/ k \in DOMAIN l /\ (l \o m)[k] = l[k]
              \/ /\ k \notin DOMAIN l /\ k - Len(l) \in DOMAIN m
                 /\ (l \o m)[k] = m[k - Len(l)]
         /\ \A k \in DOMAIN l : k \in DOMAIN (l \o m) /\ (l \o m)[k] = l[k]
         /\ \A i \in DOMAIN m :
              Len(l) + i \in DOMAIN (l \o m) /\ (l \o m)[Len(l) + i] = m[i]
<1>1. /\ Len(l) \in Nat /\ Len(m) \in Nat /\ Len(l \o m) = Len(l) + Len(m)
      /\ DOMAIN l = 1..Len(l) /\ DOMAIN m = 1..Len(m) /\ DOMAIN (l \o m) = 1..Len(l \o m)
      /\ l \o m \in Seq(E)
  OBVIOUS
<1>2. \A i \in 1..Len(l) : (l \o m)[i] = l[i]
  OBVIOUS
<1>3. \A i \in 1..Len(m) : (l \o m)[Len(l) + i] = m[i]
  OBVIOUS
<1>4. ASSUME NEW k \in DOMAIN (l \o m), k \notin DOMAIN l
      PROVE  k - Len(l) \in DOMAIN m /\ (l \o m)[k] = m[k - Len(l)]
  <2>1. k - Len(l) \in 1..Len(m) /\ Len(l) + (k - Len(l)) = k
    BY <1>1, <1>4
  <2> QED
    BY <1>1, <1>3, <2>1
<1>5. ASSUME NEW k \in DOMAIN l PROVE k \in DOMAIN (l \o m) /\ (l \o m)[k] = l[k]
  BY <1>1, <1>2
<1>6. ASSUME NEW i \in DOMAIN m
      PROVE  Len(l) + i \in DOMAIN (l \o m) /\ (l \o m)[Len(l) + i] = m[i]
  BY <1>1, <1>3
<1> QED
  BY <1>1, <1>4, <1>5, <1>6

\* A drain copies what can be listed and was not seen, in order.
LEMMA DrainStep ==
  ASSUME LogInv, NEW a \in Attempts, Drain(a)
  PROVE  LogInv'
<1>1. PICK f \in Ascending(Fresh(a)) :
        log' = log \o [i \in DOMAIN f |-> Entry(a, f[i])]
  BY DEF Drain
<1> DEFINE t == [i \in DOMAIN f |-> Entry(a, f[i])]
           L == Len(log)
<1>2. /\ seen' = [seen EXCEPT ![a] = @ \cup Listable(a)]
      /\ UNCHANGED <<entries, arrived, result, due, faulted, attempt>>
      /\ \A b \in Attempts \ {a} : pc'[b] = pc[b]
      /\ pc[a] = "drain"
  BY DEF Drain, Goto, cloudVars, tableVars
<1>3. /\ entries[a] \in Seq(Kinds) /\ Len(entries[a]) \in Nat
      /\ DOMAIN entries[a] = 1..Len(entries[a])
      /\ log \in Seq(EntryType) /\ L \in Nat /\ DOMAIN log = 1..L
      /\ seen \in [Attempts -> SUBSET Nat]
  BY DEF LogInv, LogTypes
<1>4. Listable(a) \subseteq DOMAIN entries[a] /\ seen[a] \subseteq Listable(a)
  BY DEF LogInv, SeenInv, Listable, ToSet
<1>5. Fresh(a) \subseteq 1..Len(entries[a])
  BY <1>3, <1>4 DEF Fresh
<1>6. /\ f \in Seq(Fresh(a))
      /\ \A x \in Fresh(a) : \E k \in DOMAIN f : f[k] = x
      /\ \A j, k \in DOMAIN f : j < k => f[j] < f[k]
  BY <1>3, <1>5, AscendingFacts
<1>7. \A i \in DOMAIN f : /\ i \in Nat /\ i > 0 /\ f[i] \in Fresh(a) /\ f[i] \in Nat
                          /\ t[i] = Entry(a, f[i])
  BY <1>5, <1>6
<1>8. t \in Seq(EntryType) /\ DOMAIN t = DOMAIN f
  <2>1. \A i \in DOMAIN f : Entry(a, f[i]) \in EntryType
    BY <1>7 DEF Entry, EntryType
  <2>2. DOMAIN f = 1..Len(f) /\ Len(f) \in Nat
    BY <1>6
  <2>3. t \in [DOMAIN f -> EntryType]
    BY <2>1
  <2> QED
    BY <2>2, <2>3
<1>9. log' = log \o t
  BY <1>1
<1> HIDE DEF t
<1>10. /\ log' \in Seq(EntryType)
       /\ \A k \in DOMAIN log' :
            \/ k \in DOMAIN log /\ log'[k] = log[k]
            \/ k \notin DOMAIN log /\ k - L \in DOMAIN t /\ log'[k] = t[k - L]
       /\ \A k \in DOMAIN log : k \in DOMAIN log' /\ log'[k] = log[k]
       /\ \A i \in DOMAIN t : L + i \in DOMAIN log' /\ log'[L + i] = t[i]
  BY <1>3, <1>8, <1>9, Appended
<1> HIDE DEF L
\* A line of the log is an old one, or that of an entry which was not seen.
<1>old. ASSUME NEW k \in DOMAIN log', k \in DOMAIN log PROVE log'[k] = log[k]
  BY <1>10, <1>old
<1>new. ASSUME NEW k \in DOMAIN log', k \notin DOMAIN log
        PROVE  /\ k - L \in DOMAIN f /\ k > L
               /\ f[k - L] \in Fresh(a) /\ f[k - L] \in Nat
               /\ log'[k].attempt = a /\ log'[k].entry = f[k - L]
  <2>1. k - L \in DOMAIN f /\ log'[k] = t[k - L]
    BY <1>8, <1>10, <1>new
  <2>2. k \in Nat
    BY <1>10
  <2>3. t[k - L] = Entry(a, f[k - L])
    BY <1>7, <2>1
  <2> QED
    BY <1>3, <1>7, <2>1, <2>2, <2>3 DEF Entry
<1>11. seen'[a] = Listable(a) /\ \A b \in Attempts \ {a} : seen'[b] = seen[b]
  BY <1>2, <1>3, <1>4
<1>12. Listable(a)' = Listable(a) /\ \A b \in Attempts : Listable(b)' = Listable(b)
  BY <1>2 DEF Listable
<1>a. LogTypes'
  <2>1. Listable(a) \subseteq Nat
    BY <1>3, <1>4
  <2>2. seen' \in [Attempts -> SUBSET Nat]
    BY <1>2, <1>3, <2>1
  <2> QED
    BY <1>2, <1>10, <2>2 DEF LogInv, LogTypes
<1>b. SeenInv(a)'
  <2>1. \A i \in DOMAIN arrived[a] : arrived[a][i] \in seen'[a]
    BY <1>11 DEF Listable, ToSet
  <2>2. ASSUME NEW e \in seen'[a], entries[a][e] # "blank" PROVE Entry(a, e) \in ToSet(log')
    <3>1. CASE e \in seen[a]
      <4>1. Entry(a, e) \in ToSet(log)
        BY <2>2, <3>1 DEF LogInv, SeenInv
      <4>2. PICK k \in DOMAIN log : log[k] = Entry(a, e)
        BY <4>1 DEF ToSet
      <4> QED
        BY <1>10, <4>2 DEF ToSet
    <3>2. CASE e \notin seen[a]
      <4>1. e \in Fresh(a)
        BY <1>11, <2>2, <3>2 DEF Fresh
      <4>2. PICK i \in DOMAIN f : f[i] = e
        BY <1>6, <4>1
      <4>3. L + i \in DOMAIN log' /\ log'[L + i] = Entry(a, e)
        BY <1>7, <1>8, <1>10, <4>2
      <4> QED
        BY <4>3 DEF ToSet
    <3> QED
      BY <3>1, <3>2
  <2>3. ASSUME NEW p \in DOMAIN log', log'[p].attempt = a PROVE log'[p].entry \in seen'[a]
    <3>1. CASE p \in DOMAIN log
      BY <1>4, <1>11, <1>old, <2>3, <3>1 DEF LogInv, SeenInv
    <3>2. CASE p \notin DOMAIN log
      BY <1>11, <1>new, <3>2 DEF Fresh
    <3> QED
      BY <3>1, <3>2
  <2>4. \A i \in DOMAIN arrived[a] : arrived[a][i] \in DOMAIN entries[a]
    BY DEF LogInv, SeenInv
  <2> QED
    BY <1>2, <1>11, <1>12, <2>1, <2>2, <2>3, <2>4 DEF SeenInv
<1>c. ASSUME NEW b \in Attempts, b # a PROVE SeenInv(b)'
  <2>1. SeenInv(b)
    BY DEF LogInv
  <2>2. ASSUME NEW p \in DOMAIN log', log'[p].attempt = b PROVE log'[p].entry \in seen[b]
    <3>1. p \in DOMAIN log
      BY <1>c, <1>new, <2>2
    <3> QED
      BY <1>old, <2>1, <2>2, <3>1 DEF SeenInv
  <2>3. ASSUME NEW x \in ToSet(log) PROVE x \in ToSet(log')
    <3>1. PICK k \in DOMAIN log : log[k] = x
      BY DEF ToSet
    <3> QED
      BY <1>10, <3>1 DEF ToSet
  <2> QED
    BY <1>2, <1>11, <1>12, <1>c, <2>1, <2>2, <2>3 DEF SeenInv
<1>d. ASSUME NEW b \in Attempts PROVE DueInv(b)'
  <2>1. DueInv(b)
    BY DEF LogInv
  <2>2. CASE b = a
    BY <1>2, <1>11, <1>12, <2>1, <2>2 DEF DueInv
  <2>3. CASE b # a
    BY <1>2, <1>11, <1>12, <2>1, <2>3 DEF DueInv
  <2> QED
    BY <2>2, <2>3
<1>e. EntriesOnceInOrder'
  <2> DEFINE m(p) == log'[p].entry
             b(p) == log'[p].attempt
  <2> SUFFICES ASSUME NEW p \in DOMAIN log', NEW q \in DOMAIN log',
                      p < q, b(q) = b(p), m(p) >= m(q)
               PROVE  \E i, j \in DOMAIN arrived[b(p)] :
                        i < j /\ arrived[b(p)][i] = m(p) /\ arrived[b(p)][j] = m(q)
    BY <1>2 DEF EntriesOnceInOrder
  <2>0. p \in Nat /\ q \in Nat /\ p > 0
    BY <1>10
  <2>1. CASE q \in DOMAIN log
    <3>1. p \in DOMAIN log
      BY <1>3, <2>0, <2>1
    <3>2. log'[p] = log[p] /\ log'[q] = log[q]
      BY <1>old, <2>1, <3>1
    <3>3. EntriesOnceInOrder
      BY DEF LogInv
    <3> QED
      BY <2>1, <3>1, <3>2, <3>3 DEF EntriesOnceInOrder
  <2>2. CASE p \in DOMAIN log /\ q \notin DOMAIN log
    <3>1. b(p) = a /\ m(q) \in Fresh(a)
      BY <1>new, <2>2
    <3>2. m(p) \in seen[a]
      BY <1>old, <2>2, <3>1 DEF LogInv, SeenInv
    <3>3. m(q) \in Listable(a) /\ m(q) \notin seen[a] /\ m(p) \in Listable(a)
      BY <1>4, <3>1, <3>2 DEF Fresh
    <3>4. PICK i \in DOMAIN arrived[a] : arrived[a][i] = m(p)
      BY <3>3 DEF Listable, ToSet
    <3>5. PICK j \in DOMAIN arrived[a] : arrived[a][j] = m(q)
      BY <3>3 DEF Listable, ToSet
    <3>6. i < j
      BY <3>2, <3>3, <3>4, <3>5 DEF LogInv, SeenInv
    <3> QED
      BY <3>1, <3>4, <3>5, <3>6
  <2>3. CASE p \notin DOMAIN log /\ q \notin DOMAIN log
    <3>1. /\ p - L \in DOMAIN f /\ q - L \in DOMAIN f
          /\ m(p) = f[p - L] /\ m(q) = f[q - L]
      BY <1>new, <2>3
    <3>2. p - L < q - L
      BY <1>3, <2>0 DEF L
    <3>3. f[p - L] < f[q - L] /\ f[p - L] \in Nat /\ f[q - L] \in Nat
      BY <1>6, <1>7, <3>1, <3>2
    <3> QED
      BY <3>1, <3>3
  <2> QED
    BY <2>1, <2>2, <2>3
<1> QED
  BY <1>a, <1>b, <1>c, <1>d, <1>e DEF LogInv

\* The steps that leave the entries, the listing, the log and what was seen
\* alone.
LEMMA LogRests ==
  ASSUME LogInv, UNCHANGED <<entries, arrived, log, seen>>,
         due' \in [Attempts -> SUBSET Nat], \A a \in Attempts : DueInv(a)'
  PROVE  LogInv'
<1>1. LogTypes'
  BY DEF LogInv, LogTypes
<1>2. EntriesOnceInOrder'
  BY DEF LogInv, EntriesOnceInOrder
<1>3. \A a \in Attempts : SeenInv(a)'
  BY DEF LogInv, SeenInv, Listable
<1> QED
  BY <1>1, <1>2, <1>3 DEF LogInv

LEMMA EntriesStep ==
  ASSUME LogInv, NEW a \in Attempts, NEW k \in Kinds, JobWrites(a, k)
  PROVE  LogInv'
<1> USE DEF submitVars, tableVars
<1>1. /\ UNCHANGED <<arrived, log, seen, due, pc, result, faulted, attempt>>
      /\ entries' = [entries EXCEPT ![a] = Append(@, k)]
  BY DEF JobWrites
<1>2. entries \in [Attempts -> Seq(Kinds)]
  BY DEF LogInv, LogTypes
<1>3. entries' \in [Attempts -> Seq(Kinds)]
  BY <1>1, <1>2
<1>4. ASSUME NEW b \in Attempts, NEW e \in DOMAIN entries[b]
      PROVE  e \in DOMAIN entries'[b] /\ entries'[b][e] = entries[b][e]
  <2>1. entries[b] \in Seq(Kinds)
    BY <1>2
  <2>2. entries'[b] = entries[b] \/ entries'[b] = Append(entries[b], k)
    BY <1>1, <1>2
  <2> QED
    BY <2>1, <2>2, <1>4
<1>5. ASSUME NEW b \in Attempts PROVE SeenInv(b)'
  <2>1. SeenInv(b)
    BY DEF LogInv
  <2>2. \A e \in seen[b] : e \in DOMAIN entries[b]
    BY <2>1 DEF SeenInv, Listable, ToSet
  <2> QED
    BY <1>1, <1>4, <2>1, <2>2 DEF SeenInv, Listable
<1>6. \A b \in Attempts : DueInv(b)'
  BY <1>1 DEF LogInv, DueInv, Listable
<1>7. LogTypes'
  BY <1>1, <1>3 DEF LogInv, LogTypes
<1>8. EntriesOnceInOrder'
  BY <1>1 DEF LogInv, EntriesOnceInOrder
<1> QED
  BY <1>5, <1>6, <1>7, <1>8 DEF LogInv

LEMMA ListingStep ==
  ASSUME LogInv, NEW a \in Attempts, NEW e \in DOMAIN entries[a], Arrives(a, e)
  PROVE  LogInv'
<1> USE DEF submitVars, tableVars
<1>1. /\ UNCHANGED <<entries, log, seen, due, pc, result, faulted, attempt>>
      /\ e \notin Listable(a)
      /\ arrived' = [arrived EXCEPT ![a] = Append(@, e)]
  BY DEF Arrives
<1>2. arrived \in [Attempts -> Seq(Nat)] /\ e \in Nat
  BY DEF LogInv, LogTypes
<1>3. arrived' \in [Attempts -> Seq(Nat)]
  BY <1>1, <1>2
<1>4. ASSUME NEW b \in Attempts
      PROVE  /\ \A i \in DOMAIN arrived[b] :
                  i \in DOMAIN arrived'[b] /\ arrived'[b][i] = arrived[b][i]
             /\ \A i \in DOMAIN arrived'[b] : i \notin DOMAIN arrived[b] =>
                  b = a /\ arrived'[b][i] = e /\ \A j \in DOMAIN arrived[b] : j < i
  <2>1. arrived[b] \in Seq(Nat)
    BY <1>2
  <2>2. CASE b = a
    <3>1. arrived'[b] = Append(arrived[b], e)
      BY <1>1, <1>2, <2>2
    <3> QED
      BY <1>2, <2>1, <2>2, <3>1
  <2>3. CASE b # a
    <3>1. arrived'[b] = arrived[b]
      BY <1>1, <1>2, <2>3
    <3> QED
      BY <3>1
  <2> QED
    BY <2>2, <2>3
<1>5. \A b \in Attempts : Listable(b) \subseteq Listable(b)'
  BY <1>4 DEF Listable, ToSet
<1>6. ASSUME NEW b \in Attempts PROVE SeenInv(b)'
  <2>1. SeenInv(b)
    BY DEF LogInv
  <2>2. ASSUME NEW i \in DOMAIN arrived'[b], NEW j \in DOMAIN arrived'[b],
               arrived'[b][i] \in seen[b], arrived'[b][j] \notin seen[b]
        PROVE  i < j
    <3>1. i \in DOMAIN arrived[b]
      BY <1>1, <1>4, <2>1, <2>2 DEF SeenInv
    <3>2. CASE j \in DOMAIN arrived[b]
      BY <1>4, <2>1, <2>2, <3>1, <3>2 DEF SeenInv
    <3>3. CASE j \notin DOMAIN arrived[b]
      BY <1>4, <3>1, <3>3
    <3> QED
      BY <3>2, <3>3
  <2>3. \A i \in DOMAIN arrived'[b] : arrived'[b][i] \in DOMAIN entries[b]
    BY <1>4, <2>1 DEF SeenInv
  <2> QED
    BY <1>1, <1>5, <2>1, <2>2, <2>3 DEF SeenInv
<1>7. \A b \in Attempts : DueInv(b)'
  BY <1>1, <1>5 DEF LogInv, DueInv
<1>8. LogTypes'
  BY <1>1, <1>3 DEF LogInv, LogTypes
<1>9. EntriesOnceInOrder'
  <2> DEFINE m(p) == log[p].entry
             b(p) == log[p].attempt
  <2> SUFFICES ASSUME NEW p \in DOMAIN log, NEW q \in DOMAIN log,
                      p < q, b(q) = b(p), m(p) >= m(q)
               PROVE  \E i, j \in DOMAIN arrived'[b(p)] :
                        i < j /\ arrived'[b(p)][i] = m(p) /\ arrived'[b(p)][j] = m(q)
    BY <1>1 DEF EntriesOnceInOrder
  <2>1. EntriesOnceInOrder
    BY DEF LogInv
  <2>2. PICK i, j \in DOMAIN arrived[b(p)] :
          i < j /\ arrived[b(p)][i] = m(p) /\ arrived[b(p)][j] = m(q)
    BY <2>1 DEF EntriesOnceInOrder
  <2>3. b(p) \in Attempts
    <3>1. log[p] \in EntryType
      BY DEF LogInv, LogTypes
    <3> QED
      BY <3>1 DEF EntryType
  <2> QED
    BY <1>4, <2>2, <2>3
<1> QED
  BY <1>6, <1>7, <1>8, <1>9 DEF LogInv

\* Every step keeps the log in order and what is due accounted for.
LEMMA LogStep == StatesOK /\ LogInv /\ [Next]_vars => LogInv'
<1> SUFFICES ASSUME StatesOK, LogInv, [Next]_vars PROVE LogInv'
  OBVIOUS
<1> USE DEF tableVars, submitVars, cloudVars
<1> DEFINE Quiet == UNCHANGED <<entries, arrived, log, seen>>
<1>0. /\ due \in [Attempts -> SUBSET Nat]
      /\ \A b \in Attempts : DueInv(b) /\ Listable(b) \subseteq Nat
  <2>1. \A b \in Attempts : Listable(b) \subseteq Nat
    BY DEF LogInv, LogTypes, Listable, ToSet
  <2> QED
    BY <2>1 DEF LogInv, LogTypes
<1>1. ASSUME Quiet, UNCHANGED <<due, result, pc, faulted>>,
             \A b \in Attempts : attempt'[b] = "succeeded" => attempt[b] = "succeeded"
      PROVE  LogInv'
  <2>1. \A b \in Attempts : DueInv(b)'
    BY <1>0, <1>1 DEF DueInv, Listable
  <2> QED
    BY <1>0, <1>1, <2>1, LogRests
<1>2. ASSUME NEW a \in Attempts,
             CloudStep(a) \/ Start(a) \/ SubmitStep(a) \/ Crash(a) \/ CancelStep(a) \/ RefreshStep(a)
      PROVE  LogInv'
  <2>r. ASSUME Quiet, due' \in [Attempts -> SUBSET Nat], \A b \in Attempts : DueInv(b)'
        PROVE  LogInv'
    BY <2>r, LogRests
  <2> USE DEF StatesOK, DueInv, Listable, Returned
  <2>1. CASE JobEnds(a)
    BY <1>1, <2>1 DEF JobEnds
  <2>2. CASE Start(a)
    BY <1>0, <2>2, <2>r DEF Start, Goto
  <2>3. CASE Create(a)
    BY <1>0, <2>3, <2>r DEF Create, Goto
  <2>4. CASE CreateFails(a)
    BY <1>0, <2>4, <2>r DEF CreateFails, Meets, Returns, Goto
  <2>5. CASE OnResourceCreated(a)
    BY <1>0, <2>5, <2>r DEF OnResourceCreated, Goto
  <2>6. CASE OnStarted(a)
    BY <1>0, <2>6, <2>r DEF OnStarted, Goto
  <2>7. CASE NotRecorded(a)
    BY <1>0, <2>7, <2>r DEF NotRecorded, Meets, Returns, Goto
  <2>8. CASE Drain(a)
    BY <2>8, DrainStep
  <2>9. CASE DrainFails(a)
    BY <1>0, <2>9, <2>r DEF DrainFails, Goto
  <2>10. CASE SeesSuccess(a)
    BY <1>0, <2>10, <2>r DEF SeesSuccess, Goto
  <2>11. CASE SeesFailure(a)
    BY <1>0, <2>11, <2>r DEF SeesFailure
  <2>12. CASE GoesRound(a)
    BY <1>0, <2>12, <2>r DEF GoesRound, Goto
  <2>13. CASE PollFails(a)
    BY <1>0, <2>13, <2>r DEF PollFails, Meets, Returns, Goto
  <2>14. CASE OnResourceUpdated(a)
    BY <1>0, <2>14, <2>r DEF OnResourceUpdated, Goto
  <2>15. CASE UpdateFails(a)
    BY <1>0, <2>15, <2>r DEF UpdateFails, Meets, Returns, Goto
  <2>16. CASE Check(a)
    BY <1>0, <2>16, <2>r DEF Check, Goto
  <2>17. CASE FinishAttempt(a)
    BY <1>0, <2>17, <2>r DEF FinishAttempt, Goto
  <2>18. CASE FinishRun(a)
    BY <1>0, <2>18, <2>r DEF FinishRun, Goto
  <2>19. CASE Crash(a)
    BY <1>0, <2>19, <2>r DEF Crash, Meets, Goto
  <2>20. CASE CancelReads(a) \/ CancelAsks(a) \/ CancelFails(a) \/ CancelFinishesRun(a)
    BY <1>1, <2>20 DEF CancelReads, CancelAsks, CancelFails, CancelFinishesRun
  <2>21. CASE CancelFinishesAttempt(a)
    BY <1>1, <2>21 DEF CancelFinishesAttempt
  <2>22. CASE RefreshStep(a)
    BY <1>1, <2>22 DEF RefreshStep, RefreshReads, RefreshSaves, RefreshFails
  <2>23. CASE \E k \in Kinds : JobWrites(a, k)
    BY <2>23, EntriesStep
  <2>24. CASE \E e \in DOMAIN entries[a] : Arrives(a, e)
    BY <2>24, ListingStep
  <2> QED
    BY <1>2, <2>1, <2>2, <2>3, <2>4, <2>5, <2>6, <2>7, <2>8, <2>9, <2>10, <2>11, <2>12,
       <2>13, <2>14, <2>15, <2>16, <2>17, <2>18, <2>19, <2>20, <2>21, <2>22, <2>23, <2>24
    DEF CloudStep, SubmitStep, CancelStep
<1>3. CASE UNCHANGED vars
  BY <1>1, <1>3 DEF vars
<1> QED
  BY <1>2, <1>3 DEF Next

LEMMA LogInit == Init => LogInv
<1> SUFFICES ASSUME Init PROVE LogInv
  OBVIOUS
<1>1. LogTypes
  BY DEF Init, LogTypes, Each
<1>2. EntriesOnceInOrder
  BY DEF Init, EntriesOnceInOrder
<1>3. ASSUME NEW a \in Attempts PROVE SeenInv(a) /\ DueInv(a)
  BY DEF Init, SeenInv, DueInv, Each, Listable, ToSet
<1> QED
  BY <1>1, <1>2, <1>3 DEF LogInv

LEMMA LogInvCorrect == Spec => []LogInv
  BY LogInit, LogStep, StatesCorrect, PTL DEF Spec

\* However often the entries of a job are listed and however late they come
\* up, each is in the log once and in the order of their timestamps, but for
\* those that came up late (drainLogs, seenLogs).
THEOREM EntriesComeOnce == Spec => []EntriesOnceInOrder
<1>1. LogInv => EntriesOnceInOrder
  BY DEF LogInv
<1> QED
  BY <1>1, LogInvCorrect, PTL

\* An attempt that is settled as succeeded has in its log what its job had in
\* the log service when Submit saw the success, unless the last listing failed.
THEOREM SuccessesAreDrained == Spec => []SuccessIsDrained
<1>1. LogInv => SuccessIsDrained
  <2> SUFFICES ASSUME LogInv, NEW a \in Attempts,
                      attempt[a] = "succeeded", "list" \notin faulted[a],
                      NEW e \in due[a], entries[a][e] # "blank"
               PROVE  Entry(a, e) \in ToSet(log)
    BY DEF SuccessIsDrained
  <2>1. e \in seen[a]
    BY DEF LogInv, DueInv
  <2> QED
    BY <2>1 DEF LogInv, SeenInv
<1> QED
  BY <1>1, LogInvCorrect, PTL

=============================================================================
