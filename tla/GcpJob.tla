------------------------------- MODULE GcpJob -------------------------------
(***************************************************************************)
(* The Vertex AI custom jobs of a run that stays on GCP.  The attempts of  *)
(* the run submit one job each and poll it; every one after the first is   *)
(* a `resume`, which may come at any time.  Beside them: the jobs in the   *)
(* cloud, a log service that takes its time, a `cancel`, and an operator   *)
(* who runs `resources refresh`.                                           *)
(***************************************************************************)
EXTENDS Naturals, Sequences, SequencesExt, Orders

CONSTANTS
  MaxAttempts,  \* bound: attempts of the run
  Kinds,        \* kinds of log entries a job may write, see AllKinds
  MaxEntries,   \* bound: entries the jobs write
  Faults        \* what may go wrong, see AllFaults

Attempts  == 1..MaxAttempts
AllKinds  == {"text", "checkpoint", "blank"}
AllFaults == {"create",   \* the job is not created
              "answer",   \* it is created and the answer is lost
              "row",      \* its row of provider_resources is not written
              "ref",      \* its name is not stored in the attempt
              "cancel",   \* a request to cancel fails
              "list",     \* a listing of log entries fails
              "poll",     \* a status request fails
              "partly",   \* the job ends as PARTIALLY_SUCCEEDED
              "crash"}    \* the process dies

ASSUME GcpAssumption ==
  /\ MaxAttempts \in Nat \ {0} /\ MaxEntries \in Nat
  /\ Kinds \subseteq AllKinds /\ Faults \subseteq AllFaults

VARIABLES
  job,       \* state of each job; "running" stands for all that are not final
  entries,   \* log entries it has written, in the order of their timestamps
  arrived,   \* which of them can be listed, in the order they came up
  run,       \* runs.state
  attempt,   \* attempts.state
  ref,       \* attempts.provider_ref is there
  row,       \* provider_resources.state
  log,       \* logs.txt of the run
  pc,        \* where the Submit of an attempt is
  result,    \* how its job has ended, as far as it has seen
  seen,      \* seenLogs
  due,       \* history: entries that could be listed when it saw success
  faulted,   \* history: the faults it has met
  canceler,  \* the `cancel`: where it is, and its attempt
  tool       \* the `refresh`: what it has read, about which attempt

cloudVars  == <<job, entries, arrived>>
tableVars  == <<run, attempt, ref, row>>
submitVars == <<log, pc, result, seen, due, faulted>>
vars == <<cloudVars, tableVars, submitVars, canceler, tool>>

Idle == [at |-> "idle", attempt |-> 0]
None == [attempt |-> 0, state |-> "none"]

Each(v) == [a \in Attempts |-> v]

Init ==
  /\ job = Each("none") /\ entries = Each(<<>>) /\ arrived = Each(<<>>)
  /\ run = "none" /\ attempt = Each("none") /\ ref = Each(FALSE) /\ row = Each("none")
  /\ log = <<>>
  /\ pc = Each("none") /\ result = Each("none")
  /\ seen = Each({}) /\ due = Each({}) /\ faulted = Each({})
  /\ canceler = Idle /\ tool = None

-----------------------------------------------------------------------------
(* Vertex AI and Cloud Logging *)

Live  == {"running", "cancelling"}
Final == {"succeeded", "partly", "failed", "cancelled"}

\* A job that is being canceled may still end otherwise, and one can be
\* canceled by others.
JobEnds(a) ==
  /\ job[a] \in Live
  /\ \E s \in Final :
       /\ s = "partly" => "partly" \in Faults
       /\ job' = [job EXCEPT ![a] = s]
  /\ UNCHANGED <<entries, arrived, tableVars, submitVars, canceler, tool>>

Written == FoldFunction(LAMBDA written, n : n + Len(written), 0, entries)

JobWrites(a, k) ==
  /\ job[a] \in Live /\ Written < MaxEntries
  /\ entries' = [entries EXCEPT ![a] = Append(@, k)]
  /\ UNCHANGED <<job, arrived, tableVars, submitVars, canceler, tool>>

Listable(a) == ToSet(arrived[a])

\* An entry can be listed some time after it was written, in any order.
Arrives(a, e) ==
  /\ e \in DOMAIN entries[a] \ Listable(a)
  /\ arrived' = [arrived EXCEPT ![a] = Append(@, e)]
  /\ UNCHANGED <<job, entries, tableVars, submitVars, canceler, tool>>

\* A job that is to be canceled.
Asked(j) == IF j = "running" THEN "cancelling" ELSE j

\* CancelCustomJob; a job that has ended refuses it, or ignores it.
CanFail(a) == "cancel" \in Faults \/ job[a] \in Final

-----------------------------------------------------------------------------
(* Submit, and the rows its caller writes before and after *)

Goto(a, where) == pc' = [pc EXCEPT ![a] = where]
Returns(a, how) == Goto(a, "check") /\ result' = [result EXCEPT ![a] = how]
Meets(a, fault) == fault \in Faults /\ faulted' = [faulted EXCEPT ![a] = @ \cup {fault}]

\* `train` for the first attempt, `resume` for the others: it needs a
\* checkpoint event, and does not ask whether the run is over.  The statements
\* that lead up to the attempt are one step here; RunLifecycle has them all.
Start(a) ==
  /\ pc[a] = "none"
  /\ a > 1 => /\ pc[a - 1] # "none"
              /\ \E l \in ToSet(log) : entries[l.attempt][l.entry] = "checkpoint"
  /\ run' = "running"
  /\ attempt' = [attempt EXCEPT ![a] = "running"]
  /\ Goto(a, "create")
  /\ UNCHANGED <<cloudVars, ref, row, log, result, seen, due, faulted, canceler, tool>>

Create(a) ==
  /\ pc[a] = "create"
  /\ job' = [job EXCEPT ![a] = "running"]
  /\ Goto(a, "created")
  /\ UNCHANGED <<entries, arrived, tableVars, log, result, seen, due, faulted, canceler, tool>>

CreateFails(a) ==
  /\ pc[a] = "create"
  /\ \/ Meets(a, "create") /\ UNCHANGED job
     \/ Meets(a, "answer") /\ job' = [job EXCEPT ![a] = "running"]
  /\ Returns(a, "failed")
  /\ UNCHANGED <<entries, arrived, tableVars, log, seen, due, canceler, tool>>

OnResourceCreated(a) ==
  /\ pc[a] = "created"
  /\ row' = [row EXCEPT ![a] = "running"]
  /\ Goto(a, "started")
  /\ UNCHANGED <<cloudVars, run, attempt, ref, log, result, seen, due, faulted, canceler, tool>>

OnStarted(a) ==
  /\ pc[a] = "started"
  /\ ref' = [ref EXCEPT ![a] = TRUE]
  /\ Goto(a, "drain")
  /\ UNCHANGED <<cloudVars, run, attempt, row, log, result, seen, due, faulted, canceler, tool>>

\* Mutant: Submit leaves the job alone.
Mut_NotRecorded(a) ==
  /\ \/ pc[a] = "created" /\ Meets(a, "row")
     \/ pc[a] = "started" /\ Meets(a, "ref")
  /\ Returns(a, "failed")
  /\ UNCHANGED <<cloudVars, tableVars, log, seen, due, canceler, tool>>

\* One of the two cannot be written: Submit cancels its job, if it can.
NotRecorded(a) ==
  /\ \E fault \in {"row", "ref"} :
       /\ pc[a] = IF fault = "row" THEN "created" ELSE "started"
       /\ \/ Meets(a, fault) /\ job' = [job EXCEPT ![a] = Asked(@)]
          \/ /\ CanFail(a) /\ fault \in Faults
             /\ faulted' = [faulted EXCEPT ![a] = @ \cup {fault, "cancel"}]
             /\ UNCHANGED job
  /\ Returns(a, "failed")
  /\ UNCHANGED <<entries, arrived, tableVars, log, seen, due, canceler, tool>>

Entry(a, e) == [attempt |-> a, entry |-> e]

\* Entries that can be listed and were not copied.
Fresh(a) == {e \in Listable(a) \ seen[a] : entries[a][e] # "blank"}

\* Mutant: the newest entries come first.
Mut_Drain(a) ==
  /\ pc[a] = "drain"
  /\ \E fresh \in Ascending(Fresh(a)) :
       log' = log \o [i \in DOMAIN fresh |-> Entry(a, fresh[Len(fresh) + 1 - i])]
  /\ seen' = [seen EXCEPT ![a] = @ \cup Listable(a)]
  /\ Goto(a, "poll")
  /\ UNCHANGED <<cloudVars, tableVars, result, due, faulted, canceler, tool>>

\* Lists all entries by timestamp, and copies those not seen before.
Drain(a) ==
  /\ pc[a] = "drain"
  /\ \E fresh \in Ascending(Fresh(a)) :
       log' = log \o [i \in DOMAIN fresh |-> Entry(a, fresh[i])]
  /\ seen' = [seen EXCEPT ![a] = @ \cup Listable(a)]
  /\ Goto(a, "poll")
  /\ UNCHANGED <<cloudVars, tableVars, result, due, faulted, canceler, tool>>

\* A page of the listing fails: nothing is copied this time.
DrainFails(a) ==
  /\ pc[a] = "drain" /\ "list" \in Faults
  /\ faulted' = [faulted EXCEPT ![a] = IF result[a] = "none" THEN @ ELSE @ \cup {"list"}]
  /\ Goto(a, "poll")
  /\ UNCHANGED <<cloudVars, tableVars, log, result, seen, due, canceler, tool>>

\* Mutant: a job that is being canceled counts as canceled.
Mut_Known == {"succeeded", "failed", "cancelling", "cancelled"}

\* Mutant: no case for a canceled job.
Mut_Unknown == {"succeeded", "failed"}

\* The states in which Submit ends.
Known == {"succeeded", "failed", "cancelled"}

\* Mutant: a job that has succeeded is not drained again.
Mut_SeesSuccess(a) ==
  /\ pc[a] = "poll" /\ result[a] = "none" /\ job[a] = "succeeded"
  /\ result' = [result EXCEPT ![a] = "succeeded"]
  /\ due' = [due EXCEPT ![a] = Listable(a)]
  /\ UNCHANGED <<cloudVars, tableVars, pc, log, seen, faulted, canceler, tool>>

SeesSuccess(a) ==
  /\ pc[a] = "poll" /\ result[a] = "none" /\ job[a] = "succeeded"
  /\ result' = [result EXCEPT ![a] = "succeeded"]
  /\ due' = [due EXCEPT ![a] = Listable(a)]
  /\ Goto(a, "drain")
  /\ UNCHANGED <<cloudVars, tableVars, log, seen, faulted, canceler, tool>>

\* A job that has failed or was canceled is not drained again.
SeesFailure(a) ==
  /\ pc[a] = "poll" /\ result[a] = "none" /\ job[a] \in Known \ {"succeeded"}
  /\ result' = [result EXCEPT ![a] = IF job[a] = "failed" THEN "failed" ELSE "canceled"]
  /\ UNCHANGED <<cloudVars, tableVars, pc, log, seen, due, faulted, canceler, tool>>

\* Anything else, PARTIALLY_SUCCEEDED included: sleep, and go round again.
GoesRound(a) ==
  /\ pc[a] = "poll" /\ result[a] = "none" /\ job[a] \notin Known
  /\ Goto(a, "drain")
  /\ UNCHANGED <<cloudVars, tableVars, log, result, seen, due, faulted, canceler, tool>>

\* One status request that fails is the end of Submit.
PollFails(a) ==
  /\ pc[a] = "poll" /\ result[a] = "none"
  /\ Meets(a, "poll")
  /\ Returns(a, "failed")
  /\ UNCHANGED <<cloudVars, tableVars, log, seen, due, canceler, tool>>

OnResourceUpdated(a) ==
  /\ pc[a] = "poll" /\ result[a] # "none"
  /\ row' = [row EXCEPT ![a] = result[a]]
  /\ Goto(a, "check")
  /\ UNCHANGED <<cloudVars, run, attempt, ref, log, result, seen, due, faulted, canceler, tool>>

UpdateFails(a) ==
  /\ pc[a] = "poll" /\ result[a] # "none"
  /\ Meets(a, "row")
  /\ Returns(a, "failed")
  /\ UNCHANGED <<cloudVars, tableVars, log, seen, due, canceler, tool>>

\* runAttempt looks whether a `cancel` has settled the run meanwhile.
Check(a) ==
  /\ pc[a] = "check"
  /\ Goto(a, IF run = "canceled" THEN "over" ELSE "attempt")
  /\ UNCHANGED <<cloudVars, tableVars, log, result, seen, due, faulted, canceler, tool>>

Outcome(a) == IF result[a] = "succeeded" THEN "succeeded" ELSE "failed"

FinishAttempt(a) ==
  /\ pc[a] = "attempt"
  /\ attempt' = [attempt EXCEPT ![a] = Outcome(a)]
  /\ Goto(a, "run")
  /\ UNCHANGED <<cloudVars, run, ref, row, log, result, seen, due, faulted, canceler, tool>>

FinishRun(a) ==
  /\ pc[a] = "run"
  /\ run' = Outcome(a)
  /\ Goto(a, "over")
  /\ UNCHANGED <<cloudVars, attempt, ref, row, log, result, seen, due, faulted, canceler, tool>>

Crash(a) ==
  /\ pc[a] \notin {"none", "over"}
  /\ Meets(a, "crash")
  /\ Goto(a, "over")
  /\ UNCHANGED <<cloudVars, tableVars, log, result, seen, due, canceler, tool>>

-----------------------------------------------------------------------------
(* `cancel` *)

\* The latest running attempt of a running run, if its job has a name.
CancelReads(a) ==
  /\ canceler = Idle
  /\ run = "running"
  /\ attempt[a] = "running" /\ ref[a]
  /\ \A b \in Attempts : b > a => attempt[b] # "running"
  /\ canceler' = [at |-> "ask", attempt |-> a]
  /\ UNCHANGED <<cloudVars, tableVars, submitVars, tool>>

CancelAsks(a) ==
  /\ canceler = [at |-> "ask", attempt |-> a]
  /\ job' = [job EXCEPT ![a] = Asked(@)]
  /\ canceler' = [canceler EXCEPT !.at = "attempt"]
  /\ UNCHANGED <<entries, arrived, tableVars, submitVars, tool>>

\* Mutant: a request that fails does not end the command.
Mut_CancelFails(a) ==
  /\ canceler = [at |-> "ask", attempt |-> a]
  /\ CanFail(a)
  /\ canceler' = [canceler EXCEPT !.at = "attempt"]
  /\ UNCHANGED <<cloudVars, tableVars, submitVars, tool>>

CancelFails(a) ==
  /\ canceler = [at |-> "ask", attempt |-> a]
  /\ CanFail(a)
  /\ canceler' = Idle
  /\ UNCHANGED <<cloudVars, tableVars, submitVars, tool>>

CancelFinishesAttempt(a) ==
  /\ canceler = [at |-> "attempt", attempt |-> a]
  /\ attempt' = [attempt EXCEPT ![a] = "canceled"]
  /\ canceler' = [canceler EXCEPT !.at = "run"]
  /\ UNCHANGED <<cloudVars, run, ref, row, submitVars, tool>>

CancelFinishesRun(a) ==
  /\ canceler = [at |-> "run", attempt |-> a]
  /\ run' = "canceled"
  /\ canceler' = Idle
  /\ UNCHANGED <<cloudVars, attempt, ref, row, submitVars, tool>>

-----------------------------------------------------------------------------
(* `resources refresh`; `resources cleanup` leaves custom jobs alone *)

\* What the state of a job means for its row.
Status(j) == IF j \in Live THEN "running"
             ELSE IF j = "partly" THEN "succeeded"
             ELSE IF j = "cancelled" THEN "canceled" ELSE j

\* Mutant: only rows of attempts that are over are looked at.
Mut_RefreshReads(a) ==
  /\ tool = None
  /\ row[a] # "none" /\ attempt[a] # "running"
  /\ tool' = [attempt |-> a, state |-> Status(job[a])]
  /\ UNCHANGED <<cloudVars, tableVars, submitVars, canceler>>

\* The row is there, and the job's state is asked for.
RefreshReads(a) ==
  /\ tool = None
  /\ row[a] # "none"
  /\ tool' = [attempt |-> a, state |-> Status(job[a])]
  /\ UNCHANGED <<cloudVars, tableVars, submitVars, canceler>>

\* Whatever the row has become since.
RefreshSaves(a) ==
  /\ tool.attempt = a
  /\ row' = [row EXCEPT ![a] = tool.state]
  /\ tool' = None
  /\ UNCHANGED <<cloudVars, run, attempt, ref, submitVars, canceler>>

RefreshFails(a) ==
  /\ tool.attempt = a
  /\ "row" \in Faults
  /\ tool' = None
  /\ UNCHANGED <<cloudVars, tableVars, submitVars, canceler>>

-----------------------------------------------------------------------------
(* Specification *)

CloudStep(a) ==
  \/ JobEnds(a) \/ (\E k \in Kinds : JobWrites(a, k))
  \/ \E e \in DOMAIN entries[a] : Arrives(a, e)

SubmitStep(a) ==
  \/ Create(a) \/ CreateFails(a) \/ OnResourceCreated(a) \/ OnStarted(a) \/ NotRecorded(a)
  \/ Drain(a) \/ DrainFails(a)
  \/ SeesSuccess(a) \/ SeesFailure(a) \/ GoesRound(a) \/ PollFails(a)
  \/ OnResourceUpdated(a) \/ UpdateFails(a)
  \/ Check(a) \/ FinishAttempt(a) \/ FinishRun(a)

CancelStep(a) ==
  \/ CancelReads(a) \/ CancelAsks(a) \/ CancelFails(a)
  \/ CancelFinishesAttempt(a) \/ CancelFinishesRun(a)

RefreshStep(a) == RefreshReads(a) \/ RefreshSaves(a) \/ RefreshFails(a)

Next ==
  \E a \in Attempts :
    \/ CloudStep(a) \/ Start(a) \/ SubmitStep(a) \/ Crash(a)
    \/ CancelStep(a) \/ RefreshStep(a)

Spec == Init /\ [][Next]_vars

\* A process that is not killed keeps going, and somebody refreshes again and
\* again, now and then without a failure.
FairSpec ==
  /\ Spec
  /\ \A a \in Attempts :
       WF_vars(SubmitStep(a)) /\ SF_vars(RefreshReads(a)) /\ SF_vars(RefreshSaves(a))

-----------------------------------------------------------------------------
(* Types *)

JobStates == {"none"} \cup Live \cup Final
RowStates == {"none", "running", "succeeded", "failed", "canceled"}
Returned  == {"check", "attempt", "run", "over"}

StatesOK ==
  /\ job \in [Attempts -> JobStates]
  /\ run \in RowStates /\ attempt \in [Attempts -> RowStates]
  /\ ref \in [Attempts -> BOOLEAN] /\ row \in [Attempts -> RowStates]
  /\ pc \in [Attempts -> {"none", "create", "created", "started", "drain", "poll"} \cup Returned]
  /\ result \in [Attempts -> {"none", "succeeded", "failed", "canceled"}]
  /\ faulted \in [Attempts -> SUBSET AllFaults]
  /\ canceler \in [at : {"idle", "ask", "attempt", "run"}, attempt : 0..MaxAttempts]
  /\ tool \in [attempt : 0..MaxAttempts, state : RowStates]

LogsOK ==
  /\ entries \in [Attempts -> Seq(Kinds)]
  /\ arrived \in [Attempts -> Seq(1..MaxEntries)]
  /\ log \in Seq([attempt : Attempts, entry : 1..MaxEntries])
  /\ seen \in [Attempts -> SUBSET (1..MaxEntries)]
  /\ due \in [Attempts -> SUBSET (1..MaxEntries)]

TypeOK == StatesOK /\ LogsOK

-----------------------------------------------------------------------------
(* Properties *)

\* A row that says a job is over says how it ended, and an attempt has
\* succeeded only if its job has: whatever a stale `refresh` writes back, and
\* although a job that is being canceled may still end otherwise.
RowsAreTrue ==
  \A a \in Attempts :
    /\ row[a] \in {"succeeded", "failed", "canceled"} => row[a] = Status(job[a])
    /\ attempt[a] = "succeeded" => job[a] = "succeeded"

\* Unless a request of Submit fails or its process dies, it does not leave a
\* job behind that nobody has asked to stop.  If a callback fails, only a
\* second failure, that of its cancel, leaves one.
NoJobIsAbandoned ==
  \A a \in Attempts :
    pc[a] \in Returned /\ job[a] = "running" =>
      faulted[a] \cap {"answer", "cancel", "poll", "crash"} # {}

\* A job that runs on after its Submit is listed as running, so a user can
\* find it, unless not even its row could be written.
LiveJobIsListed ==
  \A a \in Attempts :
    pc[a] \in Returned /\ job[a] = "running" =>
      \/ row[a] = "running"
      \/ "answer" \in faulted[a] \/ {"row", "cancel"} \subseteq faulted[a]
      \/ "crash" \in faulted[a] /\ row[a] = "none"

\* An attempt that `cancel` has marked as canceled has a job that has been
\* asked to stop or is over.
CanceledJobIsAsked ==
  \A a \in Attempts : attempt[a] = "canceled" => job[a] # "running"

\* Entries of a job are in the log once, although every drain lists all of
\* them again, and in the order of their timestamps, but for those that came
\* up late.
EntriesOnceInOrder ==
  \A p, q \in DOMAIN log :
    LET m == log[p].entry
        n == log[q].entry
        a == log[p].attempt
    IN  p < q /\ log[q].attempt = a /\ m >= n =>
          \E i, j \in DOMAIN arrived[a] : i < j /\ arrived[a][i] = m /\ arrived[a][j] = n

\* What a successful job had in the log service when Submit saw its success
\* is in the log when the attempt is settled, unless the last listing failed.
SuccessIsDrained ==
  \A a \in Attempts :
    attempt[a] = "succeeded" /\ "list" \notin faulted[a] =>
      \A e \in due[a] : entries[a][e] # "blank" => Entry(a, e) \in ToSet(log)

\* Submit ends when its job has, unless the job succeeds in part only.
JobEndReturns ==
  \A a \in Attempts :
    job[a] \in Final \ {"partly"} ~> pc[a] = "over"

\* However stale a row has become, it ends up with the final state of its job.
RowsConverge ==
  \A a \in Attempts :
    (row[a] # "none" /\ job[a] \in Final) ~> [](row[a] = Status(job[a]))

=============================================================================
