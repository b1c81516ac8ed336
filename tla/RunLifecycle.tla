--------------------------- MODULE RunLifecycle ---------------------------
(***************************************************************************)
(* One training run of switchboard-cli and every CLI process that works on *)
(* it: the `train` invocation that creates the run, `resume` invocations   *)
(* that restart it, and `cancel` invocations.  The processes share nothing *)
(* but the SQLite rows of the run (runs, attempts), its events.jsonl and   *)
(* its summary.json; every SQL statement is a transaction of its own, so   *)
(* every statement is an action here and the processes interleave between  *)
(* them.  Rows of other runs are keyed by another run id and never read.   *)
(*                                                                         *)
(* Attempt ids are random in the code; here the id of an attempt is        *)
(* <<launcher, attemptNumber>>, which is unique because an invocation      *)
(* inserts at most one row per turn of its attempt loop.                   *)
(***************************************************************************)
EXTENDS Integers, Sequences

CONSTANTS
  Trainer,             \* the `train` invocation
  Resumers,            \* the `resume <run-id>` invocations
  Cancelers,           \* the `cancel <run-id>` invocations
  Providers,           \* provider names in the registry
  AutoRoute,           \* provider "auto"
  NoProvider,          \* no provider chosen yet
  Schemes,             \* checkpoint URI schemes
  Reads,               \* SupportedCheckpointSchemes of each provider
  Steps,               \* step numbers checkpoint events may carry
  OutcomeCodes,        \* exit codes a provider's Submit may report
  RoutingMaxAttempts,  \* routing.max_attempts of the config
  MaxEvents,           \* bound: checkpoint events in events.jsonl
  Overlap,             \* FALSE: a command starts when the others have ended
  Faults               \* subset of {"crash", "io"}: a process dies, a
                       \* database statement or file operation fails

Launchers == {Trainer} \cup Resumers
Procs     == Launchers \cup Cancelers
Targets   == Providers \cup {AutoRoute}

ASSUME LifecycleAssumption ==
  /\ Trainer \notin Resumers
  /\ Launchers \cap Cancelers = {}
  /\ AutoRoute \notin Providers
  /\ NoProvider \notin Providers
  /\ Reads \in [Providers -> SUBSET Schemes]
  /\ Steps \subseteq Int
  /\ OutcomeCodes \subseteq Nat
  /\ RoutingMaxAttempts \in Int
  /\ MaxEvents \in Nat
  /\ Overlap \in BOOLEAN
  /\ Faults \subseteq {"crash", "io"}

\* internal/cli/root.go: the stable exit categories
exitCodeInternal      == 1
exitCodeInvalidSpec   == 10
exitCodeRouting       == 30
exitCodeMissingResume == 40
exitCodeCanceled      == 130

\* A configuration that asks for no attempt still gets one.
maxAttempts == IF RoutingMaxAttempts < 1 THEN 1 ELSE RoutingMaxAttempts

AttemptIds == Launchers \X (1..maxAttempts)
NoAttempt  == <<>>

RunStates == {"running", "succeeded", "failed", "canceled"}

\* What Submit hands back: a result with the job's own exit code, or an
\* error that IsRetryableProviderError accepts or does not.  Only the local
\* adapter reports an error with a zero exit code (it could not start the
\* process); its errors are never retryable.
Outcomes ==
  {o \in [kind : {"result", "retryable", "fatal"}, code : OutcomeCodes] :
     o.kind = "retryable" => o.code # 0}
NoOutcome == [kind |-> "none", code |-> 0]

VARIABLES
  run,        \* row of table runs: state ("absent" before CreateRun), code
  attempts,   \* rows of table attempts ("none" before CreateAttempt)
  clock,      \* started_at of the newest attempt row
  events,     \* checkpoint events of events.jsonl, in file order
  summary,    \* summary.json: run state and attempt states, or NoSummary
  pc,         \* where each process is
  target,     \* resolved.Provider of each launcher
  number,     \* attemptNumber of the attempt loop
  excluded,   \* providers this invocation will not route to again
  resumeFrom, \* checkpoint to resume from: index in events, 0 for nil
  provider,   \* selectedProvider
  outcome,    \* what Submit returned
  ret,        \* the pair (code, err # nil) the invocation will return
  picked,     \* the running attempt a canceler chose
  snap,       \* what writeSummary has read so far
  left        \* history: the launchers that have left a row for others to
              \* settle: the run (since it was last restarted) or an attempt,
              \* having stopped early, or having found the run canceled

files    == <<events, summary>>
dbVars   == <<run, attempts, clock, files>>
loopVars == <<target, number, excluded, resumeFrom, provider, outcome>>
locals   == <<loopVars, ret, picked, snap, left>>
vars     == <<dbVars, pc, locals>>

NoSummary == [run |-> "absent", attempts |-> [a \in AttemptIds |-> "none"]]
NoRow     == [state |-> "none", provider |-> NoProvider, ref |-> FALSE,
              resume |-> 0, started |-> 0]

Init ==
  /\ run = [state |-> "absent", code |-> 0]
  /\ attempts = [a \in AttemptIds |-> NoRow]
  /\ clock = 0
  /\ events = <<>>
  /\ summary = NoSummary
  /\ pc = [p \in Procs |-> "idle"]
  /\ target = [l \in Launchers |-> AutoRoute]
  /\ number = [l \in Launchers |-> 1]
  /\ excluded = [l \in Launchers |-> {}]
  /\ resumeFrom = [l \in Launchers |-> 0]
  /\ provider = [l \in Launchers |-> NoProvider]
  /\ outcome = [l \in Launchers |-> NoOutcome]
  /\ ret = [p \in Procs |-> [code |-> 0, err |-> FALSE]]
  /\ picked = [c \in Cancelers |-> NoAttempt]
  /\ snap = [p \in Procs |-> NoSummary]
  /\ left = [run |-> {}, attempt |-> {}, canceled |-> {}]

-----------------------------------------------------------------------------
(* Helpers *)

Active(p) == pc[p] \notin {"idle", "done", "crashed"}
MayStart  == Overlap \/ \A q \in Procs : ~Active(q)

\* An attempt is being made: its row has been inserted and not yet finished.
AttemptPcs == {"prepare", "failAttempt", "submit", "running", "check",
               "finishAttempt"}

\* The launcher has (re)started the run and still owes the row a final state.
WorkingPcs == AttemptPcs \cup {"route", "create", "finishRun", "failover",
                               "giveUp"}

Attempting == {l \in Launchers : pc[l] \in AttemptPcs}
Working    == {l \in Launchers : pc[l] \in WorkingPcs}

\* A process that stops here does not settle any more what it works on.
Abandons(p) ==
  left' = [left EXCEPT !.run = @ \cup ({p} \cap Working),
                       !.attempt = @ \cup ({p} \cap Attempting)]

Goto(p, from, to) == pc[p] = from /\ pc' = [pc EXCEPT ![p] = to]

Return(p, code, err) == ret' = [ret EXCEPT ![p] = [code |-> code, err |-> err]]

\* The exit status Execute gives the process: only an exitCodeError keeps its
\* code, and the commands wrap the code only when there is no other error.
ExitStatus(p) == IF ret[p].err THEN 1 ELSE ret[p].code

Current(l) == <<l, number[l]>>

\* Mutant: the newest checkpoint event instead of the highest step.
Mut_Latest(i) == i = Len(events) /\ i # 0

\* checkpoint.Resolver.Latest: the highest step; the later of equal steps.
Latest(i) ==
  /\ i \in DOMAIN events
  /\ \A j \in DOMAIN events :
       \/ events[j].step < events[i].step
       \/ events[j].step = events[i].step /\ j <= i

\* Mutant: nobody checks whether the provider reads the checkpoint's scheme.
Mut_Supports(p, i) == TRUE

\* supportedCheckpointScheme / ensureProviderSupportsCheckpoint
Supports(p, i) == i # 0 => events[i].scheme \in Reads[p]

\* Mutant: the exclusions are not handed to the router.
Mut_Eligible(l) == {p \in Providers : Supports(p, resumeFrom[l])}

\* The providers routing.Select may choose: not excluded, and able to read
\* the checkpoint.  Its other rejections (validation, estimate, data scheme,
\* hardware) and its ranking are left open: any of these may be selected, and
\* Select may also find none.
Eligible(l) ==
  {p \in Providers : p \notin excluded[l] /\ Supports(p, resumeFrom[l])}

-----------------------------------------------------------------------------
(* train and resume: up to the attempt loop *)

\* runTrain: whatever fails before CreateRun leaves no trace of a run, so the
\* action starts with the insert.
StartTrain(l) ==
  /\ l = Trainer
  /\ MayStart
  /\ Goto(l, "idle", "route")
  /\ run' = [state |-> "running", code |-> 0]
  /\ \E t \in Targets : target' = [target EXCEPT ![l] = t]
  /\ UNCHANGED <<attempts, clock, events, summary, number, excluded,
                 resumeFrom, provider, outcome, ret, picked, snap, left>>

\* runResume up to RestartRun: the run must exist, whatever its state, and
\* have a checkpoint.  A read that fails counts as nothing found.  The job is
\* prepared between these reads and the restart.
ResumeScan(l) ==
  /\ l \in Resumers
  /\ MayStart
  /\ \/ /\ run.state = "absent" \/ "io" \in Faults
        /\ Goto(l, "idle", "done")
        /\ Return(l, exitCodeInvalidSpec, TRUE)
        /\ UNCHANGED resumeFrom
     \/ /\ run.state # "absent"
        /\ events = <<>> \/ "io" \in Faults
        /\ Goto(l, "idle", "done")
        /\ Return(l, exitCodeMissingResume, TRUE)
        /\ UNCHANGED resumeFrom
     \/ /\ run.state # "absent"
        /\ \E i \in DOMAIN events :
             Latest(i) /\ resumeFrom' = [resumeFrom EXCEPT ![l] = i]
        /\ Goto(l, "idle", "restart")
        /\ UNCHANGED ret
  /\ UNCHANGED <<dbVars, target, number, excluded, provider, outcome,
                 picked, snap, left>>

\* Credentials or job preparation fail, or RestartRun itself: nothing was
\* written.
ResumeNotPrepared(l) ==
  /\ Goto(l, "restart", "done")
  /\ \/ Return(l, exitCodeInvalidSpec, TRUE)
     \/ "io" \in Faults /\ Return(l, exitCodeInternal, TRUE)
  /\ UNCHANGED <<dbVars, loopVars, picked, snap, left>>

RestartRun(l) ==
  /\ Goto(l, "restart", "route")
  /\ run' = [state |-> "running", code |-> 0]
  /\ \E t \in Targets : target' = [target EXCEPT ![l] = t]
  /\ left' = [left EXCEPT !.run = {}]
  /\ UNCHANGED <<attempts, clock, events, summary, number, excluded,
                 resumeFrom, provider, outcome, ret, picked, snap>>

-----------------------------------------------------------------------------
(* runAttempts: one turn of the loop up to the attempt *)

SelectProvider(l) ==
  /\ target[l] = AutoRoute
  /\ \E p \in Eligible(l) : provider' = [provider EXCEPT ![l] = p]
  /\ Goto(l, "route", "create")
  /\ UNCHANGED <<dbVars, target, number, excluded, resumeFrom, outcome, ret,
                 picked, snap, left>>

RoutingFails(l) ==
  /\ target[l] = AutoRoute
  /\ Goto(l, "route", "giveUp")
  /\ Return(l, IF resumeFrom[l] # 0 THEN exitCodeMissingResume
                                    ELSE exitCodeRouting, TRUE)
  /\ UNCHANGED <<dbVars, loopVars, picked, snap, left>>

UseExplicitProvider(l) ==
  /\ target[l] # AutoRoute
  /\ Supports(target[l], resumeFrom[l])
  /\ provider' = [provider EXCEPT ![l] = target[l]]
  /\ Goto(l, "route", "create")
  /\ UNCHANGED <<dbVars, target, number, excluded, resumeFrom, outcome, ret,
                 picked, snap, left>>

ExplicitProviderCannotResume(l) ==
  /\ target[l] # AutoRoute
  /\ ~Supports(target[l], resumeFrom[l])
  /\ Goto(l, "route", "giveUp")
  /\ Return(l, exitCodeMissingResume, TRUE)
  /\ UNCHANGED <<dbVars, loopVars, picked, snap, left>>

-----------------------------------------------------------------------------
(* runAttempt *)

NewRow(l) ==
  [state |-> "running", provider |-> provider[l], ref |-> FALSE,
   resume |-> resumeFrom[l], started |-> clock + 1]

CreateAttempt(l) ==
  /\ Goto(l, "create", "prepare")
  /\ attempts' = [attempts EXCEPT ![Current(l)] = NewRow(l)]
  /\ clock' = clock + 1
  /\ UNCHANGED <<run, events, summary, locals>>

\* Mutant: only the run is failed, the attempt row is forgotten.
Mut_PrepareFails(l) ==
  /\ Goto(l, "prepare", "giveUp")
  /\ \E code \in {exitCodeInternal, exitCodeInvalidSpec, exitCodeRouting} :
       Return(l, code, TRUE)
  /\ UNCHANGED <<dbVars, loopVars, picked, snap, left>>

\* registry.Get, PrepareLocal, ValidateJob or Estimate fail: finishFailed,
\* two statements whose errors are ignored.
PrepareFails(l) ==
  /\ Goto(l, "prepare", "failAttempt")
  /\ \E code \in {exitCodeInternal, exitCodeInvalidSpec, exitCodeRouting} :
       Return(l, code, TRUE)
  /\ UNCHANGED <<dbVars, loopVars, picked, snap, left>>

FailAttempt(l) ==
  /\ Goto(l, "failAttempt", "giveUp")
  /\ attempts' = [attempts EXCEPT ![Current(l)].state = "failed"]
  /\ UNCHANGED <<run, clock, files, locals>>

\* UpdateAttemptEstimate succeeded; Submit is called.
CallSubmit(l) ==
  /\ Goto(l, "prepare", "submit")
  /\ UNCHANGED <<dbVars, locals>>

\* The adapter started the job and called OnStarted: UpdateAttemptProviderRef.
\* (Finishing the attempt rewrites the ref, which nobody reads from then on.)
OnStarted(l) ==
  /\ Goto(l, "submit", "running")
  /\ attempts' = [attempts EXCEPT ![Current(l)].ref = TRUE]
  /\ UNCHANGED <<run, clock, files, locals>>

\* The adapter mirrors a checkpoint line of the job into events.jsonl.
EmitCheckpoint(l) ==
  /\ pc[l] = "running"
  /\ Len(events) < MaxEvents
  /\ \E s \in Steps, sch \in Schemes :
       events' = Append(events, [step |-> s, scheme |-> sch, by |-> Current(l)])
  /\ UNCHANGED <<run, attempts, clock, summary, pc, locals>>

\* Before OnStarted only an error can come back (including OnStarted's own).
SubmitReturns(l) ==
  /\ \/ Goto(l, "running", "check")
     \/ Goto(l, "submit", "check")
  /\ \E o \in Outcomes :
       /\ pc[l] = "submit" => o.kind # "result"
       /\ outcome' = [outcome EXCEPT ![l] = o]
  /\ UNCHANGED <<dbVars, target, number, excluded, resumeFrom, provider, ret,
                 picked, snap, left>>

\* Mutant: the run row is not read again after Submit.
Mut_CheckRun(l) ==
  /\ Goto(l, "check", "finishAttempt")
  /\ UNCHANGED <<dbVars, locals>>

\* After Submit, with or without an error: GetRun, and a canceled run is left
\* exactly as the canceler wrote it.
CheckRun(l) ==
  \/ /\ run.state = "canceled"
     /\ Goto(l, "check", "readRun")
     /\ Return(l, exitCodeCanceled, FALSE)
     /\ left' = [left EXCEPT !.canceled = @ \cup {l}]
     /\ UNCHANGED <<dbVars, loopVars, picked, snap>>
  \/ /\ run.state # "canceled"
     /\ Goto(l, "check", "finishAttempt")
     /\ UNCHANGED <<dbVars, locals>>

\* Mutant: a job that ended counts as succeeded whatever its exit code.
Mut_FinalState(o) == IF o.kind = "result" THEN "succeeded" ELSE "failed"

\* The state of a finished attempt; a run that ends with it gets the same.
FinalState(o) ==
  IF o.kind = "result" /\ o.code = 0 THEN "succeeded" ELSE "failed"

\* Mutant: an error that is not retryable returns before FinishRun.
Mut_AfterAttempt(o) ==
  CASE o.kind = "retryable" -> "failover"
    [] o.kind = "fatal"     -> "readRun"
    [] OTHER                -> "finishRun"

\* Where a finished attempt leads: a retryable error leaves the run row to
\* runAttempts, everything else finishes the run.
AfterAttempt(o) == IF o.kind = "retryable" THEN "failover" ELSE "finishRun"

FinishAttempt(l) ==
  /\ Goto(l, "finishAttempt", AfterAttempt(outcome[l]))
  /\ attempts' = [attempts EXCEPT ![Current(l)].state = FinalState(outcome[l])]
  /\ Return(l, outcome[l].code, outcome[l].kind # "result")
  /\ UNCHANGED <<run, clock, events, summary, loopVars, picked, snap, left>>

FinishRun(l) ==
  /\ Goto(l, "finishRun", "readRun")
  /\ run' = [state |-> FinalState(outcome[l]), code |-> outcome[l].code]
  /\ UNCHANGED <<attempts, clock, files, locals>>

-----------------------------------------------------------------------------
(* runAttempts: after a retryable failure *)

\* No further attempt will be made.
LastAttempt(l) == target[l] # AutoRoute \/ number[l] = maxAttempts

\* The retryable failure is the invocation's result.
OutOfAttempts(l) ==
  /\ LastAttempt(l)
  /\ Goto(l, "failover", "giveUp")
  /\ UNCHANGED <<dbVars, locals>>

NoCheckpointToFailOver(l) ==
  /\ ~LastAttempt(l)
  /\ events = <<>> \/ "io" \in Faults
  /\ Goto(l, "failover", "giveUp")
  /\ excluded' = [excluded EXCEPT ![l] = @ \cup {provider[l]}]
  /\ Return(l, exitCodeMissingResume, TRUE)
  /\ UNCHANGED <<dbVars, target, number, resumeFrom, provider, outcome,
                 picked, snap, left>>

FailOver(l) ==
  /\ ~LastAttempt(l)
  /\ Goto(l, "failover", "route")
  /\ excluded' = [excluded EXCEPT ![l] = @ \cup {provider[l]}]
  /\ \E i \in DOMAIN events :
       Latest(i) /\ resumeFrom' = [resumeFrom EXCEPT ![l] = i]
  /\ number' = [number EXCEPT ![l] = @ + 1]
  /\ UNCHANGED <<dbVars, target, provider, outcome, ret, picked, snap, left>>

\* Mutant: the failed run is returned without rewriting the summary.
Mut_GiveUp(l) ==
  /\ Goto(l, "giveUp", "done")
  /\ run' = [state |-> "failed", code |-> ret[l].code]
  /\ UNCHANGED <<attempts, clock, files, locals>>

\* finishRunOnly, and the second statement of finishFailed.
GiveUp(l) ==
  /\ Goto(l, "giveUp", "readRun")
  /\ run' = [state |-> "failed", code |-> ret[l].code]
  /\ UNCHANGED <<attempts, clock, files, locals>>

-----------------------------------------------------------------------------
(* writeSummary, by launchers and cancelers alike *)

ReadRun(p) ==
  /\ Goto(p, "readRun", "readAttempts")
  /\ snap' = [snap EXCEPT ![p].run = run.state]
  /\ UNCHANGED <<dbVars, loopVars, ret, picked, left>>

ReadAttempts(p) ==
  /\ Goto(p, "readAttempts", "writeSummary")
  /\ snap' = [snap EXCEPT ![p].attempts =
                 [a \in AttemptIds |-> attempts[a].state]]
  /\ UNCHANGED <<dbVars, loopVars, ret, picked, left>>

WriteSummary(p) ==
  /\ Goto(p, "writeSummary", "done")
  /\ summary' = snap[p]
  /\ snap' = [snap EXCEPT ![p] = NoSummary]
  /\ UNCHANGED <<run, attempts, clock, events, loopVars, ret, picked, left>>

-----------------------------------------------------------------------------
(* cancelRun *)

CancelReadRun(c) ==
  \/ /\ MayStart
     /\ run.state = "running"
     /\ Goto(c, "idle", "pick")
     /\ UNCHANGED <<dbVars, locals>>
  \/ /\ MayStart
     /\ run.state # "running"    \* unknown run, or "already <state>"
     /\ Goto(c, "idle", "done")
     /\ IF run.state = "absent" THEN Return(c, exitCodeInternal, TRUE)
                                 ELSE Return(c, 0, FALSE)
     /\ UNCHANGED <<dbVars, loopVars, picked, snap, left>>

\* The running attempt with the latest started_at (rows are inserted in the
\* order of their start times).
LastRunning(a) ==
  /\ a \in AttemptIds
  /\ attempts[a].state = "running"
  /\ \A b \in AttemptIds :
       attempts[b].state = "running" => attempts[b].started <= attempts[a].started

CancelPick(c) ==
  \/ /\ \E a \in AttemptIds :
          /\ LastRunning(a)
          /\ attempts[a].ref
          /\ picked' = [picked EXCEPT ![c] = a]
     /\ Goto(c, "pick", "cancelAttempt")
     /\ UNCHANGED <<dbVars, loopVars, ret, snap, left>>
  \/ /\ \A a \in AttemptIds : LastRunning(a) => ~attempts[a].ref
     /\ Goto(c, "pick", "done")
     /\ Return(c, exitCodeInternal, TRUE)
     /\ UNCHANGED <<dbVars, loopVars, picked, snap, left>>

\* adapter.Cancel asked the provider to stop the job and returned nil; what
\* the job does with the request shows in Submit's outcome, which is open.
CancelAttempt(c) ==
  /\ Goto(c, "cancelAttempt", "cancelRun")
  /\ attempts' = [attempts EXCEPT ![picked[c]].state = "canceled"]
  /\ UNCHANGED <<run, clock, files, locals>>

CancelRun(c) ==
  /\ Goto(c, "cancelRun", "readRun")
  /\ run' = [state |-> "canceled", code |-> exitCodeCanceled]
  /\ UNCHANGED <<attempts, clock, files, locals>>

\* adapter.Cancel, a statement or the summary fails: cancelRun returns at once.
CancelFails(c) ==
  /\ "io" \in Faults
  /\ pc[c] \in {"pick", "cancelAttempt", "cancelRun", "readRun",
               "readAttempts", "writeSummary"}
  /\ pc' = [pc EXCEPT ![c] = "done"]
  /\ Return(c, exitCodeInternal, TRUE)
  /\ UNCHANGED <<dbVars, loopVars, picked, snap, left>>

-----------------------------------------------------------------------------
(* Failures of the launchers themselves *)

\* A statement whose error runAttempt returns: no further row is written.
DBError(l) ==
  /\ "io" \in Faults
  /\ pc[l] \in {"create", "prepare", "check", "finishAttempt", "finishRun"}
  /\ pc' = [pc EXCEPT ![l] = "readRun"]
  /\ Return(l, exitCodeInternal, TRUE)
  /\ Abandons(l)
  /\ UNCHANGED <<dbVars, loopVars, picked, snap>>

\* A statement of finishFailed or finishRunOnly, whose errors are ignored.
LostWrite(l) ==
  /\ "io" \in Faults
  /\ \/ /\ Goto(l, "failAttempt", "giveUp")
        /\ left' = [left EXCEPT !.attempt = @ \cup {l}]
     \/ /\ Goto(l, "giveUp", "readRun")
        /\ left' = [left EXCEPT !.run = @ \cup {l}]
  /\ UNCHANGED <<dbVars, loopVars, ret, picked, snap>>

\* writeSummary fails: ignored when an error is being returned already;
\* otherwise it becomes the invocation's error, and runAttempts, which sees
\* an error now, writes the summary once more.
SummaryFails(l) ==
  /\ "io" \in Faults
  /\ pc[l] \in {"readRun", "readAttempts", "writeSummary"}
  /\ \/ /\ ret[l].err
        /\ pc' = [pc EXCEPT ![l] = "done"]
        /\ UNCHANGED ret
     \/ /\ ~ret[l].err
        /\ pc' = [pc EXCEPT ![l] = "readRun"]
        /\ Return(l, exitCodeInternal, TRUE)
  /\ UNCHANGED <<dbVars, loopVars, picked, snap, left>>

\* Ctrl-C, a kill or a lost machine: no handler runs and the rows stay as
\* they are.
Crash(p) ==
  /\ "crash" \in Faults
  /\ pc[p] \notin {"idle", "done", "crashed"}
  /\ pc' = [pc EXCEPT ![p] = "crashed"]
  /\ Abandons(p)
  /\ UNCHANGED <<dbVars, loopVars, ret, picked, snap>>

-----------------------------------------------------------------------------
LauncherStep(l) ==
  \/ RestartRun(l)
  \/ SelectProvider(l) \/ RoutingFails(l)
  \/ UseExplicitProvider(l) \/ ExplicitProviderCannotResume(l)
  \/ CreateAttempt(l) \/ PrepareFails(l) \/ FailAttempt(l)
  \/ CallSubmit(l) \/ OnStarted(l) \/ SubmitReturns(l)
  \/ CheckRun(l) \/ FinishAttempt(l) \/ FinishRun(l)
  \/ OutOfAttempts(l) \/ NoCheckpointToFailOver(l) \/ FailOver(l)
  \/ GiveUp(l)

SummaryStep(p) == ReadRun(p) \/ ReadAttempts(p) \/ WriteSummary(p)

CancelStep(c) ==
  CancelReadRun(c) \/ CancelPick(c) \/ CancelAttempt(c) \/ CancelRun(c)

LauncherFault(l) == DBError(l) \/ LostWrite(l) \/ SummaryFails(l)

Next ==
  \/ \E l \in Launchers :
       \/ StartTrain(l) \/ ResumeScan(l) \/ ResumeNotPrepared(l)
       \/ LauncherStep(l) \/ EmitCheckpoint(l) \/ LauncherFault(l)
  \/ \E c \in Cancelers : CancelStep(c) \/ CancelFails(c)
  \/ \E p \in Procs : SummaryStep(p) \/ Crash(p)

\* A process that runs keeps running, and a job ends: Submit returns.
\* Nothing obliges a user to start another command, a job to write a
\* checkpoint, or a fault to happen.
Fairness ==
  /\ \A l \in Launchers : WF_vars(LauncherStep(l))
  /\ \A p \in Procs : WF_vars(SummaryStep(p))

Spec     == Init /\ [][Next]_vars
FairSpec == Spec /\ Fairness

-----------------------------------------------------------------------------
(* Type invariant *)

SummaryPcs  == {"readRun", "readAttempts", "writeSummary"}
EndPcs      == {"idle", "done", "crashed"}
LauncherPcs == WorkingPcs \cup SummaryPcs \cup EndPcs \cup {"restart"}
CancelerPcs == SummaryPcs \cup EndPcs \cup {"pick", "cancelAttempt", "cancelRun"}

AttemptStates == RunStates \cup {"none"}
Summaries == [run : RunStates \cup {"absent"}, attempts : [AttemptIds -> AttemptStates]]
Rows == [state : AttemptStates, provider : Providers \cup {NoProvider},
         ref : BOOLEAN, resume : Nat, started : Nat]
Events == [step : Steps, scheme : Schemes, by : AttemptIds]

RowsOK ==
  /\ run \in [state : RunStates \cup {"absent"}, code : Nat]
  /\ clock \in Nat
  /\ attempts \in [AttemptIds -> Rows]

FilesOK ==
  /\ summary \in Summaries
  /\ snap \in [Procs -> Summaries]

PcOK ==
  /\ pc \in [Procs -> LauncherPcs \cup CancelerPcs]
  /\ \A l \in Launchers : pc[l] \in LauncherPcs
  /\ \A c \in Cancelers : pc[c] \in CancelerPcs

LoopOK ==
  /\ target \in [Launchers -> Targets]
  /\ number \in [Launchers -> 1..maxAttempts]
  /\ excluded \in [Launchers -> SUBSET (Providers \cup {NoProvider})]
  /\ provider \in [Launchers -> Providers \cup {NoProvider}]
  /\ outcome \in [Launchers -> Outcomes \cup {NoOutcome}]

\* A checkpoint chosen for resuming is an event that is in the file.
ResumeOK ==
  /\ events \in Seq(Events)
  /\ resumeFrom \in [Launchers -> Nat]
  /\ \A l \in Launchers : resumeFrom[l] <= Len(events)
  /\ \A a \in AttemptIds : attempts[a].resume <= Len(events)

ResultOK ==
  /\ ret \in [Procs -> [code : Nat, err : BOOLEAN]]
  /\ picked \in [Cancelers -> AttemptIds \cup {NoAttempt}]
  /\ left \in [run : SUBSET Launchers, attempt : SUBSET Launchers,
              canceled : SUBSET Launchers]

\* Every row, file and variable holds values the code can put there; the
\* attempt number never runs past routing.max_attempts.
TypeOK == RowsOK /\ FilesOK /\ PcOK /\ LoopOK /\ ResumeOK /\ ResultOK

-----------------------------------------------------------------------------
(* Safety *)

Exists(a) == attempts[a].state # "none"

\* Failover never goes back to a provider it gave up on: two attempts of one
\* invocation run on different providers, and only `auto` makes two.  (The
\* excluded map of runAttempts outlives every turn of the loop.)
FailoverMovesOn ==
  \A l \in Launchers : \A i, j \in 1..maxAttempts :
    i # j /\ Exists(<<l, i>>) /\ Exists(<<l, j>>) =>
      /\ target[l] = AutoRoute
      /\ attempts[<<l, i>>].provider # attempts[<<l, j>>].provider

\* An attempt that resumes runs on a provider that can read the scheme of the
\* checkpoint URI, on the routed and on the explicit path, for a failover and
\* for a `resume`, though the checkpoint was chosen before the provider.
ResumeIsReadable ==
  \A a \in AttemptIds :
    Exists(a) /\ attempts[a].resume # 0 =>
      events[attempts[a].resume].scheme \in Reads[attempts[a].provider]

\* A failover loses no recorded progress: a later attempt of an invocation
\* resumes, and from a step at least as high as every checkpoint an earlier
\* one recorded and as the step that one resumed from itself.
NoProgressLost ==
  \A l \in Launchers : \A i, j \in 1..maxAttempts :
    i < j /\ Exists(<<l, j>>) =>
      /\ attempts[<<l, j>>].resume # 0
      /\ \A k \in DOMAIN events :
           events[k].by = <<l, i>> \/ k = attempts[<<l, i>>].resume =>
             events[k].step <= events[attempts[<<l, j>>].resume].step

\* A run is marked running only while an invocation is working on it.  An
\* invocation that returns has settled the row: whatever path it took, and
\* whatever cancelers and other invocations, a resume of the same run among
\* them, wrote between its statements.  The row stays running only if one of
\* them was killed in its attempt loop, or had the statement fail that was to
\* settle it, and nobody has resumed the run since.
RunningHasOwner == run.state = "running" => Working \cup left.run # {}

\* An attempt is marked running only while its invocation is inside it: no
\* invocation goes on to another attempt, or to its end, before it has
\* finished the last one.  It leaves the row if it was killed in the attempt
\* or had a statement fail there; and if it found its run canceled by a
\* canceler that had picked another attempt, but never otherwise.
AttemptHasOwner ==
  \A l \in Launchers : \A i \in 1..maxAttempts :
    attempts[<<l, i>>].state = "running" =>
      /\ number[l] = i
      /\ \/ l \in Attempting \cup left.attempt
         \/ /\ l \in left.canceled
            /\ \E c \in Cancelers : picked[c] \notin {NoAttempt, <<l, i>>}

\* A cancel that is recorded before the invocation looks at the run row after
\* Submit is final: nothing that invocation still does overwrites it.
\* (Without resumers; a `resume` may reopen the run.)
EarlyCancelIsFinal ==
  \A l \in Launchers :
    [](run.state = "canceled" /\ pc[l] \in {"submit", "running", "check"}
         => [](run.state = "canceled"))

\* Between commands issued one at a time (~Overlap) summary.json shows the rows: every
\* path through the attempt loop ends by rewriting it after its last write.
SummaryIsCurrent ==
  (\A p \in Procs : ~Active(p)) /\ run.state # "absent" =>
    summary = [run |-> run.state,
               attempts |-> [a \in AttemptIds |-> attempts[a].state]]

\* An undisturbed invocation that ends tells its caller what it wrote: exit
\* status 0 exactly when the run row says succeeded, and the code it returns
\* is the code in the row.
ExitTellsRunState ==
  [][\A l \in Launchers :
       pc[l] = "writeSummary" /\ pc'[l] = "done" =>
         /\ ExitStatus(l) = 0 <=> run.state = "succeeded"
         /\ ret[l].code = run.code]_vars

\* A started run reaches a final state, however many failovers, cancels and
\* resumes it goes through, unless an invocation was killed in its attempt
\* loop or had the statement fail that was to settle the run.
RunSettles ==
  run.state = "running" ~> run.state # "running" \/ left.run # {}

-----------------------------------------------------------------------------
(* What the documentation and the tests say, and the code does not keep *)

\* development.md: cancel marks the run and attempt as canceled; the test
\* TestGCPCancelStateIsNotOverwrittenBySubmitError: and they stay so.
CancelIsFinal ==
  \A c \in Cancelers :
    pc[c] = "done" /\ picked[c] # NoAttempt /\ ~ret[c].err =>
      run.state = "canceled" /\ attempts[picked[c]].state = "canceled"

=============================================================================
