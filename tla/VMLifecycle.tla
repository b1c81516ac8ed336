---------------------------- MODULE VMLifecycle ----------------------------
(***************************************************************************)
(* The virtual machines of one run on a China cloud.  Each attempt of the  *)
(* run (train, then resumes) creates a machine through the client of the   *)
(* vendor, watches it to the end and stores a row for it; `cancel` and     *)
(* `resources cleanup` reach the same machine through an adapter that they *)
(* build from a row.  What makes this hard is that a machine lives in one  *)
(* region, while create, describe, terminate, the row and the adapters of  *)
(* later commands each take the region from somewhere else.                *)
(***************************************************************************)
EXTENDS Naturals

CONSTANTS
  Regions,
  Endpoint,     \* where every call of a client without regions goes
  Plans,        \* the runs: a vendor, and the configuration of each attempt
  MaxAttempts,  \* bound: attempts of the run
  Faults        \* subset of FaultKinds

Attempts == 1..MaxAttempts

FaultKinds ==
  {"create",     \* the answer to a create request is lost
   "terminate",  \* a terminate request is refused or unanswered
   "status",     \* a describe request is refused or unanswered
   "db",         \* a row cannot be written
   "crash",      \* the process of train or resume dies
   "cloud"}      \* a machine reboots or is shut down

\* home: region of the configuration; selected: region of the hardware that
\* routing selected, the same if it selected none; terminate, keep:
\* terminate_on_completion and keep_instance_on_failure.
SetupRecords ==
  [home : Regions, selected : Regions, terminate : BOOLEAN, keep : BOOLEAN]

Vendors ==
  {"alibaba-cloud", "huawei-cloud", "tencent-cloud", "tianyi-cloud",
   "baidu-ai-cloud"}

CloudStates ==
  {"none", "pending", "running", "rebooting", "stopping", "stopped", "error",
   "deleting", "gone"}

\* VMState of vm_runtime.go, and the answer for a machine nobody knows
VMStates ==
  {"pending", "running", "terminating", "terminated", "failed", "unknown",
   "notfound"}

-----------------------------------------------------------------------------
(* The vendors' clients.  creates: the region CreateVM puts the machine in; *)
(* asks: the region GetVM and TerminateVM look in; reports: the region that *)
(* GetVM returns.                                                           *)

AlibabaVMState ==
  [none |-> "unknown", pending |-> "pending", running |-> "running",
   rebooting |-> "unknown", stopping |-> "terminating", stopped |-> "terminated",
   error |-> "failed", deleting |-> "unknown", gone |-> "notfound"]

HuaweiVMState ==
  [AlibabaVMState EXCEPT !.rebooting = "pending", !.stopping = "unknown",
                         !.deleting = "terminating"]

TencentVMState == [AlibabaVMState EXCEPT !.rebooting = "pending"]

\* A machine that reboots counts as one that terminates.
TianyiVMState ==
  [AlibabaVMState EXCEPT !.rebooting = "terminating", !.deleting = "terminating"]

BaiduVMState ==
  [AlibabaVMState EXCEPT !.rebooting = "pending", !.deleting = "terminating"]

AlibabaClient ==
  [creates |-> "selected", asks |-> "region", reports |-> "actual", reads |-> AlibabaVMState]

HuaweiClient ==
  [creates |-> "configured", asks |-> "region", reports |-> "configured", reads |-> HuaweiVMState]

TencentClient ==
  [creates |-> "configured", asks |-> "region", reports |-> "configured", reads |-> TencentVMState]

TianyiClient ==
  [creates |-> "selected", asks |-> "region", reports |-> "configured", reads |-> TianyiVMState]

BaiduClient ==
  [creates |-> "endpoint", asks |-> "endpoint", reports |-> "none", reads |-> BaiduVMState]

\* newVMClient
Client(v) ==
  CASE v = "alibaba-cloud" -> AlibabaClient
    [] v = "huawei-cloud" -> HuaweiClient
    [] v = "tencent-cloud" -> TencentClient
    [] v = "tianyi-cloud" -> TianyiClient
    [] v = "baidu-ai-cloud" -> BaiduClient

ASSUME VMAssumption ==
  /\ \A p \in Plans :
       /\ p.vendor \in Vendors
       /\ \E n \in Attempts : p.setup \in [1..n -> SetupRecords]
  /\ Endpoint \notin Regions
  /\ MaxAttempts \in Nat
  /\ Faults \subseteq FaultKinds

VARIABLES
  vendor,   \* the provider of the run
  setup,    \* the configuration of each attempt
  cloud,    \* what has become of its machine
  row,      \* its row in provider_resources: state and region
  ref,      \* the attempt row holds the reference of the machine
  pc,       \* where its Submit is
  outcome,  \* how its job ended
  final,    \* the row Submit is about to store
  attempt,  \* state of the attempt's row
  run,      \* state of the run's row
  kept,     \* history: attempts whose Submit chose to keep the machine, or was
            \* refused when it wanted to terminate it
  held,     \* the rows a cleanup has read and not handled yet
  asked     \* cleanup has terminated the first of them and not stored it yet

submitVars  == <<pc, outcome, final, kept>>
runVars     == <<attempt, run, ref>>
cleanupVars == <<held, asked>>
fixedVars   == <<vendor, setup>>
vars == <<fixedVars, cloud, row, submitVars, runVars, cleanupVars>>

NoRow == [state |-> "none", region |-> Endpoint]

Init ==
  /\ \E p \in Plans : vendor = p.vendor /\ setup = p.setup
  /\ cloud = [a \in Attempts |-> "none"]
  /\ row = [a \in Attempts |-> NoRow]
  /\ ref = [a \in Attempts |-> FALSE]
  /\ pc = [a \in Attempts |-> "idle"]
  /\ outcome = [a \in Attempts |-> "none"]
  /\ final = [a \in Attempts |-> NoRow]
  /\ attempt = [a \in Attempts |-> "none"]
  /\ run = "none"
  /\ kept = {}
  /\ held = [a \in Attempts |-> NoRow]
  /\ asked = FALSE

-----------------------------------------------------------------------------
(* Regions and requests *)

\* createRequest and CreateVM: where the machine of a is
RunsIn(a) ==
  CASE Client(vendor).creates = "selected" -> setup[a].selected
    [] Client(vendor).creates = "configured" -> setup[a].home
    [] Client(vendor).creates = "endpoint" -> Endpoint

\* A client for this region finds the machine of a.
Sees(region, a) ==
  RunsIn(a) = IF Client(vendor).asks = "endpoint" THEN Endpoint ELSE region

\* GetVM
GetVM(region, a) ==
  IF Sees(region, a) THEN Client(vendor).reads[cloud[a]] ELSE "notfound"

\* The region GetVM reports, the configured one if it reports none.
ReportedRegion(a) ==
  IF Client(vendor).reports = "actual" THEN RunsIn(a) ELSE setup[a].home

Exists(a) == cloud[a] \notin {"none", "deleting", "gone"}

Deleted(a) == [cloud EXCEPT ![a] = IF Exists(a) THEN "deleting" ELSE @]

\* TerminateVM: the request is carried out and answered.
TerminateVM(region, a) == Sees(region, a) /\ cloud' = Deleted(a)

\* The caller sees an error: no such machine, or the request fails and may
\* have been carried out all the same.
TerminateRefused(region, a) ==
  \/ ~Sees(region, a) /\ UNCHANGED cloud
  \/ cloud[a] = "gone" /\ UNCHANGED cloud
  \/ "terminate" \in Faults /\ cloud' \in {cloud, Deleted(a)}

CloudStep(a) ==
  /\ \/ cloud[a] = "pending" /\ cloud' = [cloud EXCEPT ![a] = "running"]
     \/ cloud[a] = "rebooting" /\ cloud' = [cloud EXCEPT ![a] = "running"]
     \/ cloud[a] = "stopping" /\ cloud' = [cloud EXCEPT ![a] = "stopped"]
     \/ cloud[a] = "deleting" /\ cloud' = [cloud EXCEPT ![a] = "gone"]
  /\ UNCHANGED <<fixedVars, row, submitVars, runVars, cleanupVars>>

CloudFault(a) ==
  /\ "cloud" \in Faults
  /\ \/ cloud[a] = "pending" /\ cloud' = [cloud EXCEPT ![a] = "error"]
     \/ /\ cloud[a] = "running"
        /\ \E s \in {"rebooting", "stopping"} : cloud' = [cloud EXCEPT ![a] = s]
  /\ UNCHANGED <<fixedVars, row, submitVars, runVars, cleanupVars>>

-----------------------------------------------------------------------------
(* Submit *)

Goto(a, from, to) == pc[a] = from /\ pc' = [pc EXCEPT ![a] = to]

Store(a, state, region) == row' = [row EXCEPT ![a] = [state |-> state, region |-> region]]

\* train or resume starts an attempt when the one before is over.
Begin(a) ==
  /\ a \in DOMAIN setup
  /\ \A b \in 1..(a - 1) : pc[b] \in {"over", "crashed"}
  /\ Goto(a, "idle", "create")
  /\ attempt' = [attempt EXCEPT ![a] = "running"]
  /\ run' = "running"
  /\ UNCHANGED <<fixedVars, cloud, row, ref, outcome, final, kept, cleanupVars>>

CreateVM(a) ==
  /\ Goto(a, "create", "created")
  /\ cloud' = [cloud EXCEPT ![a] = "pending"]
  /\ UNCHANGED <<fixedVars, row, outcome, final, kept, runVars, cleanupVars>>

\* The request is refused, or nobody learns the id of the machine.
CreateVMFails(a) ==
  /\ Goto(a, "create", "returned")
  /\ \/ UNCHANGED cloud
     \/ "create" \in Faults /\ cloud' = [cloud EXCEPT ![a] = "pending"]
  /\ UNCHANGED <<fixedVars, row, outcome, final, kept, runVars, cleanupVars>>

\* OnResourceCreated stores the region the machine was asked for.
NotifyCreated(a) ==
  /\ Goto(a, "created", "start")
  /\ Store(a, "booting", setup[a].selected)
  /\ UNCHANGED <<fixedVars, cloud, outcome, final, kept, runVars, cleanupVars>>

OnStarted(a) ==
  /\ Goto(a, "start", "boot")
  /\ ref' = [ref EXCEPT ![a] = TRUE]
  /\ UNCHANGED <<fixedVars, cloud, row, outcome, final, kept, attempt, run, cleanupVars>>

Kept(a) == kept' = kept \cup {a}

\* Neither could be stored: the machine is terminated, whatever the answer.
StartNotRecorded(a) ==
  /\ "db" \in Faults
  /\ Goto(a, "created", "returned") \/ Goto(a, "start", "returned")
  /\ \/ TerminateVM(setup[a].home, a) /\ UNCHANGED kept
     \/ TerminateRefused(setup[a].home, a) /\ Kept(a)
  /\ UNCHANGED <<fixedVars, row, outcome, final, runVars, cleanupVars>>

\* waitForRunning polls until the machine runs and has an address.
WaitForRunning(a) ==
  /\ Goto(a, "boot", "notify")
  /\ GetVM(setup[a].home, a) = "running"
  /\ UNCHANGED <<fixedVars, cloud, row, outcome, final, kept, runVars, cleanupVars>>

\* Mutant: the row keeps the region the machine was asked for.
Mut_NotifyRunning(a) ==
  /\ Goto(a, "notify", "ssh")
  /\ Store(a, "running", setup[a].selected)
  /\ UNCHANGED <<fixedVars, cloud, outcome, final, kept, runVars, cleanupVars>>

NotifyRunning(a) ==
  /\ Goto(a, "notify", "ssh")
  /\ Store(a, "running", ReportedRegion(a))
  /\ UNCHANGED <<fixedVars, cloud, outcome, final, kept, runVars, cleanupVars>>

\* Submit returns the error and leaves the machine as it is.
RunningNotRecorded(a) ==
  /\ "db" \in Faults
  /\ Goto(a, "notify", "returned")
  /\ UNCHANGED <<fixedVars, cloud, row, outcome, final, kept, runVars, cleanupVars>>

\* Who answers over SSH.
Answers(a) == cloud[a] \in {"running", "stopping", "deleting"}

WaitForReady(a) ==
  /\ Answers(a)
  /\ Goto(a, "ssh", "monitor")
  /\ UNCHANGED <<fixedVars, cloud, row, outcome, final, kept, runVars, cleanupVars>>

Ends(a, from, how) ==
  /\ Goto(a, from, "settle")
  /\ outcome' = [outcome EXCEPT ![a] = how]
  /\ UNCHANGED <<fixedVars, cloud, row, final, kept, runVars, cleanupVars>>

\* monitorRemote reads the marker that the runner script writes.
JobExits(a) ==
  /\ Answers(a)
  /\ \E how \in {"zero", "nonzero"} : Ends(a, "monitor", how)

Polled(a) == GetVM(setup[a].home, a)

\* Mutant: a machine that was stopped is waited for.
Mut_MonitorFails(a) ==
  \/ Polled(a) \in {"terminating", "failed", "notfound"}
  \/ Answers(a)

\* monitorRemote gives up: no job runs in this state, or the marker cannot be
\* parsed.
MonitorFails(a) ==
  \/ Polled(a) \in {"terminating", "terminated", "failed", "notfound"}
  \/ Answers(a)

\* The start, SSH or the job fails; a machine that runs may have no address.
JobFails(a) ==
  \/ Ends(a, "boot", "error") /\ Polled(a) \notin {"pending", "unknown"}
  \/ Ends(a, "ssh", "error")
  \/ Ends(a, "monitor", "error") /\ MonitorFails(a)

\* A describe request fails.
StatusRefused(a) ==
  "status" \in Faults /\ (Ends(a, "boot", "error") \/ Ends(a, "monitor", "error"))

\* shouldTerminate, and the same test in failureResult
ShouldTerminate(a) ==
  IF outcome[a] = "zero" THEN setup[a].terminate ELSE ~setup[a].keep

\* failureResult stores a machine without a region.
FinalRegion(a) == IF outcome[a] = "error" THEN setup[a].home ELSE ReportedRegion(a)

Settled(a, state) ==
  /\ final' = [final EXCEPT ![a] = [state |-> state, region |-> FinalRegion(a)]]
  /\ outcome' = [outcome EXCEPT ![a] = "none"]

JobState(a) == IF outcome[a] = "zero" THEN "succeeded" ELSE "failed"

\* Mutant: the machine stays if the job failed.
Mut_Settle(a) ==
  /\ Goto(a, "settle", "store")
  /\ \/ /\ outcome[a] = "zero" /\ setup[a].terminate
        /\ \/ TerminateVM(setup[a].home, a) /\ Settled(a, "terminating") /\ UNCHANGED kept
           \/ TerminateRefused(setup[a].home, a) /\ Settled(a, JobState(a)) /\ Kept(a)
     \/ /\ ~(outcome[a] = "zero" /\ setup[a].terminate)
        /\ Settled(a, JobState(a))
        /\ IF ShouldTerminate(a) THEN UNCHANGED kept ELSE Kept(a)
        /\ UNCHANGED cloud
  /\ UNCHANGED <<fixedVars, row, runVars, cleanupVars>>

\* The end of Submit, or failureResult.
Settle(a) ==
  /\ Goto(a, "settle", "store")
  /\ \/ /\ ShouldTerminate(a)
        /\ \/ TerminateVM(setup[a].home, a) /\ Settled(a, "terminating") /\ UNCHANGED kept
           \/ TerminateRefused(setup[a].home, a) /\ Settled(a, JobState(a)) /\ Kept(a)
     \/ /\ ~ShouldTerminate(a)
        /\ Settled(a, JobState(a)) /\ Kept(a)
        /\ UNCHANGED cloud
  /\ UNCHANGED <<fixedVars, row, runVars, cleanupVars>>

NotifyFinal(a) ==
  /\ Goto(a, "store", "returned")
  /\ \/ row' = [row EXCEPT ![a] = final[a]]
     \/ "db" \in Faults /\ UNCHANGED row
  /\ final' = [final EXCEPT ![a] = NoRow]
  /\ UNCHANGED <<fixedVars, cloud, outcome, kept, runVars, cleanupVars>>

\* runAttempt; a cancel has the last word.
AttemptOver(a) ==
  /\ Goto(a, "returned", "over")
  /\ attempt' = [attempt EXCEPT ![a] = IF @ = "canceled" THEN @ ELSE "ended"]
  /\ run' = IF run = "canceled" THEN run ELSE "ended"
  /\ UNCHANGED <<fixedVars, cloud, row, ref, outcome, final, kept, cleanupVars>>

Crash(a) ==
  /\ "crash" \in Faults
  /\ pc[a] \notin {"idle", "over", "crashed"}
  /\ pc' = [pc EXCEPT ![a] = "crashed"]
  /\ outcome' = [outcome EXCEPT ![a] = "none"]
  /\ final' = [final EXCEPT ![a] = NoRow]
  /\ UNCHANGED <<fixedVars, cloud, row, kept, runVars, cleanupVars>>

-----------------------------------------------------------------------------
(* cancel and cleanup *)

\* The last attempt that is marked running.
IsTarget(a) ==
  /\ attempt[a] = "running"
  /\ \A b \in Attempts : attempt[b] = "running" => b <= a

\* cancelAdapterForAttempt: rows come in the order they were created in, and
\* every one of them has an external id.
IsFirstRow(a) ==
  /\ row[a] # NoRow
  /\ \A b \in Attempts : row[b] # NoRow => a <= b

\* Mutant: the run is marked canceled although the request was refused.
Mut_Cancel(a, b) ==
  /\ run = "running" /\ IsTarget(a) /\ ref[a] /\ IsFirstRow(b)
  /\ TerminateVM(row[b].region, a) \/ TerminateRefused(row[b].region, a)
  /\ attempt' = [attempt EXCEPT ![a] = "canceled"]
  /\ run' = "canceled"
  /\ UNCHANGED <<fixedVars, row, ref, submitVars, cleanupVars>>

\* `cancel` of attempt a, through an adapter for the region of the row of b.
\* RunLifecycle has its races with Submit.
Cancel(a, b) ==
  /\ run = "running" /\ IsTarget(a) /\ ref[a] /\ IsFirstRow(b)
  /\ \/ /\ TerminateVM(row[b].region, a)
        /\ attempt' = [attempt EXCEPT ![a] = "canceled"]
        /\ run' = "canceled"
     \/ /\ TerminateRefused(row[b].region, a)
        /\ UNCHANGED <<attempt, run>>
  /\ UNCHANGED <<fixedVars, row, ref, submitVars, cleanupVars>>

\* providerResourceStateActive
ActiveStates == {"creating", "booting", "running", "unknown"}

\* resourceCleanupEligible and cleanupPolicy: whatever the policy says but
\* never.
CleanupEligible(a) ==
  row[a].state \in ActiveStates /\ (setup[a].terminate \/ ~setup[a].keep)

Idle == \A a \in Attempts : held[a] = NoRow

\* The rows are read at once and handled in the order of their creation.
CleanupReads ==
  /\ Idle
  /\ held' = [a \in Attempts |-> IF CleanupEligible(a) THEN row[a] ELSE NoRow]
  /\ UNCHANGED <<fixedVars, cloud, row, submitVars, runVars, asked>>

IsNext(a) == held[a] # NoRow /\ \A b \in 1..(a - 1) : held[b] = NoRow

CleanupAsks(a) ==
  /\ IsNext(a) /\ ~asked
  /\ TerminateVM(held[a].region, a)
  /\ asked' = TRUE
  /\ UNCHANGED <<fixedVars, row, submitVars, runVars, held>>

\* The first error ends the command.
CleanupStops(a) ==
  /\ IsNext(a)
  /\ \/ ~asked /\ TerminateRefused(held[a].region, a)
     \/ asked /\ "db" \in Faults /\ UNCHANGED cloud
  /\ held' = [b \in Attempts |-> NoRow]
  /\ asked' = FALSE
  /\ UNCHANGED <<fixedVars, row, submitVars, runVars>>

\* The whole row is stored as it was read, but for its state.
CleanupStores(a) ==
  /\ IsNext(a) /\ asked
  /\ Store(a, "terminating", held[a].region)
  /\ held' = [held EXCEPT ![a] = NoRow]
  /\ asked' = FALSE
  /\ UNCHANGED <<fixedVars, cloud, submitVars, runVars>>

-----------------------------------------------------------------------------
(* Specification *)

SubmitStep(a) ==
  \/ CreateVM(a) \/ CreateVMFails(a) \/ NotifyCreated(a) \/ OnStarted(a)
  \/ StartNotRecorded(a) \/ WaitForRunning(a) \/ NotifyRunning(a)
  \/ RunningNotRecorded(a) \/ WaitForReady(a) \/ JobExits(a) \/ JobFails(a)
  \/ Settle(a) \/ NotifyFinal(a) \/ AttemptOver(a)

OperatorStep ==
  \/ \E a, b \in Attempts : Cancel(a, b)
  \/ CleanupReads
  \/ \E a \in Attempts : CleanupAsks(a) \/ CleanupStops(a) \/ CleanupStores(a)

Next ==
  \/ \E a \in Attempts :
       \/ Begin(a) \/ SubmitStep(a) \/ StatusRefused(a) \/ Crash(a)
       \/ CloudStep(a) \/ CloudFault(a)
  \/ OperatorStep

Spec == Init /\ [][Next]_vars

\* A scheduled process goes on, and so does the cloud with what it has begun.
FairSpec ==
  Spec /\ \A a \in Attempts : WF_vars(SubmitStep(a)) /\ WF_vars(CloudStep(a))

-----------------------------------------------------------------------------
(* Properties *)

RowStates == ActiveStates \cup {"none", "succeeded", "failed", "terminating"}

RowRecords == [state : RowStates, region : Regions \cup {Endpoint}]

TypeOK ==
  /\ \E p \in Plans : vendor = p.vendor /\ setup = p.setup
  /\ cloud \in [Attempts -> CloudStates]
  /\ row \in [Attempts -> RowRecords]
  /\ ref \in [Attempts -> BOOLEAN]
  /\ pc \in [Attempts -> {"idle", "create", "created", "start", "boot", "notify",
       "ssh", "monitor", "settle", "store", "returned", "over", "crashed"}]
  /\ outcome \in [Attempts -> {"none", "zero", "nonzero", "error"}]
  /\ final \in [Attempts -> RowRecords]
  /\ attempt \in [Attempts -> {"none", "running", "ended", "canceled"}]
  /\ run \in {"none", "running", "ended", "canceled"}
  /\ kept \subseteq Attempts
  /\ held \in [Attempts -> RowRecords]
  /\ asked \in BOOLEAN

\* What the database calls terminating or canceled is being deleted, whichever
\* of Submit, cleanup and cancel wrote it, in whatever order and through the
\* adapter for whatever region (Submit, cancelRun, the cleanup command).
GoneIsTrue ==
  \A a \in Attempts :
    row[a].state = "terminating" \/ attempt[a] = "canceled" => ~Exists(a)

\* An adapter built from an active row finds the machine, except while one is
\* booting for which routing selected another region than the configured one
\* (notifyResource, cleanupAdapterForResource).
RowLeadsToVM ==
  \A a \in Attempts :
    row[a].state \in ActiveStates =>
      \/ Sees(row[a].region, a)
      \/ row[a].state = "booting" /\ setup[a].selected # setup[a].home

\* A machine that outlives its Submit or its process is among the active rows,
\* unless Submit kept it, was refused when it wanted to terminate it, or had
\* not stored the row yet (Submit, failureResult).
StrayVMIsListed ==
  \A a \in Attempts :
    Exists(a) /\ pc[a] \in {"returned", "over", "crashed"} /\ row[a] # NoRow =>
      row[a].state \in ActiveStates \/ a \in kept

\* A machine that was stopped, failed or deleted ends the Submit that watches
\* it, whatever words the vendor has for that (waitForRunning, monitorRemote).
VMEndIsSeen ==
  \A a \in Attempts :
    pc[a] \in {"boot", "notify", "ssh", "monitor"} /\ cloud[a] \in {"stopped", "error", "gone"}
      ~> pc[a] \in {"over", "crashed"}

=============================================================================
