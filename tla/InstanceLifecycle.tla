------------------------- MODULE InstanceLifecycle -------------------------
(***************************************************************************)
(* Lambda Cloud instances from launch to termination: the Submit call that *)
(* launches one and stores a row for it in provider_resources, the cloud,  *)
(* and the `cancel`, `resources refresh` and `resources cleanup` commands  *)
(* of operators, which work on the same instances and rows from other      *)
(* processes.  One Submit launches one instance, so both are named by it.  *)
(*                                                                         *)
(* Every call of the cloud's API and every statement on the database is an *)
(* action.  Failing calls are actions of their own, turned on by Faults.   *)
(***************************************************************************)
EXTENDS Naturals

CONSTANTS
  Instances,  \* the instances, each launched by a Submit call of its own
  Operators,  \* processes that run refresh and cleanup, again and again
  Configs,    \* [terminate, keep]: values of lambda.terminate_on_completion
              \* and lambda.keep_instance_on_failure that runs may use
  MaxCancels, \* bound: `cancel` commands per instance
  Faults      \* subset of FaultKinds

FaultKinds ==
  {"launch",     \* the answer to a launch request is lost
   "terminate",  \* a terminate request is refused or unanswered
   "status",     \* a status request is refused or unanswered
   "db",         \* SaveProviderResource or UpdateAttemptProviderRef fails
   "crash",      \* a train process dies
   "cloud"}      \* an instance becomes unhealthy or is preempted

ASSUME InstanceAssumption ==
  /\ Configs \subseteq [terminate : BOOLEAN, keep : BOOLEAN]
  /\ MaxCancels \in Nat
  /\ Faults \subseteq FaultKinds

CloudStates == {"none", "booting", "active", "unhealthy", "preempted",
                "terminating", "terminated"}

\* The instance runs, and is paid for.
Running == {"booting", "active"}

VARIABLES
  config,   \* the configuration of the run that launches each instance
  cloud,    \* what the cloud knows of each instance
  row,      \* state column of its row in provider_resources, or "none"
  ref,      \* the attempt row holds the reference of the instance
  pc,       \* where each Submit call is
  outcome,  \* how the job ended: exit code zero, nonzero, or an error
  final,    \* finalState of Submit, the state it is about to store
  asked,    \* history: who asked the cloud to terminate the instance
  cancels,  \* `cancel` commands issued so far
  tool,     \* the command an operator runs
  todo,     \* the rows it has read and not handled yet
  current,  \* the row it is handling: {} or {i}
  observed  \* the state it is about to store in that row

submitVars == <<config, pc, outcome, final, cancels>>
toolVars   == <<tool, todo, current, observed>>
dbVars     == <<row, ref>>
vars       == <<submitVars, cloud, dbVars, asked, toolVars>>

Init ==
  /\ config \in [Instances -> Configs]
  /\ cloud = [i \in Instances |-> "none"]
  /\ row = [i \in Instances |-> "none"]
  /\ ref = [i \in Instances |-> FALSE]
  /\ pc = [i \in Instances |-> "launch"]
  /\ outcome = [i \in Instances |-> "none"]
  /\ final = [i \in Instances |-> "none"]
  /\ asked = [i \in Instances |-> {}]
  /\ cancels = [i \in Instances |-> 0]
  /\ tool = [o \in Operators |-> "none"]
  /\ todo = [o \in Operators |-> {}]
  /\ current = [o \in Operators |-> {}]
  /\ observed = [o \in Operators |-> "none"]

-----------------------------------------------------------------------------
(* The cloud *)

\* What a terminate request that was carried out leaves behind.
AfterTerminate(s) == IF s \in Running \cup {"unhealthy"} THEN "terminating" ELSE s

\* The request is carried out and answered.
Terminate(i, who) ==
  /\ cloud' = [cloud EXCEPT ![i] = AfterTerminate(@)]
  /\ asked' = [asked EXCEPT ![i] = @ \cup {who}]

\* The caller sees an error; the request may have been carried out.
TerminateFails(i, who) ==
  /\ "terminate" \in Faults
  /\ asked' = [asked EXCEPT ![i] = @ \cup {who}]
  /\ cloud' \in {cloud, [cloud EXCEPT ![i] = AfterTerminate(@)]}

\* An instance gets to where it is going.
CloudStep(i) ==
  /\ \/ cloud[i] = "booting" /\ cloud' = [cloud EXCEPT ![i] = "active"]
     \/ cloud[i] = "terminating" /\ cloud' = [cloud EXCEPT ![i] = "terminated"]
  /\ UNCHANGED <<submitVars, dbVars, asked, toolVars>>

\* An instance fails or is taken away.
CloudFault(i) ==
  /\ "cloud" \in Faults
  /\ cloud[i] \in Running
  /\ \E s \in {"unhealthy", "preempted"} : cloud' = [cloud EXCEPT ![i] = s]
  /\ UNCHANGED <<submitVars, dbVars, asked, toolVars>>

-----------------------------------------------------------------------------
(* Submit *)

Goto(i, from, to) == pc[i] = from /\ pc' = [pc EXCEPT ![i] = to]

ShowRow(i, state) == row' = [row EXCEPT ![i] = state]

Launch(i) ==
  /\ Goto(i, "launch", "created")
  /\ cloud' = [cloud EXCEPT ![i] = "booting"]
  /\ UNCHANGED <<config, outcome, final, cancels, dbVars, asked, toolVars>>

\* The request is refused, or its answer is lost and nobody learns the id.
LaunchFails(i) ==
  /\ Goto(i, "launch", "returned")
  /\ \/ UNCHANGED cloud
     \/ "launch" \in Faults /\ cloud' = [cloud EXCEPT ![i] = "booting"]
  /\ UNCHANGED <<config, outcome, final, cancels, dbVars, asked, toolVars>>

\* OnResourceCreated stores the row.
NotifyCreated(i) ==
  /\ Goto(i, "created", "started")
  /\ ShowRow(i, "booting")
  /\ UNCHANGED <<config, outcome, final, cancels, cloud, ref, asked, toolVars>>

\* OnStarted stores the reference of the job in the attempt.
OnStarted(i) ==
  /\ Goto(i, "started", "boot")
  /\ ref' = [ref EXCEPT ![i] = TRUE]
  /\ UNCHANGED <<config, outcome, final, cancels, cloud, row, asked, toolVars>>

\* OnResourceCreated or OnStarted could not write.
StartNotRecorded(i) ==
  /\ "db" \in Faults
  /\ Goto(i, "created", "abort") \/ Goto(i, "started", "abort")
  /\ UNCHANGED <<config, outcome, final, cancels, cloud, dbVars, asked, toolVars>>

\* Mutant: the instance whose start could not be recorded is left alone.
Mut_Abort(i) ==
  /\ Goto(i, "abort", "returned")
  /\ UNCHANGED <<config, outcome, final, cancels, cloud, dbVars, asked, toolVars>>

\* ... so the instance is terminated; nobody looks whether that worked.
Abort(i) ==
  /\ Goto(i, "abort", "returned")
  /\ Terminate(i, "abort") \/ TerminateFails(i, "abort")
  /\ UNCHANGED <<config, outcome, final, cancels, dbVars, toolVars>>

\* waitForActive: polls until the instance is active and has an address.
WaitForActive(i) ==
  /\ cloud[i] = "active"
  /\ Goto(i, "boot", "notifyRunning")
  /\ UNCHANGED <<config, outcome, final, cancels, cloud, dbVars, asked, toolVars>>

NotifyRunning(i) ==
  /\ Goto(i, "notifyRunning", "ssh")
  /\ ShowRow(i, "running")
  /\ UNCHANGED <<config, outcome, final, cancels, cloud, ref, asked, toolVars>>

\* Submit returns the error and leaves the instance to the operator.
RunningNotRecorded(i) ==
  /\ "db" \in Faults
  /\ Goto(i, "notifyRunning", "returned")
  /\ UNCHANGED <<config, outcome, final, cancels, cloud, dbVars, asked, toolVars>>

\* Who answers over SSH; an instance that is going away may still do so.
Answers(i) == cloud[i] \in {"active", "unhealthy", "terminating"}

WaitForReady(i) ==
  /\ Answers(i)
  /\ Goto(i, "ssh", "monitor")
  /\ UNCHANGED <<config, outcome, final, cancels, cloud, dbVars, asked, toolVars>>

Ends(i, from, how) ==
  /\ Goto(i, from, "settle")
  /\ outcome' = [outcome EXCEPT ![i] = how]
  /\ UNCHANGED <<config, final, cancels, cloud, dbVars, asked, toolVars>>

\* monitorRemote reads an exit marker.
JobExits(i) ==
  /\ Answers(i)
  /\ \E how \in {"zero", "nonzero"} : Ends(i, "monitor", how)

\* The start, the SSH session or the job fails: the cloud reports a state in
\* which no job runs, the instance is active without an address, SSH stays
\* silent, or the exit marker cannot be parsed.
JobFails(i) ==
  \/ cloud[i] # "booting" /\ Ends(i, "boot", "error")
  \/ Ends(i, "ssh", "error")
  \/ Ends(i, "monitor", "error")
  \/ "status" \in Faults /\ Ends(i, "boot", "error")

\* shouldTerminate, and the same test in failureResult
ShouldTerminate(i) ==
  IF outcome[i] = "zero" THEN config[i].terminate ELSE ~config[i].keep

\* The state to store when the instance stays.
JobState(i) == IF outcome[i] = "zero" THEN "succeeded" ELSE "failed"

Settled(i, state) == final' = [final EXCEPT ![i] = state]

\* Mutant: a terminate request counts whatever its answer.
Mut_Settle(i) ==
  /\ Goto(i, "settle", "notifyFinal")
  /\ \/ /\ ShouldTerminate(i)
        /\ Terminate(i, "settle") \/ TerminateFails(i, "settle")
        /\ Settled(i, "terminating")
     \/ /\ ~ShouldTerminate(i)
        /\ Settled(i, JobState(i))
        /\ UNCHANGED <<cloud, asked>>
  /\ UNCHANGED <<config, outcome, cancels, dbVars, toolVars>>

\* The end of Submit, or failureResult: terminate the instance if the
\* configuration says so, and remember what to store.
Settle(i) ==
  /\ Goto(i, "settle", "notifyFinal")
  /\ \/ /\ ShouldTerminate(i)
        /\ \/ Terminate(i, "settle") /\ Settled(i, "terminating")
           \/ TerminateFails(i, "settle") /\ Settled(i, JobState(i))
     \/ /\ ~ShouldTerminate(i)
        /\ Settled(i, JobState(i))
        /\ UNCHANGED <<cloud, asked>>
  /\ UNCHANGED <<config, outcome, cancels, dbVars, toolVars>>

NotifyFinal(i) ==
  /\ Goto(i, "notifyFinal", "returned")
  /\ ShowRow(i, final[i])
  /\ UNCHANGED <<config, outcome, final, cancels, cloud, ref, asked, toolVars>>

FinalNotRecorded(i) ==
  /\ "db" \in Faults
  /\ Goto(i, "notifyFinal", "returned")
  /\ UNCHANGED <<config, outcome, final, cancels, cloud, dbVars, asked, toolVars>>

\* runAttempt stores that the attempt is over.
AttemptOver(i) ==
  /\ Goto(i, "returned", "finished")
  /\ UNCHANGED <<config, outcome, final, cancels, cloud, dbVars, asked, toolVars>>

\* Nothing handles signals: the train process is gone.
Crash(i) ==
  /\ "crash" \in Faults
  /\ pc[i] \notin {"launch", "finished", "crashed"}
  /\ pc' = [pc EXCEPT ![i] = "crashed"]
  /\ UNCHANGED <<config, outcome, final, cancels, cloud, dbVars, asked, toolVars>>

-----------------------------------------------------------------------------
(* The operators' commands *)

\* `cancel` terminates the instance and does not touch its row.  It knows the
\* instance as long as the attempt is marked running: from OnStarted until
\* after Submit, and until somebody settles it if the train process died.
UserCancel(i) ==
  /\ cancels[i] < MaxCancels
  /\ ref[i] /\ pc[i] # "finished"
  /\ cancels' = [cancels EXCEPT ![i] = @ + 1]
  /\ Terminate(i, "cancel") \/ TerminateFails(i, "cancel")
  /\ UNCHANGED <<config, pc, outcome, final, dbVars, toolVars>>

\* providerResourceStateActive
ActiveStates == {"creating", "booting", "running", "unknown"}

\* cleanupPolicy: what the row says about who may remove the instance
CleanupPolicy(i) ==
  CASE config[i].terminate /\ ~config[i].keep  -> "always"
    [] config[i].terminate /\ config[i].keep   -> "on_success"
    [] ~config[i].terminate /\ ~config[i].keep -> "on_failure"
    [] OTHER                                   -> "never"

\* Mutant: the cleanup policy of the row is ignored.
Mut_CleanupEligible(i) == row[i] \in ActiveStates

\* resourceCleanupEligible; rows of this provider always have a reference.
CleanupEligible(i) == row[i] \in ActiveStates /\ CleanupPolicy(i) # "never"

RowsFor(t, filter) ==
  {i \in filter : IF t = "refresh" THEN row[i] # "none" ELSE CleanupEligible(i)}

\* A command reads the rows it will handle, all at once: those of one run or
\* of every run.
ReadRows(o, t, filter) ==
  /\ tool[o] = "none"
  /\ RowsFor(t, filter) # {}
  /\ todo' = [todo EXCEPT ![o] = RowsFor(t, filter)]
  /\ tool' = [tool EXCEPT ![o] = t]
  /\ UNCHANGED <<submitVars, cloud, dbVars, asked, current, observed>>

\* Mutant: an instance that is active is reported as a job that ended.
Mut_ResourceState(s) ==
  CASE s = "booting" -> "booting"
    [] s \in {"active", "unhealthy", "preempted"} -> "failed"
    [] OTHER -> s

\* providerResourceStateFromInstanceStatus
ResourceState(s) ==
  CASE s = "active" -> "running"
    [] s \in {"unhealthy", "preempted"} -> "failed"
    [] OTHER -> s

Handle(o, i, state) ==
  /\ i \in todo[o]
  /\ current[o] = {}
  /\ current' = [current EXCEPT ![o] = {i}]
  /\ observed' = [observed EXCEPT ![o] = state]
  /\ UNCHANGED <<submitVars, dbVars, tool, todo>>

\* refresh: GetStatus answers.
Refresh(o, i) ==
  /\ tool[o] = "refresh"
  /\ Handle(o, i, ResourceState(cloud[i]))
  /\ UNCHANGED <<cloud, asked>>

\* cleanup: Cancel succeeds.
Cleanup(o, i) ==
  /\ tool[o] = "cleanup"
  /\ Terminate(i, "cleanup")
  /\ Handle(o, i, "terminating")

Finish(o, rest) ==
  /\ todo' = [todo EXCEPT ![o] = rest]
  /\ tool' = [tool EXCEPT ![o] = IF rest = {} THEN "none" ELSE @]
  /\ current' = [current EXCEPT ![o] = {}]
  /\ observed' = [observed EXCEPT ![o] = "none"]

\* SaveProviderResource writes the whole row as it was read, except for its
\* state.  (No other column changes after the row is created.)
SaveRow(o) ==
  /\ current[o] # {}
  /\ \E i \in current[o] : ShowRow(i, observed[o])
  /\ Finish(o, todo[o] \ current[o])
  /\ UNCHANGED <<submitVars, cloud, ref, asked>>

\* The first error ends the command; rows it has not reached stay as they are.
ToolFails(o) ==
  /\ \/ /\ "db" \in Faults
        /\ current[o] # {}
        /\ UNCHANGED <<cloud, asked>>
     \/ /\ "status" \in Faults
        /\ tool[o] = "refresh" /\ current[o] = {}
        /\ UNCHANGED <<cloud, asked>>
     \/ /\ tool[o] = "cleanup" /\ current[o] = {}
        /\ \E i \in todo[o] : TerminateFails(i, "cleanup")
  /\ Finish(o, {})
  /\ UNCHANGED <<submitVars, dbVars>>

-----------------------------------------------------------------------------
(* Specification *)

SubmitStep(i) ==
  \/ Launch(i) \/ LaunchFails(i) \/ NotifyCreated(i) \/ OnStarted(i)
  \/ StartNotRecorded(i) \/ Abort(i) \/ WaitForActive(i) \/ NotifyRunning(i)
  \/ RunningNotRecorded(i) \/ WaitForReady(i) \/ JobExits(i) \/ JobFails(i)
  \/ Settle(i) \/ NotifyFinal(i) \/ FinalNotRecorded(i)
  \/ AttemptOver(i)

Filters == {{i} : i \in Instances} \cup {Instances}

OperatorStep(o) ==
  \/ \E t \in {"refresh", "cleanup"}, filter \in Filters : ReadRows(o, t, filter)
  \/ \E i \in Instances : Refresh(o, i) \/ Cleanup(o, i)
  \/ SaveRow(o)
  \/ ToolFails(o)

Next ==
  \/ \E i \in Instances :
    \/ CloudStep(i) \/ CloudFault(i) \/ SubmitStep(i)
    \/ Crash(i) \/ UserCancel(i)
  \/ \E o \in Operators : OperatorStep(o)

Spec == Init /\ [][Next]_vars

\* Somebody keeps running both commands for each run, and neither the cloud
\* nor the database fails every time.
Diligence ==
  \A o \in Operators :
    /\ SF_vars(SaveRow(o))
    /\ \A i \in Instances :
         /\ SF_vars(ReadRows(o, "refresh", {i}))
         /\ SF_vars(ReadRows(o, "cleanup", {i}))
         /\ SF_vars(Refresh(o, i))
         /\ SF_vars(Cleanup(o, i))

\* A train process that lives keeps executing, its job ends, and an instance
\* that boots or is being terminated gets there.
Progress ==
  \A i \in Instances : WF_vars(SubmitStep(i)) /\ WF_vars(CloudStep(i))

FairSpec == Spec /\ Diligence /\ Progress

-----------------------------------------------------------------------------
(* Types *)

RowStates == ActiveStates \cup
  {"succeeded", "failed", "terminating", "terminated", "none"}

SubmitPcs == {"launch", "created", "started", "abort", "boot", "notifyRunning",
              "ssh", "monitor", "settle", "notifyFinal", "returned", "finished",
              "crashed"}

SubmitOK ==
  /\ config \in [Instances -> Configs]
  /\ pc \in [Instances -> SubmitPcs]
  /\ outcome \in [Instances -> {"none", "zero", "nonzero", "error"}]
  /\ final \in [Instances -> RowStates]
  /\ \A i \in Instances : pc[i] = "notifyFinal" => final[i] # "none"
  /\ cancels \in [Instances -> Nat]

ToolsOK ==
  /\ tool \in [Operators -> {"none", "refresh", "cleanup"}]
  /\ todo \in [Operators -> SUBSET Instances]
  /\ current \in [Operators -> SUBSET Instances]
  /\ observed \in [Operators -> RowStates]
  /\ \A o \in Operators :
       /\ tool[o] = "none" => todo[o] = {}
       /\ current[o] \subseteq todo[o]
       /\ current[o] # {} => observed[o] # "none"
       /\ \A i \in todo[o] : row[i] # "none"

SharedOK ==
  /\ cloud \in [Instances -> CloudStates]
  /\ row \in [Instances -> RowStates]
  /\ ref \in [Instances -> BOOLEAN]
  /\ \A i \in Instances :
       cloud[i] = "none" =>
         /\ row[i] = "none"
         /\ pc[i] \in {"launch", "returned", "finished", "crashed"}
  /\ asked \in [Instances -> SUBSET {"abort", "settle", "cancel", "cleanup"}]

\* Every variable holds values the code can put there.
TypeOK == SubmitOK /\ ToolsOK /\ SharedOK

-----------------------------------------------------------------------------
(* Safety *)

\* Submit is over, one way or another.
Over(i) == pc[i] \in {"returned", "finished", "crashed"}

\* The configuration asks for this instance to stay.
Retained(i) ==
  \/ outcome[i] = "zero" /\ ~config[i].terminate
  \/ outcome[i] \in {"nonzero", "error"} /\ config[i].keep

\* A row that says the instance is going away tells the truth, whichever of
\* Submit, refresh and cleanup wrote it last and however old the row was that
\* it had read.
TerminatingIsTrue ==
  \A i \in Instances :
    row[i] \in {"terminating", "terminated"} => cloud[i] \notin Running

\* An instance that outlives its Submit call unasked can be found and cleaned
\* up: its row is active.  It has no row only if the train process died
\* before it could write one.  (Without refused launch and terminate
\* requests.)
SurvivorIsListed ==
  \A i \in Instances :
    Over(i) /\ cloud[i] \in Running /\ ~Retained(i) =>
      \/ row[i] \in ActiveStates
      \/ row[i] = "none" /\ pc[i] = "crashed"

\* The instance of a job that ended in an outcome the configuration retains is
\* not terminated by Submit.  One that is retained whatever the outcome is not
\* terminated by cleanup either, during the job or after it, and whatever
\* refresh wrote into its row: it goes away on `cancel` only.
RetainedStays ==
  \A i \in Instances :
    /\ Retained(i) => "settle" \notin asked[i]
    /\ ~config[i].terminate /\ config[i].keep =>
         asked[i] \cap {"settle", "cleanup"} = {}

\* An instance that has a row and outlives its Submit call is terminated in
\* the end, even if Submit recorded it as failed because it could not
\* terminate it: `refresh` finds that it still runs and `cleanup` retries.
SurvivorIsReclaimed ==
  \A i \in Instances :
    Over(i) /\ row[i] # "none" /\ CleanupPolicy(i) # "never"
      ~> cloud[i] \notin Running

=============================================================================
