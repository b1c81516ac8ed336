------------------------------ MODULE Planning ------------------------------
(***************************************************************************)
(* From a configuration to the attempts of a run: what `plan`, `train` and *)
(* `resume` do before a provider gets the job, and what failover makes of  *)
(* it (internal/cli/root.go).                                              *)
(*                                                                         *)
(* A user has a configuration planned and then runs it.  Prices and        *)
(* capacity are asked for anew whenever a provider is chosen and may have  *)
(* changed; the sizing probe and the stored credentials are for the run    *)
(* only; uploads and builds may fail then.                                 *)
(*                                                                         *)
(* An input of a job is "bundle" or the scheme of its URI.  Four of the    *)
(* five China clouds are left out: they differ from the one modelled in    *)
(* nothing that matters here.                                              *)
(***************************************************************************)
EXTENDS Routing

CONSTANTS
  Configs,       \* the configurations, with the flags of the commands
  Markets,       \* the shapes GCP and Lambda may have on offer
  Profiles,      \* the memory a probe may ask for, in gigabytes; 0 for none
  Resumes,       \* checkpoint schemes a resume, or a plan of one, starts from
  Saved,         \* checkpoint schemes a failed attempt may leave
  MaxMoves,      \* bound on the changes of the market
  NoChoice

ASSUME PlanningAssumption ==
  /\ DOMAIN Rank \subseteq
       {"local", "mock-gcp", "mock-lambda", "gcp", "lambda", "alibaba-cloud"}
  /\ \A m \in Markets :
       m.gcp \in Seq(Shapes) \ {<<>>} /\ m.lambda \in Seq(Shapes)
  /\ \A c \in Configs :
       /\ c.lambdaShape \in Shapes /\ c.chinaShape \in Shapes
       /\ c.mock.shapes \in Seq(Shapes)
       /\ DOMAIN c.routing = {"mode", "objective", "budget", "hints", "limits",
                             "manual", "exclude", "resume"}
       /\ c.routing.hints \in Hints
  /\ Profiles \subseteq Nat

VARIABLES
  config, market, moves,
  start,         \* the checkpoint scheme the commands start from
  command,       \* "plan", or "train" for train and resume
  pc,
  job,           \* the job as it has been prepared so far
  profile,       \* the memory a job needs according to its probe
  hints,         \* the sizing hints in use
  excluded, resumeFrom,    \* of the attempt loop
  choice,        \* the choice for this attempt
  planned,       \* what plan came to: a choice, or NoChoice
  attempts,      \* the choices of the run, with what became of them
  fault          \* an upload, a build, the probe or the credentials failed

inputVars == <<config, market, moves, start>>
jobVars   == <<job, profile, hints>>
loopVars  == <<excluded, resumeFrom, choice, attempts>>
vars == <<inputVars, command, pc, jobVars, loopVars, planned, fault>>

Schemes == {"http", "https", "s3", "gs"}

-----------------------------------------------------------------------------
(* Adapters *)

\* The adapters that depend on nothing but their price and their shapes.
ScriptAdapter(checkpoints, uris, hourly, shapes) ==
  [bundle |-> TRUE, uris |-> uris, checkpoints |-> checkpoints,
   runs |-> "script", fetches |-> uris, ready |-> TRUE,
   hourly |-> hourly, shapes |-> shapes]

ImageAdapter(checkpoints, uris, fetches, ready, hourly, shapes) ==
  [bundle |-> FALSE, uris |-> uris, checkpoints |-> checkpoints,
   runs |-> "image", fetches |-> fetches, ready |-> ready,
   hourly |-> hourly, shapes |-> shapes]

LocalAdapter == ScriptAdapter({"file"}, {}, 0, <<>>)

\* The prices of mergedMockProviders.
MockAdapter(name) ==
  ScriptAdapter({"file", "mock", "gs", "s3"}, Schemes,
                IF name = "mock-gcp" THEN 130 ELSE 110,
                IF name = config.mock.name THEN config.mock.shapes ELSE <<>>)

GCPAdapter ==
  ImageAdapter({"gs"}, {"gs"}, {"gs"}, config.gcp = "complete",
               market.gcp[1].onDemandPrice, market.gcp)

\* Environment variables are looked at by every command, the store is opened
\* by train and resume only (Resolver.Resolve, buildPlanProviderRegistry).
HasKey == config.key = "environment" \/ (config.key = "stored" /\ command = "train")

\* configuredHardwareShape has no price; what the API reports replaces it.
LambdaShapes ==
  IF HasKey /\ market.lambda # <<>> THEN market.lambda ELSE <<config.lambdaShape>>

\* Provider.Estimate: the price of the configured type where it is configured
LambdaHourly ==
  LET mine == {n \in DOMAIN LambdaShapes :
                 LambdaShapes[n].id = config.lambdaShape.id}
  IN  IF mine = {} THEN 0 ELSE LambdaShapes[CHOOSE n \in mine : TRUE].onDemandPrice

LambdaAdapter ==
  ImageAdapter({"s3", "gs"}, Schemes, Schemes, config.lambda = "complete",
               LambdaHourly, LambdaShapes)

\* ValidateJob of a virtual machine does not look at its network; a vendor
\* without a section only answers questions.
ChinaAdapter ==
  ImageAdapter({"oss"}, {"oss"}, Schemes,
               config.china \in {"no network", "complete"}, config.chinaShape.onDemandPrice,
               IF config.china = "none" THEN <<>> ELSE <<config.chinaShape>>)

\* buildProviderRegistryWithOptions
Adapter(name) ==
  CASE name = "local" -> LocalAdapter
    [] name \in {"mock-gcp", "mock-lambda"} -> MockAdapter(name)
    [] name = "gcp" -> GCPAdapter
    [] name = "lambda" -> LambdaAdapter
    [] name = "alibaba-cloud" -> ChinaAdapter

\* shouldRegisterGCPForTrain, shouldRegisterLambdaForTrain
Registered(name) ==
  CASE name = "gcp" -> config.provider = "gcp" \/ (config.provider = "auto" /\ config.gcp # "none")
    [] name = "lambda" ->
         config.provider = "lambda" \/ (config.provider = "auto" /\ config.lambda = "complete")
    [] OTHER -> TRUE

Registry == [name \in {n \in DOMAIN Rank : Registered(n)} |-> Adapter(name)]

\* Registry.Get
IsRegistered(name) == name \in DOMAIN Registry

\* routingOptions
RoutingOptions ==
  [config.routing EXCEPT !.hints = hints, !.exclude = excluded, !.resume = resumeFrom]

-----------------------------------------------------------------------------
(* Commands *)

Init ==
  /\ config \in Configs
  /\ market \in Markets
  /\ moves = 0
  /\ command = "plan"
  /\ start \in Resumes
  /\ pc = "load"
  /\ job = config.job
  /\ profile = 0 /\ hints = config.routing.hints
  /\ excluded = {} /\ resumeFrom = start
  /\ choice = NoChoice
  /\ planned = NoChoice
  /\ attempts = <<>>
  /\ fault = FALSE

Goto(from, to) == pc = from /\ pc' = to

\* The command ends with an error before it has chosen a provider.
Rejects(from) ==
  /\ Goto(from, "over")
  /\ UNCHANGED <<inputVars, command, jobVars, loopVars, planned>>

\* Prices and capacity change.
MarketMoves ==
  /\ moves < MaxMoves
  /\ moves' = moves + 1
  /\ market' \in Markets \ {market}
  /\ UNCHANGED <<config, start, command, pc, jobVars, loopVars, planned, fault>>

\* The user trains what has been planned, or resumes a run.
Run ==
  /\ command = "plan" /\ Goto("over", "load")
  /\ command' = "train"
  /\ job' = config.job
  /\ UNCHANGED <<inputVars, profile, hints, loopVars, planned, fault>>

\* validateProviderConfig: the section of a provider that is named
SectionIsComplete ==
  CASE config.provider = "gcp" ->
         /\ config.job.image \/ config.packaging # "none"
         /\ config.gcp # "none"
    [] config.provider = "lambda" ->
         /\ config.job.image \/ config.packaging = "image"
         /\ config.job.script => config.packaging = "image"
         /\ config.lambda = "complete"
    [] config.provider = "alibaba-cloud" ->
         config.job.image /\ ~config.job.script /\ config.china = "complete"
    [] OTHER -> TRUE

\* LoadTrain: a script or an image, staging prefixes of S3 or GCS
IsValid ==
  /\ config.job.script \/ config.job.image
  /\ config.staging \in {"none", "s3", "gs"}
  /\ SectionIsComplete

Load ==
  /\ IsValid
  /\ Goto("load", IF command = "plan" THEN "preflight" ELSE "probe")
  /\ UNCHANGED <<inputVars, command, jobVars, loopVars, planned, fault>>

LoadFails == ~IsValid /\ Rejects("load") /\ UNCHANGED fault

-----------------------------------------------------------------------------
(* train and resume only: the sizing probe and the credentials *)

\* Mutant: the profile is read and left there.
Mut_RunProbe ==
  /\ config.probe \in {"none", "output"}
  /\ Goto("probe", "credentials")
  /\ IF config.probe = "none" THEN UNCHANGED profile ELSE profile' \in Profiles
  /\ UNCHANGED <<inputVars, command, job, hints, loopVars, planned, fault>>

\* applySizingProbe, RunProbe, ApplyProfile
RunProbe ==
  /\ config.probe \in {"none", "output"}
  /\ Goto("probe", "credentials")
  /\ IF config.probe = "none" THEN UNCHANGED profile ELSE profile' \in Profiles
  /\ hints' = IF profile' > 0 THEN [hints EXCEPT !.required = profile'] ELSE hints
  /\ UNCHANGED <<inputVars, command, job, loopVars, planned, fault>>

\* The command of the probe fails, or leaves nothing that can be read; or
\* the configuration does not say where to look.
ProbeFails ==
  /\ config.probe # "none"
  /\ Rejects("probe")
  /\ fault' = TRUE

\* credentialResolverForTrain
NeedsCredentials ==
  \/ config.provider \in {"lambda", "alibaba-cloud"}
  \/ /\ config.provider = "auto"
     /\ config.lambda = "complete" \/ config.china # "none"

OpenCredentials ==
  /\ Goto("credentials", "preflight")
  /\ UNCHANGED <<inputVars, command, jobVars, loopVars, planned, fault>>

\* optionalCredentialResolverAtHome: a wrong passphrase, an unreadable store
OpenCredentialsFails ==
  /\ NeedsCredentials
  /\ Rejects("credentials")
  /\ fault' = TRUE

-----------------------------------------------------------------------------
(* The job: inputs, staging, packaging *)

\* Prepare: inputs that can be read, and bundles within the limit
Preflight ==
  /\ config.bundleFits
  /\ job.inputs \subseteq Schemes \cup {"bundle"}
  /\ Goto("preflight", "stage")
  /\ UNCHANGED <<inputVars, command, jobVars, loopVars, planned, fault>>

PreflightFails ==
  /\ ~config.bundleFits \/ ~(job.inputs \subseteq Schemes \cup {"bundle"})
  /\ Rejects("preflight")
  /\ UNCHANGED fault

\* shouldStageBundledInputs
ShouldStage ==
  /\ config.staging # "none" /\ config.provider # "local"
  /\ "bundle" \in job.inputs

\* validateStagingDataPrefixForProvider
PrefixIsReadable ==
  config.provider = "gcp" => config.staging = "gs"

Staged == [job EXCEPT !.inputs = (@ \ {"bundle"}) \cup {config.staging}]

\* Mutant: plan shows the uploads, and goes on with the bundles.
Mut_Stage ==
  /\ Goto("stage", "package")
  /\ ShouldStage => PrefixIsReadable
  /\ job' = IF ShouldStage /\ command = "train" THEN Staged ELSE job
  /\ UNCHANGED <<inputVars, command, profile, hints, loopVars, planned, fault>>

\* StageBundledInputs; plan has an uploader that does nothing
Stage ==
  /\ Goto("stage", "package")
  /\ ShouldStage => PrefixIsReadable
  /\ job' = IF ShouldStage THEN Staged ELSE job
  /\ UNCHANGED <<inputVars, command, profile, hints, loopVars, planned, fault>>

StageFails ==
  /\ ShouldStage
  /\ ~PrefixIsReadable \/ command = "train"
  /\ Rejects("stage")
  /\ fault' = (fault \/ PrefixIsReadable)

\* shouldPackageForProvider
ShouldPackage ==
  /\ ~job.image /\ job.script /\ config.provider # "local"
  /\ \/ config.packaging = "image"
     \/ config.provider = "gcp" /\ config.packaging = "repository"

\* planPackagedJob, packageJob: the image takes the place of the script, which
\* must be inside the packaging context.
Package ==
  /\ Goto("package", "choose")
  /\ ShouldPackage => config.scriptInContext
  /\ job' = IF ShouldPackage THEN [job EXCEPT !.image = TRUE, !.script = FALSE] ELSE job
  /\ UNCHANGED <<inputVars, command, profile, hints, loopVars, planned, fault>>

\* docker build or push fails, or the script turns out to be outside.
PackageFails ==
  /\ ShouldPackage
  /\ ~config.scriptInContext \/ command = "train"
  /\ Rejects("package")
  /\ fault' = (fault \/ config.scriptInContext)

-----------------------------------------------------------------------------
(* Choosing a provider *)

Explicit == [provider |-> config.provider, hardware |-> NoHardware, key |-> <<>>]

\* plan ends with a choice it reports as supported.
Plans(c) ==
  /\ command = "plan" /\ Goto("choose", "over")
  /\ planned' = c
  /\ UNCHANGED <<inputVars, command, jobVars, loopVars, fault>>

PlanRoute ==
  /\ config.provider = "auto"
  /\ \E c \in Select(Registry, job, RoutingOptions) : Plans(c)

\* planExplicitProvider
PlanExplicitProvider ==
  /\ IsRegistered(config.provider)
  /\ ValidateJob(Registry[config.provider], job)
  /\ ReadsCheckpoint(Registry[config.provider], resumeFrom)
  /\ Plans(Explicit)

PlanRejects ==
  /\ command = "plan"
  /\ IF config.provider = "auto"
     THEN Select(Registry, job, RoutingOptions) = {}
     ELSE IsRegistered(config.provider) =>
            \/ ~ValidateJob(Registry[config.provider], job)
            \/ ~ReadsCheckpoint(Registry[config.provider], resumeFrom)
  /\ Rejects("choose")
  /\ UNCHANGED fault

\* runAttempts and runAttempt begin an attempt.
Begins(c) ==
  /\ command = "train" /\ Goto("choose", "prepare")
  /\ choice' = c
  /\ UNCHANGED <<inputVars, command, jobVars, excluded, resumeFrom, attempts,
                 planned, fault>>

Route ==
  /\ config.provider = "auto"
  /\ \E c \in Select(Registry, job, RoutingOptions) : Begins(c)

\* ensureProviderSupportsCheckpoint; an unknown provider is found out later
UseExplicitProvider ==
  /\ config.provider # "auto"
  /\ resumeFrom # NoCheckpoint =>
       /\ IsRegistered(config.provider)
       /\ ReadsCheckpoint(Registry[config.provider], resumeFrom)
  /\ Begins(Explicit)

ChoiceFails ==
  /\ command = "train"
  /\ IF config.provider = "auto"
     THEN Select(Registry, job, RoutingOptions) = {}
     ELSE /\ resumeFrom # NoCheckpoint
          /\ IsRegistered(config.provider) =>
               ~ReadsCheckpoint(Registry[config.provider], resumeFrom)
  /\ Rejects("choose")
  /\ UNCHANGED fault

-----------------------------------------------------------------------------
(* An attempt *)

\* The attempt is over, and with it the run unless it is to be repeated.
Ends(end, to) ==
  /\ pc' = to
  /\ attempts' = Append(attempts, [choice |-> choice, end |-> end])
  /\ UNCHANGED <<inputVars, command, jobVars, choice, planned, fault>>

\* PrepareLocal: every input is mounted under /workspace
CannotMount == choice.provider = "local" /\ job.inputs # {} /\ ~config.mountFits

\* materializeBundle may fail for another reason.
MayNotMount == CannotMount \/ (choice.provider = "local" /\ "bundle" \in job.inputs)

Accepts == IsRegistered(choice.provider) /\ ValidateJob(Registry[choice.provider], job)

Refused ==
  /\ pc = "prepare" /\ ~CannotMount /\ ~Accepts
  /\ Ends("refused", "over")
  /\ UNCHANGED <<excluded, resumeFrom>>

PrepareFails ==
  /\ pc = "prepare" /\ MayNotMount
  /\ Ends("not mounted", "over")
  /\ UNCHANGED <<excluded, resumeFrom>>

Submit ==
  /\ Goto("prepare", "submit")
  /\ ~CannotMount /\ Accepts
  /\ UNCHANGED <<inputVars, command, jobVars, loopVars, planned, fault>>

\* Submit returns with a result, or an error that is not retried.
Settles ==
  /\ pc = "submit"
  /\ \E end \in {"succeeded", "failed"} : Ends(end, "over")
  /\ UNCHANGED <<excluded, resumeFrom>>

LastAttempt ==
  config.provider # "auto" \/ Len(attempts) + 1 >= Larger(config.maxAttempts, 1)

\* A retryable error, and no further attempt or no checkpoint to resume from.
GivesUp ==
  /\ pc = "submit"
  /\ LastAttempt \/ resumeFrom = NoCheckpoint
  /\ Ends("retryable", "over")
  /\ UNCHANGED <<excluded, resumeFrom>>

\* Mutant: only the last provider that failed is left out.
Mut_FailOver ==
  /\ pc = "submit"
  /\ ~LastAttempt
  /\ resumeFrom' \in Saved \cup ({resumeFrom} \ {NoCheckpoint})
  /\ excluded' = {choice.provider}
  /\ Ends("retryable", "choose")

\* The next attempt resumes from the latest checkpoint, elsewhere.
FailOver ==
  /\ pc = "submit"
  /\ ~LastAttempt
  /\ resumeFrom' \in Saved \cup ({resumeFrom} \ {NoCheckpoint})
  /\ excluded' = excluded \cup {choice.provider}
  /\ Ends("retryable", "choose")

-----------------------------------------------------------------------------
(* Specification *)

RunOnly == RunProbe \/ ProbeFails \/ OpenCredentials \/ OpenCredentialsFails

Prepare ==
  \/ Load \/ LoadFails \/ Preflight \/ PreflightFails
  \/ Stage \/ StageFails \/ Package \/ PackageFails

Plan == PlanRoute \/ PlanExplicitProvider \/ PlanRejects

Attempt ==
  \/ Route \/ UseExplicitProvider \/ ChoiceFails
  \/ Refused \/ PrepareFails \/ Submit \/ Settles \/ GivesUp \/ FailOver

Next == MarketMoves \/ Run \/ RunOnly \/ Prepare \/ Plan \/ Attempt

Spec == Init /\ [][Next]_vars

-----------------------------------------------------------------------------
(* Properties *)

\* Nothing the plan could not know of has a part in the choice.
Undisturbed ==
  /\ moves = 0 /\ config.probe = "none"
  /\ config.key = "stored" => config.lambda # "complete"

Refusals == {"refused", "not mounted"}

\* What `plan` reports is what `train` or `resume` do with the same
\* configuration: a run gets past the checks of its first attempt only on the
\* provider and hardware of the plan, and a job that was planned gets there,
\* unless an upload, a build, the store or a local mount fails (runPlan,
\* preparePlanJob against runTrain, prepareRunJob).
PlanForeseesTrain ==
  command = "train" /\ Undisturbed =>
    /\ attempts # <<>> /\ attempts[1].end \notin Refusals => attempts[1].choice = planned
    /\ pc = "over" /\ planned # NoChoice /\ ~fault =>
         attempts # <<>> /\ attempts[1].end # "refused"

\* A provider that routing has chosen does not refuse the job, although it
\* checks it a second time and the market has moved; and the hardware has the
\* memory the probe asked for, and keeps the run, at the price it was chosen
\* for, within the budget (applySizingProbe, Select, runAttempt).
RoutedJobFits ==
  config.provider = "auto" =>
    \A i \in DOMAIN attempts :
      LET chosen == attempts[i].choice
      IN  /\ attempts[i].end # "refused"
          /\ chosen.hardware # NoHardware /\ config.routing.mode # "manual" =>
               /\ chosen.hardware.total >= profile
               /\ WithinBudget(chosen.hardware, Registry[chosen.provider], RoutingOptions)

\* While prices stay, a new run tries its best choice first and once: what
\* failover turns to comes after it in the order of the objective, though
\* each attempt has another checkpoint to read.
FirstChoiceIsBest ==
  moves = 0 /\ start = NoCheckpoint =>
    \A i \in DOMAIN attempts \ {1} :
      Before(attempts[1].choice.key, attempts[i].choice.key)

=============================================================================
