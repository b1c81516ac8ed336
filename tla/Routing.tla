------------------------------- MODULE Routing -------------------------------
(***************************************************************************)
(* The choice of a provider, and of a hardware shape, for an attempt       *)
(* (internal/routing), over what the adapters of the registry say of       *)
(* themselves.                                                             *)
(*                                                                         *)
(* A registry maps names to adapters, and an adapter is a record: whether  *)
(* it takes `bundle`d inputs, the URI schemes (`uris`) and `checkpoints`   *)
(* it says it reads, what its ValidateJob asks for (what it `runs`, what   *)
(* it `fetches`, whether it is `ready`), its `hourly` price and `shapes`.  *)
(* Identifiers of shapes are numbers in their order, 0 for a missing one.  *)
(* Prices are in cents, so costs are in cents times seconds per hour, run  *)
(* times are whole seconds, and VRAM is in half gigabytes where it is      *)
(* compared with what a job needs.  The script of a job can be read.       *)
(***************************************************************************)
EXTENDS Integers, Sequences

CONSTANTS
  Rank,          \* the place of each provider in the order of names
  NoHardware, NoCheckpoint

ASSUME RankAssumption ==
  /\ \A p \in DOMAIN Rank : Rank[p] \in Nat
  /\ \A p, q \in DOMAIN Rank : Rank[p] = Rank[q] => p = q

\* HardwareShape
Shapes ==
  [id : Nat, machine : STRING, region : STRING, family : STRING, gpus : Nat,
   perGPU : Nat, total : Nat, onDemandPrice : Nat, spotPrice : Nat,
   onDemand : BOOLEAN, spot : BOOLEAN, hint : STRING]

\* SizingHints
Hints ==
  [required : Nat, parameters : Nat, artifact : Nat, batch : Nat,
   precision : STRING, optimizer : STRING, steps : Nat]

Larger(m, n) == IF m > n THEN m ELSE n

-----------------------------------------------------------------------------
(* Providers *)

\* capabilityRejections, of the inputs
AcceptsInputs(adapter, job) ==
  \A kind \in job.inputs :
    IF kind = "bundle" THEN adapter.bundle ELSE kind \in adapter.uris

\* supportedCheckpointScheme
ReadsCheckpoint(adapter, scheme) ==
  scheme = NoCheckpoint \/ scheme \in adapter.checkpoints

\* ValidateJob of the adapters
ValidateJob(adapter, job) ==
  /\ adapter.ready
  /\ IF adapter.runs = "script"
     THEN job.script
     ELSE job.image /\ ~job.script /\ "bundle" \notin job.inputs
  /\ job.inputs \ {"bundle"} \subseteq adapter.fetches

\* The providers that may run the job.
Eligible(registry, job, opts) ==
  {p \in DOMAIN registry \ opts.exclude :
     /\ AcceptsInputs(registry[p], job)
     /\ ReadsCheckpoint(registry[p], opts.resume)
     /\ ValidateJob(registry[p], job)}

-----------------------------------------------------------------------------
(* Hardware *)

HardwareRoutingEnabled(opts) ==
  \/ opts.mode \in {"full_auto", "auto_provider", "manual"}
  \/ opts.objective = "fastest_within_budget"

BytesPerParameter(precision) ==
  CASE precision = "fp32" -> 4 [] precision = "int8" -> 1 [] OTHER -> 2

OptimizerFactor(optimizer) ==
  CASE optimizer = "adam" -> 4 [] optimizer = "sgd" -> 2 [] OTHER -> 3

\* estimateRequiredVRAM, in half gigabytes; 0 if nothing is known
RequiredVRAM(opts) ==
  LET hints == opts.hints
  IN  CASE hints.required > 0 -> 2 * hints.required
        [] hints.required <= 0 /\ hints.parameters > 0 ->
             2 * hints.parameters * BytesPerParameter(hints.precision)
               * OptimizerFactor(hints.optimizer) + Larger(hints.batch, 1)
        [] hints.required <= 0 /\ hints.parameters <= 0 /\ hints.artifact > 0 ->
             4 * hints.artifact
        [] OTHER -> 2 * Larger(opts.limits.perGPU, 0)

\* A value that the configuration lists, or lists no values for.
Allowed(values, value) == values = {} \/ value \in values

\* hardwareRejections
FitsLimits(shape, limits) ==
  /\ limits.gpus > 0 => shape.gpus <= limits.gpus
  /\ shape.perGPU >= limits.perGPU
  /\ Allowed(limits.families, shape.family) /\ Allowed(limits.regions, shape.region)
  /\ limits.requireOnDemand => shape.onDemand
  /\ limits.allowSpot \/ shape.onDemand \/ ~shape.spot

\* hardwareRejections
IsOnOffer(shape) ==
  /\ shape.id # 0
  /\ shape.onDemandPrice > 0 \/ shape.spotPrice > 0
  /\ shape.hint \notin {"no_quota", "unavailable"}

\* estimateRuntimeSeconds
Runtime(shape, hints) ==
  LET accelerators == Larger(shape.gpus, 1)
  IN  IF hints.steps > 0
      THEN Larger(60, (hints.steps * 10) \div accelerators)
      ELSE IF shape.gpus > 0 THEN 3600 \div accelerators ELSE 7200

\* estimateTotalCostUSD
TotalCost(shape, adapter, hints) ==
  LET hourly == IF shape.onDemandPrice # 0 THEN shape.onDemandPrice
                ELSE IF shape.spotPrice # 0 THEN shape.spotPrice ELSE adapter.hourly
  IN  hourly * Runtime(shape, hints)

WithinBudget(shape, adapter, opts) ==
  opts.budget > 0 => TotalCost(shape, adapter, opts.hints) <= opts.budget * 3600

\* selectManualHardware: no other condition than the names
MatchesManual(provider, shape, manual) ==
  /\ manual.provider \in {"", provider}
  /\ manual.shape \in {0, shape.id}
  /\ manual.machine \in {"", shape.machine}
  /\ manual.region \in {"", shape.region}

-----------------------------------------------------------------------------
(* The choice *)

\* A choice is a provider, its hardware and its key, by which the candidates
\* are sorted: what the objective looks at first, then the names of provider
\* and shape, then the place of the shape in its list.
Choice(provider, hardware, key) ==
  [provider |-> provider, hardware |-> hardware, key |-> key]

\* sortHardware
HardwareKey(adapter, p, n, opts) ==
  LET shape == adapter.shapes[n]
      cost  == TotalCost(shape, adapter, opts.hints)
  IN  IF opts.objective = "fastest_within_budget"
      THEN <<Runtime(shape, opts.hints), cost, Rank[p], shape.id, n>>
      ELSE <<cost, 0, Rank[p], shape.id, n>>

\* Select without hardware
ProviderChoices(registry, job, opts) ==
  {Choice(p, NoHardware,
          <<IF opts.objective = "min_cost" THEN registry[p].hourly ELSE 0, 0, Rank[p], 0, 0>>)
     : p \in Eligible(registry, job, opts)}

\* The shapes of the providers that may run the job, as pairs.
Candidates(registry, job, opts) ==
  UNION {{p} \X DOMAIN registry[p].shapes : p \in Eligible(registry, job, opts)}

\* selectManualHardware: the first shape that matches
ManualChoices(registry, job, opts) ==
  {Choice(c[1], registry[c[1]].shapes[c[2]], <<0, 0, Rank[c[1]], 0, c[2]>>)
     : c \in {d \in Candidates(registry, job, opts) :
                MatchesManual(d[1], registry[d[1]].shapes[d[2]], opts.manual)}}

\* hardwareRejections, and the budget
IsEligibleHardware(adapter, n, opts) ==
  LET shape == adapter.shapes[n]
  IN  /\ IsOnOffer(shape) /\ FitsLimits(shape, opts.limits)
      /\ 2 * shape.total >= RequiredVRAM(opts)
      /\ WithinBudget(shape, adapter, opts)

\* selectHardwareRoute; full_auto has to know how much memory the job needs
HardwareChoices(registry, job, opts) ==
  {Choice(c[1], registry[c[1]].shapes[c[2]], HardwareKey(registry[c[1]], c[1], c[2], opts))
     : c \in {d \in Candidates(registry, job, opts) :
                /\ opts.mode = "full_auto" => RequiredVRAM(opts) > 0
                /\ IsEligibleHardware(registry[d[1]], d[2], opts)}}

Choices(registry, job, opts) ==
  IF ~HardwareRoutingEnabled(opts) THEN ProviderChoices(registry, job, opts)
  ELSE IF opts.mode = "manual" THEN ManualChoices(registry, job, opts)
  ELSE HardwareChoices(registry, job, opts)

\* The order of keys, from left to right.
Before(k, l) ==
  \E i \in 1..5 : k[i] < l[i] /\ \A j \in 1..(i - 1) : k[j] = l[j]

\* The first of the sorted list; none if there is no choice.
Select(registry, job, opts) ==
  {c \in Choices(registry, job, opts) :
     \A d \in Choices(registry, job, opts) : ~Before(d.key, c.key)}

=============================================================================
