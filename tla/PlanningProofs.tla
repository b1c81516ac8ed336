--------------------------- MODULE PlanningProofs ---------------------------
(***************************************************************************)
(* Proofs about Routing and Planning, for every configuration and market.  *)
(***************************************************************************)
EXTENDS Planning, TLAPS, SequenceTheorems, WellFoundedInduction

-----------------------------------------------------------------------------
(* The order of keys *)

Keys == [1..5 -> Nat]

\* Two keys that differ are in order: the places from the left decide.
LEMMA BeforeIsTotal ==
  ASSUME NEW k \in Keys, NEW l \in Keys, k # l
  PROVE  Before(k, l) \/ Before(l, k)
<1>1. \E i \in 1..5 : k[i] # l[i]
  BY DEF Keys
<1>2. \E i \in 1..5 : k[i] # l[i] /\ \A j \in 1..(i - 1) : k[j] = l[j]
  <2>1. CASE k[1] # l[1] BY <2>1
  <2>2. CASE k[1] = l[1] /\ k[2] # l[2] BY <2>2
  <2>3. CASE k[1] = l[1] /\ k[2] = l[2] /\ k[3] # l[3] BY <2>3
  <2>4. CASE k[1] = l[1] /\ k[2] = l[2] /\ k[3] = l[3] /\ k[4] # l[4] BY <2>4
  <2>5. CASE k[1] = l[1] /\ k[2] = l[2] /\ k[3] = l[3] /\ k[4] = l[4] /\ k[5] # l[5]
    BY <2>5
  <2> QED BY <1>1, <2>1, <2>2, <2>3, <2>4, <2>5
<1>3. PICK i \in 1..5 : k[i] # l[i] /\ \A j \in 1..(i - 1) : k[j] = l[j]
  BY <1>2
<1>4. k[i] \in Nat /\ l[i] \in Nat BY DEF Keys
<1>5. CASE k[i] < l[i] BY <1>3, <1>5 DEF Before
<1>6. CASE l[i] < k[i] BY <1>3, <1>6 DEF Before
<1> QED BY <1>3, <1>4, <1>5, <1>6

\* Some key has the least number in a place.
LEMMA LeastInPlace ==
  ASSUME NEW K, K \subseteq Keys, K # {}, NEW i \in 1..5
  PROVE  \E k \in K : \A l \in K : k[i] <= l[i]
<1> DEFINE S == {k[i] : k \in K}
<1>1. S \subseteq Nat /\ S # {} BY DEF Keys
<1>2. PICK n \in S : \A m \in S : ~ (<<m, n>> \in OpToRel(<, Nat))
  BY <1>1, NatLessThanWellFounded, WFMin
<1>3. ASSUME NEW m \in S PROVE n <= m
  <2>1. ~ (m < n) BY <1>1, <1>2 DEF OpToRel
  <2> QED BY <1>1, <2>1
<1> QED BY <1>3

\* Some key comes before all the others, however many there are.
LEMMA FirstKey ==
  ASSUME NEW K, K \subseteq Keys, K # {}
  PROVE  \E k \in K : \A l \in K : l = k \/ Before(k, l)
<1>1. PICK a \in K : \A l \in K : a[1] <= l[1]
  <2>1. 1 \in 1..5 OBVIOUS
  <2> QED BY <2>1, LeastInPlace
<1> DEFINE A == {k \in K : k[1] = a[1]}
<1>2. PICK b \in A : \A l \in A : b[2] <= l[2]
  <2>1. 2 \in 1..5 /\ A \subseteq Keys /\ A # {} BY <1>1
  <2> HIDE DEF A
  <2> QED BY <2>1, LeastInPlace
<1> DEFINE B == {k \in A : k[2] = b[2]}
<1>3. PICK c \in B : \A l \in B : c[3] <= l[3]
  <2>1. 3 \in 1..5 /\ B \subseteq Keys /\ B # {} BY <1>2
  <2> HIDE DEF B
  <2> QED BY <2>1, LeastInPlace
<1> DEFINE C == {k \in B : k[3] = c[3]}
<1>4. PICK d \in C : \A l \in C : d[4] <= l[4]
  <2>1. 4 \in 1..5 /\ C \subseteq Keys /\ C # {} BY <1>3
  <2> HIDE DEF C
  <2> QED BY <2>1, LeastInPlace
<1> DEFINE D == {k \in C : k[4] = d[4]}
<1>5. PICK e \in D : \A l \in D : e[5] <= l[5]
  <2>1. 5 \in 1..5 /\ D \subseteq Keys /\ D # {} BY <1>4
  <2> HIDE DEF D
  <2> QED BY <2>1, LeastInPlace
<1>6. ASSUME NEW l \in K, l # e PROVE Before(e, l)
  <2>1. \A i \in 1..5 : e[i] \in Nat /\ l[i] \in Nat BY DEF Keys
  <2>2. CASE l \notin A
    <3>1. e[1] < l[1] BY <1>1, <2>1, <2>2
    <3> QED BY <3>1 DEF Before
  <2>3. CASE l \in A /\ l \notin B
    <3>1. e[1] = l[1] /\ e[2] < l[2] BY <1>2, <2>1, <2>3
    <3> QED BY <3>1 DEF Before
  <2>4. CASE l \in B /\ l \notin C
    <3>1. e[1] = l[1] /\ e[2] = l[2] /\ e[3] < l[3] BY <1>3, <2>1, <2>4
    <3> QED BY <3>1 DEF Before
  <2>5. CASE l \in C /\ l \notin D
    <3>1. e[1] = l[1] /\ e[2] = l[2] /\ e[3] = l[3] /\ e[4] < l[4] BY <1>4, <2>1, <2>5
    <3> QED BY <3>1 DEF Before
  <2>6. CASE l \in D
    <3>1. e[1] = l[1] /\ e[2] = l[2] /\ e[3] = l[3] /\ e[4] = l[4] BY <2>6
    <3>2. \E i \in 1..5 : e[i] # l[i] BY <1>6 DEF Keys
    <3>3. e[5] < l[5] BY <1>5, <2>1, <2>6, <3>1, <3>2
    <3> QED BY <3>1, <3>3 DEF Before
  <2> QED BY <2>2, <2>3, <2>4, <2>5, <2>6
<1> QED BY <1>6

\* A key does not come before one that comes before it.
LEMMA BeforeIsAsymmetric ==
  ASSUME NEW k \in Keys, NEW l \in Keys, Before(k, l)
  PROVE  ~Before(l, k)
<1>1. PICK i \in 1..5 : k[i] < l[i] /\ \A n \in 1..(i - 1) : k[n] = l[n]
  BY DEF Before
<1>2. ASSUME NEW j \in 1..5, l[j] < k[j], \A n \in 1..(j - 1) : l[n] = k[n]
      PROVE  FALSE
  <2>1. k[i] \in Nat /\ l[i] \in Nat /\ k[j] \in Nat /\ l[j] \in Nat BY DEF Keys
  <2>2. CASE i < j BY <1>1, <1>2, <2>1, <2>2
  <2>3. CASE j < i BY <1>1, <1>2, <2>1, <2>3
  <2>4. CASE i = j BY <1>1, <1>2, <2>1, <2>4
  <2> QED BY <2>2, <2>3, <2>4
<1> QED BY <1>2 DEF Before

-----------------------------------------------------------------------------
(* Choices *)

\* What an adapter must be for its keys to be numbers.
IsAdapter(adapter) == adapter.hourly \in Nat /\ adapter.shapes \in Seq(Shapes)

LEMMA RuntimeIsNat ==
  ASSUME NEW shape \in Shapes, NEW hints_ \in Hints
  PROVE  Runtime(shape, hints_) \in Nat
<1> DEFINE accelerators == Larger(shape.gpus, 1)
<1>1. shape.gpus \in Nat /\ hints_.steps \in Nat BY DEF Shapes, Hints
<1>2. accelerators \in Nat \ {0} BY <1>1 DEF Larger
<1> HIDE DEF accelerators
<1>3. (hints_.steps * 10) \div accelerators \in Nat /\ 3600 \div accelerators \in Nat
  BY <1>1, <1>2
<1>4. Larger(60, (hints_.steps * 10) \div accelerators) \in Nat BY <1>3 DEF Larger
<1> QED BY <1>3, <1>4 DEF Runtime, accelerators

LEMMA CostIsNat ==
  ASSUME NEW shape \in Shapes, NEW hints_ \in Hints,
         NEW adapter, adapter.hourly \in Nat
  PROVE  TotalCost(shape, adapter, hints_) \in Nat
<1>1. shape.onDemandPrice \in Nat /\ shape.spotPrice \in Nat BY DEF Shapes
<1>2. Runtime(shape, hints_) \in Nat BY RuntimeIsNat
<1> QED BY <1>1, <1>2 DEF TotalCost

\* A choice comes from a provider that may run the job, and its key has the
\* provider in the third place.
LEMMA ChoiceFacts ==
  ASSUME NEW registry, NEW theJob, NEW opts,
         DOMAIN registry \subseteq DOMAIN Rank,
         \A p \in DOMAIN registry : IsAdapter(registry[p]),
         opts.hints \in Hints,
         NEW c \in Choices(registry, theJob, opts)
  PROVE  /\ c.provider \in Eligible(registry, theJob, opts)
         /\ c.key \in Keys
         /\ c.key[3] = Rank[c.provider]
         /\ c = Choice(c.provider, c.hardware, c.key)
<1>0. /\ \A p \in DOMAIN registry : Rank[p] \in Nat
      /\ Eligible(registry, theJob, opts) \subseteq DOMAIN registry
  BY RankAssumption DEF Eligible
<1>1. CASE c \in ProviderChoices(registry, theJob, opts)
  <2>1. PICK p \in Eligible(registry, theJob, opts) :
          c = Choice(p, NoHardware,
                <<IF opts.objective = "min_cost" THEN registry[p].hourly ELSE 0,
                  0, Rank[p], 0, 0>>)
    BY <1>1 DEF ProviderChoices
  <2>2. registry[p].hourly \in Nat /\ Rank[p] \in Nat BY <1>0 DEF IsAdapter
  <2> QED BY <2>1, <2>2 DEF Choice, Keys
<1>2. CASE c \in ManualChoices(registry, theJob, opts)
  <2>1. PICK d \in Candidates(registry, theJob, opts) :
          c = Choice(d[1], registry[d[1]].shapes[d[2]], <<0, 0, Rank[d[1]], 0, d[2]>>)
    BY <1>2 DEF ManualChoices
  <2>2. d[1] \in Eligible(registry, theJob, opts) /\ d[2] \in DOMAIN registry[d[1]].shapes
    BY <2>1 DEF Candidates
  <2>3. d[2] \in Nat /\ Rank[d[1]] \in Nat BY <1>0, <2>2 DEF IsAdapter
  <2> QED BY <2>1, <2>2, <2>3 DEF Choice, Keys
<1>3. CASE c \in HardwareChoices(registry, theJob, opts)
  <2>1. PICK d \in Candidates(registry, theJob, opts) :
          c = Choice(d[1], registry[d[1]].shapes[d[2]],
                     HardwareKey(registry[d[1]], d[1], d[2], opts))
    BY <1>3 DEF HardwareChoices
  <2>2. d[1] \in Eligible(registry, theJob, opts) /\ d[2] \in DOMAIN registry[d[1]].shapes
    BY <2>1 DEF Candidates
  <2> DEFINE adapter == registry[d[1]]
             shape   == adapter.shapes[d[2]]
  <2>3. /\ adapter.hourly \in Nat /\ shape \in Shapes
        /\ d[2] \in Nat /\ Rank[d[1]] \in Nat
    BY <1>0, <2>2 DEF IsAdapter
  <2>4. /\ Runtime(shape, opts.hints) \in Nat
        /\ TotalCost(shape, adapter, opts.hints) \in Nat
    BY <2>3, RuntimeIsNat, CostIsNat
  <2>5. shape.id \in Nat BY <2>3 DEF Shapes
  <2>6. /\ HardwareKey(adapter, d[1], d[2], opts) \in Keys
        /\ HardwareKey(adapter, d[1], d[2], opts)[3] = Rank[d[1]]
    BY <2>3, <2>4, <2>5 DEF HardwareKey, Keys
  <2> QED BY <2>1, <2>2, <2>6 DEF Choice
<1> QED BY <1>1, <1>2, <1>3 DEF Choices

\* What a shape with a price costs does not depend on its adapter.
LEMMA PriceDecides ==
  ASSUME NEW shape \in Shapes, IsOnOffer(shape), NEW one, NEW other, NEW hints_
  PROVE  TotalCost(shape, one, hints_) = TotalCost(shape, other, hints_)
<1>1. shape.onDemandPrice # 0 \/ shape.spotPrice # 0 BY DEF IsOnOffer, Shapes
<1> QED BY <1>1 DEF TotalCost

\* With hardware, its memory is enough for what is required, and its price for
\* the budget.
LEMMA HardwareIsEnough ==
  ASSUME NEW registry, NEW theJob, NEW opts,
         DOMAIN registry \subseteq DOMAIN Rank,
         \A p \in DOMAIN registry : IsAdapter(registry[p]),
         opts.hints \in Hints,
         NEW c \in Choices(registry, theJob, opts),
         c.hardware # NoHardware, opts.mode # "manual"
  PROVE  /\ c.hardware \in Shapes
         /\ opts.hints.required > 0 => c.hardware.total >= opts.hints.required
         /\ \A adapter : WithinBudget(c.hardware, adapter, opts)
<1>1. c \in HardwareChoices(registry, theJob, opts)
  <2>1. c \notin ProviderChoices(registry, theJob, opts) BY DEF ProviderChoices, Choice
  <2> QED BY <2>1 DEF Choices
<1>2. PICK d \in Candidates(registry, theJob, opts) :
        /\ IsEligibleHardware(registry[d[1]], d[2], opts)
        /\ c.hardware = registry[d[1]].shapes[d[2]]
  BY <1>1 DEF HardwareChoices, Choice
<1>3. d[1] \in DOMAIN registry /\ d[2] \in DOMAIN registry[d[1]].shapes
  BY <1>2 DEF Candidates, Eligible
<1>4. c.hardware \in Shapes BY <1>2, <1>3 DEF IsAdapter
<1>5. 2 * c.hardware.total >= RequiredVRAM(opts)
  BY <1>2 DEF IsEligibleHardware
<1>6. c.hardware.total \in Nat /\ opts.hints.required \in Nat
  BY <1>4 DEF Shapes, Hints
<1>7. opts.hints.required > 0 => RequiredVRAM(opts) = 2 * opts.hints.required
  <2>1. opts.hints.required > 0 => ~(opts.hints.required <= 0) BY <1>6
  <2> QED BY <2>1 DEF RequiredVRAM
<1>8. ASSUME NEW adapter PROVE WithinBudget(c.hardware, adapter, opts)
  <2>1. /\ IsOnOffer(c.hardware)
        /\ WithinBudget(c.hardware, registry[d[1]], opts)
    BY <1>2 DEF IsEligibleHardware
  <2>2. TotalCost(c.hardware, adapter, opts.hints)
          = TotalCost(c.hardware, registry[d[1]], opts.hints)
    BY <1>4, <2>1, PriceDecides
  <2> QED BY <2>1, <2>2 DEF WithinBudget
<1> QED BY <1>4, <1>5, <1>6, <1>7, <1>8

\* Fewer providers, or a checkpoint to read, leave fewer of the same choices.
LEMMA ChoicesShrink ==
  ASSUME NEW registry, NEW theJob, NEW opts, NEW first,
         \A f \in {"mode", "objective", "budget", "hints", "limits", "manual"} :
            opts[f] = first[f],
         first.exclude = {}, first.resume = NoCheckpoint
  PROVE  Choices(registry, theJob, opts) \subseteq Choices(registry, theJob, first)
<1>1. /\ opts.mode = first.mode /\ opts.objective = first.objective
      /\ opts.budget = first.budget /\ opts.hints = first.hints
      /\ opts.limits = first.limits /\ opts.manual = first.manual
  OBVIOUS
<1>2. Eligible(registry, theJob, opts) \subseteq Eligible(registry, theJob, first)
  BY DEF Eligible, ReadsCheckpoint
<1>3. Candidates(registry, theJob, opts) \subseteq Candidates(registry, theJob, first)
  BY <1>2 DEF Candidates
<1>4. ProviderChoices(registry, theJob, opts) \subseteq ProviderChoices(registry, theJob, first)
  BY <1>1, <1>2 DEF ProviderChoices
<1>5. ManualChoices(registry, theJob, opts) \subseteq ManualChoices(registry, theJob, first)
  BY <1>1, <1>3 DEF ManualChoices
<1>6. RequiredVRAM(opts) = RequiredVRAM(first)
  BY <1>1 DEF RequiredVRAM
<1>7. HardwareChoices(registry, theJob, opts) \subseteq HardwareChoices(registry, theJob, first)
  <2>1. ASSUME NEW adapter, NEW n
        PROVE  IsEligibleHardware(adapter, n, opts) <=> IsEligibleHardware(adapter, n, first)
    BY <1>1, <1>6 DEF IsEligibleHardware, WithinBudget
  <2>2. ASSUME NEW adapter, NEW p, NEW n
        PROVE  HardwareKey(adapter, p, n, opts) = HardwareKey(adapter, p, n, first)
    BY <1>1 DEF HardwareKey
  <2>3. SUFFICES ASSUME NEW c \in HardwareChoices(registry, theJob, opts)
                 PROVE  c \in HardwareChoices(registry, theJob, first)
    OBVIOUS
  <2>4. PICK d \in Candidates(registry, theJob, opts) :
          /\ opts.mode = "full_auto" => RequiredVRAM(opts) > 0
          /\ IsEligibleHardware(registry[d[1]], d[2], opts)
          /\ c = Choice(d[1], registry[d[1]].shapes[d[2]],
                        HardwareKey(registry[d[1]], d[1], d[2], opts))
    BY DEF HardwareChoices
  <2>5. /\ d \in Candidates(registry, theJob, first)
        /\ first.mode = "full_auto" => RequiredVRAM(first) > 0
        /\ IsEligibleHardware(registry[d[1]], d[2], first)
        /\ c = Choice(d[1], registry[d[1]].shapes[d[2]],
                      HardwareKey(registry[d[1]], d[1], d[2], first))
    BY <1>1, <1>3, <1>6, <2>1, <2>2, <2>4
  <2> QED BY <2>5 DEF HardwareChoices
<1> QED BY <1>1, <1>4, <1>5, <1>7 DEF Choices, HardwareRoutingEnabled

-----------------------------------------------------------------------------
(* The registry *)

\* Every adapter has prices and shapes that are numbers.
LEMMA RegistryFacts ==
  ASSUME config \in Configs, market \in Markets
  PROVE  /\ DOMAIN Registry \subseteq DOMAIN Rank
         /\ \A p \in DOMAIN Registry : IsAdapter(Registry[p])
<1>1. /\ market.gcp \in Seq(Shapes) /\ market.gcp # <<>>
      /\ market.lambda \in Seq(Shapes)
      /\ config.lambdaShape \in Shapes /\ config.chinaShape \in Shapes
      /\ config.mock.shapes \in Seq(Shapes)
  BY PlanningAssumption
<1>2. IsAdapter(LocalAdapter)
  BY DEF IsAdapter, LocalAdapter, ScriptAdapter
<1>3. ASSUME NEW name PROVE IsAdapter(MockAdapter(name))
  BY <1>1 DEF IsAdapter, MockAdapter, ScriptAdapter
<1>4. IsAdapter(GCPAdapter)
  <2>1. market.gcp[1] \in Shapes BY <1>1
  <2>2. market.gcp[1].onDemandPrice \in Nat BY <2>1 DEF Shapes
  <2> QED BY <1>1, <2>2 DEF IsAdapter, GCPAdapter, ImageAdapter
<1>5. IsAdapter(LambdaAdapter)
  <2>1. LambdaShapes \in Seq(Shapes) BY <1>1 DEF LambdaShapes
  <2>2. LambdaHourly \in Nat
    <3> DEFINE mine == {n \in DOMAIN LambdaShapes :
                          LambdaShapes[n].id = config.lambdaShape.id}
    <3>1. CASE mine = {} BY <3>1 DEF LambdaHourly
    <3>2. CASE mine # {}
      <4>1. (CHOOSE n \in mine : TRUE) \in DOMAIN LambdaShapes BY <3>2
      <4>2. LambdaShapes[CHOOSE n \in mine : TRUE] \in Shapes BY <2>1, <4>1
      <4>3. LambdaShapes[CHOOSE n \in mine : TRUE].onDemandPrice \in Nat
        BY <4>2 DEF Shapes
      <4> QED BY <3>2, <4>3 DEF LambdaHourly
    <3> QED BY <3>1, <3>2
  <2> QED BY <2>1, <2>2 DEF IsAdapter, LambdaAdapter, ImageAdapter
<1>6. IsAdapter(ChinaAdapter)
  <2>1. config.chinaShape.onDemandPrice \in Nat BY <1>1 DEF Shapes
  <2>2. (IF config.china = "none" THEN <<>> ELSE <<config.chinaShape>>) \in Seq(Shapes)
    BY <1>1
  <2> QED BY <2>1, <2>2 DEF IsAdapter, ChinaAdapter, ImageAdapter
<1>7. ASSUME NEW name \in DOMAIN Rank PROVE IsAdapter(Adapter(name))
  <2>1. name \in {"local", "mock-gcp", "mock-lambda", "gcp", "lambda", "alibaba-cloud"}
    BY PlanningAssumption
  <2> QED BY <2>1, <1>2, <1>3, <1>4, <1>5, <1>6 DEF Adapter
<1> QED BY <1>7 DEF Registry

\* What the first attempt asks for, if it does not resume.
FirstOptions ==
  [config.routing EXCEPT !.hints = hints, !.exclude = {}, !.resume = NoCheckpoint]

LEMMA OptionsFacts ==
  ASSUME config \in Configs
  PROVE  /\ RoutingOptions.hints = hints /\ RoutingOptions.mode = config.routing.mode
         /\ RoutingOptions.budget = config.routing.budget
         /\ RoutingOptions.exclude = excluded
         /\ \A f \in {"mode", "objective", "budget", "hints", "limits", "manual"} :
              RoutingOptions[f] = FirstOptions[f]
         /\ FirstOptions.hints = hints
         /\ FirstOptions.exclude = {} /\ FirstOptions.resume = NoCheckpoint
         /\ excluded = {} /\ resumeFrom = NoCheckpoint => RoutingOptions = FirstOptions
BY PlanningAssumption DEF RoutingOptions, FirstOptions

\* The market and the store have no part in whether an adapter takes a job.
LEMMA MarketDoesNotValidate ==
  ASSUME UNCHANGED config
  PROVE  /\ DOMAIN Registry' = DOMAIN Registry
         /\ \A p \in DOMAIN Registry :
              /\ Registry'[p].checkpoints = Registry[p].checkpoints
              /\ Registry'[p].runs = Registry[p].runs
              /\ Registry'[p].ready = Registry[p].ready
              /\ Registry'[p].fetches = Registry[p].fetches
<1>1. DOMAIN Registry' = DOMAIN Registry BY DEF Registry, Registered
<1>2. ASSUME NEW p \in DOMAIN Registry
      PROVE  /\ Registry'[p].checkpoints = Registry[p].checkpoints
             /\ Registry'[p].runs = Registry[p].runs
             /\ Registry'[p].ready = Registry[p].ready
             /\ Registry'[p].fetches = Registry[p].fetches
  <2>1. p \in {"local", "mock-gcp", "mock-lambda", "gcp", "lambda", "alibaba-cloud"}
    BY PlanningAssumption DEF Registry
  <2>2. Registry[p] = Adapter(p) /\ Registry'[p] = Adapter(p)'
    BY <1>1 DEF Registry
  <2>3. CASE p = "local"
    BY <2>2, <2>3 DEF Adapter, LocalAdapter, ScriptAdapter
  <2>4. CASE p \in {"mock-gcp", "mock-lambda"}
    BY <2>2, <2>4 DEF Adapter, MockAdapter, ScriptAdapter
  <2>5. CASE p = "gcp"
    BY <2>2, <2>5 DEF Adapter, GCPAdapter, ImageAdapter
  <2>6. CASE p = "lambda"
    BY <2>2, <2>6 DEF Adapter, LambdaAdapter, ImageAdapter
  <2>7. CASE p = "alibaba-cloud"
    BY <2>2, <2>7 DEF Adapter, ChinaAdapter, ImageAdapter
  <2> QED BY <2>1, <2>3, <2>4, <2>5, <2>6, <2>7
<1> QED BY <1>1, <1>2

LEMMA RegistryStays ==
  ASSUME UNCHANGED <<config, market, command>>
  PROVE  Registry' = Registry
BY DEF Registry, Registered, Adapter, LocalAdapter, MockAdapter, GCPAdapter,
       LambdaAdapter, ChinaAdapter, ScriptAdapter, ImageAdapter, LambdaHourly,
       LambdaShapes, HasKey

-----------------------------------------------------------------------------
(* The invariant *)

Automatic == config.provider = "auto"
Trying == pc \in {"prepare", "submit"}
Unmoved == moves = 0 /\ start = NoCheckpoint

IsSequence(s) == s \in Seq({s[i] : i \in DOMAIN s})

Typed ==
  /\ config \in Configs /\ market \in Markets
  /\ profile \in Nat /\ hints \in Hints
  /\ IsSequence(attempts)

\* Where a run is.
Progress ==
  /\ pc \notin {"choose", "prepare", "submit", "over"} => attempts = <<>>
  /\ command = "plan" => attempts = <<>>
  /\ attempts = <<>> => excluded = {} /\ resumeFrom = start
  /\ Trying => command = "train"
  /\ ~Automatic => Len(attempts) <= 1 /\ (pc # "over" => attempts = <<>>)

\* A probe that asks for memory decides how much is needed.
ProbeDecides == profile > 0 => hints.required = profile

\* What routing looks at does not change after the probe.
Means == [budget |-> config.routing.budget, hints |-> hints]

Suits(c) ==
  c.hardware # NoHardware /\ config.routing.mode # "manual" =>
    /\ c.hardware.total >= profile
    /\ \A adapter : WithinBudget(c.hardware, adapter, Means)

LEMMA BudgetStays ==
  ASSUME config \in Configs, NEW shape, NEW adapter
  PROVE  WithinBudget(shape, adapter, RoutingOptions) <=> WithinBudget(shape, adapter, Means)
BY OptionsFacts DEF WithinBudget, Means

Accepted(c) ==
  c.provider \in DOMAIN Registry /\ ValidateJob(Registry[c.provider], job)

Fit ==
  Automatic =>
    /\ Trying => Suits(choice) /\ Accepted(choice)
    /\ \A i \in DOMAIN attempts :
         attempts[i].end # "refused" /\ Suits(attempts[i].choice)

Best(c) ==
  /\ c \in Choices(Registry, job, FirstOptions)
  /\ \A d \in Choices(Registry, job, FirstOptions) : ~Before(d.key, c.key)

FirstStays ==
  Automatic /\ Unmoved /\ attempts # <<>> /\ pc \in {"choose", "prepare", "submit"} =>
    Best(attempts[1].choice) /\ attempts[1].choice.provider \in excluded

InOrder ==
  Automatic /\ Unmoved /\ Trying =>
    IF attempts = <<>> THEN Best(choice)
    ELSE Before(attempts[1].choice.key, choice.key)

IInv ==
  /\ Typed /\ Progress /\ ProbeDecides /\ Fit
  /\ FirstStays /\ InOrder /\ FirstChoiceIsBest

-----------------------------------------------------------------------------
(* The invariant holds *)

LEMMA InitInv == Init => IInv
<1> SUFFICES ASSUME Init PROVE IInv OBVIOUS
<1>1. Typed
  <2>1. config.routing.hints \in Hints BY PlanningAssumption DEF Init
  <2> QED BY <2>1 DEF Init, Typed, IsSequence
<1>2. Progress BY DEF Init, Progress, Trying
<1> QED BY <1>1, <1>2
  DEF Init, IInv, ProbeDecides, Fit, FirstStays, InOrder, FirstChoiceIsBest, Trying

LEMMA Appended ==
  ASSUME NEW s, IsSequence(s), NEW x, NEW t, t = Append(s, x)
  PROVE  /\ IsSequence(t) /\ t # <<>>
         /\ Len(t) = Len(s) + 1
         /\ DOMAIN t = DOMAIN s \cup {Len(t)}
         /\ \A i \in DOMAIN s : t[i] = s[i]
         /\ t[Len(t)] = x
         /\ s = <<>> => t[1] = x /\ DOMAIN t = {1}
         /\ s # <<>> => 1 \in DOMAIN s /\ t[1] = s[1]
<1> DEFINE S == {s[i] : i \in DOMAIN s} \cup {x}
<1>1. s \in Seq(S) /\ x \in S BY DEF IsSequence
<1> HIDE DEF S
<1>2. /\ t \in Seq(S) /\ Len(t) = Len(s) + 1 /\ Len(s) \in Nat
      /\ DOMAIN s = 1..Len(s) /\ DOMAIN t = 1..(Len(s) + 1)
      /\ \A i \in DOMAIN s : t[i] = s[i]
      /\ t[Len(t)] = x
  BY <1>1
<1>3. DOMAIN t = DOMAIN s \cup {Len(t)} BY <1>2
<1>4. IsSequence(t)
  <2> DEFINE T == {t[i] : i \in DOMAIN t}
  <2>1. t \in [1..Len(t) -> S] /\ Len(t) \in Nat /\ DOMAIN t = 1..Len(t)
    BY <1>2, LenProperties
  <2>2. \A i \in 1..Len(t) : t[i] \in T BY <2>1
  <2>3. t = [i \in 1..Len(t) |-> t[i]] BY <2>1
  <2> HIDE DEF T
  <2>4. [i \in 1..Len(t) |-> t[i]] \in Seq(T) BY <2>1, <2>2
  <2>5. t \in Seq(T) BY <2>3, <2>4
  <2> QED BY <2>5 DEF IsSequence, T
<1>5. s = <<>> => Len(s) = 0 BY <1>1
<1>6. s # <<>> => Len(s) > 0 BY <1>1, <1>2
<1> QED BY <1>2, <1>3, <1>4, <1>5, <1>6

LEMMA Recorded ==
  ASSUME IsSequence(attempts), NEW x, attempts' = Append(attempts, x)
  PROVE  /\ IsSequence(attempts') /\ attempts' # <<>>
         /\ Len(attempts') = Len(attempts) + 1
         /\ DOMAIN attempts' = DOMAIN attempts \cup {Len(attempts')}
         /\ \A i \in DOMAIN attempts : attempts'[i] = attempts[i]
         /\ attempts'[Len(attempts')] = x
         /\ attempts = <<>> => attempts'[1] = x /\ DOMAIN attempts' = {1}
         /\ attempts # <<>> => 1 \in DOMAIN attempts /\ attempts'[1] = attempts[1]
<1>1. IsSequence(attempts') /\ attempts' # <<>> BY Appended
<1>2. Len(attempts') = Len(attempts) + 1 /\ attempts'[Len(attempts')] = x BY Appended
<1>3. DOMAIN attempts' = DOMAIN attempts \cup {Len(attempts')} BY Appended
<1>4. \A i \in DOMAIN attempts : attempts'[i] = attempts[i] BY Appended
<1>5. attempts = <<>> => attempts'[1] = x /\ DOMAIN attempts' = {1} BY Appended
<1>6. attempts # <<>> => 1 \in DOMAIN attempts /\ attempts'[1] = attempts[1] BY Appended
<1> QED BY <1>1, <1>2, <1>3, <1>4, <1>5, <1>6

\* Before an attempt there is nothing to keep but what has been prepared.
LEMMA Preparing ==
  ASSUME IInv, attempts = <<>>,
         UNCHANGED <<config, market, moves, start, loopVars>>,
         hints' \in Hints, profile' \in Nat, ProbeDecides',
         pc' \notin {"prepare", "submit"}
  PROVE  IInv'
<1>1. Typed' BY DEF IInv, Typed, loopVars, IsSequence
<1>2. Progress' BY DEF IInv, Progress, Trying, Automatic, loopVars
<1> QED BY <1>1, <1>2
  DEF IInv, Fit, FirstStays, InOrder, FirstChoiceIsBest, Trying, loopVars

\* The first attempt is chosen from all, the next from what is left.
LEMMA BeginsInv ==
  ASSUME IInv, NEW c, Begins(c),
         IF Automatic THEN c \in Select(Registry, job, RoutingOptions)
                      ELSE c = Explicit
  PROVE  IInv'
<1> USE DEF IInv
<1>1. /\ pc = "choose" /\ pc' = "prepare" /\ command = "train" /\ choice' = c
      /\ UNCHANGED <<config, market, moves, start, command, job, profile, hints,
                     excluded, resumeFrom, attempts>>
  BY DEF Begins, Goto, inputVars, jobVars
<1>2. Registry' = Registry BY <1>1, RegistryStays
<1>3. FirstOptions' = FirstOptions BY <1>1 DEF FirstOptions
<1>4. Typed' BY <1>1 DEF Typed, IsSequence
<1>5. Progress' BY <1>1 DEF Progress, Trying, Automatic
<1>6. ProbeDecides' BY <1>1 DEF ProbeDecides
<1>7. FirstChoiceIsBest' BY <1>1 DEF FirstChoiceIsBest
<1>8. CASE ~Automatic
  BY <1>1, <1>4, <1>5, <1>6, <1>7, <1>8 DEF Fit, FirstStays, InOrder, Automatic
<1>9. CASE Automatic
  <2> DEFINE all == Choices(Registry, job, RoutingOptions)
  <2>1. c \in all /\ \A d \in all : ~Before(d.key, c.key)
    BY <1>9 DEF Select
  <2>2. config \in Configs /\ market \in Markets BY DEF Typed
  <2>3. /\ DOMAIN Registry \subseteq DOMAIN Rank
        /\ \A p \in DOMAIN Registry : IsAdapter(Registry[p])
        /\ RoutingOptions.hints \in Hints /\ FirstOptions.hints \in Hints
    BY <2>2, RegistryFacts, OptionsFacts DEF Typed
  <2>4. c.provider \in Eligible(Registry, job, RoutingOptions) /\ c.key \in Keys
        /\ c.key[3] = Rank[c.provider]
    BY <2>1, <2>3, ChoiceFacts
  <2>5. /\ c.provider \in DOMAIN Registry /\ c.provider \notin excluded
        /\ ValidateJob(Registry[c.provider], job)
    BY <2>2, <2>4, OptionsFacts DEF Eligible
  <2>6. Suits(c)
    <3> SUFFICES ASSUME c.hardware # NoHardware, config.routing.mode # "manual"
                 PROVE  /\ c.hardware.total >= profile
                        /\ \A adapter : WithinBudget(c.hardware, adapter, Means)
      BY DEF Suits
    <3>1. RoutingOptions.mode # "manual" /\ RoutingOptions.hints = hints
      BY <2>2, OptionsFacts
    <3>2. /\ c.hardware \in Shapes
          /\ hints.required > 0 => c.hardware.total >= hints.required
          /\ \A adapter : WithinBudget(c.hardware, adapter, RoutingOptions)
      BY <2>1, <2>3, <3>1, HardwareIsEnough
    <3>3. c.hardware.total \in Nat BY <3>2 DEF Shapes
    <3>4. \A adapter : WithinBudget(c.hardware, adapter, Means)
      BY <2>2, <3>2, BudgetStays
    <3> QED BY <3>2, <3>3, <3>4 DEF ProbeDecides, Typed
  <2>7. Fit'
    <3>1. Accepted(choice)' BY <1>1, <1>2, <2>5 DEF Accepted, ValidateJob
    <3>2. Suits(choice)' BY <1>1, <2>6 DEF Suits, Means
    <3>3. \A i \in DOMAIN attempts' :
            attempts'[i].end # "refused" /\ Suits(attempts[i].choice)'
      BY <1>1, <1>9 DEF Fit, Suits, Means
    <3> QED BY <3>1, <3>2, <3>3 DEF Fit
  <2>8. ASSUME attempts # <<>>, Unmoved
        PROVE  Best(attempts[1].choice) /\ Before(attempts[1].choice.key, c.key)
    <3> DEFINE first == attempts[1].choice
    <3>1. Best(first) /\ first.provider \in excluded
      BY <1>1, <1>9, <2>8 DEF FirstStays
    <3>2. first.key \in Keys /\ first.key[3] = Rank[first.provider]
          /\ first.provider \in Eligible(Registry, job, FirstOptions)
      BY <2>3, <3>1, ChoiceFacts DEF Best
    <3>3. first.provider \in DOMAIN Rank /\ c.provider \in DOMAIN Rank
      BY <2>3, <2>5, <3>2 DEF Eligible
    <3>4. first.key # c.key
      BY <2>4, <2>5, <3>1, <3>2, <3>3, RankAssumption
    <3>5. c \in Choices(Registry, job, FirstOptions)
      <4> HIDE DEF first
      <4> QED BY <2>1, <2>2, OptionsFacts, ChoicesShrink
    <3>6. ~Before(c.key, first.key) BY <3>1, <3>5 DEF Best
    <3> QED BY <2>4, <3>1, <3>2, <3>4, <3>6, BeforeIsTotal
  <2>9. ASSUME attempts = <<>>, Unmoved PROVE Best(c)
    <3>1. RoutingOptions = FirstOptions
      BY <2>2, <2>9, OptionsFacts DEF Progress, Unmoved
    <3> QED BY <2>1, <3>1 DEF Best
  <2>10. FirstStays'
    BY <1>1, <1>2, <1>3, <1>9 DEF FirstStays, Best, Unmoved, Automatic
  <2>11. InOrder'
    BY <1>1, <1>2, <1>3, <2>8, <2>9 DEF InOrder, Best, Unmoved, Automatic
  <2> QED BY <1>4, <1>5, <1>6, <1>7, <2>7, <2>10, <2>11
<1> QED BY <1>8, <1>9

\* An attempt that ends joins the others: it was in order when it began.
LEMMA EndsInv ==
  ASSUME IInv, Trying, NEW end, end # "refused" \/ ~Automatic,
         Ends(end, pc'),
         \/ pc' = "over" /\ UNCHANGED <<excluded, resumeFrom>>
         \/ pc' = "choose" /\ Automatic /\ excluded' = excluded \cup {choice.provider}
  PROVE  IInv'
<1> USE DEF IInv
<1> DEFINE last == [choice |-> choice, end |-> end]
<1>1. /\ attempts' = Append(attempts, last)
      /\ UNCHANGED <<config, market, moves, start, command, job, profile, hints>>
  BY DEF Ends, inputVars, jobVars
<1>2. Registry' = Registry BY <1>1, RegistryStays
<1>3. FirstOptions' = FirstOptions BY <1>1 DEF FirstOptions
<1> HIDE DEF last
<1>4. /\ IsSequence(attempts') /\ attempts' # <<>>
      /\ Len(attempts') = Len(attempts) + 1
      /\ DOMAIN attempts' = DOMAIN attempts \cup {Len(attempts')}
      /\ \A i \in DOMAIN attempts : attempts'[i] = attempts[i]
      /\ attempts'[Len(attempts')] = last
      /\ attempts = <<>> => attempts'[1] = last /\ DOMAIN attempts' = {1}
      /\ attempts # <<>> => 1 \in DOMAIN attempts /\ attempts'[1] = attempts[1]
  <2>1. IsSequence(attempts) BY DEF Typed
  <2> QED BY <1>1, <2>1, Recorded
<1>5. last.choice = choice /\ last.end = end BY DEF last
<1>6. Typed' BY <1>1, <1>4 DEF Typed
<1>7. command = "train" BY DEF Progress
<1>8. Progress'
  <2>1. ~Automatic => Len(attempts) = 0
    BY DEF Progress, Trying, Typed, IsSequence
  <2> QED BY <1>1, <1>4, <1>7, <2>1 DEF Progress, Trying, Automatic
<1>9. ProbeDecides' BY <1>1 DEF ProbeDecides
<1>10. Fit'
  <2> SUFFICES ASSUME Automatic
               PROVE  \A i \in DOMAIN attempts' :
                        attempts'[i].end # "refused" /\ Suits(attempts'[i].choice)
    BY <1>1 DEF Fit, Trying, Automatic, Suits, Means
  <2>1. Suits(choice) BY DEF Fit
  <2> QED BY <1>4, <1>5, <2>1 DEF Fit
<1>11. ASSUME Automatic, Unmoved
       PROVE  /\ Best(attempts'[1].choice)
              /\ attempts'[1].choice.provider \in excluded \cup {choice.provider}
              /\ \A i \in DOMAIN attempts' \ {1} :
                   Before(attempts'[1].choice.key, attempts'[i].choice.key)
  <2>1. CASE attempts = <<>>
    <3>1. Best(choice) BY <1>11, <2>1 DEF InOrder
    <3> QED BY <1>4, <1>5, <2>1, <3>1
  <2>2. CASE attempts # <<>>
    <3>1. Best(attempts[1].choice) /\ attempts[1].choice.provider \in excluded
      BY <1>11, <2>2 DEF FirstStays, Trying
    <3>2. Before(attempts[1].choice.key, choice.key)
      BY <1>11, <2>2 DEF InOrder
    <3>3. \A i \in DOMAIN attempts \ {1} :
            Before(attempts[1].choice.key, attempts[i].choice.key)
      BY <1>11 DEF FirstChoiceIsBest, Unmoved
    <3> QED BY <1>4, <1>5, <2>2, <3>1, <3>2, <3>3
  <2> QED BY <2>1, <2>2
<1>12. FirstStays'
  BY <1>1, <1>2, <1>3, <1>11 DEF FirstStays, Best, Unmoved, Automatic
<1>13. InOrder' BY DEF InOrder, Trying
<1>14. FirstChoiceIsBest'
  <2>1. CASE Automatic
    BY <1>1, <1>11, <2>1 DEF FirstChoiceIsBest, Unmoved
  <2>2. CASE ~Automatic
    <3>1. attempts = <<>> BY <2>2 DEF Progress, Trying
    <3> QED BY <1>4, <3>1 DEF FirstChoiceIsBest
  <2> QED BY <2>1, <2>2
<1> QED BY <1>6, <1>8, <1>9, <1>10, <1>12, <1>13, <1>14

\* Nothing but the step of a command changes.
LEMMA WaitingInv ==
  ASSUME IInv,
         UNCHANGED <<config, market, moves, start, command, jobVars, loopVars>>,
         \/ pc = "prepare" /\ pc' = "submit"
         \/ pc' = "over"
  PROVE  IInv'
<1> USE DEF IInv
<1>1. UNCHANGED <<config, market, moves, start, command, job, profile, hints,
                  excluded, resumeFrom, choice, attempts>>
  BY DEF jobVars, loopVars
<1>2. Registry' = Registry BY <1>1, RegistryStays
<1>3. FirstOptions' = FirstOptions BY <1>1 DEF FirstOptions
<1>4. Typed' BY <1>1 DEF Typed, IsSequence
<1>5. Progress' BY <1>1 DEF Progress, Trying, Automatic
<1>6. Fit'
  BY <1>1, <1>2 DEF Fit, Trying, Automatic, Suits, Means, Accepted, ValidateJob
<1>7. FirstStays'
  BY <1>1, <1>2, <1>3 DEF FirstStays, Best, Unmoved, Automatic
<1>8. InOrder'
  BY <1>1, <1>2, <1>3 DEF InOrder, Best, Unmoved, Automatic, Trying
<1> QED BY <1>1, <1>4, <1>5, <1>6, <1>7, <1>8 DEF ProbeDecides, FirstChoiceIsBest

\* When the market has moved, what is left to keep does not depend on it.
LEMMA MarketInv == ASSUME IInv, MarketMoves, moves \in Nat PROVE IInv'
<1> USE DEF IInv
<1>1. /\ market' \in Markets /\ moves' = moves + 1
      /\ UNCHANGED <<config, start, command, pc, job, profile, hints, excluded,
                     resumeFrom, choice, attempts>>
  BY DEF MarketMoves, jobVars, loopVars
<1>2. ~Unmoved' BY <1>1 DEF Unmoved
<1>3. Typed' BY <1>1 DEF Typed, IsSequence
<1>4. Progress' BY <1>1 DEF Progress, Trying, Automatic
<1>5. Fit'
  <2>1. Accepted(choice) => Accepted(choice)'
    BY <1>1, MarketDoesNotValidate DEF Accepted, ValidateJob
  <2> QED BY <1>1, <2>1 DEF Fit, Trying, Automatic, Suits, Means
<1>6. FirstChoiceIsBest' BY <1>1, <1>2 DEF FirstChoiceIsBest, Unmoved
<1> QED BY <1>1, <1>2, <1>3, <1>4, <1>5, <1>6 DEF ProbeDecides, FirstStays, InOrder

LEMMA StepInv == ASSUME IInv, moves \in Nat, [Next]_vars PROVE IInv'
<1>1. CASE MarketMoves BY <1>1, MarketInv
<1>2. CASE Run \/ Load \/ LoadFails \/ OpenCredentials \/ Preflight \/ PreflightFails
           \/ Stage \/ StageFails \/ Package \/ PackageFails \/ Plan
           \/ OpenCredentialsFails \/ ProbeFails
  <2>1. attempts = <<>>
    BY <1>2 DEF IInv, Progress, Run, Load, LoadFails, OpenCredentials, Preflight,
      PreflightFails, Stage, StageFails, Package, PackageFails, Plan, PlanRoute,
      PlanExplicitProvider, PlanRejects, Plans, OpenCredentialsFails, ProbeFails,
      Rejects, Goto
  <2>2. /\ UNCHANGED <<config, market, moves, start, loopVars, profile, hints>>
        /\ pc' \notin {"prepare", "submit"}
    BY <1>2 DEF Run, Load, LoadFails, OpenCredentials, Preflight,
      PreflightFails, Stage, StageFails, Package, PackageFails, Plan, PlanRoute,
      PlanExplicitProvider, PlanRejects, Plans, OpenCredentialsFails, ProbeFails,
      Rejects, Goto, inputVars, jobVars
  <2>3. hints' \in Hints /\ profile' \in Nat /\ ProbeDecides'
    BY <2>2 DEF IInv, Typed, ProbeDecides
  <2> QED BY <2>1, <2>2, <2>3, Preparing
<1>3. CASE RunProbe
  <2>1. attempts = <<>> BY <1>3 DEF IInv, Progress, RunProbe, Goto
  <2>2. /\ UNCHANGED <<config, market, moves, start, loopVars>>
        /\ pc' \notin {"prepare", "submit"}
    BY <1>3 DEF RunProbe, Goto, inputVars
  <2>3. profile' \in Nat
    BY <1>3, PlanningAssumption DEF IInv, Typed, RunProbe
  <2>4. hints' \in Hints /\ ProbeDecides'
    <3>1. hints' = IF profile' > 0 THEN [hints EXCEPT !.required = profile'] ELSE hints
      BY <1>3 DEF RunProbe
    <3> QED BY <2>3, <3>1 DEF IInv, Typed, ProbeDecides, Hints
  <2> QED BY <2>1, <2>2, <2>3, <2>4, Preparing
<1>4. CASE Route
  <2>1. PICK c \in Select(Registry, job, RoutingOptions) : Begins(c)
    BY <1>4 DEF Route
  <2> QED BY <1>4, <2>1, BeginsInv DEF Route, Automatic
<1>5. CASE UseExplicitProvider
  BY <1>5, BeginsInv DEF UseExplicitProvider, Automatic
<1>6. CASE ChoiceFails
  BY <1>6, WaitingInv DEF ChoiceFails, Rejects, Goto, inputVars
<1>7. CASE Refused
  <2>1. ~Automatic
    BY <1>7 DEF IInv, Fit, Trying, Refused, Accepts, Accepted, IsRegistered
  <2> QED BY <1>7, <2>1, EndsInv DEF Refused, Trying, Ends
<1>8. CASE PrepareFails
  <2>1. Ends("not mounted", pc') /\ pc' = "over" /\ Trying /\ UNCHANGED <<excluded, resumeFrom>>
    BY <1>8 DEF PrepareFails, Trying, Ends
  <2> QED BY <2>1, EndsInv
<1>9. CASE Submit
  BY <1>9, WaitingInv DEF Submit, Goto, inputVars
<1>10. CASE Settles
  <2>1. PICK end \in {"succeeded", "failed"} : Ends(end, "over")
    BY <1>10 DEF Settles
  <2> QED BY <1>10, <2>1, EndsInv DEF Settles, Trying, Ends
<1>11. CASE GivesUp
  BY <1>11, EndsInv DEF GivesUp, Trying, Ends
<1>12. CASE FailOver
  BY <1>12, EndsInv DEF FailOver, LastAttempt, Automatic, Trying, Ends
<1>13. CASE UNCHANGED vars
  <2>1. UNCHANGED <<config, market, moves, start, command, pc, job, profile, hints,
                    excluded, resumeFrom, choice, attempts>>
    BY <1>13 DEF vars, inputVars, jobVars, loopVars
  <2>2. Registry' = Registry BY <2>1, RegistryStays
  <2>3. FirstOptions' = FirstOptions BY <2>1 DEF FirstOptions
  <2> QED BY <2>1, <2>2, <2>3
    DEF IInv, Typed, IsSequence, Progress, Trying, Automatic, ProbeDecides, Fit,
      Suits, Means, Accepted, ValidateJob, FirstStays, Unmoved, Best, InOrder,
      FirstChoiceIsBest
<1> QED BY <1>1, <1>2, <1>3, <1>4, <1>5, <1>6, <1>7, <1>8, <1>9, <1>10, <1>11,
           <1>12, <1>13 DEF Next, RunOnly, Prepare, Attempt

LEMMA MovesAreCounted == Spec => [](moves \in Nat)
<1>1. Init => moves \in Nat BY DEF Init
<1>2. moves \in Nat /\ [Next]_vars => (moves \in Nat)'
  <2> SUFFICES ASSUME moves \in Nat, [Next]_vars PROVE moves' \in Nat OBVIOUS
  <2>1. CASE MarketMoves BY <2>1 DEF MarketMoves
  <2>2. CASE ~MarketMoves
    BY <2>2 DEF Next, Run, RunOnly, RunProbe, ProbeFails, OpenCredentials,
      OpenCredentialsFails, Prepare, Load, LoadFails, Preflight, PreflightFails,
      Stage, StageFails, Package, PackageFails, Plan, PlanRoute, PlanExplicitProvider,
      PlanRejects, Attempt, Route, UseExplicitProvider, ChoiceFails, Refused,
      PrepareFails, Submit, Settles, GivesUp, FailOver, Rejects, Plans, Begins, Ends,
      inputVars, vars
  <2> QED BY <2>1, <2>2
<1> QED BY <1>1, <1>2, PTL DEF Spec

LEMMA Invariant == Spec => []IInv
<1>1. IInv /\ moves \in Nat /\ [Next]_vars => IInv' BY StepInv
<1> QED BY InitInv, <1>1, MovesAreCounted, PTL DEF Spec

-----------------------------------------------------------------------------
(* Plan and train *)

\* Staging and packaging, of any job.
StagesBundle(j) ==
  config.staging # "none" /\ config.provider # "local" /\ "bundle" \in j.inputs

StagedJob ==
  IF StagesBundle(config.job)
  THEN [config.job EXCEPT !.inputs = (@ \ {"bundle"}) \cup {config.staging}]
  ELSE config.job

Packages(j) ==
  /\ ~j.image /\ j.script /\ config.provider # "local"
  /\ \/ config.packaging = "image"
     \/ config.provider = "gcp" /\ config.packaging = "repository"

\* The job that every command comes to.
PreparedJob ==
  IF Packages(StagedJob) THEN [StagedJob EXCEPT !.image = TRUE, !.script = FALSE]
                         ELSE StagedJob

InputsAreFine == config.bundleFits /\ config.job.inputs \subseteq Schemes \cup {"bundle"}
StagingIsFine == StagesBundle(config.job) => PrefixIsReadable
PackageIsFine == Packages(StagedJob) => config.scriptInContext

\* The configuration, and nothing else, decides how far the preparation gets.
Preparable == IsValid /\ InputsAreFine /\ StagingIsFine /\ PackageIsFine

PlanOptions ==
  [config.routing EXCEPT !.hints = config.routing.hints, !.exclude = {}, !.resume = start]

TakesExplicit ==
  /\ IsRegistered(config.provider)
  /\ ValidateJob(Registry[config.provider], PreparedJob)
  /\ ReadsCheckpoint(Registry[config.provider], start)

\* What may be chosen for the job: one choice at most.
Choosable ==
  IF Automatic THEN Select(Registry, PreparedJob, PlanOptions)
  ELSE {c \in {Explicit} : TakesExplicit}

\* How far the job is prepared, and what has been checked on the way.
Prepared ==
  /\ pc \in {"load", "probe", "credentials", "preflight", "stage"} => job = config.job
  /\ pc = "package" => job = StagedJob
  /\ pc \in {"choose", "prepare", "submit"} => job = PreparedJob
  /\ pc \notin {"load", "over"} => IsValid
  /\ pc \in {"stage", "package", "choose", "prepare", "submit"} => InputsAreFine
  /\ pc \in {"package", "choose", "prepare", "submit"} => StagingIsFine
  /\ pc \in {"choose", "prepare", "submit"} => PackageIsFine
  /\ config.probe = "none" => profile = 0 /\ hints = config.routing.hints
  /\ command \in {"plan", "train"}
  /\ command = "plan" => pc \notin {"probe", "credentials"}
  /\ command = "plan" /\ pc # "over" => planned = NoChoice

\* A plan is a choice if there is one.
PlanIsKnown ==
  Undisturbed /\ (command = "train" \/ pc = "over") =>
    \/ Preparable /\ planned \in Choosable
    \/ planned = NoChoice /\ (Preparable => Choosable = {})

\* The first attempt of a run: what it is for, and how it may end.
FirstAttempt ==
  command = "train" /\ Undisturbed =>
    /\ attempts = <<>> /\ Trying =>
         IF Automatic \/ pc = "submit" THEN choice \in Choosable
         ELSE /\ choice = Explicit
              /\ start # NoCheckpoint =>
                   /\ IsRegistered(config.provider)
                   /\ ReadsCheckpoint(Registry[config.provider], start)
    /\ attempts = <<>> /\ pc = "over" => fault \/ (Preparable => Choosable = {})
    /\ attempts # <<>> =>
         /\ Preparable
         /\ attempts[1].end = "refused" => Choosable = {}
         /\ attempts[1].end \notin Refusals => attempts[1].choice \in Choosable

PlanInv == Prepared /\ PlanIsKnown /\ FirstAttempt

-----------------------------------------------------------------------------
(* The invariant of plan and train holds *)

\* The key of a choice tells its provider and its place, and so its hardware.
LEMMA SelectionIsUnique ==
  ASSUME NEW registry, NEW theJob, NEW opts,
         DOMAIN registry \subseteq DOMAIN Rank,
         \A p \in DOMAIN registry : IsAdapter(registry[p]),
         opts.hints \in Hints,
         NEW c \in Select(registry, theJob, opts),
         NEW d \in Select(registry, theJob, opts)
  PROVE  c = d
<1>1. c \in Choices(registry, theJob, opts) /\ d \in Choices(registry, theJob, opts)
  BY DEF Select
<1>2. /\ c.provider \in DOMAIN registry /\ d.provider \in DOMAIN registry
      /\ c.key \in Keys /\ d.key \in Keys
      /\ c.key[3] = Rank[c.provider] /\ d.key[3] = Rank[d.provider]
      /\ c = Choice(c.provider, c.hardware, c.key)
      /\ d = Choice(d.provider, d.hardware, d.key)
  BY <1>1, ChoiceFacts DEF Eligible
<1>3. c.key = d.key
  <2>1. ~Before(c.key, d.key) /\ ~Before(d.key, c.key) BY <1>1 DEF Select
  <2> QED BY <1>2, <2>1, BeforeIsTotal
<1>4. c.provider = d.provider BY <1>2, <1>3, RankAssumption
<1>5. c.hardware = d.hardware
  <2> DEFINE place(x) == registry[x.provider].shapes[x.key[5]]
  <2>1. CASE ~HardwareRoutingEnabled(opts)
    BY <1>1, <2>1 DEF Choices, ProviderChoices, Choice
  <2>2. CASE HardwareRoutingEnabled(opts) /\ opts.mode = "manual"
    <3>1. \A x \in ManualChoices(registry, theJob, opts) : x.hardware = place(x)
      BY DEF ManualChoices, Choice
    <3>2. c.hardware = place(c) /\ d.hardware = place(d)
      BY <1>1, <2>2, <3>1 DEF Choices
    <3> QED BY <1>3, <1>4, <3>2
  <2>3. CASE HardwareRoutingEnabled(opts) /\ opts.mode # "manual"
    <3>1. \A x \in HardwareChoices(registry, theJob, opts) : x.hardware = place(x)
      BY DEF HardwareChoices, Choice, HardwareKey
    <3>2. c.hardware = place(c) /\ d.hardware = place(d)
      BY <1>1, <2>3, <3>1 DEF Choices
    <3> QED BY <1>3, <1>4, <3>2
  <2> QED BY <2>1, <2>2, <2>3
<1> QED BY <1>2, <1>3, <1>4, <1>5

LEMMA ChoosableIsUnique ==
  ASSUME IInv, NEW c \in Choosable, NEW d \in Choosable
  PROVE  c = d
<1>1. CASE ~Automatic BY <1>1 DEF Choosable
<1>2. CASE Automatic
  <2>1. config \in Configs /\ market \in Markets BY DEF IInv, Typed
  <2>2. PlanOptions.hints \in Hints
    BY <2>1, PlanningAssumption DEF PlanOptions
  <2>3. c \in Select(Registry, PreparedJob, PlanOptions)
        /\ d \in Select(Registry, PreparedJob, PlanOptions)
    BY <1>2 DEF Choosable
  <2> QED BY <2>1, <2>2, <2>3, RegistryFacts, SelectionIsUnique
<1> QED BY <1>1, <1>2

\* No provider is called auto.
LEMMA ExplicitIsRegistered == IsRegistered(config.provider) => ~Automatic
BY PlanningAssumption DEF IsRegistered, Registry, Automatic

LEMMA PreparableStays ==
  ASSUME UNCHANGED config
  PROVE  /\ StagedJob' = StagedJob /\ PreparedJob' = PreparedJob
         /\ IsValid' = IsValid /\ InputsAreFine' = InputsAreFine
         /\ StagingIsFine' = StagingIsFine /\ PackageIsFine' = PackageIsFine
         /\ Preparable' = Preparable /\ Explicit' = Explicit /\ Automatic' = Automatic
BY DEF StagedJob, PreparedJob, IsValid, SectionIsComplete, InputsAreFine,
       StagingIsFine, PrefixIsReadable, PackageIsFine, Preparable, StagesBundle,
       Packages, Explicit, Automatic

\* A choice is the same for plan and train, if the store is of no account.
LEMMA ChoosableStays ==
  ASSUME UNCHANGED <<config, market, start>>,
         UNCHANGED command \/ (config.key = "stored" => config.lambda # "complete")
  PROVE  Choosable' = Choosable
<1>1. /\ PreparedJob' = PreparedJob /\ Explicit' = Explicit
      /\ Automatic' = Automatic /\ PlanOptions' = PlanOptions
  BY PreparableStays DEF PlanOptions
<1>2. CASE ~Automatic
  <2>1. TakesExplicit' <=> TakesExplicit
    <3>1. IsRegistered(config.provider)' <=> IsRegistered(config.provider)
      BY MarketDoesNotValidate DEF IsRegistered
    <3>2. IsRegistered(config.provider) =>
            /\ ValidateJob(Registry[config.provider], PreparedJob)'
                <=> ValidateJob(Registry[config.provider], PreparedJob)
            /\ ReadsCheckpoint(Registry[config.provider], start)'
                <=> ReadsCheckpoint(Registry[config.provider], start)
      BY <1>1, MarketDoesNotValidate DEF IsRegistered, ValidateJob, ReadsCheckpoint
    <3> QED BY <3>1, <3>2 DEF TakesExplicit
  <2> QED BY <1>1, <1>2, <2>1 DEF Choosable
<1>3. CASE Automatic
  <2>1. Registry' = Registry
    <3>1. CASE UNCHANGED command BY <3>1, RegistryStays
    <3>2. CASE config.key = "stored" => config.lambda # "complete"
      <4>1. CASE config.key # "stored"
        BY <4>1 DEF Registry, Registered, Adapter, LocalAdapter, MockAdapter, GCPAdapter,
          LambdaAdapter, ChinaAdapter, ScriptAdapter, ImageAdapter, LambdaHourly,
          LambdaShapes, HasKey
      <4>2. CASE config.lambda # "complete"
        <5>1. DOMAIN Registry' = DOMAIN Registry BY MarketDoesNotValidate
        <5>2. ASSUME NEW p \in DOMAIN Registry PROVE Adapter(p)' = Adapter(p)
          <6>1. p # "lambda" BY <1>3, <4>2 DEF Registry, Registered, Automatic
          <6> QED BY <6>1
            DEF Adapter, LocalAdapter, MockAdapter, GCPAdapter, ChinaAdapter,
              ScriptAdapter, ImageAdapter
        <5> QED BY <5>1, <5>2 DEF Registry
      <4> QED BY <3>2, <4>1, <4>2
    <3> QED BY <3>1, <3>2
  <2> QED BY <1>1, <1>3, <2>1 DEF Choosable
<1> QED BY <1>2, <1>3

LEMMA OperationsMatch ==
  /\ ShouldStage <=> StagesBundle(job)
  /\ ShouldPackage <=> Packages(job)
  /\ job = config.job => (IF ShouldStage THEN Staged ELSE job) = StagedJob
  /\ job = StagedJob =>
       (IF ShouldPackage THEN [job EXCEPT !.image = TRUE, !.script = FALSE] ELSE job)
         = PreparedJob
<1>1. (ShouldStage <=> StagesBundle(job)) /\ (ShouldPackage <=> Packages(job))
  BY DEF ShouldStage, StagesBundle, ShouldPackage, Packages
<1>2. job = config.job => (IF ShouldStage THEN Staged ELSE job) = StagedJob
  BY <1>1 DEF Staged, StagedJob
<1>3. job = StagedJob =>
       (IF ShouldPackage THEN [job EXCEPT !.image = TRUE, !.script = FALSE] ELSE job)
         = PreparedJob
  BY <1>1 DEF PreparedJob
<1> QED BY <1>1, <1>2, <1>3

\* Nothing the plan could not know of: what the first choice is made by.
LEMMA FirstRouting ==
  ASSUME IInv, PlanInv, Undisturbed, attempts = <<>>, pc = "choose"
  PROVE  job = PreparedJob /\ RoutingOptions = PlanOptions /\ resumeFrom = start
<1>1. job = PreparedJob /\ hints = config.routing.hints
  BY DEF PlanInv, Prepared, Undisturbed
<1>2. excluded = {} /\ resumeFrom = start BY DEF IInv, Progress
<1> QED BY <1>1, <1>2 DEF RoutingOptions, PlanOptions

LEMMA PlanInit == Init => PlanInv
BY DEF Init, PlanInv, Prepared, PlanIsKnown, FirstAttempt

\* The preparation goes on.
LEMMA ProceedsInv ==
  ASSUME IInv, PlanInv, Prepared', attempts = <<>>,
         UNCHANGED <<inputVars, command, loopVars, planned>>,
         pc \notin {"over", "prepare", "submit"}, pc' \notin {"over", "prepare", "submit"}
  PROVE  PlanInv'
<1>1. UNCHANGED <<config, market, moves, start, attempts>> BY DEF inputVars, loopVars
<1>2. Preparable' = Preparable /\ Choosable' = Choosable /\ Undisturbed' = Undisturbed
  BY <1>1, PreparableStays, ChoosableStays DEF Undisturbed
<1>3. PlanIsKnown' BY <1>2 DEF PlanInv, PlanIsKnown
<1>4. FirstAttempt' BY <1>1 DEF FirstAttempt, Trying
<1> QED BY <1>3, <1>4 DEF PlanInv

\* A command ends with an error: if there was nothing to choose, or if a fault
\* is to blame.
LEMMA RejectsInv ==
  ASSUME IInv, PlanInv, NEW from, from # "over", Rejects(from),
         command = "plan" => (Undisturbed /\ Preparable => Choosable = {}),
         command = "train" /\ attempts = <<>> =>
           fault' \/ (Undisturbed /\ Preparable => Choosable = {})
  PROVE  PlanInv'
<1>1. /\ pc = from /\ pc' = "over"
      /\ UNCHANGED <<config, market, moves, start, command, job, profile, hints,
                     attempts, planned>>
  BY DEF Rejects, Goto, inputVars, jobVars, loopVars
<1>2. Preparable' = Preparable /\ Choosable' = Choosable /\ Undisturbed' = Undisturbed
  BY <1>1, PreparableStays, ChoosableStays DEF Undisturbed
<1>3. Prepared' BY <1>1 DEF PlanInv, Prepared
<1>4. PlanIsKnown'
  <2>1. CASE command = "train" BY <1>1, <1>2, <2>1 DEF PlanInv, PlanIsKnown
  <2>2. CASE command = "plan"
    BY <1>1, <1>2, <2>2 DEF PlanInv, Prepared, PlanIsKnown
  <2> QED BY <2>1, <2>2 DEF PlanInv, Prepared
<1>5. FirstAttempt' BY <1>1, <1>2 DEF PlanInv, FirstAttempt, Trying
<1> QED BY <1>3, <1>4, <1>5 DEF PlanInv

\* plan and train prepare the job in the same way.
LEMMA PreparationInv ==
  ASSUME IInv, PlanInv,
         RunOnly \/ Prepare \/ Run
  PROVE  PlanInv'
<1> USE DEF PlanInv
<1>1. CASE Run
  <2>1. /\ command = "plan" /\ command' = "train" /\ pc = "over" /\ pc' = "load"
        /\ job' = config.job
        /\ UNCHANGED <<config, market, moves, start, profile, hints, attempts, planned>>
    BY <1>1 DEF Run, Goto, inputVars, loopVars
  <2>2. attempts = <<>> BY <2>1 DEF IInv, Progress
  <2>3. Prepared' BY <2>1 DEF Prepared
  <2>4. PlanIsKnown'
    <3> SUFFICES ASSUME Undisturbed' PROVE PlanIsKnown' BY DEF PlanIsKnown
    <3>1. Undisturbed /\ (config.key = "stored" => config.lambda # "complete")
      BY <2>1 DEF Undisturbed
    <3>2. Preparable' = Preparable /\ Choosable' = Choosable
      BY <2>1, <3>1, PreparableStays, ChoosableStays
    <3> QED BY <2>1, <3>1, <3>2 DEF PlanIsKnown
  <2>5. FirstAttempt' BY <2>1, <2>2 DEF FirstAttempt, Trying
  <2> QED BY <2>3, <2>4, <2>5
<1>2. RunOnly \/ Prepare => attempts = <<>>
  BY DEF IInv, Progress, RunOnly, RunProbe, ProbeFails, OpenCredentials,
    OpenCredentialsFails, Prepare, Load, LoadFails, Preflight, PreflightFails, Stage,
    StageFails, Package, PackageFails, Rejects, Goto
<1>3. RunOnly \/ Prepare => UNCHANGED config
  BY DEF RunOnly, RunProbe, ProbeFails, OpenCredentials,
    OpenCredentialsFails, Prepare, Load, LoadFails, Preflight, PreflightFails, Stage,
    StageFails, Package, PackageFails, Rejects, inputVars
<1>4. UNCHANGED config =>
        /\ StagedJob' = StagedJob /\ PreparedJob' = PreparedJob
        /\ IsValid' = IsValid /\ InputsAreFine' = InputsAreFine
        /\ StagingIsFine' = StagingIsFine /\ PackageIsFine' = PackageIsFine
  BY PreparableStays
<1>5. CASE Load
  <2>1. Prepared' BY <1>3, <1>4, <1>5 DEF Prepare, Load, Goto, Prepared, inputVars, jobVars
  <2> QED BY <1>2, <1>5, <2>1, ProceedsInv DEF Load, Goto, Prepare
<1>6. CASE LoadFails
  <2>1. ~Preparable BY <1>6 DEF LoadFails, Preparable
  <2> QED BY <1>6, <2>1, RejectsInv DEF LoadFails
<1>7. CASE RunProbe
  <2>1. Prepared' BY <1>3, <1>4, <1>7 DEF RunProbe, Goto, Prepared, inputVars
  <2> QED BY <1>2, <1>7, <2>1, ProceedsInv DEF RunProbe, Goto, RunOnly
<1>8. CASE ProbeFails
  <2>1. command # "plan" BY <1>8 DEF ProbeFails, Rejects, Goto, Prepared
  <2> QED BY <1>8, <2>1, RejectsInv DEF ProbeFails
<1>9. CASE OpenCredentials
  <2>1. Prepared'
    BY <1>3, <1>4, <1>9 DEF OpenCredentials, Goto, Prepared, inputVars, jobVars
  <2> QED BY <1>2, <1>9, <2>1, ProceedsInv DEF OpenCredentials, Goto, RunOnly
<1>10. CASE OpenCredentialsFails
  <2>1. command # "plan" BY <1>10 DEF OpenCredentialsFails, Rejects, Goto, Prepared
  <2> QED BY <1>10, <2>1, RejectsInv DEF OpenCredentialsFails
<1>11. CASE Preflight
  <2>1. InputsAreFine BY <1>11 DEF Preflight, Goto, Prepared, InputsAreFine
  <2>2. Prepared'
    BY <1>3, <1>4, <1>11, <2>1 DEF Preflight, Goto, Prepared, inputVars, jobVars
  <2> QED BY <1>2, <1>11, <2>2, ProceedsInv DEF Preflight, Goto, Prepare
<1>12. CASE PreflightFails
  <2>1. ~Preparable
    BY <1>12 DEF PreflightFails, Rejects, Goto, Prepared, Preparable, InputsAreFine
  <2> QED BY <1>12, <2>1, RejectsInv DEF PreflightFails
<1>13. CASE Stage
  <2>1. job = config.job BY <1>13 DEF Stage, Goto, Prepared
  <2>2. StagingIsFine /\ job' = StagedJob
    BY <1>13, <2>1, OperationsMatch DEF Stage, StagingIsFine
  <2>3. Prepared'
    BY <1>3, <1>4, <1>13, <2>2 DEF Stage, Goto, Prepared, inputVars
  <2> QED BY <1>2, <1>13, <2>3, ProceedsInv DEF Stage, Goto, Prepare
<1>14. CASE StageFails
  <2>1. job = config.job BY <1>14 DEF StageFails, Rejects, Goto, Prepared
  <2>2. ~PrefixIsReadable => ~Preparable
    BY <1>14, <2>1, OperationsMatch DEF StageFails, Preparable, StagingIsFine
  <2>3. ~PrefixIsReadable \/ (command = "train" /\ fault')
    BY <1>14 DEF StageFails
  <2> QED BY <1>14, <2>2, <2>3, RejectsInv DEF StageFails
<1>15. CASE Package
  <2>1. job = StagedJob BY <1>15 DEF Package, Goto, Prepared
  <2>2. PackageIsFine /\ job' = PreparedJob
    BY <1>15, <2>1, OperationsMatch DEF Package, PackageIsFine
  <2>3. Prepared'
    BY <1>3, <1>4, <1>15, <2>2 DEF Package, Goto, Prepared, inputVars
  <2> QED BY <1>2, <1>15, <2>3, ProceedsInv DEF Package, Goto, Prepare
<1>16. CASE PackageFails
  <2>1. job = StagedJob BY <1>16 DEF PackageFails, Rejects, Goto, Prepared
  <2>2. ~config.scriptInContext => ~Preparable
    BY <1>16, <2>1, OperationsMatch DEF PackageFails, Preparable, PackageIsFine
  <2>3. ~config.scriptInContext \/ (command = "train" /\ fault')
    BY <1>16 DEF PackageFails
  <2> QED BY <1>16, <2>2, <2>3, RejectsInv DEF PackageFails
<1> QED BY <1>1, <1>5, <1>6, <1>7, <1>8, <1>9, <1>10, <1>11, <1>12, <1>13, <1>14,
           <1>15, <1>16 DEF RunOnly, Prepare

\* What plan ends with.
LEMMA PlansInv ==
  ASSUME IInv, PlanInv, NEW c, Plans(c), Undisturbed => c \in Choosable
  PROVE  PlanInv'
<1>1. /\ command = "plan" /\ pc = "choose" /\ pc' = "over" /\ planned' = c
      /\ UNCHANGED <<config, market, moves, start, command, job, profile, hints, attempts>>
  BY DEF Plans, Goto, inputVars, jobVars, loopVars
<1>2. Preparable BY <1>1 DEF PlanInv, Prepared, Preparable
<1>3. Preparable' = Preparable /\ Choosable' = Choosable /\ Undisturbed' = Undisturbed
  BY <1>1, PreparableStays, ChoosableStays DEF Undisturbed
<1>4. Prepared' BY <1>1 DEF PlanInv, Prepared
<1>5. PlanIsKnown' BY <1>1, <1>2, <1>3 DEF PlanIsKnown
<1>6. FirstAttempt' BY <1>1 DEF FirstAttempt
<1> QED BY <1>4, <1>5, <1>6 DEF PlanInv

\* When plan is about to choose, it can choose what there is to choose.
LEMMA PlanStepInv == ASSUME IInv, PlanInv, Plan PROVE PlanInv'
<1>1. /\ command = "plan" /\ pc = "choose" /\ attempts = <<>>
  BY DEF Plan, PlanRoute, PlanExplicitProvider, PlanRejects, Plans, Rejects, Goto,
    IInv, Progress
<1>2. resumeFrom = start BY <1>1 DEF IInv, Progress
<1>3. Undisturbed => job = PreparedJob /\ RoutingOptions = PlanOptions
  BY <1>1, FirstRouting
<1>4. CASE PlanRoute
  <2>1. Automatic BY <1>4 DEF PlanRoute, Automatic
  <2>2. PICK c \in Select(Registry, job, RoutingOptions) : Plans(c)
    BY <1>4 DEF PlanRoute
  <2>3. Undisturbed => c \in Choosable BY <1>3, <2>1, <2>2 DEF Choosable
  <2> QED BY <2>2, <2>3, PlansInv
<1>5. CASE PlanExplicitProvider
  <2>1. Plans(Explicit) /\ ~Automatic
    BY <1>5, ExplicitIsRegistered DEF PlanExplicitProvider
  <2>2. Undisturbed => TakesExplicit
    BY <1>2, <1>3, <1>5 DEF PlanExplicitProvider, TakesExplicit
  <2>3. Undisturbed => Explicit \in Choosable BY <2>1, <2>2 DEF Choosable
  <2> QED BY <2>1, <2>3, PlansInv
<1>6. CASE PlanRejects
  <2>1. Undisturbed => Choosable = {}
    <3> SUFFICES ASSUME Undisturbed PROVE Choosable = {} OBVIOUS
    <3>1. CASE Automatic
      BY <1>3, <1>6, <3>1 DEF PlanRejects, Choosable, Automatic
    <3>2. CASE ~Automatic
      <4>1. ~TakesExplicit
        BY <1>2, <1>3, <1>6, <3>2 DEF PlanRejects, TakesExplicit, Automatic
      <4> QED BY <3>2, <4>1 DEF Choosable
    <3> QED BY <3>1, <3>2
  <2>2. Rejects("choose") /\ command # "train"
    BY <1>1, <1>6 DEF PlanRejects
  <2> QED BY <2>1, <2>2, RejectsInv
<1> QED BY <1>4, <1>5, <1>6 DEF Plan

\* An attempt begins.
LEMMA TriesInv ==
  ASSUME IInv, PlanInv, Route \/ UseExplicitProvider
  PROVE  PlanInv'
<1>1. PICK c : /\ Begins(c)
               /\ IF Automatic THEN c \in Select(Registry, job, RoutingOptions)
                  ELSE /\ c = Explicit
                       /\ resumeFrom # NoCheckpoint =>
                            /\ IsRegistered(config.provider)
                            /\ ReadsCheckpoint(Registry[config.provider], resumeFrom)
  BY DEF Route, UseExplicitProvider, Automatic
<1>2. /\ command = "train" /\ pc = "choose" /\ pc' = "prepare" /\ choice' = c
      /\ UNCHANGED <<config, market, moves, start, command, job, profile, hints, attempts,
                     planned>>
  BY <1>1 DEF Begins, Goto, inputVars, jobVars
<1>3. Preparable' = Preparable /\ Choosable' = Choosable /\ Undisturbed' = Undisturbed
      /\ Explicit' = Explicit /\ Automatic' = Automatic /\ Registry' = Registry
  BY <1>2, PreparableStays, ChoosableStays, RegistryStays DEF Undisturbed
<1>4. Prepared'
  <2>1. StagedJob' = StagedJob /\ PreparedJob' = PreparedJob
        /\ IsValid' = IsValid /\ InputsAreFine' = InputsAreFine
        /\ StagingIsFine' = StagingIsFine /\ PackageIsFine' = PackageIsFine
    BY <1>2, PreparableStays
  <2> QED BY <1>2, <2>1 DEF PlanInv, Prepared
<1>5. PlanIsKnown' BY <1>2, <1>3 DEF PlanInv, PlanIsKnown
<1>6. ASSUME Undisturbed, attempts = <<>>
      PROVE  IF Automatic THEN c \in Choosable
             ELSE /\ c = Explicit
                  /\ start # NoCheckpoint =>
                       /\ IsRegistered(config.provider)
                       /\ ReadsCheckpoint(Registry[config.provider], start)
  BY <1>1, <1>2, <1>6, FirstRouting DEF Choosable
<1>7. FirstAttempt'
  <2>1. (IsRegistered(config.provider) /\ ReadsCheckpoint(Registry[config.provider], start))'
          <=> IsRegistered(config.provider) /\ ReadsCheckpoint(Registry[config.provider], start)
    BY <1>2, <1>3 DEF IsRegistered, ReadsCheckpoint
  <2> QED BY <1>2, <1>3, <1>6, <2>1 DEF PlanInv, FirstAttempt, Trying
<1> QED BY <1>4, <1>5, <1>7 DEF PlanInv

LEMMA ChoiceFailsInv == ASSUME IInv, PlanInv, ChoiceFails PROVE PlanInv'
<1>1. /\ command = "train" /\ pc = "choose" /\ Rejects("choose")
  BY DEF ChoiceFails, Rejects, Goto
<1>2. ASSUME Undisturbed, attempts = <<>> PROVE Choosable = {}
  <2>1. job = PreparedJob /\ RoutingOptions = PlanOptions /\ resumeFrom = start
    BY <1>1, <1>2, FirstRouting
  <2>2. CASE Automatic
    BY <2>1, <2>2 DEF ChoiceFails, Choosable, Automatic
  <2>3. CASE ~Automatic
    <3>1. ~TakesExplicit BY <2>1, <2>3 DEF ChoiceFails, TakesExplicit, Automatic
    <3> QED BY <2>3, <3>1 DEF Choosable
  <2> QED BY <2>2, <2>3
<1> QED BY <1>1, <1>2, RejectsInv

\* What is submitted first could be chosen, and has been accepted.
LEMMA SubmitInv == ASSUME IInv, PlanInv, Submit PROVE PlanInv'
<1>1. /\ pc = "prepare" /\ pc' = "submit" /\ Accepts
      /\ UNCHANGED <<config, market, moves, start, command, job, profile, hints, attempts,
                     choice, planned>>
  BY DEF Submit, Goto, inputVars, jobVars, loopVars
<1>2. Preparable' = Preparable /\ Choosable' = Choosable /\ Undisturbed' = Undisturbed
  BY <1>1, PreparableStays, ChoosableStays DEF Undisturbed
<1>3. Prepared'
  <2>1. StagedJob' = StagedJob /\ PreparedJob' = PreparedJob
        /\ IsValid' = IsValid /\ InputsAreFine' = InputsAreFine
        /\ StagingIsFine' = StagingIsFine /\ PackageIsFine' = PackageIsFine
    BY <1>1, PreparableStays
  <2> QED BY <1>1, <2>1 DEF PlanInv, Prepared
<1>4. PlanIsKnown' BY <1>1, <1>2 DEF PlanInv, PlanIsKnown
<1>5. ASSUME command = "train", Undisturbed, attempts = <<>>
      PROVE  choice \in Choosable
  <2>1. CASE Automatic BY <1>1, <1>5, <2>1 DEF PlanInv, FirstAttempt, Trying
  <2>2. CASE ~Automatic
    <3>1. choice = Explicit /\ choice.provider = config.provider
      BY <1>1, <1>5, <2>2 DEF PlanInv, FirstAttempt, Trying, Explicit
    <3>2. IsRegistered(config.provider) /\ ValidateJob(Registry[config.provider], PreparedJob)
      BY <1>1, <3>1 DEF Accepts, PlanInv, Prepared
    <3>3. ReadsCheckpoint(Registry[config.provider], start)
      BY <1>1, <1>5, <2>2 DEF PlanInv, FirstAttempt, Trying, ReadsCheckpoint
    <3> QED BY <2>2, <3>1, <3>2, <3>3 DEF Choosable, TakesExplicit
  <2> QED BY <2>1, <2>2
<1>6. FirstAttempt'
  BY <1>1, <1>2, <1>5 DEF PlanInv, FirstAttempt, Trying
<1> QED BY <1>3, <1>4, <1>6 DEF PlanInv

\* An attempt ends: the first has been what there was to choose, unless it was
\* refused and there was nothing.
LEMMA AttemptEndsInv ==
  ASSUME IInv, PlanInv, Trying, NEW end, NEW to \in {"over", "choose"}, Ends(end, to),
         end = "refused" => ~Automatic /\ ~Accepts,
         end \notin Refusals => pc = "submit"
  PROVE  PlanInv'
<1> DEFINE last == [choice |-> choice, end |-> end]
<1>1. /\ pc' = to /\ attempts' = Append(attempts, last) /\ command = "train"
      /\ UNCHANGED <<config, market, moves, start, command, job, profile, hints, choice,
                     planned>>
  BY DEF Ends, inputVars, jobVars, IInv, Progress
<1>2. Preparable' = Preparable /\ Choosable' = Choosable /\ Undisturbed' = Undisturbed
  BY <1>1, PreparableStays, ChoosableStays DEF Undisturbed
<1>3. Prepared'
  <2>1. StagedJob' = StagedJob /\ PreparedJob' = PreparedJob
        /\ IsValid' = IsValid /\ InputsAreFine' = InputsAreFine
        /\ StagingIsFine' = StagingIsFine /\ PackageIsFine' = PackageIsFine
    BY <1>1, PreparableStays
  <2> QED BY <1>1, <2>1 DEF PlanInv, Prepared, Trying
<1>4. PlanIsKnown' BY <1>1, <1>2 DEF PlanInv, PlanIsKnown
<1> HIDE DEF last
<1>5. /\ attempts' # <<>>
      /\ attempts = <<>> => attempts'[1] = last
      /\ attempts # <<>> => attempts'[1] = attempts[1]
  <2>1. IsSequence(attempts) BY DEF IInv, Typed
  <2> QED BY <1>1, <2>1, Recorded
<1>6. last.choice = choice /\ last.end = end BY DEF last
<1>7. Preparable BY DEF PlanInv, Prepared, Preparable, Trying
<1>8. ASSUME Undisturbed, attempts = <<>>
      PROVE  /\ end = "refused" => Choosable = {}
             /\ end \notin Refusals => choice \in Choosable
  <2>1. end \notin Refusals => choice \in Choosable
    BY <1>1, <1>8 DEF PlanInv, FirstAttempt
  <2>2. ASSUME end = "refused" PROVE Choosable = {}
    <3>1. ~Automatic /\ ~Accepts BY <2>2
    <3>2. pc = "prepare" \/ choice \in Choosable
      BY <1>1, <1>8 DEF PlanInv, FirstAttempt, Trying
    <3>3. choice = Explicit
      BY <1>1, <1>8, <3>1, <3>2 DEF PlanInv, FirstAttempt, Trying, Choosable
    <3>4. job = PreparedJob /\ choice.provider = config.provider
      BY <3>3 DEF PlanInv, Prepared, Trying, Explicit
    <3>5. ~TakesExplicit BY <3>1, <3>4 DEF Accepts, TakesExplicit
    <3> QED BY <3>1, <3>5 DEF Choosable
  <2> QED BY <2>1, <2>2
<1>9. FirstAttempt'
  <2> SUFFICES ASSUME Undisturbed
               PROVE  /\ attempts'[1].end = "refused" => Choosable = {}
                      /\ attempts'[1].end \notin Refusals => attempts'[1].choice \in Choosable
    BY <1>1, <1>2, <1>5, <1>7 DEF FirstAttempt, Trying
  <2>1. CASE attempts = <<>> BY <1>5, <1>6, <1>8, <2>1
  <2>2. CASE attempts # <<>> BY <1>1, <1>5, <2>2 DEF PlanInv, FirstAttempt
  <2> QED BY <2>1, <2>2
<1> QED BY <1>3, <1>4, <1>9 DEF PlanInv

LEMMA PlanInvStep ==
  ASSUME IInv, PlanInv, moves \in Nat, [Next]_vars
  PROVE  PlanInv'
<1>1. CASE MarketMoves
  <2>1. /\ moves' # 0
        /\ UNCHANGED <<config, start, command, pc, job, profile, hints, attempts, planned>>
    BY <1>1 DEF MarketMoves, jobVars, loopVars
  <2>2. ~Undisturbed' BY <2>1 DEF Undisturbed
  <2>3. StagedJob' = StagedJob /\ PreparedJob' = PreparedJob
        /\ IsValid' = IsValid /\ InputsAreFine' = InputsAreFine
        /\ StagingIsFine' = StagingIsFine /\ PackageIsFine' = PackageIsFine
    BY <2>1, PreparableStays
  <2>4. Prepared' BY <2>1, <2>3 DEF PlanInv, Prepared
  <2> QED BY <2>2, <2>4 DEF PlanInv, PlanIsKnown, FirstAttempt
<1>2. CASE RunOnly \/ Prepare \/ Run BY <1>2, PreparationInv
<1>3. CASE Plan BY <1>3, PlanStepInv
<1>4. CASE Route \/ UseExplicitProvider BY <1>4, TriesInv
<1>5. CASE ChoiceFails BY <1>5, ChoiceFailsInv
<1>6. CASE Refused
  <2>1. ~Automatic
    BY <1>6 DEF IInv, Fit, Trying, Refused, Accepts, Accepted, IsRegistered
  <2>2. Trying /\ Ends("refused", "over") /\ ~Accepts BY <1>6 DEF Refused, Trying
  <2> QED BY <2>1, <2>2, AttemptEndsInv DEF Refusals
<1>7. CASE PrepareFails
  BY <1>7, AttemptEndsInv DEF PrepareFails, Trying, Refusals
<1>8. CASE Submit BY <1>8, SubmitInv
<1>9. CASE Settles
  <2>1. PICK end \in {"succeeded", "failed"} : Ends(end, "over")
    BY <1>9 DEF Settles
  <2> QED BY <1>9, <2>1, AttemptEndsInv DEF Settles, Trying
<1>10. CASE GivesUp BY <1>10, AttemptEndsInv DEF GivesUp, Trying
<1>11. CASE FailOver BY <1>11, AttemptEndsInv DEF FailOver, Trying
<1>12. CASE UNCHANGED vars
  <2>1. /\ UNCHANGED <<config, market, moves, start, command, pc, job, profile, hints,
                       choice, attempts, planned, fault>>
    BY <1>12 DEF vars, inputVars, jobVars, loopVars
  <2>2. Preparable' = Preparable /\ Choosable' = Choosable /\ Undisturbed' = Undisturbed
        /\ Explicit' = Explicit /\ Automatic' = Automatic /\ Registry' = Registry
        /\ StagedJob' = StagedJob /\ PreparedJob' = PreparedJob
        /\ IsValid' = IsValid /\ InputsAreFine' = InputsAreFine
        /\ StagingIsFine' = StagingIsFine /\ PackageIsFine' = PackageIsFine
    BY <2>1, PreparableStays, ChoosableStays, RegistryStays DEF Undisturbed
  <2>3. Prepared' BY <2>1, <2>2 DEF PlanInv, Prepared
  <2>4. PlanIsKnown' BY <2>1, <2>2 DEF PlanInv, PlanIsKnown
  <2>5. FirstAttempt'
    BY <2>1, <2>2 DEF PlanInv, FirstAttempt, Trying, IsRegistered, ReadsCheckpoint
  <2> QED BY <2>3, <2>4, <2>5 DEF PlanInv
<1> QED BY <1>1, <1>2, <1>3, <1>4, <1>5, <1>6, <1>7, <1>8, <1>9, <1>10, <1>11, <1>12
     DEF Next, Attempt

\* routing.Select decides: whenever there is anything to choose it gives one
\* choice, whatever the prices, shapes and limits and however many candidates
\* tie; every other candidate comes after it; and its provider is registered,
\* not given up on, takes the inputs, reads the checkpoint and accepts the job.
THEOREM SelectDecides ==
  ASSUME NEW registry, NEW theJob, NEW opts,
         DOMAIN registry \subseteq DOMAIN Rank,
         \A p \in DOMAIN registry : IsAdapter(registry[p]),
         opts.hints \in Hints,
         Choices(registry, theJob, opts) # {}
  PROVE  \E c \in Choices(registry, theJob, opts) :
           /\ Select(registry, theJob, opts) = {c}
           /\ \A d \in Choices(registry, theJob, opts) \ {c} : Before(c.key, d.key)
           /\ c.provider \in DOMAIN registry \ opts.exclude
           /\ AcceptsInputs(registry[c.provider], theJob)
           /\ ReadsCheckpoint(registry[c.provider], opts.resume)
           /\ ValidateJob(registry[c.provider], theJob)
<1> DEFINE all == Choices(registry, theJob, opts)
<1>1. \A c \in all : c.key \in Keys /\ c.provider \in Eligible(registry, theJob, opts)
  BY ChoiceFacts
<1>2. PICK c \in all : \A d \in all : d.key = c.key \/ Before(c.key, d.key)
  <2> DEFINE K == {d.key : d \in all}
  <2>1. K \subseteq Keys /\ K # {} BY <1>1
  <2>2. PICK k \in K : \A l \in K : l = k \/ Before(k, l) BY <2>1, FirstKey
  <2> QED BY <2>2
<1>3. c \in Select(registry, theJob, opts)
  <2>1. ASSUME NEW d \in all PROVE ~Before(d.key, c.key)
    <3>1. CASE d.key = c.key
      <4>1. \A i \in 1..5 : d.key[i] \in Nat BY <1>1 DEF Keys
      <4> QED BY <3>1, <4>1 DEF Before
    <3>2. CASE Before(c.key, d.key) BY <1>1, <3>2, BeforeIsAsymmetric
    <3> QED BY <1>2, <3>1, <3>2
  <2> QED BY <2>1 DEF Select
<1>4. Select(registry, theJob, opts) = {c}
  <2>1. \A d \in Select(registry, theJob, opts) : d = c
    BY <1>3, SelectionIsUnique
  <2> QED BY <1>3, <2>1
<1>5. ASSUME NEW d \in all, d # c PROVE Before(c.key, d.key)
  <2>1. d.key # c.key
    <3> SUFFICES ASSUME d.key = c.key PROVE FALSE OBVIOUS
    <3>1. d \in Select(registry, theJob, opts) BY <1>3 DEF Select
    <3> QED BY <1>4, <1>5, <3>1
  <2> QED BY <1>2, <2>1
<1>6. /\ c.provider \in DOMAIN registry \ opts.exclude
      /\ AcceptsInputs(registry[c.provider], theJob)
      /\ ReadsCheckpoint(registry[c.provider], opts.resume)
      /\ ValidateJob(registry[c.provider], theJob)
  BY <1>1 DEF Eligible
<1> QED BY <1>4, <1>5, <1>6

\* What routing has chosen is not refused, has the memory the probe asked for
\* and costs no more than the budget, whatever the market does (Select,
\* runAttempt).
THEOREM RoutingFits == Spec => []RoutedJobFits
<1>1. ASSUME IInv PROVE RoutedJobFits
  <2>1. config \in Configs BY <1>1 DEF IInv, Typed
  <2>2. Automatic =>
          \A i \in DOMAIN attempts :
            attempts[i].end # "refused" /\ Suits(attempts[i].choice)
    BY <1>1 DEF IInv, Fit
  <2> QED BY <2>1, <2>2, BudgetStays DEF Suits, RoutedJobFits, Automatic
<1> QED BY <1>1, Invariant, PTL

\* Failover takes its choices in the order of the objective (runAttempts).
THEOREM FailoverIsInOrder == Spec => []FirstChoiceIsBest
<1>1. IInv => FirstChoiceIsBest BY DEF IInv
<1> QED BY <1>1, Invariant, PTL

\* What plan reports is what train and resume do with the same configuration,
\* if the prices, a probe and the store give it no other (runPlan, runTrain).
THEOREM PlanIsKept == Spec => []PlanForeseesTrain
<1>1. ASSUME IInv, PlanInv PROVE PlanForeseesTrain
  <2> SUFFICES ASSUME command = "train", Undisturbed
               PROVE  /\ attempts # <<>> /\ attempts[1].end \notin Refusals =>
                           attempts[1].choice = planned
                      /\ pc = "over" /\ planned # NoChoice /\ ~fault =>
                           attempts # <<>> /\ attempts[1].end # "refused"
    BY DEF PlanForeseesTrain
  <2>1. \/ Preparable /\ planned \in Choosable
        \/ planned = NoChoice /\ (Preparable => Choosable = {})
    BY <1>1 DEF PlanInv, PlanIsKnown
  <2>2. /\ attempts = <<>> /\ pc = "over" => fault \/ (Preparable => Choosable = {})
        /\ attempts # <<>> =>
             /\ Preparable
             /\ attempts[1].end = "refused" => Choosable = {}
             /\ attempts[1].end \notin Refusals => attempts[1].choice \in Choosable
    BY <1>1 DEF PlanInv, FirstAttempt
  <2>3. attempts # <<>> /\ attempts[1].end \notin Refusals => attempts[1].choice = planned
    BY <1>1, <2>1, <2>2, ChoosableIsUnique
  <2> QED BY <2>1, <2>2, <2>3
<1>2. IInv /\ PlanInv /\ moves \in Nat /\ [Next]_vars => PlanInv' BY PlanInvStep
<1> QED BY <1>1, <1>2, PlanInit, Invariant, MovesAreCounted, PTL DEF Spec
=============================================================================
