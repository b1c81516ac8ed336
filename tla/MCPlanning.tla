----------------------------- MODULE MCPlanning -----------------------------
(***************************************************************************)
(* Instances of Planning for TLC: families of configurations, each varied  *)
(* from one base in what its part of the code looks at.                    *)
(***************************************************************************)
EXTENDS Planning

\* The names in their order.
MCRank == [n \in {"alibaba-cloud", "gcp", "lambda", "local", "mock-gcp", "mock-lambda"} |->
             CASE n = "alibaba-cloud" -> 1 [] n = "gcp" -> 2 [] n = "lambda" -> 3
               [] n = "local" -> 4 [] n = "mock-gcp" -> 5 [] n = "mock-lambda" -> 6]

Small == [id |-> 1, machine |-> "small", region |-> "east", family |-> "T4", gpus |-> 1,
          perGPU |-> 16, total |-> 16, onDemandPrice |-> 50, spotPrice |-> 20,
          onDemand |-> TRUE, spot |-> TRUE, hint |-> "available"]
Large == [Small EXCEPT !.id = 2, !.machine = "large", !.family = "A100", !.gpus = 4,
                       !.perGPU = 40, !.total = 160, !.onDemandPrice = 400]
Spot  == [Large EXCEPT !.id = 3, !.region = "west", !.onDemandPrice = 0, !.onDemand = FALSE]
Unnamed == [Small EXCEPT !.id = 0]

Full(shape)  == [shape EXCEPT !.hint = "no_quota"]
Cheap(shape) == [shape EXCEPT !.onDemandPrice = 40]

MCMarkets ==
  {[gcp |-> <<Small, Large>>, lambda |-> <<Cheap(Small), Full(Large)>>],
   [gcp |-> <<Full(Small), Cheap(Large), Spot>>, lambda |-> <<>>]}

Script == [script |-> TRUE, image |-> FALSE, inputs |-> {}]
Image  == [Script EXCEPT !.script = FALSE, !.image = TRUE]
With(what, inputs) == [what EXCEPT !.inputs = inputs]

Routing0 ==
  [mode |-> "", objective |-> "min_cost", budget |-> 0,
   hints |-> [required |-> 0, parameters |-> 0, artifact |-> 0, batch |-> 0,
              precision |-> "", optimizer |-> "", steps |-> 0],
   limits |-> [gpus |-> 0, perGPU |-> 0, families |-> {}, regions |-> {},
               requireOnDemand |-> FALSE, allowSpot |-> TRUE],
   manual |-> [provider |-> "", shape |-> 0, machine |-> "", region |-> ""],
   exclude |-> {}, resume |-> NoCheckpoint]

Base ==
  [provider |-> "auto", job |-> Script, staging |-> "none", packaging |-> "none",
   scriptInContext |-> TRUE, bundleFits |-> TRUE, mountFits |-> TRUE,
   gcp |-> "complete", lambda |-> "complete", china |-> "complete",
   lambdaShape |-> [Small EXCEPT !.onDemandPrice = 0, !.spotPrice = 0],
   chinaShape |-> [Large EXCEPT !.onDemandPrice = 300],
   key |-> "environment", probe |-> "none",
   mock |-> [name |-> "mock-gcp", shapes |-> <<Small, Spot, Unnamed>>],
   routing |-> Routing0, maxAttempts |-> 3]

-----------------------------------------------------------------------------
\* A provider that is named: what becomes of the inputs and the script.
Named ==
  {[Base EXCEPT !.provider = p, !.job = j, !.staging = s, !.packaging = k,
                !.scriptInContext = c] :
     p \in {"local", "gcp", "lambda", "alibaba-cloud", "mock-gcp", "unknown"},
     j \in {With(Script, {"bundle"}), With(Image, {"bundle", "gs"}), With(Image, {"s3"})},
     s \in {"none", "gs", "s3"}, k \in {"none", "image", "repository"}, c \in BOOLEAN}

\* What makes a configuration invalid, and a part of it incomplete.
Partial ==
  {[Base EXCEPT !.provider = p, !.job = Image, !.gcp = g, !.lambda = l, !.china = c] :
     p \in {"auto", "gcp", "lambda", "alibaba-cloud"},
     g \in {"none", "badAccelerator", "complete"}, l \in {"none", "complete"},
     c \in {"none", "partial", "no network", "complete"}}
  \cup {[Base EXCEPT !.job = j] :
          j \in {[Script EXCEPT !.script = FALSE], With(Script, {"oss"}), With(Image, {"s3", "gs"})}}
  \cup {[Base EXCEPT !.staging = "other"],
        [Base EXCEPT !.job = With(Script, {"bundle"}), !.bundleFits = FALSE],
        [Base EXCEPT !.job = With(Script, {"bundle"}), !.mountFits = FALSE],
        [Base EXCEPT !.provider = "local", !.job = With(Script, {"bundle"}), !.mountFits = FALSE],
        [Base EXCEPT !.maxAttempts = 0]}

Hints0 == Routing0.hints
Limits == Routing0.limits

\* The ways to ask for hardware.  The budget of 60 cents is between the costs of
\* the shapes: it leaves a job without steps the small and the cheap ones, and
\* one of 900 steps only the cheap ones with four accelerators.
Routings ==
  {[Routing0 EXCEPT !.objective = o, !.mode = m, !.hints = h, !.budget = b] :
     o \in {"min_cost", "fastest_within_budget"}, m \in {"auto_provider", "full_auto"},
     h \in {Hints0, [Hints0 EXCEPT !.required = 24],
            [Hints0 EXCEPT !.parameters = 3, !.batch = 2, !.precision = "fp32",
                          !.optimizer = "adam", !.steps = 900]},
     b \in {0, 60}}
  \cup {[Routing0 EXCEPT !.mode = "auto_provider", !.limits = l] :
          l \in {[Limits EXCEPT !.gpus = 2], [Limits EXCEPT !.perGPU = 20],
                 [Limits EXCEPT !.families = {"A100"}, !.requireOnDemand = TRUE],
                 [Limits EXCEPT !.regions = {"west"}],
                 [Limits EXCEPT !.families = {"A100"}, !.allowSpot = FALSE]}}
  \cup {[Routing0 EXCEPT !.mode = "manual", !.manual = m] :
          m \in {Routing0.manual, [Routing0.manual EXCEPT !.shape = 2],
                 [Routing0.manual EXCEPT !.provider = "lambda", !.machine = "large"]}}
  \cup {Routing0, [Routing0 EXCEPT !.objective = "first"]}

Hardware ==
  {[Base EXCEPT !.routing = r, !.job = j, !.probe = p, !.key = k] :
     r \in Routings, j \in {Image, Script}, p \in {"none", "output", "silent"},
     k \in {"environment", "stored", "none"}}

MCConfigs == Named \cup Partial \cup Hardware
MCProfiles == {0, 24, 200}
MCResumes == {NoCheckpoint, "gs", "file"}
MCSaved == {"gs", "mock"}
=============================================================================
