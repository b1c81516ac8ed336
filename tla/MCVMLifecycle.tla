--------------------------- MODULE MCVMLifecycle ---------------------------
(***************************************************************************)
(* Instances of VMLifecycle for TLC.                                       *)
(***************************************************************************)
EXTENDS VMLifecycle

CONSTANTS r1, r2

MCSetup(home, selected, terminate, keep) ==
  [home |-> home, selected |-> selected, terminate |-> terminate, keep |-> keep]

\* Routing puts the first machine elsewhere; the resume has another region and
\* keeps its machine if the job fails.
MCResumed == <<MCSetup(r1, r2, TRUE, FALSE), MCSetup(r2, r2, TRUE, TRUE)>>

\* One attempt whose machine stays if it succeeds.
MCOnce == <<MCSetup(r1, r2, FALSE, FALSE)>>

\* A resume for one vendor of each way to choose the region of a machine.
MCPlans ==
  [vendor : {"alibaba-cloud", "tencent-cloud", "tianyi-cloud"}, setup : {MCResumed}]
    \cup [vendor : Vendors, setup : {MCOnce}]
=============================================================================
