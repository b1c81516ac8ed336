-------------------------- MODULE MCRunLifecycle --------------------------
(***************************************************************************)
(* Instances of RunLifecycle for TLC: a local-only provider, a provider of *)
(* object-store checkpoints and one that reads both.                       *)
(***************************************************************************)
EXTENDS RunLifecycle, TLC

CONSTANTS trainer, resumer1, resumer2, canceler1, canceler2,
          local, lambda, gcp, file, gs

MCReads2 == local :> {file} @@ gcp :> {file, gs}
MCReads3 == local :> {file} @@ gcp :> {gs} @@ lambda :> {file, gs}
=============================================================================
