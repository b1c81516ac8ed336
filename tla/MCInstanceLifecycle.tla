------------------------ MODULE MCInstanceLifecycle ------------------------
(***************************************************************************)
(* Instances of InstanceLifecycle for TLC.                                 *)
(***************************************************************************)
EXTENDS InstanceLifecycle, TLC

CONSTANTS i1, i2, op1, op2

Config(t, k) == [terminate |-> t, keep |-> k]

MCAllConfigs == {Config(t, k) : t, k \in BOOLEAN}
MCDefault    == {Config(TRUE, FALSE)}
MCInstanceSymmetry == Permutations({i1, i2})
=============================================================================
