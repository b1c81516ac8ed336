---------------------------- MODULE MCRemoteLogs ----------------------------
(***************************************************************************)
(* Instances of RemoteLogs for TLC.                                        *)
(***************************************************************************)
EXTENDS RemoteLogs

CONSTANTS e1, e2
=============================================================================
