---------------------------- MODULE MCHomeFiles ----------------------------
(***************************************************************************)
(* Instances of HomeFiles for TLC.                                         *)
(***************************************************************************)
EXTENDS HomeFiles

CONSTANTS image, resume

\* CREATE TABLE has the column of runs, and those of routing_decisions; those of
\* attempts are added to every database.
MCColumns == <<image, resume>>
MCCreated == {image}
=============================================================================
