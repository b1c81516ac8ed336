------------------------------- MODULE Orders -------------------------------
(***************************************************************************)
(* Positions in the order in which a loop visits them.                     *)
(***************************************************************************)
EXTENDS Naturals, FiniteSets

\* The elements of a finite set of numbers, each once, in ascending order: a set of one
\* sequence.
Ascending(S) ==
  {s \in [1..Cardinality(S) -> S] :
     /\ {s[k] : k \in DOMAIN s} = S
     /\ \A j, k \in DOMAIN s : j < k => s[j] < s[k]}

=============================================================================
