----------------------------- MODULE LineMirror -----------------------------
(***************************************************************************)
(* What an adapter owes to the log of a job: a local copy that grows in    *)
(* the order of the source, by whole lines if byLine, and loses and        *)
(* repeats nothing.  The source is a sequence of pieces, a line that was   *)
(* written in parts being several of them.                                 *)
(***************************************************************************)
EXTENDS Naturals, Sequences

CONSTANTS
  Pieces,   \* what a job can write
  Partial   \* a piece that does not end its line

VARIABLES source, copy, byLine

Init == source = <<>> /\ copy = <<>> /\ byLine \in BOOLEAN

Grow ==
  /\ \E p \in Pieces : source' = Append(source, p)
  /\ UNCHANGED <<copy, byLine>>

Catch(n) ==
  /\ n > Len(copy)
  /\ byLine => source[n] # Partial
  /\ copy' = SubSeq(source, 1, n)
  /\ UNCHANGED <<source, byLine>>

\* A job starts on another machine.
Restart == source' = <<>> /\ copy' = <<>> /\ byLine' \in BOOLEAN

Next == Grow \/ (\E n \in DOMAIN source : Catch(n)) \/ Restart

Spec == Init /\ [][Next]_<<source, copy, byLine>>

=============================================================================
