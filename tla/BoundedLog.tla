------------------------------ MODULE BoundedLog ------------------------------
(***************************************************************************)
(* What the shell's log buffer promises: it keeps the most recent Size     *)
(* lines, in the order in which they were written.                         *)
(***************************************************************************)
EXTENDS Integers, Sequences

CONSTANTS
  Size,   \* lines kept
  Lines   \* lines that may be written

VARIABLE kept

Init == kept = <<>>

\* The sequence that remains when only the last Size of s are kept.
Recent(s) == IF Len(s) > Size THEN Tail(s) ELSE s

Write(x) == kept' = Recent(Append(kept, x))
Clear == kept' = <<>>

Next == Clear \/ \E x \in Lines : Write(x)

Spec == Init /\ [][Next]_kept
=============================================================================
