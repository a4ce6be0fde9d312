------------------------------ MODULE MCStore ------------------------------
(* Instances of Store for TLC. *)
EXTENDS Store

CONSTANTS k1, k2, small, large

OneKey == {k1}
TwoKeys == {k1, k2}
OneValue == {large}
TwoValues == {small, large}

\* A two-cell value: what is full for one record is not for a smaller one.
MCSize == [v \in Value \cup {Tomb} |-> IF v = large THEN 2 ELSE 1]

=============================================================================
