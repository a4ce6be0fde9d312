-------------------------- MODULE MCConfigService --------------------------
(* Instances of ConfigService for TLC. *)
EXTENDS ConfigService, FiniteSets

CONSTANTS k1, k2, small, large

TwoKeys == {k1, k2}
OneValue == {large}
MCSize == [v \in Value \cup {Tomb} |-> IF v = large THEN 2 ELSE 1]

Entry == [key : Key, val : Value \cup {Tomb}]
Singles == {<<e>> : e \in Entry}

\* Single writes and un-stores, pairs that write both keys or one key twice,
\* and a pair whose second entry does not decode.
MCRequests ==
  Singles
  \cup {<<e, f>> : e \in [key : {k1}, val : Value], f \in Entry}
  \cup {<<e, Bad>> : e \in [key : {k2}, val : Value]}
=============================================================================
