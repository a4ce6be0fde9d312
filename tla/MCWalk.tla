-------------------------------- MODULE MCWalk --------------------------------
(* Three nodes: a chain with the controller at its end, or a gateway with two neighbours. *)
EXTENDS Walk, TLC

CONSTANTS A, B, C

Wire(e, f) == (e :> f) @@ (f :> e)

ChainPeer == Wire(<<Host, 1>>, <<A, 1>>) @@ Wire(<<A, 2>>, <<B, 1>>) @@ Wire(<<B, 2>>, <<C, 1>>)
StarPeer == Wire(<<Host, 1>>, <<A, 1>>) @@ Wire(<<A, 2>>, <<B, 1>>) @@ Wire(<<A, 3>>, <<C, 1>>)

\* Every way for addresses to be missing or equal: a node has none, one that a node before it has,
\* or the next of those that the walk would give out.
AllStarts ==
  {s \in [Nodes -> 0 .. 3] : s[A] <= 1 /\ s[B] <= s[A] + 1 /\ s[C] <= 1 + IF s[A] < s[B] THEN s[B] ELSE s[A]}
===============================================================================
