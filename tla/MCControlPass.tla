----------------------------- MODULE MCControlPass -----------------------------
(* Instances of ControlPass for TLC. *)
EXTENDS ControlPass, TLC

CONSTANTS L, F, app, tool, d1, d2

OneBoard == {F}
TwoBoards == {L, F}
BoardSymmetry == Permutations(Boards)
NoBoards == {}
FollowerOnly == {F}
NoFrames == {}
Still == {0}

Throttle == [b \in Boards |-> {"throttle"}]
Either == [b \in Boards |-> {"balance", "throttle"}]
Follower == [b \in Boards |-> {"follower"}]
RigidRoles == [b \in Boards |-> {"leader", "follower"}]
Rover == [b \in Boards |-> IF b = L THEN {"leader"} ELSE {"follower"}]

\* What a leader board that is not modelled may send.
LeaderFrames ==
  [run : {TRUE}, fault : {FALSE}, role : {"leader"}, demand : {0, 2},
   lockdown : {FALSE}, digest : {d1}]
=============================================================================
