-------------------------- MODULE MCLeaderElection --------------------------
(* Instances of LeaderElection for TLC.                                    *)
EXTENDS LeaderElection, TLC

CONSTANTS a, b, c, h1, h2

(* a and b share a machine; c, when there is one, runs on another.         *)
TwoHosts == [p \in Proc |-> IF p = c THEN h2 ELSE h1]
OneHost == [p \in Proc |-> h1]
=============================================================================
