----------------------------- MODULE MCCentral -----------------------------
(***************************************************************************)
(* Two deltas packages of a component's outputs, at different origin     *)
(* timestamps, each of which the component may retract, sent by a        *)
(* component process whose sends and application calls may fail.        *)
(***************************************************************************)
EXTENDS Deliveries

MCPackages == {"p1", "p2"}

MCTS == [p \in MCPackages |-> IF p = "p1" THEN 1 ELSE 2]
=============================================================================
