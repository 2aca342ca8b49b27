----------------------------- MODULE MCDeployments -----------------------------
(* Deployments for TLC: one container of an earlier day, two requests. *)
EXTENDS Deployments

CONSTANTS shop, b1

MCDeployed == [k \in {b1} |-> shop]
===============================================================================
