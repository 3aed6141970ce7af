----------------------------- MODULE MCDeployment -----------------------------
(* Instances of Deployment for TLC need no more than its constants. *)
EXTENDS Deployment
=============================================================================
