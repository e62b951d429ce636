---- MODULE MCDeployment ----
(* The deployments for TLC. *)
EXTENDS Deployment
====
