---------------------------- MODULE MCScheduler ----------------------------
(* Two replicas of the server. *)
EXTENDS Scheduler

CONSTANTS r1, r2

MCReplicas == {r1, r2}
============================================================================
