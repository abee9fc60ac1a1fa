---------------------------- MODULE Invocations ----------------------------
(* The command runs that share a host: every clawstainer command is a      *)
(* process of its own, and nothing but state.json has a lock.              *)
CONSTANTS
  Invocation,   \* commands that run at the same time
  NoOne         \* none of them

ASSUME NoOneAssumption == NoOne \notin Invocation
=============================================================================
