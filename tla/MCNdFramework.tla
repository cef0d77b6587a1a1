---------------------------- MODULE MCNdFramework ----------------------------
(* Instances of the framework's lists for TLC. *)
EXTENDS NdFramework

\* Everything that may fail.
AllFaults == {"memory", "provider", "notify", "throw"}
================================================================================
