---------------------------- MODULE MCNdLifecycle ----------------------------
(* Instances of the framework's life for TLC. *)
EXTENDS NdLifecycle

\* Every thread may leave its bracket; strayed tells the runs in which none has.
AllOfThem == User
================================================================================
