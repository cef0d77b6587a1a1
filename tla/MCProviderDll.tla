----------------------------- MODULE MCProviderDll -----------------------------
(* Instances of a provider for TLC. *)
EXTENDS ProviderCall, TLC

\* Threads are interchangeable.
ThreadSymmetry == Permutations(Thread)
================================================================================
