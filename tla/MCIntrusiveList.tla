---------------------------- MODULE MCIntrusiveList ----------------------------
(* Instances of the lists for TLC. *)
EXTENDS IntrusiveList, TLC

\* Lists, and items, are interchangeable.
ListSymmetry == Permutations(List) \cup Permutations(Item)
================================================================================
