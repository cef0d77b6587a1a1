---------------------------- MODULE MCAddressLists ----------------------------
(* Instances of the address lists for TLC. *)
EXTENDS AddressLists

\* The second of the providers is of version 1.
SecondIsV1 == {2}
================================================================================
