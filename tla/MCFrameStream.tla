----------------------------- MODULE MCFrameStream -----------------------------
(* Instances of the stream for TLC: two clients compete for the server, and *)
(* either may be the one it takes.                                          *)
EXTENDS FrameStream, TLC

\* The clients are interchangeable; used only where no liveness is checked.
ClientSymmetry == Permutations(Client)
================================================================================
