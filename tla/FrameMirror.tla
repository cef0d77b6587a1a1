------------------------------ MODULE FrameMirror ------------------------------
(****************************************************************************)
(* What the game capturer promises to a program that reads the shared       *)
(* mapping "game capturer" on the server: a byte the capturer puts there is *)
(* a byte of some capture the client has begun, never of an older one than  *)
(* the byte of its own it replaces.  Nothing is promised about two bytes    *)
(* belonging to the same capture: no lock, fence or generation number ties  *)
(* the client's writes to the server's reads.  And nothing keeps another    *)
(* process that opens the same name from writing there.                     *)
(****************************************************************************)
EXTENDS Integers

CONSTANT Bytes       \* bytes of a frame

VARIABLES
  latest,            \* captures begun so far; capture number 0 is "no capture"
  view               \* for each byte, the capture it was taken from, or -1 for
                     \* one that another process wrote

mirrorVars == <<latest, view>>

MirrorInit ==
  /\ latest = 0
  /\ view = [b \in 1..Bytes |-> 0]

(* The client begins one more capture. *)
BeginCapture ==
  /\ latest' = latest + 1
  /\ UNCHANGED view

(* A byte is replaced by the same byte of a capture that is not older. *)
RefreshByte(b) ==
  /\ \E n \in 0..latest : n >= view[b] /\ view' = [view EXCEPT ![b] = n]
  /\ UNCHANGED latest

(* Some bytes turn out to hold what another process wrote. *)
Overwritten(B) ==
  /\ view' = [b \in 1..Bytes |-> IF b \in B THEN -1 ELSE view[b]]
  /\ UNCHANGED latest

MirrorNext ==
  \/ BeginCapture
  \/ \E b \in 1..Bytes : RefreshByte(b)
  \/ \E B \in SUBSET (1..Bytes) : Overwritten(B)

MirrorSpec == MirrorInit /\ [][MirrorNext]_mirrorVars
================================================================================
