----------------------------- MODULE FrameCapture ------------------------------
(****************************************************************************)
(* One capture and the sizes around it: capture_frame of dxgi-capturer.cpp, *)
(* save_frame and the allocation of client.cpp, the mapping and the length  *)
(* of a read of server.cpp.                                                 *)
(*                                                                          *)
(* FrameStream has frames of one size and a capture that works or does not. *)
(* Here a capture is the calls it makes, each with its failure, and sizes   *)
(* are numbers: those of the window, which the buffers are made for, and of *)
(* the desktop, which is what is copied.  Products are computed in int.     *)
(****************************************************************************)
EXTENDS Integers

CONSTANTS
  Half,       \* int has the values -Half..Half-1, DWORD and ULONG 0..2*Half-1
  Windows,    \* windows a channel may name: <<width, height>> of two uint16_t
  Desktops,   \* sizes a desktop may have
  Sections    \* sizes of a mapping of that name somebody else holds; 0: none

Bytes(size) == 3 * (size[1] * size[2])

ASSUME CaptureAssumption ==
  /\ Half \in Nat \ {0}
  /\ Windows \subseteq Nat \X Nat
  /\ Desktops \subseteq (Nat \ {0}) \X (Nat \ {0})
  /\ \A d \in Desktops : Bytes(d) < Half   \* D3D11 has textures up to 16384
  /\ Sections \subseteq Nat

VARIABLES
  cli,       \* where the client's thread is, in save_frame and capture_frame
  window,    \* the window the client was started for
  alloc,     \* bytes of the registered buffer; NoBuffer is a null pointer
  held,      \* what the client holds of DXGI
  ret,       \* what capture_frame returned
  output,    \* does the graphics adapter have an output
  desk,      \* desc: the size of the frame that was acquired
  line,      \* lines of it copied
  pixels,    \* the buffer: for each pixel of it the place it was captured at
  wrote,     \* end of the bytes written by the current copy
  srv,       \* where the server's thread is
  channel,   \* the window the server reads out of the private data
  section,   \* size of the mapping of that name
  mapped,    \* bytes of it the server has in view and registered
  length     \* sge.BufferLength of its reads

clientVars == <<cli, window, alloc, held, ret, desk, line, pixels, wrote>>
serverVars == <<srv, channel, section, mapped, length>>
vars == <<clientVars, output, serverVars>>

NoBuffer == -1
NoPixel == <<>>

(* A product as int holds it, and an int converted to DWORD or ULONG. *)
AsInt(n) == ((n + Half) % (2 * Half)) - Half
AsDword(n) == n % (2 * Half)

(* width * height * 3, which both processes compute. *)
BufferSize(win) == AsInt(Bytes(win))

Init ==
  /\ cli = "start"
  /\ window \in Windows
  /\ alloc = NoBuffer
  /\ held = {}
  /\ ret = 0
  /\ output \in BOOLEAN
  /\ desk = <<0, 0>>
  /\ line = 0
  /\ pixels = <<>>
  /\ wrote = 0
  /\ srv = "start"
  /\ channel = <<0, 0>>
  /\ section \in Sections
  /\ mapped = 0
  /\ length = 0

--------------------------------------------------------------------------------
(* The client. *)

(* The process is gone: exit(EXIT_FAILURE), or a call through a null pointer.*)
(* The system takes back what it held.                                       *)
Ends(how) ==
  /\ cli' = how
  /\ held' = {}
  /\ UNCHANGED <<ret, desk, line, pixels, wrote>>

(* run: HeapAlloc, whose result is not looked at, and Connect, which may     *)
(* fail.  A negative product is a size_t no heap has room for.               *)
Allocate ==
  /\ cli = "start"
  /\ \/ alloc' = NoBuffer
     \/ BufferSize(window) >= 0 /\ alloc' = BufferSize(window)
  /\ pixels' = [i \in 0..((alloc' \div 3) - 1) |-> NoPixel]
  /\ cli' \in {"loop", "exited"}
  /\ UNCHANGED <<window, held, ret, desk, line, wrote, output, serverVars>>

(* capture_frame returns: its ComPtrs let go of what they hold, and a        *)
(* texture that is handed out keeps its device.  rest is what was left after *)
(* the calls of that path.                                                   *)
ReturnWith(code, rest) ==
  /\ cli' = "returned"
  /\ ret' = code
  /\ held' = rest \ (IF code = 0 THEN {"duplication"}
                     ELSE {"device", "duplication", "staging"})
  /\ UNCHANGED <<desk, line, pixels, wrote>>

Goes(to, now) ==
  /\ cli' = to
  /\ held' = now
  /\ UNCHANGED <<ret, desk, line, pixels, wrote>>

CreateDevice ==
  /\ cli = "loop"
  /\ Goes("created", held \cup {"device"}) \/ ReturnWith(-1, held)
  /\ UNCHANGED <<window, alloc, output, serverVars>>

(* EnumOutputs, whose result is not looked at, and DuplicateOutput: an       *)
(* output that is not there is called all the same.                          *)
Duplicate ==
  /\ cli = "created"
  /\ \/ output /\ Goes("duplicated", held \cup {"duplication"})
     \/ output /\ ReturnWith(-2, held)
     \/ ~output /\ Ends("died")
  /\ UNCHANGED <<window, alloc, output, serverVars>>

(* AcquireNextFrame, for a second at most, and GetDesc: the desktop may have *)
(* another size than at the last capture.                                    *)
Acquire ==
  /\ cli = "duplicated"
  /\ \/ /\ cli' = "acquired"
        /\ held' = held \cup {"frame"}
        /\ desk' \in Desktops
        /\ UNCHANGED <<ret, line, pixels, wrote>>
     \/ ReturnWith(-3, held)
  /\ UNCHANGED <<window, alloc, output, serverVars>>

(* CreateTexture2D of the staging texture, and CopyResource. *)
Stage ==
  /\ cli = "acquired"
  /\ \/ Goes("staged", held \cup {"staging"})
     \/ ReturnWith(-4, held \ {"frame"})
  /\ UNCHANGED <<window, alloc, output, serverVars>>

\* A return that forgets ReleaseFrame where the texture cannot be mapped.
TestMapKeeps ==
  /\ cli = "staged"
  /\ ReturnWith(0, held \ {"frame"}) \/ ReturnWith(-5, held)
  /\ UNCHANGED <<window, alloc, output, serverVars>>

(* Map and Unmap, to see whether it can be mapped; ReleaseFrame either way. *)
TestMap ==
  /\ cli = "staged"
  /\ \E code \in {0, -5} : ReturnWith(code, held \ {"frame"})
  /\ UNCHANGED <<window, alloc, output, serverVars>>

(* save_frame: a failed capture, or a texture that cannot be mapped now,     *)
(* ends the process.                                                         *)
MapTexture ==
  /\ cli = "returned"
  /\ \/ /\ ret = 0
        /\ cli' = "copying"
        /\ held' = held \cup {"mapping"}
        /\ UNCHANGED <<ret, desk, line, pixels, wrote>>
     \/ Ends("exited")
  /\ UNCHANGED <<window, alloc, output, serverVars>>

\* A copy that spaces the lines as the texture has them, in multiples of four.
PitchStart(y, width) == y * (4 * ((width + 3) \div 4))

(* Where line y of the desktop goes, in pixels: dst is buffer + y * width * 3. *)
LineStart(y, width) == y * width

(* One turn of the loop over y.  Nothing compares the desktop with the       *)
(* window; a buffer that is null is written to.                              *)
CopyLine ==
  /\ cli = "copying"
  /\ line < desk[2]
  /\ \/ /\ alloc # NoBuffer
        /\ line' = line + 1
        /\ wrote' = 3 * (LineStart(line, desk[1]) + desk[1])
        /\ pixels' = [i \in DOMAIN pixels |->
                        LET x == i - LineStart(line, desk[1])
                        IN  IF x \in 0..(desk[1] - 1) THEN <<x, line>> ELSE pixels[i]]
        /\ UNCHANGED <<cli, held, ret, desk>>
     \/ alloc = NoBuffer /\ Ends("died")
  /\ UNCHANGED <<window, alloc, output, serverVars>>

(* Unmap; the texture goes, and its device with it. *)
UnmapTexture ==
  /\ cli = "copying"
  /\ line = desk[2]
  /\ cli' = "loop"
  /\ held' = {}
  /\ line' = 0
  /\ wrote' = 0
  /\ UNCHANGED <<ret, desk, pixels>>
  /\ UNCHANGED <<window, alloc, output, serverVars>>

(* A monitor is plugged in or out; a capture under way keeps what it has. *)
OutputChanges ==
  /\ output' = ~output
  /\ UNCHANGED <<clientVars, serverVars>>

--------------------------------------------------------------------------------
(* The server. *)

(* The private data of the request, or what malloc left where there is none. *)
ReadChannel ==
  /\ srv = "start"
  /\ srv' = "told"
  /\ channel' \in Windows
  /\ UNCHANGED <<clientVars, output, section, mapped, length>>

\* A server that does not look at what MapViewOfFile returned.
MapUnchecked ==
  /\ srv = "told"
  /\ srv' = "mapped"
  /\ section' = IF section = 0 THEN AsDword(BufferSize(channel)) ELSE section
  /\ mapped' = IF BufferSize(channel) \in 1..section' THEN BufferSize(channel) ELSE 0
  /\ UNCHANGED <<clientVars, output, channel, length>>

(* CreateFileMapping gives the mapping of that name if there is one, with    *)
(* the size it has, and MapViewOfFile as much of it as there is, or nothing: *)
(* a size that was negative is more than any mapping has.                    *)
MapFrame ==
  /\ srv = "told"
  /\ \/ /\ BufferSize(channel) # 0
        /\ section' = IF section = 0 THEN AsDword(BufferSize(channel)) ELSE section
        /\ \/ /\ BufferSize(channel) \in 1..section'
              /\ srv' = "mapped"
              /\ mapped' = BufferSize(channel)
           \/ srv' = "exited" /\ UNCHANGED mapped
     \/ srv' = "exited" /\ UNCHANGED <<section, mapped>>
  /\ UNCHANGED <<clientVars, output, channel, length>>

(* read_frame computes the product anew, as ULONG, for each read. *)
PostRead ==
  /\ srv = "mapped"
  /\ srv' = "reading"
  /\ length' = AsDword(BufferSize(channel))
  /\ UNCHANGED <<clientVars, output, channel, section, mapped>>

--------------------------------------------------------------------------------
Next ==
  \/ Allocate
  \/ CreateDevice
  \/ Duplicate
  \/ Acquire
  \/ Stage
  \/ TestMap
  \/ MapTexture
  \/ CopyLine
  \/ UnmapTexture
  \/ OutputChanges
  \/ ReadChannel
  \/ MapFrame
  \/ PostRead

Spec == Init /\ [][Next]_vars
--------------------------------------------------------------------------------
Resource == {"device", "duplication", "frame", "staging", "mapping"}

TypeOK ==
  /\ cli \in {"start", "loop", "created", "duplicated", "acquired", "staged",
              "returned", "copying", "exited", "died"}
  /\ window \in Windows
  /\ alloc \in {NoBuffer} \cup 0..(Half - 1)
  /\ held \subseteq Resource
  /\ ret \in -5..0
  /\ output \in BOOLEAN
  /\ desk \in Desktops \cup {<<0, 0>>}
  /\ line \in 0..desk[2]
  /\ pixels \in [0..((alloc \div 3) - 1) -> {NoPixel} \cup Nat \X Nat]
  /\ wrote \in Nat
  /\ srv \in {"start", "told", "mapped", "reading", "exited"}
  /\ channel \in Windows \cup {<<0, 0>>}
  /\ section \in Nat
  /\ mapped \in 0..(Half - 1)
  /\ length \in 0..(2 * Half - 1)

(* A desktop that has no more pixels than the window, whose product int can  *)
(* hold. No line has to fit a line of the window.                            *)
Fits(d, win) == Bytes(d) <= Bytes(win) /\ Bytes(win) < Half

(* No line of a desktop that fits is written past the buffer, whatever shape  *)
(* the two have and however the desktop changes between captures             *)
(* (client.cpp:60 against 125-136, which nothing in the code compares).      *)
WritesStayInside ==
  cli = "copying" /\ line > 0 /\ Fits(desk, window) => wrote <= alloc

(* A read names no more than the server has in view, and what its client     *)
(* allocated if that is whose window it was told, for any window a channel   *)
(* can name: where the product wraps either nothing is mapped or all three   *)
(* sizes wrap to the same (client.cpp:60, server.cpp:54-72 and 184).         *)
ReadStaysInside ==
  srv = "reading" =>
    /\ length = mapped
    /\ length <= section
    /\ channel = window /\ alloc # NoBuffer => length = alloc

(* What a capture took of DXGI is given back on every path: a frame or a     *)
(* duplication still held would refuse the next DuplicateOutput, which every *)
(* capture asks for anew (dxgi-capturer.cpp:39-77, client.cpp:104-138).      *)
NothingHeld ==
  /\ cli = "loop" => held = {}
  /\ cli = "returned" => held = IF ret = 0 THEN {"device", "staging"} ELSE {}

(* After a capture of a desktop as wide as the window the buffer shows each   *)
(* pixel where a reader that knows the window only looks for it, whatever    *)
(* captures of other sizes left there before (client.cpp:125-136 against     *)
(* server.cpp:179-184).                                                      *)
FrameKeepsShape ==
  cli = "copying" /\ line = desk[2] /\ desk[1] = window[1] /\ Fits(desk, window) =>
    \A x \in 0..(desk[1] - 1), y \in 0..(desk[2] - 1) :
      pixels[y * window[1] + x] = <<x, y>>
================================================================================
