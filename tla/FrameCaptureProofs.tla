-------------------------- MODULE FrameCaptureProofs ---------------------------
(****************************************************************************)
(* Sizes and resources of a capture, for any windows, desktops and width of *)
(* int: what is written stays in the buffer, what is read stays in the      *)
(* mapping, and a capture gives back what it took.                          *)
(*                                                                          *)
(* NothingHeld looks at two places of the code; CaptureInv says of every    *)
(* place what is held there.  For the sizes it ties the numbers kept in     *)
(* variables to the one product they come from, so that a step has to deal  *)
(* with one multiplication or one wrap at most.                             *)
(****************************************************************************)
EXTENDS FrameCapture, TLAPS

(* What the client holds at each place of save_frame and capture_frame. *)
HeldThere ==
  /\ cli = "created" => held = {"device"}
  /\ cli = "duplicated" => held = {"device", "duplication"}
  /\ cli = "acquired" => held = {"device", "duplication", "frame"}
  /\ cli = "staged" => held = {"device", "duplication", "frame", "staging"}
  /\ cli = "copying" => held = {"device", "staging", "mapping"}
  /\ cli = "returned" => held = IF ret = 0 THEN {"device", "staging"} ELSE {}
  /\ cli \in {"start", "loop", "exited", "died"} => held = {}

(* The buffer has the size of the window, and the copy has written whole lines *)
(* of the desktop.                                                           *)
ClientSizes ==
  /\ cli = "start" => alloc = NoBuffer
  /\ alloc = NoBuffer \/ alloc = BufferSize(window)
  /\ cli = "copying" /\ line > 0 => alloc # NoBuffer /\ wrote = 3 * (line * desk[1])
  /\ cli \notin {"copying", "exited", "died"} => line = 0

(* The mapping has the size of the channel's window, and so has a read. *)
ServerSizes ==
  /\ srv \in {"mapped", "reading"} =>
       /\ channel \in Windows
       /\ mapped = BufferSize(channel)
       /\ mapped \in 1..section
  /\ srv = "reading" => length = mapped

CaptureInv == TypeOK /\ HeldThere /\ ClientSizes /\ ServerSizes

--------------------------------------------------------------------------------
(* Arithmetic of the conversions. *)

(* A product of uint16_t is a natural number, and int holds some value of it. *)
LEMMA BufferSizeType ==
  ASSUME NEW win \in Nat \X Nat
  PROVE  Bytes(win) \in Nat /\ BufferSize(win) \in -Half..(Half - 1)
<1>1. Bytes(win) \in Nat
  BY DEF Bytes
<1>. QED
  BY <1>1, CaptureAssumption DEF BufferSize, AsInt

(* int holds what fits it. *)
LEMMA BufferSizeFits ==
  ASSUME NEW win \in Nat \X Nat, Bytes(win) < Half
  PROVE  BufferSize(win) = Bytes(win)
<1>1. Bytes(win) \in Nat
  BY DEF Bytes
<1>. QED
  BY <1>1, CaptureAssumption DEF BufferSize, AsInt

(* A conversion to DWORD keeps what is not negative, and wraps the rest. *)
LEMMA AsDwordType ==
  ASSUME NEW n \in Int
  PROVE  /\ AsDword(n) \in 0..(2 * Half - 1)
         /\ n \in 0..(Half - 1) => AsDword(n) = n
BY CaptureAssumption DEF AsDword

(* Fewer lines are fewer bytes. *)
LEMMA LinesGrow ==
  ASSUME NEW a \in Nat, NEW b \in Nat, NEW w \in Nat, a <= b
  PROVE  a * w \in Nat /\ b * w \in Nat /\ a * w <= b * w
OBVIOUS

(* Sizes of desktops, the one before the first capture included. *)
LEMMA DeskType == TypeOK => desk \in Nat \X Nat /\ window \in Nat \X Nat
BY CaptureAssumption DEF TypeOK

(* Before the first capture nothing is allocated, held or mapped. *)
LEMMA InitCapture == Init => CaptureInv
<1>. SUFFICES ASSUME Init PROVE CaptureInv
  OBVIOUS
<1>1. [0..((alloc \div 3) - 1) -> {NoPixel} \cup Nat \X Nat] = [{} -> {NoPixel} \cup Nat \X Nat]
  <2>1. 0..((alloc \div 3) - 1) = {}
    BY DEF Init, NoBuffer
  <2>. QED
    BY <2>1
<1>2. pixels \in [{} -> {NoPixel} \cup Nat \X Nat]
  BY DEF Init
<1>3. TypeOK
  BY <1>1, <1>2, CaptureAssumption DEF Init, TypeOK, Resource, NoBuffer
<1>. QED
  BY <1>3 DEF Init, CaptureInv, HeldThere, ClientSizes, ServerSizes

--------------------------------------------------------------------------------
(* The client's steps, one lemma for those of capture_frame and one for each   *)
(* of the others.                                                            *)

(* The types of what the pixels and sizes of a step are made of. *)
LEMMA AllocateCaptures == CaptureInv /\ Allocate => CaptureInv'
<1>. SUFFICES ASSUME CaptureInv, Allocate PROVE CaptureInv'
  OBVIOUS
<1>. USE DEF CaptureInv
<1>1. window \in Nat \X Nat
  BY DeskType
<1>2. BufferSize(window) \in -Half..(Half - 1)
  BY <1>1, BufferSizeType
<1>3. alloc' \in {NoBuffer} \cup 0..(Half - 1)
  BY <1>2 DEF Allocate
<1>4. pixels' \in [0..((alloc' \div 3) - 1) -> {NoPixel} \cup Nat \X Nat]
  BY DEF Allocate
<1>5. TypeOK'
  BY <1>3, <1>4 DEF Allocate, TypeOK, serverVars
<1>6. HeldThere'
  BY DEF Allocate, HeldThere
<1>7. ClientSizes'
  BY DEF Allocate, ClientSizes
<1>8. ServerSizes'
  BY DEF Allocate, ServerSizes, serverVars
<1>. QED
  BY <1>5, <1>6, <1>7, <1>8

(* capture_frame: nothing is copied yet, and each path leaves what its place  *)
(* says.                                                                     *)
LEMMA CaptureFrameCaptures ==
  CaptureInv /\ (CreateDevice \/ Duplicate \/ Acquire \/ Stage \/ TestMap) => CaptureInv'
<1>. SUFFICES ASSUME CaptureInv,
                     CreateDevice \/ Duplicate \/ Acquire \/ Stage \/ TestMap
              PROVE  CaptureInv'
  OBVIOUS
<1>. USE DEF CaptureInv, Goes, Ends, ReturnWith
<1>0. UNCHANGED <<window, alloc, output, serverVars, line, pixels, wrote>>
  BY DEF CreateDevice, Duplicate, Acquire, Stage, TestMap
<1>1. line = 0
  BY DEF CreateDevice, Duplicate, Acquire, Stage, TestMap, ClientSizes
<1>2. CASE CreateDevice
  <2>1. held' \subseteq Resource
    BY <1>2 DEF CreateDevice, TypeOK, Resource
  <2>2. ret' \in -5..0
    BY <1>2 DEF CreateDevice, TypeOK
  <2>3. desk' = desk
    BY <1>2 DEF CreateDevice
  <2>4. TypeOK'
    BY <1>0, <1>2, <2>1, <2>2, <2>3 DEF CreateDevice, TypeOK, serverVars
  <2>5. HeldThere'
    BY <1>2 DEF CreateDevice, HeldThere
  <2>. QED
    BY <1>0, <1>1, <1>2, <2>4, <2>5
    DEF CreateDevice, ClientSizes, ServerSizes, serverVars
<1>3. CASE Duplicate
  <2>1. held' \subseteq Resource
    BY <1>3 DEF Duplicate, TypeOK, Resource
  <2>2. ret' \in -5..0
    BY <1>3 DEF Duplicate, TypeOK
  <2>3. desk' = desk
    BY <1>3 DEF Duplicate
  <2>4. TypeOK'
    BY <1>0, <1>3, <2>1, <2>2, <2>3 DEF Duplicate, TypeOK, serverVars
  <2>5. HeldThere'
    BY <1>3 DEF Duplicate, HeldThere
  <2>. QED
    BY <1>0, <1>1, <1>3, <2>4, <2>5
    DEF Duplicate, ClientSizes, ServerSizes, serverVars
<1>4. CASE Acquire
  <2>1. line' \in 0..desk'[2]
    BY <1>0, <1>1, <1>4, CaptureAssumption DEF Acquire, TypeOK
  <2>2. desk' \in Desktops \cup {<<0, 0>>} /\ ret' \in -5..0
    BY <1>4 DEF Acquire, TypeOK
  <2>3. held' \subseteq Resource
    BY <1>4 DEF Acquire, TypeOK, Resource
  <2>4. TypeOK'
    BY <1>0, <1>4, <2>1, <2>2, <2>3 DEF Acquire, TypeOK, serverVars
  <2>5. HeldThere'
    BY <1>4 DEF Acquire, HeldThere
  <2>. QED
    BY <1>0, <1>1, <1>4, <2>4, <2>5
    DEF Acquire, ClientSizes, ServerSizes, serverVars
<1>5. CASE Stage
  <2>1. held' \subseteq Resource
    BY <1>5 DEF Stage, TypeOK, Resource
  <2>2. ret' \in -5..0
    BY <1>5 DEF Stage, TypeOK
  <2>3. desk' = desk
    BY <1>5 DEF Stage
  <2>4. TypeOK'
    BY <1>0, <1>5, <2>1, <2>2, <2>3 DEF Stage, TypeOK, serverVars
  <2>5. HeldThere'
    BY <1>5 DEF Stage, HeldThere
  <2>. QED
    BY <1>0, <1>1, <1>5, <2>4, <2>5
    DEF Stage, ClientSizes, ServerSizes, serverVars
<1>6. CASE TestMap
  <2>1. held' \subseteq Resource
    BY <1>6 DEF TestMap, TypeOK, Resource
  <2>2. ret' \in -5..0
    BY <1>6 DEF TestMap, TypeOK
  <2>3. desk' = desk
    BY <1>6 DEF TestMap
  <2>4. TypeOK'
    BY <1>0, <1>6, <2>1, <2>2, <2>3 DEF TestMap, TypeOK, serverVars
  <2>5. HeldThere'
    BY <1>6 DEF TestMap, HeldThere
  <2>. QED
    BY <1>0, <1>1, <1>6, <2>4, <2>5
    DEF TestMap, ClientSizes, ServerSizes, serverVars
<1>. QED
  BY <1>2, <1>3, <1>4, <1>5, <1>6

(* save_frame around the loop: Map, Unmap, or the end of the process. *)
LEMMA MapCaptures == CaptureInv /\ (MapTexture \/ UnmapTexture) => CaptureInv'
<1>. SUFFICES ASSUME CaptureInv, MapTexture \/ UnmapTexture PROVE CaptureInv'
  OBVIOUS
<1>. USE DEF CaptureInv, Ends
<1>0. UNCHANGED <<window, alloc, output, serverVars, desk, pixels, ret>>
  BY DEF MapTexture, UnmapTexture
<1>1. CASE MapTexture
  <2>1. TypeOK'
    BY <1>0, <1>1 DEF MapTexture, TypeOK, Resource, serverVars
  <2>2. HeldThere'
    BY <1>1 DEF MapTexture, HeldThere
  <2>. QED
    BY <1>0, <1>1, <2>1, <2>2 DEF MapTexture, ClientSizes, ServerSizes, serverVars
<1>2. CASE UnmapTexture
  <2>1. desk[2] \in Nat
    BY DeskType
  <2>2. TypeOK'
    BY <1>0, <1>2, <2>1 DEF UnmapTexture, TypeOK, Resource, serverVars
  <2>3. HeldThere'
    BY <1>2 DEF UnmapTexture, HeldThere
  <2>. QED
    BY <1>0, <1>2, <2>2, <2>3 DEF UnmapTexture, ClientSizes, ServerSizes, serverVars
<1>. QED
  BY <1>1, <1>2

(* One line of the copy. *)
LEMMA LineCaptures == CaptureInv /\ CopyLine => CaptureInv'
<1>. SUFFICES ASSUME CaptureInv, CopyLine PROVE CaptureInv'
  OBVIOUS
<1>. USE DEF CaptureInv
<1>0. /\ UNCHANGED <<window, alloc, output, serverVars, desk, ret>>
      /\ cli = "copying" /\ line < desk[2]
      /\ line \in Nat /\ desk[1] \in Nat /\ desk[2] \in Nat
  BY DeskType DEF CopyLine, Ends, TypeOK
<1>1. CASE alloc = NoBuffer /\ Ends("died")
  <2>1. TypeOK'
    BY <1>0, <1>1 DEF Ends, TypeOK, serverVars
  <2>2. HeldThere'
    BY <1>1 DEF Ends, HeldThere
  <2>. QED
    BY <1>0, <1>1, <2>1, <2>2 DEF Ends, ClientSizes, ServerSizes, serverVars
<1>2. CASE alloc # NoBuffer /\ line' = line + 1
  <2>1. /\ wrote' = 3 * (LineStart(line, desk[1]) + desk[1])
        /\ pixels' = [i \in DOMAIN pixels |->
                        LET x == i - LineStart(line, desk[1])
                        IN  IF x \in 0..(desk[1] - 1) THEN <<x, line>> ELSE pixels[i]]
        /\ UNCHANGED <<cli, held>>
    BY <1>0, <1>2 DEF CopyLine, Ends
  <2>2. wrote' = 3 * (line' * desk[1]) /\ wrote' \in Nat
    <3>1. LineStart(line, desk[1]) + desk[1] = (line + 1) * desk[1]
      BY <1>0 DEF LineStart
    <3>2. (line + 1) * desk[1] \in Nat
      BY <1>0, LinesGrow
    <3>. QED
      BY <1>2, <2>1, <3>1, <3>2, <1>0
  <2>3. pixels' \in [0..((alloc' \div 3) - 1) -> {NoPixel} \cup Nat \X Nat]
    <3>1. pixels \in [0..((alloc \div 3) - 1) -> {NoPixel} \cup Nat \X Nat]
      BY DEF TypeOK
    <3>2. \A i \in DOMAIN pixels : pixels'[i] \in {NoPixel} \cup Nat \X Nat
      <4>. SUFFICES ASSUME NEW i \in DOMAIN pixels
                    PROVE  pixels'[i] \in {NoPixel} \cup Nat \X Nat
        OBVIOUS
      <4>1. CASE i - LineStart(line, desk[1]) \in 0..(desk[1] - 1)
        <5>1. pixels'[i] = <<i - LineStart(line, desk[1]), line>>
          BY <2>1, <4>1
        <5>2. i - LineStart(line, desk[1]) \in Nat
          BY <4>1, <1>0
        <5>. QED
          BY <5>1, <5>2, <1>0
      <4>2. CASE i - LineStart(line, desk[1]) \notin 0..(desk[1] - 1)
        BY <2>1, <3>1, <4>2
      <4>. QED
        BY <4>1, <4>2
    <3>. QED
      BY <1>0, <2>1, <3>1, <3>2
  <2>4. TypeOK'
    BY <1>0, <1>2, <2>1, <2>2, <2>3 DEF TypeOK, serverVars
  <2>5. HeldThere'
    BY <1>0, <2>1 DEF HeldThere
  <2>6. ClientSizes' /\ ServerSizes'
    BY <1>0, <1>2, <2>1, <2>2 DEF ClientSizes, ServerSizes, serverVars
  <2>. QED
    BY <2>4, <2>5, <2>6
<1>. QED
  BY <1>1, <1>2 DEF CopyLine

(* The server's steps, and the environment's, leave the client alone. *)
LEMMA ServerCaptures ==
  CaptureInv /\ (OutputChanges \/ ReadChannel \/ MapFrame \/ PostRead) => CaptureInv'
<1>. SUFFICES ASSUME CaptureInv, OutputChanges \/ ReadChannel \/ MapFrame \/ PostRead
              PROVE  CaptureInv'
  OBVIOUS
<1>. USE DEF CaptureInv
<1>0. UNCHANGED clientVars
  BY DEF OutputChanges, ReadChannel, MapFrame, PostRead
<1>1. HeldThere' /\ ClientSizes'
  BY <1>0 DEF HeldThere, ClientSizes, clientVars
<1>2. channel \in Nat \X Nat
  BY CaptureAssumption DEF TypeOK
<1>3. /\ BufferSize(channel) \in -Half..(Half - 1)
      /\ AsDword(BufferSize(channel)) \in 0..(2 * Half - 1)
      /\ BufferSize(channel) >= 0 => AsDword(BufferSize(channel)) = BufferSize(channel)
  BY <1>2, BufferSizeType, AsDwordType
<1>4. CASE OutputChanges
  BY <1>0, <1>1, <1>4 DEF OutputChanges, TypeOK, ServerSizes, clientVars, serverVars
<1>5. CASE ReadChannel
  BY <1>0, <1>1, <1>5 DEF ReadChannel, TypeOK, ServerSizes, clientVars
<1>6. CASE MapFrame
  <2>1. section' \in Nat /\ mapped' \in 0..(Half - 1)
    BY <1>3, <1>6, CaptureAssumption, SMTT(20) DEF MapFrame, TypeOK
  <2>2. TypeOK'
    BY <1>0, <1>6, <2>1 DEF MapFrame, TypeOK, clientVars
  <2>3. srv' = "mapped" => channel \in Windows
    <3>. DEFINE none == <<0, 0>>
    <3>1. none \in Nat \X Nat /\ Bytes(none) = 0
      BY DEF Bytes
    <3>2. BufferSize(none) = 0
      BY <3>1, BufferSizeFits, CaptureAssumption
    <3>3. srv' = "mapped" => BufferSize(channel) # 0
      BY <1>6 DEF MapFrame
    <3>4. channel \in Windows \/ channel = none
      BY DEF TypeOK
    <3>. QED
      BY <3>2, <3>3, <3>4
  <2>4. ServerSizes'
    BY <1>6, <2>3 DEF MapFrame, ServerSizes
  <2>. QED
    BY <1>1, <2>2, <2>4
<1>7. CASE PostRead
  <2>1. BufferSize(channel) = mapped /\ mapped \in 1..section
    BY <1>7 DEF PostRead, ServerSizes
  <2>2. length' = mapped
    BY <1>3, <1>7, <2>1 DEF PostRead, TypeOK
  <2>3. TypeOK'
    BY <1>0, <1>3, <1>7 DEF PostRead, TypeOK, clientVars
  <2>4. ServerSizes'
    BY <1>7, <2>1, <2>2 DEF PostRead, ServerSizes
  <2>. QED
    BY <1>1, <2>3, <2>4
<1>. QED
  BY <1>4, <1>5, <1>6, <1>7

LEMMA StepCapture == CaptureInv /\ [Next]_vars => CaptureInv'
<1>. SUFFICES ASSUME CaptureInv, [Next]_vars PROVE CaptureInv'
  OBVIOUS
<1>1. CASE Next
  BY <1>1, AllocateCaptures, CaptureFrameCaptures, MapCaptures, LineCaptures,
     ServerCaptures DEF Next
<1>2. CASE UNCHANGED vars
  BY <1>2 DEF vars, clientVars, serverVars, CaptureInv, TypeOK, HeldThere,
              ClientSizes, ServerSizes
<1>. QED
  BY <1>1, <1>2

LEMMA CaptureInvariant == Spec => []CaptureInv
  BY InitCapture, StepCapture, PTL DEF Spec

--------------------------------------------------------------------------------
(* Types of the capture, for any sizes (client.cpp, server.cpp,              *)
(* dxgi-capturer.cpp).                                                       *)
THEOREM CaptureTyped == Spec => []TypeOK
<1>1. CaptureInv => TypeOK
  BY DEF CaptureInv
<1>. QED
  BY <1>1, CaptureInvariant, PTL

(* A capture gives back the frame and the duplication on every path           *)
(* (dxgi-capturer.cpp:39-77).                                                *)
THEOREM CaptureGivesBack == Spec => []NothingHeld
<1>1. CaptureInv => NothingHeld
  BY DEF CaptureInv, HeldThere, NothingHeld
<1>. QED
  BY <1>1, CaptureInvariant, PTL

(* A desktop with no more pixels than the window is copied within the buffer, *)
(* whatever the shapes are (client.cpp:60 and 125-136).                      *)
THEOREM CopyStaysInside == Spec => []WritesStayInside
<1>1. CaptureInv => WritesStayInside
  <2>. SUFFICES ASSUME CaptureInv, cli = "copying", line > 0, Fits(desk, window)
                PROVE  wrote <= alloc
    BY DEF WritesStayInside
  <2>1. desk \in Nat \X Nat /\ window \in Nat \X Nat /\ line \in 0..desk[2]
    BY DeskType DEF CaptureInv, TypeOK
  <2>2. alloc = Bytes(window)
    BY <2>1, BufferSizeFits DEF CaptureInv, ClientSizes, Fits
  <2>3. wrote = 3 * (line * desk[1])
    BY DEF CaptureInv, ClientSizes
  <2>4. line * desk[1] <= desk[2] * desk[1] /\ line * desk[1] \in Nat
    <3>1. line \in Nat /\ desk[2] \in Nat /\ desk[1] \in Nat /\ line <= desk[2]
      BY <2>1
    <3>. QED
      BY <3>1, LinesGrow
  <2>5. Bytes(desk) = 3 * (desk[2] * desk[1])
    BY <2>1 DEF Bytes
  <2>6. wrote <= Bytes(desk)
    BY <2>1, <2>3, <2>4, <2>5
  <2>. QED
    BY <2>1, <2>2, <2>3, <2>4, <2>6, BufferSizeType DEF Fits, Bytes
<1>. QED
  BY <1>1, CaptureInvariant, PTL

(* A read names what is mapped and what its client allocated, whatever the    *)
(* product wraps to (server.cpp:54-72 and 184).                              *)
THEOREM ReadIsWhole == Spec => []ReadStaysInside
<1>1. CaptureInv => ReadStaysInside
  BY DEF CaptureInv, TypeOK, ServerSizes, ClientSizes, ReadStaysInside
<1>. QED
  BY <1>1, CaptureInvariant, PTL
--------------------------------------------------------------------------------
(* FrameKeepsShape looks at the end of a copy; ShapeSoFar says it of the lines *)
(* copied so far, which is what a turn of the loop adds to.                    *)
ShapeSoFar ==
  cli = "copying" /\ desk[1] = window[1] /\ Fits(desk, window) =>
    \A x \in 0..(desk[1] - 1), y \in 0..(line - 1) :
      pixels[y * window[1] + x] = <<x, y>>

(* Where a pixel of line y goes: among those of the first lines, and before    *)
(* every later line (client.cpp:133).                                        *)
LEMMA PixelsAreInLines ==
  ASSUME NEW w \in Nat, NEW h \in Nat, NEW x \in 0..(w - 1), NEW y \in 0..(h - 1)
  PROVE  y * w + x \in 0..(h * w - 1)
<1>1. y + 1 <= h /\ y \in Nat /\ y + 1 \in Nat /\ x \in Nat /\ x < w
  OBVIOUS
<1>2. (y + 1) * w <= h * w /\ y * w \in Nat /\ h * w \in Nat
  BY <1>1, LinesGrow
<1>3. (y + 1) * w = y * w + w
  BY <1>1
<1>. QED
  BY <1>1, <1>2, <1>3

(* A turn of the loop copies its line to its place and leaves the lines       *)
(* before it alone.                                                          *)
LEMMA LineKeepsShape ==
  ASSUME CaptureInv, ShapeSoFar, CopyLine
  PROVE  ShapeSoFar'
<1>. SUFFICES ASSUME cli' = "copying", desk'[1] = window'[1], Fits(desk, window)',
                     NEW x \in 0..(desk'[1] - 1), NEW y \in 0..(line' - 1)
              PROVE  pixels'[y * window'[1] + x] = <<x, y>>
  BY DEF ShapeSoFar
<1>. DEFINE w == desk[1]  at == y * w + x
<1>1. /\ UNCHANGED <<window, desk, alloc>>
      /\ cli = "copying" /\ alloc # NoBuffer /\ line' = line + 1 /\ line < desk[2]
      /\ pixels' = [i \in DOMAIN pixels |->
                      LET z == i - LineStart(line, desk[1])
                      IN  IF z \in 0..(desk[1] - 1) THEN <<z, line>> ELSE pixels[i]]
  BY DEF CopyLine, Ends
<1>2. /\ desk \in Nat \X Nat /\ window \in Nat \X Nat /\ line \in Nat
      /\ w \in Nat /\ desk[2] \in Nat /\ window[2] \in Nat
      /\ w = window[1] /\ Fits(desk, window)
  BY <1>1, DeskType DEF CaptureInv, TypeOK, Fits
<1>3. x \in 0..(w - 1) /\ y \in 0..line /\ x \in Nat /\ y \in Nat
  BY <1>1, <1>2
<1>4. at \in DOMAIN pixels
  <2>1. at \in 0..(desk[2] * w - 1)
    BY <1>1, <1>2, <1>3, PixelsAreInLines
  <2>2. alloc = Bytes(window)
    BY <1>1, <1>2, BufferSizeFits DEF CaptureInv, ClientSizes, Fits
  <2>3. /\ window[1] * window[2] \in Nat /\ desk[2] * w \in Nat
        /\ desk[1] * desk[2] = desk[2] * w
    BY <1>2
  <2>4. alloc \div 3 = window[1] * window[2]
    BY <2>2, <2>3 DEF Bytes
  <2>5. desk[2] * w <= window[1] * window[2]
    BY <1>2, <2>3 DEF Fits, Bytes
  <2>6. DOMAIN pixels = 0..(window[1] * window[2] - 1)
    BY <2>4 DEF CaptureInv, TypeOK
  <2>. QED
    BY <2>1, <2>3, <2>5, <2>6
<1>5. y * w \in Nat /\ line * w \in Nat /\ at \in Nat
  BY <1>2, <1>3
<1>6. CASE y = line
  <2>1. at - LineStart(line, desk[1]) = x
    BY <1>3, <1>5, <1>6 DEF LineStart
  <2>. QED
    BY <1>1, <1>2, <1>3, <1>4, <1>6, <2>1
<1>7. CASE y # line
  <2>1. y \in 0..(line - 1)
    BY <1>2, <1>3, <1>7
  <2>2. at < line * w
    BY <1>2, <1>3, <1>5, <2>1, PixelsAreInLines
  <2>3. at - LineStart(line, desk[1]) \notin 0..(desk[1] - 1)
    BY <1>5, <2>2 DEF LineStart
  <2>4. pixels[at] = <<x, y>>
    BY <1>1, <1>2, <1>3, <2>1 DEF ShapeSoFar
  <2>. QED
    BY <1>1, <1>2, <1>4, <2>3, <2>4
<1>. QED
  BY <1>6, <1>7

(* Every other step copies nothing, or begins with no line copied. *)
LEMMA StepKeepsShape ==
  ASSUME CaptureInv, ShapeSoFar, [Next]_vars
  PROVE  ShapeSoFar'
<1>1. CASE CopyLine
  BY <1>1, LineKeepsShape
<1>2. CASE MapTexture
  <2>1. cli = "returned" /\ line' = line
    BY <1>2 DEF MapTexture, Ends
  <2>2. line' = 0
    BY <2>1 DEF CaptureInv, ClientSizes
  <2>. QED
    BY <2>2 DEF ShapeSoFar
<1>3. CASE \/ Allocate \/ CreateDevice \/ Duplicate \/ Acquire \/ Stage \/ TestMap
           \/ UnmapTexture
  <2>1. cli' # "copying"
    BY <1>3 DEF Allocate, CreateDevice, Duplicate, Acquire, Stage, TestMap,
                UnmapTexture, Goes, Ends, ReturnWith
  <2>. QED
    BY <2>1 DEF ShapeSoFar
<1>4. CASE OutputChanges \/ ReadChannel \/ MapFrame \/ PostRead \/ UNCHANGED vars
  <2>1. UNCHANGED clientVars
    BY <1>4 DEF OutputChanges, ReadChannel, MapFrame, PostRead, vars
  <2>. QED
    BY <2>1 DEF clientVars, ShapeSoFar, Fits
<1>. QED
  BY <1>1, <1>2, <1>3, <1>4 DEF Next

(* A desktop as wide as the window, and no larger, is in the buffer as a      *)
(* reader of the window's shape expects it, whatever was captured before      *)
(* (client.cpp:125-136, server.cpp:179-184).                                 *)
THEOREM CaptureKeepsShape == Spec => []FrameKeepsShape
<1>1. Init => ShapeSoFar
  BY DEF Init, ShapeSoFar
<1>2. CaptureInv /\ ShapeSoFar /\ [Next]_vars => ShapeSoFar'
  BY StepKeepsShape
<1>3. ShapeSoFar => FrameKeepsShape
  BY DEF ShapeSoFar, FrameKeepsShape
<1>. QED
  BY <1>1, <1>2, <1>3, CaptureInvariant, PTL DEF Spec
================================================================================
