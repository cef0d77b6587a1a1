--------------------------- MODULE FrameStreamProofs ---------------------------
(* Proofs about the stream, for every set of clients, frame size, number of  *)
(* captures and queue depth, whether or not Read may refuse a request.       *)
EXTENDS FrameStream, SequenceTheorems, TLAPS

(* The buffer of a client holds its current capture down to the byte reached *)
(* and the capture before it from there on.                                 *)
BufferShape ==
  \A c \in Client :
    /\ copied[c] < Bytes => cap[c] > 0
    /\ \A b \in Byte : buf[c][b] = IF b <= copied[c] THEN cap[c] ELSE cap[c] - 1

(* Nothing is captured before the connection is up or given up. *)
CaptureLast ==
  \A c \in Client :
    /\ cli[c] \in {"init", "opened", "connecting", "completing"} => cap[c] = 0
    /\ conn[c] \in {"requested", "taken"} => cli[c] = "connecting"

(* Until the reader is detached there is no session data anywhere. *)
BeforeReader ==
  /\ srv \in {"init", "listening"} => session = NoClient
  /\ srv \in {"init", "listening", "requested", "prepared", "accepting"}
       => reader = "none"
  /\ srv \in {"init", "listening", "requested"} => \A b \in Byte : view[b] = 0
  /\ reader = "none" \/ session = NoClient
       => floor = 0 /\ \A b \in Byte : view[b] \in {0, Foreign}

(* The mapping is never ahead of the client's buffer. *)
ViewBehind ==
  session # NoClient => \A b \in Byte : view[b] <= buf[session][b]

(* A byte of the mapping is no older than the frame the client had saved when *)
(* the last read was posted, if this server wrote it.                        *)
SinceFloor(b) == view[b] = Foreign \/ view[b] >= floor

(* What the bytes of a read, finished or not, are known to be. *)
BytesSinceFloor ==
  /\ session # NoClient => floor <= Saved(session)
  /\ posted = 0 => placed = {}
  /\ \A b \in placed : SinceFloor(b)
  /\ reader = "posting" => \A b \in Byte : SinceFloor(b)
  /\ cq # <<>> /\ Head(cq) = "ok" => \A b \in Byte : SinceFloor(b)

StreamInv ==
  /\ TypeOK
  /\ OneReadInFlight
  /\ BufferShape
  /\ CaptureLast
  /\ BeforeReader
  /\ ViewBehind
  /\ BytesSinceFloor

(* What a byte may be is compared as a number throughout. *)
USE DEF Foreign, SinceFloor
--------------------------------------------------------------------------------
(* Nothing has been captured, posted or shown. *)
LEMMA InitInv == Init => StreamInv
<1>. SUFFICES ASSUME Init PROVE StreamInv
  OBVIOUS
<1>. USE StreamAssumption DEF Init, Byte
<1>1. cq = <<>> /\ cq \in Seq({"ok", "err"}) /\ Len(cq) = 0
  BY EmptySeq
<1>2. TypeOK
  <2>1. buf \in [Client -> [Byte -> 0..MaxCaptures]] /\ view \in [Byte -> {Foreign} \cup 0..MaxCaptures]
    OBVIOUS
  <2>2. region \in [Client -> BOOLEAN] /\ sink \in BOOLEAN
    BY Zenon
  <2>3. /\ cli \in [Client -> CliState] /\ conn \in [Client -> ConnState]
        /\ srv \in SrvState /\ reader \in ReaderState
    BY DEF CliState, ConnState, SrvState, ReaderState
  <2>4. cap \in [Client -> 0..MaxCaptures] /\ copied \in [Client -> 0..Bytes]
    OBVIOUS
  <2>. QED
    BY <1>1, <2>1, <2>2, <2>3, <2>4 DEF TypeOK
<1>3. BufferShape
  <2>. SUFFICES ASSUME NEW c \in Client
                PROVE  /\ copied[c] < Bytes => cap[c] > 0
                       /\ \A b \in Byte : buf[c][b] = IF b <= copied[c] THEN cap[c] ELSE cap[c] - 1
    BY DEF BufferShape
  <2>1. cap[c] = 0 /\ copied[c] = Bytes /\ \A b \in Byte : buf[c][b] = 0
    OBVIOUS
  <2>. QED
    BY <2>1
<1>4. OneReadInFlight
  BY <1>1 DEF OneReadInFlight
<1>5. CaptureLast
  BY DEF CaptureLast
<1>6. BeforeReader /\ ViewBehind /\ BytesSinceFloor
  BY <1>1 DEF BeforeReader, ViewBehind, BytesSinceFloor
<1>. QED
  BY <1>2, <1>3, <1>4, <1>5, <1>6 DEF StreamInv

(* A read under way leaves no room for a completion, and the other way round. *)
LEMMA OneOrTheOther ==
  ASSUME TypeOK, OneReadInFlight
  PROVE  /\ cq \in Seq({"ok", "err"})
         /\ posted > 0 => posted = 1 /\ cq = <<>>
         /\ cq # <<>> => posted = 0 /\ Len(cq) = 1
<1>. DEFINE n == Len(cq)
<1>1. cq \in Seq({"ok", "err"}) /\ posted \in Nat /\ posted + n <= 1
  BY StreamAssumption DEF TypeOK, OneReadInFlight
<1>2. n \in Nat /\ (cq # <<>> => n # 0)
  BY <1>1, EmptySeq, LenProperties
<1>. HIDE DEF n
<1>3. posted > 0 => posted = 1 /\ n = 0
  BY <1>1, <1>2
<1>4. n # 0 => posted = 0 /\ n = 1
  BY <1>1, <1>2
<1>. QED
  BY <1>1, <1>2, <1>3, <1>4 DEF n

(* Of the constructor only the type of cli is not immediate. *)
LEMMA ClientOpenKeepsInv ==
  ASSUME StreamInv, NEW c \in Client, ClientOpen(c)
  PROVE  StreamInv'
<1>1. PICK s \in {"opened", "exited"} : cli' = [cli EXCEPT ![c] = s]
  BY DEF ClientOpen
<1>2. cli' \in [Client -> CliState]
  BY <1>1 DEF StreamInv, TypeOK, CliState
<1>3. TypeOK'
  BY <1>2 DEF StreamInv, TypeOK, ClientOpen, readerVars, Byte
<1>9. OneReadInFlight' /\ BufferShape' /\ CaptureLast' /\ BeforeReader' /\ ViewBehind' /\ BytesSinceFloor'
  BY StreamAssumption DEF StreamInv, ClientOpen, readerVars, Byte, TypeOK, OneReadInFlight, BufferShape, CaptureLast,
     BeforeReader, ViewBehind, BytesSinceFloor, Saved
<1>. QED
  BY <1>3, <1>9 DEF StreamInv

(* A new capture leaves the buffer alone: what was the current capture is now
   the one before it, and what the client has saved does not change. *)
LEMMA StartFrameKeepsInv ==
  ASSUME StreamInv, NEW c \in Client, StartFrame(c)
  PROVE  StreamInv'
<1>. USE StreamAssumption DEF StreamInv, Byte
<1>1. /\ cap' = [cap EXCEPT ![c] = cap[c] + 1]
      /\ copied' = [copied EXCEPT ![c] = 0]
      /\ copied[c] = Bytes /\ cap[c] + 1 \in 0..MaxCaptures /\ cap[c] \in Nat
  BY DEF StartFrame, TypeOK
<1>2. TypeOK'
  <2>1. cap' \in [Client -> 0..MaxCaptures] /\ copied' \in [Client -> 0..Bytes]
    BY <1>1 DEF TypeOK
  <2>. QED
    BY <2>1 DEF TypeOK, StartFrame, readerVars
<1>3. BufferShape'
  <2>. SUFFICES ASSUME NEW d \in Client
                PROVE  /\ copied'[d] < Bytes => cap'[d] > 0
                       /\ \A b \in Byte : buf'[d][b] = IF b <= copied'[d] THEN cap'[d] ELSE cap'[d] - 1
    BY DEF BufferShape
  <2>0. /\ copied[d] < Bytes => cap[d] > 0
        /\ \A b \in Byte : buf[d][b] = IF b <= copied[d] THEN cap[d] ELSE cap[d] - 1
        /\ buf' = buf
    BY DEF BufferShape, StartFrame
  <2>1. CASE d = c
    <3>1. cap'[c] = cap[c] + 1 /\ copied'[c] = 0
      BY <1>1 DEF TypeOK
    <3>. QED
      BY <3>1, <2>0, <2>1, <1>1
  <2>2. CASE d # c
    BY <2>0, <2>2, <1>1 DEF TypeOK
  <2>. QED
    BY <2>1, <2>2
<1>4. BytesSinceFloor'
  <2>1. session # NoClient => Saved(session)' = Saved(session)
    BY <1>1 DEF Saved, TypeOK, StartFrame
  <2>. QED
    BY <2>1 DEF BytesSinceFloor, StartFrame, readerVars
<1>9. OneReadInFlight' /\ CaptureLast' /\ BeforeReader' /\ ViewBehind'
  BY StreamAssumption DEF StreamInv, StartFrame, readerVars, TypeOK, OneReadInFlight, BufferShape, CaptureLast,
     BeforeReader, ViewBehind, BytesSinceFloor, Saved
<1>. QED
  BY <1>2, <1>3, <1>4, <1>9 DEF StreamInv

(* A copied byte is of the current capture, so no byte of the buffer goes back
   and what the client has saved can only grow. *)
LEMMA CopyByteKeepsInv ==
  ASSUME StreamInv, NEW c \in Client, CopyByte(c)
  PROVE  StreamInv'
<1>. USE StreamAssumption DEF Byte
<1>. DEFINE y == copied[c] + 1
<1>0. TypeOK /\ BufferShape /\ ViewBehind /\ BytesSinceFloor
  BY DEF StreamInv
<1>1. /\ copied[c] \in Nat /\ y \in Byte /\ cap[c] \in 0..MaxCaptures /\ cap[c] > 0
      /\ copied'[c] = y /\ \A d \in Client \ {c} : copied'[d] = copied[d]
      /\ copied' \in [Client -> 0..Bytes]
  <2>1. /\ copied' = [copied EXCEPT ![c] = y] /\ copied \in [Client -> 0..Bytes]
        /\ copied[c] < Bytes /\ cap[c] \in 0..MaxCaptures
    BY <1>0 DEF CopyByte, TypeOK
  <2>2. copied[c] \in Nat /\ y \in Byte /\ y \in 0..Bytes
    BY <2>1
  <2>3. cap[c] > 0
    BY <1>0, <2>1 DEF BufferShape
  <2>. QED
    BY <2>1, <2>2, <2>3
<1>2. /\ buf' = [buf EXCEPT ![c] = [buf[c] EXCEPT ![y] = cap[c]]]
      /\ buf[c] \in [Byte -> 0..MaxCaptures]
  BY <1>0 DEF CopyByte, TypeOK
<1>. HIDE DEF y
<1>3. /\ buf'[c] = [buf[c] EXCEPT ![y] = cap[c]]
      /\ buf'[c][y] = cap[c]
      /\ \A b \in Byte \ {y} : buf'[c][b] = buf[c][b]
      /\ \A d \in Client \ {c} : buf'[d] = buf[d]
  BY <1>0, <1>1, <1>2 DEF TypeOK
<1>4. [buf[c] EXCEPT ![y] = cap[c]] \in [Byte -> 0..MaxCaptures]
  BY <1>1, <1>2
<1>5. TypeOK'
  <2>1. buf' \in [Client -> [Byte -> 0..MaxCaptures]]
    BY <1>0, <1>2, <1>4 DEF TypeOK
  <2>. QED
    BY <2>1, <1>0, <1>1 DEF TypeOK, CopyByte, readerVars
<1>6. BufferShape'
  <2>. SUFFICES ASSUME NEW d \in Client
                PROVE  /\ copied'[d] < Bytes => cap'[d] > 0
                       /\ \A b \in Byte : buf'[d][b] = IF b <= copied'[d] THEN cap'[d] ELSE cap'[d] - 1
    BY DEF BufferShape
  <2>0. /\ copied[d] < Bytes => cap[d] > 0
        /\ \A b \in Byte : buf[d][b] = IF b <= copied[d] THEN cap[d] ELSE cap[d] - 1
        /\ cap' = cap
    BY <1>0 DEF BufferShape, CopyByte
  <2>1. CASE d = c
    <3>1. ASSUME NEW b \in Byte
          PROVE  buf'[c][b] = IF b <= copied'[c] THEN cap'[c] ELSE cap'[c] - 1
      BY <1>1, <1>3, <2>0, <2>1 DEF y
    <3>. QED
      BY <3>1, <2>0, <2>1, <1>1
  <2>2. CASE d # c
    BY <2>0, <2>2, <1>1, <1>3
  <2>. QED
    BY <2>1, <2>2
<1>7. ViewBehind'
  <2>. SUFFICES ASSUME session # NoClient, NEW b \in Byte
                PROVE  view[b] <= buf'[session][b]
    BY DEF ViewBehind, CopyByte, readerVars
  <2>1. session \in Client /\ view[b] \in Int /\ view[b] <= buf[session][b]
    BY <1>0 DEF TypeOK, ViewBehind
  <2>2. CASE session = c /\ b = y
    <3>1. buf[c][y] <= cap[c]
      BY <1>0, <1>1 DEF BufferShape, y
    <3>. QED
      BY <2>1, <2>2, <3>1, <1>1, <1>2, <1>3
  <2>3. CASE ~(session = c /\ b = y)
    BY <2>1, <2>3, <1>3
  <2>. QED
    BY <2>2, <2>3
<1>8. BytesSinceFloor'
  <2>1. session # NoClient => /\ Saved(session) \in Int /\ Saved(session)' \in Int
                              /\ Saved(session) <= Saved(session)'
    <3>. SUFFICES ASSUME session # NoClient
                  PROVE  /\ Saved(session) \in Int /\ Saved(session)' \in Int
                         /\ Saved(session) <= Saved(session)'
      OBVIOUS
    <3>1. /\ session' = session /\ cap' = cap /\ session \in Client
          /\ cap[session] \in Nat /\ copied[session] \in Nat
      BY <1>0 DEF TypeOK, CopyByte
    <3>2. copied[session] = Bytes => copied'[session] = Bytes
      BY <3>1, <1>1 DEF CopyByte
    <3>. QED
      BY <3>1, <3>2 DEF Saved
  <2>2. session' = session /\ floor' = floor /\ floor \in Nat
    BY <1>0 DEF CopyByte, readerVars, TypeOK
  <2>3. session # NoClient => floor <= Saved(session)'
    BY <2>1, <2>2, <1>0 DEF BytesSinceFloor
  <2>. QED
    BY <2>2, <2>3, <1>0 DEF BytesSinceFloor, CopyByte, readerVars
<1>9. OneReadInFlight' /\ CaptureLast' /\ BeforeReader'
  BY StreamAssumption DEF StreamInv, CopyByte, readerVars, y, TypeOK, OneReadInFlight, BufferShape, CaptureLast,
     BeforeReader, ViewBehind, BytesSinceFloor, Saved
<1>. QED
  BY <1>5, <1>6, <1>7, <1>8, <1>9 DEF StreamInv

(* The mapping starts as zeros or as another process left it. *)
LEMMA PrepareKeepsInv ==
  ASSUME StreamInv, PrepareSession
  PROVE  StreamInv'
<1>. USE DEF StreamInv, Byte
<1>1. conn' \in [Client -> ConnState]
  BY DEF TypeOK, PrepareSession, DropSession, ConnState
<1>2. view' \in [Byte -> {Foreign} \cup 0..MaxCaptures]
  BY StreamAssumption DEF TypeOK, PrepareSession
<1>3. TypeOK'
  BY <1>1, <1>2 DEF TypeOK, PrepareSession, clientVars, SrvState
<1>4. /\ UNCHANGED <<cli, region, cap, copied, buf, session, reader, posted, placed, cq, floor>>
      /\ srv' \in {"prepared", "exited"} /\ reader = "none"
      /\ \A b \in Byte : view'[b] \in {0, Foreign}
  BY StreamAssumption DEF PrepareSession, clientVars, BeforeReader
<1>5. OneReadInFlight' /\ BufferShape' /\ BeforeReader'
  BY <1>4 DEF OneReadInFlight, BufferShape, BeforeReader
<1>6. CaptureLast'
  <2>1. \A c \in Client : conn'[c] \in {"requested", "taken"} => conn'[c] = conn[c]
    BY DEF PrepareSession, DropSession, TypeOK
  <2>. QED
    BY <1>4, <2>1 DEF CaptureLast
<1>7. ViewBehind'
  <2>. SUFFICES ASSUME session # NoClient, NEW b \in Byte
                PROVE  view'[b] <= buf[session][b]
    BY <1>4 DEF ViewBehind
  <2>1. session \in Client /\ buf[session] \in [Byte -> 0..MaxCaptures]
    BY DEF TypeOK
  <2>2. buf[session][b] \in Nat
    BY <2>1, StreamAssumption
  <2>. QED
    BY <1>4, <2>2 DEF Foreign
<1>8. BytesSinceFloor'
  <2>1. \A b \in Byte : view'[b] = Foreign \/ view'[b] >= floor'
    BY <1>4 DEF BeforeReader
  <2>2. session # NoClient => floor' <= Saved(session)'
    BY <1>4 DEF BytesSinceFloor, Saved
  <2>3. posted' = 0 => placed' = {}
    BY <1>4 DEF BytesSinceFloor
  <2>. QED
    BY <1>4, <2>1, <2>2, <2>3 DEF BytesSinceFloor, TypeOK
<1>. QED
  BY <1>3, <1>5, <1>6, <1>7, <1>8 DEF StreamInv

(* What another process writes is exempt from every bound, and the mapping is
   there by then. *)
LEMMA OtherWritesKeepsInv ==
  ASSUME StreamInv, NEW b \in Byte, OtherWrites(b)
  PROVE  StreamInv'
<1>. USE DEF StreamInv
<1>1. /\ view' = [view EXCEPT ![b] = Foreign]
      /\ srv \in {"prepared", "accepting", "spinning"}
      /\ UNCHANGED <<clientVars, conn, srv, session, sink, reader, posted, placed, cq, floor>>
  BY DEF OtherWrites
<1>2. TypeOK' /\ view'[b] = Foreign /\ \A q \in Byte \ {b} : view'[q] = view[q]
  BY <1>1 DEF TypeOK, clientVars
<1>3. OneReadInFlight' /\ BufferShape' /\ CaptureLast' /\ BeforeReader'
  BY <1>1, <1>2 DEF OneReadInFlight, BufferShape, CaptureLast, BeforeReader, clientVars
<1>4. ViewBehind'
  <2>1. session # NoClient => \A q \in Byte : buf[session][q] \in Nat
    BY DEF TypeOK
  <2>. QED
    BY <1>1, <1>2, <2>1 DEF ViewBehind, clientVars
<1>5. BytesSinceFloor'
  <2>1. session # NoClient => Saved(session)' = Saved(session)
    BY <1>1 DEF Saved, clientVars
  <2>. QED
    BY <1>1, <1>2, <2>1 DEF BytesSinceFloor, clientVars, TypeOK
<1>. QED
  BY <1>2, <1>3, <1>4, <1>5

(* A byte is taken from the buffer as it is, which is at least as new as the
   last frame saved, and that at least as new as when the read was posted. *)
LEMMA TransferByteKeepsInv ==
  ASSUME StreamInv, NEW b \in Byte, TransferByte(b)
  PROVE  StreamInv'
<1>. USE StreamAssumption DEF Byte
<1>0. TypeOK /\ BufferShape /\ ViewBehind /\ BytesSinceFloor /\ OneReadInFlight
  BY DEF StreamInv
<1>1. /\ session \in Client /\ session' = session /\ buf' = buf /\ floor' = floor
      /\ buf[session] \in [Byte -> 0..MaxCaptures] /\ floor \in Nat
      /\ view' = [view EXCEPT ![b] = buf[session][b]] /\ placed' = placed \cup {b}
      /\ posted > 0 /\ posted' = posted /\ reader' = reader /\ cq' = cq
  BY <1>0 DEF TransferByte, Readable, Connected, TypeOK, clientVars
<1>2. /\ buf[session][b] \in 0..MaxCaptures /\ view'[b] = buf[session][b]
      /\ \A q \in Byte \ {b} : view'[q] = view[q]
      /\ \A q \in Byte : view[q] \in Int
  BY <1>0, <1>1 DEF TypeOK
<1>3. TypeOK'
  <2>1. view' \in [Byte -> {Foreign} \cup 0..MaxCaptures] /\ placed' \in SUBSET Byte
    BY <1>0, <1>1, <1>2 DEF TypeOK
  <2>. QED
    BY <2>1, <1>0 DEF TypeOK, TransferByte, clientVars
<1>4. ViewBehind'
  BY <1>0, <1>1, <1>2 DEF ViewBehind
<1>5. BytesSinceFloor'
  <2>0. /\ buf[session][b] = IF b <= copied[session] THEN cap[session] ELSE cap[session] - 1
        /\ copied[session] \in 0..Bytes /\ cap[session] \in Nat
    BY <1>0, <1>1 DEF BufferShape, TypeOK
  <2>1. Saved(session) <= buf[session][b] /\ Saved(session) \in Int
    BY <2>0 DEF Saved
  <2>2. view'[b] >= floor
    <3>1. session # NoClient /\ floor <= Saved(session)
      BY <1>0, <1>1 DEF BytesSinceFloor
    <3>. QED
      BY <2>1, <3>1, <1>1, <1>2
  <2>3. Saved(session)' = Saved(session)
    BY DEF TransferByte, clientVars, Saved
  <2>4. reader # "posting" /\ cq = <<>>
    BY <1>0, <1>1, OneOrTheOther DEF OneReadInFlight
  <2>. QED
    BY <2>2, <2>3, <2>4, <1>0, <1>1, <1>2 DEF BytesSinceFloor
<1>6. OneReadInFlight' /\ BufferShape' /\ CaptureLast'
  BY DEF StreamInv, TransferByte, OneReadInFlight, BufferShape, CaptureLast, clientVars
<1>9. BeforeReader'
  BY <1>0, <1>1 DEF StreamInv, OneReadInFlight, BeforeReader, TransferByte
<1>. QED
  BY <1>3, <1>4, <1>5, <1>6, <1>9 DEF StreamInv

(* When all bytes are placed every byte is as new as the read demands. *)
LEMMA CompleteReadKeepsInv ==
  ASSUME StreamInv, CompleteRead
  PROVE  StreamInv'
<1>. USE StreamAssumption DEF StreamInv
<1>1. cq' = Append(cq, "ok") /\ posted > 0
  BY DEF CompleteRead, Completed
<1>2. cq = <<>> /\ posted = 1 /\ cq \in Seq({"ok", "err"})
  BY <1>1, OneOrTheOther
<1>3. /\ cq' \in Seq({"ok", "err"})
      /\ Len(cq') = 1
  BY <1>1, <1>2, AppendProperties
<1>4. TypeOK'
  <2>1. posted' \in 0..QueueDepth /\ placed' \in SUBSET Byte
    BY DEF TypeOK, CompleteRead
  <2>. QED
    BY <1>3, <2>1 DEF TypeOK, CompleteRead, clientVars
<1>5. OneReadInFlight'
  <2>1. posted' = 0 /\ reader' = reader /\ reader = "waiting"
    BY <1>1, <1>2 DEF CompleteRead, OneReadInFlight
  <2>. QED
    BY <1>3, <2>1 DEF OneReadInFlight
<1>6. BytesSinceFloor'
  <2>1. placed' = {} /\ view' = view /\ floor' = floor /\ reader' = reader
    BY DEF CompleteRead
  <2>2. \A b \in Byte : SinceFloor(b)
    BY DEF CompleteRead, ReadLength, Byte, BytesSinceFloor
  <2>3. session' = session /\ (session # NoClient => Saved(session)' = Saved(session))
    BY DEF CompleteRead, clientVars, Saved
  <2>. QED
    BY <2>1, <2>2, <2>3 DEF BytesSinceFloor, Byte
<1>9. BufferShape' /\ CaptureLast' /\ BeforeReader' /\ ViewBehind'
  BY DEF CompleteRead, BufferShape, CaptureLast, BeforeReader, ViewBehind, Byte, clientVars
<1>. QED
  BY <1>4, <1>5, <1>6, <1>9

(* A read that failed promises nothing about its bytes. *)
LEMMA FailReadKeepsInv ==
  ASSUME StreamInv, FailRead
  PROVE  StreamInv'
<1>. USE StreamAssumption DEF StreamInv
<1>1. cq' = Append(cq, "err") /\ posted > 0
  BY DEF FailRead
<1>2. cq = <<>> /\ posted = 1 /\ cq \in Seq({"ok", "err"})
  BY <1>1, OneOrTheOther
<1>3. /\ cq' = <<"err">>
      /\ cq' \in Seq({"ok", "err"})
      /\ Len(cq') = 1 /\ Head(cq') = "err"
  BY <1>1, <1>2, AppendProperties
<1>4. TypeOK'
  <2>1. posted' \in 0..QueueDepth /\ placed' \in SUBSET Byte
    BY DEF TypeOK, FailRead
  <2>. QED
    BY <1>3, <2>1 DEF TypeOK, FailRead, clientVars
<1>5. OneReadInFlight'
  <2>1. posted' = 0 /\ reader' = reader /\ reader = "waiting"
    BY <1>1, <1>2 DEF FailRead, OneReadInFlight
  <2>. QED
    BY <1>3, <2>1 DEF OneReadInFlight
<1>6. BytesSinceFloor'
  <2>1. placed' = {} /\ view' = view /\ floor' = floor /\ reader' = reader
    BY DEF FailRead
  <2>2. session' = session /\ (session # NoClient => Saved(session)' = Saved(session))
    BY DEF FailRead, clientVars, Saved
  <2>. QED
    BY <2>1, <2>2, <1>3 DEF BytesSinceFloor, Byte
<1>9. BufferShape' /\ CaptureLast' /\ BeforeReader' /\ ViewBehind'
  BY DEF FailRead, BufferShape, CaptureLast, BeforeReader, ViewBehind, Byte, clientVars
<1>. QED
  BY <1>4, <1>5, <1>6, <1>9

(* Only after a read that succeeded does the thread go on to the next. *)
LEMMA TakeResultKeepsInv ==
  ASSUME StreamInv, TakeResult
  PROVE  StreamInv'
<1>. USE StreamAssumption DEF StreamInv, Byte
<1>1. cq \in Seq({"ok", "err"}) /\ cq # <<>> /\ cq' = Tail(cq) /\ Len(cq) = 1 /\ posted = 0
  BY OneOrTheOther DEF TakeResult
<1>2. cq' = <<>>
  BY <1>1, HeadTailProperties, EmptySeq
<1>3. Head(cq) \in {"ok", "err"}
  BY <1>1, HeadTailProperties
<1>4. TypeOK'
  <2>1. cq' \in Seq({"ok", "err"})
    BY <1>2, EmptySeq
  <2>2. conn' \in [Client -> ConnState]
    BY DEF TypeOK, TakeResult, DropSession, ConnState
  <2>3. reader' \in ReaderState /\ srv' \in SrvState
    BY DEF TypeOK, TakeResult, ReaderState, SrvState
  <2>. QED
    BY <2>1, <2>2, <2>3 DEF TypeOK, TakeResult, clientVars
<1>5. BytesSinceFloor'
  <2>1. reader' = "posting" => Head(cq) = "ok"
    BY <1>3 DEF TakeResult, ExitsOn
  <2>2. session' = session /\ floor' = floor /\ view' = view /\ posted' = posted /\ placed' = placed
    BY DEF TakeResult
  <2>3. session # NoClient => Saved(session)' = Saved(session)
    BY DEF TakeResult, clientVars, Saved
  <2>. QED BY <2>1, <2>2, <2>3, <1>1, <1>2 DEF BytesSinceFloor
<1>6. OneReadInFlight'
  <2>1. Len(cq') = 0
    BY <1>2, EmptySeq
  <2>2. posted' = 0
    BY <1>1 DEF TakeResult
  <2>. QED
    BY <1>2, <2>1, <2>2 DEF OneReadInFlight
<1>7. BufferShape' /\ ViewBehind'
  BY DEF BufferShape, ViewBehind, TakeResult, clientVars
<1>8. CaptureLast'
  BY DEF CaptureLast, TypeOK, TakeResult, DropSession, clientVars
<1>9. BeforeReader'
  BY DEF BeforeReader, TakeResult
<1>. QED
  BY <1>4, <1>5, <1>6, <1>7, <1>8, <1>9 DEF StreamInv
--------------------------------------------------------------------------------
(* The steps of a client and of the network under it. *)
LEMMA ClientStepInv ==
  ASSUME StreamInv, NEW c \in Client, ClientStep(c)
  PROVE  StreamInv'
<1>. USE StreamAssumption DEF StreamInv, TypeOK, OneReadInFlight, BufferShape,
    CaptureLast, BeforeReader, ViewBehind, BytesSinceFloor, Saved, Byte,
    CliState, ConnState, ClientExits, clientVars, readerVars
<1>1. CASE ClientOpen(c)
  BY <1>1, ClientOpenKeepsInv
<1>2. CASE ClientConnect(c)
  <2>1. TypeOK'
    <3>1. cli' \in [Client -> CliState] /\ conn' \in [Client -> ConnState]
      BY <1>2 DEF ClientConnect
    <3>2. region' \in [Client -> BOOLEAN]
      <4>1. region \in [Client -> BOOLEAN] /\ \E ok \in BOOLEAN : region' = [region EXCEPT ![c] = ok]
        BY <1>2 DEF ClientConnect
      <4>. QED
        BY <4>1
    <3>3. UNCHANGED <<cap, copied, buf, srv, session, sink, reader, posted, placed, cq, view, floor>>
      BY <1>2 DEF ClientConnect
    <3>. QED
      BY <3>1, <3>2, <3>3
  <2>2. OneReadInFlight' /\ BufferShape' /\ CaptureLast' /\ BeforeReader'
    BY <1>2 DEF ClientConnect
  <2>3. ViewBehind' /\ BytesSinceFloor'
    BY <1>2 DEF ClientConnect
  <2>. QED
    BY <2>1, <2>2, <2>3
<1>3. CASE ConnectFails(c)
  <2>1. TypeOK'
    BY <1>3 DEF ConnectFails
  <2>2. OneReadInFlight' /\ BufferShape' /\ CaptureLast' /\ BeforeReader'
    BY <1>3 DEF ConnectFails
  <2>3. ViewBehind' /\ BytesSinceFloor'
    BY <1>3 DEF ConnectFails
  <2>. QED
    BY <2>1, <2>2, <2>3
<1>4. CASE ConnectCompletes(c)
  BY <1>4 DEF ConnectCompletes
<1>5. CASE ClientCompletes(c)
  <2>1. TypeOK'
    BY <1>5 DEF ClientCompletes
  <2>2. OneReadInFlight' /\ BufferShape' /\ CaptureLast' /\ BeforeReader'
    BY <1>5 DEF ClientCompletes
  <2>3. ViewBehind' /\ BytesSinceFloor'
    BY <1>5 DEF ClientCompletes
  <2>. QED
    BY <2>1, <2>2, <2>3
<1>6. CASE StartFrame(c)
  BY <1>6, StartFrameKeepsInv
<1>7. CASE CaptureFails(c)
  <2>1. TypeOK'
    BY <1>7 DEF CaptureFails
  <2>2. OneReadInFlight' /\ BufferShape' /\ CaptureLast' /\ BeforeReader'
    BY <1>7 DEF CaptureFails
  <2>3. ViewBehind' /\ BytesSinceFloor'
    BY <1>7 DEF CaptureFails
  <2>. QED
    BY <2>1, <2>2, <2>3
<1>8. CASE CopyByte(c)
  BY <1>8, CopyByteKeepsInv
<1>9. CASE ClientKilled(c)
  <2>1. TypeOK'
    BY <1>9 DEF ClientKilled
  <2>2. OneReadInFlight' /\ BufferShape' /\ CaptureLast' /\ BeforeReader'
    BY <1>9 DEF ClientKilled
  <2>3. ViewBehind' /\ BytesSinceFloor'
    BY <1>9 DEF ClientKilled
  <2>. QED
    BY <2>1, <2>2, <2>3
<1>10. CASE LinkLost(c)
  BY <1>10 DEF LinkLost
<1>. QED
  BY <1>1, <1>2, <1>3, <1>4, <1>5, <1>6, <1>7, <1>8, <1>9, <1>10 DEF ClientStep

(* The steps of the server's main thread: none touches a read. *)
LEMMA ServerStepInv ==
  ASSUME StreamInv, ServerStep
  PROVE  StreamInv'
<1>. USE StreamAssumption DEF StreamInv, TypeOK, OneReadInFlight, BufferShape,
    CaptureLast, BeforeReader, ViewBehind, BytesSinceFloor, Saved, Byte,
    ConnState, SrvState, ReaderState, clientVars, readerVars
<1>1. ASSUME NEW c \in Client, TakeRequest(c)
      PROVE  StreamInv'
  <2>1. cap[c] = 0 /\ session = NoClient /\ floor = 0
    BY <1>1 DEF TakeRequest
  <2>2. ViewBehind' /\ BytesSinceFloor'
    <3>1. /\ reader = "none" /\ posted = 0 /\ cq = <<>> /\ placed = {}
          /\ \A b \in Byte : view[b] = 0 /\ floor = 0
      BY <1>1, <2>1 DEF TakeRequest
    <3>2. copied[c] = Bytes /\ \A b \in Byte : buf[c][b] = 0
      <4>1. copied[c] \in 0..Bytes /\ (copied[c] < Bytes => cap[c] > 0)
        OBVIOUS
      <4>2. copied[c] = Bytes
        BY <2>1, <4>1
      <4>. QED
        BY <2>1, <4>2
    <3>3. session' = c /\ Saved(c)' = 0
      BY <1>1, <2>1, <3>2 DEF TakeRequest
    <3>. QED
      BY <1>1, <3>1, <3>2, <3>3 DEF TakeRequest
  <2>3. TypeOK' /\ OneReadInFlight' /\ BufferShape' /\ CaptureLast' /\ BeforeReader'
    BY <1>1, <2>1 DEF TakeRequest
  <2>. QED
    BY <2>2, <2>3
<1>2. CASE ServerOpen
  BY <1>2 DEF ServerOpen
<1>3. CASE TakeNothing
  BY <1>3 DEF TakeNothing
<1>4. CASE PrepareSession
  BY <1>4, PrepareKeepsInv
<1>5. CASE Accept
  BY <1>5 DEF Accept
<1>6. CASE SpawnReader
  <2>1. /\ reader = "none" /\ posted = 0 /\ cq = <<>>
        /\ floor = 0 /\ \A b \in Byte : view[b] \in {0, Foreign}
    BY <1>6 DEF SpawnReader
  <2>2. TypeOK' /\ OneReadInFlight' /\ BufferShape' /\ CaptureLast' /\ ViewBehind'
    BY <1>6, <2>1 DEF SpawnReader, AfterSpawn
  <2>3. BeforeReader'
    BY <1>6, <2>1 DEF SpawnReader, AfterSpawn
  <2>4. BytesSinceFloor'
    BY <1>6, <2>1 DEF SpawnReader
  <2>. QED
    BY <2>2, <2>3, <2>4
<1>7. ASSUME NEW b \in Byte, OtherWrites(b)
      PROVE  StreamInv'
  BY <1>7, OtherWritesKeepsInv
<1>. QED
  BY <1>1, <1>2, <1>3, <1>4, <1>5, <1>6, <1>7 DEF ServerStep

(* The steps of the reader thread and of the adapter that serves it. *)
LEMMA ReaderStepInv ==
  ASSUME StreamInv, ReaderStep
  PROVE  StreamInv'
<1>. USE StreamAssumption DEF StreamInv, TypeOK, OneReadInFlight, BufferShape,
    CaptureLast, BeforeReader, ViewBehind, BytesSinceFloor, Saved, Byte,
    ReaderState, clientVars
<1>1. CASE PostRead
  <2>1. TypeOK' /\ BytesSinceFloor'
    BY <1>1 DEF PostRead
  <2>2. OneReadInFlight' /\ BufferShape' /\ CaptureLast' /\ BeforeReader' /\ ViewBehind'
    BY <1>1 DEF PostRead
  <2>. QED
    BY <2>1, <2>2
<1>2. CASE PostRefused
  BY <1>2 DEF PostRefused
<1>3. ASSUME NEW b \in Byte, TransferByte(b)
      PROVE  StreamInv'
  BY <1>3, TransferByteKeepsInv
<1>4. CASE CompleteRead
  BY <1>4, CompleteReadKeepsInv
<1>5. CASE FailRead
  BY <1>5, FailReadKeepsInv
<1>6. CASE TakeResult
  BY <1>6, TakeResultKeepsInv
<1>. QED
  BY <1>1, <1>2, <1>3, <1>4, <1>5, <1>6 DEF ReaderStep

(* What is known of the stream in every state. *)
THEOREM StreamInvariant == Spec => []StreamInv
<1>1. Init => StreamInv
  BY InitInv
<1>2. StreamInv /\ [Next]_vars => StreamInv'
  <2>. SUFFICES ASSUME StreamInv, [Next]_vars
                PROVE  StreamInv'
    OBVIOUS
  <2>1. CASE UNCHANGED vars
    BY <2>1 DEF vars, clientVars, readerVars, StreamInv, TypeOK, OneReadInFlight,
       BufferShape, CaptureLast, BeforeReader, ViewBehind, BytesSinceFloor, Saved
  <2>2. CASE Next
    BY <2>2, ClientStepInv, ServerStepInv, ReaderStepInv DEF Next
  <2>. QED
    BY <2>1, <2>2
<1>. QED
  BY <1>1, <1>2, PTL DEF Spec

(* Type correctness of the stream. *)
THEOREM StreamTyped == Spec => []TypeOK
<1>1. StreamInv => TypeOK
  BY DEF StreamInv
<1>. QED
  BY <1>1, StreamInvariant, PTL

(* The reader thread of server.cpp:177-216 never has two reads under way, so  *)
(* the completion wait() takes is the one of the read just posted.           *)
THEOREM ReadsAreSerial == Spec => []OneReadInFlight
<1>1. StreamInv => OneReadInFlight
  BY DEF StreamInv
<1>. QED
  BY <1>1, StreamInvariant, PTL

(* Whenever wait() has returned, no byte of the shared mapping is older than   *)
(* the last frame complete at the client when the read was posted, nor newer  *)
(* than the capture the client is in (client.cpp:97-139, server.cpp:177-216). *)
THEOREM ViewIsFresh == Spec => []FreshView
<1>1. StreamInv => FreshView
  <2>. SUFFICES ASSUME StreamInv, reader = "posting", NEW b \in Byte, view[b] # Foreign
                PROVE  view[b] \in floor..(IF session = NoClient THEN 0 ELSE cap[session])
    BY DEF FreshView
  <2>1. view[b] \in Nat /\ floor \in Nat /\ view[b] >= floor
    BY DEF StreamInv, TypeOK, BytesSinceFloor
  <2>2. CASE session = NoClient
    BY <2>1, <2>2 DEF StreamInv, BeforeReader
  <2>3. CASE session # NoClient
    <3>1. session \in Client /\ view[b] <= buf[session][b]
      BY <2>3 DEF StreamInv, TypeOK, ViewBehind
    <3>2. /\ cap[session] \in Nat /\ buf[session][b] \in Nat
          /\ buf[session][b] <= cap[session]
      <4>1. /\ cap[session] \in Nat
            /\ buf[session][b] = IF b <= copied[session] THEN cap[session] ELSE cap[session] - 1
        BY <3>1 DEF StreamInv, TypeOK, BufferShape
      <4>2. buf[session][b] \in Nat
        BY <3>1 DEF StreamInv, TypeOK
      <4>. QED
        BY <4>1, <4>2
    <3>. QED
      BY <2>1, <2>3, <3>1, <3>2
  <2>. QED
    BY <2>2, <2>3
<1>. QED
  BY <1>1, StreamInvariant, PTL

(* A thread that waits for a read that was refused has nothing to wait for    *)
(* ever after: only a wait that takes a completion ends, and only a read      *)
(* posted since could bring one.                                             *)
LEMMA RefusalIsFinal == StreamInv /\ [Next]_vars /\ Hung => Hung'
<1>. SUFFICES ASSUME StreamInv, [Next]_vars, Hung PROVE UNCHANGED <<reader, posted, cq>>
  BY DEF Hung
<1>0. reader = "waiting" /\ ~(posted > 0) /\ cq = <<>>
  BY DEF Hung
<1>1. ASSUME NEW c \in Client, ClientStep(c)
      PROVE  UNCHANGED <<reader, posted, cq>>
  BY <1>1 DEF ClientStep, ClientOpen, ClientConnect, ConnectFails, ConnectCompletes,
     ClientCompletes, StartFrame, CaptureFails, CopyByte, ClientKilled, LinkLost, readerVars
<1>2. CASE ServerStep
  BY <1>0, <1>2 DEF ServerStep, ServerOpen, TakeRequest, TakeNothing, PrepareSession,
     Accept, SpawnReader, OtherWrites, StreamInv, BeforeReader, readerVars
<1>3. CASE ReaderStep
  BY <1>0, <1>3 DEF ReaderStep, PostRead, PostRefused, TransferByte, CompleteRead, FailRead,
     TakeResult
<1>4. CASE UNCHANGED vars
  BY <1>4 DEF vars, readerVars
<1>. QED
  BY <1>1, <1>2, <1>3, <1>4 DEF Next

(* A read that was accepted is answered, one that was refused never: no step  *)
(* takes a completion away but the wait() it is for, and no wait() ends       *)
(* without one (server.cpp:190-216).                                         *)
THEOREM AcceptedReadIsAnswered == Spec => WaitIsAnswered
<1>1. StreamInv /\ [Next]_vars => (Hung' => Hung \/ reader = "posting")
  <2>. SUFFICES ASSUME StreamInv, [Next]_vars, Hung', reader # "posting"
                PROVE  Hung
    OBVIOUS
  <2>1. ASSUME NEW c \in Client, ClientStep(c)
        PROVE  UNCHANGED <<reader, posted, cq>>
    BY <2>1 DEF ClientStep, ClientOpen, ClientConnect, ConnectFails, ConnectCompletes,
       ClientCompletes, StartFrame, CaptureFails, CopyByte, ClientKilled, LinkLost, readerVars
  <2>2. CASE ServerStep
    <3>1. UNCHANGED <<reader, posted, cq>> \/ reader' = "posting"
      BY <2>2 DEF ServerStep, ServerOpen, TakeRequest, TakeNothing, PrepareSession, Accept,
         SpawnReader, OtherWrites, readerVars
    <3>. QED
      BY <3>1 DEF Hung
  <2>3. CASE PostRead \/ PostRefused \/ TakeResult
    BY <2>3 DEF PostRead, PostRefused, TakeResult, Hung
  <2>4. ASSUME NEW b \in Byte, TransferByte(b)
        PROVE  Hung
    BY <2>4 DEF TransferByte, Hung
  <2>5. CASE CompleteRead \/ FailRead
    <3>1. cq \in Seq({"ok", "err"})
      BY DEF StreamInv, TypeOK
    <3>2. cq' # <<>>
      BY <2>5, <3>1 DEF CompleteRead, FailRead, Completed
    <3>. QED
      BY <3>2 DEF Hung
  <2>6. CASE UNCHANGED vars
    BY <2>6 DEF vars, readerVars, Hung
  <2>. QED
    BY <2>1, <2>2, <2>3, <2>4, <2>5, <2>6 DEF Next, ReaderStep, Hung
<1>. QED
  BY <1>1, RefusalIsFinal, StreamInvariant, PTL DEF Spec, WaitIsAnswered

--------------------------------------------------------------------------------
(* Who the connection belongs to.  A connection that went past the request is *)
(* the session's, and a client past Connect once had it.                     *)
SessionInv ==
  \A c \in Client :
    conn[c] \in {"taken", "accepted", "up"} \/ cli[c] \in {"completing", "saving"}
      => session = c

(* Every step keeps the session's exclusive right to stream: the session is   *)
(* chosen once, in "listening", where nobody is past the request.            *)
LEMMA SessionStep ==
  ASSUME StreamInv, SessionInv, Next
  PROVE  SessionInv'
<1>. USE StreamAssumption DEF StreamInv, TypeOK, SessionInv
<1>1. ASSUME NEW c \in Client, ClientStep(c)
      PROVE  SessionInv'
  <2>1. CASE ClientOpen(c)
    BY <2>1 DEF ClientOpen
  <2>2. CASE ClientConnect(c)
    BY <2>2 DEF ClientConnect
  <2>3. CASE ConnectFails(c) \/ CaptureFails(c) \/ ClientKilled(c)
    BY <2>3 DEF ConnectFails, CaptureFails, ClientKilled, ClientExits
  <2>4. CASE ConnectCompletes(c)
    BY <2>4 DEF ConnectCompletes
  <2>5. CASE ClientCompletes(c)
    BY <2>5 DEF ClientCompletes
  <2>6. CASE StartFrame(c) \/ CopyByte(c)
    BY <2>6 DEF StartFrame, CopyByte
  <2>7. CASE LinkLost(c)
    BY <2>7 DEF LinkLost, clientVars
  <2>. QED
    BY <1>1, <2>1, <2>2, <2>3, <2>4, <2>5, <2>6, <2>7 DEF ClientStep
<1>2. CASE ServerStep
  <2>1. ASSUME NEW c \in Client, TakeRequest(c)
        PROVE  SessionInv'
    BY <2>1 DEF TakeRequest, BeforeReader, clientVars
  <2>2. CASE ServerOpen
    BY <2>2 DEF ServerOpen, clientVars
  <2>3. CASE TakeNothing
    BY <2>3 DEF TakeNothing, BeforeReader, clientVars
  <2>4. CASE PrepareSession
    BY <2>4 DEF PrepareSession, DropSession, clientVars
  <2>5. CASE Accept
    BY <2>5 DEF Accept, clientVars
  <2>6. CASE SpawnReader
    BY <2>6 DEF SpawnReader, clientVars
  <2>7. ASSUME NEW b \in Byte, OtherWrites(b)
        PROVE  SessionInv'
    BY <2>7 DEF OtherWrites, clientVars
  <2>. QED
    BY <1>2, <2>1, <2>2, <2>3, <2>4, <2>5, <2>6, <2>7 DEF ServerStep
<1>3. CASE ReaderStep
  BY <1>3 DEF ReaderStep, PostRead, PostRefused, TransferByte, CompleteRead, FailRead,
     TakeResult, DropSession, clientVars
<1>. QED
  BY <1>1, <1>2, <1>3 DEF Next

(* Only the client whose request the server took first ever gets past Connect *)
(* (server.cpp:119-121), however many clients there are.                     *)
THEOREM OneClientStreams == Spec => []OnlySessionStreams
<1>1. Init => SessionInv
  BY DEF Init, SessionInv
<1>2. StreamInv /\ SessionInv /\ [Next]_vars => SessionInv'
  <2>1. UNCHANGED vars /\ SessionInv => SessionInv'
    BY DEF vars, clientVars, SessionInv
  <2>. QED
    BY <2>1, SessionStep
<1>3. SessionInv => OnlySessionStreams
  BY DEF SessionInv, OnlySessionStreams
<1>. QED
  BY <1>1, <1>2, <1>3, StreamInvariant, PTL DEF Spec

--------------------------------------------------------------------------------
(* The state of the mirror before a read brings the first byte. *)
LEMMA MirrorStart == Init => Mirror!MirrorInit
BY DEF Init, Mirror!MirrorInit, Byte

(* A step that leaves the mapping and the session's capture alone is a stutter *)
(* of the mirror, a new capture begins one there, and a placed byte refreshes   *)
(* one.                                                                       *)
LEMMA MirrorStep ==
  ASSUME StreamInv, [Next]_vars
  PROVE  [Mirror!MirrorNext]_(Mirror!mirrorVars)
<1>. USE StreamAssumption
<1>0. TypeOK /\ BufferShape /\ CaptureLast /\ BeforeReader /\ ViewBehind
  BY DEF StreamInv
<1>. DEFINE new == IF session = NoClient THEN 0 ELSE cap[session]
<1>1. ASSUME view' = view, session' = session, cap' = cap
      PROVE  UNCHANGED Mirror!mirrorVars
  BY <1>1 DEF Mirror!mirrorVars
<1>2. ASSUME NEW c \in Client, ClientStep(c)
      PROVE  [Mirror!MirrorNext]_(Mirror!mirrorVars)
  <2>1. CASE StartFrame(c)
    <3>1. view' = view /\ session' = session /\ cap' = [cap EXCEPT ![c] = @ + 1]
      BY <2>1 DEF StartFrame, readerVars
    <3>2. CASE session = c
      <4>1. new' = new + 1
        BY <3>1, <3>2, <1>0 DEF TypeOK
      <4>2. Mirror!BeginCapture
        BY <3>1, <4>1 DEF Mirror!BeginCapture
      <4>. QED
        BY <4>2 DEF Mirror!MirrorNext
    <3>3. CASE session # c
      BY <3>1, <3>3, <1>0 DEF TypeOK, Mirror!mirrorVars
    <3>. QED
      BY <3>2, <3>3
  <2>2. CASE ~StartFrame(c)
    BY <1>1, <1>2, <2>2 DEF ClientStep, ClientOpen, ClientConnect, ConnectFails,
       ConnectCompletes, ClientCompletes, CaptureFails, CopyByte, ClientKilled, LinkLost,
       clientVars, readerVars
  <2>. QED
    BY <2>1, <2>2
<1>3. CASE ServerStep
  <2>1. ASSUME NEW c \in Client, TakeRequest(c)
        PROVE  UNCHANGED Mirror!mirrorVars
    <3>1. /\ session = NoClient /\ session' = c /\ cap' = cap /\ view' = view
          /\ cap[c] = 0
      BY <2>1, <1>0 DEF TakeRequest, BeforeReader, CaptureLast, clientVars, readerVars
    <3>. QED
      BY <3>1 DEF Mirror!mirrorVars
  <2>2. CASE TakeNothing
    BY <1>0, <1>1, <2>2 DEF TakeNothing, BeforeReader, clientVars, readerVars
  <2>3. CASE PrepareSession
    <3>1. session' = session /\ cap' = cap /\ view = [b \in Byte |-> 0]
      BY <1>0, <2>3 DEF TypeOK, BeforeReader, PrepareSession, clientVars
    <3>2. CASE view' = [b \in Byte |-> Foreign]
      <4>1. Mirror!Overwritten(1..Bytes)
        BY <3>1, <3>2 DEF Mirror!Overwritten, Byte
      <4>. QED
        BY <4>1 DEF Mirror!MirrorNext
    <3>3. CASE view' = view
      BY <1>1, <3>1, <3>3
    <3>. QED
      BY <2>3, <3>1, <3>2, <3>3 DEF PrepareSession
  <2>4. CASE ServerOpen \/ Accept \/ SpawnReader
    BY <1>1, <2>4 DEF ServerOpen, Accept, SpawnReader, clientVars, readerVars
  <2>5. ASSUME NEW b \in Byte, OtherWrites(b)
        PROVE  Mirror!Overwritten({b})
    BY <1>0, <2>5 DEF OtherWrites, Mirror!Overwritten, TypeOK, Byte, clientVars
  <2>6. \A b \in Byte : {b} \in SUBSET (1..Bytes)
    BY DEF Byte
  <2>. QED
    BY <1>3, <2>1, <2>2, <2>3, <2>4, <2>5, <2>6 DEF ServerStep, Mirror!MirrorNext
<1>4. CASE ReaderStep
  <2>1. ASSUME NEW b \in Byte, TransferByte(b)
        PROVE  Mirror!RefreshByte(b)
    <3>1. /\ session \in Client /\ session # NoClient
          /\ session' = session /\ cap' = cap
          /\ view' = [view EXCEPT ![b] = buf[session][b]]
      BY <2>1, <1>0 DEF TransferByte, Readable, Connected, TypeOK, clientVars
    <3>2. buf[session][b] \in 0..cap[session] /\ buf[session][b] >= view[b]
      <4>1. /\ buf[session][b] = IF b <= copied[session] THEN cap[session] ELSE cap[session] - 1
            /\ cap[session] \in Nat /\ buf[session][b] \in Nat
        BY <3>1, <1>0 DEF TypeOK, BufferShape
      <4>2. view[b] \in Int /\ view[b] <= buf[session][b]
        BY <3>1, <1>0 DEF TypeOK, ViewBehind
      <4>. QED
        BY <4>1, <4>2
    <3>. QED
      BY <3>1, <3>2 DEF Mirror!RefreshByte
  <2>2. CASE PostRead \/ PostRefused \/ CompleteRead \/ FailRead \/ TakeResult
    BY <1>1, <2>2 DEF PostRead, PostRefused, CompleteRead, FailRead, TakeResult, clientVars
  <2>. QED
    BY <1>4, <2>1, <2>2 DEF ReaderStep, Mirror!MirrorNext, Byte
<1>5. CASE UNCHANGED vars
  BY <1>1, <1>5 DEF vars, clientVars, readerVars
<1>. QED
  BY <1>2, <1>3, <1>4, <1>5 DEF Next

(* The capture stream implements the byte-wise mirror: over the whole life of *)
(* the server what it and its client put into the shared mapping is a byte of *)
(* a capture begun, never older than the one it replaces, though nothing      *)
(* synchronises the copy and the reads, and whoever else writes to the        *)
(* mapping (client.cpp:104-139 against server.cpp:57-79 and 177-216).        *)
THEOREM StreamMirrorsBytes == Spec => MirrorsBytes
<1>1. [](StreamInv) /\ [][Next]_vars => [][Mirror!MirrorNext]_(Mirror!mirrorVars)
  BY MirrorStep, PTL
<1>. QED
  BY <1>1, MirrorStart, StreamInvariant, PTL DEF Spec, MirrorsBytes, Mirror!MirrorSpec
================================================================================
