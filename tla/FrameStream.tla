------------------------------ MODULE FrameStream ------------------------------
(****************************************************************************)
(* The capture stream: game-capturer/client.cpp and server.cpp.             *)
(*                                                                          *)
(* A client process captures the desktop, over and over, into one buffer it *)
(* registered for remote reading, byte after byte.  The server takes one    *)
(* connection request, maps a buffer of the same size under a name any      *)
(* process may know, and a detached thread pulls the client's buffer into   *)
(* it with RDMA reads, over and over.  Nothing synchronises the two loops:  *)
(* the copy and the read may interleave inside a row and inside a pixel.    *)
(*                                                                          *)
(* Most results of NetworkDirect calls are ignored by the code (hr, hr2,    *)
(* hr3 of the server, hr, hr2, hr4 of the client); here such a call may     *)
(* fail and the process goes on, as it does.  A null or indeterminate       *)
(* interface pointer is called next in that case: the process dies.         *)
(****************************************************************************)
EXTENDS Integers, Sequences

CONSTANTS
  Client,        \* client processes started against this server
  NoClient,      \* no session: the listener gave no connection request
  Bytes,          \* bytes of a frame (width * height * 3), in the order they are copied
  MaxCaptures,   \* bound: captures a client makes
  QueueDepth,    \* min(MaxCompletionQueueDepth, MaxReceiveQueueDepth)
  SyncFailure    \* may IND2QueuePair::Read refuse a request at the call?

ASSUME StreamAssumption ==
  /\ NoClient \notin Client
  /\ Bytes \in Nat \ {0}
  /\ MaxCaptures \in Nat
  /\ QueueDepth \in Nat \ {0}
  /\ SyncFailure \in BOOLEAN

VARIABLES
  cli,       \* where a client's main thread is
  region,    \* did the client's Register succeed, so that the token is valid
  cap,       \* captures the client has begun; 0 stands for what buf held before
  copied,    \* bytes of the current capture copied; Bytes between two frames
  buf,       \* the client's buffer: for each byte the capture it comes from
  conn,      \* the client's connection
  srv,       \* where the server's main thread is
  session,   \* the client whose request the server took
  sink,      \* did the server's Register succeed
  reader,    \* where the server's detached reader thread is
  posted,    \* reads posted on the queue pair and not completed
  placed,    \* bytes placed by the oldest of them
  cq,        \* the completion queue: statuses not yet taken
  view,      \* the shared mapping: for each byte the capture it comes from,
             \* or Foreign
  floor      \* history: frames complete at the client when the last read was posted

clientVars == <<cli, region, cap, copied, buf>>
readerVars == <<reader, posted, placed, cq, view, floor>>
vars == <<clientVars, conn, srv, session, sink, readerVars>>

Byte == 1..Bytes

(* What a byte of the mapping holds that another process put there. *)
Foreign == -1

(* The frames a client has completely written into its buffer. *)
Saved(c) == IF copied[c] = Bytes THEN cap[c] ELSE cap[c] - 1

CliState == {"init", "opened", "connecting", "completing", "saving", "exited"}
ConnState == {"none", "requested", "taken", "accepted", "up", "down"}
SrvState == {"init", "listening", "requested", "prepared", "accepting",
             "spinning", "exited"}
ReaderState == {"none", "posting", "waiting", "exited"}

Init ==
  /\ cli = [c \in Client |-> "init"]
  /\ region = [c \in Client |-> FALSE]
  /\ cap = [c \in Client |-> 0]
  /\ copied = [c \in Client |-> Bytes]
  /\ buf = [c \in Client |-> [b \in Byte |-> 0]]
  /\ conn = [c \in Client |-> "none"]
  /\ srv = "init"
  /\ session = NoClient
  /\ sink = FALSE
  /\ reader = "none"
  /\ posted = 0
  /\ placed = {}
  /\ cq = <<>>
  /\ view = [b \in Byte |-> 0]
  /\ floor = 0

--------------------------------------------------------------------------------
(* The client: Client::Client, Client::run and Client::save_frame. *)

(* A process that ends takes its connection with it. *)
ClientExits(c) ==
  /\ cli' = [cli EXCEPT ![c] = "exited"]
  /\ conn' = [conn EXCEPT ![c] = IF @ = "none" THEN @ ELSE "down"]

(* The constructor.  adapter is null when NdOpenAdapter fails (the address   *)
(* main could not resolve, say), and the next line calls through it.         *)
ClientOpen(c) ==
  /\ cli[c] = "init"
  /\ cli' \in {[cli EXCEPT ![c] = s] : s \in {"opened", "exited"}}
  /\ UNCHANGED <<region, cap, copied, buf, conn, srv, session, sink, readerVars>>

(* run up to Connect: the connector is bound, the buffer registered (hr2 is  *)
(* not looked at) and the request sent with the token in its private data.   *)
ClientConnect(c) ==
  /\ cli[c] = "opened"
  /\ cli' = [cli EXCEPT ![c] = "connecting"]
  /\ \E ok \in BOOLEAN : region' = [region EXCEPT ![c] = ok]
  /\ conn' = [conn EXCEPT ![c] = "requested"]
  /\ UNCHANGED <<cap, copied, buf, srv, session, sink, readerVars>>

(* Connect ends with an error, at any moment before the server's answer:     *)
(* refused, timed out, unreachable.  This result, hr3, is looked at.         *)
ConnectFails(c) ==
  /\ cli[c] = "connecting"
  /\ ClientExits(c)
  /\ UNCHANGED <<region, cap, copied, buf, srv, session, sink, readerVars>>

(* Connect completes once the server has called Accept. *)
ConnectCompletes(c) ==
  /\ cli[c] = "connecting"
  /\ conn[c] = "accepted"
  /\ cli' = [cli EXCEPT ![c] = "completing"]
  /\ UNCHANGED <<region, cap, copied, buf, conn, srv, session, sink, readerVars>>

(* CompleteConnect; hr4 is ignored, so the capture loop starts either way. *)
ClientCompletes(c) ==
  /\ cli[c] = "completing"
  /\ cli' = [cli EXCEPT ![c] = "saving"]
  /\ \/ conn[c] = "accepted" /\ conn' = [conn EXCEPT ![c] = "up"]
     \/ conn' = [conn EXCEPT ![c] = "down"]
  /\ UNCHANGED <<region, cap, copied, buf, srv, session, sink, readerVars>>

(* save_frame, capture_frame: a new texture is there and mapped. *)
StartFrame(c) ==
  /\ cli[c] = "saving"
  /\ copied[c] = Bytes
  /\ cap[c] < MaxCaptures
  /\ cap' = [cap EXCEPT ![c] = @ + 1]
  /\ copied' = [copied EXCEPT ![c] = 0]
  /\ UNCHANGED <<cli, region, buf, conn, srv, session, sink, readerVars>>

(* save_frame: capture_frame or Map failed, exit(EXIT_FAILURE). *)
CaptureFails(c) ==
  /\ cli[c] = "saving"
  /\ copied[c] = Bytes
  /\ ClientExits(c)
  /\ UNCHANGED <<region, cap, copied, buf, srv, session, sink, readerVars>>

(* save_frame: one store of the loops over y and x. *)
CopyByte(c) ==
  /\ cli[c] = "saving"
  /\ copied[c] < Bytes
  /\ copied' = [copied EXCEPT ![c] = @ + 1]
  /\ buf' = [buf EXCEPT ![c][copied[c] + 1] = cap[c]]
  /\ UNCHANGED <<cli, region, cap, conn, srv, session, sink, readerVars>>

(* The environment ends a client process, at any line. *)
ClientKilled(c) ==
  /\ cli[c] # "exited"
  /\ ClientExits(c)
  /\ UNCHANGED <<region, cap, copied, buf, srv, session, sink, readerVars>>

(* The network drops a connection; the capture loop never looks at it. *)
LinkLost(c) ==
  /\ conn[c] \in {"accepted", "up"}
  /\ conn' = [conn EXCEPT ![c] = "down"]
  /\ UNCHANGED <<clientVars, srv, session, sink, readerVars>>

--------------------------------------------------------------------------------
(* The server's main thread: Server::Server and Server::run. *)

(* The connection of the session, as the peer of an exiting process sees it. *)
DropSession ==
  conn' = IF session = NoClient THEN conn ELSE [conn EXCEPT ![session] = "down"]

(* The constructor; as in the client a failed NdOpenAdapter kills it. *)
ServerOpen ==
  /\ srv = "init"
  /\ srv' \in {"listening", "exited"}
  /\ UNCHANGED <<clientVars, conn, session, sink, readerVars>>

(* GetConnectionRequest and GetPrivateData: the request of c is taken. *)
TakeRequest(c) ==
  /\ srv = "listening"
  /\ conn[c] = "requested"
  /\ srv' = "requested"
  /\ session' = c
  /\ conn' = [conn EXCEPT ![c] = "taken"]
  /\ UNCHANGED <<clientVars, sink, readerVars>>

(* GetConnectionRequest fails.  hr is not looked at: the channel is read     *)
(* from an allocation nobody filled, which may fault or yield any size.      *)
TakeNothing ==
  /\ srv = "listening"
  /\ srv' \in {"requested", "exited"}
  /\ session' = NoClient
  /\ UNCHANGED <<clientVars, conn, sink, readerVars>>

(* The mapping is created and registered and the queue pair made.  A mapping *)
(* of that name another process holds open is opened instead, and keeps what *)
(* it holds.  Without a mapping, or through a queue pair that was not        *)
(* created, the process ends; a Register that failed goes unnoticed.         *)
PrepareSession ==
  /\ srv = "requested"
  /\ \/ /\ srv' = "prepared"
        /\ sink' \in BOOLEAN
        /\ \E x \in {0, Foreign} : view' = [b \in Byte |-> x]
        /\ UNCHANGED conn
     \/ /\ srv' = "exited"
        /\ DropSession
        /\ UNCHANGED <<sink, view>>
  /\ UNCHANGED <<clientVars, session, reader, posted, placed, cq, floor>>

(* Accept is called; it reaches the client if the request still stands. *)
Accept ==
  /\ srv = "prepared"
  /\ srv' = "accepting"
  /\ \/ UNCHANGED conn
     \/ /\ session # NoClient
        /\ conn[session] = "taken"
        /\ conn' = [conn EXCEPT ![session] = "accepted"]
  /\ UNCHANGED <<clientVars, session, sink, readerVars>>

\* A main thread that goes on to the next request once the reader runs.
LoopsToListen == "listening"

(* Where the main thread goes from there: into while (true) {}, for good. *)
AfterSpawn == "spinning"

(* Accept returns, hr3 is ignored, and the reader thread is detached. *)
SpawnReader ==
  /\ srv = "accepting"
  /\ session # NoClient => conn[session] # "accepted"
  /\ srv' = AfterSpawn
  /\ reader' = "posting"
  /\ UNCHANGED <<clientVars, conn, session, sink, posted, placed, cq, view, floor>>

(* Another process with the mapping open, a second server of the machine     *)
(* say, writes a byte of it.                                                 *)
OtherWrites(b) ==
  /\ srv \in {"prepared", "accepting", "spinning"}
  /\ view' = [view EXCEPT ![b] = Foreign]
  /\ UNCHANGED <<clientVars, conn, srv, session, sink, reader, posted, placed, cq, floor>>

--------------------------------------------------------------------------------
(* The server's reader thread, Server::read_frame and Server::wait, and the *)
(* adapter that executes the reads it posts.                                *)

Connected == session # NoClient /\ conn[session] = "up"
Readable == Connected /\ region[session] /\ sink

\* A read that names one byte too few.
ShortFrame == 1..(Bytes - 1)

(* The bytes one read covers: sge.BufferLength is the whole frame. *)
ReadLength == 1..Bytes

\* A read_frame that clears the mapping before it asks for the next frame.
PostAfterClear ==
  /\ reader = "posting"
  /\ posted < QueueDepth
  /\ posted' = posted + 1
  /\ floor' = IF session = NoClient THEN 0 ELSE Saved(session)
  /\ reader' = "waiting"
  /\ view' = [b \in Byte |-> 0]
  /\ UNCHANGED <<clientVars, conn, srv, session, sink, placed, cq>>

\* A read_frame that posts the next read without calling wait.
PostWithoutWait ==
  /\ reader = "posting"
  /\ posted < QueueDepth
  /\ posted' = posted + 1
  /\ floor' = IF session = NoClient THEN 0 ELSE Saved(session)
  /\ UNCHANGED <<clientVars, conn, srv, session, sink, reader, placed, cq, view>>

(* qp->Read takes the request; wait() is entered. *)
PostRead ==
  /\ reader = "posting"
  /\ posted < QueueDepth
  /\ posted' = posted + 1
  /\ floor' = IF session = NoClient THEN 0 ELSE Saved(session)
  /\ reader' = "waiting"
  /\ UNCHANGED <<clientVars, conn, srv, session, sink, placed, cq, view>>

(* qp->Read fails at the call: a line is printed and wait() entered all the  *)
(* same, with nothing under way that could complete.                         *)
PostRefused ==
  /\ reader = "posting"
  /\ SyncFailure \/ posted = QueueDepth
  /\ reader' = "waiting"
  /\ UNCHANGED <<clientVars, conn, srv, session, sink, posted, placed, cq, view, floor>>

(* The adapter places one byte of the oldest read, as it finds it. *)
TransferByte(b) ==
  /\ posted > 0
  /\ Readable
  /\ b \in ReadLength \ placed
  /\ placed' = placed \cup {b}
  /\ view' = [view EXCEPT ![b] = buf[session][b]]
  /\ UNCHANGED <<clientVars, conn, srv, session, sink, reader, posted, cq, floor>>

\* A read posted with ND_OP_FLAG_SILENT_SUCCESS.
SilentSuccess == cq

\* The completion queue after a read that succeeded: flags is 0.
Completed == Append(cq, "ok")

(* All bytes are placed: the oldest read completes. *)
CompleteRead ==
  /\ posted > 0
  /\ placed = ReadLength
  /\ posted' = posted - 1
  /\ placed' = {}
  /\ cq' = Completed
  /\ UNCHANGED <<clientVars, conn, srv, session, sink, reader, view, floor>>

(* The oldest read ends with an error: no connection, or a bad token. *)
FailRead ==
  /\ posted > 0
  /\ ~Readable
  /\ posted' = posted - 1
  /\ placed' = {}
  /\ cq' = Append(cq, "err")
  /\ UNCHANGED <<clientVars, conn, srv, session, sink, reader, view, floor>>

\* A wait() that does not look at res.Status.
IgnoreStatus(status) == FALSE

\* wait() ends the process on any status but ND_SUCCESS.
ExitsOn(status) == status # "ok"

(* wait(): GetResults yields a completion.  Success ends the wait and the    *)
(* thread loops to the next read; an error ends the process.                 *)
TakeResult ==
  /\ reader = "waiting"
  /\ cq # <<>>
  /\ cq' = Tail(cq)
  /\ IF ExitsOn(Head(cq))
     THEN /\ reader' = "exited"
          /\ srv' = "exited"
          /\ DropSession
     ELSE /\ reader' = "posting"
          /\ UNCHANGED <<srv, conn>>
  /\ UNCHANGED <<clientVars, session, sink, posted, placed, view, floor>>

--------------------------------------------------------------------------------
ClientStep(c) ==
  \/ ClientOpen(c)
  \/ ClientConnect(c)
  \/ ConnectFails(c)
  \/ ConnectCompletes(c)
  \/ ClientCompletes(c)
  \/ StartFrame(c)
  \/ CaptureFails(c)
  \/ CopyByte(c)
  \/ ClientKilled(c)
  \/ LinkLost(c)

ServerStep ==
  \/ ServerOpen
  \/ \E c \in Client : TakeRequest(c)
  \/ TakeNothing
  \/ PrepareSession
  \/ Accept
  \/ SpawnReader
  \/ \E b \in Byte : OtherWrites(b)

ReaderStep ==
  \/ PostRead
  \/ PostRefused
  \/ \E b \in Byte : TransferByte(b)
  \/ CompleteRead
  \/ FailRead
  \/ TakeResult

Next ==
  \/ \E c \in Client : ClientStep(c)
  \/ ServerStep
  \/ ReaderStep

Spec == Init /\ [][Next]_vars

(* The reader thread runs and the adapter carries out what is posted.        *)
(* Nothing is assumed of the clients or of the server's main thread.         *)
Fairness ==
  /\ WF_vars(PostRead)
  /\ \A b \in Byte : WF_vars(TransferByte(b))
  /\ WF_vars(CompleteRead)
  /\ WF_vars(FailRead)
  /\ WF_vars(TakeResult)

FairSpec == Spec /\ Fairness
--------------------------------------------------------------------------------
TypeOK ==
  /\ cli \in [Client -> CliState]
  /\ region \in [Client -> BOOLEAN]
  /\ cap \in [Client -> 0..MaxCaptures]
  /\ copied \in [Client -> 0..Bytes]
  /\ buf \in [Client -> [Byte -> 0..MaxCaptures]]
  /\ conn \in [Client -> ConnState]
  /\ srv \in SrvState
  /\ session \in Client \cup {NoClient}
  /\ sink \in BOOLEAN
  /\ reader \in ReaderState
  /\ posted \in 0..QueueDepth
  /\ placed \in SUBSET Byte
  /\ cq \in Seq({"ok", "err"})
  /\ view \in [Byte -> {Foreign} \cup 0..MaxCaptures]
  /\ floor \in 0..MaxCaptures

(* The reader never has two reads under way: a completion that wait() takes  *)
(* is the one of the read just posted, and neither queue can overrun, however *)
(* the connection fails (server.cpp:190-195 and 201-216).                    *)
OneReadInFlight ==
  /\ posted + Len(cq) <= 1
  /\ reader # "waiting" => posted = 0 /\ cq = <<>>

(* A thread in wait() that has no completion coming. *)
Hung == reader = "waiting" /\ posted = 0 /\ cq = <<>>

(* wait() has no exit but a completion (server.cpp:203-215).  A thread hangs   *)
(* in it only from a read on that was refused at the call, since the          *)
(* completion of an accepted one is not lost, whatever becomes of client and *)
(* connection; and then it hangs for good: the error that is printed is not   *)
(* followed by a return (server.cpp:190-195).                                *)
WaitIsAnswered ==
  [][(Hung' => Hung \/ reader = "posting") /\ (Hung => Hung')]_vars

(* When wait() has returned, every byte of the shared mapping is at least as  *)
(* new as the last frame that was complete when the read was posted, and     *)
(* comes from a capture that was begun, unless another process wrote it.  So *)
(* a read during which no capture starts shows one whole frame; any other    *)
(* may tear a row, and a pixel (client.cpp:127-138, server.cpp:177-199).     *)
FreshView ==
  reader = "posting" =>
    \A b \in Byte :
      \/ view[b] = Foreign
      \/ view[b] \in floor..(IF session = NoClient THEN 0 ELSE cap[session])

(* Only the client whose request was taken first ever gets past Connect: the  *)
(* main thread of the server does not come back (server.cpp:119-121).        *)
OnlySessionStreams ==
  \A c \in Client : cli[c] \in {"completing", "saving"} => session = c

(* The stream implements the byte-wise mirror. *)
Mirror == INSTANCE FrameMirror WITH
            latest <- IF session = NoClient THEN 0 ELSE cap[session]

(* Whatever the server and its client put into the shared mapping is a byte of *)
(* a capture begun, and never older than the byte of theirs it replaces; what *)
(* else is seen there another process wrote (client.cpp:104-139 against       *)
(* server.cpp:57-79 and 177-216).                                            *)
MirrorsBytes == Mirror!MirrorSpec

(* While the server runs and no read was refused, a frame saved by its client *)
(* is shown or superseded (server.cpp:112-118 and 177-216).                  *)
FrameIsShown ==
  \A c \in Client, n \in 1..MaxCaptures :
    (session = c /\ reader \in {"posting", "waiting"} /\ Saved(c) >= n)
      ~> (reader = "exited" \/ Hung \/ \A b \in Byte : view[b] >= n \/ view[b] = Foreign)

(* A session that cannot stream ends the server, whichever ignored result is   *)
(* the cause: no connection request was taken (hr), the mapping or the         *)
(* client's buffer is not registered (hr2), Accept failed (hr3), or client or  *)
(* connection were lost later.  The first read completes with an error and     *)
(* wait() exits, unless the read was refused (server.cpp:38-118 and 190-215).  *)
DeadSessionEndsServer ==
  (reader \in {"posting", "waiting"} /\ ~Readable) ~> (srv = "exited" \/ Hung)
================================================================================
