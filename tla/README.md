# Verification of the game capturer

The repository holds a program that copies the desktop of one machine into a
shared mapping on another one over RDMA (`game-capturer/`, `dxgi-capturer/`),
and the NetworkDirect helper library it is linked with (`network-direct/`).
This directory holds TLA+ models of both, TLC configurations that check them on
small instances, and proofs for every instance.

## The system

| Part | Source | State | Operations | Interacts with |
|---|---|---|---|---|
| Client | `game-capturer/client.cpp` | connector, registered buffer, capture loop | constructor, `run`, `save_frame` | the server through the connection; the adapter reads its buffer behind its back |
| Server, main thread | `game-capturer/server.cpp` | listener, connector, mapping | constructor, `run` | starts and forgets the reader thread |
| Server, reader thread | `server.cpp:112-118, 177-216` | queue pair, completion queue | `read_frame`, `wait` | the adapter executes its reads; other processes look at the mapping |
| Launcher | `game-capturer/launcher.cpp` | none | `main` | `NdStartup`, one of client and server, `NdCleanup` |
| Capture | `dxgi-capturer/dxgi-capturer.cpp` | what it holds of DXGI during a call | `capture_frame` | DXGI; called by `save_frame` |
| Framework life | `ndfrmwrk.cpp:34-190, 916-1091` | `gInitializing`, `gpFramework`, `ghHeap`, `m_nRef` | `NdStartup`, `NdCleanup`, the entry points | all threads of the process and the adapters they have open |
| Framework lists | `ndfrmwrk.cpp:193-906` | `m_lock`, `m_hIocp`, `m_Ov`, provider and address lists | `ProcessUpdates`, four lookups, `FlushProvidersForUser` | Winsock's catalog and change notifications |
| Providers | `ndprov.cpp` | path, DLL handle and entry points, `m_Active` | `Init`, `GetClassObject`, `TryUnload`, two virtual calls in two versions, destructor | the provider DLL and its objects |
| Addresses | `ndaddr.cpp` | address, pointer to a provider | `Matches`, `CopySockaddr` | the framework's lists |
| Intrusive list | `list.h` | links inside the items | insert, remove, iterate | providers and addresses |

What is hard in it: the client writes the buffer and the adapter reads it with
nothing between them; most results of calls are stored and not looked at; two
of the loops never end; the framework is reached without a lock and deleted
under one; completions are polled outside the lock the lists are under.
PROJECT.json lists each hazard at its line.

## Correctness, part by part

| Part | What makes it correct | Where |
|---|---|---|
| Stream | at most one read under way; an accepted read is answered; what the mapping shows is never older than the last frame saved when the read was posted, and never goes back; a saved frame is shown; a session that cannot stream ends the server | `FrameStream`, `FrameMirror` |
| Capture and sizes | no line is written past the buffer, and each pixel goes where the reader looks for it, for the desktops the window allows; a read is no longer than what is mapped and registered, even where products wrap; every path gives the frame back | `FrameCapture` |
| Framework life | one framework at a time; the reference count is the number of startups not undone; a call between a startup and a cleanup meets a live, initialised framework, and so does an open adapter; every path gives heap, object and lock back, but a throw | `NdLifecycle` |
| Framework lists | one request per kind of notification; no change is lost; no address leads to a deleted provider, but after a throw; no provider goes while an adapter of it is open; calls return | `NdFramework` |
| Address lists | pointer and length of the one buffer agree, but after a second overflow; a rebuild lists every address once, whatever befalls the others; no lookup misses a provider that has the address; a user gets the whole list or a size that is enough | `AddressLists` |
| Providers | nobody calls into a DLL that is not in memory; references balance; the last call unloads, or the destructor; objects and heap blocks are given back on every path | `ProviderDll`, `ProviderCall` |
| Intrusive list | rings stay closed; operations act as on sequences; an item is in one list; removing while iterating is safe | `IntrusiveList` |

## Modules

Each module has one action per operation, handler or step of the code, named
after it where it has a name; PROJECT.json maps every definition to its lines.
Definitions under a `\*` comment that no action uses are plausible mistakes in
the definition after them: for every property there is one the runs find.

**`FrameStream`** (client.cpp, server.cpp; `launcher.cpp` starts one process of
it) and its abstract specification **`FrameMirror`**. Three kinds of process:
clients (`cli`, `cap`, `copied`, `buf`), the server's main thread (`srv`,
`session`, `sink`) and its detached reader thread (`reader`, with `posted`,
`placed` and `cq` for the adapter that executes the reads). A frame is `Bytes`
bytes, and a byte is marked with the number of the capture it comes from: that
is what tells a torn or old frame, row or pixel from a whole one. A byte is
copied in one step, in the order of the loops over y and x, and placed by RDMA
in one step, in any order, between any two steps of the others. The mapping has
a name any process may open: it may be there already, with what another process
left in it, and one that has it open may write a byte of it at any time
(`Foreign`, `OtherWrites`). `SyncFailure` allows `IND2QueuePair::Read` to be
refused at the call. Results the code ignores may be failures, after which the
process goes on as the code does. `while (true) {}` of the server's main thread
is undefined in C++; it is modelled as the compiler of the build files (cl.exe)
translates it, a loop that does not end. The loop over windows has one turn,
because the loop inside it does not end. Frames are of one size here.
`FrameMirror` says only: what the capturer puts into the mapping are bytes of
captures that have begun, none older than the one of its own it replaces;
anything else there another process wrote.

**`FrameCapture`** (dxgi-capturer.cpp; client.cpp:60-90 and 104-139;
server.cpp:44-87 and 177-190). The sizes `FrameStream` has none of, and the
calls inside its one step of a capture. `held` is what the client holds of
DXGI: device, duplication, frame, staging texture and mapping, which
`ReturnWith` lets go of as the ComPtrs do and ReleaseFrame and Unmap by hand.
`desk` may be another at every capture; `pixels` remembers for each pixel of
the buffer the place it was captured at, whatever was left there before.
`AsInt` and `AsDword` are the conversions of the products, at a width `2*Half`.
`section` is the mapping of the name "game capturer", which may be there
already with a size of somebody else's, which MapViewOfFile then maps no more
of than there is.

**`NdLifecycle`** (ndfrmwrk.cpp:34-190 and 916-1091). `gInitializing` is the
spin lock, `gpFramework` the object published, `fw` and `nRef` the life and
references of every object made, `obj` the object a thread is calling into,
`opened` the object whose OpenAdapter gave a thread the adapter it has open.
NdStartup is cut at each place another thread could look: entering, creating
heap and object, publishing, initialising, undoing, referencing. A thread in
`Stray` may also call the library outside a startup of its own, as `main` does
when the NdStartup whose result it ignores has failed, or clean up with its
adapter open; `strayed` remembers that one did, and what only disciplined
threads are owed is stated until then. `NewFailures` is what operator new may
do without memory: "null", as the code tests for, or "throws", as the
language's does.

**`NdFramework`** (ndfrmwrk.cpp:193-458, 609-906). `catalog`, `up` are the
system's truth; `providers`, `active`, `addrs` what the framework knows of it;
`armed` and `queued` where the OVERLAPPED of each kind of notification is;
`lock` is `m_lock`. A thread goes `poll` -> `got` -> (under the lock) `size`,
`enum`, `clear`, `collect`, `flush` -> `poll` ... -> `lookup`. WSCEnumProtocols
is taken to give the size needed when asked without a buffer. The point is the
gap between `got` and the lock. `Faults` are the allocations, enumerations,
providers and requests that may fail, and `failed` remembers that something did.
The `new` of ProcessProviderChange and BuildAddressList is tested for null and
throws as the language's does ("throw"): ~Lock gives m_lock back, the call ends,
FlushProviders is not reached, and a caller that catches goes on with lists that
were left half way. `torn` is set from a throw while the catalog is read to the
next time the addresses are emptied. In between providers that were marked
inactive still have addresses; a flush deletes them, and an OpenAdapter that
comes to one is `CallDeleted`, after which nothing is said of the process. An
address is abstracted to the provider that has it, a list to a set, a provider's
DLL to loaded or not.

**`AddressLists`** (ndfrmwrk.cpp:193-606, 814-885; ndaddr.cpp). What
`NdFramework` abstracts: the order of the providers, the one buffer (`cap`) and
length (`len`) that go from provider to provider, families, versions, the sizes
of lists in bytes, and the comparison of addresses. `1..N` are the providers
that are active. Each of them may get or lose an address at any moment; `amiss`
are those that did so too late for their list of this rebuild, or failed. A
provider compares what it needs with the length it is told, writes the length
used on success and the length needed on overflow; `outgrown` remembers that
the length is left from a second overflow. `BuildThrows` is the throw of
`NdFramework` seen from here: the rebuild ends, and the buffer, which only the
end of ProcessAddressChange frees, is lost. A user's question changes nothing,
so QueryAddressList, ResolveAddress, CheckAddress and OpenAdapter are operators
and the properties ask them every question there is. What an entry of the other
family has where `Matches` looks is the flow information of an IPv6 address, or
the zeros of sin_zero and then what the constructor left unwritten behind an
IPv4 one: `like` is any set of entries in which these bytes are by chance those
of the address asked for. A provider that refuses may answer ND_INVALID_ADDRESS,
as three paths of ndprov.cpp do, which is what the framework says that finds no
provider. An outcome of WSAIoctl is an answer or one of the errors
ResolveAddress tells apart.

**`ProviderDll`** (ndprov.cpp:97-176). GetClassObject and TryUnload step by
step, for threads that call them on one provider with what the comments say a
caller has to serialise, and no more (`Caller`). A handle is the number of the
load it came from, so a stale one can be told from a good one. What the loader
and the DLL do (`FreeLibrary`, the answer of DllCanUnloadNow: yes if no object
and no adapter of it is in use) is external. The framework's `m_lock` is
stricter than either value of `Caller`. `Destroy` is ~Provider, with the
FreeLibrary it does for itself: ~Framework deletes providers without asking the
DLL, also with adapters open. Nobody is in a call then, as `NdLifecycle` shows
of threads that keep to their brackets.

**`ProviderCall`** (ndprov.cpp:15-94 and 179-341) extends it with what is
around those steps: Init with its two heap blocks, the destructor, and the
calls of both versions with the objects they get (`held`, `next`): a class
factory and the provider object of version 1, the object of version 2 with
ResolveAddress before OpenAdapter. FreeLibrary may overwrite the error
GetLastError then returns, if it is the one that unloads the DLL: the call then
goes on through a pointer nobody wrote (`wild`), and nothing more is said of
that thread.
E_NOINTERFACE of version 1 is left out: the framework uses the version 1 list
for that interface only.

**`IntrusiveList`** (list.h; ndfrmwrk.cpp:888-906). Heads, items and their two
links, as the code has them: an item does not know which list it is in. The
sweep is the loop of FlushProviders, which removes items from the list it
iterates over.

`MC*` modules hold what only TLC needs (symmetry, values of constants);
`*Proofs` modules hold theorems, and **`Positions`** the induction over the
positions of a sequence that two of them use.

`ProviderCall` refines `ProviderDll`: each of its steps is one of the DLL's or
leaves it alone (`CallsUseTheDll`), so what holds of one holds of the other.
The rest meet in these places: `NdFramework` uses of a provider what
`ProviderDll` shows (an adapter keeps the DLL loaded) and of the lists what
`IntrusiveList` shows (sets that FlushProviders may prune while it iterates);
`AddressLists` is inside its steps `ClearAddresses` and `CollectFrom`;
`NdLifecycle` gives it a framework that is there during a call; `FrameCapture`
is inside the steps `StartFrame`, `CopyByte` and `PrepareSession` of
`FrameStream`, which uses only that NdOpenAdapter may fail.

## Runs

| Run | Instance | States | Shows |
|---|---|---|---|
| `stream` | 2 clients, 2 bytes, 3 captures, a read may be refused, another process may write | 133 966 | all properties of the stream, liveness included |
| `capture` | 8-bit int; 5 windows, of which 1 has no pixels and 2 wrap; 5 desktops; 3 mappings | 227 164 | writes inside the buffer, reads inside the mapping, shapes, resources |
| `lifecycle` | 3 threads, all may stray, 2 objects, new returns null or throws | 443 252 | references, heap, one framework, the bracket with adapters, the lock |
| `framework` | 2 threads, 2 providers, 2 changes, 1 adapter each, every fault | 1 216 340 | no change lost and why a lookup is stale until something fails; requests and adapters whatever fails, addresses until a throw; calls return |
| `framework_sync` | 2 threads, no change | - | finding: a lookup of unsynced lists |
| `framework_assert` | 1 thread, 1 change | - | finding: ASSERT(status == 0) |
| `rebuild` | 3 providers, addresses of three families, each may change at any moment, faults | 314 904 | where room is real, which providers are listed whole, answers whole, lookups that miss nobody |
| `rebuild_grows` | 2 providers, no faults | - | finding: more room told than allocated |
| `lookup_families` | 2 providers, an IPv4 and an IPv6 address | - | finding: a lookup across families |
| `dll` | 3 threads, 3 loads, 2 adapters, both versions, TryUnload alone | 73 926 | code stays loaded, references balance, nothing is left |
| `dll_opens` | 2 threads that call OpenAdapter concurrently | - | finding: the comment's promise does not hold |
| `lists` | 2 lists, 4 items | 185 | rings, sequences, sweeps |

Why the bounds are enough. Two clients are what it takes for one to be left out;
two bytes for a frame to be torn, and a row or a pixel in the same way; three
captures for a frame to be overtaken while it is read. Three threads make an
owner, one that waits and one that calls. The framework's faults and races are
between the thread that has a completion and one that has none, and between a
change before and a change after the catalog is read. With three providers the
second of them gets a buffer from the first and leaves one to the third. With
int of eight bits the products of small windows already fit, vanish, wrap to a
negative and wrap to a positive number, which is every way they can go at 32
bits; the desktops are smaller, of the same shape, turned, of the same width,
and larger. Two objects are a framework and the one after it. Sizes up to twice
`Dword` have every lower half, without and with an upper one; a `Dword` of 29 is
the least that has the size of an IPv6 address. `MaxCaptures`, `MaxInstances`,
`MaxChanges`, `MaxLoads` and `MaxAdapters` only cut runs short: each is a bound
in one guard, and the proofs hold for any value of it. Buffers of every size
within an address of the right one are tried; a size further away is refused, or
has room to spare, for the same reason. Symmetry is used only in runs without
liveness. Deadlock is checked but in `stream`, where clients stop at
`MaxCaptures` and may all have exited, `lifecycle`, where after a throw
everybody spins, `framework`, where a call through a deleted provider ends the
process, and `dll`, where a provider that is destroyed does nothing more. Types
are not checked by the runs: they are proved, for every module.

## Fairness

- `FrameStream!Fairness`: the reader thread and the adapter. The code starts the
  thread and never blocks it (wait() polls), and the adapter executes what is
  posted or fails it when the connection is gone. Nothing is assumed of
  clients, which may stop or be killed at any line, nor of the server's main
  thread. A read that was refused is one nobody executes, so the liveness
  properties end in `Hung` too, and `WaitIsAnswered` says that is final.
- `NdLifecycle!Fairness`: a thread inside the section runs. Entering it is not
  fair: a thread that spins may lose every race. `SectionIsLeft` ends in a throw
  too, which leaves the lock taken (`ThrowLocksOut`).
- `NdFramework!Fairness`: a thread inside ProcessUpdates or its lookup runs, and
  `m_lock` is a fair enough lock for that. The system need not change anything,
  and anything may fail on the way: `CallReturns` has no other condition.

## Proofs

The theorems hold for every value of the constants, under the assumptions the
modules state (finite sets where a count needs them). The obligations of a step
are one per action.

- `FrameStreamProofs`: `StreamInv` adds to the types and `OneReadInFlight` what
  the buffer looks like (bytes up to the one reached are of the current capture,
  the others of the one before), that the mapping is never ahead of the buffer
  byte by byte, and that bytes placed since the read was posted are no older
  than `floor` or another process's. From it: `ReadsAreSerial`, `ViewIsFresh`,
  `AcceptedReadIsAnswered`, and `StreamMirrorsBytes`: every step of the stream
  is a step of `FrameMirror` or leaves its state alone. `OneClientStreams` has
  an invariant of its own on who the connection belongs to.
- `FrameCaptureProofs`: `CaptureInv` says what is held at each step, that the
  buffer has the size of the window and the mapping that of the channel, and
  that a copy has written whole lines of the desktop. `CopyStaysInside` then
  needs that fewer lines are fewer bytes, `ReadIsWhole` that a product both
  processes compute alike is mapped only if it is positive. `ShapeSoFar` says of
  the lines copied so far what `CaptureKeepsShape` says of a whole copy; a turn
  of the loop keeps it because pixels of different lines have different places.
- `NdLifecycleProofs`: `LifeInv` says what the published object is at each stage
  of the section; it needs nothing of the threads, so `LifeIsSerial`,
  `HeapFollowsFramework`, `ReleaseAssertHolds` and `OnlyThrowsLockOut` hold with
  strays. `HolderInv` adds the count of holders and is kept until a thread
  strays: `ReferencesAreCounted`, `BracketProtects`.
- `NdFrameworkProofs`: `FrameInv` (types, the lock, one OVERLAPPED per kind,
  addresses within active providers outside a rebuild until the catalog is read
  in part) for any faults;
  `ChangeInv`, until something fails, says of each stage of a rebuild which
  differences to the system are still to come or already told: `WordIsKept`,
  `ChangesAreKept`. For `StalenessIsInHand` a second invariant says that while a
  thread that found the port empty has seen no change since, no completion is
  in the queue: of the places `WordIsKept` leaves for the word of a change, only
  the hands of another thread remain.
- `AddressListsProofs`: `ListsAreTyped`. `RoomStaysReal` needs no assumption:
  length and buffer agree after every step until a second overflow, and again
  once the buffer is replaced or freed; the run `rebuild_grows` shows that the
  exception is needed. `CompleteSoFar` says at every turn of a rebuild that the
  lists hold the addresses of the providers asked so far that are not `amiss`,
  each once and under its version, and nothing twice; at the end that is
  `RebuildsAreComplete`. From it follows `NobodyIsEverMissed`, for every set of
  entries of the other family that match and every way to refuse: the entry of a
  provider that is listed whole is one of those found, and OpenAdapter goes on
  until one succeeds. The run `lookup_families` shows that the converse, that
  what is found is there, does not hold. `QuestionsAreAnswered` is about any
  buffer whatever (the run tries sizes around the right one): what
  CountAddresses counts is what CopyAddressList writes, by induction over the
  positions of the list; `AnswersAreWhole` is that theorem for the sizes of the
  run. `ResolveTellsTheSize` is arithmetic on the two halves of a size; it is
  proved for the sizes the definition names, up to twice `Dword`, and every
  outcome of WSAIoctl.
- `ProviderProofs`, if TryUnload runs alone: `DllInv` ties the count of
  references to the threads that load and to `m_hProvider`, and the pointers to
  the image. The run `dll_opens` shows that the assumption is needed.
  `CallsUseTheDll` is the refinement of `ProviderDll` by `ProviderCall`; with it
  `DllInv` holds of `ProviderCall`, and `CallInv` adds which objects and blocks
  there are at each step: `NothingLeaks`, for
  which the destructor finds `m_hProvider` set exactly if one reference is left.
- `IntrusiveListProofs`: that links are inverse is not enough, since rings
  without a head satisfy it. `ListInv` adds a rank that falls along Blink until
  a head is reached and an owner that is the same all around a ring:
  `RingsStayClosed`, `SweepIsSafe`. What a list contains is proved from `SeqInv`:
  there is a sequence of items for each list that its ring goes through, forwards
  and backwards, no item has two places in them, every linked item has one, and
  a sweep has seen what is before its place. Each operation inserts or removes
  at one place of one sequence, and what the loop of the code sees from a place
  on is the rest of the sequence, by induction over its turns (`WalkSeesPart`).
  From it: `SweepSeesEveryItem`, `ListsStayDisjoint`, `ListsActAsSequences`.
- `Positions`: the induction theorems of the library take an operator, which the
  installed provers cannot instantiate. `LeastNumber` (the order of the numbers
  is well-founded, and a well-founded set has a minimum) does not, and `UpTo`
  and `StepByStep` follow from it for the set of positions where a fact holds.

So every safety invariant and every action property of the passing runs is
stated by a theorem. Model-checked only are the liveness properties
(`FrameIsShown`, `DeadSessionEndsServer`, `SectionIsLeft`, `CallReturns`):
fairness needs ENABLED, which the prover does not reach.

## Findings

1. `framework_sync`: "Sync our provider and address lists" does not hold for a
   thread that finds the completion port empty because another thread has the
   completion in hand (ndfrmwrk.cpp:623). One thread, as this program has, is
   not affected: `StaleLookupHasCause`.
2. `framework_assert`: the ASSERT after SIO_ADDRESS_LIST_CHANGE
   (ndfrmwrk.cpp:646) fails whenever the request is pending, as it should be.
3. `dll_opens`: the comment on NdProvider::OpenAdapter says that it may be called
   concurrently, as those on GetClassObject and GetProvider do of theirs, and it
   unloads the DLL itself at its end (ndprov.cpp:279-280, 312).
4. `rebuild_grows`: after a second ND_BUFFER_OVERFLOW the next provider is told
   of more room than the buffer has (ndfrmwrk.cpp:861).
5. `lookup_families`: `Address::Matches` compares the bytes of the family asked
   for with an entry of either family (ndaddr.cpp:44-50), so 0.0.0.0 is found
   where an IPv6 address without flow information is listed, and in general an
   address where the bytes happen to be the same.

Three more observations are in properties that hold. After a refused Read the
reader thread waits for good (`WaitIsAnswered`, server.cpp:190-195). And
`WritesStayInside` says "no more pixels than the window": a desktop with more is
written past the buffer, since nothing compares the two (client.cpp:125-136).
`AddressesHaveProviders` has an exception, `torn`: an operator new that throws
while the catalog is read leaves addresses whose providers the next flush
deletes (ndfrmwrk.cpp:786 and 790, 704-709, 898), and `NobodyMissed` one for the
providers after an address that could not be allocated (ndfrmwrk.cpp:565).
Nothing in the repository says otherwise of any.

## Not modelled, and why

- Argument parsing of `main`, and the end of `main`, which `run` never reaches:
  no state that anything depends on.
- The branch of capture_frame for a device of its caller's, and
  NdV1Provider::OpenAdapter with another interface: no caller takes them.
- The inside of DXGI, Winsock, the network adapter, the loader and the provider
  DLLs: external, and modelled by what the code may observe of them.
- The handles ~Framework closes with a request pending in `m_Ov`, and the count
  of WSAStartup: what becomes of them is Winsock's, and no state of the code
  depends on it.
- Changes of IPv6 addresses alone, which the AF_INET socket may not be told of
  (ndfrmwrk.cpp:118): Winsock's again.
- A provider that answers success without a list to a question without a
  buffer, which the code takes as impossible (ndfrmwrk.cpp:869).
- Declarations and status codes of the kit, which have no behaviour; build
  files. They are more than half of the lines of the repository.

## Plan

Done: the stream, since it is what the program is for; the capture inside it and
its sizes; the life of the framework and its lists, which every call goes
through, with the adapters that outlive a call; the parts they rest on; and a
proof of each safety property the runs check. What is left is to prove how the
parts meet:

1. That `AddressLists` implements the steps `ClearAddresses` and `CollectFrom`
   of `NdFramework`.
2. That `ProviderDll` implements the loaded/unloaded provider `NdFramework` uses.
