------------------------------ MODULE ProviderCall ------------------------------
(****************************************************************************)
(* A provider from its construction to its destruction, and the calls on    *)
(* the objects of its DLL: Provider, NdV1Provider and NdProvider of         *)
(* network-direct/ndprov.cpp.                                               *)
(*                                                                          *)
(* Each call is one of ProviderDll with the objects it gets on the way: a   *)
(* provider of version 1 gets a class factory first and creates its         *)
(* provider object with it, one of version 2 gets the provider object at    *)
(* once.  Init and the destructor own two blocks of ghHeap.  The steps of   *)
(* ProviderDll are kept as they are, so that this module implements it.     *)
(****************************************************************************)
EXTENDS ProviderDll

VARIABLES
  version,  \* m_Version
  stage,    \* how far Init has come
  heap,     \* the blocks of ghHeap: the path as it is, and m_Path
  held,     \* the objects of the DLL that each thread has a reference to
  next,     \* what each thread calls on them next
  wild      \* history: has the thread called through a pointer nobody wrote

initVars == <<version, stage, heap>>
callVars == <<held, next, wild>>
allVars == <<vars, initVars, callVars>>

InitStage == {"new", "path", "measure", "allocate", "expand"}
Stage == InitStage \cup {"ready", "failed"}
Object == {"factory", "provider"}
Method == {"none", "CreateInstance", "ResolveAddress", "OpenAdapter", "QueryAddressList"}

CallInit ==
  /\ Init
  /\ version \in {1, 2}
  /\ stage = "new"
  /\ heap = {}
  /\ held = [t \in Thread |-> {}]
  /\ next = [t \in Thread |-> "none"]
  /\ wild = [t \in Thread |-> FALSE]

--------------------------------------------------------------------------------
(* Provider::Init, of a provider no other thread knows yet. *)

(* A step succeeds and the next is taken, or Init gives the path back. *)
Proceeds(from, to, blocks) ==
  /\ stage = from
  /\ \/ stage' = to /\ heap' = heap \cup blocks
     \/ stage' = "failed" /\ heap' = heap \ {"path"}
  /\ UNCHANGED <<vars, version, callVars>>

AllocatePath == Proceeds("new", "path", {"path"})
GetProviderPath == Proceeds("path", "measure", {})
MeasurePath == Proceeds("measure", "allocate", {})
AllocateExpanded == Proceeds("allocate", "expand", {"m_Path"})

(* The path is given back before the lengths are compared. *)
ExpandPath ==
  /\ stage = "expand"
  /\ stage' \in {"ready", "failed"}
  /\ heap' = heap \ {"path"}
  /\ UNCHANGED <<vars, version, callVars>>

(* ~Provider frees m_Path too. *)
DestroyProvider ==
  /\ stage \in {"ready", "failed"}
  /\ Destroy
  /\ heap' = heap \ {"m_Path"}
  /\ UNCHANGED <<version, stage, callVars>>

--------------------------------------------------------------------------------
(* The calls, of threads that found the provider in m_ProviderList. *)

Plain(t) ==
  /\ stage = "ready"
  /\ \/ Begin(t) \/ TestHandle(t) \/ Load(t) \/ LoadFails(t) \/ ResolveGet(t) \/ ResolveCan(t)
     \/ Exchange(t) \/ Lose(t)
  /\ UNCHANGED <<initVars, callVars>>

(* A function is missing.  GetLastError comes after FreeLibrary: when that    *)
(* unloads the DLL the code it tells may be any, also 0, and the caller takes *)
(* the call for a success and goes on with an object it has not got.         *)
DropAndReport(t) ==
  /\ Drop(t)
  /\ \E lost \in BOOLEAN :
       /\ lost => image' = 0
       /\ wild' = [wild EXCEPT ![t] = lost]
  /\ UNCHANGED <<initVars, held, next>>

Wanted(t) ==
  /\ held' = [held EXCEPT ![t] = {IF version = 1 THEN "factory" ELSE "provider"}]
  /\ \E m \in (IF version = 1 THEN {"CreateInstance"} ELSE {"ResolveAddress", "QueryAddressList"}) :
       next' = [next EXCEPT ![t] = m]

(* DllGetClassObject gives the object asked for, or an error. *)
ClassObject(t) ==
  /\ CallClassObject(t)
  /\ IF pc'[t] = "using" THEN Wanted(t) ELSE UNCHANGED <<held, next>>
  /\ UNCHANGED <<initVars, wild>>

(* The last call on an object is over and the object released. *)
LetGo(t) ==
  /\ UseProvider(t)
  /\ held' = [held EXCEPT ![t] = {}]
  /\ next' = [next EXCEPT ![t] = "none"]
  /\ UNCHANGED <<initVars, wild>>

(* NdV1Provider::GetProvider: the factory is released, whatever it answered. *)
CreateInstance(t) ==
  /\ next[t] = "CreateInstance"
  /\ \/ /\ held' = [held EXCEPT ![t] = {"provider"}]
        /\ \E m \in {"OpenAdapter", "QueryAddressList"} : next' = [next EXCEPT ![t] = m]
        /\ UNCHANGED <<vars, initVars, wild>>
     \/ LetGo(t) /\ UNCHANGED adapters

\* A failing ResolveAddress after which the object is not released.
ResolveKeeps(t) ==
  /\ next[t] = "ResolveAddress"
  /\ \/ /\ next' = [next EXCEPT ![t] = "OpenAdapter"]
        /\ UNCHANGED <<vars, initVars, held, wild>>
     \/ /\ UseProvider(t) /\ UNCHANGED adapters
        /\ next' = [next EXCEPT ![t] = "none"]
        /\ UNCHANGED <<initVars, held, wild>>

(* NdProvider::OpenAdapter asks for the address's id first. *)
ResolveAddress(t) ==
  /\ next[t] = "ResolveAddress"
  /\ \/ /\ next' = [next EXCEPT ![t] = "OpenAdapter"]
        /\ UNCHANGED <<vars, initVars, held, wild>>
     \/ LetGo(t) /\ UNCHANGED adapters

(* An adapter is opened, or not. *)
OpenAdapter(t) == next[t] = "OpenAdapter" /\ LetGo(t)

QueryAddressList(t) == next[t] = "QueryAddressList" /\ LetGo(t) /\ UNCHANGED adapters

(* TryUnload at the end of a call, or in FlushProviders. *)
Unload(t) ==
  /\ stage = "ready" /\ ~wild[t]
  /\ UnloadStep(t)
  /\ UNCHANGED <<initVars, callVars>>

ReleaseOne == ReleaseAdapter /\ UNCHANGED <<initVars, callVars>>

--------------------------------------------------------------------------------
InitProvider == AllocatePath \/ GetProviderPath \/ MeasurePath \/ AllocateExpanded \/ ExpandPath

CallStep(t) ==
  \/ Plain(t)
  \/ DropAndReport(t)
  \/ ClassObject(t)
  \/ CreateInstance(t)
  \/ ResolveAddress(t)
  \/ OpenAdapter(t)
  \/ QueryAddressList(t)
  \/ Unload(t)

CallNext ==
  \/ InitProvider
  \/ DestroyProvider
  \/ \E t \in Thread : CallStep(t)
  \/ ReleaseOne

CallSpec == CallInit /\ [][CallNext]_allVars
--------------------------------------------------------------------------------
(* Whatever fails on the way, nothing is left behind: a thread has a          *)
(* reference to an object of the DLL only while it is using it, the path      *)
(* that Init started from is gone when Init returns, and the destructor       *)
(* leaves no block, no image and no reference of the loader, whether or not   *)
(* a TryUnload came before it (ndprov.cpp:29-94, 189-341).                    *)
NothingIsLeaked ==
  /\ \A t \in Thread : held[t] # {} <=> pc[t] = "using"
  /\ stage \notin InitStage => "path" \notin heap
  /\ gone => heap = {} /\ image = 0 /\ refs = 0
================================================================================
