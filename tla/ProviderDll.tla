------------------------------ MODULE ProviderDll ------------------------------
(****************************************************************************)
(* A provider and its DLL: network-direct/ndprov.cpp, NdProvider.           *)
(*                                                                          *)
(* The DLL is loaded by the first GetClassObject that finds no handle, and  *)
(* unloaded by a TryUnload that the DLL agrees to.  The comments say what   *)
(* the caller must serialise: TryUnload strictly, GetClassObject against    *)
(* TryUnload only.  So GetClassObject is written for threads that load at   *)
(* the same time, with an exchange that one of them wins.                   *)
(*                                                                          *)
(* The framework calls both under m_lock, which is stricter than either     *)
(* reading of the comments modelled here (Caller).                          *)
(****************************************************************************)
EXTENDS Naturals, FiniteSets

CONSTANTS
  Thread,       \* the threads that call one provider
  Caller,       \* "serializes": TryUnload runs alone, GetClassObject does not
                \* "opens": OpenAdapter may run concurrently, whole
  MaxLoads,     \* bound: times the DLL is brought into memory
  MaxAdapters   \* bound: adapters open at a time

ASSUME DllAssumption ==
  /\ IsFiniteSet(Thread)
  /\ Caller \in {"serializes", "opens"}
  /\ MaxLoads \in Nat
  /\ MaxAdapters \in Nat

VARIABLES
  pc,         \* where a thread is
  h,          \* the handle in its local hProvider
  hProvider,  \* m_hProvider: a handle, or 0 for nullptr
  pfnGet,     \* m_pfnDllGetClassObject: the handle it was resolved from, or 0
  pfnCan,     \* m_pfnDllCanUnloadNow, likewise
  image,      \* the handle of the DLL in memory, 0 if it is not
  refs,       \* the loader's count for it
  loads,      \* times it was brought into memory; a handle is one of these
  adapters,   \* adapters of it that users have open
  exports,    \* the functions the DLL has
  kept,       \* history: did an adapter make the last TryUnload keep the DLL
  gone        \* the provider was destroyed

provider == <<hProvider, pfnGet, pfnCan>>
loader == <<image, refs, loads>>
users == <<adapters, exports, kept, gone>>
vars == <<pc, h, provider, loader, users>>

AllExports == {"DllGetClassObject", "DllCanUnloadNow"}

(* Inside GetClassObject, and inside TryUnload. *)
Getting == {"test", "load", "get", "can", "drop", "swap", "lose", "call"}
Unloading == {"tryUnload", "ask", "free", "clear"}

(* Between LoadLibraryExW and the end of what it was for. *)
Loading == {"get", "can", "drop", "swap", "lose"}

Init ==
  /\ pc = [t \in Thread |-> "idle"]
  /\ h = [t \in Thread |-> 0]
  /\ hProvider = 0 /\ pfnGet = 0 /\ pfnCan = 0
  /\ image = 0 /\ refs = 0 /\ loads = 0
  /\ adapters = 0
  /\ exports \in SUBSET AllExports
  /\ kept = FALSE
  /\ gone = FALSE

Goto(t, place) == pc' = [pc EXCEPT ![t] = place]

--------------------------------------------------------------------------------
(* GetClassObject. *)

(* What the caller must see to. *)
MayGet(t) ==
  \/ Caller = "serializes" /\ \A u \in Thread : pc[u] \notin Unloading
  \/ Caller = "opens"

(* OpenAdapter or QueryAddressList is called, and calls GetClassObject. *)
Begin(t) ==
  /\ pc[t] = "idle" /\ ~gone
  /\ MayGet(t)
  /\ Goto(t, "test")
  /\ UNCHANGED <<h, provider, loader, users>>

TestHandle(t) ==
  /\ pc[t] = "test"
  /\ Goto(t, IF hProvider = 0 THEN "load" ELSE "call")
  /\ UNCHANGED <<h, provider, loader, users>>

(* LoadLibraryExW counts a reference, on the image there is if there is one. *)
Load(t) ==
  /\ pc[t] = "load"
  /\ IF image = 0
       THEN loads < MaxLoads /\ loads' = loads + 1 /\ image' = loads'
       ELSE UNCHANGED <<image, loads>>
  /\ refs' = refs + 1
  /\ h' = [h EXCEPT ![t] = image']
  /\ Goto(t, "get")
  /\ UNCHANGED <<provider, users>>

(* The DLL cannot be loaded. *)
LoadFails(t) ==
  /\ pc[t] = "load"
  /\ Goto(t, "done")
  /\ UNCHANGED <<h, provider, loader, users>>

(* FreeLibrary gives back one reference; what it makes of a handle that is *)
(* null or no longer loaded is an error nobody looks at.                    *)
FreeLibrary(handle) ==
  IF image = 0 \/ handle # image THEN UNCHANGED <<refs, image, loads>>
  ELSE /\ refs' = refs - 1
       /\ image' = IF refs = 1 THEN 0 ELSE image
       /\ UNCHANGED loads

ResolveGet(t) ==
  /\ pc[t] = "get"
  /\ IF "DllGetClassObject" \in exports
       THEN pfnGet' = h[t] /\ Goto(t, "can")
       ELSE pfnGet' = 0 /\ Goto(t, "drop")
  /\ UNCHANGED <<h, hProvider, pfnCan, loader, users>>

ResolveCan(t) ==
  /\ pc[t] = "can"
  /\ IF "DllCanUnloadNow" \in exports
       THEN pfnCan' = h[t] /\ Goto(t, "swap")
       ELSE pfnCan' = 0 /\ Goto(t, "drop")
  /\ UNCHANGED <<h, hProvider, pfnGet, loader, users>>

(* A function is missing: the DLL is given back and an error returned. *)
Drop(t) ==
  /\ pc[t] = "drop"
  /\ FreeLibrary(h[t])
  /\ Goto(t, "done")
  /\ UNCHANGED <<h, provider, users>>

\* A plain test and store, where the loser keeps its reference.
ExchangeKeeps(t) ==
  /\ pc[t] = "swap"
  /\ hProvider' = IF hProvider = 0 THEN h[t] ELSE hProvider
  /\ Goto(t, "call")
  /\ UNCHANGED <<h, pfnGet, pfnCan, loader, users>>

(* InterlockedCompareExchangePointer: the first thread's handle stays. *)
Exchange(t) ==
  /\ pc[t] = "swap"
  /\ IF hProvider = 0
       THEN hProvider' = h[t] /\ Goto(t, "call")
       ELSE hProvider' = hProvider /\ Goto(t, "lose")
  /\ UNCHANGED <<h, pfnGet, pfnCan, loader, users>>

\* A loser that gives back the winner's reference along with its own.
LoseBoth(t) ==
  /\ pc[t] = "lose"
  /\ image' = IF refs <= 2 THEN 0 ELSE image
  /\ refs' = IF refs <= 2 THEN 0 ELSE refs - 2
  /\ Goto(t, "call")
  /\ UNCHANGED <<h, provider, loads, users>>

(* Another thread's handle is there: the reference is one too many. *)
Lose(t) ==
  /\ pc[t] = "lose"
  /\ FreeLibrary(h[t])
  /\ Goto(t, "call")
  /\ UNCHANGED <<h, provider, users>>

\* An OpenAdapter that returns when GetClassObject fails.
CallAndReturn(t) ==
  /\ pc[t] = "call"
  /\ \E answer \in {"using", "idle"} : Goto(t, answer)
  /\ UNCHANGED <<h, provider, loader, users>>

(* m_pfnDllGetClassObject: an object of the DLL, or an error. *)
CallClassObject(t) ==
  /\ pc[t] = "call"
  /\ \E answer \in {"using", "done"} : Goto(t, answer)
  /\ UNCHANGED <<h, provider, loader, users>>

(* The calls on that object, and its Release.  OpenAdapter may leave an *)
(* adapter behind.                                                       *)
UseProvider(t) ==
  /\ pc[t] = "using"
  /\ adapters' \in adapters..(IF adapters < MaxAdapters THEN adapters + 1 ELSE adapters)
  /\ Goto(t, "done")
  /\ UNCHANGED <<h, provider, loader, exports, kept, gone>>

(* A user of the library releases an adapter, whenever it likes. *)
ReleaseAdapter ==
  /\ adapters > 0
  /\ adapters' = adapters - 1
  /\ UNCHANGED <<pc, h, provider, loader, exports, kept, gone>>

--------------------------------------------------------------------------------
(* TryUnload. *)

MayUnload(t) ==
  \/ /\ Caller = "serializes"
     /\ \A u \in Thread \ {t} : pc[u] \notin Getting \cup Unloading
  \/ Caller = "opens" /\ pc[t] = "done"

(* OpenAdapter and QueryAddressList end with it, on every path; a flush of *)
(* the providers is nothing else.                                           *)
TryUnload(t) ==
  /\ pc[t] \in {"done", "idle"} /\ ~gone
  /\ MayUnload(t)
  /\ Goto(t, "tryUnload")
  /\ UNCHANGED <<h, provider, loader, users>>

TestUnload(t) ==
  /\ pc[t] = "tryUnload"
  /\ Goto(t, IF hProvider = 0 THEN "idle" ELSE "ask")
  /\ kept' = (hProvider # 0 /\ kept)
  /\ UNCHANGED <<h, provider, loader, adapters, exports, gone>>

\* A TryUnload that counts open adapters and not the objects in use.
AskAdapters(t) ==
  /\ pc[t] = "ask"
  /\ Goto(t, IF adapters = 0 THEN "free" ELSE "idle")
  /\ kept' = (adapters > 0)
  /\ UNCHANGED <<h, provider, loader, adapters, exports, gone>>

(* m_pfnDllCanUnloadNow: S_OK if no object of the DLL is in use. *)
Ask(t) ==
  /\ pc[t] = "ask"
  /\ Goto(t, IF adapters = 0 /\ \A u \in Thread : pc[u] # "using"
               THEN "free" ELSE "idle")
  /\ kept' = (adapters > 0)
  /\ UNCHANGED <<h, provider, loader, adapters, exports, gone>>

Free(t) ==
  /\ pc[t] = "free"
  /\ FreeLibrary(hProvider)
  /\ Goto(t, "clear")
  /\ UNCHANGED <<h, provider, users>>

Clear(t) ==
  /\ pc[t] = "clear"
  /\ hProvider' = 0
  /\ Goto(t, "idle")
  /\ UNCHANGED <<h, pfnGet, pfnCan, loader, users>>

--------------------------------------------------------------------------------
\* A destructor that leaves the DLL to TryUnload.
DestroyKeepsDll ==
  /\ ~gone /\ \A t \in Thread : pc[t] = "idle"
  /\ hProvider' = 0
  /\ gone' = TRUE
  /\ UNCHANGED <<pc, h, pfnGet, pfnCan, loader, adapters, exports, kept>>

(* ~Provider: after a failed Init, in FlushProviders after a TryUnload, and in *)
(* ~Framework, which asks nobody: adapters may be open.  Nobody is in a call.  *)
Destroy ==
  /\ ~gone /\ \A t \in Thread : pc[t] = "idle"
  /\ IF hProvider # 0 THEN FreeLibrary(hProvider) ELSE UNCHANGED loader
  /\ hProvider' = 0
  /\ gone' = TRUE
  /\ UNCHANGED <<pc, h, pfnGet, pfnCan, adapters, exports, kept>>

--------------------------------------------------------------------------------
GetStep(t) ==
  \/ Begin(t)
  \/ TestHandle(t)
  \/ Load(t)
  \/ LoadFails(t)
  \/ ResolveGet(t)
  \/ ResolveCan(t)
  \/ Drop(t)
  \/ Exchange(t)
  \/ Lose(t)
  \/ CallClassObject(t)
  \/ UseProvider(t)

UnloadStep(t) ==
  \/ TryUnload(t)
  \/ TestUnload(t)
  \/ Ask(t)
  \/ Free(t)
  \/ Clear(t)

Next ==
  \/ \E t \in Thread : GetStep(t) \/ UnloadStep(t)
  \/ ReleaseAdapter
  \/ Destroy

Spec == Init /\ [][Next]_vars
--------------------------------------------------------------------------------
Handle == 0..MaxLoads

TypeOK ==
  /\ pc \in [Thread -> {"idle", "using", "done"} \cup Getting \cup Unloading]
  /\ h \in [Thread -> Handle]
  /\ hProvider \in Handle /\ pfnGet \in Handle /\ pfnCan \in Handle
  /\ image \in Handle /\ loads \in Handle
  /\ refs \in Nat
  /\ adapters \in 0..MaxAdapters
  /\ exports \in SUBSET AllExports
  /\ kept \in BOOLEAN
  /\ gone \in BOOLEAN

(* Whoever is about to call code of the DLL finds it in memory, through a    *)
(* pointer into the image that is there: in the two calls by pointer, in     *)
(* calls on an object, and for users with an adapter until the provider      *)
(* itself is destroyed (ndprov.cpp:97-99, 144, 164-166, and 278-281).        *)
CodeIsLoaded ==
  /\ \A t \in Thread :
       /\ pc[t] = "call" => image # 0 /\ pfnGet = image
       /\ pc[t] = "ask" => image # 0 /\ pfnCan = image
       /\ pc[t] = "using" => image # 0
  /\ adapters > 0 /\ ~gone => image # 0

(* The loader's references are those of the threads that are loading, and    *)
(* one of m_hProvider until TryUnload has given it back: none is lost on an  *)
(* error path or in a lost exchange, and none is given back twice.           *)
RefsAreHeld ==
  refs = Cardinality({t \in Thread : pc[t] \in Loading})
         + (IF hProvider # 0 /\ \A t \in Thread : pc[t] # "clear" THEN 1 ELSE 0)

(* The assertion of ndprov.cpp:139: who loses the exchange was given the same *)
(* handle as the winner.                                                     *)
SameHandle ==
  \A t \in Thread : pc[t] = "swap" /\ hProvider # 0 => hProvider = h[t]

(* When every call has returned the DLL is out of memory, unless an adapter  *)
(* made the last TryUnload keep it: whoever fails or comes last unloads      *)
(* (ndprov.cpp:296, 305, 312).                                               *)
LastOneUnloads ==
  (\A t \in Thread : pc[t] = "idle") /\ image # 0 => kept
================================================================================
