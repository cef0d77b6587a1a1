------------------------------ MODULE NdLifecycle ------------------------------
(****************************************************************************)
(* The life of the NetworkDirect framework: network-direct/ndfrmwrk.cpp,    *)
(* NdStartup, NdCleanup and the way the other entry points reach the one    *)
(* Framework object of the process.                                         *)
(*                                                                          *)
(* NdStartup and NdCleanup serialise on gInitializing, a spin lock made of  *)
(* InterlockedCompareExchange.  The others read gpFramework with no lock:   *)
(* what keeps the object alive under them is that their thread is between a *)
(* startup and a cleanup of its own.  gpFramework is published before the   *)
(* object is initialised and before it is referenced.                       *)
(****************************************************************************)
EXTENDS Naturals, FiniteSets

CONSTANTS
  User,          \* threads that call the library
  Stray,         \* those that call it outside a startup of their own as well
  MaxInstances,  \* bound: Framework objects made in a run
  NewFailures    \* what operator new may do without memory

ASSUME LifecycleAssumption ==
  /\ IsFiniteSet(User)
  /\ Stray \subseteq User
  /\ MaxInstances \in Nat
  /\ NewFailures \subseteq {"null", "throws"}

VARIABLES
  gInitializing,  \* the spin lock, 0 or 1
  gpFramework,    \* the Framework object published, Null for none
  ghHeap,         \* is there a private heap
  fw,             \* the life of each Framework object
  nRef,           \* its m_nRef
  pc,             \* where each thread is
  obj,            \* the object a thread is calling into
  holds,          \* threads with a startup not yet undone by a cleanup
  opened,         \* the object a thread has an adapter open from
  strayed,        \* history: has a thread left its bracket of startup and cleanup
  thrown          \* history: has operator new thrown

adapterVars == <<opened, strayed>>
vars ==
  <<gInitializing, gpFramework, ghHeap, fw, nRef, pc, obj, holds, adapterVars, thrown>>

Null == 0
Instance == 1..MaxInstances

(* In these steps a thread has gInitializing. *)
Section == {"create", "init", "undo", "addref", "release", "clear"}
PC == {"idle", "startup", "cleanup", "call", "inside"} \cup Section

Init ==
  /\ gInitializing = 0
  /\ gpFramework = Null
  /\ ghHeap = FALSE
  /\ fw = [i \in Instance |-> "unused"]
  /\ nRef = [i \in Instance |-> 0]
  /\ pc = [u \in User |-> "idle"]
  /\ obj = [u \in User |-> Null]
  /\ holds = {}
  /\ opened = [u \in User |-> Null]
  /\ strayed = FALSE
  /\ thrown = FALSE

Goto(u, label) == pc' = [pc EXCEPT ![u] = label]

(* InterlockedDecrement(&gInitializing) and return. *)
Leave(u) ==
  /\ gInitializing' = gInitializing - 1
  /\ Goto(u, "idle")

(* ~Framework frees the addresses, unloads every provider, those that         *)
(* FlushProviders kept for their adapters included, and closes its handles.   *)
Delete(i) == fw' = [fw EXCEPT ![i] = "freed"]

(* A thread keeps to the bracket of its startup and cleanup, or is a stray. *)
Brackets(u, within) ==
  /\ within \/ u \in Stray
  /\ strayed' = (strayed \/ ~within)

--------------------------------------------------------------------------------
(* NdStartup *)

StartupCall(u) ==
  /\ pc[u] = "idle"
  /\ u \notin holds
  /\ Goto(u, "startup")
  /\ UNCHANGED <<gInitializing, gpFramework, ghHeap, fw, nRef, obj, holds, adapterVars, thrown>>

\* A section entered on a plain read of gInitializing.
EnterUnlocked(u) ==
  /\ pc[u] \in {"startup", "cleanup"}
  /\ gInitializing' = 1
  /\ Goto(u, IF pc[u] = "startup" THEN "create" ELSE "release")
  /\ UNCHANGED <<gpFramework, ghHeap, fw, nRef, obj, holds, adapterVars, thrown>>

(* The compare-exchange that ends the spinning; the others change nothing. *)
Enter(u) ==
  /\ pc[u] \in {"startup", "cleanup"}
  /\ gInitializing = 0
  /\ gInitializing' = 1
  /\ Goto(u, IF pc[u] = "startup" THEN "create" ELSE "release")
  /\ UNCHANGED <<gpFramework, ghHeap, fw, nRef, obj, holds, adapterVars, thrown>>

(* The framework is there already. *)
FindFramework(u) ==
  /\ pc[u] = "create"
  /\ gpFramework # Null
  /\ Goto(u, "addref")
  /\ UNCHANGED <<gInitializing, gpFramework, ghHeap, fw, nRef, obj, holds, adapterVars, thrown>>

(* HeapCreate fails. *)
HeapFails(u) ==
  /\ pc[u] = "create"
  /\ gpFramework = Null
  /\ Leave(u)
  /\ UNCHANGED <<gpFramework, ghHeap, fw, nRef, obj, holds, adapterVars, thrown>>

(* operator new has no memory.  The code is written for a null pointer and   *)
(* gives the heap back; the operator of the language throws past all of it.  *)
NewFails(u) ==
  /\ pc[u] = "create"
  /\ gpFramework = Null
  /\ \/ "null" \in NewFailures /\ Leave(u) /\ UNCHANGED <<ghHeap, thrown>>
     \/ /\ "throws" \in NewFailures
        /\ Goto(u, "idle")
        /\ ghHeap' = TRUE
        /\ thrown' = TRUE
        /\ UNCHANGED gInitializing
  /\ UNCHANGED <<gpFramework, fw, nRef, obj, holds, adapterVars>>

(* The heap is created, and a new object published as it is constructed. *)
Publish(u) ==
  /\ pc[u] = "create"
  /\ gpFramework = Null
  /\ ghHeap' = TRUE
  /\ \E i \in Instance :
       /\ fw[i] = "unused"
       /\ fw' = [fw EXCEPT ![i] = "built"]
       /\ gpFramework' = i
  /\ Goto(u, "init")
  /\ UNCHANGED <<gInitializing, nRef, obj, holds, adapterVars, thrown>>

(* Framework::Init succeeds, *)
Initialise(u) ==
  /\ pc[u] = "init"
  /\ fw' = [fw EXCEPT ![gpFramework] = "ready"]
  /\ Goto(u, "addref")
  /\ UNCHANGED <<gInitializing, gpFramework, ghHeap, nRef, obj, holds, adapterVars, thrown>>

\* An error path that forgets the object it has made.
InitFailsLeaks(u) ==
  /\ pc[u] = "init"
  /\ Goto(u, "undo")
  /\ UNCHANGED <<gInitializing, gpFramework, ghHeap, fw, nRef, obj, holds, adapterVars, thrown>>

(* or not: the object is deleted first and unpublished next. *)
InitFails(u) ==
  /\ pc[u] = "init"
  /\ Delete(gpFramework)
  /\ Goto(u, "undo")
  /\ UNCHANGED <<gInitializing, gpFramework, ghHeap, nRef, obj, holds, adapterVars, thrown>>

\* An error path that does not destroy the heap.
UndoKeepsHeap(u) ==
  /\ pc[u] = "undo"
  /\ gpFramework' = Null
  /\ Leave(u)
  /\ UNCHANGED <<ghHeap, fw, nRef, obj, holds, adapterVars, thrown>>

Undo(u) ==
  /\ pc[u] = "undo"
  /\ gpFramework' = Null
  /\ ghHeap' = FALSE
  /\ Leave(u)
  /\ UNCHANGED <<fw, nRef, obj, holds, adapterVars, thrown>>

\* A startup that references only the framework it has created.
AddRefOnce(u) ==
  /\ pc[u] = "addref"
  /\ nRef' = [nRef EXCEPT ![gpFramework] = 1]
  /\ holds' = holds \cup {u}
  /\ Leave(u)
  /\ UNCHANGED <<gpFramework, ghHeap, fw, obj, adapterVars, thrown>>

(* AddRef, and the startup has succeeded. *)
AddRef(u) ==
  /\ pc[u] = "addref"
  /\ nRef' = [nRef EXCEPT ![gpFramework] = @ + 1]
  /\ holds' = holds \cup {u}
  /\ Leave(u)
  /\ UNCHANGED <<gpFramework, ghHeap, fw, obj, adapterVars, thrown>>

--------------------------------------------------------------------------------
(* NdCleanup *)

(* A thread in its bracket has closed its adapter before. *)
CleanupCall(u) ==
  /\ pc[u] = "idle"
  /\ Brackets(u, u \in holds /\ opened[u] = Null)
  /\ Goto(u, "cleanup")
  /\ UNCHANGED <<gInitializing, gpFramework, ghHeap, fw, nRef, obj, holds, opened, thrown>>

\* A cleanup that returns with the lock when there is nothing to clean up.
NotReadyKeepsLock(u) ==
  /\ pc[u] = "release"
  /\ gpFramework = Null
  /\ holds' = holds \ {u}
  /\ Goto(u, "idle")
  /\ UNCHANGED <<gInitializing, gpFramework, ghHeap, fw, nRef, obj, adapterVars, thrown>>

(* There is no framework: ND_DEVICE_NOT_READY. *)
NotReady(u) ==
  /\ pc[u] = "release"
  /\ gpFramework = Null
  /\ holds' = holds \ {u}
  /\ Leave(u)
  /\ UNCHANGED <<gpFramework, ghHeap, fw, nRef, obj, adapterVars, thrown>>

\* A release that deletes when one reference is left.
ReleaseEarly(u) ==
  /\ pc[u] = "release"
  /\ gpFramework # Null
  /\ nRef' = [nRef EXCEPT ![gpFramework] = @ - 1]
  /\ holds' = holds \ {u}
  /\ IF nRef[gpFramework] <= 2
     THEN /\ Delete(gpFramework)
          /\ Goto(u, "clear")
          /\ UNCHANGED gInitializing
     ELSE /\ Leave(u)
          /\ UNCHANGED fw
  /\ UNCHANGED <<gpFramework, ghHeap, obj, adapterVars, thrown>>

(* Framework::Release: the last reference deletes the object, which takes its *)
(* time, with gpFramework still pointing there.                              *)
Release(u) ==
  /\ pc[u] = "release"
  /\ gpFramework # Null
  /\ nRef' = [nRef EXCEPT ![gpFramework] = @ - 1]
  /\ holds' = holds \ {u}
  /\ IF nRef[gpFramework] = 1
     THEN /\ Delete(gpFramework)
          /\ Goto(u, "clear")
          /\ UNCHANGED gInitializing
     ELSE /\ Leave(u)
          /\ UNCHANGED fw
  /\ UNCHANGED <<gpFramework, ghHeap, obj, adapterVars, thrown>>

\* A cleanup that destroys the heap and leaves the pointer.
ClearKeepsPointer(u) ==
  /\ pc[u] = "clear"
  /\ ghHeap' = FALSE
  /\ Leave(u)
  /\ UNCHANGED <<gpFramework, fw, nRef, obj, holds, adapterVars, thrown>>

Clear(u) ==
  /\ pc[u] = "clear"
  /\ gpFramework' = Null
  /\ ghHeap' = FALSE
  /\ Leave(u)
  /\ UNCHANGED <<fw, nRef, obj, holds, adapterVars, thrown>>

--------------------------------------------------------------------------------
(* The other entry points. *)

(* gpFramework is compared with nullptr; without one the call is over. *)
Call(u) ==
  /\ pc[u] = "idle"
  /\ Brackets(u, u \in holds)
  /\ gpFramework # Null
  /\ Goto(u, "call")
  /\ UNCHANGED <<gInitializing, gpFramework, ghHeap, fw, nRef, obj, holds, opened, thrown>>

(* gpFramework is read once more and the method called. *)
GoInside(u) ==
  /\ pc[u] = "call"
  /\ obj' = [obj EXCEPT ![u] = gpFramework]
  /\ Goto(u, "inside")
  /\ UNCHANGED <<gInitializing, gpFramework, ghHeap, fw, nRef, holds, adapterVars, thrown>>

(* NdOpenV1Adapter compares nothing. *)
CallV1(u) ==
  /\ pc[u] = "idle"
  /\ Brackets(u, u \in holds)
  /\ obj' = [obj EXCEPT ![u] = gpFramework]
  /\ Goto(u, "inside")
  /\ UNCHANGED <<gInitializing, gpFramework, ghHeap, fw, nRef, holds, opened, thrown>>

(* The call returns; one to open an adapter may have opened one. *)
Return(u) ==
  /\ pc[u] = "inside"
  /\ obj' = [obj EXCEPT ![u] = Null]
  /\ Goto(u, "idle")
  /\ \/ UNCHANGED opened
     \/ opened[u] = Null /\ opened' = [opened EXCEPT ![u] = obj[u]]
  /\ UNCHANGED <<gInitializing, gpFramework, ghHeap, fw, nRef, holds, strayed, thrown>>

(* The adapter is released, which calls into the DLL of its provider. *)
ReleaseAdapter(u) ==
  /\ pc[u] = "idle"
  /\ opened[u] # Null
  /\ opened' = [opened EXCEPT ![u] = Null]
  /\ UNCHANGED <<gInitializing, gpFramework, ghHeap, fw, nRef, pc, obj, holds, strayed, thrown>>

--------------------------------------------------------------------------------
SectionStep(u) ==
  \/ FindFramework(u)
  \/ HeapFails(u)
  \/ NewFails(u)
  \/ Publish(u)
  \/ Initialise(u)
  \/ InitFails(u)
  \/ Undo(u)
  \/ AddRef(u)
  \/ NotReady(u)
  \/ Release(u)
  \/ Clear(u)

UserStep(u) ==
  \/ StartupCall(u)
  \/ CleanupCall(u)
  \/ Enter(u)
  \/ SectionStep(u)
  \/ Call(u)
  \/ GoInside(u)
  \/ CallV1(u)
  \/ Return(u)
  \/ ReleaseAdapter(u)

Next == \E u \in User : UserStep(u)

Spec == Init /\ [][Next]_vars

(* A thread inside NdStartup or NdCleanup runs; nobody has to call either,   *)
(* and a thread that spins may lose every race for gInitializing.            *)
Fairness == \A u \in User : WF_vars(SectionStep(u))

FairSpec == Spec /\ Fairness
--------------------------------------------------------------------------------
TypeOK ==
  /\ gInitializing \in {0, 1}
  /\ gpFramework \in Instance \cup {Null}
  /\ ghHeap \in BOOLEAN
  /\ fw \in [Instance -> {"unused", "built", "ready", "freed"}]
  /\ nRef \in [Instance -> Nat]
  /\ pc \in [User -> PC]
  /\ obj \in [User -> Instance \cup {Null}]
  /\ holds \in SUBSET User
  /\ opened \in [User -> Instance \cup {Null}]
  /\ strayed \in BOOLEAN
  /\ thrown \in BOOLEAN

Alive == {i \in Instance : fw[i] \in {"built", "ready"}}

(* Creation and destruction are serialised, whatever strays do               *)
(* (ndfrmwrk.cpp:920-924 and 966-970).                                       *)
OneInSection ==
  \A u, v \in User : pc[u] \in Section /\ pc[v] \in Section => u = v

(* No framework is leaked and none is made beside another: the one that is    *)
(* not freed is the one published (ndfrmwrk.cpp:926-954 and 978-983).         *)
OneFramework == \A i \in Alive : gpFramework = i

(* Outside the section the heap and the framework exist together, on every    *)
(* path out of NdStartup and NdCleanup (ndfrmwrk.cpp:929-953 and 980-982).    *)
HeapWithFramework == gInitializing = 0 => (ghHeap <=> gpFramework # Null)

(* ASSERT(m_nRef > 0) in Framework::Release (ndfrmwrk.cpp:180): not even a    *)
(* cleanup too many releases a framework that has no reference.              *)
ReleaseHasReference ==
  \A u \in User : pc[u] = "release" /\ gpFramework # Null =>
    fw[gpFramework] = "ready" /\ nRef[gpFramework] > 0

(* Every reference is a startup that was not undone, while all threads keep   *)
(* to their brackets.  So when the last startup is undone the framework goes, *)
(* and not before (ndfrmwrk.cpp:956 and 978).                                *)
RefsCounted ==
  /\ gpFramework # Null => nRef[gpFramework] = Cardinality(holds)
  /\ gpFramework = Null => holds = {}

RefsAreHolders == ~strayed => RefsCounted

(* What a thread's bracket gives it, while all keep to theirs: a call finds an *)
(* initialised framework and its heap, from the first line to the last, and  *)
(* an adapter has the code of its provider until it is released, whatever    *)
(* other threads start up or clean up (ndfrmwrk.cpp:1014-1019 and 68-75).     *)
BracketKeepsFramework ==
  ~strayed =>
    \A u \in User :
      /\ pc[u] = "call" => gpFramework # Null
      /\ pc[u] = "inside" => /\ obj[u] = gpFramework
                             /\ obj[u] # Null
                             /\ fw[obj[u]] = "ready"
                             /\ ghHeap
      /\ opened[u] # Null => fw[opened[u]] = "ready"

(* A lock that is taken with nobody inside. *)
Abandoned == gInitializing = 1 /\ \A u \in User : pc[u] \notin Section

(* Once operator new has thrown in NdStartup gInitializing stays 1 for good,  *)
(* and no startup or cleanup of the process gets in any more; on every other *)
(* path the lock is given back (ndfrmwrk.cpp:936-943 against 920-987).       *)
ThrowLocksOut == thrown <=> Abandoned

(* A thread past the spin loop gives the lock back, unless it throws.        *)
SectionIsLeft == (gInitializing = 1) ~> (gInitializing = 0 \/ thrown)
================================================================================
