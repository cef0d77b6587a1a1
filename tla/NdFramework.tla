------------------------------ MODULE NdFramework ------------------------------
(****************************************************************************)
(* The lists of a Framework and what keeps them up to date:                 *)
(* network-direct/ndfrmwrk.cpp, Framework, with the providers of ndprov.cpp.*)
(*                                                                          *)
(* Windows tells of a change through requests that complete to m_hIocp.     *)
(* Nothing waits there: every call first polls it (ProcessUpdates), takes   *)
(* m_lock for each completion it finds, requests the next one and rebuilds  *)
(* the lists; then it takes m_lock once more and looks something up.  The   *)
(* poll is outside the lock, so a completion may be in the hands of one     *)
(* thread while another one finds nothing to do.                            *)
(*                                                                          *)
(* An address is abstracted to the provider that has it.                    *)
(****************************************************************************)
EXTENDS Naturals, FiniteSets

CONSTANTS
  Thread,       \* threads that call the framework
  NoThread,     \* m_lock is free
  Provider,     \* NetworkDirect providers that may be in the protocol catalog
  MaxChanges,   \* bound: changes of the catalog and of addresses in a run
  MaxAdapters,  \* bound: adapters of a provider open at a time
  Faults        \* what may fail: "memory", "provider", "notify", and "throw",
                \* operator new with std::bad_alloc, which the caller catches

ASSUME FrameworkAssumption ==
  /\ NoThread \notin Thread
  /\ IsFiniteSet(Provider)
  /\ MaxChanges \in Nat
  /\ MaxAdapters \in Nat
  /\ Faults \subseteq {"memory", "provider", "notify", "throw"}

VARIABLES
  catalog,    \* the system: providers in the protocol catalog
  up,         \* the system: providers that have an address
  changes,    \* changes the system has made
  failed,     \* history: has a step of keeping the lists up to date failed
  torn,       \* history: was the catalog read in part since addrs was emptied
  armed,      \* requests pending, by kind
  queued,     \* completions in m_hIocp, by kind
  lock,       \* who has m_lock
  pc,         \* where each thread is
  key,        \* the kind of the completion it took, "prov" when it has none
  room,       \* entries the buffer for the catalog has room for, 0: none
  todo,       \* active providers it has not asked for addresses yet
  quiet,      \* history: is it in a call, with nothing changed since
  providers,  \* m_ProviderList
  active,     \* those of it with m_Active
  addrs,      \* m_NdAddrList and m_NdV1AddrList: whose addresses they hold
  loaded,     \* providers with m_hProvider set
  adapters    \* adapters open, by provider: what its DLL counts

systemVars == <<catalog, up, changes, failed, torn>>
requestVars == <<armed, queued>>
threadVars == <<pc, key, room, todo, quiet>>
dllVars == <<loaded, adapters>>
vars == <<systemVars, requestVars, lock, threadVars, providers, active, addrs, dllVars>>

Kind == {"prov", "addr"}
Working == {"size", "enum", "clear", "collect", "flush"}
PC == {"idle", "poll", "got", "lookup", "dead"} \cup Working

(* Init has asked for address changes and posted a catalog change itself, *)
(* with no request pending behind it.                                     *)
Init ==
  /\ catalog \in SUBSET Provider
  /\ up \in SUBSET Provider
  /\ changes = 0
  /\ failed = FALSE
  /\ torn = FALSE
  /\ armed = [k \in Kind |-> IF k = "addr" THEN 1 ELSE 0]
  /\ queued = [k \in Kind |-> IF k = "prov" THEN 1 ELSE 0]
  /\ lock = NoThread
  /\ pc = [t \in Thread |-> "idle"]
  /\ key = [t \in Thread |-> "prov"]
  /\ room = 0
  /\ todo = {}
  /\ quiet = [t \in Thread |-> FALSE]
  /\ providers = {}
  /\ active = {}
  /\ addrs = {}
  /\ loaded = {}
  /\ adapters = [p \in Provider |-> 0]

Goto(t, label) == pc' = [pc EXCEPT ![t] = label]

--------------------------------------------------------------------------------
(* The system: Winsock's catalog and addresses, and the users of adapters. *)

(* A pending request completes; with none pending nobody is told. *)
Notify(k) ==
  IF armed[k] > 0
  THEN /\ armed' = [armed EXCEPT ![k] = @ - 1]
       /\ queued' = [queued EXCEPT ![k] = @ + 1]
  ELSE UNCHANGED requestVars

Toggle(p, S) == IF p \in S THEN S \ {p} ELSE S \cup {p}

CatalogChanges(p) ==
  /\ changes < MaxChanges
  /\ changes' = changes + 1
  /\ catalog' = Toggle(p, catalog)
  /\ quiet' = [t \in Thread |-> FALSE]
  /\ Notify("prov")
  /\ UNCHANGED <<up, failed, torn, lock, pc, key, room, todo, providers, active, addrs, dllVars>>

AddressChanges(p) ==
  /\ changes < MaxChanges
  /\ changes' = changes + 1
  /\ up' = Toggle(p, up)
  /\ quiet' = [t \in Thread |-> FALSE]
  /\ Notify("addr")
  /\ UNCHANGED <<catalog, failed, torn, lock, pc, key, room, todo, providers, active, addrs, dllVars>>

(* A user releases an adapter; no lock of the framework is involved. *)
ReleaseAdapter(p) ==
  /\ adapters[p] > 0
  /\ adapters' = [adapters EXCEPT ![p] = @ - 1]
  /\ UNCHANGED <<systemVars, requestVars, lock, threadVars, providers, active, addrs, loaded>>

--------------------------------------------------------------------------------
(* Provider::TryUnload of the providers in S: DllCanUnloadNow says yes when *)
(* nothing of the DLL is in use.                                            *)
AfterUnload(S) == {p \in loaded : p \notin S \/ adapters[p] > 0}

\* A FlushProviders that forgets a provider its catalog entry is gone for.
FlushInactive ==
  /\ loaded' = AfterUnload(providers)
  /\ providers' = active

(* FlushProviders: unloads what it can, and drops what is inactive then. *)
FlushProviders ==
  /\ loaded' = AfterUnload(providers)
  /\ providers' = {p \in providers : p \in active \/ p \in loaded'}

(* QueryAddressList, ResolveAddress, CheckAddress or OpenAdapter begins. *)
Call(t) ==
  /\ pc[t] = "idle"
  /\ quiet' = [quiet EXCEPT ![t] = TRUE]
  /\ Goto(t, "poll")
  /\ UNCHANGED <<systemVars, requestVars, lock, key, room, todo, providers, active, addrs,
                 dllVars>>

(* ProcessUpdates: GetQueuedCompletionStatus finds a completion. *)
Dequeue(t, k) ==
  /\ pc[t] = "poll"
  /\ queued[k] > 0
  /\ queued' = [queued EXCEPT ![k] = @ - 1]
  /\ key' = [key EXCEPT ![t] = k]
  /\ Goto(t, "got")
  /\ UNCHANGED <<systemVars, armed, lock, room, todo, quiet, providers, active, addrs, dllVars>>

(* A request has failed: its completion is taken, and it is not issued again. *)
DequeueFailed(t, k) ==
  /\ "notify" \in Faults
  /\ pc[t] = "poll"
  /\ armed[k] > 0
  /\ armed' = [armed EXCEPT ![k] = @ - 1]
  /\ failed' = TRUE
  /\ UNCHANGED <<catalog, up, changes, torn, queued, lock, threadVars, providers, active, addrs,
                 dllVars>>

\* A poll that gives up after one completion, or none.
PollOnce(t) ==
  /\ pc[t] = "poll"
  /\ Goto(t, "lookup")
  /\ UNCHANGED <<systemVars, requestVars, lock, key, room, todo, quiet, providers, active,
                 addrs, dllVars>>

(* GetQueuedCompletionStatus times out: ProcessUpdates returns. *)
FindNothing(t) ==
  /\ pc[t] = "poll"
  /\ \A k \in Kind : queued[k] = 0
  /\ Goto(t, "lookup")
  /\ UNCHANGED <<systemVars, requestVars, lock, key, room, todo, quiet, providers, active,
                 addrs, dllVars>>

\* A switch that falls through from one kind of notification to the other.
RequestBoth(t) ==
  /\ pc[t] = "got"
  /\ lock = NoThread
  /\ lock' = t
  /\ armed' = [k \in Kind |-> IF k = key[t] \/ key[t] = "prov" THEN armed[k] + 1 ELSE armed[k]]
  /\ Goto(t, IF key[t] = "prov" THEN "size" ELSE "clear")
  /\ UNCHANGED <<systemVars, queued, key, room, todo, quiet, providers, active, addrs, dllVars>>

\* A case that does not request the next notification.
RequestNone(t) ==
  /\ pc[t] = "got"
  /\ lock = NoThread
  /\ lock' = t
  /\ Goto(t, IF key[t] = "prov" THEN "size" ELSE "clear")
  /\ UNCHANGED <<systemVars, requestVars, key, room, todo, quiet, providers, active, addrs,
                 dllVars>>

\* Another completion is posted, as Init does, where the next is to be requested.
PostNext(t) ==
  /\ pc[t] = "got"
  /\ lock = NoThread
  /\ lock' = t
  /\ queued' = [queued EXCEPT ![key[t]] = @ + 1]
  /\ Goto(t, IF key[t] = "prov" THEN "size" ELSE "clear")
  /\ UNCHANGED <<systemVars, armed, key, room, todo, quiet, providers, active, addrs, dllVars>>

(* m_lock is taken and the next request issued, before anything is read. *)
RequestNext(t) ==
  /\ pc[t] = "got"
  /\ lock = NoThread
  /\ lock' = t
  /\ armed' = [armed EXCEPT ![key[t]] = @ + 1]
  /\ Goto(t, IF key[t] = "prov" THEN "size" ELSE "clear")
  /\ UNCHANGED <<systemVars, queued, key, room, todo, quiet, providers, active, addrs, dllVars>>

(* ProcessProviderChange: WSCEnumProtocols tells the size, *)
SizeCatalog(t) ==
  /\ pc[t] = "size"
  /\ room' = Cardinality(catalog)
  /\ Goto(t, "enum")
  /\ UNCHANGED <<systemVars, requestVars, lock, key, todo, quiet, providers, active, addrs,
                 dllVars>>

(* or an early return: no size, no buffer, no catalog. *)
EnumerationFails(t) ==
  /\ "memory" \in Faults
  /\ pc[t] \in {"size", "enum"}
  /\ failed' = TRUE
  /\ room' = 0
  /\ Goto(t, "flush")
  /\ UNCHANGED <<catalog, up, changes, torn, requestVars, lock, key, todo, quiet, providers, active,
                 addrs, dllVars>>

(* The catalog has outgrown the buffer; the code tries only once. *)
CatalogOutgrows(t) ==
  /\ pc[t] = "enum"
  /\ Cardinality(catalog) > room
  /\ room' = 0
  /\ Goto(t, "flush")
  /\ UNCHANGED <<systemVars, requestVars, lock, key, todo, quiet, providers, active,
                 addrs, dllVars>>

(* The second WSCEnumProtocols.  Providers found again are active, others     *)
(* are not, new ones are added unless new or Provider::Init fails.           *)
ReadCatalog(t) ==
  /\ pc[t] = "enum"
  /\ Cardinality(catalog) <= room
  /\ \E bad \in SUBSET (catalog \ providers) :
       /\ bad # {} => "provider" \in Faults
       /\ providers' = providers \cup (catalog \ bad)
       /\ active' = catalog \ bad
       /\ failed' = (failed \/ bad # {})
  /\ room' = 0
  /\ Goto(t, "clear")
  /\ UNCHANGED <<catalog, up, changes, torn, requestVars, lock, key, todo, quiet, addrs, dllVars>>

(* An exception leaves ProcessUpdates: ~Lock gives m_lock back, FlushProviders *)
(* is not reached, and the call of the user ends with it.                    *)
LeaveByThrow(t) ==
  /\ "throw" \in Faults
  /\ failed' = TRUE
  /\ lock' = NoThread
  /\ key' = [key EXCEPT ![t] = "prov"]
  /\ quiet' = [quiet EXCEPT ![t] = FALSE]
  /\ Goto(t, "idle")

(* new throws for a provider that was not in the list.  All were marked        *)
(* inactive before; only those found until then are active, and the addresses *)
(* are the old ones.                                                         *)
ReadCatalogThrows(t) ==
  /\ pc[t] = "enum"
  /\ Cardinality(catalog) <= room
  /\ \E found \in SUBSET catalog : \E bad \in SUBSET (found \ providers) :
       /\ (catalog \ providers) \ found # {}
       /\ bad # {} => "provider" \in Faults
       /\ providers' = providers \cup (found \ bad)
       /\ active' = found \ bad
  /\ torn' = TRUE
  /\ room' = 0
  /\ LeaveByThrow(t)
  /\ UNCHANGED <<catalog, up, changes, requestVars, todo, addrs, dllVars>>

\* A rebuild that asks every provider in the list.
AskAll(t) ==
  /\ pc[t] = "clear"
  /\ addrs' = {}
  /\ todo' = providers
  /\ torn' = FALSE
  /\ Goto(t, "collect")
  /\ UNCHANGED <<catalog, up, changes, failed, requestVars, lock, key, room, quiet, providers, active, dllVars>>

(* ProcessAddressChange: both lists are emptied, and active providers asked. *)
ClearAddresses(t) ==
  /\ pc[t] = "clear"
  /\ addrs' = {}
  /\ todo' = active
  /\ torn' = FALSE
  /\ Goto(t, "collect")
  /\ UNCHANGED <<catalog, up, changes, failed, requestVars, lock, key, room, quiet, providers, active, dllVars>>

(* QueryAddressList of one provider: its DLL is loaded, asked and unloaded    *)
(* again if it can be.  Any failure leaves its addresses out.                *)
CollectFrom(t, p) ==
  /\ pc[t] = "collect"
  /\ p \in todo
  /\ todo' = todo \ {p}
  /\ \/ addrs' = addrs \cup ({p} \cap up) /\ UNCHANGED failed
     \/ Faults \cap {"memory", "provider"} # {} /\ failed' = TRUE /\ UNCHANGED addrs
  /\ loaded' = AfterUnload({p})
  /\ UNCHANGED <<catalog, up, changes, torn, requestVars, lock, pc, key, room, quiet, providers, active, adapters>>

(* new throws for an address of the provider: the rebuild ends where it is.    *)
CollectThrows(t, p) ==
  /\ pc[t] = "collect"
  /\ p \in todo \cap up
  /\ addrs' \in {addrs, addrs \cup {p}}
  /\ loaded' = AfterUnload({p})
  /\ todo' = {}
  /\ LeaveByThrow(t)
  /\ UNCHANGED <<catalog, up, changes, torn, requestVars, room, providers, active, adapters>>

(* The end of a turn of ProcessUpdates: FlushProviders, and m_lock is left. *)
FinishTurn(t) ==
  /\ pc[t] = "flush" \/ (pc[t] = "collect" /\ todo = {})
  /\ FlushProviders
  /\ lock' = NoThread
  /\ key' = [key EXCEPT ![t] = "prov"]
  /\ Goto(t, "poll")
  /\ UNCHANGED <<systemVars, requestVars, room, todo, quiet, active, addrs, adapters>>

(* The lookup of QueryAddressList, ResolveAddress and CheckAddress. *)
LookUp(t) ==
  /\ pc[t] = "lookup"
  /\ lock = NoThread
  /\ quiet' = [quiet EXCEPT ![t] = FALSE]
  /\ Goto(t, "idle")
  /\ UNCHANGED <<systemVars, requestVars, lock, key, room, todo, providers, active, addrs,
                 dllVars>>

(* OpenAdapter: the providers listed with the address are tried one after     *)
(* the other until one opens an adapter; each is unloaded again if it can be. *)
OpenAdapter(t) ==
  /\ pc[t] = "lookup"
  /\ lock = NoThread
  /\ \E tried \in SUBSET (addrs \cap providers) :
       \/ /\ loaded' = AfterUnload(tried)
          /\ UNCHANGED adapters
       \/ \E p \in tried :
            /\ adapters[p] < MaxAdapters
            /\ adapters' = [adapters EXCEPT ![p] = @ + 1]
            /\ loaded' = AfterUnload(tried \ {p}) \cup {p}
  /\ quiet' = [quiet EXCEPT ![t] = FALSE]
  /\ Goto(t, "idle")
  /\ UNCHANGED <<systemVars, requestVars, lock, key, room, todo, providers, active, addrs>>

(* OpenAdapter comes to an address whose provider was deleted.  What it does   *)
(* then is undefined; nothing is said of the process from there on.          *)
CallDeleted(t) ==
  /\ pc[t] = "lookup"
  /\ lock = NoThread
  /\ addrs \ providers # {}
  /\ pc' = [u \in Thread |-> "dead"]
  /\ UNCHANGED <<systemVars, requestVars, lock, key, room, todo, quiet, providers, active,
                 addrs, dllVars>>

(* FlushProvidersForUser; it does not look for updates. *)
FlushProvidersForUser(t) ==
  /\ pc[t] = "idle"
  /\ lock = NoThread
  /\ FlushProviders
  /\ UNCHANGED <<systemVars, requestVars, lock, threadVars, active, addrs, adapters>>

--------------------------------------------------------------------------------
(* A step of a thread that is in ProcessUpdates. *)
UpdateStep(t) ==
  \/ \E k \in Kind : Dequeue(t, k) \/ DequeueFailed(t, k)
  \/ FindNothing(t)
  \/ RequestNext(t)
  \/ SizeCatalog(t)
  \/ EnumerationFails(t)
  \/ CatalogOutgrows(t)
  \/ ReadCatalog(t)
  \/ ReadCatalogThrows(t)
  \/ ClearAddresses(t)
  \/ \E p \in Provider : CollectFrom(t, p) \/ CollectThrows(t, p)
  \/ FinishTurn(t)

ThreadStep(t) ==
  \/ Call(t)
  \/ UpdateStep(t)
  \/ LookUp(t)
  \/ OpenAdapter(t)
  \/ CallDeleted(t)
  \/ FlushProvidersForUser(t)

SystemStep(p) ==
  \/ CatalogChanges(p)
  \/ AddressChanges(p)
  \/ ReleaseAdapter(p)

Next ==
  \/ \E t \in Thread : ThreadStep(t)
  \/ \E p \in Provider : SystemStep(p)

Spec == Init /\ [][Next]_vars

(* A thread in a call runs; the system changes nothing it does not want to. *)
Fairness ==
  \A t \in Thread : WF_vars(UpdateStep(t)) /\ WF_vars(LookUp(t) \/ OpenAdapter(t) \/ CallDeleted(t))

FairSpec == Spec /\ Fairness
--------------------------------------------------------------------------------
TypeOK ==
  /\ catalog \in SUBSET Provider
  /\ up \in SUBSET Provider
  /\ changes \in 0..MaxChanges
  /\ failed \in BOOLEAN
  /\ torn \in BOOLEAN
  /\ armed \in [Kind -> Nat]
  /\ queued \in [Kind -> Nat]
  /\ lock \in Thread \cup {NoThread}
  /\ pc \in [Thread -> PC]
  /\ key \in [Thread -> Kind]
  /\ room \in Nat
  /\ todo \in SUBSET Provider
  /\ quiet \in [Thread -> BOOLEAN]
  /\ providers \in SUBSET Provider
  /\ active \in SUBSET Provider
  /\ addrs \in SUBSET Provider
  /\ loaded \in SUBSET Provider
  /\ adapters \in [Provider -> 0..MaxAdapters]

(* The lists are rebuilt by one thread at a time (ndfrmwrk.cpp:625 and 895).  *)
RebuildIsExclusive == \A t \in Thread : pc[t] \in Working <=> lock = t

(* The one OVERLAPPED of a kind of notification, m_Ov, is in one place: a     *)
(* request that is pending, a completion in the queue, or one that a thread   *)
(* took and has not replaced by the next request (ndfrmwrk.cpp:634 and 644).  *)
OneRequestPerKind ==
  \A k \in Kind :
    /\ armed[k] + queued[k] <= 1
    /\ armed[k] + queued[k] = 1 => \A t \in Thread : ~(pc[t] = "got" /\ key[t] = k)
    /\ \A t, u \in Thread :
         pc[t] = "got" /\ pc[u] = "got" /\ key[t] = k /\ key[u] = k => t = u

(* An Address points at a provider that is in the list, and while nobody      *)
(* rebuilds the lists, at one that is active: no lookup goes to a deleted or  *)
(* outdated provider, whichever requests, allocations or providers fail.     *)
(* The one exception is an operator new that throws while the catalog is read, *)
(* until the addresses are next rebuilt (ndfrmwrk.cpp:704-793, 812-905 and    *)
(* 426-436).                                                                 *)
AddressesHaveProviders ==
  /\ active \subseteq providers
  /\ ~torn => /\ addrs \subseteq providers
              /\ lock = NoThread => addrs \subseteq active

(* A provider with an adapter open stays loaded and listed, also when it is   *)
(* gone from the catalog (ndfrmwrk.cpp:892-905 and ndprov.cpp:157-176).       *)
AdapterKeepsProvider ==
  \A p \in Provider : adapters[p] > 0 => p \in loaded /\ p \in providers

(* The lists say what the system does. *)
InSync == active = catalog /\ addrs = catalog \cap up

(* A change is never lost unless something failed: while the lists are not    *)
(* what the system says, a completion waits or a thread has one in hand.      *)
(* That is what requesting before reading is for (ndfrmwrk.cpp:632-633 and    *)
(* 642-643), and why one try at the catalog is enough (ndfrmwrk.cpp:676-677). *)
NoLostChange ==
  ~failed /\ lock = NoThread /\ ~InSync =>
    \/ \E k \in Kind : queued[k] > 0
    \/ \E t \in Thread : pc[t] = "got"

(* "Sync our provider and address lists" (ndfrmwrk.cpp:197): a lookup finds   *)
(* the lists in sync, if nothing changed since the call began.               *)
SyncedLookup ==
  \A t \in Thread :
    pc[t] = "lookup" /\ lock = NoThread /\ quiet[t] => InSync

(* A lookup that finds the lists out of date, though nothing changed since    *)
(* its call began, is one another thread has taken the completion from: it    *)
(* was in that thread's hands before m_lock (ndfrmwrk.cpp:623 and 627).  So   *)
(* the lookups of a process with one thread are always in sync.              *)
StaleLookupHasCause ==
  \A t \in Thread :
    ~failed /\ pc[t] = "lookup" /\ lock = NoThread /\ quiet[t] /\ ~InSync =>
      \E u \in Thread \ {t} : pc[u] = "got"

(* ASSERT(status == 0) after the request for address changes                  *)
(* (ndfrmwrk.cpp:646): the request is not pending when it has been issued.    *)
AddressRequestIsImmediate ==
  \A t \in Thread : pc[t] = "clear" /\ key[t] = "addr" => armed["addr"] = 0

(* A call comes back, once the system stops changing: it finds no completion  *)
(* at last, and gets m_lock for every turn (ndfrmwrk.cpp:609-666).           *)
CallReturns == \A t \in Thread : pc[t] = "poll" ~> pc[t] \in {"idle", "dead"}

================================================================================
