--------------------------- MODULE NdFrameworkProofs ---------------------------
(* Proofs about the lists of a framework, for every set of threads, every    *)
(* finite set of providers, every number of changes and adapters, and        *)
(* whatever may fail, unless a theorem says otherwise.                       *)
EXTENDS NdFramework, FiniteSetTheorems, TLAPS

(* The addresses are those of active providers, but while the list of         *)
(* providers is new and that of addresses is not, or stays as it was because  *)
(* an operator new threw in between.                                         *)
ListStage ==
  /\ active \subseteq providers
  /\ ~torn => /\ addrs \subseteq providers
              /\ (\A t \in Thread : pc[t] # "clear") => addrs \subseteq active
  /\ (\E t \in Thread : pc[t] = "collect") => ~torn
  /\ torn => failed
  /\ \A t \in Thread : pc[t] = "collect" => todo \subseteq active

FrameInv ==
  /\ TypeOK
  /\ RebuildIsExclusive
  /\ OneRequestPerKind
  /\ ListStage
  /\ AdapterKeepsProvider

--------------------------------------------------------------------------------
(* The lists are empty, and one OVERLAPPED is pending, the other queued. *)
LEMMA InitFrame == Init => FrameInv
<1>. SUFFICES ASSUME Init
              PROVE  FrameInv
  OBVIOUS
<1>1. TypeOK
  <2>1. failed \in BOOLEAN /\ torn \in BOOLEAN /\ quiet \in [Thread -> BOOLEAN]
    BY Zenon DEF Init
  <2>. QED
    BY <2>1, FrameworkAssumption DEF Init, TypeOK, Kind, PC
<1>2. RebuildIsExclusive /\ OneRequestPerKind
  BY FrameworkAssumption DEF Init, RebuildIsExclusive, OneRequestPerKind, Kind, Working
<1>3. ListStage /\ AdapterKeepsProvider
  BY DEF Init, ListStage, AdapterKeepsProvider
<1>. QED
  BY <1>1, <1>2, <1>3 DEF FrameInv

(* The system moves requests and its own state only. *)
LEMMA SystemStepFrame ==
  ASSUME FrameInv, NEW p \in Provider, SystemStep(p)
  PROVE  FrameInv'
<1>. USE DEF FrameInv
<1>1. CASE CatalogChanges(p)
  <2>1. TypeOK'
    BY <1>1, FrameworkAssumption
       DEF CatalogChanges, Toggle, Notify, TypeOK, Kind, dllVars, requestVars
  <2>2. OneRequestPerKind'
    BY <1>1 DEF CatalogChanges, Notify, OneRequestPerKind, TypeOK, Kind, requestVars
  <2>. QED
    BY <1>1, <2>1, <2>2 DEF CatalogChanges, RebuildIsExclusive, ListStage, AdapterKeepsProvider,
       dllVars
<1>2. CASE AddressChanges(p)
  <2>1. TypeOK'
    BY <1>2, FrameworkAssumption
       DEF AddressChanges, Toggle, Notify, TypeOK, Kind, dllVars, requestVars
  <2>2. OneRequestPerKind'
    BY <1>2 DEF AddressChanges, Notify, OneRequestPerKind, TypeOK, Kind, requestVars
  <2>. QED
    BY <1>2, <2>1, <2>2 DEF AddressChanges, RebuildIsExclusive, ListStage, AdapterKeepsProvider,
       dllVars
<1>3. CASE ReleaseAdapter(p)
  <2>1. TypeOK' /\ AdapterKeepsProvider'
    BY <1>3, FrameworkAssumption DEF ReleaseAdapter, TypeOK, AdapterKeepsProvider, systemVars,
       requestVars, threadVars
  <2>. QED
    BY <1>3, <2>1 DEF ReleaseAdapter, RebuildIsExclusive, OneRequestPerKind, ListStage,
       systemVars, requestVars, threadVars
<1>. QED
  BY <1>1, <1>2, <1>3 DEF SystemStep

(* Where a thread goes decides who may rebuild the lists. *)
LEMMA ThreadStepExclusive ==
  ASSUME FrameInv, NEW t \in Thread, ThreadStep(t)
  PROVE  RebuildIsExclusive' /\ pc' \in [Thread -> PC] /\ lock' \in Thread \cup {NoThread}
<1>. USE FrameworkAssumption DEF FrameInv, TypeOK, RebuildIsExclusive, Goto, PC, Working
<1>1. CASE RequestNext(t)
  BY <1>1 DEF RequestNext, Kind
<1>2. CASE FinishTurn(t)
  BY <1>2 DEF FinishTurn
<1>4. ASSUME ReadCatalogThrows(t) \/ \E p \in Provider : CollectThrows(t, p)
      PROVE  /\ pc[t] \in Working /\ pc' = [pc EXCEPT ![t] = "idle"] /\ lock' = NoThread
  BY <1>4 DEF ReadCatalogThrows, CollectThrows, LeaveByThrow
<1>5. CASE CallDeleted(t)
  BY <1>5 DEF CallDeleted
<1>3. ASSUME ThreadStep(t), ~RequestNext(t), ~FinishTurn(t), ~ReadCatalogThrows(t),
             ~(\E p \in Provider : CollectThrows(t, p)), ~CallDeleted(t)
      PROVE  /\ lock' = lock
             /\ pc' \in [Thread -> PC]
             /\ \A u \in Thread \ {t} : pc'[u] = pc[u]
             /\ pc'[t] \in Working <=> pc[t] \in Working
  <2>1. CASE UNCHANGED <<lock, pc>>
    BY <2>1
  <2>2. ASSUME NEW place \in PC, UNCHANGED lock, pc' = [pc EXCEPT ![t] = place],
               place \in Working <=> pc[t] \in Working
        PROVE  /\ pc' \in [Thread -> PC]
               /\ \A u \in Thread \ {t} : pc'[u] = pc[u]
               /\ pc'[t] \in Working <=> pc[t] \in Working
    BY <2>2
  <2>3. CASE UpdateStep(t)
    <3>1. UNCHANGED lock
      BY <1>3, <2>3 DEF UpdateStep, Dequeue, DequeueFailed, FindNothing, SizeCatalog,
         EnumerationFails, CatalogOutgrows, ReadCatalog, ClearAddresses, CollectFrom
    <3>2. \/ UNCHANGED <<lock, pc>>
          \/ \E place \in PC : pc' = [pc EXCEPT ![t] = place] /\ (place \in Working <=> pc[t] \in Working)
      <4>. USE <1>3, <2>3 DEF UpdateStep
      <4>1. CASE \E k \in Kind : Dequeue(t, k) \/ DequeueFailed(t, k)
        BY <4>1 DEF Dequeue, DequeueFailed, threadVars
      <4>2. CASE FindNothing(t) \/ SizeCatalog(t) \/ EnumerationFails(t) \/ CatalogOutgrows(t)
        BY <4>2 DEF FindNothing, SizeCatalog, EnumerationFails, CatalogOutgrows
      <4>3. CASE ReadCatalog(t) \/ ClearAddresses(t) \/ \E p \in Provider : CollectFrom(t, p)
        BY <4>3 DEF ReadCatalog, ClearAddresses, CollectFrom
      <4>. QED
        BY <4>1, <4>2, <4>3
    <3>. QED
      BY <2>1, <2>2, <3>1, <3>2
  <2>4. CASE Call(t)
    BY <2>2, <2>4 DEF Call
  <2>5. CASE LookUp(t) \/ OpenAdapter(t)
    <3>1. UNCHANGED lock /\ pc' = [pc EXCEPT ![t] = "idle"] /\ pc[t] = "lookup"
      BY <2>5 DEF LookUp, OpenAdapter
    <3>. QED
      BY <2>2, <3>1
  <2>6. CASE FlushProvidersForUser(t)
    BY <2>1, <2>6 DEF FlushProvidersForUser, threadVars
  <2>. QED
    BY <1>3, <2>3, <2>4, <2>5, <2>6 DEF ThreadStep
<1>. QED
  BY <1>1, <1>2, <1>3, <1>4, <1>5

(* A completion taken and a request issued move the one OVERLAPPED on. *)
LEMMA ThreadStepRequests ==
  ASSUME FrameInv, NEW t \in Thread, ThreadStep(t)
  PROVE  OneRequestPerKind' /\ armed' \in [Kind -> Nat] /\ queued' \in [Kind -> Nat]
         /\ key' \in [Thread -> Kind]
<1>. USE DEF FrameInv, TypeOK, OneRequestPerKind, Goto
<1>1. ASSUME NEW k \in Kind, Dequeue(t, k)
      PROVE  OneRequestPerKind' /\ armed' = armed /\ queued' \in [Kind -> Nat]
             /\ key' \in [Thread -> Kind]
  <2>1. /\ armed' = armed /\ pc[t] = "poll" /\ queued[k] = 1 /\ armed[k] = 0
        /\ queued' = [queued EXCEPT ![k] = 0]
        /\ key' = [key EXCEPT ![t] = k]
        /\ pc' = [pc EXCEPT ![t] = "got"]
    <3>1. armed[k] \in Nat /\ queued[k] \in Nat /\ queued[k] > 0 /\ armed[k] + queued[k] <= 1
      BY <1>1 DEF Dequeue
    <3>2. \A a, q \in Nat : q > 0 /\ a + q <= 1 => q = 1 /\ a = 0
      OBVIOUS
    <3>3. queued[k] = 1 /\ armed[k] = 0
      BY <3>1, <3>2, Zenon
    <3>. QED
      BY <1>1, <3>3 DEF Dequeue
  <2>2. \A u \in Thread : ~(pc[u] = "got" /\ key[u] = k)
    BY <2>1
  <2>. QED
    BY <2>1, <2>2
<1>2. CASE \E k \in Kind : DequeueFailed(t, k)
  BY <1>2 DEF DequeueFailed, threadVars
<1>3. CASE RequestNext(t)
  <2>1. /\ pc[t] = "got" /\ pc'[t] # "got" /\ \A u \in Thread \ {t} : pc'[u] = pc[u]
        /\ armed' = [armed EXCEPT ![key[t]] = @ + 1]
        /\ UNCHANGED <<queued, key>> /\ key[t] \in Kind
    BY <1>3 DEF RequestNext
  <2>2. armed[key[t]] + queued[key[t]] = 0
    <3>1. \A a, q \in Nat : a + q <= 1 /\ a + q # 1 => a + q = 0
      OBVIOUS
    <3>. QED
      BY <2>1, <3>1
  <2>3. \A k \in Kind : k # key[t] => armed'[k] = armed[k]
    BY <2>1
  <2>4. armed'[key[t]] + queued[key[t]] = 1
    BY <2>1, <2>2
  <2>. QED
    BY <2>1, <2>3, <2>4
<1>4. ASSUME ThreadStep(t), ~(\E k \in Kind : Dequeue(t, k) \/ DequeueFailed(t, k)), ~RequestNext(t)
      PROVE  /\ UNCHANGED <<armed, queued>>
             /\ key' = key \/ key' = [key EXCEPT ![t] = "prov"]
             /\ \A u \in Thread : pc'[u] = "got" => pc[u] = "got" /\ key'[u] = key[u]
  BY <1>4 DEF ThreadStep, UpdateStep, Call, FindNothing, SizeCatalog,
     EnumerationFails, CatalogOutgrows, ReadCatalog, ReadCatalogThrows, ClearAddresses,
     CollectFrom, CollectThrows, LeaveByThrow, FinishTurn, LookUp, OpenAdapter, CallDeleted,
     FlushProvidersForUser, requestVars, threadVars
<1>5. ASSUME UNCHANGED <<armed, queued>>, key' = key \/ key' = [key EXCEPT ![t] = "prov"],
             \A u \in Thread : pc'[u] = "got" => pc[u] = "got" /\ key'[u] = key[u]
      PROVE  /\ OneRequestPerKind' /\ armed' \in [Kind -> Nat] /\ queued' \in [Kind -> Nat]
             /\ key' \in [Thread -> Kind]
  <2>1. key' \in [Thread -> Kind]
    BY <1>5 DEF Kind
  <2>. QED
    BY <1>5, <2>1
<1>6. CASE ~(\E k \in Kind : Dequeue(t, k) \/ DequeueFailed(t, k)) /\ ~RequestNext(t)
  <2>1. /\ UNCHANGED <<armed, queued>>
        /\ key' = key \/ key' = [key EXCEPT ![t] = "prov"]
        /\ \A u \in Thread : pc'[u] = "got" => pc[u] = "got" /\ key'[u] = key[u]
    BY <1>4, <1>6
  <2>. QED
    BY <1>5, <2>1
<1>7. ASSUME NEW k \in Kind, Dequeue(t, k)
      PROVE  armed' \in [Kind -> Nat]
  BY <1>1, <1>7
<1>. QED
  BY <1>1, <1>2, <1>3, <1>6, <1>7, Zenon

(* What FlushProviders keeps. *)
LEMMA FlushKeeps ==
  ASSUME FrameInv, FlushProviders, adapters' = adapters, active' = active
  PROVE  /\ loaded' \in SUBSET Provider /\ providers' \in SUBSET Provider
         /\ active \subseteq providers'
         /\ AdapterKeepsProvider'
BY DEF FrameInv, TypeOK, ListStage, AdapterKeepsProvider, FlushProviders, AfterUnload

(* The steps of a thread in a call. *)
LEMMA ThreadStepFrame ==
  ASSUME FrameInv, NEW t \in Thread, ThreadStep(t)
  PROVE  FrameInv'
<1>1. /\ RebuildIsExclusive' /\ OneRequestPerKind'
      /\ pc' \in [Thread -> PC] /\ lock' \in Thread \cup {NoThread}
      /\ armed' \in [Kind -> Nat] /\ queued' \in [Kind -> Nat] /\ key' \in [Thread -> Kind]
  BY ThreadStepExclusive, ThreadStepRequests
<1>. DEFINE lists == TypeOK' /\ ListStage' /\ AdapterKeepsProvider'
<1>0. \A u \in Thread : pc[t] \in Working /\ pc[u] \in Working => u = t
  BY FrameworkAssumption DEF FrameInv, RebuildIsExclusive
<1>. USE DEF FrameInv, TypeOK, Goto
<1>2. ASSUME \/ Call(t) \/ FindNothing(t) \/ SizeCatalog(t) \/ EnumerationFails(t)
             \/ CatalogOutgrows(t) \/ LookUp(t) \/ RequestNext(t) \/ CallDeleted(t)
             \/ \E k \in Kind : Dequeue(t, k) \/ DequeueFailed(t, k)
      PROVE  lists
  <2>0. Cardinality(catalog) \in Nat
    BY FrameworkAssumption, FS_CardinalityType, FS_Subset
  <2>1. /\ UNCHANGED <<catalog, up, changes, torn, providers, active, addrs, dllVars, todo>>
        /\ failed' = failed \/ failed' = TRUE
        /\ room' \in {room, Cardinality(catalog), 0}
        /\ \/ quiet' = quiet
           \/ quiet' = [quiet EXCEPT ![t] = TRUE]
           \/ quiet' = [quiet EXCEPT ![t] = FALSE]
    BY <1>2 DEF systemVars, Call, FindNothing, SizeCatalog, EnumerationFails, CatalogOutgrows, LookUp,
       RequestNext, CallDeleted, Dequeue, DequeueFailed, threadVars
  <2>2. TypeOK' /\ AdapterKeepsProvider'
    <3>1. quiet' \in [Thread -> BOOLEAN]
      BY <2>1, Zenon
    <3>2. failed' \in BOOLEAN
      BY <2>1, Zenon
    <3>. QED
      BY <1>1, <2>0, <2>1, <3>1, <3>2 DEF AdapterKeepsProvider, dllVars
  <2>3. ListStage'
    BY <1>2, <1>0, <2>1 DEF ListStage, Call, FindNothing, SizeCatalog, EnumerationFails,
       CatalogOutgrows, LookUp, RequestNext, CallDeleted, Dequeue, DequeueFailed, threadVars,
       Working
  <2>. QED
    BY <2>2, <2>3
<1>3. ASSUME ReadCatalog(t)
      PROVE  lists
  <2>0. failed' \in BOOLEAN
    BY <1>3, Zenon DEF ReadCatalog
  <2>1. TypeOK' /\ AdapterKeepsProvider'
    BY <1>1, <1>3, <2>0 DEF ReadCatalog, AdapterKeepsProvider, requestVars, dllVars
  <2>2. ListStage'
    <3>1. pc'[t] = "clear"
      BY <1>3 DEF ReadCatalog
    <3>2. active' \subseteq providers' /\ (~torn' => addrs' \subseteq providers')
      BY <1>3 DEF ReadCatalog, ListStage
    <3>3. \A u \in Thread : pc'[u] # "collect"
      BY <1>0, <1>3 DEF ReadCatalog, Working
    <3>4. torn' => failed'
      BY <1>3, Zenon DEF ReadCatalog, ListStage
    <3>. QED
      BY <3>1, <3>2, <3>3, <3>4 DEF ListStage
  <2>. QED
    BY <2>1, <2>2
<1>4. ASSUME ClearAddresses(t)
      PROVE  lists
  BY <1>1, <1>4 DEF ClearAddresses, ListStage, AdapterKeepsProvider, systemVars, requestVars, dllVars
<1>9. ASSUME ReadCatalogThrows(t)
      PROVE  lists
  <2>0. /\ failed' \in BOOLEAN /\ failed' /\ torn' \in BOOLEAN /\ torn' /\ quiet' \in [Thread -> BOOLEAN]
        /\ pc' = [pc EXCEPT ![t] = "idle"]
    BY <1>9, Zenon DEF ReadCatalogThrows, LeaveByThrow
  <2>1. /\ UNCHANGED <<catalog, up, changes, todo, addrs, dllVars>> /\ room' = 0
        /\ providers' \in SUBSET Provider /\ active' \subseteq providers'
        /\ providers \subseteq providers'
    BY <1>9 DEF ReadCatalogThrows
  <2>2. TypeOK' /\ AdapterKeepsProvider'
    BY <1>1, <2>0, <2>1 DEF AdapterKeepsProvider, dllVars
  <2>3. ListStage'
    <3>1. \A u \in Thread : pc'[u] # "collect"
      BY <1>0, <1>9, <2>0 DEF ReadCatalogThrows, Working
    <3>. QED
      BY <2>0, <2>1, <3>1 DEF ListStage
  <2>. QED
    BY <2>2, <2>3
<1>10. ASSUME NEW p \in Provider, CollectThrows(t, p)
       PROVE  lists
  <2>0. /\ failed' \in BOOLEAN /\ quiet' \in [Thread -> BOOLEAN]
        /\ pc' = [pc EXCEPT ![t] = "idle"]
    BY <1>10, Zenon DEF CollectThrows, LeaveByThrow
  <2>1. /\ todo' = {} /\ p \in active /\ addrs' \subseteq addrs \cup {p}
        /\ UNCHANGED <<catalog, up, changes, torn, room, providers, active, adapters>>
    BY <1>10 DEF CollectThrows, ListStage
  <2>2. loaded' \in SUBSET Provider /\ AdapterKeepsProvider'
    BY <1>10 DEF CollectThrows, AfterUnload, AdapterKeepsProvider
  <2>3. ListStage'
    <3>1. /\ ~torn /\ \A u \in Thread : pc'[u] # "collect"
          /\ \A u \in Thread : pc[u] # "clear"
      BY <1>0, <1>10, <2>0 DEF CollectThrows, Working, ListStage
    <3>. QED
      BY <2>1, <3>1 DEF ListStage
  <2>4. TypeOK'
    BY <1>1, <2>0, <2>1, <2>2, <2>3 DEF ListStage
  <2>. QED
    BY <2>2, <2>3, <2>4
<1>5. ASSUME NEW p \in Provider, CollectFrom(t, p)
      PROVE  lists
  <2>1. /\ todo' = todo \ {p} /\ p \in active /\ addrs' \subseteq addrs \cup {p}
        /\ todo \subseteq active /\ ~torn
        /\ UNCHANGED <<catalog, up, changes, torn, requestVars, lock, pc, key, room, quiet,
                       providers, active, adapters>>
    BY <1>5 DEF CollectFrom, ListStage
  <2>2. loaded' \in SUBSET Provider /\ AdapterKeepsProvider'
    BY <1>5 DEF CollectFrom, AfterUnload, AdapterKeepsProvider
  <2>3. ListStage'
    BY <2>1 DEF ListStage
  <2>4. failed' \in BOOLEAN
    BY <1>5, Zenon DEF CollectFrom
  <2>5. TypeOK'
    BY <1>1, <2>1, <2>2, <2>3, <2>4 DEF ListStage, requestVars
  <2>. QED
    BY <2>2, <2>3, <2>5
<1>6. ASSUME FinishTurn(t)
      PROVE  lists
  <2>1. /\ UNCHANGED <<systemVars, requestVars, room, todo, quiet, active, addrs, adapters>>
        /\ loaded' \in SUBSET Provider /\ providers' \in SUBSET Provider
        /\ active \subseteq providers'
        /\ AdapterKeepsProvider'
    BY <1>6, FlushKeeps DEF FinishTurn
  <2>2. ~torn => addrs \subseteq active
    BY <1>0, <1>6 DEF FinishTurn, ListStage, Working
  <2>3. ListStage'
    BY <1>6, <2>1, <2>2 DEF FinishTurn, ListStage, systemVars
  <2>4. TypeOK'
    BY <1>1, <2>1 DEF systemVars, requestVars
  <2>. QED
    BY <2>1, <2>3, <2>4
<1>7. ASSUME OpenAdapter(t)
      PROVE  lists
  <2>0. quiet' \in [Thread -> BOOLEAN]
    BY <1>7, Zenon DEF OpenAdapter
  <2>1. /\ UNCHANGED <<systemVars, requestVars, lock, key, room, todo, providers, active, addrs>>
        /\ loaded' \in SUBSET Provider
        /\ adapters' \in [Provider -> 0..MaxAdapters]
        /\ AdapterKeepsProvider'
    BY <1>7, FrameworkAssumption DEF OpenAdapter, AfterUnload, AdapterKeepsProvider, ListStage
  <2>2. ListStage'
    BY <1>7, <2>1 DEF OpenAdapter, ListStage, systemVars
  <2>. QED
    BY <1>1, <2>0, <2>1, <2>2 DEF systemVars, requestVars
<1>8. ASSUME FlushProvidersForUser(t)
      PROVE  lists
  <2>1. /\ UNCHANGED <<systemVars, requestVars, lock, threadVars, active, addrs, adapters>>
        /\ loaded' \in SUBSET Provider /\ providers' \in SUBSET Provider
        /\ active \subseteq providers'
        /\ AdapterKeepsProvider'
    BY <1>8, FlushKeeps DEF FlushProvidersForUser
  <2>2. ~torn => addrs \subseteq active
    BY <1>8, FrameworkAssumption DEF FlushProvidersForUser, ListStage, RebuildIsExclusive, Working
  <2>. QED
    BY <1>1, <2>1, <2>2 DEF ListStage, systemVars, requestVars, threadVars
<1>. QED
  BY <1>1, <1>2, <1>3, <1>4, <1>5, <1>6, <1>7, <1>8, <1>9, <1>10 DEF ThreadStep, UpdateStep

(* What is known of the framework in every state: who holds m_lock, where     *)
(* each OVERLAPPED is, what the lists hold at each stage of a rebuild, and     *)
(* which providers their adapters keep (ndfrmwrk.cpp:609-906).                *)
THEOREM FrameInvariant == Spec => []FrameInv
<1>1. FrameInv /\ [Next]_vars => FrameInv'
  <2>. SUFFICES ASSUME FrameInv, [Next]_vars
                PROVE  FrameInv'
    OBVIOUS
  <2>1. CASE UNCHANGED vars
    BY <2>1 DEF vars, systemVars, requestVars, threadVars, dllVars, FrameInv, TypeOK,
       RebuildIsExclusive, OneRequestPerKind, ListStage, AdapterKeepsProvider
  <2>2. CASE Next
    BY <2>2, ThreadStepFrame, SystemStepFrame DEF Next
  <2>. QED
    BY <2>1, <2>2
<1>. QED
  BY <1>1, InitFrame, PTL DEF Spec

(* The lists are rebuilt by one thread at a time, and every notification's    *)
(* OVERLAPPED is in one place (ndfrmwrk.cpp:625-650).                         *)
THEOREM UpdatesAreSerial == Spec => [](TypeOK /\ RebuildIsExclusive /\ OneRequestPerKind)
<1>1. FrameInv => TypeOK /\ RebuildIsExclusive /\ OneRequestPerKind
  BY DEF FrameInv
<1>. QED
  BY <1>1, FrameInvariant, PTL

(* No address leads to a provider that was deleted, nor, outside a rebuild,   *)
(* to one that is not active, from any failure but an operator new that       *)
(* throws while the catalog is read, and from that one only until the         *)
(* addresses are next rebuilt (ndfrmwrk.cpp:704-793 and 812-905).             *)
THEOREM AddressesLeadSomewhere == Spec => []AddressesHaveProviders
<1>1. FrameInv => AddressesHaveProviders
  <2>. SUFFICES ASSUME FrameInv, lock = NoThread, ~torn
                PROVE  addrs \subseteq active
    BY DEF FrameInv, ListStage, AddressesHaveProviders
  <2>. QED
    BY FrameworkAssumption DEF FrameInv, ListStage, RebuildIsExclusive, Working
<1>. QED
  BY <1>1, FrameInvariant, PTL

(* An open adapter keeps its provider's DLL loaded, also when the provider    *)
(* leaves the catalog (ndfrmwrk.cpp:892-905 and ndprov.cpp:157-176).          *)
THEOREM AdaptersAreSafe == Spec => []AdapterKeepsProvider
<1>1. FrameInv => AdapterKeepsProvider
  BY DEF FrameInv
<1>. QED
  BY <1>1, FrameInvariant, PTL

--------------------------------------------------------------------------------
(* Word of a change is in the queue or in the hands of a thread. *)
Pending(k) ==
  \/ queued[k] > 0
  \/ \E t \in Thread : pc[t] = "got" /\ key[t] = k

(* Whenever it is not, the next change will bring word: none goes unnoticed. *)
Covered == \A k \in Kind : armed[k] = 0 => Pending(k)

(* The providers are those of the catalog, or word is pending, or a thread is *)
(* about to read it, with a buffer of the right size unless word is pending.  *)
CatalogStage ==
  /\ (\A t \in Thread : pc[t] \notin {"size", "enum"}) => active = catalog \/ Pending("prov")
  /\ \A t \in Thread : pc[t] = "enum" => room = Cardinality(catalog) \/ Pending("prov")

(* The same of the addresses, with those not yet asked for left out. *)
AddressStage ==
  /\ (\A t \in Thread : pc[t] \notin {"clear", "collect"}) =>
       addrs = active \cap up \/ Pending("addr")
  /\ \A t \in Thread : pc[t] = "collect" =>
       addrs = (active \ todo) \cap up \/ Pending("addr")

ChangeInv == Covered /\ CatalogStage /\ AddressStage

(* A change completes a pending request, or word of one is pending already. *)
LEMMA ChangeIsTold ==
  ASSUME FrameInv, ChangeInv, NEW k \in Kind, Notify(k), pc' = pc, key' = key
  PROVE  /\ Pending(k)'
         /\ \A j \in Kind : Pending(j) => Pending(j)'
         /\ Covered'
<1>1. CASE armed[k] > 0
  <2>1. queued' = [queued EXCEPT ![k] = @ + 1] /\ armed' = [armed EXCEPT ![k] = @ - 1]
    BY <1>1 DEF Notify
  <2>2. queued'[k] > 0 /\ \A j \in Kind : queued[j] > 0 => queued'[j] > 0
    BY <2>1 DEF FrameInv, TypeOK
  <2>3. \A j \in Kind \ {k} : armed'[j] = armed[j]
    BY <2>1 DEF FrameInv, TypeOK
  <2>. QED
    BY <2>2, <2>3 DEF ChangeInv, Covered, Pending
<1>2. CASE ~(armed[k] > 0)
  <2>1. armed[k] = 0
    BY <1>2 DEF FrameInv, TypeOK
  <2>2. UNCHANGED <<armed, queued>>
    BY <1>2 DEF Notify, requestVars
  <2>. QED
    BY <2>1, <2>2 DEF ChangeInv, Covered, Pending
<1>. QED
  BY <1>1, <1>2

(* The system's steps keep word of what they change. *)
LEMMA SystemStepChange ==
  ASSUME FrameInv, ChangeInv, NEW p \in Provider, SystemStep(p)
  PROVE  ChangeInv'
<1>1. CASE CatalogChanges(p)
  <2>1. /\ Notify("prov") /\ UNCHANGED <<up, pc, key, room, todo, active, addrs>>
    BY <1>1 DEF CatalogChanges
  <2>2. Pending("prov")' /\ Covered' /\ (Pending("addr") => Pending("addr")')
    BY <2>1, ChangeIsTold DEF Kind
  <2>. QED
    BY <2>1, <2>2 DEF ChangeInv, CatalogStage, AddressStage
<1>2. CASE AddressChanges(p)
  <2>1. /\ Notify("addr") /\ UNCHANGED <<catalog, pc, key, room, todo, active, addrs>>
    BY <1>2 DEF AddressChanges
  <2>2. Pending("addr")' /\ Covered' /\ (Pending("prov") => Pending("prov")')
    BY <2>1, ChangeIsTold DEF Kind
  <2>. QED
    BY <2>1, <2>2 DEF ChangeInv, CatalogStage, AddressStage
<1>3. CASE ReleaseAdapter(p)
  BY <1>3 DEF ReleaseAdapter, ChangeInv, Covered, CatalogStage, AddressStage, Pending, systemVars,
     requestVars, threadVars
<1>. QED
  BY <1>1, <1>2, <1>3 DEF SystemStep

(* A thread that takes word of a change passes it on to the section that      *)
(* reads the lists anew, which requests the next word before it reads.       *)
LEMMA ThreadStepChange ==
  ASSUME FrameInv, ChangeInv, NEW t \in Thread, ThreadStep(t), ~failed'
  PROVE  ChangeInv'
<1>0. /\ pc \in [Thread -> PC] /\ key \in [Thread -> Kind] /\ armed \in [Kind -> Nat]
      /\ queued \in [Kind -> Nat] /\ room \in Nat
      /\ \A u \in Thread \ {t} : pc[t] \in Working => pc[u] \notin Working
  BY FrameworkAssumption DEF FrameInv, TypeOK, RebuildIsExclusive
<1>1. ASSUME NEW k \in Kind, Dequeue(t, k)
      PROVE  ChangeInv'
  <2>1. /\ pc'[t] = "got" /\ key'[t] = k /\ pc[t] = "poll"
        /\ \A u \in Thread \ {t} : pc'[u] = pc[u] /\ key'[u] = key[u]
        /\ \A j \in Kind \ {k} : queued'[j] = queued[j]
        /\ UNCHANGED <<systemVars, armed, room, todo, active, addrs>>
    BY <1>0, <1>1 DEF Dequeue, Goto
  <2>2. \A j \in Kind : Pending(j) => Pending(j)'
    BY <2>1 DEF Pending
  <2>. QED
    BY <2>1, <2>2 DEF ChangeInv, Covered, CatalogStage, AddressStage, systemVars, Kind
<1>2. CASE RequestNext(t)
  <2>1. /\ pc[t] = "got" /\ pc'[t] = (IF key[t] = "prov" THEN "size" ELSE "clear")
        /\ \A u \in Thread \ {t} : pc'[u] = pc[u] /\ pc[u] \notin Working
        /\ armed'[key[t]] > 0 /\ \A j \in Kind \ {key[t]} : armed'[j] = armed[j]
        /\ key[t] \in Kind
        /\ UNCHANGED <<systemVars, queued, key, room, todo, active, addrs>>
    BY <1>0, <1>2, FrameworkAssumption DEF RequestNext, Goto, FrameInv, RebuildIsExclusive
  <2>2. \A j \in Kind \ {key[t]} : Pending(j) => Pending(j)'
    BY <2>1 DEF Pending
  <2>3. Covered'
    BY <2>1, <2>2 DEF ChangeInv, Covered
  <2>4. CASE key[t] = "prov"
    BY <2>1, <2>2, <2>3, <2>4 DEF ChangeInv, CatalogStage, AddressStage, systemVars, Kind, Working
  <2>5. CASE key[t] = "addr"
    BY <2>1, <2>2, <2>3, <2>5 DEF ChangeInv, CatalogStage, AddressStage, systemVars, Kind, Working
  <2>. QED
    BY <2>1, <2>4, <2>5 DEF Kind
<1>. DEFINE told == UNCHANGED <<catalog, up, armed, queued>>
                    /\ \A u \in Thread : /\ pc'[u] = "got" <=> pc[u] = "got"
                                         /\ pc[u] = "got" => key'[u] = key[u]
<1>3. ASSUME told
      PROVE  Covered' /\ \A k \in Kind : Pending(k)' <=> Pending(k)
  <2>1. \A k \in Kind : Pending(k)' <=> Pending(k)
    BY <1>3 DEF Pending
  <2>. QED
    BY <1>3, <2>1 DEF ChangeInv, Covered
<1>4. CASE SizeCatalog(t)
  <2>1. told /\ UNCHANGED <<active, addrs, todo>> /\ room' = Cardinality(catalog)
        /\ pc' = [pc EXCEPT ![t] = "enum"] /\ pc[t] = "size"
    BY <1>0, <1>4 DEF SizeCatalog, Goto, systemVars, requestVars
  <2>. QED
    BY <1>0, <1>3, <2>1 DEF ChangeInv, CatalogStage, AddressStage, Kind, Working
<1>5. CASE CatalogOutgrows(t)
  <2>1. told /\ UNCHANGED <<active, addrs, todo>>
        /\ pc' = [pc EXCEPT ![t] = "flush"] /\ pc[t] = "enum" /\ Cardinality(catalog) > room
    BY <1>0, <1>5 DEF CatalogOutgrows, Goto, systemVars, requestVars
  <2>2. Pending("prov")
    BY <1>0, <2>1 DEF ChangeInv, CatalogStage
  <2>. QED
    BY <1>0, <1>3, <2>1, <2>2 DEF ChangeInv, CatalogStage, AddressStage, Kind, Working
<1>6. CASE ReadCatalog(t)
  <2>1. told /\ UNCHANGED <<addrs, todo>> /\ active' = catalog
        /\ pc' = [pc EXCEPT ![t] = "clear"] /\ pc[t] = "enum"
    BY <1>0, <1>6 DEF ReadCatalog, Goto, systemVars, requestVars
  <2>. QED
    BY <1>0, <1>3, <2>1 DEF ChangeInv, CatalogStage, AddressStage, Kind, Working
<1>7. CASE ClearAddresses(t)
  <2>1. told /\ UNCHANGED <<active, room>> /\ addrs' = {} /\ todo' = active
        /\ pc' = [pc EXCEPT ![t] = "collect"] /\ pc[t] = "clear"
    BY <1>0, <1>7 DEF ClearAddresses, Goto, systemVars, requestVars
  <2>. QED
    BY <1>0, <1>3, <2>1 DEF ChangeInv, CatalogStage, AddressStage, Kind, Working
<1>8. ASSUME NEW p \in Provider, CollectFrom(t, p)
      PROVE  ChangeInv'
  <2>1. told /\ UNCHANGED <<active, room, pc>> /\ pc[t] = "collect"
        /\ addrs' = addrs \cup ({p} \cap up) /\ todo' = todo \ {p} /\ p \in todo
        /\ todo \subseteq active
    BY <1>8 DEF CollectFrom, systemVars, requestVars, FrameInv, ListStage
  <2>2. addrs = (active \ todo) \cap up => addrs' = (active \ todo') \cap up
    BY <2>1
  <2>. QED
    BY <1>0, <1>3, <2>1, <2>2 DEF ChangeInv, CatalogStage, AddressStage, Kind, Working
<1>9. CASE FinishTurn(t)
  <2>1. told /\ UNCHANGED <<active, addrs, room, todo>> /\ pc' = [pc EXCEPT ![t] = "poll"]
        /\ (pc[t] = "flush" \/ (pc[t] = "collect" /\ todo = {}))
    <3>1. pc[t] # "got" /\ pc' = [pc EXCEPT ![t] = "poll"] /\ key' = [key EXCEPT ![t] = "prov"]
      BY <1>9 DEF FinishTurn, Goto
    <3>2. \A u \in Thread : (pc'[u] = "got" <=> pc[u] = "got") /\ (pc[u] = "got" => key'[u] = key[u])
      BY <1>0, <3>1
    <3>. QED
      BY <1>9, <3>1, <3>2 DEF FinishTurn, systemVars, requestVars
  <2>2. addrs = active \cap up \/ Pending("addr")
    BY <1>0, <2>1 DEF ChangeInv, AddressStage, Working
  <2>3. active = catalog \/ Pending("prov")
    BY <1>0, <2>1 DEF ChangeInv, CatalogStage, Working
  <2>. QED
    BY <1>0, <1>3, <2>1, <2>2, <2>3 DEF ChangeInv, CatalogStage, AddressStage, Kind, Working
<1>10. ASSUME \/ Call(t) \/ FindNothing(t) \/ LookUp(t) \/ OpenAdapter(t)
              \/ FlushProvidersForUser(t)
       PROVE  ChangeInv'
  <2>1. told /\ UNCHANGED <<active, addrs, room, todo>>
        /\ \A u \in Thread : pc'[u] \in Working \cup {"got"} \/ pc[u] \in Working \cup {"got"}
                             => pc'[u] = pc[u]
    BY <1>0, <1>10 DEF Call, FindNothing, LookUp, OpenAdapter, FlushProvidersForUser, Goto,
       systemVars, requestVars, threadVars, Working
  <2>. QED
    BY <1>3, <2>1 DEF ChangeInv, CatalogStage, AddressStage, Kind, Working
<1>11. /\ ~EnumerationFails(t) /\ ~ReadCatalogThrows(t) /\ ~CallDeleted(t)
       /\ \A k \in Kind : ~DequeueFailed(t, k)
       /\ \A p \in Provider : ~CollectThrows(t, p)
  BY DEF DequeueFailed, EnumerationFails, ReadCatalogThrows, CollectThrows, LeaveByThrow,
     CallDeleted, FrameInv, ListStage, systemVars
<1>. QED
  BY <1>1, <1>2, <1>4, <1>5, <1>6, <1>7, <1>8, <1>9, <1>10, <1>11
     DEF ThreadStep, UpdateStep, Kind

(* What has failed is not forgotten. *)
LEMMA FailureStays ==
  ASSUME [Next]_vars, failed
  PROVE  failed'
<1>1. CASE UNCHANGED vars
  BY <1>1 DEF vars, systemVars
<1>2. ASSUME NEW t \in Thread, ThreadStep(t)
      PROVE  failed'
  BY <1>2 DEF ThreadStep, UpdateStep, Call, Dequeue, DequeueFailed, FindNothing, RequestNext,
     SizeCatalog, EnumerationFails, CatalogOutgrows, ReadCatalog, ReadCatalogThrows,
     ClearAddresses, CollectFrom, CollectThrows, LeaveByThrow, FinishTurn, LookUp, OpenAdapter,
     CallDeleted, FlushProvidersForUser, systemVars
<1>3. ASSUME NEW p \in Provider, SystemStep(p)
      PROVE  failed'
  BY <1>3 DEF SystemStep, CatalogChanges, AddressChanges, ReleaseAdapter, systemVars
<1>. QED
  BY <1>1, <1>2, <1>3 DEF Next

(* Until something fails, word of every change is somewhere, in every state   *)
(* (ndfrmwrk.cpp:632-648).                                                    *)
THEOREM WordIsKept == Spec => [](~failed => ChangeInv)
<1>1. Init => ChangeInv
  <2>. SUFFICES ASSUME Init
                PROVE  ChangeInv
    OBVIOUS
  <2>1. Pending("prov") /\ armed["addr"] # 0
    BY DEF Init, Pending, Kind
  <2>. QED
    BY <2>1 DEF Init, ChangeInv, Covered, CatalogStage, AddressStage, Kind
<1>2. FrameInv /\ (~failed => ChangeInv) /\ [Next]_vars => (~failed' => ChangeInv')
  <2>. SUFFICES ASSUME FrameInv, ~failed => ChangeInv, [Next]_vars, ~failed'
                PROVE  ChangeInv'
    OBVIOUS
  <2>1. ChangeInv
    BY FailureStays
  <2>2. CASE UNCHANGED vars
    BY <2>1, <2>2 DEF vars, systemVars, requestVars, threadVars, ChangeInv, Covered, CatalogStage,
       AddressStage, Pending
  <2>. QED
    BY <2>1, <2>2, ThreadStepChange, SystemStepChange DEF Next
<1>. QED
  BY <1>1, <1>2, FrameInvariant, PTL DEF Spec

(* Outside a rebuild, lists that are out of date have word of it pending. *)
LEMMA WordOfDifference ==
  ASSUME FrameInv, ChangeInv, lock = NoThread, ~InSync
  PROVE  \E k \in Kind : Pending(k)
<1>1. \A t \in Thread : pc[t] \notin Working
  BY FrameworkAssumption DEF FrameInv, RebuildIsExclusive
<1>2. /\ active = catalog \/ Pending("prov")
      /\ addrs = active \cap up \/ Pending("addr")
  BY <1>1 DEF ChangeInv, CatalogStage, AddressStage, Working
<1>. QED
  BY <1>2 DEF InSync, Kind

(* Until something fails no change of the catalog or of an address is lost,   *)
(* however many threads poll and whenever the change comes: requesting the   *)
(* next word before reading is enough, and so is one try at the catalog      *)
(* (ndfrmwrk.cpp:632-648 and 676-708).                                       *)
THEOREM ChangesAreKept == Spec => []NoLostChange
<1>1. FrameInv /\ (~failed => ChangeInv) => NoLostChange
  BY WordOfDifference DEF NoLostChange, Pending
<1>. QED
  BY <1>1, FrameInvariant, WordIsKept, PTL

--------------------------------------------------------------------------------
(* A call that found no completion has none to find while nothing changes. *)
QuietQueue ==
  \A t \in Thread : pc[t] = "lookup" /\ quiet[t] => \A k \in Kind : queued[k] = 0

LEMMA QuietStep ==
  ASSUME FrameInv, QuietQueue, [Next]_vars
  PROVE  QuietQueue'
<1>. USE DEF FrameInv, TypeOK, QuietQueue, Goto
<1>1. CASE UNCHANGED vars
  BY <1>1 DEF vars, requestVars, threadVars
<1>2. ASSUME NEW t \in Thread, ThreadStep(t)
      PROVE  QuietQueue'
  <2>1. CASE FindNothing(t)
    BY <1>2, <2>1 DEF FindNothing, requestVars
  <2>2. CASE \E k \in Kind : Dequeue(t, k)
    BY <1>2, <2>2 DEF Dequeue
  <2>3. ASSUME ThreadStep(t), ~FindNothing(t), ~(\E k \in Kind : Dequeue(t, k))
        PROVE  /\ queued' = queued
               /\ \A u \in Thread : pc'[u] = "lookup" => pc[u] = "lookup" /\ quiet'[u] = quiet[u]
    BY <2>3 DEF ThreadStep, UpdateStep, Call, DequeueFailed, RequestNext, SizeCatalog,
       EnumerationFails, CatalogOutgrows, ReadCatalog, ReadCatalogThrows, ClearAddresses,
       CollectFrom, CollectThrows, LeaveByThrow, FinishTurn, LookUp, OpenAdapter, CallDeleted,
       FlushProvidersForUser, requestVars, threadVars
  <2>. QED
    BY <1>2, <2>1, <2>2, <2>3
<1>3. ASSUME NEW p \in Provider, SystemStep(p)
      PROVE  QuietQueue'
  BY <1>3 DEF SystemStep, CatalogChanges, AddressChanges, ReleaseAdapter, requestVars, threadVars
<1>. QED
  BY <1>1, <1>2, <1>3 DEF Next

(* A lookup finds stale lists only because another thread has taken the word  *)
(* of the change and waits for m_lock: a process with one thread never sees   *)
(* them (ndfrmwrk.cpp:197, 623 and 627).                                      *)
THEOREM StalenessIsInHand == Spec => []StaleLookupHasCause
<1>1. Init => QuietQueue
  BY DEF Init, QuietQueue
<1>2. FrameInv /\ (~failed => ChangeInv) /\ QuietQueue => StaleLookupHasCause
  <2>. SUFFICES ASSUME FrameInv, ChangeInv, QuietQueue,
                       NEW t \in Thread, pc[t] = "lookup", lock = NoThread, quiet[t], ~InSync
                PROVE  \E u \in Thread \ {t} : pc[u] = "got"
    BY DEF StaleLookupHasCause
  <2>1. PICK k \in Kind : Pending(k)
    BY WordOfDifference
  <2>2. queued[k] = 0
    BY DEF QuietQueue
  <2>. QED
    BY <2>1, <2>2 DEF Pending
<1>. QED
  BY <1>1, <1>2, QuietStep, FrameInvariant, WordIsKept, PTL DEF Spec
================================================================================
