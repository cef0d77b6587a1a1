--------------------------- MODULE NdLifecycleProofs ---------------------------
(* Proofs about the framework's life, for every finite set of threads, every *)
(* number of objects, and every way operator new may fail.                  *)
EXTENDS NdLifecycle, FiniteSetTheorems, TLAPS

(* Whoever is in the section has gInitializing. *)
SectionIsLocked == \A u \in User : pc[u] \in Section => gInitializing = 1

(* What the published object is while a thread works on it, *)
WorkStage ==
  \A u \in User :
    /\ pc[u] = "init" => gpFramework # Null /\ fw[gpFramework] = "built" /\ nRef[gpFramework] = 0
    /\ pc[u] = "undo" => gpFramework # Null /\ fw[gpFramework] = "freed" /\ nRef[gpFramework] = 0
    /\ pc[u] = "addref" => gpFramework # Null /\ fw[gpFramework] = "ready"
    /\ pc[u] = "clear" => gpFramework # Null /\ fw[gpFramework] = "freed" /\ nRef[gpFramework] = 0

(* and while none does. *)
RestStage ==
  gpFramework # Null /\ (\A u \in User : pc[u] \notin {"init", "undo", "addref", "clear"})
    => fw[gpFramework] = "ready" /\ nRef[gpFramework] > 0

(* The heap is there as long as an object is published. *)
HeapStage ==
  /\ gpFramework # Null => ghHeap
  /\ gpFramework = Null /\ ~thrown => ~ghHeap

(* The lock is taken with nobody inside after a throw only, and then there is   *)
(* no framework.                                                             *)
LockStage ==
  /\ gInitializing = 1 /\ (\A u \in User : pc[u] \notin Section) => thrown
  /\ thrown => /\ gInitializing = 1
               /\ \A u \in User : pc[u] \notin Section

(* An object that was never used has no references. *)
UnusedStage == \A i \in Instance : fw[i] = "unused" => nRef[i] = 0

LifeInv ==
  /\ TypeOK
  /\ OneInSection
  /\ SectionIsLocked
  /\ OneFramework
  /\ WorkStage
  /\ RestStage
  /\ HeapStage
  /\ LockStage
  /\ UnusedStage

--------------------------------------------------------------------------------
(* Nobody is inside and nothing is made yet. *)
LEMMA InitLife == Init => LifeInv
<1>. SUFFICES ASSUME Init
              PROVE  LifeInv
  OBVIOUS
<1>1. TypeOK
  BY DEF Init, TypeOK, Instance, PC, Section, Null
<1>2. OneInSection /\ SectionIsLocked /\ WorkStage
  BY DEF Init, OneInSection, SectionIsLocked, WorkStage, Section
<1>3. OneFramework /\ RestStage /\ HeapStage /\ LockStage /\ UnusedStage
  BY DEF Init, OneFramework, Alive, RestStage, HeapStage, LockStage, UnusedStage
<1>. QED
  BY <1>1, <1>2, <1>3 DEF LifeInv

(* A thread outside the section moves on without touching it. *)
LEMMA OutsideStepLife ==
  ASSUME LifeInv, NEW u \in User,
         \/ StartupCall(u) \/ CleanupCall(u) \/ Call(u) \/ CallV1(u) \/ GoInside(u)
         \/ Return(u) \/ ReleaseAdapter(u)
  PROVE  LifeInv'
<1>0. pc \in [User -> PC]
  BY DEF LifeInv, TypeOK
<1>1. /\ pc[u] \notin Section
      /\ \E label \in PC \ Section : pc' = [pc EXCEPT ![u] = label]
      /\ UNCHANGED <<gInitializing, gpFramework, ghHeap, fw, nRef, thrown>>
  <2>1. CASE ReleaseAdapter(u)
    <3>1. pc' = [pc EXCEPT ![u] = "idle"]
      BY <1>0, <2>1 DEF ReleaseAdapter
    <3>. QED
      BY <2>1, <3>1 DEF ReleaseAdapter, PC, Section
  <2>2. CASE ~ReleaseAdapter(u)
    BY <2>2 DEF StartupCall, CleanupCall, Call, CallV1, GoInside, Return, Goto, PC, Section
  <2>. QED
    BY <2>1, <2>2
<1>2. TypeOK'
  <2>1. pc' \in [User -> PC]
    BY <1>1 DEF LifeInv, TypeOK
  <2>2. obj' \in [User -> Instance \cup {Null}]
    BY DEF LifeInv, TypeOK, StartupCall, CleanupCall, Call, CallV1, GoInside, Return,
       ReleaseAdapter, adapterVars
  <2>3. holds' = holds
    BY DEF StartupCall, CleanupCall, Call, CallV1, GoInside, Return, ReleaseAdapter
  <2>4. opened' \in [User -> Instance \cup {Null}]
    BY DEF LifeInv, TypeOK, StartupCall, CleanupCall, Call, CallV1, GoInside, Return,
       ReleaseAdapter, adapterVars
  <2>5. strayed' \in BOOLEAN
    BY DEF LifeInv, TypeOK, StartupCall, CleanupCall, Call, CallV1, GoInside, Return,
       ReleaseAdapter, adapterVars, Brackets
  <2>. QED
    BY <1>1, <2>1, <2>2, <2>3, <2>4, <2>5 DEF LifeInv, TypeOK
<1>3. \A v \in User : pc'[v] \in Section => pc[v] = pc'[v]
  BY <1>1 DEF LifeInv, TypeOK
<1>4. \A v \in User : pc[v] \in Section => pc[v] = pc'[v]
  BY <1>1 DEF LifeInv, TypeOK
<1>5. OneInSection' /\ SectionIsLocked'
  BY <1>1, <1>3 DEF LifeInv, OneInSection, SectionIsLocked
<1>6. WorkStage' /\ RestStage'
  BY <1>1, <1>3, <1>4 DEF LifeInv, WorkStage, RestStage, Section
<1>7. OneFramework' /\ HeapStage' /\ UnusedStage'
  BY <1>1 DEF LifeInv, OneFramework, Alive, HeapStage, UnusedStage
<1>8. LockStage'
  BY <1>1, <1>3, <1>4 DEF LifeInv, LockStage, Section
<1>. QED
  BY <1>2, <1>5, <1>6, <1>7, <1>8 DEF LifeInv

(* The compare-exchange lets a thread in where there is none. *)
LEMMA EnterLife ==
  ASSUME LifeInv, NEW u \in User, Enter(u)
  PROVE  LifeInv'
<1>. USE DEF LifeInv
<1>1. /\ \A v \in User : pc[v] \notin Section
      /\ pc' \in [User -> PC]
      /\ pc'[u] \in {"create", "release"}
      /\ \A v \in User \ {u} : pc'[v] = pc[v]
      /\ gInitializing = 0 /\ gInitializing' = 1
      /\ UNCHANGED <<gpFramework, ghHeap, fw, nRef, obj, holds, adapterVars, thrown>>
  BY DEF Enter, Goto, SectionIsLocked, TypeOK, PC, Section
<1>2. TypeOK'
  BY <1>1 DEF TypeOK, adapterVars
<1>3. OneInSection' /\ SectionIsLocked'
  BY <1>1 DEF OneInSection, SectionIsLocked
<1>4. WorkStage' /\ RestStage'
  BY <1>1 DEF WorkStage, RestStage, Section
<1>5. OneFramework' /\ HeapStage' /\ UnusedStage'
  BY <1>1 DEF OneFramework, Alive, HeapStage, UnusedStage
<1>6. LockStage'
  BY <1>1 DEF LockStage, Section
<1>. QED
  BY <1>2, <1>3, <1>4, <1>5, <1>6

(* In the section a thread is alone: it moves on inside or gives the lock back. *)
LEMMA SectionMove ==
  ASSUME LifeInv, NEW u \in User, SectionStep(u)
  PROVE  /\ pc[u] \in Section
         /\ \A v \in User \ {u} : pc[v] \notin Section /\ pc'[v] = pc[v]
         /\ pc' \in [User -> PC]
         /\ gInitializing' \in {0, 1}
         /\ pc'[u] \in Section => gInitializing' = 1
         /\ pc'[u] \in Section \cup {"idle"}
         /\ ~thrown
         /\ thrown' <=> pc'[u] \notin Section /\ gInitializing' = 1
         /\ thrown' \in BOOLEAN
         /\ UNCHANGED adapterVars
<1>1. /\ pc[u] \in Section
      /\ \/ \E label \in Section : Goto(u, label) /\ UNCHANGED <<gInitializing, thrown>>
         \/ Goto(u, "idle") /\ UNCHANGED gInitializing /\ thrown' = TRUE
         \/ Leave(u) /\ UNCHANGED thrown
      /\ UNCHANGED adapterVars
  BY DEF SectionStep, FindFramework, HeapFails, NewFails, Publish, Initialise, InitFails, Undo,
     AddRef, NotReady, Release, Clear, Section
<1>2. \A v \in User \ {u} : pc[v] \notin Section
  BY <1>1 DEF LifeInv, OneInSection
<1>3. gInitializing = 1 /\ ~thrown /\ thrown \in BOOLEAN
  BY <1>1 DEF LifeInv, TypeOK, SectionIsLocked, LockStage
<1>4. /\ pc \in [User -> PC]
      /\ {"idle"} \cup Section \subseteq PC
      /\ "idle" \notin Section
  BY DEF LifeInv, TypeOK, PC, Section
<1>5. CASE \E label \in Section : Goto(u, label) /\ UNCHANGED <<gInitializing, thrown>>
  BY <1>1, <1>2, <1>3, <1>4, <1>5 DEF Goto
<1>6. CASE Goto(u, "idle") /\ UNCHANGED gInitializing /\ thrown' = TRUE
  BY <1>1, <1>2, <1>3, <1>4, <1>6 DEF Goto
<1>7. CASE Leave(u) /\ UNCHANGED thrown
  BY <1>1, <1>2, <1>3, <1>4, <1>7 DEF Goto, Leave
<1>. QED
  BY <1>1, <1>5, <1>6, <1>7

(* The steps of NdStartup and NdCleanup, taken by the one thread inside. *)
LEMMA SectionStepLife ==
  ASSUME LifeInv, NEW u \in User, SectionStep(u)
  PROVE  LifeInv'
<1>1. /\ pc[u] \in Section
      /\ \A v \in User \ {u} : pc[v] \notin Section /\ pc'[v] = pc[v]
      /\ pc' \in [User -> PC]
      /\ gInitializing' \in {0, 1}
      /\ pc'[u] \in Section => gInitializing' = 1
      /\ pc'[u] \in Section \cup {"idle"}
      /\ pc \in [User -> PC]
      /\ ~thrown /\ thrown' \in BOOLEAN
      /\ thrown' <=> pc'[u] \notin Section /\ gInitializing' = 1
      /\ opened' = opened /\ strayed' = strayed
  BY SectionMove DEF LifeInv, TypeOK, adapterVars
<1>2. OneInSection' /\ SectionIsLocked' /\ LockStage'
  BY <1>1 DEF OneInSection, SectionIsLocked, LockStage
<1>. DEFINE rest == /\ TypeOK'
                    /\ OneFramework'
                    /\ WorkStage'
                    /\ RestStage'
                    /\ HeapStage'
                    /\ UnusedStage'
<1>. USE DEF LifeInv, TypeOK, OneFramework, Alive, WorkStage, RestStage, HeapStage,
       UnusedStage, Section, Leave, Goto, Null, Instance
<1>3. ASSUME FindFramework(u) PROVE rest
  BY <1>1, <1>3 DEF FindFramework
<1>4. ASSUME HeapFails(u) PROVE rest
  BY <1>1, <1>4 DEF HeapFails
<1>5. ASSUME NewFails(u) PROVE rest
  <2>1. CASE Leave(u) /\ UNCHANGED <<ghHeap, thrown>>
    BY <1>1, <1>5, <2>1 DEF NewFails
  <2>2. CASE Goto(u, "idle") /\ ghHeap' = TRUE /\ thrown' = TRUE /\ UNCHANGED gInitializing
    BY <1>1, <1>5, <2>2 DEF NewFails
  <2>. QED
    BY <1>5, <2>1, <2>2 DEF NewFails
<1>6. ASSUME Publish(u) PROVE rest
  BY <1>1, <1>6 DEF Publish
<1>7. ASSUME Initialise(u) PROVE rest
  BY <1>1, <1>7 DEF Initialise
<1>8. ASSUME InitFails(u) PROVE rest
  BY <1>1, <1>8 DEF InitFails, Delete
<1>9. ASSUME Undo(u) PROVE rest
  BY <1>1, <1>9 DEF Undo
<1>10. ASSUME AddRef(u) PROVE rest
  BY <1>1, <1>10 DEF AddRef
<1>11. ASSUME NotReady(u) PROVE rest
  BY <1>1, <1>11 DEF NotReady
<1>12. ASSUME Release(u) PROVE rest
  <2>1. /\ gpFramework \in Instance /\ fw[gpFramework] = "ready"
        /\ nRef[gpFramework] \in Nat /\ nRef[gpFramework] > 0
    BY <1>1, <1>12 DEF Release, Delete
  <2>2. /\ nRef' = [nRef EXCEPT ![gpFramework] = nRef[gpFramework] - 1]
        /\ nRef[gpFramework] - 1 \in Nat
        /\ holds' \in SUBSET User
        /\ UNCHANGED <<gpFramework, ghHeap, obj>>
    BY <1>12, <2>1 DEF Release, Delete
  <2>3. CASE nRef[gpFramework] = 1
    <3>1. pc'[u] = "clear" /\ fw' = [fw EXCEPT ![gpFramework] = "freed"]
      BY <1>1, <1>12, <2>3 DEF Release, Delete
    <3>. QED
      BY <1>1, <2>1, <2>2, <2>3, <3>1
  <2>4. CASE nRef[gpFramework] # 1
    <3>1. pc'[u] = "idle" /\ fw' = fw
      BY <1>1, <1>12, <2>4 DEF Release, Delete
    <3>. QED
      BY <1>1, <2>1, <2>2, <2>4, <3>1
  <2>. QED
    BY <2>3, <2>4
<1>13. ASSUME Clear(u) PROVE rest
  BY <1>1, <1>13 DEF Clear
<1>14. rest
  BY <1>3, <1>4, <1>5, <1>6, <1>7, <1>8, <1>9, <1>10, <1>11, <1>12, <1>13 DEF SectionStep
<1>. QED
  BY <1>2, <1>14

(* What is known of the framework's life in every state, strays included: who *)
(* is in the section, and what the section has made of the framework and the  *)
(* heap at each of its steps (ndfrmwrk.cpp:920-958 and 966-987).              *)
THEOREM LifeInvariant == Spec => []LifeInv
<1>1. LifeInv /\ [Next]_vars => LifeInv'
  <2>. SUFFICES ASSUME LifeInv, [Next]_vars
                PROVE  LifeInv'
    OBVIOUS
  <2>1. CASE UNCHANGED vars
    BY <2>1 DEF vars, LifeInv, TypeOK, OneInSection, SectionIsLocked, OneFramework, Alive,
       WorkStage, RestStage, HeapStage, LockStage, UnusedStage, adapterVars
  <2>2. CASE Next
    BY <2>2, OutsideStepLife, EnterLife, SectionStepLife DEF Next, UserStep
  <2>. QED
    BY <2>1, <2>2
<1>. QED
  BY <1>1, InitLife, PTL DEF Spec

(* The framework is created and deleted by one thread at a time, and never a  *)
(* second one beside the first, however many threads call and whatever calls  *)
(* they make (ndfrmwrk.cpp:916-986).                                         *)
THEOREM LifeIsSerial == Spec => [](TypeOK /\ OneInSection /\ OneFramework)
<1>1. LifeInv => TypeOK /\ OneInSection /\ OneFramework
  BY DEF LifeInv
<1>. QED
  BY <1>1, LifeInvariant, PTL

(* The heap and the framework exist together (ndfrmwrk.cpp:929-953, 980-982). *)
THEOREM HeapFollowsFramework == Spec => []HeapWithFramework
<1>1. LifeInv => HeapWithFramework
  BY DEF LifeInv, HeapStage, LockStage, HeapWithFramework
<1>. QED
  BY <1>1, LifeInvariant, PTL

(* A throw of operator new leaves the lock taken for good, and nothing else   *)
(* does (ndfrmwrk.cpp:936-943).                                              *)
THEOREM OnlyThrowsLockOut == Spec => []ThrowLocksOut
<1>1. LifeInv => ThrowLocksOut
  BY DEF LifeInv, TypeOK, LockStage, ThrowLocksOut, Abandoned
<1>. QED
  BY <1>1, LifeInvariant, PTL

(* ASSERT(m_nRef > 0) of Framework::Release (ndfrmwrk.cpp:180) holds, even    *)
(* for threads that clean up more often than they start up.                 *)
THEOREM ReleaseAssertHolds == Spec => []ReleaseHasReference
<1>1. LifeInv => ReleaseHasReference
  <2>. SUFFICES ASSUME LifeInv, NEW u \in User, pc[u] = "release", gpFramework # Null
                PROVE  fw[gpFramework] = "ready" /\ nRef[gpFramework] > 0
    BY DEF ReleaseHasReference
  <2>1. \A v \in User : pc[v] \notin {"init", "undo", "addref", "clear"}
    BY DEF LifeInv, OneInSection, Section
  <2>. QED
    BY <2>1 DEF LifeInv, RestStage
<1>. QED
  BY <1>1, LifeInvariant, PTL


--------------------------------------------------------------------------------
(* From here on every thread keeps to its bracket.                          *)

(* Who has started up is where a thread that has started up may be, and has   *)
(* its adapter open nowhere else.                                            *)
HolderStage ==
  \A u \in User :
    /\ pc[u] \in {"call", "inside", "cleanup", "release"} => u \in holds
    /\ pc[u] \in {"startup", "create", "init", "undo", "addref"} => u \notin holds
    /\ pc[u] = "inside" => obj[u] = gpFramework
    /\ opened[u] # Null => /\ opened[u] = gpFramework
                           /\ u \in holds
                           /\ pc[u] \notin {"cleanup", "release"}

HolderInv == ~strayed => RefsCounted /\ HolderStage

(* Only AddRef and Release touch the holders and the references, and only     *)
(* publishing and unpublishing, without holders, the framework.              *)
LEMMA HolderStep ==
  ASSUME LifeInv, HolderInv, NEW u \in User, UserStep(u), ~strayed'
  PROVE  RefsCounted' /\ HolderStage'
<1>. USE LifecycleAssumption DEF LifeInv, TypeOK, Null
<1>0. ~strayed
  BY DEF UserStep, SectionStep, FindFramework, HeapFails, NewFails, Publish, Initialise,
     InitFails, Delete, Undo, AddRef, NotReady, Release, Clear, StartupCall, CleanupCall, Enter, Call,
     CallV1, GoInside, Return, ReleaseAdapter, Brackets, adapterVars
<1>1. RefsCounted /\ HolderStage /\ IsFiniteSet(holds) /\ Cardinality(holds) \in Nat
  BY <1>0, FS_Subset, FS_CardinalityType DEF HolderInv
<1>2. CASE AddRef(u)
  <2>1. gpFramework # Null /\ u \notin holds /\ gpFramework \in Instance
    BY <1>1, <1>2 DEF AddRef, WorkStage, HolderStage
  <2>2. holds' = holds \cup {u} /\ Cardinality(holds') = Cardinality(holds) + 1
    BY <1>1, <1>2, <2>1, FS_AddElement DEF AddRef
  <2>3. gpFramework' = gpFramework /\ nRef'[gpFramework] = nRef[gpFramework] + 1
    BY <1>2, <2>1 DEF AddRef
  <2>4. RefsCounted'
    BY <1>1, <2>1, <2>2, <2>3 DEF RefsCounted
  <2>5. HolderStage'
    BY <1>1, <1>2, <2>2, <2>3 DEF AddRef, Leave, Goto, HolderStage, adapterVars
  <2>. QED
    BY <2>4, <2>5
<1>3. CASE Release(u)
  <2>1. gpFramework # Null /\ u \in holds /\ gpFramework \in Instance /\ opened[u] = Null
    BY <1>1, <1>3 DEF Release, HolderStage, Delete
  <2>2. holds' = holds \ {u} /\ Cardinality(holds') = Cardinality(holds) - 1
    BY <1>1, <1>3, <2>1, FS_RemoveElement DEF Release, Delete
  <2>3. gpFramework' = gpFramework /\ nRef'[gpFramework] = nRef[gpFramework] - 1
    BY <1>3, <2>1 DEF Release, Delete
  <2>4. RefsCounted'
    BY <1>1, <2>1, <2>2, <2>3 DEF RefsCounted
  <2>5. HolderStage'
    <3>1. /\ \A v \in User \ {u} : pc'[v] = pc[v] /\ (v \in holds' <=> v \in holds)
          /\ pc'[u] \in {"clear", "idle"}
          /\ obj' = obj /\ gpFramework' = gpFramework /\ opened' = opened
      BY <1>3, <2>2 DEF Release, Leave, Goto, adapterVars, Delete
    <3>. QED
      BY <1>1, <2>1, <3>1 DEF HolderStage
  <2>. QED
    BY <2>4, <2>5
<1>4. CASE Publish(u)
  <2>1. /\ holds = {} /\ holds' = holds /\ gpFramework' \in Instance
        /\ nRef'[gpFramework'] = 0 /\ gpFramework' # Null
    BY <1>1, <1>4 DEF Publish, RefsCounted, UnusedStage, Instance
  <2>2. RefsCounted'
    BY <2>1, FS_EmptySet DEF RefsCounted
  <2>3. HolderStage'
    BY <1>1, <1>4, <2>1 DEF Publish, Goto, HolderStage, adapterVars
  <2>. QED
    BY <2>2, <2>3
<1>5. CASE Undo(u) \/ Clear(u)
  <2>1. Cardinality(holds) = 0
    BY <1>1, <1>5 DEF Undo, Clear, WorkStage, RefsCounted
  <2>2. holds = {} /\ holds' = {} /\ gpFramework' = Null
    BY <1>1, <1>5, <2>1, FS_EmptySet DEF Undo, Clear
  <2>3. RefsCounted'
    BY <2>2 DEF RefsCounted
  <2>4. HolderStage'
    BY <1>1, <1>5, <2>2 DEF Undo, Clear, Leave, Goto, HolderStage, adapterVars
  <2>. QED
    BY <2>3, <2>4
<1>6. CASE NotReady(u)
  <2>1. FALSE
    BY <1>1, <1>6 DEF NotReady, HolderStage, RefsCounted
  <2>. QED
    BY <2>1
<1>7. CASE Return(u) \/ ReleaseAdapter(u)
  <2>1. /\ UNCHANGED <<gpFramework, nRef, holds>>
        /\ \A v \in User \ {u} : pc'[v] = pc[v] /\ obj'[v] = obj[v] /\ opened'[v] = opened[v]
        /\ pc'[u] = "idle"
    BY <1>7 DEF Return, ReleaseAdapter, Goto
  <2>2. opened'[u] \in {Null, opened[u]} \/ (pc[u] = "inside" /\ opened'[u] = obj[u])
    BY <1>7 DEF Return, ReleaseAdapter
  <2>3. RefsCounted'
    BY <1>1, <2>1 DEF RefsCounted
  <2>4. HolderStage'
    BY <1>1, <2>1, <2>2 DEF HolderStage
  <2>. QED
    BY <2>3, <2>4
<1>8. ASSUME \/ StartupCall(u) \/ CleanupCall(u) \/ Enter(u) \/ Call(u) \/ CallV1(u)
             \/ GoInside(u) \/ FindFramework(u) \/ HeapFails(u) \/ NewFails(u)
             \/ Initialise(u) \/ InitFails(u)
      PROVE  RefsCounted' /\ HolderStage'
  <2>1. UNCHANGED <<gpFramework, nRef, holds, opened>>
    BY <1>8 DEF StartupCall, CleanupCall, Enter, Call, CallV1, GoInside, FindFramework,
       HeapFails, NewFails, Initialise, InitFails, Delete, adapterVars
  <2>2. RefsCounted'
    BY <1>1, <2>1 DEF RefsCounted
  <2>3. \A v \in User \ {u} : pc'[v] = pc[v] /\ obj'[v] = obj[v]
    BY <1>8 DEF StartupCall, CleanupCall, Enter, Call, CallV1, GoInside, FindFramework,
       HeapFails, NewFails, Initialise, InitFails, Delete, Goto, Leave
  <2>4. /\ pc'[u] \in {"call", "inside", "cleanup", "release"} => u \in holds
        /\ pc'[u] \in {"startup", "create", "init", "undo", "addref"} => u \notin holds
        /\ pc'[u] = "inside" => obj'[u] = gpFramework
        /\ opened[u] # Null => pc'[u] \notin {"cleanup", "release"}
    BY <1>0, <1>1, <1>8 DEF StartupCall, CleanupCall, Enter, Call, CallV1, GoInside,
       FindFramework, HeapFails, NewFails, Initialise, InitFails, Delete, Goto, Leave, HolderStage,
       Brackets
  <2>5. HolderStage'
    BY <1>1, <2>1, <2>3, <2>4 DEF HolderStage
  <2>. QED
    BY <2>2, <2>5
<1>. QED
  BY <1>2, <1>3, <1>4, <1>5, <1>6, <1>7, <1>8 DEF UserStep, SectionStep

(* The references are counted as long as nobody leaves his bracket. *)
LEMMA HolderInvariant == Spec => []HolderInv
<1>1. Init => HolderInv
  BY DEF Init, HolderInv, RefsCounted, HolderStage, Null
<1>2. LifeInv /\ HolderInv /\ [Next]_vars => HolderInv'
  <2>1. UNCHANGED vars /\ HolderInv => HolderInv'
    BY DEF vars, adapterVars, HolderInv, RefsCounted, HolderStage
  <2>2. LifeInv /\ HolderInv /\ Next => HolderInv'
    BY HolderStep DEF Next, HolderInv
  <2>. QED
    BY <2>1, <2>2
<1>. QED
  BY <1>1, <1>2, LifeInvariant, PTL DEF Spec

(* m_nRef counts the startups not undone, so the framework goes with the last *)
(* of them and not before (ndfrmwrk.cpp:956 and 978).                        *)
THEOREM ReferencesAreCounted == Spec => []RefsAreHolders
<1>1. HolderInv => RefsAreHolders
  BY DEF HolderInv, RefsAreHolders
<1>. QED
  BY <1>1, HolderInvariant, PTL

(* Between its startup and its cleanup a thread that calls the library finds  *)
(* the framework alive, initialised and with its heap, from the first line of *)
(* the call to the last, though it takes no lock, and an adapter it opened is *)
(* not left without code (ndfrmwrk.cpp:1014-1019 and 68-75).                  *)
THEOREM BracketProtects == Spec => []BracketKeepsFramework
<1>1. LifeInv /\ HolderInv => BracketKeepsFramework
  <2>. SUFFICES ASSUME LifeInv, HolderInv, ~strayed, NEW u \in User,
                       pc[u] \in {"call", "inside"} \/ opened[u] # Null
                PROVE  /\ gpFramework # Null
                       /\ fw[gpFramework] = "ready"
                       /\ ghHeap
                       /\ pc[u] = "inside" => obj[u] = gpFramework
                       /\ opened[u] # Null => opened[u] = gpFramework
    BY DEF BracketKeepsFramework
  <2>1. /\ u \in holds /\ gpFramework # Null
        /\ pc[u] = "inside" => obj[u] = gpFramework
        /\ opened[u] # Null => opened[u] = gpFramework
    BY DEF HolderInv, HolderStage, RefsCounted
  <2>2. IsFiniteSet(holds)
    BY LifecycleAssumption, FS_Subset DEF LifeInv, TypeOK
  <2>3. Cardinality(holds) # 0
    BY <2>1, <2>2, FS_EmptySet
  <2>4. nRef[gpFramework] # 0
    BY <2>1, <2>3 DEF HolderInv, RefsCounted
  <2>5. fw[gpFramework] = "ready"
    BY <2>1, <2>4 DEF LifeInv, WorkStage, RestStage
  <2>. QED
    BY <2>1, <2>5 DEF LifeInv, HeapStage
<1>. QED
  BY <1>1, LifeInvariant, HolderInvariant, PTL
================================================================================
