---------------------------- MODULE ProviderProofs -----------------------------
(****************************************************************************)
(* Proofs about a provider and its DLL, for any finite set of threads that  *)
(* serialise TryUnload as the comment above GetClassObject asks: first of   *)
(* the DLL (ProviderDll), then of its objects and its memory (ProviderCall). *)
(*                                                                          *)
(* The count of references and the pointers hold each other up: the image   *)
(* stays because references are counted, and a thread's references are to   *)
(* that image because it stays.  DllInv has both.                           *)
(*                                                                          *)
(* A provider with its objects and its memory implements the provider of    *)
(* ProviderDll, so what is proved there holds of it; and nothing is leaked. *)
(****************************************************************************)
EXTENDS ProviderCall, FiniteSetTheorems, TLAPS

(* The threads with a reference of their own. *)
Loaders == {t \in Thread : pc[t] \in Loading}

(* Whoever is in TryUnload is alone with it. *)
Alone ==
  \A t, u \in Thread :
    pc[t] \in Unloading /\ u # t => pc[u] \notin Getting \cup Unloading

(* What a thread knows of the DLL by where it is. *)
Knows ==
  \A t \in Thread :
    /\ pc[t] \in Loading => h[t] = image
    /\ pc[t] = "can" => "DllGetClassObject" \in exports /\ pfnGet = h[t]
    /\ pc[t] = "drop" => exports # AllExports
    /\ pc[t] \in {"swap", "lose"} =>
         exports = AllExports /\ pfnGet = h[t] /\ pfnCan = h[t]
    /\ pc[t] \in {"lose", "call", "using", "ask", "free", "clear"} => hProvider # 0
    /\ pc[t] \in {"free", "clear"} =>
         adapters = 0 /\ \A u \in Thread : pc[u] # "using"
    /\ pc[t] = "clear" => image = 0

(* A handle that is set is good, until it was freed and not yet cleared. *)
HandleIsGood ==
  hProvider # 0 /\ (\A t \in Thread : pc[t] # "clear") =>
    /\ hProvider = image /\ pfnGet = image /\ pfnCan = image
    /\ exports = AllExports

(* A destroyed provider has no handle, and nobody calls it. *)
Deserted == gone => hProvider = 0 /\ \A t \in Thread : pc[t] = "idle"

DllInv ==
  /\ TypeOK
  /\ Alone
  /\ Knows
  /\ HandleIsGood
  /\ RefsAreHeld
  /\ image = 0 <=> refs = 0
  /\ adapters > 0 /\ ~gone => hProvider # 0
  /\ Deserted

--------------------------------------------------------------------------------
(* Nothing is loaded at first. *)
LEMMA InitDll == Init => DllInv
<1>. SUFFICES ASSUME Init PROVE DllInv
  OBVIOUS
<1>1. Loaders = {} /\ Cardinality(Loaders) = 0
  BY FS_EmptySet DEF Init, Loaders, Loading
<1>2. TypeOK
  <2>1. pc \in [Thread -> {"idle", "using", "done"} \cup Getting \cup Unloading]
    BY DEF Init
  <2>2. 0 \in Handle /\ 0 \in 0..MaxAdapters /\ 0 \in Nat
    BY DllAssumption DEF Handle
  <2>. QED
    BY <2>1, <2>2 DEF Init, TypeOK
<1>. QED
  BY <1>1, <1>2 DEF Init, DllInv, Alone, Knows, HandleIsGood, RefsAreHeld,
     Loaders, Deserted,
     Getting, Unloading, Loading

(* The counted set is finite, and it is what a step makes of it. *)
LEMMA LoadersCount ==
  /\ IsFiniteSet(Loaders) /\ Cardinality(Loaders) \in Nat
  /\ Cardinality(Loaders) = 0 <=> Loaders = {}
  /\ \A t \in Thread :
       /\ t \in Loaders => Cardinality(Loaders \ {t}) = Cardinality(Loaders) - 1
       /\ t \notin Loaders => Cardinality(Loaders \cup {t}) = Cardinality(Loaders) + 1
<1>1. IsFiniteSet(Loaders)
  BY DllAssumption, FS_Subset DEF Loaders
<1>. QED
  BY <1>1, FS_CardinalityType, FS_EmptySet, FS_AddElement, FS_RemoveElement

(* RefsAreHeld in the terms of the proof. *)
Held == IF hProvider # 0 /\ \A t \in Thread : pc[t] # "clear" THEN 1 ELSE 0

(* And the count it states, in this state and the next. *)
LEMMA Counted ==
  /\ RefsAreHeld <=> refs = Cardinality(Loaders) + Held
  /\ RefsAreHeld' <=> refs' = Cardinality(Loaders') + Held'
BY DEF RefsAreHeld, Loaders, Held

(* Every step changes one thread's place. *)
LEMMA LoadersChange ==
  ASSUME TypeOK, NEW t \in Thread, NEW place, Goto(t, place)
  PROVE  /\ pc' = [pc EXCEPT ![t] = place]
         /\ pc'[t] = place /\ \A u \in Thread \ {t} : pc'[u] = pc[u]
         /\ Loaders' = IF place \in Loading THEN Loaders \cup {t} ELSE Loaders \ {t}
<1>1. pc' = [pc EXCEPT ![t] = place]
  BY DEF Goto
<1>2. pc'[t] = place /\ \A u \in Thread \ {t} : pc'[u] = pc[u]
  BY <1>1 DEF TypeOK
<1>. QED
  BY <1>1, <1>2 DEF Loaders

--------------------------------------------------------------------------------
(* While TryUnload runs nobody loads. *)
LEMMA UnloaderAlone ==
  ASSUME DllInv, NEW t \in Thread, pc[t] \in Unloading
  PROVE  /\ Loaders = {} /\ Cardinality(Loaders) = 0
         /\ refs = Held
<1>1. Loaders = {}
  BY DEF DllInv, Alone, Loaders, Loading, Getting, Unloading
<1>. QED
  BY <1>1, LoadersCount, Counted DEF DllInv, Held

(* Most steps neither take nor give a reference. *)
LEMMA CountStays ==
  ASSUME DllInv, NEW t \in Thread, NEW place, Goto(t, place),
         pc[t] \in Loading <=> place \in Loading,
         pc[t] # "clear", place # "clear",
         UNCHANGED <<hProvider, image, refs>>
  PROVE  RefsAreHeld' /\ (image = 0 <=> refs = 0)'
<1>1. /\ pc'[t] = place /\ (\A u \in Thread \ {t} : pc'[u] = pc[u])
      /\ Loaders' = IF place \in Loading THEN Loaders \cup {t} ELSE Loaders \ {t}
  BY LoadersChange DEF DllInv
<1>2. Loaders' = Loaders
  BY <1>1 DEF Loaders
<1>3. Held' = Held
  BY <1>1 DEF Held
<1>. QED
  BY <1>2, <1>3, Counted DEF DllInv

(* A thread enters GetClassObject only when nobody is in TryUnload. *)
LEMMA BeginInv ==
  ASSUME DllInv, Caller = "serializes", NEW t \in Thread, Begin(t)
  PROVE  DllInv'
<1>. USE DllAssumption DEF DllInv, Getting, Unloading, Loading
<1>1. PICK place \in {"idle", "using", "done"} \cup Getting \cup Unloading :
        Goto(t, place)
  BY DEF Begin
<1>2. /\ pc'[t] = place /\ (\A u \in Thread \ {t} : pc'[u] = pc[u])
      /\ Loaders' = IF place \in Loading THEN Loaders \cup {t} ELSE Loaders \ {t}
      /\ pc' \in [Thread -> {"idle", "using", "done"} \cup Getting \cup Unloading]
  BY <1>1, LoadersChange DEF TypeOK
<1>3. TypeOK'
  BY <1>1, <1>2 DEF Begin, TypeOK, Handle, provider, loader, users
<1>4. Alone'
  BY <1>1, <1>2 DEF Begin, Alone, MayGet, MayUnload, Goto
<1>5. Knows'
  BY <1>1, <1>2 DEF Begin, Knows, Goto, provider, loader, users, Alone
<1>6. HandleIsGood'
  BY <1>1, <1>2 DEF Begin, Goto, provider, loader, users, Alone, HandleIsGood
<1>7. RefsAreHeld' /\ (image = 0 <=> refs = 0)'
  <2>1. /\ pc[t] \in Loading <=> place \in Loading
        /\ pc[t] # "clear" /\ place # "clear"
        /\ UNCHANGED <<hProvider, image, refs>>
    BY <1>2 DEF Begin, Goto, provider, loader, TypeOK
  <2>. QED
    BY <1>1, <2>1, CountStays
<1>8. (adapters > 0 /\ ~gone => hProvider # 0)'
  BY <1>1, <1>2 DEF Begin, Goto, provider, loader, users, Knows, TypeOK
<1>9. Deserted'
  BY DEF Begin, Deserted, users
<1>. QED
  BY <1>3, <1>4, <1>5, <1>6, <1>7, <1>8, <1>9

(* A handle found set is good, since nobody can be unloading. *)
LEMMA TestHandleInv ==
  ASSUME DllInv, Caller = "serializes", NEW t \in Thread, TestHandle(t)
  PROVE  DllInv'
<1>. USE DllAssumption DEF DllInv, Getting, Unloading, Loading
<1>1. PICK place \in {"idle", "using", "done"} \cup Getting \cup Unloading :
        Goto(t, place)
  BY DEF TestHandle
<1>2. /\ pc'[t] = place /\ (\A u \in Thread \ {t} : pc'[u] = pc[u])
      /\ Loaders' = IF place \in Loading THEN Loaders \cup {t} ELSE Loaders \ {t}
      /\ pc' \in [Thread -> {"idle", "using", "done"} \cup Getting \cup Unloading]
  BY <1>1, LoadersChange DEF TypeOK
<1>3. TypeOK'
  BY <1>1, <1>2 DEF TestHandle, TypeOK, Handle, provider, loader, users
<1>4. Alone'
  BY <1>1, <1>2 DEF TestHandle, Alone, MayGet, MayUnload, Goto
<1>5. Knows'
  BY <1>1, <1>2 DEF TestHandle, Knows, Goto, provider, loader, users, Alone
<1>6. HandleIsGood'
  BY <1>1, <1>2 DEF TestHandle, Goto, provider, loader, users, Alone, HandleIsGood
<1>7. RefsAreHeld' /\ (image = 0 <=> refs = 0)'
  <2>1. /\ pc[t] \in Loading <=> place \in Loading
        /\ pc[t] # "clear" /\ place # "clear"
        /\ UNCHANGED <<hProvider, image, refs>>
    BY <1>2 DEF TestHandle, Goto, provider, loader, TypeOK
  <2>. QED
    BY <1>1, <2>1, CountStays
<1>8. (adapters > 0 /\ ~gone => hProvider # 0)'
  BY <1>1, <1>2 DEF TestHandle, Goto, provider, loader, users, Knows, TypeOK
<1>9. Deserted'
  BY DEF TestHandle, Deserted, users
<1>. QED
  BY <1>3, <1>4, <1>5, <1>6, <1>7, <1>8, <1>9

(* A first image comes when there are no references to another one. *)
LEMMA LoadInv ==
  ASSUME DllInv, Caller = "serializes", NEW t \in Thread, Load(t)
  PROVE  DllInv'
<1>. USE DllAssumption DEF DllInv, Getting, Unloading, Loading
<1>1. PICK place \in {"idle", "using", "done"} \cup Getting \cup Unloading :
        Goto(t, place)
  BY DEF Load
<1>2. /\ pc'[t] = place /\ (\A u \in Thread \ {t} : pc'[u] = pc[u])
      /\ Loaders' = IF place \in Loading THEN Loaders \cup {t} ELSE Loaders \ {t}
      /\ pc' \in [Thread -> {"idle", "using", "done"} \cup Getting \cup Unloading]
  BY <1>1, LoadersChange DEF TypeOK
<1>a. image = 0 => Loaders = {} /\ hProvider = 0
  <2>1. image = 0 => refs = 0 /\ Cardinality(Loaders) + Held = 0
    BY Counted DEF DllInv
  <2>2. Held \in {0, 1}
    BY DEF Held
  <2>3. image = 0 => Loaders = {}
    BY <2>1, <2>2, LoadersCount
  <2>. QED
    BY <2>3 DEF Load, Alone, HandleIsGood
<1>3. TypeOK'
  <2>1. image' \in Handle /\ loads' \in Handle /\ refs' \in Nat
    BY DEF Load, TypeOK, Handle
  <2>. QED
    BY <1>2, <2>1 DEF Load, TypeOK, provider, users
<1>4. Alone'
  BY <1>1, <1>2 DEF Load, Alone, MayGet, MayUnload, Goto
<1>5. Knows'
  <2>1. ASSUME NEW u \in Thread \ {t}
        PROVE  /\ pc'[u] = pc[u] /\ h'[u] = h[u]
               /\ pc[u] \in Loading => image' = image
               /\ pc[u] # "clear"
    BY <1>2, <1>a DEF Load, TypeOK, Loaders, Alone
  <2>2. pc'[t] = "get" /\ h'[t] = image'
    BY <1>2 DEF Load, Goto, TypeOK
  <2>. QED
    BY <2>1, <2>2 DEF Load, Knows, provider, users
<1>6. HandleIsGood'
  BY <1>1, <1>2, <1>a
     DEF Load, Knows, Goto, provider, loader, users, TypeOK, Alone, HandleIsGood
<1>7. RefsAreHeld' /\ (image = 0 <=> refs = 0)'
  <2>1. Cardinality(Loaders') = Cardinality(Loaders) + 1
    BY <1>1, <1>2, LoadersCount DEF Load, Goto, Loaders
  <2>2. Held' = Held
    BY <1>2 DEF Load, Held, provider, Goto
  <2>3. refs' = refs + 1 /\ image' # 0
    BY DEF Load, TypeOK, Handle
  <2>. QED
    BY <2>1, <2>2, <2>3, Counted, LoadersCount DEF TypeOK, Held
<1>8. (adapters > 0 /\ ~gone => hProvider # 0)'
  BY <1>1, <1>2 DEF Load, Goto, provider, loader, users, Knows, TypeOK
<1>9. Deserted'
  BY DEF Load, Deserted, users
<1>. QED
  BY <1>3, <1>4, <1>5, <1>6, <1>7, <1>8, <1>9

(* The call goes on to TryUnload with nothing of its own. *)
LEMMA LoadFailsInv ==
  ASSUME DllInv, Caller = "serializes", NEW t \in Thread, LoadFails(t)
  PROVE  DllInv'
<1>. USE DllAssumption DEF DllInv, Getting, Unloading, Loading
<1>1. PICK place \in {"idle", "using", "done"} \cup Getting \cup Unloading :
        Goto(t, place)
  BY DEF LoadFails
<1>2. /\ pc'[t] = place /\ (\A u \in Thread \ {t} : pc'[u] = pc[u])
      /\ Loaders' = IF place \in Loading THEN Loaders \cup {t} ELSE Loaders \ {t}
      /\ pc' \in [Thread -> {"idle", "using", "done"} \cup Getting \cup Unloading]
  BY <1>1, LoadersChange DEF TypeOK
<1>3. TypeOK'
  BY <1>1, <1>2 DEF LoadFails, TypeOK, Handle, provider, loader, users
<1>4. Alone'
  BY <1>1, <1>2 DEF LoadFails, Alone, MayGet, MayUnload, Goto
<1>5. Knows'
  BY <1>1, <1>2 DEF LoadFails, Knows, Goto, provider, loader, users, Alone
<1>6. HandleIsGood'
  BY <1>1, <1>2 DEF LoadFails, Goto, provider, loader, users, Alone, HandleIsGood
<1>7. RefsAreHeld' /\ (image = 0 <=> refs = 0)'
  <2>1. /\ pc[t] \in Loading <=> place \in Loading
        /\ pc[t] # "clear" /\ place # "clear"
        /\ UNCHANGED <<hProvider, image, refs>>
    BY <1>2 DEF LoadFails, Goto, provider, loader, TypeOK
  <2>. QED
    BY <1>1, <2>1, CountStays
<1>8. (adapters > 0 /\ ~gone => hProvider # 0)'
  BY <1>1, <1>2 DEF LoadFails, Goto, provider, loader, users, Knows, TypeOK
<1>9. Deserted'
  BY DEF LoadFails, Deserted, users
<1>. QED
  BY <1>3, <1>4, <1>5, <1>6, <1>7, <1>8, <1>9

(* Every thread that loads resolves the same image. *)
LEMMA ResolveGetInv ==
  ASSUME DllInv, Caller = "serializes", NEW t \in Thread, ResolveGet(t)
  PROVE  DllInv'
<1>. USE DllAssumption DEF DllInv, Getting, Unloading, Loading
<1>1. PICK place \in {"idle", "using", "done"} \cup Getting \cup Unloading :
        Goto(t, place)
  BY DEF ResolveGet
<1>2. /\ pc'[t] = place /\ (\A u \in Thread \ {t} : pc'[u] = pc[u])
      /\ Loaders' = IF place \in Loading THEN Loaders \cup {t} ELSE Loaders \ {t}
      /\ pc' \in [Thread -> {"idle", "using", "done"} \cup Getting \cup Unloading]
  BY <1>1, LoadersChange DEF TypeOK
<1>3. TypeOK'
  BY <1>1, <1>2 DEF ResolveGet, TypeOK, Handle, provider, loader, users
<1>4. Alone'
  BY <1>1, <1>2 DEF ResolveGet, Alone, MayGet, MayUnload, Goto
<1>5. Knows'
  BY <1>1, <1>2 DEF ResolveGet, Knows, Goto, provider, loader, users, TypeOK,
     Alone, HandleIsGood, AllExports
<1>6. HandleIsGood'
  BY <1>1, <1>2 DEF ResolveGet, Knows, Goto, provider, loader, users, TypeOK,
     Alone, HandleIsGood, AllExports
<1>7. RefsAreHeld' /\ (image = 0 <=> refs = 0)'
  <2>1. /\ pc[t] \in Loading <=> place \in Loading
        /\ pc[t] # "clear" /\ place # "clear"
        /\ UNCHANGED <<hProvider, image, refs>>
    BY <1>2 DEF ResolveGet, Goto, provider, loader, TypeOK
  <2>. QED
    BY <1>1, <2>1, CountStays
<1>8. (adapters > 0 /\ ~gone => hProvider # 0)'
  BY <1>1, <1>2 DEF ResolveGet, Goto, provider, loader, users, Knows, TypeOK
<1>9. Deserted'
  BY DEF ResolveGet, Deserted, users
<1>. QED
  BY <1>3, <1>4, <1>5, <1>6, <1>7, <1>8, <1>9

(* Likewise; a thread gets past here only if the DLL has both functions. *)
LEMMA ResolveCanInv ==
  ASSUME DllInv, Caller = "serializes", NEW t \in Thread, ResolveCan(t)
  PROVE  DllInv'
<1>. USE DllAssumption DEF DllInv, Getting, Unloading, Loading
<1>1. PICK place \in {"idle", "using", "done"} \cup Getting \cup Unloading :
        Goto(t, place)
  BY DEF ResolveCan
<1>2. /\ pc'[t] = place /\ (\A u \in Thread \ {t} : pc'[u] = pc[u])
      /\ Loaders' = IF place \in Loading THEN Loaders \cup {t} ELSE Loaders \ {t}
      /\ pc' \in [Thread -> {"idle", "using", "done"} \cup Getting \cup Unloading]
  BY <1>1, LoadersChange DEF TypeOK
<1>3. TypeOK'
  BY <1>1, <1>2 DEF ResolveCan, TypeOK, Handle, provider, loader, users
<1>4. Alone'
  BY <1>1, <1>2 DEF ResolveCan, Alone, MayGet, MayUnload, Goto
<1>5. Knows'
  <2>1. "DllCanUnloadNow" \in exports <=> exports = AllExports
    BY DEF ResolveCan, Knows, TypeOK, AllExports
  <2>2. ASSUME NEW u \in Thread \ {t}
        PROVE  /\ pc'[u] = pc[u] /\ pc[u] # "clear"
               /\ pc[u] \in {"swap", "lose"} => pfnCan' = h[u]
    BY <1>2, <2>1 DEF ResolveCan, Alone, Knows
  <2>. QED
    BY <1>2, <2>1, <2>2 DEF ResolveCan, Knows, Goto, loader, users
<1>6. HandleIsGood'
  BY <1>1, <1>2 DEF ResolveCan, Knows, Goto, provider, loader, users, TypeOK,
     Alone, HandleIsGood, AllExports
<1>7. RefsAreHeld' /\ (image = 0 <=> refs = 0)'
  <2>1. /\ pc[t] \in Loading <=> place \in Loading
        /\ pc[t] # "clear" /\ place # "clear"
        /\ UNCHANGED <<hProvider, image, refs>>
    BY <1>2 DEF ResolveCan, Goto, provider, loader, TypeOK
  <2>. QED
    BY <1>1, <2>1, CountStays
<1>8. (adapters > 0 /\ ~gone => hProvider # 0)'
  BY <1>1, <1>2 DEF ResolveCan, Goto, provider, loader, users, Knows, TypeOK
<1>9. Deserted'
  BY DEF ResolveCan, Deserted, users
<1>. QED
  BY <1>3, <1>4, <1>5, <1>6, <1>7, <1>8, <1>9

(* A DLL without one of the functions never gets a handle. *)
LEMMA DropInv ==
  ASSUME DllInv, Caller = "serializes", NEW t \in Thread, Drop(t)
  PROVE  DllInv'
<1>. USE DllAssumption DEF DllInv, Getting, Unloading, Loading
<1>1. PICK place \in {"idle", "using", "done"} \cup Getting \cup Unloading :
        Goto(t, place)
  BY DEF Drop
<1>2. /\ pc'[t] = place /\ (\A u \in Thread \ {t} : pc'[u] = pc[u])
      /\ Loaders' = IF place \in Loading THEN Loaders \cup {t} ELSE Loaders \ {t}
      /\ pc' \in [Thread -> {"idle", "using", "done"} \cup Getting \cup Unloading]
  BY <1>1, LoadersChange DEF TypeOK
<1>a. hProvider = 0 /\ Held = 0
  BY DEF Drop, Alone, Knows, HandleIsGood, Held
<1>b. t \in Loaders /\ refs = Cardinality(Loaders) /\ refs # 0 /\ image # 0 /\ h[t] = image
  BY <1>a, Counted, LoadersCount DEF Drop, Loaders, Knows
<1>c. refs = 1 <=> Loaders \ {t} = {}
  <2>1. IsFiniteSet(Loaders \ {t}) /\ Cardinality(Loaders \ {t}) = refs - 1
    BY <1>b, LoadersCount, FS_RemoveElement
  <2>. QED
    BY <2>1, FS_EmptySet DEF TypeOK
<1>3. TypeOK'
  BY <1>1, <1>2, <1>a, <1>b, <1>c
     DEF Drop, TypeOK, Handle, provider, loader, users, FreeLibrary
<1>4. Alone'
  BY <1>1, <1>2 DEF Drop, Alone, MayGet, MayUnload, Goto
<1>5. Knows'
  <2>1. ASSUME NEW u \in Thread \ {t}
        PROVE  /\ pc'[u] = pc[u]
               /\ pc[u] \in Loading => image' = image
               /\ pc[u] # "clear"
    BY <1>2, <1>b, <1>c DEF Drop, FreeLibrary, Loaders, Alone
  <2>2. pc'[t] = "done"
    BY <1>2 DEF Drop, Goto
  <2>. QED
    BY <1>a, <2>1, <2>2 DEF Drop, Knows, provider, users
<1>6. HandleIsGood'
  BY <1>1, <1>2, <1>a, <1>b, <1>c
     DEF Drop, Knows, Goto, provider, loader, users, FreeLibrary, TypeOK, Alone,
     HandleIsGood, AllExports
<1>7. RefsAreHeld' /\ (image = 0 <=> refs = 0)'
  <2>1. Loaders' = Loaders \ {t} /\ Held' = 0
    BY <1>2, <1>a DEF Drop, Goto, provider, Held
  <2>2. refs' = refs - 1 /\ (image' = 0 <=> refs = 1)
    BY <1>b DEF Drop, FreeLibrary
  <2>. QED
    BY <2>1, <2>2, <1>b, LoadersCount, Counted DEF TypeOK
<1>8. (adapters > 0 /\ ~gone => hProvider # 0)'
  BY <1>1, <1>2 DEF Drop, Goto, provider, loader, users, Knows, TypeOK
<1>9. Deserted'
  BY DEF Drop, Deserted, users
<1>. QED
  BY <1>3, <1>4, <1>5, <1>6, <1>7, <1>8, <1>9

(* The winner's reference becomes that of m_hProvider. *)
LEMMA ExchangeInv ==
  ASSUME DllInv, Caller = "serializes", NEW t \in Thread, Exchange(t)
  PROVE  DllInv'
<1>. USE DllAssumption DEF DllInv, Getting, Unloading, Loading
<1>1. PICK place \in {"idle", "using", "done"} \cup Getting \cup Unloading :
        Goto(t, place)
  BY DEF Exchange
<1>2. /\ pc'[t] = place /\ (\A u \in Thread \ {t} : pc'[u] = pc[u])
      /\ Loaders' = IF place \in Loading THEN Loaders \cup {t} ELSE Loaders \ {t}
      /\ pc' \in [Thread -> {"idle", "using", "done"} \cup Getting \cup Unloading]
  BY <1>1, LoadersChange DEF TypeOK
<1>a. hProvider' # 0
  <2>1. t \in Loaders /\ h[t] = image
    BY DEF Exchange, Loaders, Knows
  <2>2. refs # 0
    BY <2>1, LoadersCount, Counted DEF Held
  <2>. QED
    BY <2>1, <2>2 DEF Exchange
<1>b. t \in Loaders
  BY DEF Exchange, Loaders
<1>3. TypeOK'
  BY <1>1, <1>2, <1>b DEF Exchange, TypeOK, Handle, provider, loader, users
<1>4. Alone'
  BY <1>1, <1>2 DEF Exchange, Alone, MayGet, MayUnload, Goto
<1>5. Knows'
  BY <1>2, <1>a DEF Exchange, Knows, Goto, loader, users, Alone
<1>6. HandleIsGood'
  BY <1>1, <1>2, <1>b
     DEF Exchange, Knows, Goto, provider, loader, users, TypeOK, Alone,
     HandleIsGood, AllExports
<1>7. RefsAreHeld' /\ (image = 0 <=> refs = 0)'
  <2>0. \A u \in Thread : pc[u] # "clear" /\ pc'[u] # "clear"
    BY <1>2 DEF Exchange, Alone, Goto
  <2>1. CASE hProvider = 0
    <3>1. Loaders' = Loaders \ {t} /\ Held = 0 /\ Held' = 1 /\ refs' = refs
      BY <1>2, <1>a, <2>0, <2>1 DEF Exchange, Goto, Held, loader
    <3>. QED
      BY <3>1, <1>b, LoadersCount, Counted DEF Exchange, loader
  <2>2. CASE hProvider # 0
    <3>1. Loaders' = Loaders /\ Held' = Held /\ refs' = refs
      BY <1>2, <1>b, <2>0, <2>2 DEF Exchange, Goto, Held, loader
    <3>. QED
      BY <3>1, Counted DEF Exchange, loader
  <2>. QED
    BY <2>1, <2>2
<1>8. (adapters > 0 /\ ~gone => hProvider # 0)'
  BY <1>1, <1>2 DEF Exchange, Goto, provider, loader, users, Knows, TypeOK
<1>9. Deserted'
  BY DEF Exchange, Deserted, users
<1>. QED
  BY <1>3, <1>4, <1>5, <1>6, <1>7, <1>8, <1>9

(* The winner's reference keeps the image while the loser gives its own back. *)
LEMMA LoseInv ==
  ASSUME DllInv, Caller = "serializes", NEW t \in Thread, Lose(t)
  PROVE  DllInv'
<1>. USE DllAssumption DEF DllInv, Getting, Unloading, Loading
<1>1. PICK place \in {"idle", "using", "done"} \cup Getting \cup Unloading :
        Goto(t, place)
  BY DEF Lose
<1>2. /\ pc'[t] = place /\ (\A u \in Thread \ {t} : pc'[u] = pc[u])
      /\ Loaders' = IF place \in Loading THEN Loaders \cup {t} ELSE Loaders \ {t}
      /\ pc' \in [Thread -> {"idle", "using", "done"} \cup Getting \cup Unloading]
  BY <1>1, LoadersChange DEF TypeOK
<1>a. hProvider # 0 /\ Held = 1
  BY DEF Lose, Alone, Knows, Held
<1>b. t \in Loaders /\ refs = Cardinality(Loaders) + 1
  BY <1>a, Counted DEF Lose, Loaders
<1>c. refs > 1 /\ refs' = refs - 1 /\ image' = image /\ image # 0
  BY <1>b, LoadersCount DEF Lose, Knows, FreeLibrary
<1>3. TypeOK'
  BY <1>1, <1>2, <1>a, <1>b, <1>c
     DEF Lose, TypeOK, Handle, provider, loader, users, FreeLibrary
<1>4. Alone'
  BY <1>1, <1>2 DEF Lose, Alone, MayGet, MayUnload, Goto
<1>5. Knows'
  BY <1>1, <1>2, <1>a, <1>b, <1>c
     DEF Lose, Knows, Goto, provider, loader, users, FreeLibrary, TypeOK, Alone,
     HandleIsGood
<1>6. HandleIsGood'
  BY <1>1, <1>2, <1>a, <1>b, <1>c
     DEF Lose, Knows, Goto, provider, loader, users, FreeLibrary, TypeOK, Alone,
     HandleIsGood
<1>7. RefsAreHeld' /\ (image = 0 <=> refs = 0)'
  <2>1. Loaders' = Loaders \ {t} /\ Held' = 1
    BY <1>2, <1>a DEF Lose, Goto, provider, Held, Alone
  <2>. QED
    BY <2>1, <1>b, <1>c, LoadersCount, Counted DEF TypeOK
<1>8. (adapters > 0 /\ ~gone => hProvider # 0)'
  BY <1>1, <1>2 DEF Lose, Goto, provider, loader, users, Knows, TypeOK
<1>9. Deserted'
  BY DEF Lose, Deserted, users
<1>. QED
  BY <1>3, <1>4, <1>5, <1>6, <1>7, <1>8, <1>9

(* The object keeps the DLL from agreeing to an unload. *)
LEMMA CallClassObjectInv ==
  ASSUME DllInv, Caller = "serializes", NEW t \in Thread, CallClassObject(t)
  PROVE  DllInv'
<1>. USE DllAssumption DEF DllInv, Getting, Unloading, Loading
<1>1. PICK place \in {"idle", "using", "done"} \cup Getting \cup Unloading :
        Goto(t, place)
  BY DEF CallClassObject
<1>2. /\ pc'[t] = place /\ (\A u \in Thread \ {t} : pc'[u] = pc[u])
      /\ Loaders' = IF place \in Loading THEN Loaders \cup {t} ELSE Loaders \ {t}
      /\ pc' \in [Thread -> {"idle", "using", "done"} \cup Getting \cup Unloading]
  BY <1>1, LoadersChange DEF TypeOK
<1>3. TypeOK'
  BY <1>1, <1>2 DEF CallClassObject, TypeOK, Handle, provider, loader, users
<1>4. Alone'
  BY <1>1, <1>2 DEF CallClassObject, Alone, MayGet, MayUnload, Goto
<1>5. Knows'
  BY <1>1, <1>2 DEF CallClassObject, Knows, Goto, provider, loader, users, Alone
<1>6. HandleIsGood'
  BY <1>1, <1>2 DEF CallClassObject, Goto, provider, loader, users, Alone,
     HandleIsGood
<1>7. RefsAreHeld' /\ (image = 0 <=> refs = 0)'
  <2>1. /\ pc[t] \in Loading <=> place \in Loading
        /\ pc[t] # "clear" /\ place # "clear"
        /\ UNCHANGED <<hProvider, image, refs>>
    BY <1>2 DEF CallClassObject, Goto, provider, loader, TypeOK
  <2>. QED
    BY <1>1, <2>1, CountStays
<1>8. (adapters > 0 /\ ~gone => hProvider # 0)'
  BY <1>1, <1>2 DEF CallClassObject, Goto, provider, loader, users, Knows, TypeOK
<1>9. Deserted'
  BY DEF CallClassObject, Deserted, users
<1>. QED
  BY <1>3, <1>4, <1>5, <1>6, <1>7, <1>8, <1>9

(* So does an adapter; it is opened while the handle is set. *)
LEMMA UseProviderInv ==
  ASSUME DllInv, Caller = "serializes", NEW t \in Thread, UseProvider(t)
  PROVE  DllInv'
<1>. USE DllAssumption DEF DllInv, Getting, Unloading, Loading
<1>1. PICK place \in {"idle", "using", "done"} \cup Getting \cup Unloading :
        Goto(t, place)
  BY DEF UseProvider
<1>2. /\ pc'[t] = place /\ (\A u \in Thread \ {t} : pc'[u] = pc[u])
      /\ Loaders' = IF place \in Loading THEN Loaders \cup {t} ELSE Loaders \ {t}
      /\ pc' \in [Thread -> {"idle", "using", "done"} \cup Getting \cup Unloading]
  BY <1>1, LoadersChange DEF TypeOK
<1>3. TypeOK'
  BY <1>1, <1>2 DEF UseProvider, TypeOK, Handle, provider, loader, users
<1>4. Alone'
  BY <1>1, <1>2 DEF UseProvider, Alone, MayGet, MayUnload, Goto
<1>5. Knows'
  BY <1>1, <1>2 DEF UseProvider, Knows, Goto, provider, loader, users, Alone
<1>6. HandleIsGood'
  BY <1>1, <1>2 DEF UseProvider, Goto, provider, loader, users, Alone,
     HandleIsGood
<1>7. RefsAreHeld' /\ (image = 0 <=> refs = 0)'
  <2>1. /\ pc[t] \in Loading <=> place \in Loading
        /\ pc[t] # "clear" /\ place # "clear"
        /\ UNCHANGED <<hProvider, image, refs>>
    BY <1>2 DEF UseProvider, Goto, provider, loader, TypeOK
  <2>. QED
    BY <1>1, <2>1, CountStays
<1>8. (adapters > 0 /\ ~gone => hProvider # 0)'
  BY <1>1, <1>2 DEF UseProvider, Goto, provider, loader, users, Knows, TypeOK
<1>9. Deserted'
  BY DEF UseProvider, Deserted, users
<1>. QED
  BY <1>3, <1>4, <1>5, <1>6, <1>7, <1>8, <1>9

(* It begins when nobody is in GetClassObject or in TryUnload. *)
LEMMA TryUnloadInv ==
  ASSUME DllInv, Caller = "serializes", NEW t \in Thread, TryUnload(t)
  PROVE  DllInv'
<1>. USE DllAssumption DEF DllInv, Getting, Unloading, Loading
<1>1. PICK place \in {"idle", "using", "done"} \cup Getting \cup Unloading :
        Goto(t, place)
  BY DEF TryUnload
<1>2. /\ pc'[t] = place /\ (\A u \in Thread \ {t} : pc'[u] = pc[u])
      /\ Loaders' = IF place \in Loading THEN Loaders \cup {t} ELSE Loaders \ {t}
      /\ pc' \in [Thread -> {"idle", "using", "done"} \cup Getting \cup Unloading]
  BY <1>1, LoadersChange DEF TypeOK
<1>3. TypeOK'
  BY <1>1, <1>2 DEF TryUnload, TypeOK, Handle, provider, loader, users
<1>4. Alone'
  BY <1>1, <1>2 DEF TryUnload, Alone, MayGet, MayUnload, Goto
<1>5. Knows'
  BY <1>1, <1>2 DEF TryUnload, Knows, Goto, provider, loader, users, Alone
<1>6. HandleIsGood'
  BY <1>1, <1>2 DEF TryUnload, Goto, provider, loader, users, Alone, HandleIsGood
<1>7. RefsAreHeld' /\ (image = 0 <=> refs = 0)'
  <2>1. /\ pc[t] \in Loading <=> place \in Loading
        /\ pc[t] # "clear" /\ place # "clear"
        /\ UNCHANGED <<hProvider, image, refs>>
    BY <1>2 DEF TryUnload, Goto, provider, loader, TypeOK
  <2>. QED
    BY <1>1, <2>1, CountStays
<1>8. (adapters > 0 /\ ~gone => hProvider # 0)'
  BY <1>1, <1>2 DEF TryUnload, Goto, provider, loader, users, Knows, TypeOK
<1>9. Deserted'
  BY DEF TryUnload, Deserted, users
<1>. QED
  BY <1>3, <1>4, <1>5, <1>6, <1>7, <1>8, <1>9

(* A handle that is set is still set when the DLL is asked. *)
LEMMA TestUnloadInv ==
  ASSUME DllInv, Caller = "serializes", NEW t \in Thread, TestUnload(t)
  PROVE  DllInv'
<1>. USE DllAssumption DEF DllInv, Getting, Unloading, Loading
<1>1. PICK place \in {"idle", "using", "done"} \cup Getting \cup Unloading :
        Goto(t, place)
  BY DEF TestUnload
<1>2. /\ pc'[t] = place /\ (\A u \in Thread \ {t} : pc'[u] = pc[u])
      /\ Loaders' = IF place \in Loading THEN Loaders \cup {t} ELSE Loaders \ {t}
      /\ pc' \in [Thread -> {"idle", "using", "done"} \cup Getting \cup Unloading]
  BY <1>1, LoadersChange DEF TypeOK
<1>3. TypeOK'
  BY <1>1, <1>2 DEF TestUnload, TypeOK, Handle, provider, loader, users
<1>4. Alone'
  BY <1>1, <1>2 DEF TestUnload, Alone, MayGet, MayUnload, Goto
<1>5. Knows'
  BY <1>1, <1>2 DEF TestUnload, Knows, Goto, provider, loader, users, Alone
<1>6. HandleIsGood'
  BY <1>1, <1>2 DEF TestUnload, Goto, provider, loader, users, Alone, HandleIsGood
<1>7. RefsAreHeld' /\ (image = 0 <=> refs = 0)'
  <2>1. /\ pc[t] \in Loading <=> place \in Loading
        /\ pc[t] # "clear" /\ place # "clear"
        /\ UNCHANGED <<hProvider, image, refs>>
    BY <1>2 DEF TestUnload, Goto, provider, loader, TypeOK
  <2>. QED
    BY <1>1, <2>1, CountStays
<1>8. (adapters > 0 /\ ~gone => hProvider # 0)'
  BY <1>1, <1>2 DEF TestUnload, Goto, provider, loader, users, Knows, TypeOK
<1>9. Deserted'
  BY DEF TestUnload, Deserted, users
<1>. QED
  BY <1>3, <1>4, <1>5, <1>6, <1>7, <1>8, <1>9

(* The DLL agrees only if no object is in use, and none can come. *)
LEMMA AskInv ==
  ASSUME DllInv, Caller = "serializes", NEW t \in Thread, Ask(t)
  PROVE  DllInv'
<1>. USE DllAssumption DEF DllInv, Getting, Unloading, Loading
<1>1. PICK place \in {"idle", "using", "done"} \cup Getting \cup Unloading :
        Goto(t, place)
  BY DEF Ask
<1>2. /\ pc'[t] = place /\ (\A u \in Thread \ {t} : pc'[u] = pc[u])
      /\ Loaders' = IF place \in Loading THEN Loaders \cup {t} ELSE Loaders \ {t}
      /\ pc' \in [Thread -> {"idle", "using", "done"} \cup Getting \cup Unloading]
  BY <1>1, LoadersChange DEF TypeOK
<1>3. TypeOK'
  BY <1>1, <1>2 DEF Ask, TypeOK, Handle, provider, loader, users
<1>4. Alone'
  BY <1>1, <1>2 DEF Ask, Alone, MayGet, MayUnload, Goto
<1>5. Knows'
  BY <1>1, <1>2 DEF Ask, Knows, Goto, provider, loader, users, TypeOK, Alone,
     HandleIsGood
<1>6. HandleIsGood'
  BY <1>1, <1>2 DEF Ask, Knows, Goto, provider, loader, users, TypeOK, Alone,
     HandleIsGood
<1>7. RefsAreHeld' /\ (image = 0 <=> refs = 0)'
  <2>1. /\ pc[t] \in Loading <=> place \in Loading
        /\ pc[t] # "clear" /\ place # "clear"
        /\ UNCHANGED <<hProvider, image, refs>>
    BY <1>2 DEF Ask, Goto, provider, loader, TypeOK
  <2>. QED
    BY <1>1, <2>1, CountStays
<1>8. (adapters > 0 /\ ~gone => hProvider # 0)'
  BY <1>1, <1>2 DEF Ask, Goto, provider, loader, users, Knows, TypeOK
<1>9. Deserted'
  BY DEF Ask, Deserted, users
<1>. QED
  BY <1>3, <1>4, <1>5, <1>6, <1>7, <1>8, <1>9

(* The handle's reference is the last one. *)
LEMMA FreeInv ==
  ASSUME DllInv, Caller = "serializes", NEW t \in Thread, Free(t)
  PROVE  DllInv'
<1>. USE DllAssumption DEF DllInv, Getting, Unloading, Loading
<1>1. PICK place \in {"idle", "using", "done"} \cup Getting \cup Unloading :
        Goto(t, place)
  BY DEF Free
<1>2. /\ pc'[t] = place /\ (\A u \in Thread \ {t} : pc'[u] = pc[u])
      /\ Loaders' = IF place \in Loading THEN Loaders \cup {t} ELSE Loaders \ {t}
      /\ pc' \in [Thread -> {"idle", "using", "done"} \cup Getting \cup Unloading]
  BY <1>1, LoadersChange DEF TypeOK
<1>a. Loaders = {} /\ Cardinality(Loaders) = 0 /\ refs = Held
  BY UnloaderAlone DEF Free
<1>b. hProvider # 0 /\ (\A u \in Thread : pc[u] # "clear")
  BY DEF Free, Alone, Knows
<1>c. Held = 1 /\ hProvider = image /\ refs' = 0 /\ image' = 0
  BY <1>a, <1>b DEF Free, Held, HandleIsGood, FreeLibrary
<1>3. TypeOK'
  BY <1>1, <1>2, <1>a, <1>b, <1>c
     DEF Free, TypeOK, Handle, provider, loader, users, FreeLibrary
<1>4. Alone'
  BY <1>1, <1>2 DEF Free, Alone, MayGet, MayUnload, Goto
<1>5. Knows'
  BY <1>1, <1>2, <1>a, <1>b, <1>c
     DEF Free, Knows, Goto, provider, loader, users, FreeLibrary, TypeOK, Alone,
     HandleIsGood
<1>6. HandleIsGood'
  BY <1>1, <1>2, <1>a, <1>b, <1>c
     DEF Free, Knows, Goto, provider, loader, users, FreeLibrary, TypeOK, Alone,
     HandleIsGood
<1>7. RefsAreHeld' /\ (image = 0 <=> refs = 0)'
  <2>1. Loaders' = {} /\ Held' = 0
    BY <1>2, <1>a DEF Free, Goto, Held
  <2>. QED
    BY <2>1, <1>a, <1>c, Counted
<1>8. (adapters > 0 /\ ~gone => hProvider # 0)'
  BY <1>1, <1>2 DEF Free, Goto, provider, loader, users, Knows, TypeOK
<1>9. Deserted'
  BY DEF Free, Deserted, users
<1>. QED
  BY <1>3, <1>4, <1>5, <1>6, <1>7, <1>8, <1>9

(* The handle goes after the image, before anybody looks at it. *)
LEMMA ClearInv ==
  ASSUME DllInv, Caller = "serializes", NEW t \in Thread, Clear(t)
  PROVE  DllInv'
<1>. USE DllAssumption DEF DllInv, Getting, Unloading, Loading
<1>1. PICK place \in {"idle", "using", "done"} \cup Getting \cup Unloading :
        Goto(t, place)
  BY DEF Clear
<1>2. /\ pc'[t] = place /\ (\A u \in Thread \ {t} : pc'[u] = pc[u])
      /\ Loaders' = IF place \in Loading THEN Loaders \cup {t} ELSE Loaders \ {t}
      /\ pc' \in [Thread -> {"idle", "using", "done"} \cup Getting \cup Unloading]
  BY <1>1, LoadersChange DEF TypeOK
<1>a. Loaders = {} /\ Cardinality(Loaders) = 0 /\ refs = Held
  BY UnloaderAlone DEF Clear
<1>b. Held = 0 /\ image = 0
  BY DEF Clear, Held, Knows
<1>3. TypeOK'
  BY <1>1, <1>2, <1>a, <1>b DEF Clear, TypeOK, Handle, provider, loader, users
<1>4. Alone'
  BY <1>1, <1>2 DEF Clear, Alone, MayGet, MayUnload, Goto
<1>5. Knows'
  BY <1>1, <1>2, <1>a, <1>b
     DEF Clear, Knows, Goto, provider, loader, users, TypeOK, Alone, HandleIsGood
<1>6. HandleIsGood'
  BY <1>1, <1>2, <1>a, <1>b
     DEF Clear, Knows, Goto, provider, loader, users, TypeOK, Alone, HandleIsGood
<1>7. RefsAreHeld' /\ (image = 0 <=> refs = 0)'
  <2>1. Loaders' = {} /\ Held' = 0
    BY <1>2, <1>a DEF Clear, Goto, Held
  <2>. QED
    BY <2>1, <1>a, <1>b, Counted DEF Clear, loader
<1>8. (adapters > 0 /\ ~gone => hProvider # 0)'
  BY <1>1, <1>2 DEF Clear, Goto, provider, loader, users, Knows, TypeOK
<1>9. Deserted'
  BY DEF Clear, Deserted, users
<1>. QED
  BY <1>3, <1>4, <1>5, <1>6, <1>7, <1>8, <1>9

--------------------------------------------------------------------------------
(* A user's release takes nothing the DLL's place depends on. *)
LEMMA ReleaseInv == DllInv /\ ReleaseAdapter => DllInv'
<1>. SUFFICES ASSUME DllInv, ReleaseAdapter PROVE DllInv'
  OBVIOUS
<1>. USE DEF DllInv, ReleaseAdapter, provider, loader
<1>1. TypeOK'
  BY DllAssumption DEF TypeOK
<1>2. Alone' /\ Knows' /\ HandleIsGood' /\ RefsAreHeld'
  BY DEF Alone, Knows, HandleIsGood, RefsAreHeld, TypeOK
<1>. QED
  BY <1>1, <1>2 DEF TypeOK, Deserted

(* The destructor gives back the reference of m_hProvider, the only one when  *)
(* nobody is in a call.                                                      *)
LEMMA DestroyFrees ==
  ASSUME DllInv, Destroy
  PROVE  /\ Loaders = {} /\ Cardinality(Loaders) = 0
         /\ image' = 0 /\ refs' = 0 /\ loads' = loads
<1>1. Loaders = {} /\ Cardinality(Loaders) = 0
  <2>1. Loaders = {}
    BY DEF Destroy, Loaders, Loading
  <2>. QED
    BY <2>1, LoadersCount
<1>2. refs = Held
  BY <1>1, Counted DEF DllInv, Held
<1>3. CASE hProvider = 0
  <2>1. refs = 0 /\ image = 0
    BY <1>2, <1>3 DEF Held, DllInv
  <2>. QED
    BY <1>1, <1>3, <2>1 DEF Destroy, loader
<1>4. CASE hProvider # 0
  <2>1. \A u \in Thread : pc[u] # "clear"
    BY DEF Destroy
  <2>2. refs = 1 /\ image = hProvider
    BY <1>2, <1>4, <2>1 DEF Held, DllInv, HandleIsGood
  <2>. QED
    BY <1>1, <1>4, <2>2 DEF Destroy, FreeLibrary
<1>. QED
  BY <1>3, <1>4

(* Nothing is loaded once the provider is gone. *)
LEMMA DestroyInv == DllInv /\ Destroy => DllInv'
<1>. SUFFICES ASSUME DllInv, Destroy PROVE DllInv'
  OBVIOUS
<1>1. /\ image' = 0 /\ refs' = 0 /\ loads' = loads /\ hProvider' = 0 /\ gone' = TRUE
      /\ UNCHANGED <<pc, h, pfnGet, pfnCan, adapters, exports, kept>>
      /\ \A t \in Thread : pc[t] = "idle"
  BY DestroyFrees DEF Destroy
<1>2. TypeOK'
  BY <1>1, DllAssumption DEF DllInv, TypeOK, Handle
<1>3. Alone' /\ Knows' /\ HandleIsGood' /\ Deserted'
  BY <1>1 DEF Alone, Knows, HandleIsGood, Deserted, Unloading, Loading
<1>4. RefsAreHeld'
  <2>1. Loaders' = Loaders /\ Held' = 0
    BY <1>1 DEF Loaders, Held
  <2>. QED
    BY <1>1, <2>1, DestroyFrees, Counted
<1>. QED
  BY <1>1, <1>2, <1>3, <1>4 DEF DllInv

(* What is known of the DLL in every state. *)
THEOREM DllInvariant ==
  ASSUME Caller = "serializes"
  PROVE  Spec => []DllInv
<1>1. DllInv /\ [Next]_vars => DllInv'
  <2>. SUFFICES ASSUME DllInv, [Next]_vars PROVE DllInv'
    OBVIOUS
  <2>1. ASSUME NEW t \in Thread, GetStep(t)
        PROVE  DllInv'
    BY <2>1, BeginInv, TestHandleInv, LoadInv, LoadFailsInv, ResolveGetInv,
       ResolveCanInv,
       DropInv, ExchangeInv, LoseInv, CallClassObjectInv,
       UseProviderInv DEF GetStep
  <2>2. ASSUME NEW t \in Thread, UnloadStep(t)
        PROVE  DllInv'
    BY <2>2, TryUnloadInv, TestUnloadInv, AskInv, FreeInv, ClearInv DEF UnloadStep
  <2>3. CASE UNCHANGED vars
    BY <2>3 DEF vars, provider, loader, users, DllInv, TypeOK, Alone, Knows,
       HandleIsGood,
       RefsAreHeld, Deserted
  <2>. QED
    BY <2>1, <2>2, <2>3, ReleaseInv, DestroyInv DEF Next
<1>. QED
  BY <1>1, InitDll, PTL DEF Spec

(* Type correctness. *)
THEOREM DllTyped ==
  ASSUME Caller = "serializes"
  PROVE  Spec => []TypeOK
<1>1. DllInv => TypeOK
  BY DEF DllInv
<1>. QED
  BY <1>1, DllInvariant, PTL

(* No thread calls into a DLL that is gone, and no user's adapter loses its  *)
(* code, when TryUnload is serialised (ndprov.cpp:97-176).                   *)
THEOREM CodeStaysLoaded ==
  ASSUME Caller = "serializes"
  PROVE  Spec => []CodeIsLoaded
<1>1. DllInv => CodeIsLoaded
  <2>. SUFFICES ASSUME DllInv PROVE CodeIsLoaded
    OBVIOUS
  <2>1. hProvider # 0 => image # 0 \/ \E u \in Thread : pc[u] = "clear"
    BY DEF DllInv, HandleIsGood
  <2>2. ASSUME NEW t \in Thread, pc[t] \in {"call", "ask", "using"}
        PROVE  hProvider # 0 /\ \A u \in Thread : pc[u] # "clear"
    BY <2>2 DEF DllInv, Knows, Alone, Getting, Unloading, TypeOK
  <2>3. adapters > 0 /\ ~gone => hProvider # 0 /\ \A u \in Thread : pc[u] # "clear"
    BY DEF DllInv, Knows, TypeOK
  <2>. QED
    BY <2>1, <2>2, <2>3 DEF CodeIsLoaded, DllInv, HandleIsGood
<1>. QED
  BY <1>1, DllInvariant, PTL

(* The loader's count is balanced on every path (ndprov.cpp:109-141, 172).   *)
THEOREM ReferencesBalance ==
  ASSUME Caller = "serializes"
  PROVE  Spec => []RefsAreHeld
<1>1. DllInv => RefsAreHeld
  BY DEF DllInv
<1>. QED
  BY <1>1, DllInvariant, PTL

(* The assertion on the handle of the thread that loses the exchange holds.  *)
THEOREM ExchangeAssertHolds ==
  ASSUME Caller = "serializes"
  PROVE  Spec => []SameHandle
<1>1. DllInv => SameHandle
  BY DEF DllInv, SameHandle, Knows, HandleIsGood, Alone, Getting, Unloading,
     Loading
<1>. QED
  BY <1>1, DllInvariant, PTL

(* The last call takes the DLL out of memory unless an adapter of it is open: *)
(* while a thread unloads no other holds a reference.                        *)
THEOREM LastCallUnloads ==
  ASSUME Caller = "serializes"
  PROVE  Spec => []LastOneUnloads
<1>1. Init => LastOneUnloads
  BY DEF Init, LastOneUnloads
<1>2. DllInv /\ DllInv' /\ LastOneUnloads /\ [Next]_vars => LastOneUnloads'
  <2>. SUFFICES ASSUME DllInv, DllInv', LastOneUnloads, [Next]_vars,
                       \A u \in Thread : pc'[u] = "idle", image' # 0
                PROVE  kept'
    BY DEF LastOneUnloads
  <2>1. ASSUME NEW t \in Thread, GetStep(t)
        PROVE  FALSE
    <3>1. PICK place : Goto(t, place) /\ place # "idle"
      BY <2>1 DEF GetStep, Begin, TestHandle, Load, LoadFails, ResolveGet, ResolveCan,
         Drop, Exchange, Lose, CallClassObject, UseProvider
    <3>. QED
      BY <3>1, LoadersChange DEF DllInv
  <2>2. ASSUME NEW t \in Thread, UnloadStep(t)
        PROVE  kept'
    <3>1. (Loaders = {} /\ refs = Held) \/ TryUnload(t)
      BY <2>2, UnloaderAlone DEF UnloadStep, TestUnload, Ask, Free, Clear, Unloading
    <3>2. PICK place : Goto(t, place)
      BY <2>2 DEF UnloadStep, TryUnload, TestUnload, Ask, Free, Clear
    <3>3. pc'[t] = place /\ place = "idle" /\ \A u \in Thread \ {t} : pc[u] = "idle"
      BY <3>2, LoadersChange DEF DllInv
    <3>4. CASE TestUnload(t)
      BY <3>1, <3>3, <3>4 DEF TestUnload, Goto, Held, DllInv, TypeOK, loader, TryUnload
    <3>5. CASE Ask(t)
      <4>1. \A u \in Thread : pc[u] # "using"
        BY <3>3, <3>5 DEF Ask
      <4>2. adapters # 0
        BY <3>3, <3>5, <4>1 DEF Ask, Goto, DllInv, TypeOK
      <4>3. adapters > 0
        BY <4>2, DllAssumption DEF DllInv, TypeOK
      <4>4. kept' = (adapters > 0)
        BY <3>5 DEF Ask
      <4>. QED
        BY <4>3, <4>4, Zenon
    <3>6. CASE Clear(t)
      BY <3>1, <3>6 DEF Clear, Held, DllInv, Knows, loader
    <3>7. ~TryUnload(t) /\ ~Free(t)
      BY <3>3 DEF TryUnload, Free, Goto, DllInv, TypeOK
    <3>. QED
      BY <2>2, <3>4, <3>5, <3>6, <3>7 DEF UnloadStep
  <2>3. CASE ReleaseAdapter
    BY <2>3 DEF ReleaseAdapter, LastOneUnloads, loader
  <2>4. CASE Destroy
    BY <2>4, DestroyFrees
  <2>5. CASE UNCHANGED vars
    BY <2>5 DEF vars, loader, users, LastOneUnloads
  <2>. QED
    BY <2>1, <2>2, <2>3, <2>4, <2>5 DEF Next
<1>. QED
  BY <1>1, <1>2, DllInvariant, PTL DEF Spec

--------------------------------------------------------------------------------
(* The objects a thread has, and what it will call on them. *)
ObjectStage ==
  \A t \in Thread :
    /\ held[t] # {} <=> pc[t] = "using"
    /\ next[t] # "none" <=> pc[t] = "using"

(* The blocks there are at each stage of Init. *)
HeapStage ==
  /\ stage \notin InitStage => "path" \notin heap
  /\ heap \subseteq {"path", "m_Path"}
  /\ gone => heap = {} /\ stage \notin InitStage

(* A provider that is not there has nobody in a call, and no DLL. *)
Absent ==
  stage # "ready" => hProvider = 0 /\ \A t \in Thread : pc[t] = "idle"

CallInv ==
  /\ held \in [Thread -> SUBSET Object]
  /\ next \in [Thread -> Method]
  /\ ObjectStage /\ HeapStage /\ Absent

--------------------------------------------------------------------------------
(* Every step is one of ProviderDll, or leaves its variables alone. *)
LEMMA StepIsDllStep ==
  ASSUME [CallNext]_allVars
  PROVE  [Next]_vars
<1>1. CASE UNCHANGED allVars
  BY <1>1 DEF allVars
<1>2. CASE InitProvider
  BY <1>2 DEF InitProvider, AllocatePath, GetProviderPath, MeasurePath, AllocateExpanded, Proceeds,
     ExpandPath
<1>3. CASE DestroyProvider
  BY <1>3 DEF DestroyProvider, Next
<1>4. ASSUME NEW t \in Thread, CallStep(t)
      PROVE  [Next]_vars
  BY <1>4 DEF CallStep, Plain, DropAndReport, ClassObject, CreateInstance, ResolveAddress,
     OpenAdapter, QueryAddressList, Unload, LetGo, Next, GetStep
<1>5. CASE ReleaseOne
  BY <1>5 DEF ReleaseOne, Next
<1>. QED
  BY <1>1, <1>2, <1>3, <1>4, <1>5 DEF CallNext

(* A provider with its objects and its memory implements the provider and DLL *)
(* of ProviderDll: the calls on the objects and Init change nothing there     *)
(* (ndprov.cpp:29-94, 189-341).                                               *)
THEOREM CallsUseTheDll == CallSpec => Spec
<1>1. CallInit => Init
  BY DEF CallInit
<1>. QED
  BY <1>1, StepIsDllStep, PTL DEF CallSpec, Spec

--------------------------------------------------------------------------------
LEMMA InitCall == CallInit => CallInv
<1>. SUFFICES ASSUME CallInit PROVE CallInv
  OBVIOUS
<1>1. held = [t \in Thread |-> {}] /\ next = [t \in Thread |-> "none"]
  BY DEF CallInit
<1>2. pc = [t \in Thread |-> "idle"] /\ hProvider = 0 /\ heap = {} /\ stage = "new"
  BY DEF CallInit, Init
<1>. QED
  BY <1>1, <1>2 DEF CallInv, ObjectStage, HeapStage, Absent, InitStage, Method, CallInit, Init

(* Only a call that gets an object or lets it go moves a thread to using or   *)
(* away from it.                                                              *)
LEMMA PlainKeeps ==
  ASSUME TypeOK, NEW t \in Thread, stage = "ready",
         UNCHANGED <<initVars, held, next, gone>>, CallInv,
         \E place : Goto(t, place) /\ place # "using", pc[t] # "using"
  PROVE  CallInv'
<1>1. \A u \in Thread : pc'[u] = "using" <=> pc[u] = "using"
  BY LoadersChange
<1>. QED
  BY <1>1 DEF CallInv, ObjectStage, HeapStage, Absent, initVars, callVars, InitStage

LEMMA CallStepInv ==
  ASSUME TypeOK, CallInv, NEW t \in Thread, CallStep(t)
  PROVE  CallInv'
<1>a. gone' = gone
  BY DEF CallStep, Plain, Begin, TestHandle, Load, LoadFails, ResolveGet, ResolveCan, Exchange,
     Lose, DropAndReport, Drop, ClassObject, CallClassObject, CreateInstance, ResolveAddress,
     OpenAdapter, QueryAddressList, LetGo, UseProvider, Unload, UnloadStep, TryUnload, TestUnload,
     Ask, Free, Clear, users, vars
<1>0. stage = "ready"
  <2>1. pc[t] # "idle" \/ stage = "ready"
    BY DEF CallStep, Plain, DropAndReport, Drop, ClassObject, CallClassObject, CreateInstance,
       ResolveAddress, OpenAdapter, QueryAddressList, Unload, CallInv, ObjectStage
  <2>. QED
    BY <2>1 DEF CallInv, Absent
<1>1. CASE Plain(t)
  <2>1. pc[t] # "using" /\ \E place : Goto(t, place) /\ place # "using"
    BY <1>1 DEF Plain, Begin, TestHandle, Load, LoadFails, ResolveGet, ResolveCan, Exchange, Lose
  <2>. QED
    BY <1>a, <1>0, <1>1, <2>1, PlainKeeps DEF Plain, callVars
<1>2. CASE DropAndReport(t)
  <2>1. pc[t] # "using" /\ \E place : Goto(t, place) /\ place # "using"
    BY <1>2 DEF DropAndReport, Drop
  <2>. QED
    BY <1>a, <1>0, <1>2, <2>1, PlainKeeps DEF DropAndReport
<1>3. CASE Unload(t)
  <2>1. pc[t] # "using" /\ \E place : Goto(t, place) /\ place # "using"
    BY <1>3 DEF Unload, UnloadStep, TryUnload, TestUnload, Ask, Free, Clear
  <2>. QED
    BY <1>a, <1>0, <1>3, <2>1, PlainKeeps DEF Unload, callVars
<1>4. CASE ClassObject(t)
  <2>1. PICK place \in {"using", "done"} : Goto(t, place)
    BY <1>4 DEF ClassObject, CallClassObject
  <2>2. pc'[t] = place /\ \A u \in Thread \ {t} : pc'[u] = pc[u]
    BY <2>1, LoadersChange
  <2>3. UNCHANGED initVars /\ pc[t] = "call"
    BY <1>4 DEF ClassObject, CallClassObject
  <2>4. CASE place = "done"
    <3>1. UNCHANGED <<held, next>>
      BY <1>4, <2>2, <2>4 DEF ClassObject
    <3>. QED
      BY <1>a, <1>0, <2>1, <2>3, <2>4, <3>1, PlainKeeps
  <2>5. CASE place = "using"
    <3>1. PICK m \in {"CreateInstance", "ResolveAddress", "QueryAddressList"},
               o \in {"factory", "provider"} :
            next' = [next EXCEPT ![t] = m] /\ held' = [held EXCEPT ![t] = {o}]
      BY <1>4, <2>2, <2>5 DEF ClassObject, Wanted
    <3>. QED
      BY <1>a, <1>0, <2>2, <2>3, <2>5, <3>1
      DEF CallInv, ObjectStage, HeapStage, Absent, initVars, Object, Method, InitStage
  <2>. QED
    BY <2>4, <2>5
<1>5. ASSUME LetGo(t)
      PROVE  CallInv'
  <2>1. pc'[t] = "done" /\ \A u \in Thread \ {t} : pc'[u] = pc[u]
    BY <1>5, LoadersChange DEF LetGo, UseProvider
  <2>. QED
    BY <1>a, <1>0, <1>5, <2>1
    DEF LetGo, CallInv, ObjectStage, HeapStage, Absent, initVars, Object, Method, InitStage
<1>6. ASSUME UNCHANGED <<vars, initVars>>, next[t] # "none",
             held' = held \/ held' = [held EXCEPT ![t] = {"provider"}],
             \E m \in {"OpenAdapter", "QueryAddressList"} : next' = [next EXCEPT ![t] = m]
      PROVE  CallInv'
  <2>1. pc' = pc /\ hProvider' = hProvider /\ pc[t] = "using"
    BY <1>6 DEF vars, provider, CallInv, ObjectStage
  <2>. QED
    BY <1>a, <1>0, <1>6, <2>1
    DEF CallInv, ObjectStage, HeapStage, Absent, initVars, Object, Method, InitStage
<1>7. CASE CreateInstance(t)
  BY <1>5, <1>6, <1>7 DEF CreateInstance
<1>8. CASE ResolveAddress(t)
  BY <1>5, <1>6, <1>8 DEF ResolveAddress
<1>9. CASE OpenAdapter(t) \/ QueryAddressList(t)
  BY <1>5, <1>9 DEF OpenAdapter, QueryAddressList
<1>. QED
  BY <1>1, <1>2, <1>3, <1>4, <1>7, <1>8, <1>9 DEF CallStep

(* The objects each thread has and the blocks there are, in every state. *)
THEOREM CallInvariant ==
  ASSUME Caller = "serializes"
  PROVE  CallSpec => []CallInv
<1>1. DllInv /\ CallInv /\ [CallNext]_allVars => CallInv'
  <2>. SUFFICES ASSUME DllInv, CallInv, [CallNext]_allVars PROVE CallInv'
    OBVIOUS
  <2>1. CASE UNCHANGED allVars
    BY <2>1 DEF allVars, vars, provider, users, initVars, callVars, CallInv, ObjectStage, HeapStage,
       Absent
  <2>2. CASE InitProvider
    <3>1. UNCHANGED <<pc, hProvider, held, next, gone>> /\ stage \in InitStage
      BY <2>2 DEF InitProvider, AllocatePath, GetProviderPath, MeasurePath, AllocateExpanded,
         Proceeds, ExpandPath, vars, provider, users, callVars, InitStage
    <3>2. HeapStage'
      BY <2>2, <3>1 DEF InitProvider, AllocatePath, GetProviderPath, MeasurePath, AllocateExpanded,
         Proceeds, ExpandPath, CallInv, HeapStage, InitStage
    <3>. QED
      BY <3>1, <3>2 DEF CallInv, ObjectStage, Absent, InitStage
  <2>3. CASE DestroyProvider
    <3>1. UNCHANGED <<pc, stage, held, next>> /\ stage \in {"ready", "failed"}
          /\ heap' = heap \ {"m_Path"} /\ hProvider' = 0 /\ \A t \in Thread : pc[t] = "idle"
      BY <2>3 DEF DestroyProvider, Destroy, callVars
    <3>. QED
      BY <3>1 DEF CallInv, ObjectStage, HeapStage, Absent, InitStage
  <2>4. ASSUME NEW t \in Thread, CallStep(t) PROVE CallInv'
    BY <2>4, CallStepInv DEF DllInv
  <2>5. CASE ReleaseOne
    BY <2>5 DEF ReleaseOne, ReleaseAdapter, provider, initVars, callVars, CallInv, ObjectStage,
       HeapStage, Absent
  <2>. QED
    BY <2>1, <2>2, <2>3, <2>4, <2>5 DEF CallNext
<1>. QED
  BY <1>1, InitCall, CallsUseTheDll, DllInvariant, PTL DEF CallSpec

(* No call leaves an object behind, Init no path, and the destructor nothing  *)
(* at all, the DLL included, whatever failed and whether TryUnload ran before *)
(* it or not (ndprov.cpp:29-94, 189-341).                                     *)
THEOREM NothingLeaks ==
  ASSUME Caller = "serializes"
  PROVE  CallSpec => []NothingIsLeaked
<1>1. DllInv /\ CallInv => NothingIsLeaked
  <2>. SUFFICES ASSUME DllInv, CallInv PROVE NothingIsLeaked
    OBVIOUS
  <2>1. ASSUME gone PROVE image = 0 /\ refs = 0
    <3>1. hProvider = 0 /\ \A t \in Thread : pc[t] = "idle"
      BY <2>1 DEF DllInv, Deserted
    <3>2. Loaders = {} /\ Held = 0
      BY <3>1 DEF Loaders, Loading, Held
    <3>3. refs = 0
      BY <3>2, LoadersCount, Counted DEF DllInv
    <3>. QED
      BY <3>3 DEF DllInv
  <2>. QED
    BY <2>1 DEF CallInv, ObjectStage, HeapStage, NothingIsLeaked
<1>. QED
  BY <1>1, CallInvariant, CallsUseTheDll, DllInvariant, PTL
================================================================================
