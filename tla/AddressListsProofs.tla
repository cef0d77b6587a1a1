-------------------------- MODULE AddressListsProofs --------------------------
(****************************************************************************)
(* Proofs about the address lists, for any number of providers, addresses   *)
(* and families of them, whatever changes, fails or throws meanwhile.       *)
(*                                                                          *)
(* RebuildIsComplete looks at the lists between two rebuilds; CompleteSoFar *)
(* says of every turn which providers the lists hold, and that a provider   *)
(* asked again fits if it has not changed since.  What a user finds in the  *)
(* lists follows from it, with the positions of the first and the last      *)
(* entry found.  What a user is answered follows from the types, by         *)
(* induction on the positions of a list: what CountAddresses counted is     *)
(* what CopyAddressList has written, address after address.                 *)
(****************************************************************************)
EXTENDS AddressLists, Positions, FiniteSetTheorems, TLAPS

(* Every list needs room, if only for its header (ndfrmwrk.cpp:226-228). *)
LEMMA ListsNeedRoom ==
  ASSUME has \in [Prov -> SUBSET Addr], NEW p \in Prov
  PROVE  Needs(p) \in Nat /\ Needs(p) # 0
<1>1. IsFiniteSet(Addr)
  <2>1. IsFiniteSet(V4 \cup V6)
    BY AddressAssumption, FS_Union
  <2>. QED
    BY <2>1, AddressAssumption, FS_Union DEF Addr
<1>2. has[p] \ V6 \in SUBSET Addr /\ has[p] \cap V6 \in SUBSET Addr
  OBVIOUS
<1>3. Cardinality(has[p] \ V6) \in Nat /\ Cardinality(has[p] \cap V6) \in Nat
  BY <1>1, <1>2, FS_Subset, FS_CardinalityType
<1>. QED
  BY <1>3 DEF Needs, Header, Entry

(* A sequence over a set is one over a larger set. *)
LEMMA SequenceOfSet ==
  ASSUME NEW S, IsFiniteSet(S)
  PROVE  SetToSeq(S) \in Seq(S)
<1>1. Cardinality(S) \in Nat /\ ExistsBijection(1..Cardinality(S), S)
  BY FS_CardinalityType
<1>2. \E f \in [1..Cardinality(S) -> S] : IsInjective(f)
  BY <1>1 DEF ExistsBijection, Bijection, Injection
<1>3. SetToSeq(S) \in [1..Cardinality(S) -> S]
  BY <1>2 DEF SetToSeq
<1>. QED
  BY <1>1, <1>3

(* The empty sequence is one over any set. *)
LEMMA EmptySequence == \A X : <<>> \in Seq(X)
OBVIOUS

(* Two sequences over a set make one over it. *)
LEMMA Concatenated ==
  ASSUME NEW X, NEW Y, Y \subseteq X, NEW s \in Seq(X), NEW t \in Seq(Y)
  PROVE  s \o t \in Seq(X)
OBVIOUS

(* The addresses that are added are a finite set. *)
LEMMA HandledIsFinite ==
  ASSUME NEW p, NEW kept \in SUBSET Handled(p)
  PROVE  IsFiniteSet(kept \X {p})
<1>1. IsFiniteSet(V4 \cup V6)
  BY AddressAssumption, FS_Union
<1>2. IsFiniteSet(kept) /\ IsFiniteSet({p})
  BY <1>1, FS_Subset, FS_Singleton DEF Handled
<1>. QED
  BY <1>2, FS_Product

(* What is taken from a provider goes to the list of its version. *)
LEMMA PushBackKeepsTypes ==
  ASSUME TypeOK, NEW p \in Prov, NEW kept \in SUBSET Handled(p), PushBack(p, kept)
  PROVE  /\ v2' \in Seq((V4 \cup V6) \X (Prov \ V1))
         /\ v1' \in Seq((V4 \cup V6) \X V1)
<1>1. IF p \in V1 THEN v1' = v1 \o SetToSeq(kept \X {p}) /\ UNCHANGED v2
                  ELSE v2' = v2 \o SetToSeq(kept \X {p}) /\ UNCHANGED v1
  BY DEF PushBack
<1>2. SetToSeq(kept \X {p}) \in Seq(kept \X {p}) /\ kept \subseteq V4 \cup V6
  BY HandledIsFinite, SequenceOfSet DEF Handled
<1>3. CASE p \in V1
  <2>1. kept \X {p} \subseteq (V4 \cup V6) \X V1
    BY <1>2, <1>3
  <2>2. v1 \o SetToSeq(kept \X {p}) \in Seq((V4 \cup V6) \X V1)
    BY <1>2, <2>1, Concatenated DEF TypeOK
  <2>. QED
    BY <1>1, <1>3, <2>2 DEF TypeOK
<1>4. CASE p \notin V1
  <2>1. kept \X {p} \subseteq (V4 \cup V6) \X (Prov \ V1)
    BY <1>2, <1>4
  <2>2. v2 \o SetToSeq(kept \X {p}) \in Seq((V4 \cup V6) \X (Prov \ V1))
    BY <1>2, <2>1, Concatenated DEF TypeOK
  <2>. QED
    BY <1>1, <1>4, <2>2 DEF TypeOK
<1>. QED
  BY <1>3, <1>4

LEMMA NextTurnTyped ==
  ASSUME TypeOK, NEW p \in Prov, turn = p, NEW c \in Nat, NEW l \in Nat, NEW o \in BOOLEAN,
         NextTurn(c, l, o)
  PROVE  /\ turn' \in 0..N /\ again' \in BOOLEAN /\ cap' \in Nat /\ len' \in Nat
         /\ outgrown' \in BOOLEAN
<1>1. N \in Nat /\ p \in 1..N
  BY AddressAssumption DEF Prov
<1>2. turn' \in 0..N
  BY <1>1 DEF NextTurn
<1>3. cap' \in Nat /\ len' \in Nat
  BY DEF NextTurn
<1>4. again' \in BOOLEAN /\ outgrown' \in BOOLEAN
  BY DEF NextTurn
<1>. QED
  BY <1>2, <1>3, <1>4

LEMMA AskKeepsTypes ==
  ASSUME TypeOK, NEW p \in Prov, AskStep(p)
  PROVE  TypeOK'
<1>1. /\ Needs(p) \in Nat /\ cap \in Nat /\ len \in Nat /\ 0 \in Nat
      /\ outgrown \in BOOLEAN /\ TRUE \in BOOLEAN /\ FALSE \in BOOLEAN
  BY ListsNeedRoom DEF TypeOK
<1>2. CASE QueryTaken(p)
  <2>1. PICK kept \in SUBSET Handled(p) :
          PushBack(p, kept) /\ amiss' \in {amiss, amiss \cup {p}}
    BY <1>2 DEF QueryTaken, BuildAddressList
  <2>. QED
    BY <1>1, <1>2, <2>1, PushBackKeepsTypes, NextTurnTyped DEF QueryTaken, TypeOK
<1>3. CASE BuildThrows(p)
  <2>1. PICK kept \in SUBSET Handled(p) : PushBack(p, kept)
    BY <1>3 DEF BuildThrows
  <2>2. turn' \in 0..N /\ amiss' \in SUBSET Prov
    BY <1>3, AddressAssumption DEF BuildThrows, TypeOK, Prov
  <2>. QED
    BY <1>3, <2>1, <2>2, PushBackKeepsTypes DEF BuildThrows, TypeOK
<1>4. CASE QueryOverflows(p)
  <2>1. amiss' \in SUBSET Prov
    BY <1>4 DEF QueryOverflows, TypeOK
  <2>2. CASE again' = TRUE /\ cap' = Needs(p) /\ len' = Needs(p) /\ outgrown' = FALSE
             /\ turn' = turn
    BY <1>1, <1>4, <2>1, <2>2 DEF QueryOverflows, TypeOK, lists
  <2>3. CASE NextTurn(0, Needs(p), FALSE)
    BY <1>1, <1>4, <2>1, <2>3, NextTurnTyped DEF QueryOverflows, TypeOK, lists
  <2>. QED
    BY <1>4, <2>2, <2>3 DEF QueryOverflows
<1>5. CASE QueryOutgrown(p)
  BY <1>1, <1>5, NextTurnTyped DEF QueryOutgrown, TypeOK, lists
<1>6. CASE QueryFails(p)
  BY <1>1, <1>6, NextTurnTyped DEF QueryFails, TypeOK, lists
<1>. QED
  BY <1>2, <1>3, <1>4, <1>5, <1>6 DEF AskStep

(* Every address is listed in the list of its provider's version and is of   *)
(* one of the two families, whatever changes or fails                        *)
(* (ndfrmwrk.cpp:527-571).                                                   *)
THEOREM ListsAreTyped == Spec => []TypeOK
<1>1. Init => TypeOK
  <2>. SUFFICES ASSUME Init PROVE TypeOK
    OBVIOUS
  <2>1. turn \in 0..N /\ cap \in Nat /\ len \in Nat /\ has \in [Prov -> SUBSET Addr]
    BY AddressAssumption DEF Init
  <2>2. v2 = <<>> /\ v1 = <<>> /\ again = FALSE /\ amiss = Prov /\ outgrown = FALSE
    BY DEF Init
  <2>. QED
    BY <2>1, <2>2, EmptySequence, Zenon DEF TypeOK
<1>2. TypeOK /\ [Next]_vars => TypeOK'
  <2>. SUFFICES ASSUME TypeOK, [Next]_vars PROVE TypeOK'
    OBVIOUS
  <2>1. CASE BeginRebuild
    BY <2>1, AddressAssumption DEF BeginRebuild, TypeOK
  <2>2. ASSUME NEW p \in Prov, AddressChanges(p) PROVE TypeOK'
    <3>1. has' \in [Prov -> SUBSET Addr] /\ amiss' \in SUBSET Prov
      <4>1. PICK a \in Addr :
              has' = [has EXCEPT ![p] = IF a \in @ THEN @ \ {a} ELSE @ \cup {a}]
        BY <2>2 DEF AddressChanges
      <4>. QED
        BY <2>2, <4>1 DEF TypeOK, AddressChanges
    <3>. QED
      BY <2>2, <3>1 DEF AddressChanges, TypeOK, turnVars, lists
  <2>3. ASSUME NEW p \in Prov, AskStep(p) PROVE TypeOK'
    BY <2>3, AskKeepsTypes
  <2>4. CASE UNCHANGED vars
    BY <2>4 DEF vars, turnVars, lists, TypeOK
  <2>. QED
    BY <2>1, <2>2, <2>3, <2>4 DEF Next
<1>. QED
  BY <1>1, <1>2, PTL DEF Spec

--------------------------------------------------------------------------------
(* Only a second answer of overflow leaves a length that is more than was     *)
(* allocated, and only until the buffer is replaced: neither a failed         *)
(* allocation nor a provider that fails does (ndfrmwrk.cpp:844-865).          *)
THEOREM RoomStaysReal == Spec => []RoomIsReal
<1>1. Init => RoomIsReal
  BY DEF Init, RoomIsReal
<1>2. TypeOK /\ RoomIsReal /\ [Next]_vars => RoomIsReal'
  <2>. SUFFICES ASSUME TypeOK, RoomIsReal, [Next]_vars, cap' # 0, ~outgrown'
                PROVE  len' <= cap'
    BY DEF RoomIsReal
  <2>1. CASE BeginRebuild \/ (\E p \in Prov : AddressChanges(p)) \/ UNCHANGED vars
    BY <2>1 DEF BeginRebuild, AddressChanges, vars, turnVars, RoomIsReal
  <2>2. ASSUME NEW p \in Prov, AskStep(p) PROVE len' <= cap'
    <3>0. Needs(p) \in Nat /\ cap \in Nat /\ len \in Nat
      BY ListsNeedRoom DEF TypeOK
    <3>1. CASE QueryTaken(p)
      <4>1. cap' = cap /\ len' = Needs(p) /\ ~outgrown /\ Needs(p) <= len
        BY <3>1 DEF QueryTaken, NextTurn, Fits
      <4>. QED
        BY <3>0, <4>1 DEF RoomIsReal
    <3>2. CASE BuildThrows(p)
      BY <3>2 DEF BuildThrows
    <3>3. CASE QueryOverflows(p)
      BY <3>0, <3>3 DEF QueryOverflows, NextTurn
    <3>4. CASE QueryOutgrown(p)
      BY <3>4 DEF QueryOutgrown, NextTurn
    <3>5. CASE QueryFails(p)
      <4>1. cap' = cap /\ len' = len /\ ~outgrown
        BY <3>5 DEF QueryFails, NextTurn
      <4>. QED
        BY <3>0, <4>1 DEF RoomIsReal
    <3>. QED
      BY <2>2, <3>1, <3>2, <3>3, <3>4, <3>5 DEF AskStep
  <2>. QED
    BY <2>1, <2>2 DEF Next
<1>. QED
  BY <1>1, <1>2, ListsAreTyped, PTL DEF Spec
--------------------------------------------------------------------------------
(* The bytes of the first k addresses of a list. *)
Sockets(list, k) ==
  16 * Cardinality({j \in 1..k : list[j][1] \in V4})
    + 28 * Cardinality({j \in 1..k : list[j][1] \in V6})

Listed == Seq((V4 \cup V6) \X Prov)

(* An entry more is the size of its address more. *)
LEMMA SocketsGrow ==
  ASSUME NEW list \in Listed, NEW k \in 0..(Len(list) - 1)
  PROVE  /\ Sockets(list, k) \in Nat
         /\ Sockets(list, k + 1) = Sockets(list, k) + SizeOf(list[k + 1][1])
<1>. DEFINE P(m, F) == {j \in 1..m : list[j][1] \in F}
<1>1. list[k + 1][1] \in V4 \cup V6
  BY DEF Listed
<1>2. \A F : IsFiniteSet(P(k, F)) /\ Cardinality(P(k, F)) \in Nat
  <2>1. IsFiniteSet(1..k)
    BY FS_Interval
  <2>2. \A F : P(k, F) \in SUBSET (1..k)
    OBVIOUS
  <2>. QED
    BY <2>1, <2>2, FS_Subset, FS_CardinalityType
<1>3. ASSUME NEW F
      PROVE  Cardinality(P(k + 1, F)) =
             IF list[k + 1][1] \in F THEN Cardinality(P(k, F)) + 1 ELSE Cardinality(P(k, F))
  <2>1. CASE list[k + 1][1] \in F
    <3>1. P(k + 1, F) = P(k, F) \cup {k + 1} /\ k + 1 \notin P(k, F)
      BY <2>1
    <3>. QED
      BY <1>2, <2>1, <3>1, FS_AddElement
  <2>2. CASE list[k + 1][1] \notin F
    <3>1. P(k + 1, F) = P(k, F)
      BY <2>2
    <3>. QED
      BY <2>2, <3>1
  <2>. QED
    BY <2>1, <2>2
<1>4. Sockets(list, k) = 16 * Cardinality(P(k, V4)) + 28 * Cardinality(P(k, V6))
  BY DEF Sockets
<1>5. Sockets(list, k + 1) =
        16 * Cardinality(P(k + 1, V4)) + 28 * Cardinality(P(k + 1, V6))
  BY DEF Sockets
<1>6. list[k + 1][1] \in V6 <=> list[k + 1][1] \notin V4
  BY <1>1, AddressAssumption
<1>. HIDE DEF P
<1>7. /\ Cardinality(P(k, V4)) \in Nat /\ Cardinality(P(k, V6)) \in Nat
      /\ Cardinality(P(k + 1, V4)) =
           IF list[k + 1][1] \in V4 THEN Cardinality(P(k, V4)) + 1 ELSE Cardinality(P(k, V4))
      /\ Cardinality(P(k + 1, V6)) =
           IF list[k + 1][1] \in V6 THEN Cardinality(P(k, V6)) + 1 ELSE Cardinality(P(k, V6))
  BY <1>2, <1>3
<1>. DEFINE n4 == Cardinality(P(k, V4))
            n6 == Cardinality(P(k, V6))
<1>8. CASE list[k + 1][1] \in V6
  <2>1. /\ Cardinality(P(k + 1, V4)) = n4 /\ Cardinality(P(k + 1, V6)) = n6 + 1
        /\ SizeOf(list[k + 1][1]) = 28
    BY <1>6, <1>7, <1>8 DEF SizeOf
  <2>2. n4 \in Nat /\ n6 \in Nat
    BY <1>7
  <2>. HIDE DEF n4, n6
  <2>. QED
    BY <1>4, <1>5, <2>1, <2>2 DEF n4, n6
<1>9. CASE list[k + 1][1] \notin V6
  <2>1. /\ Cardinality(P(k + 1, V4)) = n4 + 1 /\ Cardinality(P(k + 1, V6)) = n6
        /\ SizeOf(list[k + 1][1]) = 16
    BY <1>6, <1>7, <1>9 DEF SizeOf
  <2>2. n4 \in Nat /\ n6 \in Nat
    BY <1>7
  <2>. HIDE DEF n4, n6
  <2>. QED
    BY <1>4, <1>5, <2>1, <2>2 DEF n4, n6
<1>. QED
  BY <1>8, <1>9

(* No entries take no room. *)
LEMMA SocketsNone == ASSUME NEW list PROVE Sockets(list, 0) = 0
<1>1. \A F : {j \in 1..0 : list[j][1] \in F} = {}
  OBVIOUS
<1>. QED
  BY <1>1, FS_EmptySet DEF Sockets

(* More entries take no less room. *)
LEMMA SocketsMonotone ==
  ASSUME NEW list \in Listed, NEW k \in 0..Len(list)
  PROVE  Sockets(list, k) \in Nat /\ Sockets(list, k) <= Sockets(list, Len(list))
<1>. DEFINE n == Len(list)
            P(m, F) == {j \in 1..m : list[j][1] \in F}
<1>1. n \in Nat /\ n = Len(list) /\ k \in 0..n
  BY DEF Listed
<1>. HIDE DEF n
<1>2. \A F : P(k, F) \in SUBSET P(n, F) /\ P(n, F) \in SUBSET (1..n)
  BY <1>1
<1>3. \A F : IsFiniteSet(P(n, F))
  <2>1. IsFiniteSet(1..n)
    BY <1>1, FS_Interval
  <2>. QED
    BY <1>2, <2>1, FS_Subset
<1>4. \A F : /\ Cardinality(P(k, F)) \in Nat /\ Cardinality(P(n, F)) \in Nat
             /\ Cardinality(P(k, F)) <= Cardinality(P(n, F))
  BY <1>2, <1>3, FS_Subset, FS_CardinalityType
<1>5. /\ Sockets(list, k) = 16 * Cardinality(P(k, V4)) + 28 * Cardinality(P(k, V6))
      /\ Sockets(list, n) = 16 * Cardinality(P(n, V4)) + 28 * Cardinality(P(n, V6))
  BY DEF Sockets
<1>. HIDE DEF P
<1>. QED
  BY <1>1, <1>4, <1>5

(* CountAddresses counts every address of a list once. *)
LEMMA AllAreCounted ==
  ASSUME NEW list \in Listed
  PROVE  /\ Total(list) = Len(list)
         /\ RequiredSize(list) = Header + Entry * Len(list) + Sockets(list, Len(list))
<1>. DEFINE n == Len(list)
            A == {j \in 1..n : list[j][1] \in V4}
            B == {j \in 1..n : list[j][1] \in V6}
<1>1. /\ n \in Nat /\ n = Len(list) /\ DOMAIN list = 1..n
      /\ \A j \in 1..n : list[j][1] \in V4 \cup V6
  BY DEF Listed
<1>. HIDE DEF n
<1>2. IsFiniteSet(1..n) /\ Cardinality(1..n) = n
  <2>1. 1 \in Int /\ n \in Int
    BY <1>1
  <2>2. IsFiniteSet(1..n) /\ Cardinality(1..n) = IF 1 > n THEN 0 ELSE n - 1 + 1
    BY <2>1, FS_Interval
  <2>. QED
    BY <1>1, <2>2
<1>3. A \in SUBSET (1..n) /\ B \in SUBSET (1..n) /\ A \cup B = 1..n /\ A \cap B = {}
  BY <1>1, AddressAssumption
<1>4. IsFiniteSet(A) /\ IsFiniteSet(B)
  BY <1>2, <1>3, FS_Subset
<1>5. Cardinality(A) \in Nat /\ Cardinality(B) \in Nat
  BY <1>4, FS_CardinalityType
<1>6. n = Cardinality(A) + Cardinality(B)
  <2>1. Cardinality(A \cup B) = Cardinality(A) + Cardinality(B) - Cardinality(A \cap B)
    BY <1>4, FS_Union
  <2>2. Cardinality(A \cap B) = 0
    BY <1>3, FS_EmptySet
  <2>3. Cardinality(A \cup B) = n
    BY <1>2, <1>3
  <2>. HIDE DEF A, B
  <2>. QED
    BY <1>5, <2>1, <2>2, <2>3
<1>7. Count(list, V4) = Cardinality(A) /\ Count(list, V6) = Cardinality(B)
  BY <1>1 DEF Count
<1>8. Sockets(list, n) = 16 * Cardinality(A) + 28 * Cardinality(B)
  BY DEF Sockets
<1>. HIDE DEF A, B
<1>. QED
  BY <1>1, <1>5, <1>6, <1>7, <1>8 DEF Total, RequiredSize, Header, Entry

(* The reference for a list's size: that of what is written out. *)
LEMMA WrittenOutIsSize ==
  ASSUME NEW list \in Listed
  PROVE  WrittenOut(list) = RequiredSize(list)
<1>. DEFINE n == Len(list)
            upto[k \in 0..n] ==
              IF k = 0 THEN Header ELSE upto[k - 1] + Entry + SizeOf(list[k][1])
            Right(k) == upto[k] = Header + Entry * k + Sockets(list, k)
            T == {k \in 0..n : Right(k)}
<1>0. n \in Nat /\ n = Len(list)
  BY DEF Listed
<1>. HIDE DEF n
<1>1. \A k \in 0..n : upto[k] = IF k = 0 THEN Header
                                ELSE upto[k - 1] + Entry + SizeOf(list[k][1])
  <2>. DEFINE g == [x \in Nat \X (1..n) |-> x[1] + Entry + SizeOf(list[x[2]][1])]
  <2>1. g \in [Nat \X (1..n) -> Nat]
    BY DEF Entry, SizeOf
  <2>2. PICK f : Follows(f, n, Nat, Header, g)
    <3>. HIDE DEF g
    <3>1. Header \in Nat
      BY DEF Header
    <3>. QED
      BY <1>0, <2>1, <3>1, StepByStep
  <2>3. f = [k \in 0..n |-> IF k = 0 THEN Header
                            ELSE f[k - 1] + Entry + SizeOf(list[k][1])]
    <3>1. ASSUME NEW k \in 1..n PROVE f[k] = f[k - 1] + Entry + SizeOf(list[k][1])
      <4>1. f[k - 1] \in Nat
        BY <1>0, <2>2 DEF Follows
      <4>. QED
        BY <2>2, <4>1 DEF Follows
    <3>. QED
      BY <2>2, <3>1 DEF Follows
  <2>. QED
    BY <2>3
<1>. HIDE DEF upto
<1>2. 0 \in T
  BY <1>0, <1>1, SocketsNone DEF Header, Entry
<1>3. ASSUME NEW k \in 0..(n - 1), k \in T PROVE k + 1 \in T
  <2>1. upto[k + 1] = upto[k] + Entry + SizeOf(list[k + 1][1])
    BY <1>0, <1>1
  <2>2. /\ Sockets(list, k + 1) = Sockets(list, k) + SizeOf(list[k + 1][1])
        /\ Sockets(list, k) \in Nat
    BY <1>0, SocketsGrow
  <2>3. SizeOf(list[k + 1][1]) \in Nat
    BY DEF SizeOf
  <2>. QED
    BY <1>0, <1>3, <2>1, <2>2, <2>3 DEF Header, Entry
<1>. HIDE DEF T
<1>4. n \in T
  <2>1. 0..n \subseteq T
    BY <1>0, <1>2, <1>3, UpTo
  <2>. QED
    BY <1>0, <2>1
<1>5. WrittenOut(list) = upto[n]
  BY <1>0 DEF WrittenOut, upto
<1>. QED
  BY <1>0, <1>4, <1>5, AllAreCounted DEF T

(* With room for all addresses none of them is left out. *)
LEMMA CopiesAll ==
  ASSUME NEW list \in Listed, NEW room \in Nat, Sockets(list, Len(list)) <= room
  PROVE  Copied(list, room) = [k \in DOMAIN list |-> list[k][1]]
<1>. DEFINE n == Len(list)
            copy[k \in 0..n] ==
              IF k = 0 THEN [room |-> room, out |-> <<>>] ELSE CopyOne(copy[k - 1], list[k][1])
            T == {k \in 0..n : /\ copy[k].room = room - Sockets(list, k)
                               /\ copy[k].out = [j \in 1..k |-> list[j][1]]}
<1>0. /\ n \in Nat /\ n = Len(list) /\ DOMAIN list = 1..n
      /\ \A j \in 1..n : list[j][1] \in V4 \cup V6
  BY DEF Listed
<1>. HIDE DEF n
<1>1. \A k \in 0..n : copy[k] = IF k = 0 THEN [room |-> room, out |-> <<>>]
                                ELSE CopyOne(copy[k - 1], list[k][1])
  <2>. DEFINE S == [room : Int, out : Seq(V4 \cup V6)]
              s == [room |-> room, out |-> <<>>]
              g == [x \in S \X (1..n) |-> CopyOne(x[1], list[x[2]][1])]
  <2>1. ASSUME NEW t \in S, NEW k \in 1..n PROVE CopyOne(t, list[k][1]) \in S
    <3>1. t.room \in Int /\ t.out \in Seq(V4 \cup V6) /\ list[k][1] \in V4 \cup V6
      BY <1>0
    <3>2. SizeOf(list[k][1]) \in Int
      BY DEF SizeOf
    <3>3. Append(t.out, list[k][1]) \in Seq(V4 \cup V6)
      BY <3>1
    <3>. QED
      BY <3>1, <3>2, <3>3 DEF CopyOne
  <2>2. g \in [S \X (1..n) -> S] /\ s \in S
    BY <2>1
  <2>3. PICK f : Follows(f, n, S, s, g)
    <3>. HIDE DEF S, s, g
    <3>. QED
      BY <1>0, <2>2, StepByStep
  <2>4. \A k \in 1..n : f[k] = CopyOne(f[k - 1], list[k][1])
    <3>. SUFFICES ASSUME NEW k \in 1..n PROVE f[k] = CopyOne(f[k - 1], list[k][1])
      OBVIOUS
    <3>. HIDE DEF S
    <3>1. f[k - 1] \in S
      BY <1>0, <2>3 DEF Follows
    <3>. QED
      BY <2>3, <3>1 DEF Follows
  <2>5. f = [k \in 0..n |-> IF k = 0 THEN s ELSE CopyOne(f[k - 1], list[k][1])]
    <3>. HIDE DEF S, s
    <3>. QED
      BY <2>3, <2>4 DEF Follows
  <2>. QED
    BY <2>5
<1>. HIDE DEF copy
<1>2. 0 \in T
  BY <1>0, <1>1, SocketsNone
<1>3. ASSUME NEW k \in 0..(n - 1), k \in T PROVE k + 1 \in T
  <2>. DEFINE a == list[k + 1][1]
  <2>1. copy[k + 1] = CopyOne(copy[k], a)
    BY <1>0, <1>1
  <2>2. /\ Sockets(list, k + 1) = Sockets(list, k) + SizeOf(a)
        /\ Sockets(list, k) \in Nat /\ Sockets(list, k + 1) <= Sockets(list, n)
    BY <1>0, SocketsGrow, SocketsMonotone
  <2>3. SizeOf(a) \in Nat /\ Sockets(list, n) \in Nat
    BY <1>0, SocketsMonotone DEF SizeOf
  <2>4. SizeOf(a) <= copy[k].room
    BY <1>0, <1>3, <2>2, <2>3
  <2>5. copy[k + 1] = [room |-> copy[k].room - SizeOf(a), out |-> Append(copy[k].out, a)]
    BY <1>3, <2>1, <2>2, <2>3, <2>4 DEF CopyOne
  <2>6. copy[k].out = [j \in 1..k |-> list[j][1]]
    BY <1>3
  <2>7. Append(copy[k].out, a) = [j \in 1..(k + 1) |-> list[j][1]]
    BY <2>6
  <2>8. copy[k + 1].room = room - Sockets(list, k + 1)
    BY <1>3, <2>2, <2>3, <2>5
  <2>9. copy[k + 1].out = [j \in 1..(k + 1) |-> list[j][1]]
    BY <2>5, <2>7
  <2>10. k + 1 \in 0..n
    BY <1>0
  <2>. QED
    BY <2>8, <2>9, <2>10
<1>. HIDE DEF T
<1>4. n \in T
  <2>1. 0..n \subseteq T
    BY <1>0, <1>2, <1>3, UpTo
  <2>. QED
    BY <1>0, <2>1
<1>5. Copied(list, room) = copy[n].out
  BY <1>0 DEF Copied, copy
<1>. QED
  BY <1>0, <1>4, <1>5 DEF T

(* What a user may ask for is a list of addresses with their providers. *)
LEMMA SelectedIsListed ==
  ASSUME TypeOK, NEW versions
  PROVE  Selected(versions) \in Listed
<1>. DEFINE X == (V4 \cup V6) \X Prov
<1>1. (V4 \cup V6) \X V1 \subseteq X /\ (V4 \cup V6) \X (Prov \ V1) \subseteq X
  BY AddressAssumption DEF Prov
<1>2. v1 \in Seq(X) /\ v2 \in Seq(X) /\ <<>> \in Seq(X)
  <2>1. v1 \in Seq((V4 \cup V6) \X V1) /\ v2 \in Seq((V4 \cup V6) \X (Prov \ V1))
    BY DEF TypeOK
  <2>2. \A A, B, s : A \subseteq B /\ s \in Seq(A) => s \in Seq(B)
    OBVIOUS
  <2>. HIDE DEF X
  <2>. QED
    BY <1>1, <2>1, <2>2, EmptySequence
<1>. HIDE DEF X
<1>3. \A s, t : s \in Seq(X) /\ t \in Seq(X) => s \o t \in Seq(X)
  OBVIOUS
<1>. QED
  BY <1>2, <1>3 DEF Selected, Listed, X

(* A question with a buffer of any size is answered whole. *)
LEMMA AnyBufferAnswered ==
  ASSUME TypeOK, NEW versions, NEW given \in Nat
  PROVE  AnsweredWhole(versions, given)
<1>. DEFINE list == Selected(versions)
            n == Len(list)
            all == [k \in DOMAIN list |-> list[k][1]]
            fixed == Header + Entry * n
            used == fixed + Sockets(list, n)
<1>1. list \in Listed
  BY SelectedIsListed
<1>2. /\ n \in Nat /\ fixed \in Nat /\ Sockets(list, n) \in Nat /\ used \in Nat
      /\ n = 0 <=> list = <<>>
  <2>1. n \in Nat /\ (n = 0 <=> list = <<>>) /\ n \in 0..Len(list)
    BY <1>1 DEF Listed
  <2>2. Sockets(list, n) \in Nat
    BY <1>1, <2>1, SocketsMonotone
  <2>. QED
    BY <2>1, <2>2 DEF Header, Entry
<1>3. Total(list) = n /\ RequiredSize(list) = used /\ WrittenOut(list) = used
  BY <1>1, AllAreCounted, WrittenOutIsSize
<1>4. ASSUME NEW b \in Nat, used <= b PROVE Copied(list, b - Header - Entry * n) = all
  <2>1. b - Header - Entry * n = b - fixed
    BY <1>2 DEF Header, Entry
  <2>2. b - fixed \in Nat /\ Sockets(list, n) <= b - fixed
    BY <1>2, <1>4
  <2>. QED
    BY <1>1, <2>1, <2>2, CopiesAll
<1>5. n = 0 => all = <<>>
  BY <1>2
<1>6. Header - Header - Entry * n \in Int
  BY <1>2 DEF Header, Entry
<1>. HIDE DEF list, n, used, fixed
<1>7. CASE n = 0
  <2>1. QueryAddressList(versions, given) = [hr |-> "success", told |-> 0, got |-> <<>>]
    BY <1>3, <1>7 DEF QueryAddressList, list
  <2>. QED
    BY <1>2, <1>5, <1>7, <2>1 DEF AnsweredWhole, list
<1>8. CASE n # 0 /\ used <= given
  <2>1. QueryAddressList(versions, given) = [hr |-> "success", told |-> given, got |-> all]
    BY <1>2, <1>3, <1>4, <1>8 DEF QueryAddressList, list
  <2>. QED
    BY <1>3, <1>8, <2>1 DEF AnsweredWhole, list
<1>9. CASE n # 0 /\ used > given
  <2>1. QueryAddressList(versions, given) = [hr |-> "overflow", told |-> used, got |-> <<>>]
    BY <1>2, <1>3, <1>9 DEF QueryAddressList, list
  <2>2. QueryAddressList(versions, used) = [hr |-> "success", told |-> used, got |-> all]
    BY <1>2, <1>3, <1>4, <1>9 DEF QueryAddressList, list
  <2>. QED
    BY <1>9, <2>1, <2>2 DEF AnsweredWhole, list
<1>. QED
  BY <1>2, <1>7, <1>8, <1>9

(* Whatever lists there are and whatever buffer a user brings, it gets all    *)
(* addresses within the buffer, or is told of a size that is enough           *)
(* (ndfrmwrk.cpp:204-253, 501-606).                                          *)
THEOREM QuestionsAreAnswered ==
  Spec => [](\A versions \in SUBSET {1, 2}, given \in Nat : AnsweredWhole(versions, given))
<1>1. TypeOK => \A versions \in SUBSET {1, 2}, given \in Nat : AnsweredWhole(versions, given)
  BY AnyBufferAnswered
<1>. QED
  BY <1>1, ListsAreTyped, PTL

(* In particular for the sizes around the one that is needed. *)
THEOREM AnswersAreWhole == Spec => []AnswerIsWhole
<1>1. ASSUME TypeOK, NEW versions PROVE WrittenOut(Selected(versions)) \in Nat
  <2>. DEFINE list == Selected(versions)
  <2>1. list \in Listed
    BY <1>1, SelectedIsListed
  <2>2. Len(list) \in Nat
    BY <2>1 DEF Listed
  <2>3. Sockets(list, Len(list)) \in Nat
    BY <2>1, <2>2, SocketsMonotone
  <2>. QED
    BY <2>1, <2>2, <2>3, AllAreCounted, WrittenOutIsSize DEF Header, Entry
<1>2. ASSUME TypeOK, NEW versions
      PROVE  LET used == WrittenOut(Selected(versions))
                 least == IF used > 28 THEN used - 28 ELSE 0
             IN  \A given \in {0} \cup least..(used + 28) : AnsweredWhole(versions, given)
  <2>. DEFINE used == WrittenOut(Selected(versions))
              least == IF used > 28 THEN used - 28 ELSE 0
  <2>1. used \in Nat
    BY <1>1, <1>2
  <2>. HIDE DEF used
  <2>2. {0} \cup least..(used + 28) \subseteq Nat
    BY <2>1
  <2>3. \A given \in {0} \cup least..(used + 28) : AnsweredWhole(versions, given)
    <3>. HIDE DEF least
    <3>. QED
      BY <1>2, <2>2, AnyBufferAnswered
  <2>. QED
    BY <2>3 DEF used
<1>3. TypeOK => AnswerIsWhole
  BY <1>2 DEF AnswerIsWhole
<1>. QED
  BY <1>3, ListsAreTyped, PTL

(* ResolveAddress tells the whole size: the cap leaves nothing in the half    *)
(* that WSAIoctl does not write (ndfrmwrk.cpp:272-316).                      *)
THEOREM ResolveTellsTheSize == Spec => []SizeToldIsWhole
<1>1. SizeToldIsWhole
  <2>. SUFFICES ASSUME NEW a \in V4 \cup V6, NEW given \in 0..(2 * Dword), NEW outcome \in Outcome
                PROVE  LET answer == ResolveAddress(a, given, outcome, {})
                       IN  /\ answer.told < Dword
                           /\ answer.hr = "overflow" <=> outcome = "answers" /\ given < SizeOf(a)
                           /\ outcome = "answers" =>
                                answer.told = SizeOf(a) /\ answer.hr # "unsuccessful"
    BY DEF SizeToldIsWhole
  <2>. DEFINE size == Capped(given)
              answer == ResolveAddress(a, given, outcome, {})
  <2>1. given \in Nat /\ Dword \in Nat /\ Dword > 28
    BY AddressAssumption
  <2>2. SizeOf(a) \in {16, 28}
    BY DEF SizeOf
  <2>3. size \in 0..(Dword - 1) /\ (size < SizeOf(a) <=> given < SizeOf(a))
    BY <2>1, <2>2 DEF Capped
  <2>4. size % Dword = size
    BY <2>1, <2>3
  <2>. HIDE DEF size
  <2>5. size - (size % Dword) + SizeOf(a) = SizeOf(a)
    BY <2>2, <2>3, <2>4
  <2>6. CASE outcome = "answers" /\ given < SizeOf(a)
    <3>1. SizeOf(a) > size % Dword /\ size < SizeOf(a)
      BY <2>2, <2>3, <2>4, <2>6
    <3>2. answer = [hr |-> IF size < size - (size % Dword) + SizeOf(a)
                             THEN "overflow" ELSE "unsuccessful",
                    told |-> size - (size % Dword) + SizeOf(a)]
      BY <2>6, <3>1 DEF ResolveAddress, size
    <3>3. answer = [hr |-> "overflow", told |-> SizeOf(a)]
      <4>. HIDE DEF answer
      <4>. QED
        BY <2>5, <3>1, <3>2
    <3>. QED
      BY <2>1, <2>2, <2>6, <3>3
  <2>7. CASE outcome = "answers" /\ ~(given < SizeOf(a))
    <3>1. SizeOf(a) <= size % Dword /\ ~(SizeOf(a) > size % Dword)
      BY <2>1, <2>2, <2>3, <2>4, <2>7
    <3>2. answer = [hr |-> IF Find(v2 \o v1, a, {}) = {} THEN "invalid" ELSE "success",
                    told |-> SizeOf(a)]
      BY <2>5, <2>7, <3>1 DEF ResolveAddress, size
    <3>. QED
      BY <2>1, <2>2, <2>7, <3>2
  <2>8. CASE outcome # "answers"
    <3>1. answer.told = size /\ answer.hr \in {"invalid", "unreachable", "unsuccessful"}
      BY <2>8 DEF ResolveAddress, size, Outcome, Failures
    <3>. QED
      BY <2>1, <2>3, <2>8, <3>1
  <2>. QED
    BY <2>6, <2>7, <2>8
<1>. QED
  BY <1>1, PTL

--------------------------------------------------------------------------------
(* What a rebuild has listed so far. *)

(* The providers it is done with. *)
AskedSoFar == {p \in Prov : turn = 0 \/ p < turn}

(* What a provider has, as entries, and what a list has of it. *)
Offered(p) == (has[p] \ Other) \X {p}
Mine(list, p) == {x \in ToSet(list) : x[2] = p}

(* A provider that is asked again and has not changed since fits; the lists   *)
(* hold nobody who was not asked, nothing twice, and what each provider asked *)
(* has that has not changed or failed.                                        *)
CompleteSoFar ==
  /\ again => turn \in Prov
  /\ again /\ turn \notin amiss => cap # 0 /\ len = Needs(turn)
  /\ IsInjective(v2) /\ IsInjective(v1)
  /\ \A x \in ToSet(v2) \cup ToSet(v1) : x[2] \in AskedSoFar
  /\ \A p \in AskedSoFar \ amiss : Mine(IF p \in V1 THEN v1 ELSE v2, p) = Offered(p)

(* Every entry of a list of types. *)
LEMMA ListsOfAddresses ==
  ASSUME TypeOK
  PROVE  /\ v2 \in Seq(Addr \X Prov) /\ v1 \in Seq(Addr \X Prov)
         /\ \A x \in ToSet(v2) : x \in Addr \X Prov /\ x[2] \notin V1
         /\ \A x \in ToSet(v1) : x \in Addr \X Prov /\ x[2] \in V1
<1>1. V1 \subseteq Prov
  BY AddressAssumption DEF Prov
<1>2. \A A, B, s : A \subseteq B /\ s \in Seq(A) => s \in Seq(B)
  OBVIOUS
<1>3. /\ (V4 \cup V6) \X (Prov \ V1) \subseteq Addr \X Prov
      /\ (V4 \cup V6) \X V1 \subseteq Addr \X Prov
  BY <1>1 DEF Addr
<1>4. v1 \in Seq((V4 \cup V6) \X V1) /\ v2 \in Seq((V4 \cup V6) \X (Prov \ V1))
  BY DEF TypeOK
<1>5. v2 \in Seq(Addr \X Prov) /\ v1 \in Seq(Addr \X Prov)
  BY <1>2, <1>3, <1>4
<1>6. /\ \A x \in ToSet(v2) : x \in (V4 \cup V6) \X (Prov \ V1)
      /\ \A x \in ToSet(v1) : x \in (V4 \cup V6) \X V1
  BY <1>4 DEF ToSet
<1>. QED
  BY <1>1, <1>5, <1>6 DEF Addr

(* A set is written out as a sequence that has each of its elements once. *)
LEMMA SequenceHasSet ==
  ASSUME NEW S, IsFiniteSet(S)
  PROVE  ToSet(SetToSeq(S)) = S /\ IsInjective(SetToSeq(S))
<1>. DEFINE n == Cardinality(S)
<1>1. n \in Nat /\ ExistsBijection(1..n, S)
  BY FS_CardinalityType
<1>2. \E f \in [1..n -> S] : IsInjective(f)
  BY <1>1 DEF ExistsBijection, Bijection, Injection, IsInjective
<1>3. SetToSeq(S) \in [1..n -> S] /\ IsInjective(SetToSeq(S))
  BY <1>2 DEF SetToSeq
<1>4. SetToSeq(S) \in Injection(1..n, S)
  BY <1>3 DEF Injection, IsInjective
<1>5. Cardinality(1..n) = n
  BY <1>1, FS_Interval
<1>6. SetToSeq(S) \in Surjection(1..n, S)
  <2>. HIDE DEF n
  <2>1. n = Cardinality(S)
    BY DEF n
  <2>. QED
    BY <1>4, <1>5, <2>1, FS_Injection
<1>7. \A x \in S : \E k \in 1..n : SetToSeq(S)[k] = x
  BY <1>6 DEF Surjection
<1>. QED
  BY <1>3, <1>7 DEF ToSet

(* A list is lengthened by addresses it does not have. *)
LEMMA Lengthened ==
  ASSUME NEW X, NEW s \in Seq(X), NEW t \in Seq(X),
         IsInjective(s), IsInjective(t), ToSet(s) \cap ToSet(t) = {}
  PROVE  ToSet(s \o t) = ToSet(s) \cup ToSet(t) /\ IsInjective(s \o t)
<1>. DEFINE m == Len(s)  n == Len(t)
<1>1. /\ m \in Nat /\ n \in Nat /\ DOMAIN s = 1..m /\ DOMAIN t = 1..n
      /\ DOMAIN (s \o t) = 1..(m + n)
  OBVIOUS
<1>2. \A k \in 1..m : (s \o t)[k] = s[k]
  OBVIOUS
<1>3. \A k \in (m + 1)..(m + n) : (s \o t)[k] = t[k - m] /\ k - m \in 1..n
  BY <1>1
<1>4. \A k \in 1..n : (s \o t)[k + m] = t[k] /\ k + m \in 1..(m + n)
  BY <1>1
<1>5. \A k \in 1..(m + n) : k \in 1..m \/ k \in (m + 1)..(m + n)
  BY <1>1
<1>. DEFINE st == s \o t
<1>. HIDE DEF m, n, st
<1>6. ToSet(st) = ToSet(s) \cup ToSet(t)
  <2>1. ToSet(st) \subseteq ToSet(s) \cup ToSet(t)
    BY <1>1, <1>2, <1>3, <1>5 DEF ToSet, st
  <2>2. ToSet(s) \subseteq ToSet(st)
    BY <1>1, <1>2 DEF ToSet, st
  <2>3. ToSet(t) \subseteq ToSet(st)
    BY <1>1, <1>4 DEF ToSet, st
  <2>. QED
    BY <2>1, <2>2, <2>3
<1>7. ASSUME NEW j \in 1..(m + n), NEW k \in 1..(m + n), st[j] = st[k] PROVE j = k
  <2>1. CASE j \in 1..m /\ k \in 1..m
    BY <1>1, <1>2, <1>7, <2>1 DEF IsInjective, st
  <2>2. CASE j \in 1..m /\ k \in (m + 1)..(m + n)
    BY <1>1, <1>2, <1>3, <1>7, <2>2 DEF ToSet, st
  <2>3. CASE j \in (m + 1)..(m + n) /\ k \in 1..m
    BY <1>1, <1>2, <1>3, <1>7, <2>3 DEF ToSet, st
  <2>4. CASE j \in (m + 1)..(m + n) /\ k \in (m + 1)..(m + n)
    <3>1. j - m = k - m
      BY <1>1, <1>3, <1>7, <2>4 DEF IsInjective, st
    <3>. QED
      BY <1>1, <2>4, <3>1
  <2>. QED
    BY <1>5, <2>1, <2>2, <2>3, <2>4
<1>8. IsInjective(st)
  BY <1>1, <1>7 DEF IsInjective, st
<1>. QED
  BY <1>6, <1>8 DEF st

(* What is added is the provider's, once, and nobody else's entries change. *)
LEMMA PushBackAdds ==
  ASSUME TypeOK, CompleteSoFar, NEW p \in Prov, turn = p,
         NEW kept \in SUBSET Handled(p), PushBack(p, kept)
  PROVE  /\ IsInjective(v2') /\ IsInjective(v1')
         /\ ToSet(v2') \cup ToSet(v1') = ToSet(v2) \cup ToSet(v1) \cup (kept \X {p})
         /\ \A q \in Prov \ {p} : /\ Mine(v2', q) = Mine(v2, q)
                                  /\ Mine(v1', q) = Mine(v1, q)
         /\ Mine(IF p \in V1 THEN v1' ELSE v2', p) = kept \X {p}
<1>. DEFINE taken == SetToSeq(kept \X {p})
            X == Addr \X Prov
<1>1. IF p \in V1 THEN v1' = v1 \o taken /\ v2' = v2 ELSE v2' = v2 \o taken /\ v1' = v1
  BY DEF PushBack
<1>2. /\ taken \in Seq(kept \X {p})
      /\ ToSet(taken) = kept \X {p} /\ IsInjective(taken)
  BY HandledIsFinite, SequenceOfSet, SequenceHasSet
<1>3. taken \in Seq(X)
  <2>1. kept \X {p} \subseteq X
    BY DEF Handled, Addr
  <2>. HIDE DEF X, taken
  <2>2. \A A, B, s : A \subseteq B /\ s \in Seq(A) => s \in Seq(B)
    OBVIOUS
  <2>. QED
    BY <1>2, <2>1, <2>2
<1>4. \A x \in ToSet(v2) \cup ToSet(v1) : x[2] # p
  BY AddressAssumption DEF CompleteSoFar, AskedSoFar, Prov
<1>5. v2 \in Seq(X) /\ v1 \in Seq(X)
  BY ListsOfAddresses
<1>6. \A x \in kept \X {p} : x[2] = p
  OBVIOUS
<1>7. ASSUME NEW s \in Seq(X), IsInjective(s), \A x \in ToSet(s) : x[2] # p
      PROVE  /\ ToSet(s \o taken) = ToSet(s) \cup (kept \X {p}) /\ IsInjective(s \o taken)
             /\ Mine(s \o taken, p) = kept \X {p}
             /\ \A q \in Prov \ {p} : Mine(s \o taken, q) = Mine(s, q)
  <2>. HIDE DEF X, taken
  <2>1. ToSet(s) \cap ToSet(taken) = {}
    BY <1>2, <1>6, <1>7
  <2>2. ToSet(s \o taken) = ToSet(s) \cup (kept \X {p}) /\ IsInjective(s \o taken)
    BY <1>2, <1>3, <1>7, <2>1, Lengthened
  <2>. QED
    BY <1>6, <1>7, <2>2 DEF Mine
<1>. HIDE DEF taken, X
<1>8. CASE p \in V1
  BY <1>1, <1>4, <1>5, <1>7, <1>8 DEF CompleteSoFar
<1>9. CASE p \notin V1
  BY <1>1, <1>4, <1>5, <1>7, <1>9 DEF CompleteSoFar
<1>. QED
  BY <1>8, <1>9

LEMMA NextTurnAsks ==
  ASSUME TypeOK, NEW p \in Prov, turn = p, NEW c, NEW l, NEW o, NextTurn(c, l, o)
  PROVE  AskedSoFar' = AskedSoFar \cup {p} /\ again' = FALSE
<1>1. N \in Nat /\ p \in 1..N /\ Prov = 1..N
  BY AddressAssumption DEF Prov
<1>2. CASE p = N
  <2>1. turn' = 0 /\ again' = FALSE
    BY <1>2 DEF NextTurn
  <2>. QED
    BY <1>1, <1>2, <2>1 DEF AskedSoFar
<1>3. CASE p # N
  <2>1. turn' = p + 1 /\ again' = FALSE
    BY <1>3 DEF NextTurn
  <2>. QED
    BY <1>1, <1>3, <2>1 DEF AskedSoFar
<1>. QED
  BY <1>2, <1>3

(* A provider that is left out is amiss, and the others are listed as before. *)
LEMMA LeftOut ==
  ASSUME TypeOK, CompleteSoFar, NEW p \in Prov, turn = p, UNCHANGED <<has, v2, v1>>,
         AskedSoFar' = AskedSoFar \cup {p}, again' = FALSE, amiss' = amiss \cup {p}
  PROVE  CompleteSoFar'
BY DEF CompleteSoFar, Offered, Mine

(* A change comes too late for the providers that were asked, and they are *)
(* amiss; the others have still to be asked.                               *)
LEMMA ChangeKeepsComplete ==
  ASSUME TypeOK, CompleteSoFar, NEW p \in Prov, AddressChanges(p)
  PROVE  CompleteSoFar'
<1>1. UNCHANGED <<turn, again, cap, len, v2, v1>> /\ AskedSoFar' = AskedSoFar
  BY DEF AddressChanges, turnVars, lists, AskedSoFar
<1>2. \A q \in Prov \ {p} : has'[q] = has[q]
  BY DEF AddressChanges
<1>3. amiss \subseteq amiss' /\ (p \in AskedSoFar \/ (again /\ turn = p) => p \in amiss')
  BY DEF AddressChanges, AskedSoFar
<1>4. ASSUME again, turn \notin amiss' PROVE cap' # 0 /\ len' = Needs(turn)'
  <2>1. turn \in Prov \ {p} /\ turn \notin amiss
    BY <1>3, <1>4 DEF CompleteSoFar
  <2>2. Needs(turn)' = Needs(turn)
    BY <1>1, <1>2, <2>1 DEF Needs
  <2>. QED
    BY <1>1, <1>4, <2>1, <2>2 DEF CompleteSoFar
<1>5. \A q \in AskedSoFar \ amiss' : q \in Prov \ {p} /\ q \notin amiss
  BY <1>3 DEF AskedSoFar
<1>. QED
  BY <1>1, <1>2, <1>4, <1>5 DEF CompleteSoFar, Offered, Mine

LEMMA StepKeepsComplete ==
  ASSUME TypeOK, CompleteSoFar, [Next]_vars
  PROVE  CompleteSoFar'
<1>1. CASE BeginRebuild
  <2>1. again' = FALSE /\ turn' = 1 /\ v2' = <<>> /\ v1' = <<>>
    BY <1>1, AddressAssumption DEF BeginRebuild, CompleteSoFar, TypeOK, Prov
  <2>2. AskedSoFar' = {}
    BY <2>1, AddressAssumption DEF AskedSoFar, Prov
  <2>3. ToSet(<<>>) = {} /\ IsInjective(<<>>)
    BY DEF ToSet, IsInjective
  <2>. QED
    BY <2>1, <2>2, <2>3 DEF CompleteSoFar
<1>2. ASSUME NEW p \in Prov, AddressChanges(p) PROVE CompleteSoFar'
  BY <1>2, ChangeKeepsComplete
<1>3. ASSUME NEW p \in Prov, QueryTaken(p) PROVE CompleteSoFar'
  <2>1. PICK kept \in SUBSET Handled(p) :
          /\ PushBack(p, kept)
          /\ amiss' = IF kept = Handled(p) THEN amiss ELSE amiss \cup {p}
    BY <1>3 DEF QueryTaken, BuildAddressList
  <2>2. turn = p /\ has' = has /\ AskedSoFar' = AskedSoFar \cup {p} /\ again' = FALSE
    BY <1>3, NextTurnAsks DEF QueryTaken
  <2>3. /\ IsInjective(v2') /\ IsInjective(v1')
        /\ ToSet(v2') \cup ToSet(v1') = ToSet(v2) \cup ToSet(v1) \cup (kept \X {p})
        /\ \A q \in Prov \ {p} : Mine(v2', q) = Mine(v2, q) /\ Mine(v1', q) = Mine(v1, q)
        /\ Mine(IF p \in V1 THEN v1' ELSE v2', p) = kept \X {p}
    BY <2>1, <2>2, PushBackAdds
  <2>4. \A x \in ToSet(v2') \cup ToSet(v1') : x[2] \in AskedSoFar'
    BY <2>2, <2>3 DEF CompleteSoFar
  <2>5. ASSUME NEW q \in AskedSoFar' \ amiss'
        PROVE  Mine(IF q \in V1 THEN v1' ELSE v2', q) = (has'[q] \ Other) \X {q}
    <3>1. CASE q = p
      <4>1. kept = has[p] \ Other
        BY <2>1, <2>5, <3>1, AddressAssumption DEF Handled, TypeOK, Addr
      <4>. QED
        BY <2>2, <2>3, <3>1, <4>1
    <3>2. CASE q # p
      <4>1. q \in AskedSoFar \ amiss /\ q \in Prov \ {p}
        BY <2>1, <2>2, <2>5, <3>2 DEF AskedSoFar
      <4>2. Mine(IF q \in V1 THEN v1 ELSE v2, q) = Offered(q)
        BY <4>1 DEF CompleteSoFar
      <4>. QED
        BY <2>2, <2>3, <4>1, <4>2 DEF Offered
    <3>. QED
      BY <3>1, <3>2
  <2>. QED
    BY <2>2, <2>3, <2>4, <2>5 DEF CompleteSoFar, Offered, Mine
<1>4. ASSUME NEW p \in Prov, BuildThrows(p) PROVE CompleteSoFar'
  <2>1. PICK kept \in SUBSET Handled(p) : PushBack(p, kept)
    BY <1>4 DEF BuildThrows
  <2>2. /\ turn = p /\ has' = has /\ turn' = 0 /\ again' = FALSE
        /\ amiss' = amiss \cup p..N
    BY <1>4 DEF BuildThrows
  <2>3. AskedSoFar' = Prov /\ p \in Nat
    BY <2>2 DEF AskedSoFar, Prov
  <2>4. /\ IsInjective(v2') /\ IsInjective(v1')
        /\ ToSet(v2') \cup ToSet(v1') = ToSet(v2) \cup ToSet(v1) \cup (kept \X {p})
        /\ \A q \in Prov \ {p} : Mine(v2', q) = Mine(v2, q) /\ Mine(v1', q) = Mine(v1, q)
    BY <2>1, <2>2, PushBackAdds
  <2>5. \A x \in ToSet(v2') \cup ToSet(v1') : x[2] \in Prov
    BY <2>4 DEF CompleteSoFar, AskedSoFar
  <2>6. ASSUME NEW q \in Prov \ amiss'
        PROVE  Mine(IF q \in V1 THEN v1' ELSE v2', q) = (has'[q] \ Other) \X {q}
    <3>1. q \in AskedSoFar \ amiss /\ q # p
      BY <2>2, <2>3, <2>6, AddressAssumption DEF AskedSoFar, Prov
    <3>2. Mine(IF q \in V1 THEN v1 ELSE v2, q) = Offered(q)
      BY <3>1 DEF CompleteSoFar
    <3>. QED
      BY <2>2, <2>4, <3>1, <3>2 DEF Offered
  <2>. QED
    BY <2>2, <2>3, <2>4, <2>5, <2>6 DEF CompleteSoFar, Offered, Mine
<1>5. ASSUME NEW p \in Prov, QueryOverflows(p) PROVE CompleteSoFar'
  <2>1. turn = p /\ UNCHANGED <<has, v2, v1>>
    BY <1>5 DEF QueryOverflows, lists
  <2>2. CASE again' = TRUE /\ cap' = Needs(p) /\ len' = Needs(p) /\ UNCHANGED <<turn, amiss>>
    <3>1. Needs(p) # 0
      BY ListsNeedRoom DEF TypeOK
    <3>2. AskedSoFar' = AskedSoFar
      BY <2>2 DEF AskedSoFar
    <3>3. Needs(turn)' = Needs(p)
      BY <2>1, <2>2 DEF Needs
    <3>. QED
      BY <2>1, <2>2, <3>1, <3>2, <3>3 DEF CompleteSoFar, Offered, Mine
  <2>3. CASE NextTurn(0, Needs(p), FALSE) /\ amiss' = amiss \cup {p}
    BY <2>1, <2>3, NextTurnAsks, LeftOut
  <2>. QED
    BY <1>5, <2>2, <2>3 DEF QueryOverflows
<1>6. ASSUME NEW p \in Prov, QueryOutgrown(p) PROVE CompleteSoFar'
  <2>1. turn = p /\ again /\ ~Fits(p) /\ NextTurn(cap, Needs(p), TRUE)
        /\ UNCHANGED <<has, v2, v1, amiss>>
    BY <1>6 DEF QueryOutgrown, lists
  <2>2. p \in amiss
    <3>1. Needs(p) \in Nat
      BY ListsNeedRoom DEF TypeOK
    <3>. QED
      BY <2>1, <3>1 DEF CompleteSoFar, Fits
  <2>3. amiss' = amiss \cup {p}
    BY <2>1, <2>2
  <2>. QED
    BY <2>1, <2>3, NextTurnAsks, LeftOut
<1>7. ASSUME NEW p \in Prov, QueryFails(p) PROVE CompleteSoFar'
  BY <1>7, NextTurnAsks, LeftOut DEF QueryFails, lists
<1>8. CASE UNCHANGED vars
  BY <1>8 DEF vars, turnVars, lists, CompleteSoFar, AskedSoFar, Offered, Mine, Needs
<1>. QED
  BY <1>1, <1>2, <1>3, <1>4, <1>5, <1>6, <1>7, <1>8 DEF Next, AskStep

LEMMA CompleteInvariant == Spec => [](TypeOK /\ CompleteSoFar)
<1>1. Init => CompleteSoFar
  <2>1. ToSet(<<>>) = {} /\ IsInjective(<<>>)
    BY DEF ToSet, IsInjective
  <2>. QED
    BY <2>1 DEF Init, CompleteSoFar, AskedSoFar
<1>2. TypeOK /\ CompleteSoFar /\ [Next]_vars => CompleteSoFar'
  BY StepKeepsComplete
<1>. QED
  BY <1>1, <1>2, ListsAreTyped, PTL DEF Spec

(* What the two lists hold between two rebuilds. *)
LEMMA ListsHoldAll ==
  ASSUME TypeOK, CompleteSoFar, turn = 0
  PROVE  /\ ToSet(v2 \o v1) = ToSet(v2) \cup ToSet(v1) /\ IsInjective(v2 \o v1)
         /\ v2 \o v1 \in Seq(Addr \X Prov)
         /\ \A p \in Prov \ amiss : Mine(IF p \in V1 THEN v1 ELSE v2, p) = Offered(p)
<1>1. ToSet(v2 \o v1) = ToSet(v2) \cup ToSet(v1) /\ IsInjective(v2 \o v1)
  <2>. DEFINE X == Addr \X Prov
  <2>1. v2 \in Seq(X) /\ v1 \in Seq(X) /\ ToSet(v2) \cap ToSet(v1) = {}
    BY ListsOfAddresses
  <2>. HIDE DEF X
  <2>. QED
    BY <2>1, Lengthened DEF CompleteSoFar
<1>2. v2 \o v1 \in Seq(Addr \X Prov)
  BY ListsOfAddresses, Concatenated
<1>. QED
  BY <1>1, <1>2 DEF CompleteSoFar, AskedSoFar

(* After a rebuild every provider that has not changed or failed is listed    *)
(* with all its addresses, once and under its version, whatever the others    *)
(* did: one buffer and one length serve any number of providers               *)
(* (ndfrmwrk.cpp:832-879).                                                   *)
THEOREM RebuildsAreComplete == Spec => []RebuildIsComplete
<1>1. TypeOK /\ CompleteSoFar => RebuildIsComplete
  <2>. SUFFICES ASSUME TypeOK, CompleteSoFar, turn = 0
                PROVE  /\ IsInjective(v2 \o v1)
                       /\ \A p \in Prov \ amiss :
                            /\ {x \in ToSet(v2 \o v1) : x[2] = p} = (has[p] \ Other) \X {p}
                            /\ {x \in ToSet(IF p \in V1 THEN v2 ELSE v1) : x[2] = p} = {}
    BY DEF RebuildIsComplete
  <2>1. ASSUME NEW p \in Prov \ amiss
        PROVE  /\ {x \in ToSet(v2 \o v1) : x[2] = p} = (has[p] \ Other) \X {p}
               /\ {x \in ToSet(IF p \in V1 THEN v2 ELSE v1) : x[2] = p} = {}
    <3>1. Mine(IF p \in V1 THEN v1 ELSE v2, p) = (has[p] \ Other) \X {p}
      BY ListsHoldAll DEF Offered
    <3>2. {x \in ToSet(IF p \in V1 THEN v2 ELSE v1) : x[2] = p} = {}
      BY ListsOfAddresses
    <3>3. ToSet(v2 \o v1) = ToSet(v2) \cup ToSet(v1)
      BY ListsHoldAll
    <3>. QED
      BY <3>1, <3>2, <3>3 DEF Mine
  <2>. QED
    BY <2>1, ListsHoldAll
<1>. QED
  BY <1>1, CompleteInvariant, PTL

--------------------------------------------------------------------------------
(* What a user finds. *)

(* The first of a set of positions is one of them. *)
LEMMA FirstIsIn ==
  ASSUME NEW S \in SUBSET Nat, S # {}
  PROVE  First(S) \in S
<1>1. \E k \in S : \A j \in S : k <= j
  BY LeastNumber
<1>. QED
  BY <1>1 DEF First

(* So is the last, if there are so many. *)
LEMMA LatestIsIn ==
  ASSUME NEW n \in Nat, NEW S \in SUBSET (1..n), S # {}
  PROVE  Latest(S) \in S
<1>. DEFINE T == {m \in Nat : n - m \in S}
<1>1. PICK m \in T : \A k \in T : m <= k
  <2>1. PICK k \in S : TRUE
    OBVIOUS
  <2>2. n - k \in T
    BY <2>1
  <2>3. T \in SUBSET Nat /\ T # {}
    BY <2>2
  <2>. HIDE DEF T
  <2>. QED
    BY <2>3, LeastNumber
<1>2. n - m \in S
  OBVIOUS
<1>3. ASSUME NEW j \in S PROVE j <= n - m
  <2>1. n - j \in T
    OBVIOUS
  <2>2. m <= n - j
    BY <1>1, <2>1
  <2>. QED
    BY <2>2
<1>4. \E k \in S : \A j \in S : j <= k
  BY <1>2, <1>3
<1>. QED
  BY <1>4 DEF Latest

LEMMA SizeIsValid ==
  ASSUME NEW a \in Addr
  PROVE  ValidateAddress(a, SizeOf(a)) = IF a \in Other THEN "invalid" ELSE "success"
<1>1. SizeOf(a) = IF a \in V6 THEN 28 ELSE 16
  BY DEF SizeOf
<1>2. ~(SizeOf(a) < 16 \/ SizeOf(a) > Dword - 1 \/ (a \in V6 /\ SizeOf(a) < 28))
  BY <1>1, AddressAssumption
<1>. QED
  BY <1>2 DEF ValidateAddress

(* Who is asked, and what comes of it, in a list of any length. *)
LEMMA OpenByAble ==
  ASSUME NEW version, NEW a \in Addr, a \notin Other, NEW answers, NEW like,
         ListOf(version) \in Seq(Addr \X Prov)
  PROVE  LET list == ListOf(version)
             found == Find(list, a, like)
             answer == OpenAdapter(version, a, SizeOf(a), answers, like)
         IN  /\ answer.hr = "success" =>
                  \E k \in found : answer.by = list[k][2] /\ answers[list[k][2]] = "success"
             /\ (\E k \in found : answers[list[k][2]] = "success") => answer.hr = "success"
<1>. DEFINE list == ListOf(version)
            found == Find(list, a, like)
            able == {k \in found : answers[list[k][2]] = "success"}
            asked == list[IF able = {} THEN Latest(found) ELSE First(able)][2]
            answer == OpenAdapter(version, a, SizeOf(a), answers, like)
<1>1. PICK n \in Nat : found \in SUBSET (1..n)
  BY DEF Find
<1>2. answer = IF found = {} THEN [hr |-> "invalid", by |-> 0]
               ELSE [hr |-> answers[asked], by |-> asked]
  BY SizeIsValid DEF OpenAdapter
<1>. HIDE DEF list, found, answer
<1>3. able # {} => First(able) \in able
  <2>1. able \subseteq found
    OBVIOUS
  <2>2. able \in SUBSET Nat
    <3>. HIDE DEF able
    <3>. QED
      BY <1>1, <2>1
  <2>. HIDE DEF able
  <2>. QED
    BY <2>2, FirstIsIn
<1>4. found # {} => Latest(found) \in found
  BY <1>1, LatestIsIn
<1>5. CASE able # {}
  <2>1. asked = list[First(able)][2] /\ First(able) \in found /\ found # {}
        /\ answers[asked] = "success"
    BY <1>3, <1>5
  <2>2. answer.hr = "success" /\ answer.by = list[First(able)][2]
    BY <1>2, <2>1
  <2>. QED
    BY <2>1, <2>2 DEF answer, list, found
<1>6. CASE able = {}
  <2>1. \A k \in found : answers[list[k][2]] # "success"
    BY <1>6
  <2>2. found # {} => asked = list[Latest(found)][2] /\ answers[asked] # "success"
    BY <1>4, <1>6, <2>1
  <2>3. answer.hr # "success"
    BY <1>2, <2>2
  <2>. QED
    BY <2>1, <2>3 DEF answer, list, found
<1>. QED
  BY <1>5, <1>6

(* In lists that are right about a provider it is found. *)
LEMMA NobodyIsMissed ==
  ASSUME TypeOK, CompleteSoFar, turn = 0, NEW a \in Addr, NEW like
  PROVE  NobodyMissed(a, like)
<1>. DEFINE owners(among) == {p \in among : a \in has[p] \ Other}
            willing == {answers \in [Prov -> {"success", "invalid", "other"}] :
                          \A p \in Prov : answers[p] = "success" => a \in has[p]}
            versionOf(v) == IF v = 1 THEN V1 ELSE Prov \ V1
<1>1. V1 \subseteq Prov
  BY AddressAssumption DEF Prov
<1>2. ASSUME NEW p \in Prov \ amiss, a \in has[p] \ Other
      PROVE  <<a, p>> \in ToSet(IF p \in V1 THEN v1 ELSE v2)
  BY <1>2, ListsHoldAll DEF Offered, Mine
<1>3. CheckAddress(a, SizeOf(a), like) # "success" => owners(Prov) \subseteq amiss
  <2>. SUFFICES ASSUME NEW p \in Prov \ amiss, a \in has[p] \ Other
                PROVE  CheckAddress(a, SizeOf(a), like) = "success"
    OBVIOUS
  <2>. DEFINE all == v2 \o v1
  <2>1. <<a, p>> \in ToSet(all)
    BY <1>2, ListsHoldAll
  <2>. HIDE DEF all
  <2>2. PICK k \in DOMAIN all : all[k] = <<a, p>>
    BY <2>1 DEF ToSet
  <2>3. k \in Find(all, a, like)
    BY <2>2 DEF Find, Matches
  <2>4. ValidateAddress(a, SizeOf(a)) = "success"
    BY SizeIsValid
  <2>. QED
    BY <2>3, <2>4 DEF CheckAddress, all
<1>4. ASSUME NEW v \in {1, 2}, NEW answers \in willing
      PROVE  LET answer == OpenAdapter(v, a, SizeOf(a), answers, like)
                 able == {p \in owners(versionOf(v)) : answers[p] = "success"}
             IN  /\ answer.hr = "success" => answer.by \in able
                 /\ able \ amiss # {} => answer.hr = "success"
  <2>. DEFINE list == ListOf(v)
              found == Find(list, a, like)
              answer == OpenAdapter(v, a, SizeOf(a), answers, like)
              able == {p \in owners(versionOf(v)) : answers[p] = "success"}
  <2>1. /\ list \in Seq(Addr \X Prov)
        /\ \A k \in DOMAIN list : list[k][2] \in versionOf(v)
    BY <1>1, ListsOfAddresses DEF ListOf, ToSet
  <2>2. CASE a \in Other
    <3>1. answer.hr # "success" /\ able = {}
      BY <2>2, SizeIsValid DEF OpenAdapter
    <3>. QED
      BY <3>1
  <2>3. CASE a \notin Other
    <3>1. /\ answer.hr = "success" =>
                \E k \in found : answer.by = list[k][2] /\ answers[list[k][2]] = "success"
          /\ (\E k \in found : answers[list[k][2]] = "success") => answer.hr = "success"
      BY <2>1, <2>3, OpenByAble, SMTT(20)
    <3>2. ASSUME NEW k \in found, answers[list[k][2]] = "success"
          PROVE  list[k][2] \in able
      <4>1. list[k][2] \in versionOf(v) /\ list[k][2] \in Prov
        BY <1>1, <2>1 DEF Find
      <4>. QED
        BY <2>3, <3>2, <4>1
    <3>3. ASSUME NEW p \in able \ amiss
          PROVE  \E k \in found : answers[list[k][2]] = "success"
      <4>1. p \in Prov \ amiss /\ a \in has[p] \ Other /\ answers[p] = "success"
            /\ p \in versionOf(v)
        BY <1>1
      <4>2. <<a, p>> \in ToSet(list)
        BY <1>2, <4>1 DEF ListOf
      <4>. HIDE DEF list
      <4>3. PICK k \in DOMAIN list : list[k] = <<a, p>>
        BY <4>2 DEF ToSet
      <4>4. k \in found
        BY <4>3 DEF Find, Matches
      <4>. QED
        BY <4>1, <4>3, <4>4
    <3>. HIDE DEF found, list, answer, able
    <3>4. answer.hr = "success" => answer.by \in able
      BY <3>1, <3>2
    <3>5. able \ amiss # {} => answer.hr = "success"
      BY <3>1, <3>3
    <3>. QED
      BY <3>4, <3>5 DEF answer, able
  <2>. QED
    BY <2>2, <2>3
<1>. QED
  BY <1>3, <1>4 DEF NobodyMissed

(* Whatever entries of the other family are taken for an address, whatever    *)
(* changed or failed in the rebuild and whichever providers refuse, a user    *)
(* misses no provider that the lists are right about, and is opened no        *)
(* adapter by another (ndfrmwrk.cpp:346-450, 461-498, ndaddr.cpp:40-55).     *)
THEOREM NobodyIsEverMissed == Spec => []LookupsMissNobody
<1>1. TypeOK /\ CompleteSoFar => LookupsMissNobody
  BY NobodyIsMissed DEF LookupsMissNobody
<1>. QED
  BY <1>1, CompleteInvariant, PTL
================================================================================
