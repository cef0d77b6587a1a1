-------------------------- MODULE IntrusiveListProofs --------------------------
(****************************************************************************)
(* Proofs about the intrusive lists, for any number of lists and items.     *)
(*                                                                          *)
(* That Flink and Blink are inverse is kept by every operation on its own,  *)
(* but says nothing of rings without a head: two items that point at each   *)
(* other satisfy it, and removing one of them would leave a sweep that      *)
(* stands on the other with an item outside every list.  Items are ranked   *)
(* to exclude that: along Blink the rank falls until a head is reached.     *)
(* Nor does it say that a ring has one head only: every entry of a ring has *)
(* the same owner, and a head owns itself.                                  *)
(*                                                                          *)
(* What the operations do to what a list contains is proved from sequences: *)
(* in every state there is one for each list such that its ring goes from   *)
(* the head through them and back (Holds), no item has two places in them,  *)
(* and a sweep has seen what came before its place (Placed).  An operation  *)
(* puts an item at a place or takes it from one, and the loop of Contents   *)
(* gives the sequence back, by induction over its turns (Positions).        *)
(****************************************************************************)
EXTENDS IntrusiveList, Positions, FiniteSetTheorems, SequenceTheorems, TLAPS

LinkTypes ==
  /\ flink \in [Entry -> Entry \cup {Null}]
  /\ blink \in [Entry -> Entry \cup {Null}]

Falls(rank) == \A i \in Item \cap Linked : rank[blink[i]] < rank[i]

RingsHaveHeads == \E rank \in [Entry -> Nat] : Falls(rank)

Owned(owner) ==
  /\ \A l \in List : owner[l] = l
  /\ \A e \in Linked : owner[flink[e]] = owner[e]

RingsHaveOneHead == \E owner \in [Entry -> Entry] : Owned(owner)

RingInv == LinkTypes /\ RingsAreClosed /\ RingsHaveHeads /\ RingsHaveOneHead

(* A sweep is on the ring of the list it sweeps. *)
SweepOnRing ==
  over # Null =>
    \E owner \in [Entry -> Entry] : Owned(owner) /\ owner[cursor] = over

ListInv ==
  /\ RingInv
  /\ over \in List \cup {Null}
  /\ SweepStands
  /\ SweepOnRing

--------------------------------------------------------------------------------
(* Every list is a ring of its head alone, and every item is fresh. *)
LEMMA InitList == Init => ListInv
<1>. SUFFICES ASSUME Init PROVE ListInv
  OBVIOUS
<1>. USE ListAssumption
<1>1. Linked = List /\ LinkTypes
  BY DEF Init, Linked, LinkTypes, Entry
<1>2. RingsAreClosed
  BY <1>1 DEF Init, RingsAreClosed, Entry
<1>3. RingsHaveHeads
  <2>. DEFINE rank == [e \in Entry |-> 0]
  <2>1. rank \in [Entry -> Nat] /\ Falls(rank)
    BY <1>1 DEF Falls
  <2>. QED
    BY <2>1 DEF RingsHaveHeads
<1>4. RingsHaveOneHead
  <2>. DEFINE self == [e \in Entry |-> e]
  <2>1. self \in [Entry -> Entry] /\ Owned(self)
    BY <1>1 DEF Init, Owned, Entry
  <2>. QED
    BY <2>1 DEF RingsHaveOneHead
<1>. QED
  BY <1>1, <1>2, <1>3, <1>4 DEF Init, ListInv, RingInv, SweepStands, SweepOnRing

(* An item inserted between prev and next, which were neighbours. *)
Between(prev, i, next) ==
  /\ flink' = [flink EXCEPT ![i] = next, ![prev] = i]
  /\ blink' = [blink EXCEPT ![i] = prev, ![next] = i]

(* A fresh item between two neighbours makes the ring one longer.  What is    *)
(* ranked after prev moves up by one to make room for it.                    *)
LEMMA InsertKeepsRings ==
  ASSUME RingInv, NEW i \in Item, Fresh(i), NEW prev \in Linked,
         Between(prev, i, flink[prev])
  PROVE  RingInv' /\ Linked' = Linked \cup {i}
<1>. DEFINE next == flink[prev]
<1>. USE ListAssumption DEF RingInv
<1>1. /\ i \notin Linked /\ blink[i] = i
      /\ next \in Linked /\ blink[next] = prev
      /\ Linked \subseteq Entry /\ i \in Entry /\ prev # i /\ next # i
  BY DEF Fresh, Linked, RingsAreClosed, Entry
<1>2. LinkTypes'
  BY <1>1 DEF LinkTypes, Between
<1>3. /\ flink'[i] = next /\ flink'[prev] = i
      /\ blink'[i] = prev /\ blink'[next] = i
      /\ \A e \in Entry \ {i, prev} : flink'[e] = flink[e]
      /\ \A e \in Entry \ {i, next} : blink'[e] = blink[e]
  BY <1>1 DEF LinkTypes, Between
<1>4. Linked' = Linked \cup {i}
  BY <1>1, <1>3 DEF Linked, Entry
<1>5. RingsAreClosed'
  <2>1. ASSUME NEW e \in Linked'
        PROVE  /\ flink'[e] \in Linked' /\ blink'[flink'[e]] = e
               /\ blink'[e] \in Linked' /\ flink'[blink'[e]] = e
    BY <1>1, <1>3, <1>4, <2>1 DEF RingsAreClosed
  <2>2. \A j \in Item \ Linked' : flink'[j] = blink'[j]
    BY <1>1, <1>3, <1>4 DEF RingsAreClosed, Entry
  <2>. QED
    BY <2>1, <2>2 DEF RingsAreClosed
<1>6. RingsHaveHeads'
  <2>1. PICK rank \in [Entry -> Nat] : Falls(rank)
    BY DEF RingsHaveHeads
  <2>. DEFINE up == [e \in Entry |-> IF e = i THEN rank[prev] + 1
                                     ELSE IF rank[e] > rank[prev] THEN rank[e] + 1
                                     ELSE rank[e]]
  <2>2. up \in [Entry -> Nat]
    BY <1>1
  <2>3. ASSUME NEW j \in Item \cap Linked'
        PROVE  up[blink'[j]] < up[j]
    <3>1. CASE j = i
      BY <1>1, <1>3, <2>1, <3>1 DEF Falls
    <3>2. CASE j = next /\ j # i
      BY <1>1, <1>3, <1>4, <2>1, <2>3, <3>2 DEF Falls
    <3>3. CASE j # next /\ j # i
      <4>1. j \in Item \cap Linked /\ blink'[j] = blink[j] /\ blink[j] \in Linked
        BY <1>1, <1>3, <1>4, <2>3, <3>3 DEF RingsAreClosed
      <4>2. rank[blink[j]] < rank[j] /\ blink[j] \in Entry /\ j \in Entry /\ blink[j] # i
        BY <1>1, <2>1, <4>1 DEF Falls
      <4>. QED
        BY <1>1, <2>1, <3>3, <4>1, <4>2
    <3>. QED
      BY <3>1, <3>2, <3>3
  <2>. HIDE DEF up
  <2>4. Falls(up)'
    BY <2>3 DEF Falls
  <2>. QED
    BY <2>2, <2>4 DEF RingsHaveHeads
<1>7. RingsHaveOneHead'
  <2>1. PICK owner \in [Entry -> Entry] : Owned(owner)
    BY DEF RingsHaveOneHead
  <2>. DEFINE now == [owner EXCEPT ![i] = owner[prev]]
  <2>2. now \in [Entry -> Entry] /\ i \notin List
    BY <1>1
  <2>3. \A e \in Linked' : now[flink'[e]] = now[e]
    BY <1>1, <1>3, <1>4, <2>1 DEF Owned, RingsAreClosed
  <2>4. Owned(now)'
    BY <2>1, <2>2, <2>3 DEF Owned, Entry
  <2>. QED
    BY <2>2, <2>4 DEF RingsHaveOneHead
<1>. QED
  BY <1>2, <1>4, <1>5, <1>6, <1>7

(* Without one of its items a ring is still a ring with its head. *)
LEMMA RemoveKeepsRings ==
  ASSUME RingInv, NEW i \in Item \cap Linked, RemoveEntry(i)
  PROVE  /\ RingInv' /\ Linked' = Linked \ {i}
         /\ \A owner \in [Entry -> Entry] : Owned(owner) => Owned(owner)'
<1>. USE ListAssumption DEF RingInv
<1>. DEFINE b == blink[i]  f == flink[i]
<1>1. PICK rank \in [Entry -> Nat] : Falls(rank)
  BY DEF RingsHaveHeads
<1>2. /\ b \in Linked /\ f \in Linked /\ flink[b] = i /\ blink[f] = i
      /\ Linked \subseteq Entry /\ i \in Entry /\ b # i /\ f # i
  BY DEF Linked, RingsAreClosed, Entry
<1>3. b \in Item => f # b
  BY <1>1, <1>2 DEF Falls
<1>4. LinkTypes'
  BY <1>2 DEF LinkTypes, RemoveEntry
<1>5. /\ flink'[i] = Null /\ blink'[i] = Null /\ flink'[b] = f /\ blink'[f] = b
      /\ \A e \in Entry \ {i, b} : flink'[e] = flink[e]
      /\ \A e \in Entry \ {i, f} : blink'[e] = blink[e]
  BY <1>2 DEF LinkTypes, RemoveEntry
<1>6. Linked' = Linked \ {i}
  BY <1>2, <1>3, <1>5 DEF Linked, Entry
<1>7. RingsAreClosed'
  <2>1. ASSUME NEW e \in Linked'
        PROVE  /\ flink'[e] \in Linked' /\ blink'[flink'[e]] = e
               /\ blink'[e] \in Linked' /\ flink'[blink'[e]] = e
    BY <1>2, <1>5, <1>6, <2>1 DEF RingsAreClosed
  <2>2. \A j \in Item \ Linked' : flink'[j] = blink'[j]
    BY <1>2, <1>5, <1>6 DEF RingsAreClosed, Entry
  <2>. QED
    BY <2>1, <2>2 DEF RingsAreClosed
<1>8. Falls(rank)'
  <2>1. ASSUME NEW j \in Item \cap Linked'
        PROVE  rank[blink'[j]] < rank[j]
    <3>1. j \in Item \cap Linked /\ rank[blink[j]] < rank[j] /\ blink[j] \in Linked
      BY <1>1, <1>6, <2>1 DEF Falls, RingsAreClosed
    <3>2. rank[b] < rank[i] /\ rank[b] \in Nat /\ rank[i] \in Nat /\ rank[j] \in Nat
      BY <1>1, <1>2, <3>1 DEF Falls
    <3>. QED
      BY <1>2, <1>5, <1>6, <2>1, <3>1, <3>2
  <2>. QED
    BY <2>1 DEF Falls
<1>9. \A owner \in [Entry -> Entry] : Owned(owner) => Owned(owner)'
  BY <1>2, <1>5, <1>6 DEF Owned
<1>. QED
  BY <1>1, <1>4, <1>6, <1>7, <1>8, <1>9 DEF RingsHaveHeads, RingsHaveOneHead

(* A constructor touches one item that is in no ring. *)
LEMMA ConstructKeepsRings ==
  ASSUME RingInv, NEW i \in Item, Construct(i)
  PROVE  RingInv' /\ Linked' = Linked
<1>. USE ListAssumption DEF RingInv
<1>1. /\ i \notin Linked /\ Linked \subseteq Entry /\ i \in Entry
      /\ flink'[i] = i /\ blink'[i] = i
      /\ \A e \in Entry \ {i} : flink'[e] = flink[e] /\ blink'[e] = blink[e]
  BY DEF Construct, Linked, LinkTypes, Entry
<1>2. LinkTypes'
  BY <1>1 DEF Construct, LinkTypes
<1>3. Linked' = Linked
  BY <1>1 DEF Linked, Entry
<1>4. RingsAreClosed'
  BY <1>1, <1>3 DEF RingsAreClosed, Entry
<1>5. RingsHaveHeads'
  <2>1. PICK rank \in [Entry -> Nat] : Falls(rank)
    BY DEF RingsHaveHeads
  <2>2. Falls(rank)'
    BY <1>1, <1>3, <2>1 DEF Falls
  <2>. QED
    BY <2>1, <2>2 DEF RingsHaveHeads
<1>6. RingsHaveOneHead'
  <2>1. PICK owner \in [Entry -> Entry] : Owned(owner)
    BY DEF RingsHaveOneHead
  <2>2. Owned(owner)'
    BY <1>1, <1>3, <2>1 DEF Owned
  <2>. QED
    BY <2>1, <2>2 DEF RingsHaveOneHead
<1>. QED
  BY <1>2, <1>3, <1>4, <1>5, <1>6

--------------------------------------------------------------------------------
(* The rings are a matter of the links alone. *)
LEMMA LinksUnchanged ==
  ASSUME RingInv, UNCHANGED links
  PROVE  /\ RingInv' /\ Linked' = Linked
         /\ \A owner \in [Entry -> Entry] : Owned(owner) => Owned(owner)'
<1>1. flink' = flink /\ blink' = blink
  BY DEF links
<1>2. Linked' = Linked
  BY <1>1 DEF Linked
<1>3. LinkTypes' /\ RingsAreClosed'
  BY <1>1, <1>2 DEF RingInv, LinkTypes, RingsAreClosed
<1>4. RingsHaveHeads'
  <2>1. PICK rank \in [Entry -> Nat] : Falls(rank)
    BY DEF RingInv, RingsHaveHeads
  <2>2. Falls(rank)'
    BY <1>1, <1>2, <2>1 DEF Falls
  <2>. QED
    BY <2>1, <2>2 DEF RingsHaveHeads
<1>5. \A owner \in [Entry -> Entry] : Owned(owner) => Owned(owner)'
  BY <1>1, <1>2 DEF Owned
<1>6. RingsHaveOneHead'
  BY <1>5 DEF RingInv, RingsHaveOneHead
<1>. QED
  BY <1>2, <1>3, <1>4, <1>5, <1>6 DEF RingInv

(* Two neighbours on the ring, and the item that goes between them. *)
LEMMA InsertsBetween ==
  ASSUME RingInv, NEW i \in Item, Fresh(i), NEW e \in Linked
  PROVE  /\ InsertBefore(e, i) => Between(blink[e], i, flink[blink[e]])
         /\ InsertAfter(e, i) => Between(e, i, flink[e])
         /\ blink[e] \in Linked
<1>1. /\ flink[blink[e]] = e /\ blink[e] \in Linked
      /\ blink[flink[e]] = e /\ flink[e] \in Linked /\ i \notin Linked
  BY ListAssumption DEF RingInv, RingsAreClosed, Fresh, Linked
<1>. QED
  BY <1>1 DEF InsertBefore, InsertAfter, Between

(* An idle list's invariant is that of its rings. *)
LEMMA IdleInv == ListInv /\ Idle /\ RingInv' => ListInv'
BY DEF Idle, ListInv, SweepStands, SweepOnRing, sweep

(* The operations on an item of lists that nobody sweeps. *)
LEMMA ItemKeepsInv ==
  ASSUME ListInv, NEW i \in Item, ItemStep(i)
  PROVE  ListInv'
<1>. USE ListAssumption
<1>1. \A e \in Linked :
        Idle /\ Fresh(i) /\ (InsertBefore(e, i) \/ InsertAfter(e, i)) => RingInv'
  BY InsertsBetween, InsertKeepsRings DEF ListInv
<1>2. i \in Linked /\ RemoveEntry(i) => RingInv'
  BY RemoveKeepsRings DEF ListInv
<1>. QED
  BY <1>1, <1>2, IdleInv, ConstructKeepsRings
     DEF ItemStep, Construct, push_front, push_back, insert, remove, Linked, ListInv

(* A pop takes an item of the ring: the list is not empty, so its head's     *)
(* neighbours are not the head, and no other head is on its ring.            *)
LEMMA PopKeepsInv ==
  ASSUME ListInv, NEW l \in List, pop_front(l) \/ pop_back(l)
  PROVE  ListInv'
<1>. USE ListAssumption
<1>1. \A j \in Item \cap Linked : RemoveEntry(j) => RingInv'
  BY RemoveKeepsRings DEF ListInv
<1>2. ~empty(l) => flink[l] \in Item \cap Linked /\ blink[l] \in Item \cap Linked
  <2>1. PICK owner \in [Entry -> Entry] : Owned(owner)
    BY DEF ListInv, RingInv, RingsHaveOneHead
  <2>2. l \in Linked /\ flink[l] \in Linked /\ blink[l] \in Linked /\ flink[blink[l]] = l
    BY DEF ListInv, RingInv, RingsAreClosed, Linked
  <2>3. owner[flink[l]] = l /\ owner[blink[l]] = l
    BY <2>1, <2>2 DEF Owned
  <2>. QED
    BY <2>1, <2>2, <2>3 DEF empty, Owned, Linked
<1>. QED
  BY <1>1, <1>2, IdleInv DEF pop_front, pop_back

(* The steps of a sweep: the iterator stays on the ring, also when the entry *)
(* it stood on has gone.                                                     *)
LEMMA SweepKeepsInv ==
  ASSUME ListInv,
         \/ \E l \in List : SweepBegins(l)
         \/ SweepKeeps
         \/ SweepRemoves
         \/ SweepEnds
  PROVE  ListInv'
<1>. USE ListAssumption
<1>1. Linked \subseteq Entry /\ List \subseteq Linked
  BY DEF Linked, Entry
<1>2. ASSUME NEW l \in List, SweepBegins(l)
      PROVE  ListInv'
  <2>1. RingInv' /\ UNCHANGED links /\ over' = l /\ cursor' = flink[l] /\ Linked' = Linked
    BY <1>2, LinksUnchanged DEF SweepBegins, ListInv
  <2>2. flink[l] \in Linked
    BY <1>1 DEF ListInv, RingInv, RingsAreClosed
  <2>3. PICK owner \in [Entry -> Entry] : Owned(owner)
    BY DEF ListInv, RingInv, RingsHaveOneHead
  <2>4. Owned(owner)' /\ owner[flink[l]] = l
    BY <1>1, <2>1, <2>3 DEF Owned, links
  <2>. QED
    BY <2>1, <2>2, <2>3, <2>4 DEF ListInv, SweepStands, SweepOnRing
<1>3. ASSUME SweepKeeps
      PROVE  ListInv'
  <2>1. /\ RingInv' /\ UNCHANGED <<links, over>> /\ cursor' = flink[cursor]
        /\ Linked' = Linked /\ over # Null
    BY <1>3, LinksUnchanged DEF SweepKeeps, ListInv
  <2>2. cursor \in Linked /\ flink[cursor] \in Linked
    BY <2>1 DEF ListInv, SweepStands, RingInv, RingsAreClosed
  <2>3. PICK owner \in [Entry -> Entry] : Owned(owner) /\ owner[cursor] = over
    BY <2>1 DEF ListInv, SweepOnRing
  <2>4. Owned(owner)' /\ owner[flink[cursor]] = over
    BY <2>1, <2>2, <2>3 DEF Owned, links
  <2>. QED
    BY <2>1, <2>2, <2>3, <2>4 DEF ListInv, SweepStands, SweepOnRing
<1>4. ASSUME SweepRemoves
      PROVE  ListInv'
  <2>1. /\ over # Null /\ over' = over /\ cursor # over /\ cursor' = flink[cursor]
        /\ RemoveEntry(cursor) /\ over \in List /\ cursor \in Linked
    BY <1>4 DEF SweepRemoves, ListInv, SweepStands
  <2>2. PICK owner \in [Entry -> Entry] : Owned(owner) /\ owner[cursor] = over
    BY <2>1 DEF ListInv, SweepOnRing
  <2>3. cursor \in Item \cap Linked
    BY <2>1, <2>2 DEF Owned, Linked
  <2>4. RingInv' /\ Linked' = Linked \ {cursor} /\ Owned(owner)'
    BY <2>1, <2>2, <2>3, RemoveKeepsRings DEF ListInv
  <2>5. flink[cursor] \in Linked /\ flink[cursor] # cursor /\ owner[flink[cursor]] = over
    BY <2>2, <2>3 DEF Owned, ListInv, RingInv, RingsAreClosed, Linked
  <2>. QED
    BY <2>1, <2>2, <2>4, <2>5 DEF ListInv, SweepStands, SweepOnRing
<1>5. ASSUME SweepEnds
      PROVE  ListInv'
  BY <1>5, LinksUnchanged DEF SweepEnds, ListInv, SweepStands, SweepOnRing
<1>. QED
  BY <1>2, <1>3, <1>4, <1>5

(* What is known of the lists in every state. *)
THEOREM ListInvariant == Spec => []ListInv
<1>1. ListInv /\ [Next]_vars => ListInv'
  <2>. SUFFICES ASSUME ListInv, [Next]_vars PROVE ListInv'
    OBVIOUS
  <2>1. CASE UNCHANGED vars
    <3>1. UNCHANGED links /\ UNCHANGED <<over, cursor>>
      BY <2>1 DEF vars, sweep
    <3>2. RingInv' /\ Linked' = Linked
      BY <3>1, LinksUnchanged DEF ListInv
    <3>3. SweepOnRing'
      BY <3>1, LinksUnchanged DEF ListInv, SweepOnRing
    <3>. QED
      BY <3>1, <3>2, <3>3 DEF ListInv, SweepStands
  <2>2. ASSUME NEW i \in Item, ItemStep(i)
        PROVE  ListInv'
    BY <2>2, ItemKeepsInv
  <2>3. ASSUME NEW l \in List, ListStep(l)
        PROVE  ListInv'
    BY <2>3, PopKeepsInv, SweepKeepsInv DEF ListStep
  <2>. QED
    BY <2>1, <2>2, <2>3, SweepKeepsInv DEF Next
<1>. QED
  BY <1>1, InitList, PTL DEF Spec

(* Flink and Blink stay inverse all around every ring, and no ring leads to  *)
(* an item outside: what list.h's links promise, for any lists and items.    *)
THEOREM RingsStayClosed == Spec => []RingsAreClosed
<1>1. ListInv => RingsAreClosed
  BY DEF ListInv, RingInv
<1>. QED
  BY <1>1, ListInvariant, PTL

(* The iterator of FlushProviders' loop never stands on an item that was     *)
(* removed, however many the loop removes (ndfrmwrk.cpp:888-906).            *)
THEOREM SweepIsSafe == Spec => []SweepStands
<1>1. ListInv => SweepStands
  BY DEF ListInv
<1>. QED
  BY <1>1, ListInvariant, PTL

(* The links of every entry lead to an entry or to nothing, those of a head   *)
(* always to an entry, and a sweep stands on one (list.h:172-230).            *)
THEOREM ListTyped == Spec => []TypeOK
<1>1. ListInv => TypeOK
  <2>. SUFFICES ASSUME ListInv PROVE TypeOK
    OBVIOUS
  <2>1. Linked \subseteq Entry /\ List \subseteq Linked
    BY DEF Linked, Entry
  <2>2. \A l \in List : flink[l] \in Entry /\ blink[l] \in Entry
    BY <2>1 DEF ListInv, RingInv, RingsAreClosed
  <2>. QED
    BY <2>1, <2>2 DEF ListInv, RingInv, LinkTypes, SweepStands, TypeOK
<1>. QED
  BY <1>1, ListInvariant, PTL

--------------------------------------------------------------------------------
(* The k-th entry of the ring of list l that holds s: its head is before the *)
(* first item and after the last.                                           *)
At(l, s, k) == IF k \in 1..Len(s) THEN s[k] ELSE l

RingIn(F, B, l, s) ==
  \A k \in 0..Len(s) : F[At(l, s, k)] = At(l, s, k + 1) /\ B[At(l, s, k + 1)] = At(l, s, k)

(* An item of the lists C has one place in one of them. *)
OnePlaceIn(C) ==
  \A l \in List, m \in List :
    \A j \in 1..Len(C[l]), k \in 1..Len(C[m]) : C[l][j] = C[m][k] => l = m /\ j = k

OccursIn(C, i) == \E l \in List : \E k \in 1..Len(C[l]) : C[l][k] = i

(* The links F and B are those of lists that hold the sequences C. *)
Holds(F, B, C) ==
  /\ \A l \in List : RingIn(F, B, l, C[l])
  /\ OnePlaceIn(C)
  /\ \A i \in Item : F[i] \notin {i, Null} => OccursIn(C, i)

Held == [List -> Seq(Item)]

Inserted(s, k, i) ==
  [j \in 1..(Len(s) + 1) |-> IF j <= k THEN s[j] ELSE IF j = k + 1 THEN i ELSE s[j - 1]]

Removed(s, k) == [j \in 1..(Len(s) - 1) |-> IF j < k THEN s[j] ELSE s[j + 1]]

(* A sequence of items as a function. *)
LEMMA LenIsNat ==
  ASSUME NEW s \in Seq(Item)
  PROVE  Len(s) \in Nat /\ s \in [1..Len(s) -> Item]
OBVIOUS

(* What is at a place is an item of the list or its head. *)
LEMMA AtIsEntry ==
  ASSUME NEW C \in Held, NEW l \in List, NEW k \in Int
  PROVE  /\ At(l, C[l], k) \in Entry
         /\ k \in 1..Len(C[l]) => At(l, C[l], k) = C[l][k] /\ At(l, C[l], k) \in Item
         /\ k \notin 1..Len(C[l]) => At(l, C[l], k) = l
<1>1. C[l] \in Seq(Item)
  BY DEF Held
<1>2. C[l] \in [1..Len(C[l]) -> Item]
  BY <1>1
<1>. QED
  BY <1>2 DEF At, Entry

(* Two places of the rings are the same entry only where a ring closes. *)
LEMMA PlacesDiffer ==
  ASSUME NEW C \in Held, OnePlaceIn(C), NEW l \in List, NEW m \in List,
         NEW j \in 0..(Len(C[l]) + 1), NEW k \in 0..(Len(C[m]) + 1),
         At(l, C[l], j) = At(m, C[m], k)
  PROVE  /\ l = m
         /\ j \in 1..Len(C[l]) \/ k \in 1..Len(C[m]) => j = k
<1>1. Len(C[l]) \in Nat /\ Len(C[m]) \in Nat
  BY LenIsNat DEF Held
<1>2. CASE j \in 1..Len(C[l]) /\ k \in 1..Len(C[m])
  BY <1>2 DEF At, OnePlaceIn
<1>3. CASE ~(j \in 1..Len(C[l])) \/ ~(k \in 1..Len(C[m]))
  BY <1>1, <1>3, AtIsEntry, ListAssumption
<1>. QED
  BY <1>2, <1>3

(* Places before the item put in stay, those behind it move up by one. *)
LEMMA AtInserted ==
  ASSUME NEW l \in List, NEW s \in Seq(Item), NEW k \in 0..Len(s), NEW i \in Item
  PROVE  /\ Inserted(s, k, i) \in Seq(Item)
         /\ Len(Inserted(s, k, i)) = Len(s) + 1
         /\ \A j \in 0..k : At(l, Inserted(s, k, i), j) = At(l, s, j)
         /\ At(l, Inserted(s, k, i), k + 1) = i
         /\ \A j \in (k + 1)..(Len(s) + 1) : At(l, Inserted(s, k, i), j + 1) = At(l, s, j)
<1>. DEFINE t == Inserted(s, k, i)
<1>1. Len(s) \in Nat /\ s \in [1..Len(s) -> Item]
  OBVIOUS
<1>2. t \in [1..(Len(s) + 1) -> Item]
  BY <1>1 DEF Inserted
<1>3. t \in Seq(Item) /\ Len(t) = Len(s) + 1
  BY <1>1, <1>2
<1>4. ASSUME NEW j \in 1..(Len(s) + 1)
      PROVE  t[j] = IF j <= k THEN s[j] ELSE IF j = k + 1 THEN i ELSE s[j - 1]
  BY DEF Inserted
<1>. HIDE DEF t
<1>5. \A j \in 0..k : At(l, t, j) = At(l, s, j)
  BY <1>1, <1>3, <1>4 DEF At
<1>6. At(l, t, k + 1) = i
  BY <1>1, <1>3, <1>4 DEF At
<1>7. ASSUME NEW j \in (k + 1)..(Len(s) + 1) PROVE At(l, t, j + 1) = At(l, s, j)
  <2>1. CASE j = Len(s) + 1
    BY <1>1, <1>3, <2>1 DEF At
  <2>2. CASE j \in 1..Len(s)
    <3>1. j + 1 \in 1..(Len(s) + 1) /\ ~(j + 1 <= k) /\ j + 1 # k + 1 /\ (j + 1) - 1 = j
      BY <1>1, <2>2
    <3>. QED
      BY <1>3, <1>4, <2>2, <3>1 DEF At
  <2>. QED
    BY <1>1, <2>1, <2>2
<1>. QED
  BY <1>3, <1>5, <1>6, <1>7 DEF t

(* Places before the item taken out stay, those behind it move down by one. *)
LEMMA AtRemoved ==
  ASSUME NEW l \in List, NEW s \in Seq(Item), NEW k \in 1..Len(s)
  PROVE  /\ Removed(s, k) \in Seq(Item)
         /\ Len(Removed(s, k)) = Len(s) - 1
         /\ \A j \in 0..(k - 1) : At(l, Removed(s, k), j) = At(l, s, j)
         /\ \A j \in k..Len(s) : At(l, Removed(s, k), j) = At(l, s, j + 1)
<1>. DEFINE t == Removed(s, k)
<1>1. Len(s) \in Nat /\ Len(s) - 1 \in Nat /\ s \in [1..Len(s) -> Item]
  OBVIOUS
<1>2. t \in [1..(Len(s) - 1) -> Item]
  BY <1>1 DEF Removed
<1>3. t \in Seq(Item) /\ Len(t) = Len(s) - 1
  <2>. DEFINE n == Len(s) - 1
  <2>1. n \in Nat /\ t \in [1..n -> Item]
    BY <1>1, <1>2
  <2>. HIDE DEF n, t
  <2>2. t \in Seq(Item) /\ Len(t) = n
    BY <2>1
  <2>. QED
    BY <2>2 DEF n
<1>4. ASSUME NEW j \in 1..(Len(s) - 1)
      PROVE  t[j] = IF j < k THEN s[j] ELSE s[j + 1]
  BY DEF Removed
<1>. HIDE DEF t
<1>5. \A j \in 0..(k - 1) : At(l, t, j) = At(l, s, j)
  BY <1>1, <1>3, <1>4 DEF At
<1>6. \A j \in k..Len(s) : At(l, t, j) = At(l, s, j + 1)
  BY <1>1, <1>3, <1>4 DEF At
<1>. QED
  BY <1>3, <1>5, <1>6 DEF t

(* An item of a list is linked, and to entries of the same ring. *)
LEMMA PlaceIsLinked ==
  ASSUME NEW F, NEW B, NEW C \in Held, Holds(F, B, C),
         NEW l \in List, NEW k \in 1..Len(C[l])
  PROVE  F[C[l][k]] # C[l][k] /\ F[C[l][k]] # Null
<1>1. Len(C[l]) \in Nat
  BY LenIsNat DEF Held
<1>2. /\ k \in 0..Len(C[l]) /\ k \in 0..(Len(C[l]) + 1) /\ k + 1 \in 0..(Len(C[l]) + 1)
      /\ k \in Int /\ k + 1 # k
  BY <1>1
<1>3. At(l, C[l], k) = C[l][k] /\ At(l, C[l], k + 1) \in Entry
  BY <1>2, AtIsEntry
<1>4. F[C[l][k]] = At(l, C[l], k + 1)
  BY <1>2, <1>3 DEF Holds, RingIn
<1>5. At(l, C[l], k + 1) # At(l, C[l], k)
  BY <1>2, PlacesDiffer DEF Holds
<1>. QED
  BY <1>3, <1>4, <1>5, ListAssumption DEF Entry

(* A fresh item between two neighbours of a ring. *)
LEMMA InsertHolds ==
  ASSUME LinkTypes, NEW C \in Held, Holds(flink, blink, C),
         NEW l \in List, NEW k \in 0..Len(C[l]), NEW i \in Item, Fresh(i),
         \/ InsertBefore(At(l, C[l], k + 1), i)
         \/ InsertAfter(At(l, C[l], k), i)
  PROVE  /\ [C EXCEPT ![l] = Inserted(C[l], k, i)] \in Held
         /\ Holds(flink', blink', [C EXCEPT ![l] = Inserted(C[l], k, i)])
<1>. DEFINE e(m, j) == At(m, C[m], j)
            n == Len(C[l])
            D == [C EXCEPT ![l] = Inserted(C[l], k, i)]
<1>1. C[l] \in Seq(Item) /\ n \in Nat /\ \A m \in List : Len(C[m]) \in Nat
  BY LenIsNat DEF Held
<1>0. /\ flink' = [flink EXCEPT ![i] = At(l, C[l], k + 1), ![At(l, C[l], k)] = i]
      /\ blink' = [blink EXCEPT ![i] = At(l, C[l], k), ![At(l, C[l], k + 1)] = i]
  <2>1. /\ flink[At(l, C[l], k)] = At(l, C[l], k + 1)
        /\ blink[At(l, C[l], k + 1)] = At(l, C[l], k)
    BY DEF Holds, RingIn
  <2>. QED
    BY <2>1 DEF InsertBefore, InsertAfter
<1>c. ~OccursIn(C, i)
  BY PlaceIsLinked DEF OccursIn, Fresh
<1>. HIDE DEF D
<1>2. D \in Held /\ D[l] = Inserted(C[l], k, i) /\ \A m \in List \ {l} : D[m] = C[m]
  BY <1>1, AtInserted DEF Held, D
<1>3. \A m \in List, j \in Int : e(m, j) # i /\ e(m, j) \in Entry
  BY <1>c, AtIsEntry, ListAssumption DEF OccursIn
<1>k. k \in 0..n /\ k \in Int /\ k + 1 \in Int /\ i \in Entry
  BY <1>1 DEF Entry
<1>4. /\ flink'[i] = e(l, k + 1) /\ flink'[e(l, k)] = i
      /\ blink'[i] = e(l, k) /\ blink'[e(l, k + 1)] = i
      /\ \A x \in Entry : x # i /\ x # e(l, k) => flink'[x] = flink[x]
      /\ \A x \in Entry : x # i /\ x # e(l, k + 1) => blink'[x] = blink[x]
  <2>1. /\ e(l, k) \in Entry /\ e(l, k + 1) \in Entry
        /\ e(l, k) # i /\ e(l, k + 1) # i
    BY <1>3, <1>k
  <2>. HIDE DEF e
  <2>2. /\ flink' = [flink EXCEPT ![i] = e(l, k + 1), ![e(l, k)] = i]
        /\ blink' = [blink EXCEPT ![i] = e(l, k), ![e(l, k + 1)] = i]
    BY <1>0 DEF e
  <2>. QED
    BY <1>k, <2>1, <2>2 DEF LinkTypes
<1>5. \A m \in List : \A j \in 0..Len(C[m]) :
        flink[e(m, j)] = e(m, j + 1) /\ blink[e(m, j + 1)] = e(m, j)
  BY DEF Holds, RingIn
<1>6. /\ Len(D[l]) = n + 1
      /\ \A j \in 0..k : At(l, D[l], j) = e(l, j)
      /\ At(l, D[l], k + 1) = i
      /\ \A j \in (k + 1)..(n + 1) : At(l, D[l], j + 1) = e(l, j)
  <2>. HIDE DEF At
  <2>. QED
    BY <1>1, <1>2, AtInserted
<1>7. ASSUME NEW m \in List \ {l}, NEW j \in 0..(Len(C[m]) + 1), NEW q \in 0..(n + 1)
      PROVE  e(m, j) # e(l, q)
  BY PlacesDiffer DEF Holds
<1>8. ASSUME NEW j \in 0..(n + 1), NEW q \in 0..(n + 1), j # q, j \in 1..n \/ q \in 1..n
      PROVE  e(l, j) # e(l, q)
  BY <1>8, PlacesDiffer DEF Holds
<1>f. \A j \in 0..n : flink[e(l, j)] = e(l, j + 1) /\ blink[e(l, j + 1)] = e(l, j)
  BY <1>5
<1>o. OnePlaceIn(C)
  BY DEF Holds
<1>. HIDE DEF e, n
<1>9. ASSUME NEW m \in List PROVE RingIn(flink', blink', m, D[m])
  <2>1. CASE m # l
    <3>1. ASSUME NEW j \in 0..Len(C[m])
          PROVE  flink'[e(m, j)] = e(m, j + 1) /\ blink'[e(m, j + 1)] = e(m, j)
      <4>1. j \in 0..(Len(C[m]) + 1) /\ j + 1 \in 0..(Len(C[m]) + 1) /\ j \in Int /\ j + 1 \in Int
        BY <1>1
      <4>2. k \in 0..(n + 1) /\ k + 1 \in 0..(n + 1)
        BY <1>1, <1>k
      <4>3. e(m, j) # e(l, k) /\ e(m, j + 1) # e(l, k + 1)
        BY <1>7, <2>1, <4>1, <4>2
      <4>. QED
        BY <1>3, <1>4, <1>5, <4>1, <4>3
    <3>. QED
      BY <1>2, <2>1, <3>1 DEF RingIn, e
  <2>2. CASE m = l
    <3>. DEFINE a(j) == At(l, D[l], j)
    <3>0. /\ \A j \in 0..k : a(j) = e(l, j)
          /\ a(k + 1) = i
          /\ \A j \in (k + 1)..(n + 1) : a(j + 1) = e(l, j)
      BY <1>6
    <3>. HIDE DEF a
    <3>1. ASSUME NEW j \in 0..(n + 1) PROVE flink'[a(j)] = a(j + 1) /\ blink'[a(j + 1)] = a(j)
      <4>1. CASE j = k
        BY <1>k, <1>4, <3>0, <4>1
      <4>2. CASE j = k + 1
        BY <1>k, <1>4, <3>0, <4>2
      <4>3. CASE j < k
        <5>1. /\ a(j) = e(l, j) /\ a(j + 1) = e(l, j + 1)
              /\ j \in 0..n /\ j + 1 \in 1..n /\ j \in 0..(n + 1) /\ j + 1 \in 0..(n + 1)
              /\ k \in 1..n /\ k \in 0..(n + 1) /\ k + 1 \in 0..(n + 1)
              /\ j \in Int /\ j + 1 \in Int
          BY <1>1, <1>k, <3>0, <4>3
        <5>2. e(l, j) # e(l, k) /\ e(l, j + 1) # e(l, k + 1)
          BY <1>8, <4>3, <5>1
        <5>. QED
          BY <1>3, <1>4, <1>f, <5>1, <5>2
      <4>4. CASE j > k + 1
        <5>. DEFINE p == j - 1
        <5>1. /\ a(j) = e(l, p) /\ a(j + 1) = e(l, p + 1)
              /\ p \in 1..n /\ p \in 0..n /\ p \in 0..(n + 1) /\ p + 1 \in 0..(n + 1)
              /\ k \in 0..(n + 1) /\ k + 1 \in 0..(n + 1) /\ k + 1 \in 1..n
              /\ p # k /\ p + 1 # k + 1 /\ p \in Int /\ p + 1 \in Int
          <6>1. a(p + 1) = e(l, p)
            BY <1>1, <1>k, <3>0, <4>4
          <6>2. a(j + 1) = e(l, j)
            BY <1>1, <1>k, <3>0, <4>4
          <6>. QED
            BY <1>1, <1>k, <6>1, <6>2, <4>4
        <5>. HIDE DEF p
        <5>2. e(l, p) # e(l, k) /\ e(l, p + 1) # e(l, k + 1)
          BY <1>8, <5>1
        <5>. QED
          BY <1>3, <1>4, <1>f, <5>1, <5>2
      <4>. QED
        BY <1>1, <1>k, <4>1, <4>2, <4>3, <4>4
    <3>. QED
      BY <1>6, <2>2, <3>1 DEF RingIn, a
  <2>. QED
    BY <2>1, <2>2
<1>10. \A j \in 1..(n + 1) :
         D[l][j] = IF j <= k THEN C[l][j] ELSE IF j = k + 1 THEN i ELSE C[l][j - 1]
  BY <1>2 DEF Inserted, n
<1>11. OnePlaceIn(D)
  <2>. DEFINE came(y) == IF y <= k THEN y ELSE y - 1
  <2>. SUFFICES ASSUME NEW m \in List, NEW p \in List,
                       NEW j \in 1..Len(D[m]), NEW q \in 1..Len(D[p]), D[m][j] = D[p][q]
                PROVE  m = p /\ j = q
    BY DEF OnePlaceIn
  <2>1. ASSUME NEW x \in List, NEW y \in 1..Len(D[x]), ~(x = l /\ y = k + 1)
        PROVE  \E z \in 1..Len(C[x]) :
                 /\ z = IF x = l /\ y > k THEN y - 1 ELSE y
                 /\ D[x][y] = C[x][z]
                 /\ D[x][y] # i
    <3>1. CASE x = l
      <4>1. y \in 1..(n + 1) /\ y # k + 1
        BY <1>6, <2>1, <3>1
      <4>2. D[l][y] = IF y <= k THEN C[l][y] ELSE C[l][y - 1]
        BY <1>10, <4>1
      <4>3. y <= k => y \in 1..n
        BY <1>1, <1>k, <4>1
      <4>4. y > k => y - 1 \in 1..n
        BY <1>1, <1>k, <4>1
      <4>5. y \in Int
        BY <4>1
      <4>6. \A z \in 1..n : C[l][z] # i
        BY <1>c DEF OccursIn, n
      <4>7. CASE y <= k
        BY <1>k, <3>1, <4>2, <4>3, <4>5, <4>6, <4>7 DEF n
      <4>8. CASE y > k
        BY <1>k, <3>1, <4>2, <4>4, <4>5, <4>6, <4>8 DEF n
      <4>. QED
        BY <1>k, <4>5, <4>7, <4>8
    <3>2. CASE x # l
      BY <1>2, <1>c, <2>1, <3>2 DEF OccursIn
    <3>. QED
      BY <3>1, <3>2
  <2>2. D[l][k + 1] = i
    BY <1>1, <1>k, <1>10
  <2>3. CASE m = l /\ j = k + 1
    BY <2>1, <2>2, <2>3
  <2>4. CASE p = l /\ q = k + 1
    BY <2>1, <2>2, <2>4
  <2>5. CASE ~(m = l /\ j = k + 1) /\ ~(p = l /\ q = k + 1)
    <3>1. PICK z \in 1..Len(C[m]) : z = (IF m = l /\ j > k THEN j - 1 ELSE j) /\ D[m][j] = C[m][z]
      BY <2>1, <2>5
    <3>2. PICK w \in 1..Len(C[p]) : w = (IF p = l /\ q > k THEN q - 1 ELSE q) /\ D[p][q] = C[p][w]
      BY <2>1, <2>5
    <3>3. m = p /\ z = w
      <4>1. C[m][z] = C[p][w]
        BY <3>1, <3>2
      <4>. QED
        BY <1>o, <4>1 DEF OnePlaceIn
    <3>4. j \in Int /\ q \in Int
      OBVIOUS
    <3>. QED
      BY <1>k, <2>5, <3>1, <3>2, <3>3, <3>4
  <2>. QED
    BY <2>3, <2>4, <2>5
<1>12. ASSUME NEW x \in Item, flink'[x] \notin {x, Null}
       PROVE  OccursIn(D, x)
  <2>1. CASE x = i
    <3>1. D[l][k + 1] = i /\ k + 1 \in 1..Len(D[l])
      BY <1>1, <1>k, <1>6, <1>10
    <3>. QED
      BY <2>1, <3>1 DEF OccursIn
  <2>2. CASE x # i
    <3>1. OccursIn(C, x)
      <4>1. CASE x = e(l, k)
        BY <4>1, ListAssumption DEF e, At, OccursIn
      <4>2. CASE x # e(l, k)
        BY <1>4, <1>12, <2>2, <4>2 DEF Holds, Entry
      <4>. QED
        BY <4>1, <4>2
    <3>2. PICK m \in List, j \in Nat : j \in 1..Len(C[m]) /\ C[m][j] = x
      BY <3>1 DEF OccursIn
    <3>4. CASE m # l
      BY <1>2, <3>2, <3>4 DEF OccursIn
    <3>5. CASE m = l
      <4>1. \E y \in 1..Len(D[l]) : D[l][y] = x
        <5>1. j \in 1..n /\ j \in 1..(n + 1) /\ j + 1 \in 1..(n + 1) /\ (j + 1) - 1 = j
          BY <1>1, <3>2, <3>5 DEF n
        <5>2. CASE j <= k
          BY <1>6, <1>10, <3>2, <3>5, <5>1, <5>2
        <5>3. CASE j > k
          <6>1. D[l][j + 1] = C[l][j]
            BY <1>k, <1>10, <5>1, <5>3
          <6>. QED
            BY <1>6, <3>2, <3>5, <5>1, <6>1
        <5>. QED
          BY <1>k, <5>1, <5>2, <5>3
      <4>. QED
        BY <4>1 DEF OccursIn
    <3>. QED
      BY <3>4, <3>5
  <2>. QED
    BY <2>1, <2>2
<1>. QED
  BY <1>2, <1>9, <1>11, <1>12 DEF Holds, D

(* A ring without one of its items. *)
LEMMA RemoveHolds ==
  ASSUME LinkTypes, NEW C \in Held, Holds(flink, blink, C),
         NEW l \in List, NEW k \in 1..Len(C[l]), RemoveEntry(C[l][k])
  PROVE  /\ [C EXCEPT ![l] = Removed(C[l], k)] \in Held
         /\ Holds(flink', blink', [C EXCEPT ![l] = Removed(C[l], k)])
<1>. DEFINE e(m, j) == At(m, C[m], j)
            n == Len(C[l])
            x == C[l][k]
            D == [C EXCEPT ![l] = Removed(C[l], k)]
<1>1. C[l] \in Seq(Item) /\ n \in Nat /\ \A m \in List : Len(C[m]) \in Nat
  BY LenIsNat DEF Held
<1>0. /\ flink' = [flink EXCEPT ![blink[x]] = flink[x], ![x] = Null]
      /\ blink' = [blink EXCEPT ![flink[x]] = blink[x], ![x] = Null]
  BY DEF RemoveEntry
<1>. HIDE DEF D
<1>2. D \in Held /\ D[l] = Removed(C[l], k) /\ \A m \in List \ {l} : D[m] = C[m]
  BY <1>1, AtRemoved DEF Held, D
<1>3. \A m \in List, j \in Int : e(m, j) \in Entry
  BY AtIsEntry
<1>k. k \in 1..n /\ k \in 0..n /\ k - 1 \in 0..n /\ k \in Int /\ k - 1 \in Int /\ k + 1 \in Int
  BY <1>1
<1>x. x = e(l, k) /\ x \in Item
  BY <1>1, AtIsEntry DEF At
<1>5. \A m \in List : \A j \in 0..Len(C[m]) :
        flink[e(m, j)] = e(m, j + 1) /\ blink[e(m, j + 1)] = e(m, j)
  BY DEF Holds, RingIn
<1>f. \A j \in 0..n : flink[e(l, j)] = e(l, j + 1) /\ blink[e(l, j + 1)] = e(l, j)
  BY <1>5
<1>6. /\ Len(D[l]) = n - 1
      /\ \A j \in 0..(k - 1) : At(l, D[l], j) = e(l, j)
      /\ \A j \in k..n : At(l, D[l], j) = e(l, j + 1)
  <2>. HIDE DEF At
  <2>. QED
    BY <1>1, <1>2, AtRemoved
<1>7. ASSUME NEW m \in List \ {l}, NEW j \in 0..(Len(C[m]) + 1), NEW q \in 0..(n + 1)
      PROVE  e(m, j) # e(l, q)
  BY PlacesDiffer DEF Holds
<1>8. ASSUME NEW j \in 0..(n + 1), NEW q \in 0..(n + 1), j # q, j \in 1..n \/ q \in 1..n
      PROVE  e(l, j) # e(l, q)
  BY <1>8, PlacesDiffer DEF Holds
<1>o. OnePlaceIn(C)
  BY DEF Holds
<1>. HIDE DEF e, n, x
<1>4. /\ flink'[x] = Null /\ flink'[e(l, k - 1)] = e(l, k + 1) /\ blink'[e(l, k + 1)] = e(l, k - 1)
      /\ \A y \in Entry : y # x /\ y # e(l, k - 1) => flink'[y] = flink[y]
      /\ \A y \in Entry : y # x /\ y # e(l, k + 1) => blink'[y] = blink[y]
  <2>1. flink[x] = e(l, k + 1) /\ blink[x] = e(l, k - 1)
    <3>1. (k - 1) + 1 = k
      BY <1>k
    <3>2. blink[e(l, (k - 1) + 1)] = e(l, k - 1) /\ flink[e(l, k)] = e(l, k + 1)
      BY <1>f, <1>k
    <3>. QED
      BY <1>x, <3>1, <3>2
  <2>2. e(l, k - 1) # x /\ e(l, k + 1) # x
    <3>1. k - 1 \in 0..(n + 1) /\ k + 1 \in 0..(n + 1) /\ k \in 0..(n + 1)
      BY <1>1, <1>k
    <3>2. k - 1 # k /\ k + 1 # k
      BY <1>k
    <3>. QED
      BY <1>8, <1>k, <1>x, <3>1, <3>2
  <2>3. e(l, k - 1) \in Entry /\ e(l, k + 1) \in Entry /\ x \in Entry
    BY <1>3, <1>k, <1>x
  <2>. QED
    BY <1>0, <2>1, <2>2, <2>3 DEF LinkTypes
<1>9. ASSUME NEW m \in List PROVE RingIn(flink', blink', m, D[m])
  <2>1. CASE m # l
    <3>1. ASSUME NEW j \in 0..Len(C[m])
          PROVE  flink'[e(m, j)] = e(m, j + 1) /\ blink'[e(m, j + 1)] = e(m, j)
      <4>1. j \in 0..(Len(C[m]) + 1) /\ j + 1 \in 0..(Len(C[m]) + 1) /\ j \in Int /\ j + 1 \in Int
        BY <1>1
      <4>2. k \in 0..(n + 1) /\ k + 1 \in 0..(n + 1) /\ k - 1 \in 0..(n + 1)
        BY <1>1, <1>k
      <4>3. /\ e(m, j) # e(l, k) /\ e(m, j) # e(l, k - 1)
            /\ e(m, j + 1) # e(l, k) /\ e(m, j + 1) # e(l, k + 1)
        BY <1>7, <2>1, <4>1, <4>2
      <4>. QED
        BY <1>3, <1>4, <1>5, <1>x, <4>1, <4>3
    <3>. QED
      BY <1>2, <2>1, <3>1 DEF RingIn, e
  <2>2. CASE m = l
    <3>. DEFINE a(j) == At(l, D[l], j)
    <3>0. /\ \A j \in 0..(k - 1) : a(j) = e(l, j)
          /\ \A j \in k..n : a(j) = e(l, j + 1)
      BY <1>6
    <3>. HIDE DEF a
    <3>1. ASSUME NEW j \in 0..(n - 1) PROVE flink'[a(j)] = a(j + 1) /\ blink'[a(j + 1)] = a(j)
      <4>1. CASE j = k - 1
        <5>1. a(j) = e(l, k - 1) /\ a(j + 1) = e(l, k + 1)
          BY <1>k, <3>0, <4>1
        <5>. QED
          BY <1>4, <5>1
      <4>3. CASE j < k - 1
        <5>1. /\ a(j) = e(l, j) /\ a(j + 1) = e(l, j + 1)
              /\ j \in 0..n /\ j + 1 \in 1..n /\ j \in 0..(n + 1) /\ j + 1 \in 0..(n + 1)
              /\ k \in 1..n /\ k \in 0..(n + 1) /\ k + 1 \in 0..(n + 1)
              /\ k - 1 \in 1..n /\ k - 1 \in 0..(n + 1)
              /\ j \in Int /\ j + 1 \in Int
          BY <1>1, <1>k, <3>0, <4>3
        <5>2. j # k /\ j # k - 1 /\ j + 1 # k /\ j + 1 # k + 1
          BY <1>k, <4>3
        <5>3. e(l, j) # e(l, k) /\ e(l, j) # e(l, k - 1)
          BY <1>8, <5>1, <5>2
        <5>4. e(l, j + 1) # e(l, k) /\ e(l, j + 1) # e(l, k + 1)
          BY <1>8, <5>1, <5>2
        <5>. QED
          BY <1>3, <1>4, <1>f, <1>x, <5>1, <5>3, <5>4
      <4>4. CASE j > k - 1
        <5>. DEFINE p == j + 1
        <5>1. /\ a(j) = e(l, p) /\ a(j + 1) = e(l, p + 1)
              /\ p \in 1..n /\ p \in 0..n /\ p \in 0..(n + 1) /\ p + 1 \in 0..(n + 1)
              /\ k \in 0..(n + 1) /\ k + 1 \in 0..(n + 1) /\ k + 1 \in 1..n
              /\ k - 1 \in 0..(n + 1)
              /\ p # k /\ p # k - 1 /\ p + 1 # k + 1 /\ p + 1 # k
              /\ p \in Int /\ p + 1 \in Int
          BY <1>1, <1>k, <3>0, <4>4
        <5>. HIDE DEF p
        <5>2. e(l, p) # e(l, k) /\ e(l, p) # e(l, k - 1)
          BY <1>8, <5>1
        <5>3. e(l, p + 1) # e(l, k) /\ e(l, p + 1) # e(l, k + 1)
          BY <1>8, <1>k, <5>1
        <5>. QED
          BY <1>3, <1>4, <1>f, <1>x, <5>1, <5>2, <5>3
      <4>. QED
        BY <1>1, <1>k, <4>1, <4>3, <4>4
    <3>. QED
      BY <1>6, <2>2, <3>1 DEF RingIn, a
  <2>. QED
    BY <2>1, <2>2
<1>10. \A j \in 1..(n - 1) : D[l][j] = IF j < k THEN C[l][j] ELSE C[l][j + 1]
  BY <1>2 DEF Removed, n
<1>11. OnePlaceIn(D)
  <2>. SUFFICES ASSUME NEW m \in List, NEW p \in List,
                       NEW j \in 1..Len(D[m]), NEW q \in 1..Len(D[p]), D[m][j] = D[p][q]
                PROVE  m = p /\ j = q
    BY DEF OnePlaceIn
  <2>1. ASSUME NEW y \in List, NEW h \in 1..Len(D[y])
        PROVE  \E z \in 1..Len(C[y]) :
                 /\ z = IF y = l /\ h >= k THEN h + 1 ELSE h
                 /\ D[y][h] = C[y][z]
    <3>1. CASE y = l
      <4>1. h \in 1..(n - 1)
        BY <1>6, <3>1
      <4>2. h \in 1..n /\ h + 1 \in 1..n /\ h \in Int
        BY <1>1, <4>1
      <4>3. D[l][h] = IF h < k THEN C[l][h] ELSE C[l][h + 1]
        BY <1>10, <4>1
      <4>. QED
        BY <1>k, <3>1, <4>2, <4>3 DEF n
    <3>2. CASE y # l
      BY <1>2, <2>1, <3>2
    <3>. QED
      BY <3>1, <3>2
  <2>2. PICK z \in 1..Len(C[m]) : z = (IF m = l /\ j >= k THEN j + 1 ELSE j) /\ D[m][j] = C[m][z]
    BY <2>1
  <2>3. PICK w \in 1..Len(C[p]) : w = (IF p = l /\ q >= k THEN q + 1 ELSE q) /\ D[p][q] = C[p][w]
    BY <2>1
  <2>4. m = p /\ z = w
    <3>1. C[m][z] = C[p][w]
      BY <2>2, <2>3
    <3>. QED
      BY <1>o, <3>1 DEF OnePlaceIn
  <2>5. j \in Int /\ q \in Int
    OBVIOUS
  <2>. QED
    BY <1>k, <2>2, <2>3, <2>4, <2>5
<1>12. ASSUME NEW y \in Item, flink'[y] \notin {y, Null}
       PROVE  OccursIn(D, y)
  <2>1. OccursIn(C, y)
    <3>1. CASE y = e(l, k - 1)
      BY <3>1, ListAssumption DEF e, At, OccursIn
    <3>2. CASE y # e(l, k - 1)
      BY <1>4, <1>12, <3>2 DEF Holds, Entry
    <3>. QED
      BY <3>1, <3>2
  <2>2. PICK m \in List, j \in Nat : j \in 1..Len(C[m]) /\ C[m][j] = y
    BY <2>1 DEF OccursIn
  <2>3. CASE m # l
    BY <1>2, <2>2, <2>3 DEF OccursIn
  <2>4. CASE m = l
    <3>1. j \in 1..n /\ j # k
      BY <1>4, <1>12, <2>2, <2>4 DEF n, x
    <3>2. CASE j < k
      <4>1. j \in 1..(n - 1)
        BY <1>1, <1>k, <3>1, <3>2
      <4>. QED
        BY <1>6, <1>10, <2>2, <2>4, <3>2, <4>1 DEF OccursIn
    <3>3. CASE j > k
      <4>1. j - 1 \in 1..(n - 1) /\ ~(j - 1 < k) /\ (j - 1) + 1 = j
        BY <1>1, <1>k, <3>1, <3>3
      <4>2. D[l][j - 1] = y
        BY <1>10, <2>2, <2>4, <4>1
      <4>. QED
        BY <1>6, <4>1, <4>2 DEF OccursIn
    <3>. QED
      BY <1>k, <3>1, <3>2, <3>3
  <2>. QED
    BY <2>3, <2>4
<1>. QED
  BY <1>2, <1>9, <1>11, <1>12 DEF Holds, D

(* The lists are no longer than there are items. *)
LEMMA ListIsShort ==
  ASSUME NEW C \in Held, OnePlaceIn(C), NEW l \in List
  PROVE  Len(C[l]) <= Cardinality(Item) /\ Cardinality(Item) \in Nat
<1>. USE ListAssumption
<1>1. Len(C[l]) \in Nat /\ C[l] \in [1..Len(C[l]) -> Item]
  BY LenIsNat DEF Held
<1>2. C[l] \in Injection(1..Len(C[l]), Item)
  BY <1>1 DEF OnePlaceIn, Injection, IsInjective
<1>3. Cardinality(1..Len(C[l])) <= Cardinality(Item)
  BY <1>2, FS_Injection
<1>4. Cardinality(1..Len(C[l])) = Len(C[l])
  BY <1>1, FS_Interval
<1>. QED
  BY <1>3, <1>4, FS_CardinalityType

(* The loop of From along the links F. *)
WalkOf(F, from) ==
  LET walk[n \in 0..Cardinality(Item)] ==
        IF n = 0 THEN [at |-> from, out |-> <<>>]
        ELSE IF walk[n - 1].at \notin Item THEN walk[n - 1]
        ELSE [at |-> F[walk[n - 1].at], out |-> Append(walk[n - 1].out, walk[n - 1].at)]
  IN  walk[Cardinality(Item)].out

(* From follows the links there are, and the next links afterwards. *)
LEMMA FromIsWalk == \A x : From(x) = WalkOf(flink, x) /\ From(x)' = WalkOf(flink', x')
BY DEF From, LookAt, WalkOf

(* So does Contents, from the head on. *)
LEMMA ContentsAreWalk ==
  \A l \in List : /\ Contents(l) = WalkOf(flink, flink[l])
                  /\ Contents(l)' = WalkOf(flink', flink'[l])
BY DEF Contents, From, LookAt, WalkOf

(* What is left of s from position k on. *)
Part(s, k) == [j \in 1..(Len(s) + 1 - k) |-> s[k - 1 + j]]

(* What is left is a sequence, and all of it at first. *)
LEMMA PartIsSeq ==
  ASSUME NEW s \in Seq(Item), NEW k \in 1..(Len(s) + 1)
  PROVE  /\ Part(s, k) \in Seq(Item)
         /\ Len(Part(s, k)) = Len(s) + 1 - k
         /\ Part(s, 1) = s
<1>. DEFINE n == Len(s) + 1 - k
<1>1. n \in Nat /\ Len(s) \in Nat /\ s \in [1..Len(s) -> Item]
  OBVIOUS
<1>2. Part(s, k) \in [1..n -> Item]
  BY <1>1 DEF Part
<1>3. Part(s, 1) = s
  <2>1. Len(s) + 1 - 1 = Len(s) /\ \A j \in 1..Len(s) : 1 - 1 + j = j
    BY <1>1
  <2>. QED
    BY <1>1, <2>1 DEF Part
<1>. HIDE DEF n
<1>4. Part(s, k) \in Seq(Item) /\ Len(Part(s, k)) = n
  BY <1>1, <1>2
<1>. QED
  BY <1>3, <1>4 DEF n

(* The loop that begins at a place of a ring sees what is left of its list. *)
LEMMA WalkSeesPart ==
  ASSUME NEW F, NEW B, NEW C \in Held, Holds(F, B, C),
         NEW l \in List, NEW k \in 1..(Len(C[l]) + 1)
  PROVE  WalkOf(F, At(l, C[l], k)) = Part(C[l], k)
<1>. DEFINE s == C[l]
            from == At(l, s, k)
            N == Cardinality(Item)
            r == Len(s) + 1 - k
            W(n) == [at  |-> At(l, s, k + (IF n <= r THEN n ELSE r)),
                     out |-> [j \in 1..(IF n <= r THEN n ELSE r) |-> s[k - 1 + j]]]
            Turn(w) == IF w.at \notin Item THEN w
                       ELSE [at |-> F[w.at], out |-> Append(w.out, w.at)]
            walk[n \in 0..N] ==
              IF n = 0 THEN [at |-> from, out |-> <<>>]
              ELSE IF walk[n - 1].at \notin Item THEN walk[n - 1]
              ELSE [at |-> F[walk[n - 1].at], out |-> Append(walk[n - 1].out, walk[n - 1].at)]
            All == [n \in 0..N |-> W(n)]
<1>1. s \in Seq(Item) /\ Len(s) \in Nat /\ s \in [1..Len(s) -> Item]
  BY LenIsNat DEF Held
<1>2. N \in Nat /\ r \in 0..N
  BY <1>1, ListIsShort DEF Holds
<1>3. W(0) = [at |-> from, out |-> <<>>]
  <2>1. 0 <= r /\ k + 0 = k /\ 1..0 = {}
    BY <1>2
  <2>2. [j \in 1..0 |-> s[k - 1 + j]] = <<>>
    BY <2>1
  <2>. QED
    BY <2>1, <2>2
<1>4. ASSUME NEW n \in 1..N PROVE W(n) = Turn(W(n - 1))
  <2>1. CASE n <= r
    <3>1. /\ n - 1 <= r /\ n - 1 \in Nat /\ k + (n - 1) \in 1..Len(s) /\ k + (n - 1) \in 0..Len(s)
          /\ k + (n - 1) + 1 = k + n /\ k - 1 + n = k + (n - 1)
      BY <1>1, <2>1
    <3>2. W(n - 1).at = s[k + (n - 1)] /\ s[k + (n - 1)] \in Item
      BY <1>1, <3>1 DEF At
    <3>3. F[W(n - 1).at] = At(l, s, k + n)
      <4>1. F[At(l, s, k + (n - 1))] = At(l, s, k + (n - 1) + 1)
        BY <3>1 DEF Holds, RingIn
      <4>. QED
        BY <3>1, <4>1
    <3>4. Append(W(n - 1).out, s[k + (n - 1)]) = [j \in 1..n |-> s[k - 1 + j]]
      <4>. DEFINE t == [j \in 1..(n - 1) |-> s[k - 1 + j]]
                  u == [j \in 1..n |-> s[k - 1 + j]]
      <4>1. \A j \in 1..n : k - 1 + j \in 1..Len(s)
        BY <1>1, <2>1
      <4>2. t \in [1..(n - 1) -> Item] /\ u \in [1..n -> Item]
        BY <1>1, <4>1
      <4>3. \A j \in 1..(n - 1) : u[j] = t[j]
        OBVIOUS
      <4>4. u[n] = s[k + (n - 1)]
        BY <3>1
      <4>5. W(n - 1).out = t
        BY <3>1
      <4>. HIDE DEF t, u, W
      <4>6. t \in Seq(Item) /\ Len(t) = n - 1 /\ u \in Seq(Item) /\ Len(u) = n
        BY <3>1, <4>2
      <4>7. /\ Append(t, s[k + (n - 1)]) \in Seq(Item)
            /\ Len(Append(t, s[k + (n - 1)])) = n
            /\ \A j \in 1..(n - 1) : Append(t, s[k + (n - 1)])[j] = t[j]
            /\ Append(t, s[k + (n - 1)])[n] = s[k + (n - 1)]
        BY <3>2, <4>6, AppendProperties
      <4>8. Append(t, s[k + (n - 1)]) = u
        BY <4>3, <4>4, <4>6, <4>7, SeqEqual
      <4>. QED
        BY <4>5, <4>8 DEF u
    <3>. QED
      BY <2>1, <3>2, <3>3, <3>4
  <2>2. CASE n > r
    <3>1. n - 1 >= r /\ k + r = Len(s) + 1
      BY <1>1, <1>2, <2>2
    <3>2. W(n) = W(n - 1)
      <4>. DEFINE here == IF n <= r THEN n ELSE r
                  last == IF n - 1 <= r THEN n - 1 ELSE r
      <4>1. here = r /\ last = r
        BY <1>2, <2>2, <3>1
      <4>2. /\ W(n) = [at |-> At(l, s, k + here), out |-> [j \in 1..here |-> s[k - 1 + j]]]
            /\ W(n - 1) = [at |-> At(l, s, k + last), out |-> [j \in 1..last |-> s[k - 1 + j]]]
        OBVIOUS
      <4>. HIDE DEF here, last
      <4>. QED
        BY <4>1, <4>2
    <3>3. W(n - 1).at = l /\ l \notin Item
      <4>1. W(n - 1).at = At(l, s, k + r)
        BY <1>2, <3>1
      <4>. QED
        BY <1>1, <3>1, <4>1, ListAssumption DEF At
    <3>. QED
      BY <3>2, <3>3
  <2>. QED
    BY <1>2, <2>1, <2>2
<1>. HIDE DEF W, N, from
<1>5. \A n \in 0..N : walk[n] = IF n = 0 THEN [at |-> from, out |-> <<>>] ELSE Turn(walk[n - 1])
  <2>1. \A n \in 1..N : n - 1 \in 0..N /\ n # 0
    BY <1>2
  <2>2. All = [n \in 0..N |->
                 IF n = 0 THEN [at |-> from, out |-> <<>>]
                 ELSE IF All[n - 1].at \notin Item THEN All[n - 1]
                 ELSE [at |-> F[All[n - 1].at], out |-> Append(All[n - 1].out, All[n - 1].at)]]
    <3>1. ASSUME NEW n \in 0..N
          PROVE  W(n) = IF n = 0 THEN [at |-> from, out |-> <<>>]
                        ELSE IF All[n - 1].at \notin Item THEN All[n - 1]
                        ELSE [at |-> F[All[n - 1].at], out |-> Append(All[n - 1].out, All[n - 1].at)]
      <4>1. CASE n = 0
        BY <1>3, <4>1
      <4>2. CASE n # 0
        <5>1. n \in 1..N /\ n - 1 \in 0..N
          BY <1>2, <4>2
        <5>2. All[n - 1] = W(n - 1)
          BY <5>1
        <5>. QED
          BY <1>4, <4>2, <5>1, <5>2
      <4>. QED
        BY <4>1, <4>2
    <3>. QED
      BY <3>1
  <2>. HIDE DEF All
  <2>. QED
    BY <2>2
<1>. HIDE DEF walk
<1>. DEFINE T == {n \in 0..N : walk[n] = W(n)}
<1>6. 0 \in T
  <2>1. 0 \in 0..N
    BY <1>2
  <2>. HIDE DEF Turn
  <2>. QED
    BY <1>3, <1>5, <2>1
<1>7. ASSUME NEW n \in 0..(N - 1), n \in T PROVE n + 1 \in T
  <2>1. n + 1 \in 1..N /\ n + 1 \in 0..N /\ (n + 1) - 1 = n /\ n + 1 # 0
    BY <1>2
  <2>2. walk[n + 1] = Turn(walk[n])
    BY <1>5, <2>1
  <2>3. W(n + 1) = Turn(W(n))
    BY <1>4, <2>1
  <2>. QED
    BY <1>7, <2>1, <2>2, <2>3
<1>. HIDE DEF T
<1>8. 0..N \subseteq T
  BY <1>2, <1>6, <1>7, UpTo
<1>9. walk[N] = W(N)
  BY <1>2, <1>8 DEF T
<1>10. W(N).out = Part(s, k)
  <2>1. (IF N <= r THEN N ELSE r) = r
    BY <1>2
  <2>. QED
    BY <2>1 DEF W, Part
<1>. QED
  BY <1>9, <1>10 DEF WalkOf, walk, N, from

--------------------------------------------------------------------------------
(* From a head on, all of its list is seen. *)
LEMMA HeldIsContents ==
  ASSUME NEW F, NEW B, NEW C \in Held, Holds(F, B, C), NEW l \in List
  PROVE  F[l] = At(l, C[l], 1) /\ WalkOf(F, F[l]) = C[l]
<1>1. C[l] \in Seq(Item) /\ Len(C[l]) \in Nat
  BY LenIsNat DEF Held
<1>2. At(l, C[l], 0) = l /\ 0 \in 0..Len(C[l]) /\ 0 + 1 = 1 /\ 1 \in 1..(Len(C[l]) + 1)
  BY <1>1 DEF At
<1>3. F[At(l, C[l], 0)] = At(l, C[l], 0 + 1)
  BY <1>2 DEF Holds, RingIn
<1>4. F[l] = At(l, C[l], 1)
  BY <1>2, <1>3
<1>5. WalkOf(F, At(l, C[l], 1)) = Part(C[l], 1)
  BY <1>2, WalkSeesPart
<1>6. Part(C[l], 1) = C[l]
  BY <1>1, <1>2, PartIsSeq
<1>. QED
  BY <1>4, <1>5, <1>6

(* A constructor touches no list. *)
LEMMA ConstructHolds ==
  ASSUME LinkTypes, NEW C \in Held, Holds(flink, blink, C), NEW i \in Item, Construct(i)
  PROVE  Holds(flink', blink', C)
<1>1. ~OccursIn(C, i)
  BY PlaceIsLinked DEF OccursIn, Construct
<1>2. \A m \in List, j \in Int : At(m, C[m], j) # i /\ At(m, C[m], j) \in Entry
  BY <1>1, AtIsEntry, ListAssumption DEF OccursIn
<1>3. /\ flink'[i] = i
      /\ \A x \in Entry : x # i => flink'[x] = flink[x] /\ blink'[x] = blink[x]
  BY DEF Construct, LinkTypes, Entry
<1>4. ASSUME NEW m \in List PROVE RingIn(flink', blink', m, C[m])
  <2>1. \A j \in 0..Len(C[m]) : j \in Int /\ j + 1 \in Int
    BY LenIsNat DEF Held
  <2>. QED
    BY <1>2, <1>3, <2>1 DEF Holds, RingIn
<1>5. \A x \in Item : flink'[x] \notin {x, Null} => OccursIn(C, x)
  BY <1>3 DEF Holds, Entry
<1>. QED
  BY <1>4, <1>5 DEF Holds

(* What is put in or taken out, in the words of sequences. *)
LEMMA InsertedIs ==
  ASSUME NEW s \in Seq(Item), NEW i \in Item
  PROVE  /\ Inserted(s, 0, i) = <<i>> \o s
         /\ Inserted(s, Len(s), i) = Append(s, i)
         /\ \A k \in 1..Len(s) : Inserted(s, k - 1, i) = InsertAt(s, k, i)
<1>1. Len(s) \in Nat /\ s \in [1..Len(s) -> Item]
  OBVIOUS
<1>2. ASSUME NEW k \in 0..Len(s), NEW t \in Seq(Item), Len(t) = Len(s) + 1,
             \A j \in 1..(Len(s) + 1) :
               t[j] = IF j <= k THEN s[j] ELSE IF j = k + 1 THEN i ELSE s[j - 1]
      PROVE  Inserted(s, k, i) = t
  <2>1. t \in [1..(Len(s) + 1) -> Item]
    BY <1>2
  <2>. QED
    BY <1>2, <2>1 DEF Inserted
<1>3. <<i>> \in Seq(Item) /\ Len(<<i>>) = 1 /\ <<i>>[1] = i
  OBVIOUS
<1>4. Inserted(s, 0, i) = <<i>> \o s
  <2>1. /\ <<i>> \o s \in Seq(Item) /\ Len(<<i>> \o s) = 1 + Len(s)
        /\ \A j \in 1..(1 + Len(s)) : (<<i>> \o s)[j] = IF j <= 1 THEN <<i>>[j] ELSE s[j - 1]
    BY <1>3, ConcatProperties
  <2>. DEFINE t == <<i>> \o s
  <2>. HIDE DEF t
  <2>2. t \in Seq(Item) /\ Len(t) = Len(s) + 1
    BY <1>1, <2>1 DEF t
  <2>3. \A j \in 1..(Len(s) + 1) : t[j] = IF j = 1 THEN i ELSE s[j - 1]
    BY <1>1, <1>3, <2>1 DEF t
  <2>4. Inserted(s, 0, i) = t
    BY <1>1, <1>2, <2>2, <2>3
  <2>. QED
    BY <2>4 DEF t
<1>5. Inserted(s, Len(s), i) = Append(s, i)
  <2>. DEFINE t == Append(s, i)
  <2>1. /\ t \in Seq(Item) /\ Len(t) = Len(s) + 1
        /\ \A j \in 1..Len(s) : t[j] = s[j]
        /\ t[Len(s) + 1] = i
    BY AppendProperties
  <2>. HIDE DEF t
  <2>2. Inserted(s, Len(s), i) = t
    BY <1>1, <1>2, <2>1
  <2>. QED
    BY <2>2 DEF t
<1>6. ASSUME NEW k \in 1..Len(s) PROVE Inserted(s, k - 1, i) = InsertAt(s, k, i)
  <2>. DEFINE p == SubSeq(s, 1, k - 1)  q == SubSeq(s, k, Len(s))  t == (p \o <<i>>) \o q
  <2>0. k \in Int /\ k - 1 \in 0..Len(s) /\ 1 \in Int /\ Len(s) \in Int /\ k - 1 \in Int
    BY <1>1
  <2>1. p \in Seq(Item) /\ Len(p) = k - 1 /\ \A j \in 1..(k - 1) : p[j] = s[j]
    <3>1. /\ p \in Seq(Item) /\ Len(p) = IF 1 <= k - 1 THEN k - 1 - 1 + 1 ELSE 0
          /\ \A j \in 1..(k - 1 - 1 + 1) : p[j] = s[1 + j - 1]
      <4>1. \A j \in 1..(k - 1) : s[j] \in Item
        BY <1>1, <2>0
      <4>. QED
        BY <2>0, <4>1, SubSeqProperties
    <3>. HIDE DEF p
    <3>. QED
      BY <2>0, <3>1
  <2>2. q \in Seq(Item) /\ Len(q) = Len(s) + 1 - k /\ \A j \in 1..(Len(s) + 1 - k) : q[j] = s[k + j - 1]
    <3>1. /\ q \in Seq(Item) /\ Len(q) = IF k <= Len(s) THEN Len(s) - k + 1 ELSE 0
          /\ \A j \in 1..(Len(s) - k + 1) : q[j] = s[k + j - 1]
      <4>1. \A j \in k..Len(s) : s[j] \in Item
        BY <1>1
      <4>. QED
        BY <2>0, <4>1, SubSeqProperties
    <3>. HIDE DEF q
    <3>. QED
      BY <2>0, <3>1
  <2>. HIDE DEF p, q
  <2>3. /\ p \o <<i>> \in Seq(Item) /\ Len(p \o <<i>>) = k
        /\ \A j \in 1..k : (p \o <<i>>)[j] = IF j <= k - 1 THEN s[j] ELSE i
    <3>1. /\ p \o <<i>> \in Seq(Item) /\ Len(p \o <<i>>) = Len(p) + Len(<<i>>)
          /\ \A j \in 1..(Len(p) + Len(<<i>>)) :
               (p \o <<i>>)[j] = IF j <= Len(p) THEN p[j] ELSE <<i>>[j - Len(p)]
      BY <1>3, <2>1, ConcatProperties
    <3>2. Len(p) + Len(<<i>>) = k
      BY <1>3, <2>0, <2>1
    <3>3. ASSUME NEW j \in 1..k PROVE (p \o <<i>>)[j] = IF j <= k - 1 THEN s[j] ELSE i
      <4>1. CASE j <= k - 1
        BY <2>0, <2>1, <3>1, <3>2, <4>1
      <4>2. CASE j = k
        <5>1. j - Len(p) = 1 /\ ~(j <= Len(p))
          BY <2>0, <2>1, <4>2
        <5>. QED
          BY <1>3, <2>0, <3>1, <3>2, <4>2, <5>1
      <4>3. j <= k - 1 \/ j = k
        BY <2>0
      <4>. QED
        BY <4>1, <4>2, <4>3
    <3>. QED
      BY <3>1, <3>2, <3>3
  <2>. DEFINE h == p \o <<i>>
  <2>h. h \in Seq(Item) /\ Len(h) = k /\ \A j \in 1..k : h[j] = IF j <= k - 1 THEN s[j] ELSE i
    BY <2>3
  <2>. HIDE DEF h
  <2>4. /\ h \o q \in Seq(Item) /\ Len(h \o q) = Len(h) + Len(q)
        /\ \A j \in 1..(Len(h) + Len(q)) :
             (h \o q)[j] = IF j <= Len(h) THEN h[j] ELSE q[j - Len(h)]
    BY <2>2, <2>h, ConcatProperties
  <2>5. Len(h) = k /\ Len(q) = Len(s) + 1 - k /\ Len(h) + Len(q) = Len(s) + 1
    BY <2>0, <2>2, <2>h
  <2>6. ASSUME NEW j \in 1..(Len(s) + 1)
        PROVE  (h \o q)[j] = IF j <= k - 1 THEN s[j] ELSE IF j = (k - 1) + 1 THEN i ELSE s[j - 1]
    <3>1. CASE j <= k
      BY <2>0, <2>h, <2>4, <2>5, <3>1
    <3>2. CASE j > k
      <4>1. j - k \in 1..(Len(s) + 1 - k) /\ k + (j - k) - 1 = j - 1
        BY <2>0, <3>2
      <4>2. (h \o q)[j] = q[j - k]
        BY <2>0, <2>4, <2>5, <3>2
      <4>3. q[j - k] = s[j - 1]
        BY <2>2, <4>1
      <4>4. ~(j <= k - 1) /\ j # (k - 1) + 1
        BY <2>0, <3>2
      <4>. QED
        BY <4>2, <4>3, <4>4
    <3>3. j <= k \/ j > k
      BY <2>0
    <3>. QED
      BY <3>1, <3>2, <3>3
  <2>7. Inserted(s, k - 1, i) = h \o q
    BY <1>2, <2>0, <2>4, <2>5, <2>6
  <2>. QED
    BY <2>7 DEF h, p, q, InsertAt
<1>. QED
  BY <1>4, <1>5, <1>6

(* The same of what is taken out. *)
LEMMA RemovedIs ==
  ASSUME NEW s \in Seq(Item), NEW k \in 1..Len(s)
  PROVE  /\ Removed(s, k) = RemoveAt(s, k)
         /\ Removed(s, 1) = Tail(s)
         /\ Removed(s, Len(s)) = SubSeq(s, 1, Len(s) - 1)
<1>1. /\ Len(s) \in Nat /\ Len(s) \in 1..Len(s) /\ 1 \in 1..Len(s) /\ Len(s) - 1 \in Nat
      /\ s \in [1..Len(s) -> Item] /\ s # <<>>
  OBVIOUS
<1>2. ASSUME NEW h \in 1..Len(s), NEW t \in Seq(Item), Len(t) = Len(s) - 1,
             \A j \in 1..(Len(s) - 1) : t[j] = IF j < h THEN s[j] ELSE s[j + 1]
      PROVE  Removed(s, h) = t
  <2>1. t \in [1..(Len(s) - 1) -> Item]
    BY <1>2
  <2>. QED
    BY <1>2, <2>1 DEF Removed
<1>3. Removed(s, 1) = Tail(s)
  <2>. DEFINE t == Tail(s)
  <2>1. t \in Seq(Item) /\ Len(t) = Len(s) - 1 /\ \A j \in 1..Len(t) : t[j] = s[j + 1]
    BY <1>1, HeadTailProperties
  <2>. HIDE DEF t
  <2>2. \A j \in 1..(Len(s) - 1) : ~(j < 1)
    BY <1>1
  <2>3. Removed(s, 1) = t
    BY <1>1, <1>2, <2>1, <2>2
  <2>. QED
    BY <2>3 DEF t
<1>4. ASSUME NEW h \in 1..Len(s)
      PROVE  /\ SubSeq(s, 1, h - 1) \in Seq(Item) /\ Len(SubSeq(s, 1, h - 1)) = h - 1
             /\ \A j \in 1..(h - 1) : SubSeq(s, 1, h - 1)[j] = s[j]
  <2>. DEFINE p == SubSeq(s, 1, h - 1)
  <2>1. h \in Int /\ h - 1 \in Int /\ \A j \in 1..(h - 1) : s[j] \in Item
    BY <1>1
  <2>2. /\ p \in Seq(Item) /\ Len(p) = IF 1 <= h - 1 THEN h - 1 - 1 + 1 ELSE 0
        /\ \A j \in 1..(h - 1 - 1 + 1) : p[j] = s[1 + j - 1]
    BY <2>1, SubSeqProperties
  <2>. HIDE DEF p
  <2>3. Len(p) = h - 1 /\ \A j \in 1..(h - 1) : p[j] = s[j]
    BY <1>1, <2>1, <2>2
  <2>. QED
    BY <2>2, <2>3 DEF p
<1>5. Removed(s, Len(s)) = SubSeq(s, 1, Len(s) - 1)
  <2>. DEFINE t == SubSeq(s, 1, Len(s) - 1)
  <2>1. t \in Seq(Item) /\ Len(t) = Len(s) - 1 /\ \A j \in 1..(Len(s) - 1) : t[j] = s[j]
    BY <1>1, <1>4
  <2>. HIDE DEF t
  <2>2. \A j \in 1..(Len(s) - 1) : j < Len(s)
    BY <1>1
  <2>3. Removed(s, Len(s)) = t
    BY <1>1, <1>2, <2>1, <2>2
  <2>. QED
    BY <2>3 DEF t
<1>6. Removed(s, k) = RemoveAt(s, k)
  <2>. DEFINE p == SubSeq(s, 1, k - 1)
              q == SubSeq(s, k + 1, Len(s))
  <2>0. k \in Int /\ k + 1 \in Int /\ k - 1 \in Nat /\ Len(s) \in Int /\ k <= Len(s)
    BY <1>1
  <2>1. p \in Seq(Item) /\ Len(p) = k - 1 /\ \A j \in 1..(k - 1) : p[j] = s[j]
    BY <1>4
  <2>2. q \in Seq(Item) /\ Len(q) = Len(s) - k /\ \A j \in 1..(Len(s) - k) : q[j] = s[k + j]
    <3>1. /\ q \in Seq(Item) /\ Len(q) = IF k + 1 <= Len(s) THEN Len(s) - (k + 1) + 1 ELSE 0
          /\ \A j \in 1..(Len(s) - (k + 1) + 1) : q[j] = s[(k + 1) + j - 1]
      <4>1. \A j \in (k + 1)..Len(s) : s[j] \in Item
        BY <1>1
      <4>. QED
        BY <2>0, <4>1, SubSeqProperties
    <3>. HIDE DEF q
    <3>2. \A j \in 1..(Len(s) - k) : (k + 1) + j - 1 = k + j
      BY <2>0
    <3>3. Len(s) - (k + 1) + 1 = Len(s) - k
      BY <2>0
    <3>4. Len(q) = Len(s) - k
      BY <2>0, <3>1
    <3>5. \A j \in 1..(Len(s) - k) : q[j] = s[k + j]
      BY <3>1, <3>2, <3>3
    <3>. QED
      BY <3>1, <3>4, <3>5
  <2>. HIDE DEF p, q
  <2>3. /\ p \o q \in Seq(Item) /\ Len(p \o q) = Len(p) + Len(q)
        /\ \A j \in 1..(Len(p) + Len(q)) : (p \o q)[j] = IF j <= Len(p) THEN p[j] ELSE q[j - Len(p)]
    BY <2>1, <2>2, ConcatProperties
  <2>4. Len(p) + Len(q) = Len(s) - 1
    BY <2>0, <2>1, <2>2
  <2>5. ASSUME NEW j \in 1..(Len(s) - 1)
        PROVE  (p \o q)[j] = IF j < k THEN s[j] ELSE s[j + 1]
    <3>1. CASE j < k
      <4>1. j \in 1..(k - 1) /\ j <= Len(p)
        BY <2>0, <2>1, <3>1
      <4>. QED
        BY <2>1, <2>3, <2>4, <3>1, <4>1
    <3>2. CASE ~(j < k)
      <4>1. ~(j <= k - 1) /\ j - (k - 1) \in 1..(Len(s) - k) /\ k + (j - (k - 1)) = j + 1
        BY <2>0, <3>2
      <4>2. (p \o q)[j] = q[j - (k - 1)]
        BY <2>1, <2>3, <2>4, <4>1
      <4>3. q[j - (k - 1)] = s[j + 1]
        BY <2>2, <4>1
      <4>. QED
        BY <3>2, <4>2, <4>3
    <3>. QED
      BY <3>1, <3>2
  <2>6. Removed(s, k) = p \o q
    BY <1>2, <2>3, <2>4, <2>5
  <2>. QED
    BY <2>6 DEF p, q, RemoveAt
<1>. QED
  BY <1>3, <1>5, <1>6

(* Concatenation is associative. *)
LEMMA ItemsRegroup ==
  \A s, t, u \in Seq(Item) : (s \o t) \o u = s \o (t \o u)
BY ConcatAssociative

(* One item of the list has been looked at; it may have been taken out. *)
LEMMA PartSteps ==
  ASSUME NEW s \in Seq(Item), NEW k \in 1..Len(s), NEW past \in Seq(Item)
  PROVE  /\ Append(past, s[k]) \o Part(s, k + 1) = past \o Part(s, k)
         /\ Part(Removed(s, k), k) = Part(s, k + 1)
         /\ Append(past, s[k]) \in Seq(Item)
<1>1. Len(s) \in Nat /\ s \in [1..Len(s) -> Item] /\ s[k] \in Item
  OBVIOUS
<1>2. k \in 1..(Len(s) + 1) /\ k + 1 \in 1..(Len(s) + 1) /\ k \in Int
  BY <1>1
<1>3. <<s[k]>> \in Seq(Item) /\ Len(<<s[k]>>) = 1 /\ <<s[k]>>[1] = s[k]
  BY <1>1
<1>. DEFINE p == Part(s, k)
            q == Part(s, k + 1)
<1>4. /\ p \in Seq(Item) /\ Len(p) = Len(s) + 1 - k
      /\ q \in Seq(Item) /\ Len(q) = Len(s) + 1 - (k + 1)
  BY <1>2, PartIsSeq
<1>5. /\ \A j \in 1..(Len(s) + 1 - k) : p[j] = s[k - 1 + j]
      /\ \A j \in 1..(Len(s) + 1 - (k + 1)) : q[j] = s[(k + 1) - 1 + j]
  BY DEF Part
<1>. HIDE DEF p, q
<1>6. p = <<s[k]>> \o q
  <2>1. /\ <<s[k]>> \o q \in Seq(Item) /\ Len(<<s[k]>> \o q) = 1 + Len(q)
        /\ \A j \in 1..(1 + Len(q)) : (<<s[k]>> \o q)[j] = IF j <= 1 THEN <<s[k]>>[j] ELSE q[j - 1]
    BY <1>3, <1>4, ConcatProperties
  <2>2. 1 + Len(q) = Len(s) + 1 - k
    BY <1>1, <1>2, <1>4
  <2>3. ASSUME NEW j \in 1..(Len(s) + 1 - k) PROVE (<<s[k]>> \o q)[j] = p[j]
    <3>1. CASE j = 1
      <4>1. k - 1 + 1 = k
        BY <1>2
      <4>. QED
        BY <1>3, <1>5, <2>1, <2>2, <3>1, <4>1
    <3>2. CASE j # 1
      <4>1. j - 1 \in 1..(Len(s) + 1 - (k + 1)) /\ ~(j <= 1) /\ (k + 1) - 1 + (j - 1) = k - 1 + j
        BY <1>1, <1>2, <3>2
      <4>2. (<<s[k]>> \o q)[j] = q[j - 1]
        BY <2>1, <2>2, <4>1
      <4>3. q[j - 1] = s[k - 1 + j]
        BY <1>5, <4>1
      <4>. QED
        BY <1>5, <4>2, <4>3
    <3>. QED
      BY <3>1, <3>2
  <2>. DEFINE h == <<s[k]>> \o q
  <2>. HIDE DEF h
  <2>4. h \in Seq(Item) /\ Len(h) = Len(p) /\ \A j \in 1..Len(h) : h[j] = p[j]
    BY <1>4, <2>1, <2>2, <2>3 DEF h
  <2>5. h = p
    BY <1>4, <2>4, SeqEqual
  <2>. QED
    BY <2>5 DEF h
<1>7. Append(past, s[k]) = past \o <<s[k]>> /\ Append(past, s[k]) \in Seq(Item)
  BY <1>1, AppendIsConcat, AppendProperties
<1>8. (past \o <<s[k]>>) \o q = past \o (<<s[k]>> \o q)
  BY <1>3, <1>4, ItemsRegroup
<1>9. Part(Removed(s, k), k) = q
  <2>1. Len(Removed(s, k)) = Len(s) - 1
    BY <1>1 DEF Removed
  <2>2. Len(Removed(s, k)) + 1 - k = Len(s) + 1 - (k + 1)
    <3>1. \A n \in Nat : (n - 1) + 1 - k = n + 1 - (k + 1)
      BY <1>2
    <3>. QED
      BY <1>1, <2>1, <3>1
  <2>3. ASSUME NEW j \in 1..(Len(s) + 1 - (k + 1))
        PROVE  Removed(s, k)[k - 1 + j] = s[(k + 1) - 1 + j]
    <3>1. k - 1 + j \in 1..(Len(s) - 1) /\ ~(k - 1 + j < k) /\ k - 1 + j + 1 = (k + 1) - 1 + j
      BY <1>1, <1>2
    <3>. QED
      BY <3>1 DEF Removed
  <2>. QED
    BY <2>2, <2>3 DEF Part, q
<1>. QED
  BY <1>6, <1>7, <1>8, <1>9 DEF p, q

--------------------------------------------------------------------------------
(* A sweep stands at a place of its list, and what was in that list is what  *)
(* it has seen and what is left from there on.                               *)
Placed(C) ==
  over # Null =>
    /\ seen \in Seq(Item)
    /\ \E k \in 1..(Len(C[over]) + 1) :
         /\ cursor = At(over, C[over], k)
         /\ before = seen \o Part(C[over], k)

SequencesAreHeld == \E C \in Held : Holds(flink, blink, C) /\ Placed(C)

SeqInv == ListInv /\ SequencesAreHeld

(* Every list holds the empty sequence. *)
LEMMA InitSeq == Init => SeqInv
<1>. SUFFICES ASSUME Init PROVE SeqInv
  OBVIOUS
<1>. USE ListAssumption
<1>. DEFINE C == [l \in List |-> <<>>]
<1>1. C \in Held /\ \A l \in List : C[l] = <<>> /\ Len(C[l]) = 0
  BY DEF Held
<1>. HIDE DEF C
<1>2. \A l \in List : RingIn(flink, blink, l, C[l])
  <2>1. \A l \in List, k \in Int : At(l, C[l], k) = l
    BY <1>1 DEF At
  <2>. QED
    BY <1>1, <2>1 DEF RingIn, Init, Entry
<1>3. OnePlaceIn(C)
  BY <1>1 DEF OnePlaceIn
<1>4. \A i \in Item : flink[i] = i
  BY DEF Init, Entry
<1>5. Placed(C)
  BY DEF Init, Placed
<1>. QED
  BY <1>1, <1>2, <1>3, <1>4, <1>5, InitList DEF SeqInv, SequencesAreHeld, Holds

(* Where an entry of the rings is. *)
LEMMA LinkedHasPlace ==
  ASSUME NEW C \in Held, Holds(flink, blink, C), NEW e \in Linked
  PROVE  \E l \in List : \E k \in 0..Len(C[l]) :
           /\ e = At(l, C[l], k + 1)
           /\ e \in List => l = e /\ k = Len(C[l])
           /\ e \in Item => k + 1 \in 1..Len(C[l]) /\ e = C[l][k + 1]
<1>. USE ListAssumption
<1>1. CASE e \in List
  <2>1. Len(C[e]) \in Nat
    BY <1>1, LenIsNat DEF Held
  <2>. QED
    BY <1>1, <2>1 DEF At
<1>2. CASE e \in Item
  <2>1. PICK l \in List, j \in Nat : j \in 1..Len(C[l]) /\ C[l][j] = e
    <3>1. OccursIn(C, e)
      BY <1>2 DEF Holds, Linked
    <3>. QED
      BY <3>1 DEF OccursIn
  <2>2. j - 1 \in 0..Len(C[l]) /\ (j - 1) + 1 = j
    BY <2>1, LenIsNat DEF Held
  <2>3. e \notin List
    BY <1>2
  <2>. QED
    BY <2>1, <2>2, <2>3 DEF At
<1>. QED
  BY <1>1, <1>2 DEF Linked

(* In the terms of the specification. *)
LEMMA ContentsAre ==
  ASSUME NEW C \in Held, Holds(flink, blink, C), NEW l \in List
  PROVE  Contents(l) = C[l] /\ flink[l] = At(l, C[l], 1)
BY HeldIsContents, ContentsAreWalk

(* What is held afterwards is what Contents gives afterwards. *)
LEMMA ContentsBecome ==
  ASSUME NEW C \in Held, Holds(flink, blink, C),
         NEW l \in List, NEW t, [C EXCEPT ![l] = t] \in Held,
         Holds(flink', blink', [C EXCEPT ![l] = t])
  PROVE  Becomes(l, t) /\ \A m \in List : Contents(m)' = IF m = l THEN t ELSE C[m]
<1>. DEFINE D == [C EXCEPT ![l] = t]
<1>1. \A m \in List : D[m] = IF m = l THEN t ELSE C[m]
  BY DEF Held
<1>. HIDE DEF D
<1>2. D \in Held /\ Holds(flink', blink', D)
  BY DEF D
<1>3. \A m \in List : WalkOf(flink', flink'[m]) = D[m]
  BY <1>2, HeldIsContents
<1>4. \A m \in List : Contents(m)' = D[m]
  BY <1>3, ContentsAreWalk
<1>. QED
  BY <1>1, <1>4, ContentsAre DEF Becomes

--------------------------------------------------------------------------------
(* What the operations do to the sequences that are held. *)

(* An operation on an item leaves lists that hold sequences. *)
LEMMA ItemStepHolds ==
  ASSUME LinkTypes, NEW C \in Held, Holds(flink, blink, C), NEW i \in Item, ItemStep(i)
  PROVE  \E D \in Held : Holds(flink', blink', D)
<1>1. CASE Construct(i)
  BY <1>1, ConstructHolds
<1>2. CASE remove(i)
  <2>1. i \in Linked /\ RemoveEntry(i)
    BY <1>2 DEF remove
  <2>2. PICK l \in List : \E k \in 0..Len(C[l]) : k + 1 \in 1..Len(C[l]) /\ i = C[l][k + 1]
    BY <2>1, LinkedHasPlace
  <2>3. PICK k \in 1..Len(C[l]) : i = C[l][k]
    BY <2>2
  <2>4. RemoveEntry(C[l][k])
    BY <2>1, <2>3
  <2>. QED
    BY <2>4, RemoveHolds
<1>3. ASSUME NEW l \in List, push_front(l, i) \/ push_back(l, i)
      PROVE  \E D \in Held : Holds(flink', blink', D)
  <2>1. Len(C[l]) \in Nat /\ 0 \in 0..Len(C[l]) /\ Len(C[l]) \in 0..Len(C[l])
    BY LenIsNat DEF Held
  <2>2. l = At(l, C[l], 0) /\ l = At(l, C[l], Len(C[l]) + 1)
    BY <2>1 DEF At
  <2>3. Fresh(i) /\ (InsertAfter(At(l, C[l], 0), i) \/ InsertBefore(At(l, C[l], Len(C[l]) + 1), i))
    BY <1>3, <2>2 DEF push_front, push_back
  <2>. QED
    BY <2>1, <2>3, InsertHolds
<1>4. ASSUME NEW e \in Entry, insert(e, i)
      PROVE  \E D \in Held : Holds(flink', blink', D)
  <2>1. e \in Linked /\ Fresh(i) /\ InsertBefore(e, i)
    BY <1>4 DEF insert
  <2>2. PICK l \in List : \E k \in 0..Len(C[l]) : e = At(l, C[l], k + 1)
    BY <2>1, LinkedHasPlace
  <2>3. PICK k \in 0..Len(C[l]) : e = At(l, C[l], k + 1)
    BY <2>2
  <2>4. InsertBefore(At(l, C[l], k + 1), i)
    BY <2>1, <2>3
  <2>. QED
    BY <2>1, <2>4, InsertHolds
<1>. QED
  BY <1>1, <1>2, <1>3, <1>4 DEF ItemStep

(* The first and the last item of a list that is not empty. *)
LEMMA EndsOfList ==
  ASSUME NEW C \in Held, Holds(flink, blink, C), NEW l \in List, ~empty(l)
  PROVE  /\ Len(C[l]) \in Nat \ {0}
         /\ flink[l] = C[l][1] /\ blink[l] = C[l][Len(C[l])]
<1>1. Len(C[l]) \in Nat
  BY LenIsNat DEF Held
<1>2. flink[l] = At(l, C[l], 1)
  BY ContentsAre
<1>3. Len(C[l]) # 0
  BY <1>2 DEF At, empty
<1>4. blink[l] = At(l, C[l], Len(C[l]))
  <2>1. Len(C[l]) \in 0..Len(C[l]) /\ At(l, C[l], Len(C[l]) + 1) = l
    BY <1>1 DEF At
  <2>2. blink[At(l, C[l], Len(C[l]) + 1)] = At(l, C[l], Len(C[l]))
    BY <2>1 DEF Holds, RingIn
  <2>. QED
    BY <2>1, <2>2
<1>. QED
  BY <1>1, <1>2, <1>3, <1>4 DEF At

(* A pop takes out the item at an end of a list that is not empty. *)
LEMMA PopHolds ==
  ASSUME LinkTypes, NEW C \in Held, Holds(flink, blink, C), NEW l \in List
  PROVE  /\ pop_front(l) => /\ 1 \in 1..Len(C[l])
                            /\ [C EXCEPT ![l] = Removed(C[l], 1)] \in Held
                            /\ Holds(flink', blink', [C EXCEPT ![l] = Removed(C[l], 1)])
         /\ pop_back(l) => /\ Len(C[l]) \in 1..Len(C[l])
                           /\ [C EXCEPT ![l] = Removed(C[l], Len(C[l]))] \in Held
                           /\ Holds(flink', blink', [C EXCEPT ![l] = Removed(C[l], Len(C[l]))])
<1>1. ASSUME pop_front(l) \/ pop_back(l)
      PROVE  /\ 1 \in 1..Len(C[l]) /\ Len(C[l]) \in 1..Len(C[l])
             /\ flink[l] = C[l][1] /\ blink[l] = C[l][Len(C[l])]
  BY <1>1, EndsOfList DEF pop_front, pop_back
<1>2. ASSUME pop_front(l)
      PROVE  /\ 1 \in 1..Len(C[l])
             /\ [C EXCEPT ![l] = Removed(C[l], 1)] \in Held
             /\ Holds(flink', blink', [C EXCEPT ![l] = Removed(C[l], 1)])
  <2>1. 1 \in 1..Len(C[l]) /\ RemoveEntry(C[l][1])
    BY <1>1, <1>2 DEF pop_front
  <2>. QED
    BY <2>1, RemoveHolds
<1>3. ASSUME pop_back(l)
      PROVE  /\ Len(C[l]) \in 1..Len(C[l])
             /\ [C EXCEPT ![l] = Removed(C[l], Len(C[l]))] \in Held
             /\ Holds(flink', blink', [C EXCEPT ![l] = Removed(C[l], Len(C[l]))])
  <2>1. Len(C[l]) \in 1..Len(C[l]) /\ RemoveEntry(C[l][Len(C[l])])
    BY <1>1, <1>3 DEF pop_back
  <2>. QED
    BY <2>1, RemoveHolds
<1>. QED
  BY <1>2, <1>3

--------------------------------------------------------------------------------
(* The steps of a sweep. *)

(* A sweep begins at the first place and has all of its list before it. *)
LEMMA SweepBeginsPlaced ==
  ASSUME NEW C \in Held, Holds(flink, blink, C), NEW l \in List, SweepBegins(l)
  PROVE  Holds(flink', blink', C) /\ Placed(C)'
<1>. USE ListAssumption
<1>1. /\ flink' = flink /\ blink' = blink /\ over' = l /\ cursor' = flink[l]
      /\ before' = Contents(l) /\ seen' = <<>>
  BY DEF SweepBegins, links
<1>2. C[l] \in Seq(Item) /\ Len(C[l]) \in Nat /\ 1 \in 1..(Len(C[l]) + 1)
  BY LenIsNat DEF Held
<1>3. Contents(l) = C[l] /\ flink[l] = At(l, C[l], 1)
  BY ContentsAre
<1>4. Part(C[l], 1) = C[l]
  BY <1>2, PartIsSeq
<1>5. <<>> \o C[l] = C[l] /\ <<>> \in Seq(Item)
  BY <1>2, ConcatEmptySeq
<1>. QED
  BY <1>1, <1>2, <1>3, <1>4, <1>5 DEF Placed

(* Before an entry is passed. *)
LEMMA SweepAt ==
  ASSUME NEW C \in Held, over \in List, over # Null, cursor # over, Placed(C)
  PROVE  /\ seen \in Seq(Item) /\ C[over] \in Seq(Item)
         /\ \E k \in 1..Len(C[over]) :
              /\ cursor = C[over][k] /\ cursor = At(over, C[over], k)
              /\ before = seen \o Part(C[over], k)
<1>1. C[over] \in Seq(Item) /\ Len(C[over]) \in Nat
  BY LenIsNat DEF Held
<1>2. PICK k \in 1..(Len(C[over]) + 1) :
        cursor = At(over, C[over], k) /\ before = seen \o Part(C[over], k)
  BY DEF Placed
<1>3. k \in 1..Len(C[over])
  BY <1>2 DEF At
<1>. QED
  BY <1>1, <1>2, <1>3 DEF At, Placed

(* An item that stays is passed. *)
LEMMA SweepKeepsPlaced ==
  ASSUME NEW C \in Held, Holds(flink, blink, C), over \in List, Placed(C), SweepKeeps
  PROVE  Holds(flink', blink', C) /\ Placed(C)'
<1>1. /\ flink' = flink /\ blink' = blink /\ over' = over /\ cursor' = flink[cursor]
      /\ before' = before /\ seen' = Append(seen, cursor) /\ over # Null /\ cursor # over
  BY DEF SweepKeeps, links
<1>2. seen \in Seq(Item) /\ C[over] \in Seq(Item)
  BY <1>1, SweepAt
<1>3. PICK k \in 1..Len(C[over]) :
        /\ cursor = C[over][k] /\ cursor = At(over, C[over], k)
        /\ before = seen \o Part(C[over], k)
  BY <1>1, SweepAt
<1>4. k \in 0..Len(C[over]) /\ k + 1 \in 1..(Len(C[over]) + 1)
  BY <1>2
<1>5. flink[cursor] = At(over, C[over], k + 1)
  BY <1>3, <1>4 DEF Holds, RingIn
<1>6. /\ Append(seen, cursor) \o Part(C[over], k + 1) = seen \o Part(C[over], k)
      /\ Append(seen, cursor) \in Seq(Item)
  BY <1>2, <1>3, PartSteps
<1>. QED
  BY <1>1, <1>3, <1>4, <1>5, <1>6 DEF Placed

(* An item that goes is passed too: the next one moves into its place. *)
LEMMA SweepRemovesHolds ==
  ASSUME LinkTypes, NEW C \in Held, Holds(flink, blink, C), Placed(C),
         NEW l \in List, over = l,
         SweepRemoves
  PROVE  \E k \in 1..Len(C[l]) :
           /\ cursor = C[l][k]
           /\ [C EXCEPT ![l] = Removed(C[l], k)] \in Held
           /\ Holds(flink', blink', [C EXCEPT ![l] = Removed(C[l], k)])
           /\ Placed([C EXCEPT ![l] = Removed(C[l], k)])'
<1>1. /\ RemoveEntry(cursor) /\ over' = over /\ cursor' = flink[cursor]
      /\ before' = before /\ seen' = Append(seen, cursor) /\ over # Null /\ cursor # over
  BY DEF SweepRemoves
<1>2. seen \in Seq(Item) /\ C[l] \in Seq(Item)
  BY <1>1, SweepAt
<1>3. PICK k \in 1..Len(C[l]) :
        /\ cursor = C[l][k] /\ cursor = At(l, C[l], k)
        /\ before = seen \o Part(C[l], k)
  BY <1>1, SweepAt
<1>4. k \in 0..Len(C[l]) /\ k \in k..Len(C[l]) /\ Len(C[l]) \in Nat
  BY <1>2
<1>5. flink[cursor] = At(l, C[l], k + 1)
  BY <1>3, <1>4 DEF Holds, RingIn
<1>6. /\ Append(seen, cursor) \o Part(C[l], k + 1) = seen \o Part(C[l], k)
      /\ Part(Removed(C[l], k), k) = Part(C[l], k + 1)
      /\ Append(seen, cursor) \in Seq(Item)
  BY <1>2, <1>3, PartSteps
<1>. DEFINE D == [C EXCEPT ![l] = Removed(C[l], k)]
<1>7. RemoveEntry(C[l][k])
  BY <1>1, <1>3
<1>8. D \in Held /\ Holds(flink', blink', D)
  BY <1>7, RemoveHolds
<1>9. D[l] = Removed(C[l], k)
  BY DEF Held
<1>10. /\ At(l, Removed(C[l], k), k) = At(l, C[l], k + 1)
       /\ Len(Removed(C[l], k)) = Len(C[l]) - 1
  BY <1>2, <1>4, AtRemoved
<1>11. k \in 1..((Len(C[l]) - 1) + 1)
  BY <1>4
<1>. HIDE DEF D
<1>12. Placed(D)'
  BY <1>1, <1>3, <1>5, <1>6, <1>9, <1>10, <1>11, ListAssumption DEF Placed
<1>. QED
  BY <1>3, <1>8, <1>12 DEF D

(* Every step keeps lists that hold sequences, and a sweep at its place. *)
LEMMA SeqInvStep == SeqInv /\ [Next]_vars => SequencesAreHeld'
<1>. SUFFICES ASSUME SeqInv, [Next]_vars PROVE SequencesAreHeld'
  OBVIOUS
<1>. USE ListAssumption
<1>0. LinkTypes /\ over \in List \cup {Null}
  BY DEF SeqInv, ListInv, RingInv
<1>1. PICK C \in Held : Holds(flink, blink, C) /\ Placed(C)
  BY DEF SeqInv, SequencesAreHeld
<1>2. ASSUME Idle, \E D \in Held : Holds(flink', blink', D) PROVE SequencesAreHeld'
  BY <1>2 DEF Idle, sweep, SequencesAreHeld, Placed
<1>3. ASSUME NEW i \in Item, ItemStep(i) PROVE SequencesAreHeld'
  <2>1. Idle
    BY <1>3 DEF ItemStep, Construct, remove, push_front, push_back, insert
  <2>2. \E D \in Held : Holds(flink', blink', D)
    BY <1>0, <1>1, <1>3, ItemStepHolds
  <2>. QED
    BY <1>2, <2>1, <2>2
<1>4. ASSUME NEW l \in List, ListStep(l) PROVE SequencesAreHeld'
  <2>1. CASE pop_front(l) \/ pop_back(l)
    <3>1. Idle
      BY <2>1 DEF pop_front, pop_back
    <3>2. \E D \in Held : Holds(flink', blink', D)
      BY <1>0, <1>1, <2>1, PopHolds
    <3>. QED
      BY <1>2, <3>1, <3>2
  <2>2. CASE SweepBegins(l)
    BY <1>1, <2>2, SweepBeginsPlaced DEF SequencesAreHeld
  <2>. QED
    BY <1>4, <2>1, <2>2 DEF ListStep
<1>5. CASE SweepKeeps
  <2>1. over \in List
    BY <1>0, <1>5 DEF SweepKeeps
  <2>. QED
    BY <1>1, <1>5, <2>1, SweepKeepsPlaced DEF SequencesAreHeld
<1>6. CASE SweepRemoves
  <2>1. over \in List
    BY <1>0, <1>6 DEF SweepRemoves
  <2>. QED
    <3>1. PICK l \in List : l = over
      BY <2>1
    <3>2. PICK k \in 1..Len(C[l]) :
            /\ [C EXCEPT ![l] = Removed(C[l], k)] \in Held
            /\ Holds(flink', blink', [C EXCEPT ![l] = Removed(C[l], k)])
            /\ Placed([C EXCEPT ![l] = Removed(C[l], k)])'
      BY <1>0, <1>1, <1>6, <3>1, SweepRemovesHolds
    <3>. QED
      BY <3>2 DEF SequencesAreHeld
<1>7. CASE SweepEnds
  BY <1>1, <1>7 DEF SweepEnds, links, SequencesAreHeld, Placed
<1>8. CASE UNCHANGED vars
  BY <1>1, <1>8 DEF vars, links, sweep, SequencesAreHeld, Placed
<1>. QED
  BY <1>3, <1>4, <1>5, <1>6, <1>7, <1>8 DEF Next

(* In every state each list holds a sequence, an item has one place in one of *)
(* them, and a sweep has seen what is before its place.                       *)
THEOREM SequencesInvariant == Spec => []SeqInv
<1>1. Spec => []ListInv
  BY ListInvariant
<1>2. Init => SequencesAreHeld
  BY InitSeq DEF SeqInv
<1>3. ListInv /\ SequencesAreHeld /\ [Next]_vars => SequencesAreHeld'
  BY SeqInvStep DEF SeqInv
<1>4. SeqInv <=> ListInv /\ SequencesAreHeld
  BY DEF SeqInv
<1>. QED
  BY <1>1, <1>2, <1>3, <1>4, PTL DEF Spec

--------------------------------------------------------------------------------
(* However many items FlushProviders' loop removes from the list it iterates  *)
(* over, it looks at every item that was in it when it began, once and in     *)
(* order (ndfrmwrk.cpp:888-906).                                              *)
THEOREM SweepSeesEveryItem == Spec => []SweepSeesAll
<1>1. SeqInv => SweepSeesAll
  <2>. SUFFICES ASSUME SeqInv, over # Null PROVE seen \o From(cursor) = before
    BY DEF SweepSeesAll
  <2>1. over \in List
    BY DEF SeqInv, ListInv
  <2>2. PICK C \in Held : Holds(flink, blink, C) /\ Placed(C)
    BY DEF SeqInv, SequencesAreHeld
  <2>3. PICK k \in 1..(Len(C[over]) + 1) :
          cursor = At(over, C[over], k) /\ before = seen \o Part(C[over], k)
    BY <2>2 DEF Placed
  <2>4. WalkOf(flink, At(over, C[over], k)) = Part(C[over], k)
    BY <2>1, <2>2, WalkSeesPart
  <2>. QED
    BY <2>3, <2>4, FromIsWalk
<1>. QED
  BY <1>1, SequencesInvariant, PTL

(* No item is in two lists or twice in one, and every linked item is in one:  *)
(* the destructors that delete the items of their lists free nothing twice    *)
(* and leave nothing behind (ndfrmwrk.cpp:52-73).                             *)
THEOREM ListsStayDisjoint == Spec => []ListsAreDisjoint
<1>1. SeqInv => ListsAreDisjoint
  <2>. SUFFICES ASSUME SeqInv PROVE ListsAreDisjoint
    OBVIOUS
  <2>1. PICK C \in Held : Holds(flink, blink, C)
    BY DEF SeqInv, SequencesAreHeld
  <2>2. \A l \in List : Contents(l) = C[l]
    BY <2>1, ContentsAre
  <2>3. \A l \in List : C[l] \in Seq(Item) /\ Len(C[l]) \in Nat /\ DOMAIN C[l] = 1..Len(C[l])
    BY LenIsNat DEF Held
  <2>4. ASSUME NEW l \in List, NEW m \in List, NEW j \in DOMAIN C[l], NEW k \in DOMAIN C[m],
               C[l][j] = C[m][k]
        PROVE  l = m /\ j = k
    BY <2>1, <2>3, <2>4 DEF Holds, OnePlaceIn
  <2>5. ASSUME NEW i \in Item \cap Linked
        PROVE  \E l \in List, k \in 1..Cardinality(Item) : k \in DOMAIN C[l] /\ C[l][k] = i
    <3>1. OccursIn(C, i)
      BY <2>1, ListAssumption DEF Holds, Linked
    <3>2. PICK l \in List : \E k \in 1..Len(C[l]) : C[l][k] = i
      BY <3>1 DEF OccursIn
    <3>3. PICK k \in 1..Len(C[l]) : C[l][k] = i
      BY <3>2
    <3>4. Len(C[l]) <= Cardinality(Item) /\ Cardinality(Item) \in Nat
      BY <2>1, ListIsShort DEF Holds
    <3>5. k \in 1..Cardinality(Item) /\ k \in DOMAIN C[l]
      BY <2>3, <3>4
    <3>. QED
      BY <3>3, <3>5
  <2>. QED
    BY <2>2, <2>4, <2>5 DEF ListsAreDisjoint
<1>. QED
  BY <1>1, SequencesInvariant, PTL

(* The item that is at place k is taken out of the sequence it is in, and of  *)
(* no other.                                                                 *)
LEMMA TakenOutOfOne ==
  ASSUME NEW C \in Held, OnePlaceIn(C), NEW l \in List, NEW k \in 1..Len(C[l]), NEW m \in List,
         NEW i, i = C[l][k]
  PROVE  TakenOut(C[m], IF m = l THEN Removed(C[l], k) ELSE C[m], i)
<1>1. \A p \in List : C[p] \in Seq(Item) /\ DOMAIN C[p] = 1..Len(C[p])
  BY LenIsNat DEF Held
<1>2. CASE m = l
  <2>1. Removed(C[l], k) = RemoveAt(C[l], k)
    BY <1>1, RemovedIs
  <2>2. k \in DOMAIN C[l] /\ i \in ToSet(C[l])
    BY <1>1 DEF ToSet
  <2>. HIDE DEF RemoveAt
  <2>. QED
    BY <1>2, <2>1, <2>2 DEF TakenOut
<1>3. CASE m # l
  <2>1. i \notin ToSet(C[m])
    BY <1>1, <1>3 DEF ToSet, OnePlaceIn
  <2>. QED
    BY <1>3, <2>1 DEF TakenOut
<1>. QED
  BY <1>2, <1>3

(* An item is put before the item that has place k + 1, in its list only. *)
LEMMA PutBeforeOne ==
  ASSUME NEW C \in Held, OnePlaceIn(C), NEW l \in List, NEW k \in 0..Len(C[l]),
         k + 1 \in 1..Len(C[l]), NEW m \in List, NEW j, j = C[l][k + 1], NEW i \in Item
  PROVE  PutBefore(C[m], IF m = l THEN Inserted(C[l], k, i) ELSE C[m], j, i)
<1>1. \A p \in List : C[p] \in Seq(Item) /\ DOMAIN C[p] = 1..Len(C[p])
  BY LenIsNat DEF Held
<1>2. CASE m = l
  <2>1. Inserted(C[l], (k + 1) - 1, i) = InsertAt(C[l], k + 1, i)
    BY <1>1, InsertedIs
  <2>2. (k + 1) - 1 = k
    OBVIOUS
  <2>3. k + 1 \in DOMAIN C[l] /\ j \in ToSet(C[l])
    BY <1>1 DEF ToSet
  <2>. QED
    BY <1>2, <2>1, <2>2, <2>3 DEF PutBefore
<1>3. CASE m # l
  <2>1. j \notin ToSet(C[m])
    BY <1>1, <1>3 DEF ToSet, OnePlaceIn
  <2>. QED
    BY <1>3, <2>1 DEF PutBefore
<1>. QED
  BY <1>2, <1>3

(* Where the lists hold sequences, each operation acts as on a sequence. *)
LEMMA ActsHold == SeqInv => Acts
<1>. SUFFICES ASSUME SeqInv PROVE Acts
  OBVIOUS
<1>. USE ListAssumption
<1>0. LinkTypes /\ over \in List \cup {Null}
  BY DEF SeqInv, ListInv, RingInv
<1>1. PICK C \in Held : Holds(flink, blink, C) /\ Placed(C)
  BY DEF SeqInv, SequencesAreHeld
<1>2. \A l \in List : Contents(l) = C[l]
  BY <1>1, ContentsAre
<1>3. \A l \in List : C[l] \in Seq(Item) /\ Len(C[l]) \in Nat
  BY LenIsNat DEF Held
<1>o. OnePlaceIn(C)
  BY <1>1 DEF Holds
<1>4. ASSUME NEW l \in List, NEW i \in Item, push_front(l, i)
      PROVE  Becomes(l, <<i>> \o Contents(l))
  <2>1. 0 \in 0..Len(C[l]) /\ l = At(l, C[l], 0)
    BY <1>3 DEF At
  <2>2. Fresh(i) /\ InsertAfter(At(l, C[l], 0), i)
    BY <1>4, <2>1 DEF push_front
  <2>3. /\ [C EXCEPT ![l] = Inserted(C[l], 0, i)] \in Held
        /\ Holds(flink', blink', [C EXCEPT ![l] = Inserted(C[l], 0, i)])
    BY <1>0, <1>1, <2>1, <2>2, InsertHolds
  <2>4. Becomes(l, Inserted(C[l], 0, i))
    BY <1>1, <2>3, ContentsBecome
  <2>5. Inserted(C[l], 0, i) = <<i>> \o C[l]
    BY <1>3, InsertedIs
  <2>. QED
    BY <1>2, <2>4, <2>5
<1>5. ASSUME NEW l \in List, NEW i \in Item, push_back(l, i) \/ insert(l, i)
      PROVE  Becomes(l, Append(Contents(l), i))
  <2>1. Len(C[l]) \in 0..Len(C[l]) /\ l = At(l, C[l], Len(C[l]) + 1)
    BY <1>3 DEF At
  <2>2. Fresh(i) /\ InsertBefore(At(l, C[l], Len(C[l]) + 1), i)
    BY <1>5, <2>1 DEF push_back, insert
  <2>3. /\ [C EXCEPT ![l] = Inserted(C[l], Len(C[l]), i)] \in Held
        /\ Holds(flink', blink', [C EXCEPT ![l] = Inserted(C[l], Len(C[l]), i)])
    BY <1>0, <1>1, <2>1, <2>2, InsertHolds
  <2>4. Becomes(l, Inserted(C[l], Len(C[l]), i))
    BY <1>1, <2>3, ContentsBecome
  <2>5. Inserted(C[l], Len(C[l]), i) = Append(C[l], i)
    BY <1>3, InsertedIs
  <2>. QED
    BY <1>2, <2>4, <2>5
<1>6. ASSUME NEW l \in List, pop_front(l)
      PROVE  Becomes(l, Tail(Contents(l)))
  <2>1. /\ 1 \in 1..Len(C[l])
        /\ [C EXCEPT ![l] = Removed(C[l], 1)] \in Held
        /\ Holds(flink', blink', [C EXCEPT ![l] = Removed(C[l], 1)])
    BY <1>0, <1>1, <1>6, PopHolds
  <2>2. Becomes(l, Removed(C[l], 1))
    BY <1>1, <2>1, ContentsBecome
  <2>3. Removed(C[l], 1) = Tail(C[l])
    BY <1>3, <2>1, RemovedIs
  <2>. QED
    BY <1>2, <2>2, <2>3
<1>7. ASSUME NEW l \in List, pop_back(l)
      PROVE  Becomes(l, SubSeq(Contents(l), 1, Len(Contents(l)) - 1))
  <2>1. /\ Len(C[l]) \in 1..Len(C[l])
        /\ [C EXCEPT ![l] = Removed(C[l], Len(C[l]))] \in Held
        /\ Holds(flink', blink', [C EXCEPT ![l] = Removed(C[l], Len(C[l]))])
    BY <1>0, <1>1, <1>7, PopHolds
  <2>2. Becomes(l, Removed(C[l], Len(C[l])))
    BY <1>1, <2>1, ContentsBecome
  <2>3. Removed(C[l], Len(C[l])) = SubSeq(C[l], 1, Len(C[l]) - 1)
    BY <1>3, <2>1, RemovedIs
  <2>. QED
    BY <1>2, <2>2, <2>3
<1>8. ASSUME NEW m \in List, NEW i \in Item, remove(i)
      PROVE  TakenOut(Contents(m), Contents(m)', i)
  <2>1. i \in Linked /\ RemoveEntry(i)
    BY <1>8 DEF remove
  <2>2. PICK l \in List : \E k \in 0..Len(C[l]) : k + 1 \in 1..Len(C[l]) /\ i = C[l][k + 1]
    BY <1>1, <2>1, LinkedHasPlace
  <2>3. PICK k \in 1..Len(C[l]) : i = C[l][k]
    BY <2>2
  <2>4. RemoveEntry(C[l][k])
    BY <2>1, <2>3
  <2>5. /\ [C EXCEPT ![l] = Removed(C[l], k)] \in Held
        /\ Holds(flink', blink', [C EXCEPT ![l] = Removed(C[l], k)])
    BY <1>0, <1>1, <2>4, RemoveHolds
  <2>6. Contents(m)' = IF m = l THEN Removed(C[l], k) ELSE C[m]
    BY <1>1, <2>5, ContentsBecome
  <2>7. TakenOut(C[m], IF m = l THEN Removed(C[l], k) ELSE C[m], i)
    BY <1>o, <2>3, TakenOutOfOne
  <2>. QED
    BY <1>2, <2>6, <2>7
<1>9. ASSUME NEW m \in List, SweepRemoves
      PROVE  TakenOut(Contents(m), Contents(m)', cursor)
  <2>1. PICK l \in List : over = l
    BY <1>0, <1>9 DEF SweepRemoves
  <2>2. PICK k \in 1..Len(C[l]) :
          /\ cursor = C[l][k]
          /\ [C EXCEPT ![l] = Removed(C[l], k)] \in Held
          /\ Holds(flink', blink', [C EXCEPT ![l] = Removed(C[l], k)])
    BY <1>0, <1>1, <1>9, <2>1, SweepRemovesHolds
  <2>3. Contents(m)' = IF m = l THEN Removed(C[l], k) ELSE C[m]
    BY <1>1, <2>2, ContentsBecome
  <2>4. TakenOut(C[m], IF m = l THEN Removed(C[l], k) ELSE C[m], cursor)
    BY <1>o, <2>2, TakenOutOfOne
  <2>. QED
    BY <1>2, <2>3, <2>4
<1>10. ASSUME NEW m \in List, NEW i \in Item, NEW j \in Item, insert(j, i)
       PROVE  PutBefore(Contents(m), Contents(m)', j, i)
  <2>1. j \in Linked /\ Fresh(i) /\ InsertBefore(j, i)
    BY <1>10 DEF insert
  <2>2. PICK l \in List :
          \E k \in 0..Len(C[l]) :
            j = At(l, C[l], k + 1) /\ k + 1 \in 1..Len(C[l]) /\ j = C[l][k + 1]
    BY <1>1, <2>1, LinkedHasPlace
  <2>3. PICK k \in 0..Len(C[l]) :
          j = At(l, C[l], k + 1) /\ k + 1 \in 1..Len(C[l]) /\ j = C[l][k + 1]
    BY <2>2
  <2>4. InsertBefore(At(l, C[l], k + 1), i)
    BY <2>1, <2>3
  <2>5. /\ [C EXCEPT ![l] = Inserted(C[l], k, i)] \in Held
        /\ Holds(flink', blink', [C EXCEPT ![l] = Inserted(C[l], k, i)])
    BY <1>0, <1>1, <2>1, <2>4, InsertHolds
  <2>6. Contents(m)' = IF m = l THEN Inserted(C[l], k, i) ELSE C[m]
    BY <1>1, <2>5, ContentsBecome
  <2>7. PutBefore(C[m], IF m = l THEN Inserted(C[l], k, i) ELSE C[m], j, i)
    BY <1>o, <2>3, PutBeforeOne
  <2>. QED
    BY <1>2, <2>6, <2>7
<1>. QED
  BY <1>4, <1>5, <1>6, <1>7, <1>8, <1>9, <1>10 DEF Acts

(* Every operation of list.h does to one list what its name says of a         *)
(* sequence, and nothing to the others (list.h:272-332).                      *)
THEOREM ListsActAsSequences == Spec => ActsAsSequences
<1>1. SeqInv => Acts
  BY ActsHold
<1>. QED
  BY <1>1, SequencesInvariant, PTL DEF ActsAsSequences
================================================================================
