----------------------------- MODULE IntrusiveList -----------------------------
(****************************************************************************)
(* The list the framework keeps its providers and addresses in:             *)
(* network-direct/list.h, List and List::iterator.                          *)
(*                                                                          *)
(* The links are inside the items, and a list is a ring through its head.   *)
(* An item does not know which list it is in, and remove does not ask.  The *)
(* framework uses a list under m_lock; one use is a sweep, the loop of      *)
(* FlushProviders, which removes items from the list it iterates over.      *)
(****************************************************************************)
EXTENDS Naturals, Sequences, FiniteSets, SequencesExt

CONSTANTS
  List,    \* the lists, and their heads (m_head)
  Item,    \* providers or addresses, and the links in them (m_link)
  Null     \* nullptr; also: no list

ASSUME ListAssumption ==
  /\ List \cap Item = {}
  /\ Null \notin List \cup Item
  /\ IsFiniteSet(Item)

VARIABLES
  flink,   \* Flink of every entry
  blink,   \* Blink of every entry
  over,    \* the list swept, Null for none
  cursor,  \* the entry the sweep's iterator stands on
  before,  \* history: what was in that list when the sweep began
  seen     \* history: the items the sweep has looked at

links == <<flink, blink>>
sweep == <<over, cursor, before, seen>>
vars == <<links, sweep>>

Entry == List \cup Item

(* The entries of the rings.  An item that was just constructed points at  *)
(* itself, one that was removed at nothing.                                 *)
Linked == List \cup {i \in Item : flink[i] \notin {i, Null}}

(* A turn of the loop that iterates from an entry to end(), which is a head. *)
LookAt(w) ==
  IF w.at \notin Item THEN w ELSE [at |-> flink[w.at], out |-> Append(w.out, w.at)]

(* What that loop sees from entry e on. *)
From(e) ==
  LET walk[n \in 0..Cardinality(Item)] ==
        IF n = 0 THEN [at |-> e, out |-> <<>>] ELSE LookAt(walk[n - 1])
  IN  walk[Cardinality(Item)].out

Contents(l) == From(flink[l])

Init ==
  /\ flink = [e \in Entry |-> e]
  /\ blink = [e \in Entry |-> e]
  /\ over = Null
  /\ cursor = Null
  /\ before = <<>>
  /\ seen = <<>>

--------------------------------------------------------------------------------
\* An InsertBefore that reads pNext->Blink after it was written.
InsertLate(next, e) ==
  /\ flink' = [flink EXCEPT ![e] = next]
  /\ blink' = [blink EXCEPT ![e] = blink[next], ![next] = e]

InsertBefore(next, e) ==
  /\ flink' = [flink EXCEPT ![e] = next, ![blink[next]] = e]
  /\ blink' = [blink EXCEPT ![e] = blink[next], ![next] = e]

\* An InsertAfter that inserts on the other side.
InsertAfterEnd(prev, e) ==
  /\ flink' = [flink EXCEPT ![e] = prev, ![blink[prev]] = e]
  /\ blink' = [blink EXCEPT ![e] = blink[prev], ![prev] = e]

InsertAfter(prev, e) ==
  /\ blink' = [blink EXCEPT ![e] = prev, ![flink[prev]] = e]
  /\ flink' = [flink EXCEPT ![e] = flink[prev], ![prev] = e]

RemoveEntry(e) ==
  /\ flink' = [flink EXCEPT ![blink[e]] = flink[e], ![e] = Null]
  /\ blink' = [blink EXCEPT ![flink[e]] = blink[e], ![e] = Null]

(* The lists are used under m_lock: nobody else while a sweep is on. *)
Idle == over = Null /\ UNCHANGED sweep

(* An item was constructed, and is in no list yet. *)
Fresh(i) == flink[i] = i

empty(l) == flink[l] = l

(* The constructors of Provider and Address, in memory that was given back. *)
Construct(i) ==
  /\ Idle
  /\ flink[i] = Null
  /\ flink' = [flink EXCEPT ![i] = i]
  /\ blink' = [blink EXCEPT ![i] = i]

push_front(l, i) == Idle /\ Fresh(i) /\ InsertAfter(l, i)

\* An item that is put into a list without being taken out of another.
PushLinked(l, i) == Idle /\ InsertBefore(l, i)

push_back(l, i) == Idle /\ Fresh(i) /\ InsertBefore(l, i)

pop_front(l) == Idle /\ ~empty(l) /\ RemoveEntry(flink[l])

pop_back(l) == Idle /\ ~empty(l) /\ RemoveEntry(blink[l])

(* insert before the entry an iterator stands on, end() included. *)
insert(e, i) == Idle /\ Fresh(i) /\ e \in Linked /\ InsertBefore(e, i)

remove(i) == Idle /\ i \in Linked /\ RemoveEntry(i)

--------------------------------------------------------------------------------
(* The loop of FlushProviders. *)

SweepBegins(l) ==
  /\ over = Null
  /\ over' = l
  /\ cursor' = flink[l]
  /\ before' = Contents(l)
  /\ seen' = <<>>
  /\ UNCHANGED links

(* The provider stays. *)
SweepKeeps ==
  /\ over # Null /\ cursor # over
  /\ cursor' = flink[cursor]
  /\ seen' = Append(seen, cursor)
  /\ UNCHANGED <<links, over, before>>

\* An iterator that is advanced in the body of the loop and in its head.
SweepSkips ==
  /\ over # Null /\ cursor # over
  /\ cursor' = flink[flink[cursor]]
  /\ RemoveEntry(cursor)
  /\ seen' = Append(seen, cursor)
  /\ UNCHANGED <<over, before>>

(* The iterator is advanced and the provider removed; so does erase(). *)
SweepRemoves ==
  /\ over # Null /\ cursor # over
  /\ cursor' = flink[cursor]
  /\ RemoveEntry(cursor)
  /\ seen' = Append(seen, cursor)
  /\ UNCHANGED <<over, before>>

SweepEnds ==
  /\ over # Null /\ cursor = over
  /\ over' = Null
  /\ cursor' = Null
  /\ before' = <<>>
  /\ seen' = <<>>
  /\ UNCHANGED links

--------------------------------------------------------------------------------
ItemStep(i) ==
  \/ Construct(i)
  \/ remove(i)
  \/ \E l \in List : push_front(l, i) \/ push_back(l, i)
  \/ \E e \in Entry : insert(e, i)

ListStep(l) ==
  \/ pop_front(l)
  \/ pop_back(l)
  \/ SweepBegins(l)

Next ==
  \/ \E i \in Item : ItemStep(i)
  \/ \E l \in List : ListStep(l)
  \/ SweepKeeps
  \/ SweepRemoves
  \/ SweepEnds

Spec == Init /\ [][Next]_vars
--------------------------------------------------------------------------------
TypeOK ==
  /\ flink \in [Entry -> Entry \cup {Null}]
  /\ blink \in [Entry -> Entry \cup {Null}]
  /\ \A l \in List : flink[l] \in Entry /\ blink[l] \in Entry
  /\ over \in List \cup {Null}
  /\ over # Null => cursor \in Entry

(* Flink and Blink are inverse to each other all around the rings, no ring    *)
(* leads to an item that was removed or not added, and an item outside the   *)
(* rings does not point into one (list.h:201-231).                           *)
RingsAreClosed ==
  /\ \A e \in Linked :
       /\ flink[e] \in Linked /\ blink[flink[e]] = e
       /\ blink[e] \in Linked /\ flink[blink[e]] = e
  /\ \A i \in Item \ Linked : flink[i] = blink[i]

(* The iterator of a sweep stands on an entry of the rings: it is moved on    *)
(* before its item is removed and deleted (ndfrmwrk.cpp:891-904).            *)
SweepStands == over # Null => cursor \in Linked

(* A sweep looks at every item that was in the list when it began, once and   *)
(* in order, whichever of them it removes (ndfrmwrk.cpp:891-904).            *)
SweepSeesAll == over # Null => seen \o From(cursor) = before

(* An item is in at most one list, once, and in one if it is linked: deleting *)
(* every item of every list frees nothing twice (ndfrmwrk.cpp:52-73).        *)
ListsAreDisjoint ==
  /\ \A l \in List, m \in List, j, k \in 1..Cardinality(Item) :
       (/\ j \in DOMAIN Contents(l) /\ k \in DOMAIN Contents(m)
        /\ Contents(l)[j] = Contents(m)[k]) => l = m /\ j = k
  /\ \A i \in Item \cap Linked :
       \E l \in List, k \in 1..Cardinality(Item) :
         k \in DOMAIN Contents(l) /\ Contents(l)[k] = i

(* Afterwards list l is s and the other lists are as they were. *)
Becomes(l, s) ==
  \A m \in List : Contents(m)' = IF m = l THEN s ELSE Contents(m)

(* t is s without item i, or with i before item j; s itself if that is not in *)
(* it.                                                                       *)
TakenOut(s, t, i) ==
  IF i \in ToSet(s) THEN \E k \in DOMAIN s : s[k] = i /\ t = RemoveAt(s, k) ELSE t = s

PutBefore(s, t, j, i) ==
  IF j \in ToSet(s) THEN \E k \in DOMAIN s : s[k] = j /\ t = InsertAt(s, k, i) ELSE t = s

(* An operation does to one list what its name says of a sequence, and        *)
(* nothing to the others.                                                    *)
Acts ==
  /\ \A l \in List, i \in Item :
       /\ push_front(l, i) => Becomes(l, <<i>> \o Contents(l))
       /\ push_back(l, i) => Becomes(l, Append(Contents(l), i))
       /\ insert(l, i) => Becomes(l, Append(Contents(l), i))
  /\ \A l \in List :
       /\ pop_front(l) => Becomes(l, Tail(Contents(l)))
       /\ pop_back(l) => Becomes(l, SubSeq(Contents(l), 1, Len(Contents(l)) - 1))
  /\ \A m \in List :
       /\ \A i \in Item : remove(i) => TakenOut(Contents(m), Contents(m)', i)
       /\ SweepRemoves => TakenOut(Contents(m), Contents(m)', cursor)
       /\ \A i, j \in Item : insert(j, i) => PutBefore(Contents(m), Contents(m)', j, i)

(* What the operations promise, in every step (list.h:272-332).              *)
ActsAsSequences == [][Acts]_vars
================================================================================
