------------------------------ MODULE AddressLists ------------------------------
(****************************************************************************)
(* The address lists, their sizes and the lookups in them:                  *)
(* ProcessAddressChange, QueryAddressList, ResolveAddress, CheckAddress and *)
(* OpenAdapter of network-direct/ndfrmwrk.cpp, and class Address of         *)
(* ndaddr.cpp.                                                              *)
(*                                                                          *)
(* A rebuild asks one active provider after the other for its addresses,    *)
(* with one buffer and one length that go from provider to provider.  A     *)
(* provider may get or lose an address at any moment, also between the two  *)
(* questions to it.  Users ask the                                          *)
(* framework for the lists with buffers of their own, in the same way, and  *)
(* look addresses up in them.  All hold m_lock, so a user asks only between *)
(* two rebuilds; a question of a user changes nothing and is an operator.   *)
(****************************************************************************)
EXTENDS Integers, Sequences, FiniteSets, SequencesExt

CONSTANTS
  N,           \* active providers; 1..N is their order in m_ProviderList
  V1,          \* those of version ND_VERSION_1
  V4, V6,      \* addresses of families AF_INET and AF_INET6, without port and scope
  Other,       \* addresses of other families
  Dword,       \* how many values a DWORD has; sizes are wider
  Faults       \* may an allocation or a provider fail?

ASSUME AddressAssumption ==
  /\ N \in Nat \ {0}
  /\ V1 \subseteq 1..N
  /\ IsFiniteSet(V4) /\ IsFiniteSet(V6) /\ IsFiniteSet(Other)
  /\ V4 \cap V6 = {} /\ (V4 \cup V6) \cap Other = {}
  /\ Dword \in Nat /\ Dword > 28
  /\ Faults \in BOOLEAN

Prov == 1..N
Addr == V4 \cup V6 \cup Other

VARIABLES
  has,    \* the addresses each provider has
  turn,   \* the provider asked in a rebuild, 0 between two rebuilds
  again,  \* is it asked a second time
  cap,    \* bytes allocated for pAddrList, 0 for nullptr
  len,    \* len, as the next question names it
  v2,     \* m_NdAddrList: pairs of an address and its provider
  v1,     \* m_NdV1AddrList
  amiss,     \* history: the providers that changed since they were asked, or failed
  outgrown   \* history: len is left from a provider whose second answer was overflow

turnVars == <<turn, again, cap, len, outgrown>>
lists == <<v2, v1>>
vars == <<has, turnVars, lists, amiss>>

Init ==
  /\ has \in [Prov -> SUBSET Addr]
  /\ turn = 0 /\ again = FALSE /\ cap = 0 /\ len = 0
  /\ v2 = <<>> /\ v1 = <<>>
  /\ amiss = Prov /\ outgrown = FALSE

--------------------------------------------------------------------------------
(* Sizes in bytes: SOCKET_ADDRESS_LIST without its entry, SOCKET_ADDRESS, and *)
(* the socket addresses.                                                      *)
Header == 8
Entry == 16
SizeOf(a) == IF a \in V6 THEN 28 ELSE 16

(* What a provider needs for its list. *)
Needs(p) ==
  Header + (Entry + 16) * Cardinality(has[p] \ V6)
         + (Entry + 28) * Cardinality(has[p] \cap V6)

(* An address comes or goes: too late for the list of this rebuild, if the *)
(* provider was asked already or knows the length it will be asked with.   *)
AddressChanges(p) ==
  /\ \E a \in Addr :
       has' = [has EXCEPT ![p] = IF a \in @ THEN @ \ {a} ELSE @ \cup {a}]
  /\ amiss' = IF turn = 0 \/ p < turn \/ (p = turn /\ again) THEN amiss \cup {p} ELSE amiss
  /\ UNCHANGED <<turnVars, lists>>

(* ProcessAddressChange begins: the lists are emptied, nothing is allocated. *)
BeginRebuild ==
  /\ turn = 0
  /\ turn' = 1
  /\ v2' = <<>> /\ v1' = <<>>
  /\ amiss' = {}
  /\ UNCHANGED <<has, again, cap, len, outgrown>>

(* Addresses of a provider are added to the list of its version. *)
PushBack(p, addresses) ==
  LET taken == SetToSeq(addresses \X {p})
  IN  IF p \in V1 THEN v1' = v1 \o taken /\ UNCHANGED v2
                  ELSE v2' = v2 \o taken /\ UNCHANGED v1

\* A BuildAddressList that leaves the families to its users.
BuildAll(p) == PushBack(p, has[p]) /\ UNCHANGED amiss

(* IPv4 and IPv6 addresses only. *)
Handled(p) == has[p] \cap (V4 \cup V6)

(* What the provider wrote is added, those addresses that there is memory for. *)
BuildAddressList(p) ==
  \E kept \in SUBSET Handled(p) :
    /\ kept = Handled(p) \/ Faults
    /\ PushBack(p, kept)
    /\ amiss' = IF kept = Handled(p) THEN amiss ELSE amiss \cup {p}

(* The next provider, with the buffer there is now; after the last it is *)
(* freed.                                                                 *)
NextTurn(c, l, o) ==
  /\ turn' = IF turn = N THEN 0 ELSE turn + 1
  /\ again' = FALSE
  /\ cap' = IF turn = N THEN 0 ELSE c
  /\ len' = IF turn = N THEN 0 ELSE l
  /\ outgrown' = (turn # N /\ o)

(* QueryAddressList of a provider compares with what it is told, not with    *)
(* what was allocated.                                                       *)
Fits(p) == cap # 0 /\ Needs(p) <= len

(* The addresses fit; len becomes what was used. *)
QueryTaken(p) ==
  /\ turn = p
  /\ Fits(p)
  /\ BuildAddressList(p)
  /\ NextTurn(cap, Needs(p), outgrown)
  /\ UNCHANGED has

(* An address cannot be allocated and operator new throws: ProcessAddressChange *)
(* is left as it is, the providers that come after are not asked, and nobody   *)
(* frees the buffer.                                                           *)
BuildThrows(p) ==
  /\ Faults
  /\ turn = p
  /\ Fits(p)
  /\ \E kept \in SUBSET Handled(p) : kept # Handled(p) /\ PushBack(p, kept)
  /\ turn' = 0 /\ again' = FALSE
  /\ cap' = 0 /\ len' = 0 /\ outgrown' = FALSE
  /\ amiss' = amiss \cup p..N
  /\ UNCHANGED has

\* A rebuild that keeps the old buffer when there is no memory for a new one.
KeepOnFailure(p) ==
  /\ turn = p /\ ~again
  /\ ~Fits(p)
  /\ \/ /\ again' = TRUE
        /\ cap' = Needs(p) /\ len' = Needs(p) /\ outgrown' = FALSE
        /\ UNCHANGED <<turn, amiss>>
     \/ Faults /\ NextTurn(cap, Needs(p), outgrown) /\ amiss' = amiss \cup {p}
  /\ UNCHANGED <<has, lists>>

(* ND_BUFFER_OVERFLOW: the buffer is replaced by one of the size told and the *)
(* provider asked again; without memory for it the next one is asked.        *)
QueryOverflows(p) ==
  /\ turn = p /\ ~again
  /\ ~Fits(p)
  /\ \/ /\ again' = TRUE
        /\ cap' = Needs(p) /\ len' = Needs(p) /\ outgrown' = FALSE
        /\ UNCHANGED <<turn, amiss>>
     \/ Faults /\ NextTurn(0, Needs(p), FALSE) /\ amiss' = amiss \cup {p}
  /\ UNCHANGED <<has, lists>>

(* The second answer is ND_BUFFER_OVERFLOW too: the provider is left out, the *)
(* buffer stays, and len is what the provider would need.                    *)
QueryOutgrown(p) ==
  /\ turn = p /\ again
  /\ ~Fits(p)
  /\ NextTurn(cap, Needs(p), TRUE)
  /\ UNCHANGED <<has, lists, amiss>>

(* Another error: the provider is left out. *)
QueryFails(p) ==
  /\ Faults
  /\ turn = p
  /\ NextTurn(cap, len, outgrown)
  /\ amiss' = amiss \cup {p}
  /\ UNCHANGED <<has, lists>>

--------------------------------------------------------------------------------
(* A user's query, between two rebuilds. *)

Selected(versions) ==
  (IF 2 \in versions THEN v2 ELSE <<>>) \o (IF 1 \in versions THEN v1 ELSE <<>>)

(* CountAddresses *)
Count(list, family) == Cardinality({k \in DOMAIN list : list[k][1] \in family})
Total(list) == Count(list, V4) + Count(list, V6)

\* A size that counts every address as an IPv4 one.
ShortSize(list) ==
  Header + (Entry + 16) * Total(list)

RequiredSize(list) ==
  Header + Entry * Total(list) + 16 * Count(list, V4) + 28 * Count(list, V6)

(* CopyAddressList: an address that CopySockaddr has no room for is left out. *)
CopyOne(s, a) ==
  IF SizeOf(a) > s.room THEN s
  ELSE [room |-> s.room - SizeOf(a), out |-> Append(s.out, a)]

Copied(list, room) ==
  LET copy[k \in 0..Len(list)] ==
        IF k = 0 THEN [room |-> room, out |-> <<>>] ELSE CopyOne(copy[k - 1], list[k][1])
  IN  copy[Len(list)].out

(* QueryAddressList of the framework, for the versions not excluded by flags, *)
(* with a buffer of given bytes; none for 0.  told is *pcbAddressList after   *)
(* it, which success leaves as it was.                                        *)
QueryAddressList(versions, given) ==
  LET list == Selected(versions)
  IN  IF Total(list) = 0
        THEN [hr |-> "success", told |-> 0, got |-> <<>>]
      ELSE IF RequiredSize(list) > given
        THEN [hr |-> "overflow", told |-> RequiredSize(list), got |-> <<>>]
      ELSE [hr |-> "success", told |-> given,
            got |-> Copied(list, given - Header - Entry * Total(list))]

(* Address::Matches of an entry.  The bytes compared are those of the family *)
(* asked for: in an entry of the other family they are the flow information, *)
(* or what the constructor left unwritten.  like has the entries in which    *)
(* they happen to be those of the address.                                   *)
Family(a) == IF a \in V4 THEN V4 ELSE IF a \in V6 THEN V6 ELSE {}
Matches(entry, a, like) ==
  \/ entry[1] = a
  \/ Family(a) # {} /\ entry[1] \notin Family(a) /\ entry \in like

(* Where the list has it. *)
Find(list, a, like) == {k \in DOMAIN list : Matches(list[k], a, like)}

(* sizeof(struct sockaddr) is that of an IPv4 address. *)
ValidateAddress(a, cb) ==
  IF cb < 16 \/ cb > Dword - 1 \/ (a \in V6 /\ cb < 28) THEN "parameter"
  ELSE IF a \in Other THEN "invalid" ELSE "success"

CheckAddress(a, cb, like) ==
  IF ValidateAddress(a, cb) # "success" THEN ValidateAddress(a, cb)
  ELSE IF Find(v2 \o v1, a, like) = {} THEN "invalid" ELSE "success"

First(positions) == CHOOSE k \in positions : \A j \in positions : k <= j
Latest(positions) == CHOOSE k \in positions : \A j \in positions : j <= k

ListOf(version) == IF version = 1 THEN v1 ELSE v2

\* An OpenAdapter that asks the first provider found and no other.
OpenFirst(version, a, cb, answers, like) ==
  LET list == ListOf(version)
      found == Find(list, a, like)
      asked == list[First(found)][2]
  IN  IF ValidateAddress(a, cb) # "success"
        THEN [hr |-> ValidateAddress(a, cb), by |-> 0]
      ELSE IF found = {} THEN [hr |-> "invalid", by |-> 0]
      ELSE [hr |-> answers[asked], by |-> asked]

(* The providers listed with the address in the list of the version asked for *)
(* are tried one after the other until one succeeds.  The last answer is the  *)
(* user's, and a provider that refuses may say ND_INVALID_ADDRESS as the      *)
(* framework does that finds none.                                            *)
OpenAdapter(version, a, cb, answers, like) ==
  LET list == ListOf(version)
      found == Find(list, a, like)
      able == {k \in found : answers[list[k][2]] = "success"}
      asked == list[IF able = {} THEN Latest(found) ELSE First(able)][2]
  IN  IF ValidateAddress(a, cb) # "success"
        THEN [hr |-> ValidateAddress(a, cb), by |-> 0]
      ELSE IF found = {} THEN [hr |-> "invalid", by |-> 0]
      ELSE [hr |-> answers[asked], by |-> asked]

\* A ResolveAddress that passes the size on as it is.
Uncapped(given) == given

(* "Cap to max DWORD value". *)
Capped(given) == IF given > Dword - 1 THEN Dword - 1 ELSE given

(* WSAIoctl names the local address a, or fails.  It takes the size as a      *)
(* DWORD and writes one, the size of a, over the lower half of                *)
(* *pcbLocalAddress.  A fault of another buffer writes nothing.               *)
Failures == [invalid |-> "invalid", unreachable |-> "unreachable", down |-> "unreachable",
             fault |-> "unsuccessful", other |-> "unsuccessful"]
Outcome == {"answers"} \cup DOMAIN Failures

ResolveAddress(a, given, outcome, like) ==
  LET size == Capped(given)
      told == size - (size % Dword) + SizeOf(a)
  IN  IF outcome # "answers" THEN [hr |-> Failures[outcome], told |-> size]
      ELSE IF SizeOf(a) > size % Dword
        THEN [hr |-> IF size < told THEN "overflow" ELSE "unsuccessful", told |-> told]
      ELSE [hr |-> IF Find(v2 \o v1, a, like) = {} THEN "invalid" ELSE "success",
            told |-> told]

--------------------------------------------------------------------------------
AskStep(p) ==
  \/ QueryTaken(p)
  \/ BuildThrows(p)
  \/ QueryOverflows(p)
  \/ QueryOutgrown(p)
  \/ QueryFails(p)

Next ==
  \/ BeginRebuild
  \/ \E p \in Prov : AddressChanges(p) \/ AskStep(p)

Spec == Init /\ [][Next]_vars
--------------------------------------------------------------------------------
(* An address is listed under a provider of the version of its list, and is *)
(* of one of the two families (ndfrmwrk.cpp:545-566).                       *)
TypeOK ==
  /\ has \in [Prov -> SUBSET Addr]
  /\ turn \in 0..N
  /\ again \in BOOLEAN
  /\ cap \in Nat /\ len \in Nat
  /\ v2 \in Seq((V4 \cup V6) \X (Prov \ V1))
  /\ v1 \in Seq((V4 \cup V6) \X V1)
  /\ amiss \in SUBSET Prov
  /\ outgrown \in BOOLEAN

(* A provider is told of more room than was allocated only while the length   *)
(* is left from one that needed more in its second answer than in its first:  *)
(* no failed allocation, failed provider or list that is shorter leaves more. *)
(* The annotation of QueryAddressList says of its buffer a capacity of        *)
(* *pcbAddressList bytes (ndprov.h:60, ndfrmwrk.cpp:844-861).                 *)
RoomIsReal == cap # 0 /\ ~outgrown => len <= cap

(* What the annotation says: the room is real without exception.              *)
RoomIsAlwaysReal == cap # 0 => len <= cap

(* After a rebuild every provider that has not changed or failed is listed    *)
(* with all its IPv4 and IPv6 addresses, in the list of its version, and no   *)
(* address twice: one buffer and one length serve them all, and what a change *)
(* or a failure of one provider costs is no other one's addresses, unless     *)
(* operator new throws (ndfrmwrk.cpp:832-879).                                *)
RebuildIsComplete ==
  turn = 0 =>
    /\ IsInjective(v2 \o v1)
    /\ \A p \in Prov \ amiss :
         /\ {x \in ToSet(v2 \o v1) : x[2] = p} = (has[p] \ Other) \X {p}
         /\ {x \in ToSet(IF p \in V1 THEN v2 ELSE v1) : x[2] = p} = {}

(* The bytes of a list that is written out one address after the other. *)
WrittenOut(list) ==
  LET upto[k \in 0..Len(list)] ==
        IF k = 0 THEN Header ELSE upto[k - 1] + Entry + SizeOf(list[k][1])
  IN  upto[Len(list)]

(* With a buffer of given bytes a user gets all addresses selected, in order  *)
(* and within the buffer, or none and a larger size, and a buffer of that     *)
(* size is enough.                                                           *)
AnsweredWhole(versions, given) ==
  LET list == Selected(versions)
      all == [k \in DOMAIN list |-> list[k][1]]
      answer == QueryAddressList(versions, given)
  IN  IF answer.hr = "success"
        THEN answer.got = all /\ (list = <<>> \/ WrittenOut(list) <= given)
        ELSE given < answer.told /\ QueryAddressList(versions, answer.told).got = all

(* Every question is answered whole: the size counted and the bytes copied    *)
(* agree for every mix of families.  Sizes that differ from the one used by   *)
(* less than an address are the ones to look at (ndfrmwrk.cpp:226-253,        *)
(* 501-606, ndaddr.cpp:58-83).                                               *)
AnswerIsWhole ==
  turn = 0 =>
    \A versions \in SUBSET {1, 2} :
      LET used == WrittenOut(Selected(versions))
          least == IF used > 28 THEN used - 28 ELSE 0
      IN  \A given \in {0} \cup least..(used + 28) : AnsweredWhole(versions, given)

(* With address a a user misses no provider that has it and that the lists    *)
(* are right about.  CheckAddress does not turn the address down, and         *)
(* OpenAdapter opens an adapter by a provider of the version that has it and  *)
(* is willing, whichever refuse, and however, whatever entries of the other   *)
(* family are taken for the address.                                          *)
NobodyMissed(a, like) ==
  LET owners(among) == {p \in among : a \in has[p] \ Other}
      willing == {answers \in [Prov -> {"success", "invalid", "other"}] :
                    \A p \in Prov : answers[p] = "success" => a \in has[p]}
  IN  /\ CheckAddress(a, SizeOf(a), like) # "success" => owners(Prov) \subseteq amiss
      /\ \A v \in {1, 2}, answers \in willing :
           LET answer == OpenAdapter(v, a, SizeOf(a), answers, like)
               able == {p \in owners(IF v = 1 THEN V1 ELSE Prov \ V1) :
                          answers[p] = "success"}
           IN  /\ answer.hr = "success" => answer.by \in able
               /\ able \ amiss # {} => answer.hr = "success"

(* So it is between two rebuilds for every address (ndfrmwrk.cpp:346-450,     *)
(* 461-498, ndaddr.cpp:40-55).                                               *)
LookupsMissNobody ==
  turn = 0 =>
    \A a \in Addr :
      \A like \in SUBSET {x \in ToSet(v2 \o v1) : x[1] \notin Family(a)} : NobodyMissed(a, like)

(* An address that CheckAddress takes is one of a provider, when the lists    *)
(* are right: "make sure that the we have a provider that supports it"        *)
(* (ndfrmwrk.cpp:318-319, 346-387).                                           *)
FoundIsThere ==
  turn = 0 /\ amiss = {} =>
    \A a \in Addr :
      \A like \in SUBSET {x \in ToSet(v2 \o v1) : x[1] \notin Family(a)} :
        CheckAddress(a, SizeOf(a), like) = "success" => \E p \in Prov : a \in has[p]

(* ResolveAddress tells the size of the local address, though WSAIoctl writes *)
(* but half of it, and ND_BUFFER_OVERFLOW if and only if the buffer was too   *)
(* small: "zeroing the upper bits ... so that the returned value is correct"  *)
(* (ndfrmwrk.cpp:272-316).                                                    *)
SizeToldIsWhole ==
  turn = 0 =>
    \A a \in V4 \cup V6, given \in 0..(2 * Dword), outcome \in Outcome :
      LET answer == ResolveAddress(a, given, outcome, {})
      IN  /\ answer.told < Dword
          /\ answer.hr = "overflow" <=> outcome = "answers" /\ given < SizeOf(a)
          /\ outcome = "answers" => answer.told = SizeOf(a) /\ answer.hr # "unsuccessful"
================================================================================
