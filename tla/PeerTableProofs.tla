-------------------------- MODULE PeerTableProofs --------------------------
(***************************************************************************)
(* Theorems about PeerTable, for any peers, addresses, routes and limits.  *)
(*                                                                         *)
(* The inductive invariant adds to the checked properties what they rest   *)
(* on: an entry's identity is keyed to that entry, and a nonce that        *)
(* refreshed an entry is in its sender's replay bucket.  The latter needs  *)
(* IndexResolves: were an address resolved to an identity without a        *)
(* session, a beacon could be filed on the strength of another's bucket.   *)
(* A room call that gives a peer's id for an address brings exactly that   *)
(* about, so it is claimed while no call did.                              *)
(***************************************************************************)
EXTENDS PeerTable, FiniteSetTheorems, TLAPS

\* An entry of a proved identity is the one that identity is filed under.
KeyedEntries ==
    \A a \in DOMAIN peers :
        peers[a].proved =>
            /\ peers[a].from_id \in DOMAIN peerKeyById
            /\ peerKeyById[peers[a].from_id] = a

\* A nonce that refreshed an entry is in its sender's replay bucket.
CreditsAreSeen ==
    \A n \in Nonces : /\ credits[n] <= 1
                      /\ credits[n] = 1 => n \in seenNonces[n[1]]

\* An address that does not resolve to a peer names itself, and no other: a
\* room call's.
SharedNamesItself ==
    /\ \A a \in DOMAIN addressToId : addressToId[a] \in Peers \cup {a}
    /\ \A a \in DOMAIN idToAddresses : a \in Peers \/ idToAddresses[a] = <<a>>

IInv ==
    /\ TypeOK
    /\ SharedNamesItself
    /\ IndexResolves
    /\ KeyedEntries
    /\ named = {} => CreditsAreSeen
-----------------------------------------------------------------------------
(* Lemmas on the operators. *)

\* Moving an address to the front of a list keeps the list a list of
\* addresses, within the cap, headed by that address and inventing none.
LEMMA NewestFirstFacts ==
    ASSUME NEW s \in Seq(Ids), NEW a \in Ids
    PROVE  /\ NewestFirst(s, a) \in Seq(Ids)
           /\ Len(NewestFirst(s, a)) \in 1..MaxPeerAddresses
           /\ a \in Elements(NewestFirst(s, a))
           /\ Elements(NewestFirst(s, a)) \subseteq Elements(s) \cup {a}
<1> DEFINE at == IF a \in Elements(s) THEN CHOOSE i \in DOMAIN s : s[i] = a
                                      ELSE Len(s) + 1
           n == IF a \in Elements(s) THEN Len(s) ELSE Len(s) + 1
           m == IF n > MaxPeerAddresses THEN MaxPeerAddresses ELSE n
           r == NewestFirst(s, a)
<1>1. /\ Len(s) \in Nat
      /\ DOMAIN s = 1..Len(s)
      /\ \A i \in 1..Len(s) : s[i] \in Ids
  OBVIOUS
<1>2. /\ at \in 1..n
      /\ n \in Nat \ {0}
  <2>1. CASE a \in Elements(s)
    <3>1. PICK i \in DOMAIN s : s[i] = a
      BY <2>1 DEF Elements
    <3>2. at \in DOMAIN s
      BY <2>1, <3>1
    <3>3. QED
      BY <1>1, <2>1, <3>2
  <2>2. CASE a \notin Elements(s)
    BY <1>1, <2>2
  <2>3. QED
    BY <2>1, <2>2
<1>3. m \in Nat \ {0} /\ m <= n
  BY <1>2, PeerTableAssumption
<1> USE PeerTableAssumption
<1>4. m \in 1..MaxPeerAddresses
  BY <1>2
<1>5. r = [j \in 1..m |-> IF j = 1 THEN a ELSE IF j <= at THEN s[j - 1] ELSE s[j]]
  BY DEF NewestFirst
<1>6. a \in Elements(s) => n = Len(s)
  OBVIOUS
<1>7. a \notin Elements(s) => at = Len(s) + 1 /\ n = Len(s) + 1
  OBVIOUS
<1> HIDE DEF m, n, at, r
<1>8. /\ at \in Nat \ {0} /\ at <= n
      /\ Len(s) \in Nat
      /\ \/ n = Len(s)
         \/ n = Len(s) + 1 /\ at = Len(s) + 1
  <2>1. at \in Nat \ {0} /\ at <= n
    BY <1>2
  <2>2. \/ n = Len(s)
        \/ n = Len(s) + 1 /\ at = Len(s) + 1
    BY <1>6, <1>7
  <2>3. QED
    BY <1>1, <2>1, <2>2
<1>9. \A j \in 1..m : r[j] \in Ids /\ r[j] \in Elements(s) \cup {a}
  <2> SUFFICES ASSUME NEW j \in 1..m
               PROVE  r[j] \in Ids /\ r[j] \in Elements(s) \cup {a}
    OBVIOUS
  <2>1. CASE j = 1
    BY <1>5, <2>1
  <2>2. CASE j # 1 /\ j <= at
    <3>1. r[j] = s[j - 1]
      BY <1>5, <2>2
    <3>2. j - 1 \in 1..Len(s)
      BY <1>3, <1>8, <2>2
    <3>3. QED
      BY <1>1, <3>1, <3>2 DEF Elements
  <2>3. CASE j # 1 /\ ~(j <= at)
    <3>1. r[j] = s[j]
      BY <1>5, <2>3
    <3>2. at <= Len(s)
      BY <1>3, <1>8, <2>3
    <3>3. n = Len(s)
      BY <1>8, <3>2
    <3>4. j \in 1..Len(s)
      BY <1>3, <2>3, <3>3
    <3>5. QED
      BY <1>1, <3>1, <3>4 DEF Elements
  <2>4. QED
    BY <2>1, <2>2, <2>3
<1>10. r \in [1..m -> Ids] /\ m \in Nat
  BY <1>3, <1>5, <1>9
<1>11. r \in Seq(Ids) /\ Len(r) = m
  BY <1>10
<1>12. 1 \in DOMAIN r /\ r[1] = a
  BY <1>3, <1>5
<1>13. a \in Elements(r)
  BY <1>12 DEF Elements
<1>14. Elements(r) \subseteq Elements(s) \cup {a}
  BY <1>9, <1>10 DEF Elements
<1>15. QED
  BY <1>4, <1>11, <1>13, <1>14 DEF r

\* Taking an address off a list leaves a list of ids.
LEMMA WithoutFacts ==
    ASSUME NEW s \in Seq(Ids), NEW a
    PROVE  Without(s, a) \in Seq(Ids)
<1>1. /\ Len(s) \in Nat
      /\ \A i \in 1..Len(s) : s[i] \in Ids
  OBVIOUS
<1>2. CASE a \notin Elements(s)
  BY <1>2 DEF Without
<1>3. CASE a \in Elements(s)
  <2> DEFINE at == CHOOSE i \in DOMAIN s : s[i] = a
             r == [j \in 1..(Len(s) - 1) |-> IF j < at THEN s[j] ELSE s[j + 1]]
  <2>1. Without(s, a) = r
    BY <1>3 DEF Without
  <2>2. \E i \in 1..Len(s) : s[i] = a
    BY <1>3 DEF Elements
  <2>3. Len(s) - 1 \in Nat
    BY <1>1, <2>2
  <2>4. r \in [1..(Len(s) - 1) -> Ids]
    BY <1>1
  <2>5. r \in Seq(Ids)
    BY <2>3, <2>4
  <2>6. QED
    BY <2>1, <2>5
<1>4. QED
  BY <1>2, <1>3

\* What noteObservedAddress() makes of the index after a handshake from an
\* address nobody else holds: p's list is headed by it, and of the others'
\* only the one of a peer that lost its session to a room call can change.
LEMMA EstablishFacts ==
    ASSUME NEW a \in Addrs, NEW p \in Peers,
           Types, SharedNamesItself, IndexResolves, ~Taken(a, p), Establish(a, p)
    PROVE  \E without :
        LET old == AddressesFor(without, p)
            list == NewestFirst(old, a)
            moved == Insert(addressToId, a, p)
        IN /\ IsHash(without, Ids, Seq(Ids))
           /\ \A q \in DOMAIN without \ named :
                  q \in DOMAIN idToAddresses /\ without[q] = idToAddresses[q]
           /\ \A q : q \notin named \/ q = p =>
                  AddressesFor(without, q) = AddressesFor(idToAddresses, q)
           /\ \A q \in DOMAIN without : q \in Peers \/ without[q] = <<q>>
           /\ named = {} => without = idToAddresses
           /\ idToAddresses' = Insert(without, p, list)
           /\ addressToId' = Remove(moved,
                  {x \in Elements(old) \ Elements(list) :
                       x \in DOMAIN moved /\ moved[x] = p})
<1> DEFINE previous == Value(addressToId, a, None)
           theirs == Without(AddressesFor(idToAddresses, previous), a)
           without == IF previous \in {None, p} THEN idToAddresses
                      ELSE IF theirs = <<>> THEN Remove(idToAddresses, {previous})
                      ELSE Insert(idToAddresses, previous, theirs)
<1> USE PeerTableAssumption
<1>1. previous \in {None, p} \/ previous \in named
  BY DEF IndexResolves, Taken, Value
<1>2. IsHash(idToAddresses, Ids, Seq(Ids))
  BY DEF Types
<1>3. /\ IsHash(without, Ids, Seq(Ids))
      /\ \A q \in DOMAIN without \ named :
             q \in DOMAIN idToAddresses /\ without[q] = idToAddresses[q]
  <2>1. CASE previous \in {None, p}
    BY <1>2, <2>1
  <2>2. CASE previous \notin {None, p} /\ theirs = <<>>
    BY <1>2, <2>2 DEF IsHash, Remove
  <2>3. CASE previous \notin {None, p} /\ theirs # <<>>
    <3>1. AddressesFor(idToAddresses, previous) \in Seq(Ids)
      BY <1>2 DEF AddressesFor, Value, IsHash
    <3>2. theirs \in Seq(Ids)
      BY <3>1, WithoutFacts
    <3>3. previous \in Ids /\ previous \in named
      BY <1>1, <2>3 DEF Types, IsHash, Value
    <3>4. without = Insert(idToAddresses, previous, theirs)
      BY <2>3
    <3> HIDE DEF theirs, without, previous
    <3>5. QED
      BY <1>2, <3>2, <3>3, <3>4 DEF IsHash, Insert
  <2>4. QED
    BY <2>1, <2>2, <2>3
<1>4. \A q : q \notin named \/ q = p =>
          AddressesFor(without, q) = AddressesFor(idToAddresses, q)
  <2> SUFFICES ASSUME NEW q, q \notin named \/ q = p
               PROVE  AddressesFor(without, q) = AddressesFor(idToAddresses, q)
    OBVIOUS
  <2>1. CASE previous \in {None, p}
    BY <2>1
  <2>2. CASE previous \notin {None, p}
    <3>1. q # previous
      BY <1>1, <2>2
    <3>2. without = Remove(idToAddresses, {previous})
          \/ without = Insert(idToAddresses, previous, theirs)
      BY <2>2
    <3> HIDE DEF without, theirs, previous
    <3>3. QED
      BY <3>1, <3>2 DEF AddressesFor, Value, Insert, Remove
  <2>3. QED
    BY <2>1, <2>2
<1>5. /\ named = {} => without = idToAddresses
      /\ \A q \in DOMAIN without : q \in Peers \/ without[q] = <<q>>
  <2>1. named = {} => without = idToAddresses
    BY <1>1
  <2>2. named \subseteq Peers
    BY DEF Types
  <2>3. QED
    BY <1>3, <2>1, <2>2 DEF SharedNamesItself
<1>6. /\ idToAddresses' = Insert(without, p, NewestFirst(AddressesFor(without, p), a))
      /\ addressToId' = Remove(Insert(addressToId, a, p),
             {x \in Elements(AddressesFor(without, p))
                        \ Elements(NewestFirst(AddressesFor(without, p), a)) :
                  /\ x \in DOMAIN Insert(addressToId, a, p)
                  /\ Insert(addressToId, a, p)[x] = p})
  BY DEF Establish, NoteObservedAddress
<1> HIDE DEF without
<1>7. QED
  BY <1>3, <1>4, <1>5, <1>6

\* A handshake accepted from an address nobody else holds leaves the index
\* well formed and resolving.
LEMMA EstablishKeepsIndex ==
    ASSUME NEW a \in Addrs, NEW p \in Peers,
           Types, SharedNamesItself, IndexResolves, UNCHANGED named,
           ~Taken(a, p), Establish(a, p)
    PROVE  /\ sessionKeys' \subseteq Ids
           /\ pins' \subseteq Peers
           /\ IsHash(addressToId, Ids, Ids)'
           /\ IsHash(idToAddresses, Ids, Seq(Ids))'
           /\ \A q \in DOMAIN idToAddresses' \ named' :
                  Len(idToAddresses'[q]) \in 1..MaxPeerAddresses
           /\ SharedNamesItself'
           /\ IndexResolves'
<1> DEFINE old(w) == AddressesFor(w, p)
           list(w) == NewestFirst(old(w), a)
           moved == Insert(addressToId, a, p)
           dropped(w) == {x \in Elements(old(w)) \ Elements(list(w)) :
                              x \in DOMAIN moved /\ moved[x] = p}
<1>1. PICK w : /\ IsHash(w, Ids, Seq(Ids))
               /\ \A q \in DOMAIN w \ named :
                      q \in DOMAIN idToAddresses /\ w[q] = idToAddresses[q]
               /\ \A q : q \notin named \/ q = p =>
                      AddressesFor(w, q) = AddressesFor(idToAddresses, q)
               /\ \A q \in DOMAIN w : q \in Peers \/ w[q] = <<q>>
               /\ idToAddresses' = Insert(w, p, list(w))
               /\ addressToId' = Remove(moved, dropped(w))
  BY EstablishFacts
<1>2. sessionKeys' = sessionKeys \cup {p} /\ pins' = pins \cup {p}
  BY DEF Establish
<1>3. old(w) \in Seq(Ids)
  BY <1>1 DEF AddressesFor, Value, IsHash
<1>4. /\ list(w) \in Seq(Ids)
      /\ Len(list(w)) \in 1..MaxPeerAddresses
      /\ a \in Elements(list(w))
  BY <1>3, NewestFirstFacts DEF Ids
<1> HIDE DEF old, list
<1>5. p \in Ids /\ a \in Ids
  BY DEF Ids
<1>6. sessionKeys' \subseteq Ids /\ pins' \subseteq Peers
  BY <1>2, <1>5 DEF Types
<1>7. /\ IsHash(idToAddresses, Ids, Seq(Ids))'
      /\ \A q \in DOMAIN idToAddresses' \ named' :
             Len(idToAddresses'[q]) \in 1..MaxPeerAddresses
  BY <1>1, <1>4, <1>5 DEF Types, IsHash, Insert
<1>8. IsHash(addressToId, Ids, Ids)'
  BY <1>1, <1>5 DEF Types, IsHash, Insert, Remove
<1>9. IndexResolves'
  <2> SUFFICES ASSUME NEW x \in DOMAIN addressToId', addressToId'[x] \notin named
               PROVE  /\ addressToId'[x] \in sessionKeys'
                      /\ x \in Elements(AddressesFor(idToAddresses', addressToId'[x]))
    BY DEF IndexResolves
  <2>1. /\ x \in DOMAIN moved \ dropped(w)
        /\ addressToId'[x] = moved[x]
    BY <1>1 DEF Remove
  <2>2. CASE x = a
    <3>1. addressToId'[x] = p
      BY <2>1, <2>2 DEF Insert
    <3>2. AddressesFor(idToAddresses', p) = list(w)
      BY <1>1 DEF AddressesFor, Value, Insert
    <3>3. QED
      BY <1>2, <1>4, <2>2, <3>1, <3>2
  <2>3. CASE x # a /\ addressToId'[x] = p
    <3>1. x \in DOMAIN addressToId /\ addressToId[x] = p
      BY <2>1, <2>3 DEF Insert
    <3>2. x \in Elements(old(w))
      BY <1>1, <2>3, <3>1 DEF IndexResolves, old
    <3>3. x \in Elements(list(w))
      BY <2>1, <2>3, <3>2
    <3>4. AddressesFor(idToAddresses', p) = list(w)
      BY <1>1 DEF AddressesFor, Value, Insert
    <3>5. QED
      BY <1>2, <2>3, <3>3, <3>4
  <2>4. CASE x # a /\ addressToId'[x] # p
    <3>1. x \in DOMAIN addressToId /\ addressToId'[x] = addressToId[x]
      BY <2>1, <2>4 DEF Insert
    <3>2. /\ addressToId[x] \in sessionKeys
          /\ x \in Elements(AddressesFor(idToAddresses, addressToId[x]))
      BY <3>1 DEF IndexResolves
    <3>3. AddressesFor(idToAddresses', addressToId[x]) = AddressesFor(w, addressToId[x])
      BY <1>1, <2>4, <3>1 DEF AddressesFor, Value, Insert
    <3>4. AddressesFor(w, addressToId[x]) = AddressesFor(idToAddresses, addressToId[x])
      BY <1>1, <3>1
    <3>5. QED
      BY <1>2, <3>1, <3>2, <3>3, <3>4
  <2>5. QED
    BY <2>2, <2>3, <2>4
<1>10. SharedNamesItself'
  BY <1>1 DEF SharedNamesItself, Insert, Remove
<1>11. QED
  BY <1>6, <1>7, <1>8, <1>9, <1>10

\* So does any handshake that gets as far, whether or not it gives a session.
LEMMA HandshakeKeepsIndex ==
    ASSUME NEW a \in Addrs, NEW p \in Peers,
           Types, SharedNamesItself, IndexResolves, UNCHANGED named,
           ~Taken(a, p), ProcessHandshake(a, p)
    PROVE  /\ sessionKeys' \subseteq Ids
           /\ pins' \subseteq Peers
           /\ IsHash(addressToId, Ids, Ids)'
           /\ IsHash(idToAddresses, Ids, Seq(Ids))'
           /\ \A q \in DOMAIN idToAddresses' \ named' :
                  Len(idToAddresses'[q]) \in 1..MaxPeerAddresses
           /\ SharedNamesItself'
           /\ IndexResolves'
<1>1. CASE Establish(a, p)
  BY <1>1, EstablishKeepsIndex
<1>2. CASE UNCHANGED indexVars
  <2>1. UNCHANGED <<sessionKeys, pins, addressToId, idToAddresses, named>>
    BY <1>2 DEF indexVars
  <2>2. QED
    BY <2>1 DEF Types, IsHash, SharedNamesItself, IndexResolves, AddressesFor, Value
<1>3. QED
  BY <1>1, <1>2 DEF ProcessHandshake

\* Filing a beacon under its identity's key keeps the table within its cap
\* and every named entry the one its identity is keyed to, whether or not the
\* oldest entry had to go.
LEMMA FileKeepsTable ==
    ASSUME NEW key \in Addrs, NEW p \in Peers \cup {None}, NEW proved \in BOOLEAN,
           TypeOK, KeyedEntries,
           proved => p \in Peers /\ (p \in DOMAIN peerKeyById => key = peerKeyById[p]),
           File(key, p, proved)
    PROVE  /\ IsHash(peers, Addrs, Entries)'
           /\ IsHash(peerKeyById, Peers, Addrs)'
           /\ WithinCap'
           /\ KeyedEntries'
<1> DEFINE entry == [from_id |-> p, proved |-> proved, last_seen |-> clock]
<1> USE PeerTableAssumption
<1>1. PICK gone \in SUBSET DOMAIN peers :
          /\ \/ ~Full(key) /\ gone = {}
             \/ Full(key) /\ \E o \in DOMAIN peers : gone = {o}
          /\ peers' = Insert(Remove(peers, gone), key, entry)
          /\ peerKeyById' = IF proved THEN Insert(KeysWithout(gone), p, key)
                            ELSE KeysWithout(gone)
  <2>1. CASE Full(key)
    <3>1. PICK o \in Oldest :
              /\ peers' = Insert(Remove(peers, {o}), key, entry)
              /\ peerKeyById' = IF proved THEN Insert(KeysWithout({o}), p, key)
                                ELSE KeysWithout({o})
      BY <2>1 DEF File
    <3>2. o \in DOMAIN peers
      BY DEF Oldest
    <3>3. QED
      BY <2>1, <3>1, <3>2
  <2>2. CASE ~Full(key)
    BY <2>2 DEF File
  <2>3. QED
    BY <2>1, <2>2
<1>2. /\ DOMAIN peers' = (DOMAIN peers \ gone) \cup {key}
      /\ peers'[key] = entry
      /\ \A x \in DOMAIN peers \ gone : x # key => peers'[x] = peers[x]
  BY <1>1 DEF Insert, Remove
<1>3. IsHash(peers, Addrs, Entries)'
  <2>1. entry \in Entries
    BY DEF Entries, TypeOK, Types
  <2>2. QED
    BY <1>2, <2>1 DEF TypeOK, Types, IsHash
<1>4. IsHash(KeysWithout(gone), Peers, Addrs)
  BY DEF KeysWithout, Remove, IsHash, TypeOK, Types
<1>5. IsHash(peerKeyById, Peers, Addrs)'
  <2>1. CASE ~proved
    BY <1>1, <1>4, <2>1 DEF IsHash
  <2>2. CASE proved
    BY <1>1, <1>4, <2>2 DEF IsHash, Insert
  <2>3. QED
    BY <2>1, <2>2
<1>6. WithinCap'
  <2>1. IsFiniteSet(DOMAIN peers)
    BY FS_Subset DEF TypeOK, Types, IsHash
  <2>2. CASE Full(key)
    <3>1. PICK o \in DOMAIN peers : gone = {o}
      BY <1>1, <2>2
    <3>2. /\ IsFiniteSet(DOMAIN peers \ {o})
          /\ Cardinality(DOMAIN peers \ {o}) = Cardinality(DOMAIN peers) - 1
      BY <2>1, FS_RemoveElement
    <3>3. Cardinality(DOMAIN peers') <= Cardinality(DOMAIN peers \ {o}) + 1
      <4> DEFINE kept == DOMAIN peers \ {o}
      <4>1. DOMAIN peers' = kept \cup {key}
        BY <1>2, <3>1
      <4>2. IsFiniteSet(kept) /\ Cardinality(kept) \in Nat
        BY <3>2, FS_CardinalityType
      <4> HIDE DEF kept
      <4>3. Cardinality(kept \cup {key})
              = IF key \in kept THEN Cardinality(kept) ELSE Cardinality(kept) + 1
        BY <4>2, FS_AddElement
      <4>4. Cardinality(DOMAIN peers') <= Cardinality(kept) + 1
        BY <4>1, <4>2, <4>3
      <4>5. QED
        BY <4>4 DEF kept
    <3>4. Cardinality(DOMAIN peers) \in Nat /\ Cardinality(DOMAIN peers') \in Nat
      <4>1. IsFiniteSet((DOMAIN peers \ {o}) \cup {key})
        BY <3>2, FS_AddElement
      <4>2. IsFiniteSet(DOMAIN peers')
        BY <1>2, <3>1, <4>1
      <4>3. QED
        BY <2>1, <4>2, FS_CardinalityType
    <3>5. QED
      BY <3>2, <3>3, <3>4 DEF TypeOK, WithinCap
  <2>3. CASE ~Full(key)
    <3>1. DOMAIN peers' = DOMAIN peers \cup {key}
      BY <1>1, <1>2, <2>3
    <3>2. Cardinality(DOMAIN peers) \in Nat
      BY <2>1, FS_CardinalityType
    <3>3. CASE key \in DOMAIN peers
      <4>1. DOMAIN peers' = DOMAIN peers
        BY <3>1, <3>3
      <4>2. QED
        BY <4>1 DEF TypeOK, WithinCap
    <3>4. CASE key \notin DOMAIN peers
      <4> DEFINE before == DOMAIN peers
      <4>a. IsFiniteSet(before) /\ key \notin before
        BY <2>1, <3>4
      <4>b. DOMAIN peers' = before \cup {key}
        BY <3>1
      <4> HIDE DEF before
      <4>c. Cardinality(before \cup {key}) = Cardinality(before) + 1
        BY <4>a, FS_AddElement
      <4>1. Cardinality(DOMAIN peers') = Cardinality(DOMAIN peers) + 1
        BY <4>b, <4>c DEF before
      <4>2. ~(Cardinality(DOMAIN peers) >= MaxPeers)
        BY <2>3, <3>4 DEF Full
      <4>3. QED
        BY <3>2, <4>1, <4>2 DEF WithinCap
    <3>5. QED
      BY <3>3, <3>4
  <2>4. QED
    BY <2>2, <2>3
<1>7. KeyedEntries'
  <2> SUFFICES ASSUME NEW x \in DOMAIN peers', peers'[x].proved
               PROVE  /\ peers'[x].from_id \in DOMAIN peerKeyById'
                      /\ peerKeyById'[peers'[x].from_id] = x
    BY DEF KeyedEntries
  <2>1. CASE x = key
    <3>1. peers'[x] = entry
      BY <1>2, <2>1
    <3>2. peers'[x].from_id = p /\ entry.proved
      BY <3>1
    <3>3. proved
      BY <3>2, Zenon
    <3>4. QED
      BY <1>1, <2>1, <3>2, <3>3 DEF Insert
  <2>2. CASE x # key
    <3> DEFINE q == peers[x].from_id
    <3>1. x \in DOMAIN peers \ gone /\ peers'[x] = peers[x]
      BY <1>2, <2>2
    <3>2. q \in DOMAIN peerKeyById /\ peerKeyById[q] = x
      BY <3>1 DEF KeyedEntries
    <3>3. proved => q # p
      BY <2>2, <3>2
    <3>4. q \in DOMAIN KeysWithout(gone) /\ KeysWithout(gone)[q] = x
      BY <3>1, <3>2 DEF KeysWithout, Remove
    <3>5. q \in DOMAIN peerKeyById' /\ peerKeyById'[q] = x
      BY <1>1, <3>3, <3>4 DEF Insert
    <3>6. QED
      BY <3>1, <3>5
  <2>3. QED
    BY <2>1, <2>2
<1>8. QED
  BY <1>3, <1>5, <1>6, <1>7
-----------------------------------------------------------------------------
(* The inductive invariant. *)

\* The empty tables satisfy the invariant.
LEMMA InitIInv == Init => IInv
<1> SUFFICES ASSUME Init PROVE IInv
  OBVIOUS
<1> USE PeerTableAssumption DEF Init, EmptyHash
<1>1. Types
  BY DEF Types, IsHash
<1>2. WithinCap
  BY FS_EmptySet DEF WithinCap
<1>3. SharedNamesItself /\ IndexResolves /\ KeyedEntries /\ CreditsAreSeen
  BY DEF SharedNamesItself, IndexResolves, KeyedEntries, CreditsAreSeen
<1>4. QED
  BY <1>1, <1>2, <1>3 DEF IInv, TypeOK

\* What a delivered beacon is.
LEMMA BeaconFacts ==
    ASSUME NEW m \in OnTheWire
    PROVE  /\ m.id \in Peers
           /\ m.from \in Addrs
           /\ Nonce(m) \in Nonces
           /\ Nonce(m)[1] = m.id
BY DEF OnTheWire, Beacons, Nonce, Nonces

\* A bucket is an identity, and recording a nonce in some buckets only ever
\* adds to what CreditsAreSeen asks for.
LEMMA SeenGrows ==
    ASSUME Types, CreditsAreSeen, UNCHANGED credits,
           seenNonces' \in [Ids -> SUBSET Nonces],
           \A b \in Ids : seenNonces[b] \subseteq seenNonces'[b]
    PROVE  CreditsAreSeen'
BY DEF CreditsAreSeen, Nonces, Ids

\* The replay bucket of an address is an identity or the address itself.
LEMMA BucketType ==
    ASSUME Types, NEW a \in Addrs
    PROVE  Bucket(a) \in Ids
BY DEF Types, IsHash, Bucket, Value, Ids

\* One step for each outcome of handlePresence().
LEMMA PresenceTakenIInv ==
    ASSUME IInv, NEW m \in OnTheWire, PresenceTaken(m)
    PROVE  IInv'
<1> USE BeaconFacts DEF PresenceTaken, indexVars, tableVars, historyVars
<1>1. seenNonces' \in [Ids -> SUBSET Nonces]
  BY DEF IInv, TypeOK, Types
<1>2. IsHash(warnedIdPub, Addrs, Peers)'
  BY DEF IInv, TypeOK, Types, IsHash, Insert
<1>3. Types'
  BY <1>1, <1>2 DEF IInv, TypeOK, Types, IsHash
<1>4. WithinCap' /\ SharedNamesItself' /\ IndexResolves' /\ KeyedEntries'
  BY DEF IInv, SharedNamesItself, TypeOK, WithinCap, IndexResolves, KeyedEntries, AddressesFor, Value
<1>5. (named = {} => CreditsAreSeen)'
  BY <1>1, SeenGrows DEF IInv, TypeOK, Types
<1>6. QED
  BY <1>3, <1>4, <1>5 DEF IInv, TypeOK

\* A second copy teaches the index its address and is then refused: the peer
\* table stays as it is.
LEMMA PresenceRepeatedIInv ==
    ASSUME IInv, NEW m \in OnTheWire, PresenceRepeated(m)
    PROVE  IInv'
<1> USE BeaconFacts DEF PresenceRepeated, tableVars, historyVars
<1>1. seenNonces' \in [Ids -> SUBSET Nonces]
  BY DEF IInv, TypeOK, Types
<1>2. /\ sessionKeys' \subseteq Ids
      /\ pins' \subseteq Peers
      /\ IsHash(addressToId, Ids, Ids)'
      /\ IsHash(idToAddresses, Ids, Seq(Ids))'
      /\ \A q \in DOMAIN idToAddresses' \ named' :
             Len(idToAddresses'[q]) \in 1..MaxPeerAddresses
      /\ SharedNamesItself' /\ IndexResolves'
  BY HandshakeKeepsIndex DEF IInv, TypeOK
<1>3. Types'
  BY <1>1, <1>2 DEF IInv, TypeOK, Types, IsHash
<1>4. WithinCap' /\ KeyedEntries'
  BY DEF IInv, TypeOK, WithinCap, KeyedEntries
<1>5. (named = {} => CreditsAreSeen)'
  BY <1>1, SeenGrows DEF IInv, TypeOK, Types
<1>6. QED
  BY <1>2, <1>3, <1>4, <1>5 DEF IInv, TypeOK

\* The step that credits a nonce.  The sender's own bucket was asked: it is
\* the address's bucket when the address resolves, because the one it resolves
\* to has a session and so would have been in the way; else the identity gate
\* asked it.
LEMMA PresenceFiledIInv ==
    ASSUME IInv, NEW m \in OnTheWire, PresenceFiled(m)
    PROVE  IInv'
<1> USE BeaconFacts DEF PresenceFiled
<1>1. seenNonces' \in [Ids -> SUBSET Nonces]
  BY DEF IInv, TypeOK, Types
<1>2. /\ sessionKeys' \subseteq Ids
      /\ pins' \subseteq Peers
      /\ IsHash(addressToId, Ids, Ids)'
      /\ IsHash(idToAddresses, Ids, Seq(Ids))'
      /\ \A q \in DOMAIN idToAddresses' \ named' :
             Len(idToAddresses'[q]) \in 1..MaxPeerAddresses
      /\ SharedNamesItself' /\ IndexResolves'
  BY HandshakeKeepsIndex DEF IInv, TypeOK
<1>3. /\ Key(m) \in Addrs
      /\ m.id \in DOMAIN peerKeyById => Key(m) = peerKeyById[m.id]
  BY DEF Key, Value, IInv, TypeOK, Types, IsHash
<1>4. /\ IsHash(peers, Addrs, Entries)'
      /\ IsHash(peerKeyById, Peers, Addrs)'
      /\ WithinCap'
      /\ KeyedEntries'
  BY <1>3, FileKeepsTable DEF IInv
<1>5. credits' \in [Nonces -> Nat]
  BY DEF IInv, TypeOK, Types
<1>6. Types'
  BY <1>1, <1>2, <1>4, <1>5 DEF IInv, TypeOK, Types, IsHash
<1>7. ASSUME named = {} PROVE CreditsAreSeen'
  <2>1. /\ Nonce(m) \notin seenNonces[m.id]
        /\ Nonce(m) \in seenNonces'[m.id]
    <3>1. CASE m.from \in DOMAIN addressToId
      <4>1. addressToId[m.from] = m.id
        BY <1>7, <3>1 DEF Taken, IInv, IndexResolves
      <4>2. Bucket(m.from) = m.id
        BY <3>1, <4>1 DEF Bucket, Value
      <4>3. QED
        BY <4>2 DEF CheckReplay, Ids
    <3>2. CASE m.from \notin DOMAIN addressToId
      BY <3>2 DEF IdentityGate, CheckReplay, Ids
    <3>3. QED
      BY <3>1, <3>2
  <2>2. credits[Nonce(m)] = 0
    BY <1>7, <2>1 DEF IInv, CreditsAreSeen, TypeOK, Types
  <2> SUFFICES ASSUME NEW n \in Nonces
               PROVE  /\ credits'[n] <= 1
                      /\ credits'[n] = 1 => n \in seenNonces'[n[1]]
    BY DEF CreditsAreSeen
  <2>3. CASE n = Nonce(m)
    BY <2>1, <2>2, <2>3 DEF IInv, TypeOK, Types
  <2>4. CASE n # Nonce(m)
    <3>1. credits'[n] = credits[n]
      BY <2>4 DEF IInv, TypeOK, Types
    <3>2. n[1] \in Ids
      BY DEF Nonces, Ids
    <3>3. seenNonces[n[1]] \subseteq seenNonces'[n[1]]
      BY <3>2 DEF IInv, TypeOK, Types
    <3>4. QED
      BY <1>7, <3>1, <3>3 DEF IInv, CreditsAreSeen
  <2>5. QED
    BY <2>3, <2>4
<1>8. QED
  BY <1>2, <1>4, <1>6, <1>7 DEF IInv, TypeOK

\* An unproved beacon is keyed to no identity and touches no index.
LEMMA PresenceUnprovedIInv ==
    ASSUME IInv, NEW m \in OnTheWire, NEW claimed \in Peers \cup {None},
           PresenceUnproved(m, claimed)
    PROVE  IInv'
<1> USE BeaconFacts DEF PresenceUnproved, cryptoVars, indexVars, historyVars
<1>1. /\ seenNonces' \in [Ids -> SUBSET Nonces]
      /\ \A b \in Ids : seenNonces[b] \subseteq seenNonces'[b]
  BY DEF IInv, TypeOK, Types
<1>2. /\ IsHash(peers, Addrs, Entries)'
      /\ IsHash(peerKeyById, Peers, Addrs)'
      /\ WithinCap'
      /\ KeyedEntries'
  BY FileKeepsTable DEF IInv
<1>3. Types'
  BY <1>1, <1>2 DEF IInv, TypeOK, Types, IsHash
<1>4. SharedNamesItself' /\ IndexResolves'
  BY DEF IInv, SharedNamesItself, IndexResolves, AddressesFor, Value
<1>5. (named = {} => CreditsAreSeen)'
  BY <1>1, SeenGrows DEF IInv, TypeOK, Types
<1>6. QED
  BY <1>2, <1>3, <1>4, <1>5 DEF IInv, TypeOK

\* Pruning takes entries and their keys together.
LEMMA PruneIInv ==
    ASSUME IInv, PruneStalePeers
    PROVE  IInv'
<1> USE DEF PruneStalePeers, cryptoVars, indexVars, historyVars
<1>1. /\ IsHash(peers, Addrs, Entries)'
      /\ IsHash(peerKeyById, Peers, Addrs)'
  BY DEF KeysWithout, Remove, IInv, TypeOK, Types, IsHash
<1>2. Types'
  BY <1>1 DEF IInv, TypeOK, Types, IsHash
<1>3. WithinCap'
  <2>1. IsFiniteSet(DOMAIN peers)
    BY FS_Subset, PeerTableAssumption DEF IInv, TypeOK, Types, IsHash
  <2>2. DOMAIN peers' \in SUBSET DOMAIN peers
    BY DEF Remove
  <2>3. /\ Cardinality(DOMAIN peers') <= Cardinality(DOMAIN peers)
        /\ Cardinality(DOMAIN peers') \in Nat
        /\ Cardinality(DOMAIN peers) \in Nat
    BY <2>1, <2>2, FS_Subset, FS_CardinalityType
  <2>4. QED
    BY <2>3, PeerTableAssumption DEF IInv, TypeOK, WithinCap
<1>4. SharedNamesItself' /\ IndexResolves'
  BY DEF IInv, SharedNamesItself, IndexResolves, AddressesFor, Value
<1>5. KeyedEntries'
  <2> SUFFICES ASSUME NEW x \in DOMAIN peers', peers'[x].proved
               PROVE  /\ peers'[x].from_id \in DOMAIN peerKeyById'
                      /\ peerKeyById'[peers'[x].from_id] = x
    BY DEF KeyedEntries
  <2> DEFINE q == peers[x].from_id
  <2>1. x \in DOMAIN peers \ Stale /\ peers'[x] = peers[x]
    BY DEF Remove
  <2>2. q \in DOMAIN peerKeyById /\ peerKeyById[q] = x
    BY <2>1 DEF IInv, KeyedEntries
  <2>3. q \in DOMAIN peerKeyById' /\ peerKeyById'[q] = x
    BY <2>1, <2>2 DEF KeysWithout, Remove
  <2>4. QED
    BY <2>1, <2>3
<1>6. (named = {} => CreditsAreSeen)'
  BY DEF IInv, CreditsAreSeen
<1>7. QED
  BY <1>2, <1>3, <1>4, <1>5, <1>6 DEF IInv, TypeOK

\* A room call's session is filed under what the call names and no other
\* address leads to it, so dropping it leaves nothing resolving to a session
\* that is gone.
LEMMA InstallIInv ==
    ASSUME IInv, NEW a \in RoomNames, InstallSharedSession(a)
    PROVE  IInv'
<1> DEFINE addresses == AddressesFor(idToAddresses, a)
           list == IF a \in Elements(addresses) THEN addresses ELSE <<a>> \o addresses
<1> USE PeerTableAssumption DEF InstallSharedSession, tableVars
<1>1. a \in Ids
  BY DEF Ids
<1>2. /\ addresses \in Seq(Ids)
      /\ a \in Peers \/ addresses \in {<<>>, <<a>>}
  BY DEF IInv, TypeOK, Types, IsHash, SharedNamesItself, AddressesFor, Value
<1>3. /\ list \in Seq(Ids)
      /\ a \in Elements(list)
      /\ a \in Peers \/ list = <<a>>
  <2> HIDE DEF addresses
  <2>1. CASE a \in Elements(addresses)
    <3>1. list = addresses
      BY <2>1
    <3>2. Elements(<<>>) = {}
      BY DEF Elements
    <3>3. QED
      BY <1>2, <2>1, <3>1, <3>2
  <2>2. CASE a \notin Elements(addresses)
    <3>1. list = <<a>> \o addresses
      BY <2>2
    <3>2. /\ <<a>> \o addresses \in Seq(Ids)
          /\ (<<a>> \o addresses)[1] = a
          /\ 1 \in DOMAIN (<<a>> \o addresses)
      BY <1>1, <1>2
    <3>3. a \in Elements(<<a>>) /\ <<a>> \o <<>> = <<a>>
      BY DEF Elements
    <3>4. a \in Peers \/ addresses = <<>>
      BY <1>2, <2>2, <3>3
    <3>5. QED
      BY <3>1, <3>2, <3>3, <3>4 DEF Elements
  <2>3. QED
    BY <2>1, <2>2
<1>4. idToAddresses' = Insert(idToAddresses, a, list)
  OBVIOUS
<1> HIDE DEF list
<1>5. Types'
  <2>1. IsHash(addressToId, Ids, Ids)' /\ IsHash(idToAddresses, Ids, Seq(Ids))'
    BY <1>1, <1>3, <1>4 DEF IInv, TypeOK, Types, IsHash, Insert
  <2>2. \A q \in DOMAIN idToAddresses' \ named' :
            Len(idToAddresses'[q]) \in 1..MaxPeerAddresses
    <3> SUFFICES ASSUME NEW q \in DOMAIN idToAddresses' \ named'
                 PROVE  Len(idToAddresses'[q]) \in 1..MaxPeerAddresses
      OBVIOUS
    <3>1. CASE q = a
      <4>1. a \notin Peers
        BY <3>1
      <4>2. list = <<a>>
        BY <1>3, <4>1
      <4>3. idToAddresses'[q] = list
        BY <1>4, <3>1 DEF Insert
      <4>4. Len(<<a>>) = 1 /\ 1 \in 1..MaxPeerAddresses
        OBVIOUS
      <4>5. QED
        BY <4>2, <4>3, <4>4
    <3>2. CASE q # a
      BY <1>4, <3>2 DEF Insert, IInv, TypeOK, Types
    <3>3. QED
      BY <3>1, <3>2
  <2>3. QED
    BY <1>1, <2>1, <2>2 DEF IInv, TypeOK, Types, IsHash
<1>6. WithinCap' /\ KeyedEntries'
  BY DEF IInv, TypeOK, WithinCap, KeyedEntries
<1>7. (named = {} => CreditsAreSeen)'
  BY DEF IInv, CreditsAreSeen
<1>8. SharedNamesItself'
  BY <1>3, <1>4 DEF IInv, SharedNamesItself, Insert
<1>9. IndexResolves'
  <2> SUFFICES ASSUME NEW x \in DOMAIN addressToId', addressToId'[x] \notin named'
               PROVE  /\ addressToId'[x] \in sessionKeys'
                      /\ x \in Elements(AddressesFor(idToAddresses', addressToId'[x]))
    BY DEF IndexResolves
  <2>1. CASE x = a
    BY <1>3, <1>4, <2>1 DEF Insert, AddressesFor, Value
  <2>2. CASE x # a
    <3>1. /\ x \in DOMAIN addressToId
          /\ addressToId'[x] = addressToId[x]
          /\ addressToId[x] # a
      BY <2>2 DEF Insert, IInv, SharedNamesItself
    <3>2. QED
      BY <1>4, <3>1 DEF IInv, IndexResolves, AddressesFor, Value, Insert
  <2>3. QED
    BY <2>1, <2>2
<1>10. QED
  BY <1>5, <1>6, <1>7, <1>8, <1>9 DEF IInv, TypeOK

\* Dropping a shared session touches only what names itself.
LEMMA DropIInv ==
    ASSUME IInv, NEW a \in RoomNames, DropSharedSession(a)
    PROVE  IInv'
<1> USE PeerTableAssumption DEF DropSharedSession, tableVars
<1>1. Types'
  BY DEF IInv, TypeOK, Types, IsHash, Remove
<1>2. WithinCap' /\ SharedNamesItself' /\ KeyedEntries'
      /\ (named = {} => CreditsAreSeen)'
  BY DEF IInv, TypeOK, WithinCap, SharedNamesItself, Remove, KeyedEntries,
         CreditsAreSeen
<1>3. IndexResolves'
  <2> SUFFICES ASSUME NEW x \in DOMAIN addressToId', addressToId'[x] \notin named'
               PROVE  /\ addressToId'[x] \in sessionKeys'
                      /\ x \in Elements(AddressesFor(idToAddresses', addressToId'[x]))
    BY DEF IndexResolves
  <2>1. /\ x \in DOMAIN addressToId /\ x # a
        /\ addressToId'[x] = addressToId[x]
        /\ addressToId[x] # a
    BY PeerTableAssumption DEF Remove, IInv, SharedNamesItself
  <2>2. QED
    BY <2>1 DEF IInv, IndexResolves, AddressesFor, Value, Remove
<1>4. QED
  BY <1>1, <1>2, <1>3 DEF IInv, TypeOK

\* Time changes no table.
LEMMA TickIInv ==
    ASSUME IInv, Tick
    PROVE  IInv'
<1> USE PeerTableAssumption DEF Tick, cryptoVars, indexVars, tableVars, historyVars
<1>1. Types'
  BY DEF IInv, TypeOK, Types, IsHash
<1>2. QED
  BY <1>1 DEF IInv, TypeOK, WithinCap, SharedNamesItself, IndexResolves,
              AddressesFor, Value, KeyedEntries, CreditsAreSeen

\* Every step keeps the invariant.
LEMMA NextIInv == IInv /\ [Next]_vars => IInv'
<1> SUFFICES ASSUME IInv, [Next]_vars PROVE IInv'
  OBVIOUS
<1>1. CASE Tick
  BY <1>1, TickIInv
<1>2. CASE \E m \in OnTheWire : Presence(m)
  BY <1>2, PresenceTakenIInv, PresenceRepeatedIInv, PresenceFiledIInv,
     PresenceUnprovedIInv DEF Presence
<1>3. CASE PruneStalePeers
  BY <1>3, PruneIInv
<1>4. CASE \E a \in RoomNames : InstallSharedSession(a) \/ DropSharedSession(a)
  BY <1>4, InstallIInv, DropIInv
<1>5. CASE UNCHANGED vars
  <2> USE <1>5 DEF vars, cryptoVars, indexVars, tableVars, historyVars
  <2>1. Types'
    BY DEF IInv, TypeOK, Types, IsHash
  <2>2. QED
    BY <2>1 DEF IInv, TypeOK, WithinCap, SharedNamesItself, IndexResolves,
                AddressesFor, Value, KeyedEntries, CreditsAreSeen
<1>6. QED
  BY <1>1, <1>2, <1>3, <1>4, <1>5 DEF Next, LanNext

\* So it holds throughout.
LEMMA SpecIInv == Spec => []IInv
BY InitIInv, NextIInv, PTL DEF Spec
-----------------------------------------------------------------------------
(* The theorems. *)

\* Every table holds what its type says, an identity that no room call gave for
\* an address is remembered at between one and MaxPeerAddresses addresses, and
\* the peer table never outgrows its cap (kMaxPeerAddresses, kMaxPeers).
THEOREM TablesWellFormed == Spec => []TypeOK
BY SpecIInv, PTL DEF IInv

\* What an address resolves to has a session and lists the address, whatever
\* handshakes, evictions and room calls came before, if it is not a peer whose
\* id some room call gave for an address.
THEOREM AddressesResolve == Spec => []IndexResolves
BY SpecIInv, PTL DEF IInv

\* handlePresence(): one entry per identity, however many addresses it is
\* heard from and whatever was evicted or pruned in between.
THEOREM OneEntry == Spec => []OneEntryPerIdentity
<1>1. IInv => OneEntryPerIdentity
  BY DEF IInv, KeyedEntries, OneEntryPerIdentity
<1>2. QED
  BY <1>1, SpecIInv, PTL

\* handlePresence(): a beacon refreshes its sender at most once, so copies of
\* an old one do not keep a dead peer looking alive - while no room call gave a
\* peer's id for its address.
THEOREM BeaconsCountOnce == Spec => []NoRevival
<1>1. IInv => NoRevival
  BY DEF IInv, CreditsAreSeen, NoRevival
<1>2. QED
  BY <1>1, SpecIInv, PTL

\* Neither presence nor the end of a room call takes a handshake's session,
\* unless that call gave the peer's id for its address.
THEOREM SessionsStay == Spec => HandshakeSessionsStay
<1>1. [Next]_vars => sessionKeys \cap (Peers \ named') \subseteq sessionKeys'
  BY DEF Next, LanNext, Tick, Presence, PresenceTaken, PresenceRepeated,
         PresenceFiled, PresenceUnproved, ProcessHandshake, Establish,
         PruneStalePeers, InstallSharedSession, DropSharedSession,
         vars, cryptoVars, indexVars, tableVars, historyVars
<1>2. [Next]_vars => [sessionKeys \cap (Peers \ named') \subseteq sessionKeys']_vars
  BY <1>1
<1>3. QED
  BY <1>2, PTL DEF Spec, HandshakeSessionsStay
-----------------------------------------------------------------------------
(* The LAN on its own: no room call names anything. *)

\* Without room calls the index works both ways: an address some identity
\* lists resolves to that identity.
ListedAddressesAreOwned ==
    \A p \in DOMAIN idToAddresses :
        \A x \in Elements(idToAddresses[p]) :
            x \in DOMAIN addressToId /\ addressToId[x] = p

LanInv == IInv /\ named = {} /\ ListedAddressesAreOwned

LEMMA EstablishKeepsOwners ==
    ASSUME NEW a \in Addrs, NEW p \in Peers,
           Types, SharedNamesItself, IndexResolves, ListedAddressesAreOwned,
           named = {}, ~Taken(a, p), Establish(a, p)
    PROVE  ListedAddressesAreOwned'
<1> DEFINE old == AddressesFor(idToAddresses, p)
           list == NewestFirst(old, a)
           moved == Insert(addressToId, a, p)
           dropped == {x \in Elements(old) \ Elements(list) :
                           x \in DOMAIN moved /\ moved[x] = p}
<1>1. /\ idToAddresses' = Insert(idToAddresses, p, list)
      /\ addressToId' = Remove(moved, dropped)
  BY EstablishFacts
<1>2. old \in Seq(Ids)
  BY DEF AddressesFor, Value, Types, IsHash
<1>3. Elements(list) \subseteq Elements(old) \cup {a}
  BY <1>2, NewestFirstFacts DEF Ids
<1>4. \A x \in Elements(old) : x \in DOMAIN addressToId /\ addressToId[x] = p
  BY DEF ListedAddressesAreOwned, AddressesFor, Value, Elements
<1> HIDE DEF old, list
<1> SUFFICES ASSUME NEW q \in DOMAIN idToAddresses',
                    NEW x \in Elements(idToAddresses'[q])
             PROVE  x \in DOMAIN addressToId' /\ addressToId'[x] = q
  BY DEF ListedAddressesAreOwned
<1>5. CASE q = p
  <2>1. x \in Elements(list)
    BY <1>1, <1>5 DEF Insert
  <2>2. x \in DOMAIN moved /\ moved[x] = p
    BY <1>3, <1>4, <2>1 DEF Insert
  <2>3. QED
    BY <1>1, <1>5, <2>1, <2>2 DEF Remove
<1>6. CASE q # p
  <2>1. q \in DOMAIN idToAddresses /\ idToAddresses'[q] = idToAddresses[q]
    BY <1>1, <1>6 DEF Insert
  <2>2. x \in DOMAIN addressToId /\ addressToId[x] = q
    BY <2>1 DEF ListedAddressesAreOwned
  <2>3. x # a
    BY <1>6, <2>2, PeerTableAssumption
       DEF Taken, IndexResolves
  <2>4. x \in DOMAIN moved /\ moved[x] = q
    BY <2>2, <2>3 DEF Insert
  <2>5. QED
    BY <1>1, <1>6, <2>4 DEF Remove
<1>7. QED
  BY <1>5, <1>6

\* The empty index is owned, and every step on a LAN keeps it so.
LEMMA InitLanInv == Init => LanInv
BY InitIInv DEF Init, EmptyHash, ListedAddressesAreOwned, LanInv

LEMMA NextLanInv == LanInv /\ [LanNext]_vars => LanInv'
<1> SUFFICES ASSUME LanInv, [LanNext]_vars
             PROVE  LanInv'
  OBVIOUS
<1> USE DEF LanInv
<1>1. IInv'
  BY NextIInv DEF Next
<1>2. named' = {}
  BY DEF LanNext, Tick, Presence, PresenceTaken, PresenceRepeated, PresenceFiled,
         PresenceUnproved, PruneStalePeers, vars, historyVars
<1>3. CASE UNCHANGED <<addressToId, idToAddresses>>
  BY <1>1, <1>2, <1>3 DEF ListedAddressesAreOwned
<1>4. ASSUME NEW m \in OnTheWire, PresenceRepeated(m) \/ PresenceFiled(m)
      PROVE  LanInv'
  <2>1. CASE Establish(m.from, m.id)
    BY <1>1, <1>2, <1>4, <2>1, BeaconFacts, EstablishKeepsOwners
       DEF PresenceRepeated, PresenceFiled, IInv, TypeOK
  <2>2. CASE UNCHANGED indexVars
    BY <1>3, <2>2 DEF indexVars
  <2>3. QED
    BY <1>4, <2>1, <2>2 DEF PresenceRepeated, PresenceFiled, ProcessHandshake
<1>5. QED
  BY <1>3, <1>4 DEF LanNext, Tick, Presence, PresenceTaken, PresenceUnproved,
                    PruneStalePeers, vars, cryptoVars, indexVars

\* processHandshakeFrom() raises peerIdentityChanged for an identity only at an
\* address that identity was never heard from - as long as no room call
\* borrows an address: the end of one makes the index forget it.
THEOREM OnlyStrangersAlarm == LanSpec => OnlyNewcomersAlarm
<1>1. LanInv /\ [LanNext]_vars
        => [\A a \in Addrs, p \in Peers :
                /\ Value(warnedIdPub', a, None) = p
                /\ Value(warnedIdPub, a, None) # p
                => a \notin Elements(AddressesFor(idToAddresses, p))]_vars
  <2> SUFFICES ASSUME LanInv, LanNext,
                      NEW a \in Addrs, NEW p \in Peers,
                      Value(warnedIdPub', a, None) = p,
                      Value(warnedIdPub, a, None) # p
               PROVE  a \notin Elements(AddressesFor(idToAddresses, p))
    OBVIOUS
  <2>1. warnedIdPub' # warnedIdPub
    OBVIOUS
  <2>2. PICK m \in OnTheWire : PresenceTaken(m)
    BY <2>1 DEF LanNext, Tick, Presence, PresenceRepeated, PresenceFiled,
                PresenceUnproved, PruneStalePeers, cryptoVars
  <2>3. m.from = a /\ m.id = p
    BY <2>2 DEF PresenceTaken, Insert, Value
  <2>4. a \in DOMAIN addressToId /\ addressToId[a] # p
    BY <2>2, <2>3 DEF PresenceTaken, Taken
  <2>5. QED
    BY <2>4 DEF LanInv, ListedAddressesAreOwned, AddressesFor, Value, Elements
<1>2. QED
  BY InitLanInv, NextLanInv, <1>1, PTL DEF LanSpec, OnlyNewcomersAlarm

\* A peer with sound handshakes is filed under an address that resolves to it.
FiledWhereOwned ==
    \A p \in DOMAIN peerKeyById : Kind[p] = "sound" =>
        /\ peerKeyById[p] \in DOMAIN addressToId
        /\ addressToId[peerKeyById[p]] = p

\* No address is forgotten: none falls off the end of an identity's list.
NothingForgotten == DOMAIN addressToId \subseteq DOMAIN addressToId'

\* An address never changes hands while its owner has a session.
LEMMA EstablishKeepsOwner ==
    ASSUME NEW a \in Addrs, NEW p \in Peers,
           LanInv, ~Taken(a, p), ProcessHandshake(a, p), NothingForgotten
    PROVE  /\ \A x \in DOMAIN addressToId : addressToId'[x] = addressToId[x]
           /\ Kind[p] = "sound" => a \in DOMAIN addressToId' /\ addressToId'[a] = p
<1>1. CASE UNCHANGED indexVars /\ Kind[p] = "unusable"
  BY <1>1 DEF indexVars
<1>2. CASE Establish(a, p)
  <2> DEFINE old == AddressesFor(idToAddresses, p)
             list == NewestFirst(old, a)
             moved == Insert(addressToId, a, p)
             dropped == {x \in Elements(old) \ Elements(list) :
                             x \in DOMAIN moved /\ moved[x] = p}
  <2>1. addressToId' = Remove(moved, dropped)
    BY <1>2, EstablishFacts DEF LanInv, IInv, TypeOK
  <2>2. old \in Seq(Ids)
    BY DEF AddressesFor, Value, LanInv, IInv, TypeOK, Types, IsHash
  <2>3. a \in Elements(list)
    BY <2>2, NewestFirstFacts DEF Ids
  <2> HIDE DEF old, list
  <2>4. a \in DOMAIN addressToId' /\ addressToId'[a] = p
    BY <2>1, <2>3 DEF Remove, Insert
  <2>5. \A x \in DOMAIN addressToId : addressToId'[x] = addressToId[x]
    BY <2>1 DEF NothingForgotten, Remove, Insert, Taken, LanInv, IInv, IndexResolves
  <2>6. QED
    BY <2>4, <2>5
<1>3. QED
  BY <1>1, <1>2 DEF ProcessHandshake

\* What filing does to the two tables.
LEMMA FileFacts ==
    ASSUME NEW m \in OnTheWire, PresenceFiled(m)
    PROVE  \E gone :
        /\ peers' = Insert(Remove(peers, gone), Key(m),
                           [from_id |-> m.id, proved |-> TRUE, last_seen |-> clock])
        /\ peerKeyById' = Insert(KeysWithout(gone), m.id, Key(m))
BY DEF PresenceFiled, File

LEMMA FiledStepKeepsOwner ==
    ASSUME LanInv, FiledWhereOwned, NothingForgotten,
           NEW m \in OnTheWire, PresenceFiled(m)
    PROVE  FiledWhereOwned'
<1> USE BeaconFacts
<1>1. /\ \A x \in DOMAIN addressToId : addressToId'[x] = addressToId[x]
      /\ Kind[m.id] = "sound" =>
             m.from \in DOMAIN addressToId' /\ addressToId'[m.from] = m.id
  BY EstablishKeepsOwner DEF PresenceFiled
<1>2. PICK gone : peerKeyById' = Insert(KeysWithout(gone), m.id, Key(m))
  BY FileFacts
<1>3. Kind[m.id] = "sound" =>
          Key(m) \in DOMAIN addressToId' /\ addressToId'[Key(m)] = m.id
  BY <1>1 DEF Key, Value, FiledWhereOwned, NothingForgotten
<1>4. QED
  BY <1>1, <1>2, <1>3
     DEF FiledWhereOwned, NothingForgotten, Insert, KeysWithout, Remove

\* Every step on a LAN that forgets no address keeps every peer with sound
\* handshakes where it owns the address.
LEMMA NextFiledWhereOwned ==
    LanInv /\ FiledWhereOwned /\ [LanNext]_vars /\ [NothingForgotten]_vars
        => FiledWhereOwned'
<1> SUFFICES ASSUME LanInv, FiledWhereOwned, [LanNext]_vars,
                    [NothingForgotten]_vars
             PROVE  FiledWhereOwned'
  OBVIOUS
<1>1. CASE UNCHANGED vars
  BY <1>1 DEF vars, cryptoVars, indexVars, tableVars, FiledWhereOwned
<1>2. CASE Tick \/ \E m \in OnTheWire : PresenceTaken(m)
  BY <1>2 DEF Tick, PresenceTaken, cryptoVars, indexVars, tableVars, FiledWhereOwned
<1>3. ASSUME NEW m \in OnTheWire, PresenceRepeated(m)
      PROVE  FiledWhereOwned'
  <2>1. CASE NothingForgotten
    <3>1. \A x \in DOMAIN addressToId : addressToId'[x] = addressToId[x]
      BY <1>3, <2>1, BeaconFacts, EstablishKeepsOwner DEF PresenceRepeated
    <3>2. QED
      BY <1>3, <2>1, <3>1
         DEF PresenceRepeated, tableVars, FiledWhereOwned, NothingForgotten
  <2>2. QED
    BY <1>1, <2>1
<1>4. ASSUME NEW m \in OnTheWire, PresenceFiled(m)
      PROVE  FiledWhereOwned'
  BY <1>1, <1>4, FiledStepKeepsOwner
<1>5. ASSUME NEW m \in OnTheWire, NEW claimed, PresenceUnproved(m, claimed)
      PROVE  FiledWhereOwned'
  BY <1>5 DEF PresenceUnproved, cryptoVars, indexVars, File, KeysWithout, Remove,
              FiledWhereOwned
<1>6. CASE PruneStalePeers
  BY <1>6 DEF PruneStalePeers, cryptoVars, indexVars, KeysWithout, Remove,
              FiledWhereOwned
<1>7. QED
  BY <1>1, <1>2, <1>3, <1>4, <1>5, <1>6 DEF LanNext, Presence

\* handlePresence(): as long as nothing is forgotten and no room call borrows
\* an address, no two identities with sound handshakes are ever filed under one
\* address, so the from_ip that handleDatagram() writes names its sender.  The
\* conditions are needed: a room call displaces and then erases the mapping,
\* and a refused handshake keys its identity without the index hearing of it.
THEOREM NobodySharesAnEntry ==
    LanSpec /\ [][NothingForgotten]_vars => []NoSharedEntry
<1>1. Init => FiledWhereOwned
  BY DEF Init, EmptyHash, FiledWhereOwned
<1>2. FiledWhereOwned => NoSharedEntry
  BY DEF FiledWhereOwned, NoSharedEntry
<1>3. QED
  BY InitLanInv, NextLanInv, NextFiledWhereOwned, <1>1, <1>2, PTL DEF LanSpec

\* evictOldestPeer(), pruneStalePeers(): where every handshake is sound, under
\* the same conditions, an entry takes its identity's key along when it leaves
\* the table and no other beacon takes it over, however full the table is.
THEOREM KeysAlwaysFollowEntries ==
    ASSUME \A p \in Peers : Kind[p] = "sound"
    PROVE  LanSpec /\ [][NothingForgotten]_vars => []KeysFollowEntries
<1>1. Init => FiledWhereOwned /\ KeysLeadHome
  BY DEF Init, EmptyHash, FiledWhereOwned, KeysLeadHome
<1>2. LanInv /\ FiledWhereOwned /\ KeysLeadHome /\ [LanNext]_vars
             /\ [NothingForgotten]_vars
        => KeysLeadHome'
  <2> SUFFICES ASSUME LanInv, FiledWhereOwned, KeysLeadHome, [LanNext]_vars,
                      [NothingForgotten]_vars
               PROVE  KeysLeadHome'
    OBVIOUS
  <2>1. CASE UNCHANGED tableVars
    BY <2>1 DEF tableVars, KeysLeadHome
  <2>2. ASSUME NEW m \in OnTheWire, PresenceFiled(m)
        PROVE  KeysLeadHome'
    <3>1. PICK gone :
              /\ peers' = Insert(Remove(peers, gone), Key(m),
                                 [from_id |-> m.id, proved |-> TRUE, last_seen |-> clock])
              /\ peerKeyById' = Insert(KeysWithout(gone), m.id, Key(m))
      BY <2>2, FileFacts
    <3>2. FiledWhereOwned' \/ UNCHANGED vars
      BY NextFiledWhereOwned
    <3> SUFFICES ASSUME NEW q \in DOMAIN peerKeyById', FiledWhereOwned',
                        Kind[q] = "sound"
                 PROVE  /\ peerKeyById'[q] \in DOMAIN peers'
                        /\ peers'[peerKeyById'[q]].from_id = q
      BY <2>1, <3>2 DEF KeysLeadHome, vars
    <3>3. CASE q = m.id
      BY <3>1, <3>3 DEF Insert
    <3>4. CASE q # m.id
      <4>1. /\ q \in DOMAIN peerKeyById
            /\ peerKeyById'[q] = peerKeyById[q]
            /\ peerKeyById[q] \notin gone
        BY <3>1, <3>4 DEF Insert, KeysWithout, Remove, KeysLeadHome
      <4>2. q \in Peers /\ m.id \in Peers /\ m.id \in DOMAIN peerKeyById'
            /\ peerKeyById'[m.id] = Key(m)
        BY <3>1, <4>1, BeaconFacts DEF Insert, LanInv, IInv, TypeOK, Types, IsHash
      <4>3. peerKeyById[q] # Key(m)
        BY <3>4, <4>1, <4>2 DEF FiledWhereOwned
      <4>4. QED
        BY <3>1, <4>1, <4>3 DEF KeysLeadHome, Insert, Remove
    <3>5. QED
      BY <3>3, <3>4
  <2>3. CASE PruneStalePeers
    BY <2>3 DEF PruneStalePeers, KeysWithout, Remove, KeysLeadHome
  <2>4. ASSUME NEW m \in OnTheWire, NEW claimed, PresenceUnproved(m, claimed)
        PROVE  KeysLeadHome'
    BY <2>4, BeaconFacts DEF PresenceUnproved, ProvesIdentity
  <2>5. QED
    BY <2>1, <2>2, <2>3, <2>4
       DEF LanNext, Tick, Presence, PresenceTaken, PresenceRepeated, vars
<1>3. LanInv /\ KeysLeadHome => KeysFollowEntries
  BY DEF LanInv, IInv, KeyedEntries, OneEntryPerIdentity, KeysFollowEntries
<1>4. QED
  BY InitLanInv, NextLanInv, NextFiledWhereOwned, <1>1, <1>2, <1>3, PTL DEF LanSpec
=============================================================================
