---------------------------- MODULE GuardsProofs ----------------------------
(***************************************************************************)
(* What the parts that stand between a host and the network or its disk    *)
(* keep, each for every value of its constants: the replay guard, the rate *)
(* limiter, the table of incomplete files, the encrypted store and the     *)
(* texts that cross the LAN.                                               *)
(***************************************************************************)
EXTENDS MCGuards, FiniteSetTheorems, WellFoundedInduction, TLAPS

(* The replay guard: any number of senders, any caps, and any time to live *)
(* of at least two windows.                                                *)

\* What checkReplay(p) works with on its way.
NewYoung(p) ==
    Young(Insert(Bucket(p.from), p, [ts |-> now, seq |-> nonceSeq + 1]))
NewKept(p) == Remove(NewYoung(p), OlderHalf(NewYoung(p)))
NewBuckets(p) == Insert(seenNonces, p.from, NewKept(p))
NewTouched(p) == Insert(nonceBucketTouched, p.from, nonceSeq + 1)

\* The tables are finite and number their arrivals by nonceSeq.
Finite ==
    /\ IsFiniteSet(DOMAIN seenNonces)
    /\ \A b \in DOMAIN seenNonces : IsFiniteSet(DOMAIN seenNonces[b])

Numbered ==
    /\ \A b \in DOMAIN seenNonces : \A p \in DOMAIN seenNonces[b] :
           seenNonces[b][p].seq <= nonceSeq
    /\ \A b \in DOMAIN nonceBucketTouched : nonceBucketTouched[b] <= nonceSeq
    /\ \A b, c \in DOMAIN nonceBucketTouched :
           nonceBucketTouched[b] = nonceBucketTouched[c] => b = c
    /\ \A b \in DOMAIN seenNonces : \A p, q \in DOMAIN seenNonces[b] :
           seenNonces[b][p].seq = seenNonces[b][q].seq => p = q

\* A packet in the cache arrived inside its window and passed at most once more
\* than it was forgotten; one out of the cache has been forgotten as often as
\* it passed, or is past its window for good.
Remembered ==
    \A p \in Packets :
        /\ admissions[p] <= 1 + forgotten[p]
        /\ IF p \in DOMAIN Bucket(p.from)
           THEN p.ts - Bucket(p.from)[p].ts <= Window
           ELSE admissions[p] <= forgotten[p] \/ now - p.ts > Window

ReplayInv == TypeOK /\ Finite /\ Numbered /\ NewestKept /\ Remembered
-----------------------------------------------------------------------------
\* A finite set grows by at most one member at a time.
LEMMA OneMore ==
    ASSUME NEW S, IsFiniteSet(S), NEW x
    PROVE  /\ IsFiniteSet(S \cup {x})
           /\ Cardinality(S) \in Nat /\ Cardinality(S \cup {x}) \in Nat
           /\ x \notin S => Cardinality(S \cup {x}) = Cardinality(S) + 1
           /\ Cardinality(S \cup {x}) <= Cardinality(S) + 1
  BY FS_AddElement, FS_CardinalityType

\* A nonempty set of natural numbers has a least element.
LEMMA LeastNatural ==
    ASSUME NEW S \in SUBSET Nat, S # {}
    PROVE  \E n \in S : \A m \in S : n <= m
<1>1. PICK n \in S : \A m \in S : <<m, n>> \notin OpToRel(<, Nat)
  BY NatLessThanWellFounded, WFMin
<1>2. \A m \in S : ~(m < n)
  BY <1>1 DEF OpToRel
<1>3. QED
  BY <1>2

\* What is left of a sender's bucket after the new nonce and the sweep: the
\* nonce, and of the old entries those that have not outlived their time.
LEMMA YoungFacts ==
    ASSUME ReplayInv, NEW p \in Packets, p \notin DOMAIN Bucket(p.from)
    PROVE  /\ p \in DOMAIN NewYoung(p)
           /\ NewYoung(p)[p] = [ts |-> now, seq |-> nonceSeq + 1]
           /\ DOMAIN NewYoung(p) \ {p} \subseteq DOMAIN Bucket(p.from)
           /\ \A q \in DOMAIN NewYoung(p) \ {p} :
                  /\ NewYoung(p)[q] = Bucket(p.from)[q]
                  /\ q \in Packets /\ q.from = p.from
                  /\ NewYoung(p)[q] \in Seen
                  /\ NewYoung(p)[q].seq <= nonceSeq
           /\ \A q \in DOMAIN Bucket(p.from) \ DOMAIN NewYoung(p) :
                  now - Bucket(p.from)[q].ts > Ttl
           /\ IsFiniteSet(DOMAIN NewYoung(p))
           /\ Cardinality(DOMAIN NewYoung(p)) <= MaxNoncesPerPeer + 1
<1> DEFINE old == Bucket(p.from)
           entry == [ts |-> now, seq |-> nonceSeq + 1]
           young == NewYoung(p)
<1>1. now \in 0..MaxClock /\ nonceSeq \in Nat /\ Ttl \in Nat
      /\ MaxNoncesPerPeer \in Nat /\ p.from \in Senders
  BY ReplayGuardAssumption DEF ReplayInv, TypeOK, Types, Packets
<1>2. /\ IsHash(old, Packets, Seen)
      /\ \A q \in DOMAIN old : q.from = p.from /\ old[q].seq <= nonceSeq
  BY DEF ReplayInv, TypeOK, Types, Numbered, Bucket, Value, EmptyHash, IsHash
<1>3. IsFiniteSet(DOMAIN old) /\ Cardinality(DOMAIN old) <= MaxNoncesPerPeer
  <2>1. CASE p.from \in DOMAIN seenNonces
    BY <2>1 DEF ReplayInv, TypeOK, WithinCaps, Finite, Bucket, Value
  <2>2. CASE p.from \notin DOMAIN seenNonces
    <3>1. DOMAIN old = {}
      BY <2>2 DEF Bucket, Value, EmptyHash
    <3>2. QED
      BY <3>1, <1>1, FS_EmptySet
  <2>3. QED
    BY <2>1, <2>2
<1>4. /\ DOMAIN young = {q \in DOMAIN old \cup {p} :
                            ~Expired(IF q = p THEN entry ELSE old[q])}
      /\ \A q \in DOMAIN young : young[q] = IF q = p THEN entry ELSE old[q]
  BY DEF NewYoung, Young, Insert, Remove
<1>5. ~Expired(entry)
  BY <1>1 DEF Expired
<1>6. /\ IsFiniteSet(DOMAIN old \cup {p})
      /\ Cardinality(DOMAIN old \cup {p}) <= MaxNoncesPerPeer + 1
  <2>1. Cardinality(DOMAIN old) \in Nat
    BY <1>3, FS_CardinalityType
  <2>2. IsFiniteSet(DOMAIN old \cup {p})
        /\ Cardinality(DOMAIN old \cup {p}) = Cardinality(DOMAIN old) + 1
    <3> HIDE DEF old
    <3>1. p \notin DOMAIN old
      BY DEF old
    <3>2. QED
      BY <1>3, <3>1, FS_AddElement
  <2>3. QED
    BY <1>1, <1>3, <2>1, <2>2
<1>7. /\ IsFiniteSet(DOMAIN young)
      /\ Cardinality(DOMAIN young) <= MaxNoncesPerPeer + 1
  <2>1. DOMAIN young \subseteq DOMAIN old \cup {p}
    BY <1>4
  <2>2. IsFiniteSet(DOMAIN young)
        /\ Cardinality(DOMAIN young) <= Cardinality(DOMAIN old \cup {p})
    BY <1>6, <2>1, FS_Subset
  <2>3. Cardinality(DOMAIN young) \in Nat
        /\ Cardinality(DOMAIN old \cup {p}) \in Nat
    BY <1>6, <2>2, FS_CardinalityType
  <2>4. QED
    BY <1>1, <1>6, <2>2, <2>3
<1>8. \A q \in DOMAIN old \ DOMAIN young : now - old[q].ts > Ttl
  BY <1>4 DEF Expired
<1>9. p \in DOMAIN young /\ young[p] = entry
  BY <1>4, <1>5
<1>10. \A q \in DOMAIN young \ {p} :
          q \in DOMAIN old /\ young[q] = old[q] /\ q \in Packets
          /\ old[q] \in Seen
  BY <1>2, <1>4 DEF IsHash
<1> HIDE DEF old, young
<1>11. QED
  BY <1>2, <1>7, <1>8, <1>9, <1>10 DEF old, young

\* No two entries of it arrived at once.
LEMMA YoungApart ==
    ASSUME ReplayInv, NEW p \in Packets, p \notin DOMAIN Bucket(p.from),
           NEW q \in DOMAIN NewYoung(p), NEW r \in DOMAIN NewYoung(p),
           NewYoung(p)[q].seq = NewYoung(p)[r].seq
    PROVE  q = r
<1>1. nonceSeq \in Nat
  BY DEF ReplayInv, TypeOK, Types
<1>2. \A x \in DOMAIN NewYoung(p) \ {p} :
          /\ x \in DOMAIN Bucket(p.from) /\ NewYoung(p)[x] = Bucket(p.from)[x]
          /\ NewYoung(p)[x].seq \in Nat /\ NewYoung(p)[x].seq <= nonceSeq
  BY YoungFacts DEF Seen
<1>3. NewYoung(p)[p].seq = nonceSeq + 1
  BY YoungFacts
<1>4. q = p <=> r = p
  BY <1>1, <1>2, <1>3
<1>5. \A x, y \in DOMAIN Bucket(p.from) :
          Bucket(p.from)[x].seq = Bucket(p.from)[y].seq => x = y
  BY DEF ReplayInv, Numbered, Bucket, Value, EmptyHash
<1>6. QED
  BY <1>2, <1>4, <1>5

\* Past its cap the bucket loses its oldest arrival and never its newest.
LEMMA KeptFacts ==
    ASSUME ReplayInv, NEW p \in Packets, p \notin DOMAIN Bucket(p.from)
    PROVE  /\ p \in DOMAIN NewKept(p)
           /\ DOMAIN NewKept(p) \subseteq DOMAIN NewYoung(p)
           /\ \A q \in DOMAIN NewKept(p) : NewKept(p)[q] = NewYoung(p)[q]
           /\ IsFiniteSet(DOMAIN NewKept(p))
           /\ Cardinality(DOMAIN NewKept(p)) <= MaxNoncesPerPeer
<1> DEFINE young == NewYoung(p)
           D == DOMAIN young
           half == Cardinality(D) \div 2
<1>1. /\ p \in D /\ IsFiniteSet(D) /\ Cardinality(D) <= MaxNoncesPerPeer + 1
      /\ young[p].seq = nonceSeq + 1
      /\ \A q \in D \ {p} : young[q].seq \in Nat /\ young[q].seq <= nonceSeq
  BY YoungFacts DEF Seen
<1>2. nonceSeq \in Nat /\ MaxNoncesPerPeer \in Nat \ {0}
  BY ReplayGuardAssumption DEF ReplayInv, TypeOK, Types
<1>3. Cardinality(D) \in Nat
  BY <1>1, FS_CardinalityType
<1>4. /\ DOMAIN NewKept(p) = D \ OlderHalf(young)
      /\ \A q \in DOMAIN NewKept(p) : NewKept(p)[q] = young[q]
  BY DEF NewKept, Remove
<1>5. CASE Cardinality(D) <= MaxNoncesPerPeer
  <2>1. OlderHalf(young) = {}
    BY <1>5 DEF OlderHalf
  <2>2. QED
    BY <1>1, <1>4, <1>5, <2>1
<1>6. CASE ~(Cardinality(D) <= MaxNoncesPerPeer)
  <2>1. Cardinality(D) = MaxNoncesPerPeer + 1
    BY <1>1, <1>2, <1>3, <1>6
  <2>2. half \in Nat /\ 0 < half /\ half < Cardinality(D)
    BY <1>2, <2>1
  <2>3. OlderHalf(young) = {q \in D : Before(young, q) < half}
    BY <1>6 DEF OlderHalf
  <2>4. p \notin OlderHalf(young)
    <3>1. {q \in D : young[q].seq < young[p].seq} = D \ {p}
      BY <1>1, <1>2
    <3>2. Cardinality(D \ {p}) = Cardinality(D) - 1
      BY <1>1, FS_RemoveElement
    <3>3. Before(young, p) = Cardinality(D) - 1
      BY <3>1, <3>2 DEF Before
    <3> HIDE DEF half, D
    <3>4. QED
      BY <1>3, <2>2, <2>3, <3>3
  <2>5. PICK q \in D : q \in OlderHalf(young)
    <3> DEFINE S == {young[q].seq : q \in D}
    <3>1. S \in SUBSET Nat /\ S # {}
      BY <1>1, <1>2
    <3>2. PICK n \in S : \A m \in S : n <= m
      BY <3>1, LeastNatural
    <3>3. PICK q \in D : young[q].seq = n
      BY <3>2
    <3>4. {r \in D : young[r].seq < young[q].seq} = {}
      <4> HIDE DEF D, young
      <4>1. \A r \in D : young[r].seq \in S
        OBVIOUS
      <4>2. \A r \in D : young[q].seq <= young[r].seq
        BY <3>2, <3>3, <4>1
      <4>3. \A r \in D : young[r].seq \in Nat
        BY <3>1, <4>1
      <4>4. QED
        BY <4>2, <4>3
    <3>5. Before(young, q) = 0
      BY <3>4, FS_EmptySet DEF Before
    <3> HIDE DEF half, D
    <3>6. QED
      BY <2>2, <2>3, <3>3, <3>5
  <2>6. /\ IsFiniteSet(D \ {q}) /\ Cardinality(D \ {q}) = Cardinality(D) - 1
    BY <1>1, <2>5, FS_RemoveElement
  <2>7. DOMAIN NewKept(p) \subseteq D \ {q}
    BY <1>4, <2>5
  <2>8. /\ IsFiniteSet(DOMAIN NewKept(p))
        /\ Cardinality(DOMAIN NewKept(p)) <= Cardinality(D \ {q})
    BY <2>6, <2>7, FS_Subset
  <2>9. Cardinality(DOMAIN NewKept(p)) \in Nat
    BY <2>8, FS_CardinalityType
  <2>10. Cardinality(DOMAIN NewKept(p)) <= MaxNoncesPerPeer
    <3> HIDE DEF D
    <3>1. QED
      BY <1>2, <2>1, <2>6, <2>8, <2>9
  <2>11. QED
    BY <1>1, <1>4, <2>4, <2>8, <2>10
<1>7. QED
  BY <1>5, <1>6

\* One bucket too many means one eviction, of the least recently touched, and
\* the bucket just touched is not it: the fallback that clears everything is
\* never taken.
LEMMA GoneFacts ==
    ASSUME ReplayInv, NEW p \in Packets, p \notin DOMAIN Bucket(p.from)
    PROVE  /\ p.from \notin LeastRecent(NewTouched(p))
           /\ IsFiniteSet(DOMAIN NewBuckets(p))
           /\ Cardinality(DOMAIN NewBuckets(p) \ LeastRecent(NewTouched(p)))
                <= MaxNoncePeers
<1> DEFINE touched == NewTouched(p)
           D == DOMAIN touched
           gone == LeastRecent(touched)
<1>1. nonceSeq \in Nat /\ MaxNoncePeers \in Nat \ {0}
  BY ReplayGuardAssumption DEF ReplayInv, TypeOK, Types
<1>2. D = DOMAIN seenNonces \cup {p.from} /\ DOMAIN NewBuckets(p) = D
  BY DEF ReplayInv, NewestKept, NewTouched, NewBuckets, Insert
<1>3. /\ \A b \in D : touched[b] \in Nat /\ touched[b] <= nonceSeq + 1
      /\ touched[p.from] = nonceSeq + 1
      /\ \A b, c \in D : touched[b] = touched[c] => b = c
  BY <1>1 DEF NewTouched, Insert, ReplayInv, TypeOK, Types, IsHash, Numbered
<1>4. /\ IsFiniteSet(DOMAIN seenNonces)
      /\ Cardinality(DOMAIN seenNonces) \in Nat
      /\ Cardinality(DOMAIN seenNonces) <= MaxNoncePeers
  BY FS_CardinalityType DEF ReplayInv, Finite, TypeOK, WithinCaps
<1>5. /\ IsFiniteSet(D) /\ Cardinality(D) \in Nat
      /\ Cardinality(D) <= MaxNoncePeers + 1
  <2> HIDE DEF D
  <2>1. IsFiniteSet(D) /\ Cardinality(D) <= Cardinality(DOMAIN seenNonces) + 1
    <3> DEFINE before == DOMAIN seenNonces
    <3> HIDE DEF before
    <3>1. IsFiniteSet(before) /\ Cardinality(before) \in Nat
      BY <1>4 DEF before
    <3>2. /\ IsFiniteSet(before \cup {p.from})
          /\ Cardinality(before \cup {p.from})
               = IF p.from \in before THEN Cardinality(before)
                                      ELSE Cardinality(before) + 1
      BY <3>1, FS_AddElement
    <3>3. D = before \cup {p.from}
      BY <1>2 DEF before
    <3>4. QED
      BY <3>1, <3>2, <3>3 DEF before
  <2>2. QED
    BY <1>1, <1>4, <2>1, FS_CardinalityType
<1>6. p.from \notin gone
  <2>1. {c \in D : touched[c] > touched[p.from]} = {}
    BY <1>1, <1>3
  <2>2. Cardinality({c \in D : touched[c] > touched[p.from]}) = 0
    BY <2>1, FS_EmptySet
  <2>3. QED
    BY <1>1, <2>2 DEF LeastRecent
<1>7. Cardinality(D \ gone) <= MaxNoncePeers
  <2>1. CASE Cardinality(D) <= MaxNoncePeers
    <3>1. Cardinality(D \ gone) <= Cardinality(D) /\ IsFiniteSet(D \ gone)
      BY <1>5, FS_Subset
    <3>2. Cardinality(D \ gone) \in Nat
      BY <3>1, FS_CardinalityType
    <3> HIDE DEF D, gone
    <3>3. QED
      BY <1>1, <1>5, <2>1, <3>1, <3>2
  <2>2. CASE ~(Cardinality(D) <= MaxNoncePeers)
    <3> DEFINE S == {touched[b] : b \in D}
    <3>1. S \in SUBSET Nat /\ S # {}
      BY <1>2, <1>3
    <3>2. PICK n \in S : \A m \in S : n <= m
      BY <3>1, LeastNatural
    <3>3. PICK b \in D : touched[b] = n
      BY <3>2
    <3>4. {c \in D : touched[c] > touched[b]} = D \ {b}
      BY <1>3, <3>2, <3>3
    <3>5. IsFiniteSet(D \ {b}) /\ Cardinality(D \ {b}) = Cardinality(D) - 1
      BY <1>5, <3>3, FS_RemoveElement
    <3>6. Cardinality(D \ {b}) = MaxNoncePeers
      <4> HIDE DEF D
      <4>1. QED
        BY <1>1, <1>5, <2>2, <3>5
    <3>7. b \in gone
      BY <1>1, <3>3, <3>4, <3>6 DEF LeastRecent
    <3>8. IsFiniteSet(D \ gone) /\ Cardinality(D \ gone) <= Cardinality(D \ {b})
      <4>1. D \ gone \subseteq D \ {b}
        BY <3>7
      <4>2. QED
        BY <3>5, <4>1, FS_Subset
    <3>9. QED
      BY <3>6, <3>8
  <2>3. QED
    BY <2>1, <2>2
<1>8. QED
  BY <1>2, <1>5, <1>6, <1>7

\* The tables after checkReplay(p) has said yes.
LEMMA CheckReplayEffect ==
    ASSUME ReplayInv, NEW p \in Packets, CheckReplay(p)
    PROVE  /\ p \notin DOMAIN Bucket(p.from)
           /\ seenNonces' = Remove(NewBuckets(p), LeastRecent(NewTouched(p)))
           /\ nonceBucketTouched' =
                  Remove(NewTouched(p), LeastRecent(NewTouched(p)))
<1>1. /\ p \notin DOMAIN Bucket(p.from)
      /\ EvictOldestNoncePeers(NewBuckets(p), NewTouched(p))
  BY DEF CheckReplay, NewBuckets, NewTouched, NewKept, NewYoung
<1>2. ~(Cardinality(DOMAIN NewBuckets(p) \ LeastRecent(NewTouched(p)))
          > MaxNoncePeers)
  <2>1. /\ IsFiniteSet(DOMAIN NewBuckets(p) \ LeastRecent(NewTouched(p)))
        /\ Cardinality(DOMAIN NewBuckets(p) \ LeastRecent(NewTouched(p)))
             <= MaxNoncePeers
    BY <1>1, GoneFacts, FS_Subset
  <2>2. QED
    BY <2>1, FS_CardinalityType, ReplayGuardAssumption
<1>3. QED
  BY <1>1, <1>2 DEF EvictOldestNoncePeers

\* Where the entries of the new cache come from: the bucket of the sender is
\* what NewKept() left of it, the others are as they were.
LEMMA NewCache ==
    ASSUME ReplayInv, NEW p \in Packets, CheckReplay(p)
    PROVE  /\ p.from \in DOMAIN seenNonces'
           /\ seenNonces'[p.from] = NewKept(p)
           /\ nonceBucketTouched'[p.from] = nonceSeq + 1
           /\ \A b \in DOMAIN seenNonces' \ {p.from} :
                  /\ b \in DOMAIN seenNonces
                  /\ b \in DOMAIN nonceBucketTouched
                  /\ seenNonces'[b] = seenNonces[b]
                  /\ nonceBucketTouched'[b] = nonceBucketTouched[b]
           /\ DOMAIN nonceBucketTouched' = DOMAIN seenNonces'
           /\ DOMAIN seenNonces' \subseteq DOMAIN NewBuckets(p)
<1>1. p.from \notin LeastRecent(NewTouched(p))
  BY CheckReplayEffect, GoneFacts
<1>2. DOMAIN nonceBucketTouched = DOMAIN seenNonces
  BY DEF ReplayInv, NewestKept
<1> DEFINE gone == LeastRecent(NewTouched(p))
<1>3. /\ DOMAIN NewBuckets(p) = DOMAIN seenNonces \cup {p.from}
      /\ NewBuckets(p)[p.from] = NewKept(p)
      /\ \A b \in DOMAIN seenNonces \ {p.from} :
             NewBuckets(p)[b] = seenNonces[b]
  BY DEF NewBuckets, Insert
<1>4. /\ DOMAIN NewTouched(p) = DOMAIN seenNonces \cup {p.from}
      /\ NewTouched(p)[p.from] = nonceSeq + 1
      /\ \A b \in DOMAIN seenNonces \ {p.from} :
             NewTouched(p)[b] = nonceBucketTouched[b]
  BY <1>2 DEF NewTouched, Insert
<1>5. /\ DOMAIN seenNonces' = DOMAIN NewBuckets(p) \ gone
      /\ \A b \in DOMAIN seenNonces' : seenNonces'[b] = NewBuckets(p)[b]
  BY CheckReplayEffect DEF Remove
<1>6. /\ DOMAIN nonceBucketTouched' = DOMAIN NewTouched(p) \ gone
      /\ \A b \in DOMAIN nonceBucketTouched' :
             nonceBucketTouched'[b] = NewTouched(p)[b]
  BY CheckReplayEffect DEF Remove
<1> HIDE DEF gone
<1>7. p.from \notin gone
  BY <1>1 DEF gone
<1>8. QED
  BY <1>2, <1>3, <1>4, <1>5, <1>6, <1>7

\* An admitted packet keeps the invariant.
LEMMA CheckReplayIInv ==
    ASSUME ReplayInv, NEW p \in Packets, CheckReplay(p)
    PROVE  ReplayInv'
<1> DEFINE b0 == p.from
<1>1. /\ now \in 0..MaxClock /\ now' = now
      /\ nonceSeq \in Nat /\ nonceSeq' = nonceSeq + 1
      /\ b0 \in Senders /\ p.ts \in Int
      /\ Window \in Nat /\ Ttl \in Nat /\ Ttl >= 2 * Window
  BY ReplayGuardAssumption DEF ReplayInv, TypeOK, Types, CheckReplay, Packets
<1>2. /\ p \notin DOMAIN Bucket(b0)
      /\ IsHash(NewKept(p), Packets, Seen)
      /\ \A q \in DOMAIN NewKept(p) :
             /\ q.from = b0
             /\ NewKept(p)[q].seq <= nonceSeq + 1
      /\ p \in DOMAIN NewKept(p)
      /\ NewKept(p)[p] = [ts |-> now, seq |-> nonceSeq + 1]
      /\ \A q \in DOMAIN NewKept(p) \ {p} :
             /\ q \in DOMAIN Bucket(b0)
             /\ NewKept(p)[q] = Bucket(b0)[q]
  <2>1. p \notin DOMAIN Bucket(b0)
    BY CheckReplayEffect
  <2>2. [ts |-> now, seq |-> nonceSeq + 1] \in Seen
    BY <1>1 DEF Seen
  <2>3. \A q \in DOMAIN NewYoung(p) : NewYoung(p)[q].seq <= nonceSeq + 1
    BY <1>1, <2>1, YoungFacts DEF Seen
  <2>4. \A q \in DOMAIN NewYoung(p) :
            q \in Packets /\ q.from = b0 /\ NewYoung(p)[q] \in Seen
    BY <2>1, <2>2, YoungFacts
  <2>5. QED
    BY <2>1, <2>3, <2>4, YoungFacts, KeptFacts DEF IsHash
<1>3. Types'
  <2>1. IsHash(nonceBucketTouched', Senders, Nat)
        /\ DOMAIN seenNonces' \subseteq Senders
    BY <1>1, NewCache DEF IsHash, ReplayInv, TypeOK, Types
  <2>2. \A b \in DOMAIN seenNonces' :
            /\ IsHash(seenNonces'[b], Packets, Seen)
            /\ \A q \in DOMAIN seenNonces'[b] : q.from = b
    BY <1>2, NewCache DEF ReplayInv, TypeOK, Types
  <2>3. admissions' \in [Packets -> Nat] /\ forgotten' \in [Packets -> Nat]
    <3>1. admissions \in [Packets -> Nat] /\ forgotten \in [Packets -> Nat]
      BY DEF ReplayInv, TypeOK, Types
    <3>2. QED
      BY <3>1 DEF CheckReplay
  <2>4. QED
    BY <1>1, <2>1, <2>2, <2>3 DEF Types
<1>4. Finite' /\ WithinCaps'
  <2>1. p \notin DOMAIN Bucket(b0)
    BY <1>2
  <2>2. DOMAIN seenNonces' = DOMAIN NewBuckets(p) \ LeastRecent(NewTouched(p))
    BY CheckReplayEffect DEF Remove
  <2>3. IsFiniteSet(DOMAIN seenNonces')
        /\ Cardinality(DOMAIN seenNonces') <= MaxNoncePeers
    BY <2>1, <2>2, GoneFacts, FS_Subset
  <2>4. \A b \in DOMAIN seenNonces' :
            /\ IsFiniteSet(DOMAIN seenNonces'[b])
            /\ Cardinality(DOMAIN seenNonces'[b]) <= MaxNoncesPerPeer
    BY <2>1, KeptFacts, NewCache DEF ReplayInv, TypeOK, WithinCaps, Finite
  <2>5. QED
    BY <2>3, <2>4 DEF Finite, WithinCaps
<1>5. Numbered'
  <2>1. \A b \in DOMAIN seenNonces' : \A q \in DOMAIN seenNonces'[b] :
            seenNonces'[b][q].seq <= nonceSeq + 1
    <3> SUFFICES ASSUME NEW b \in DOMAIN seenNonces',
                        NEW q \in DOMAIN seenNonces'[b]
                 PROVE  seenNonces'[b][q].seq <= nonceSeq + 1
      OBVIOUS
    <3>1. CASE b = b0
      BY <1>2, <3>1, NewCache
    <3>2. CASE b # b0
      <4>1. /\ b \in DOMAIN seenNonces /\ seenNonces'[b] = seenNonces[b]
        BY <3>2, NewCache
      <4>2. seenNonces[b][q] \in Seen /\ seenNonces[b][q].seq <= nonceSeq
        BY <4>1 DEF ReplayInv, TypeOK, Types, Numbered, IsHash
      <4>3. QED
        BY <1>1, <4>1, <4>2 DEF Seen
    <3>3. QED
      BY <3>1, <3>2
  <2>2. \A b \in DOMAIN nonceBucketTouched' :
            /\ nonceBucketTouched'[b] <= nonceSeq + 1
            /\ b # b0 => nonceBucketTouched'[b] <= nonceSeq
    <3>1. \A b \in DOMAIN nonceBucketTouched :
              nonceBucketTouched[b] \in Nat /\ nonceBucketTouched[b] <= nonceSeq
      BY DEF ReplayInv, TypeOK, Types, IsHash, Numbered
    <3>2. QED
      BY <1>1, <3>1, NewCache
  <2>3. \A b, c \in DOMAIN nonceBucketTouched' :
            nonceBucketTouched'[b] = nonceBucketTouched'[c] => b = c
    <3>1. \A b \in DOMAIN nonceBucketTouched' :
              nonceBucketTouched'[b] \in Nat
      BY <1>3 DEF Types, IsHash
    <3>2. \A b \in DOMAIN nonceBucketTouched' \ {b0} :
              nonceBucketTouched'[b] # nonceBucketTouched'[b0]
      BY <1>1, <2>2, <3>1, NewCache
    <3>3. \A b, c \in DOMAIN nonceBucketTouched' \ {b0} :
              nonceBucketTouched'[b] = nonceBucketTouched'[c] => b = c
      BY NewCache DEF ReplayInv, Numbered
    <3>4. QED
      BY <3>2, <3>3
  <2>4. \A b \in DOMAIN seenNonces' : \A q, r \in DOMAIN seenNonces'[b] :
            seenNonces'[b][q].seq = seenNonces'[b][r].seq => q = r
    <3> SUFFICES ASSUME NEW b \in DOMAIN seenNonces',
                        NEW q \in DOMAIN seenNonces'[b],
                        NEW r \in DOMAIN seenNonces'[b],
                        seenNonces'[b][q].seq = seenNonces'[b][r].seq
                 PROVE  q = r
      OBVIOUS
    <3>1. CASE b = b0
      BY <1>2, <3>1, NewCache, KeptFacts, YoungApart
    <3>2. CASE b # b0
      BY <3>2, NewCache DEF ReplayInv, Numbered
    <3>3. QED
      BY <3>1, <3>2
  <2>5. QED
    BY <1>1, <2>1, <2>2, <2>3, <2>4 DEF Numbered
<1>6. NewestKept'
  <2>1. \A b \in DOMAIN seenNonces' :
            \E q \in DOMAIN seenNonces'[b] :
                seenNonces'[b][q].seq = nonceBucketTouched'[b]
    BY <1>2, NewCache DEF ReplayInv, NewestKept
  <2>2. QED
    BY <1>1, <2>1, NewCache DEF NewestKept
<1>7. Remembered'
  <2> SUFFICES ASSUME NEW q \in Packets
               PROVE  /\ admissions'[q] <= 1 + forgotten'[q]
                      /\ IF q \in DOMAIN Bucket(q.from)'
                         THEN q.ts - Bucket(q.from)'[q].ts <= Window
                         ELSE admissions'[q] <= forgotten'[q]
                              \/ now - q.ts > Window
    BY <1>1 DEF Remembered
  <2> DEFINE was == q \in DOMAIN Bucket(q.from)
             is == q \in DOMAIN Bucket(q.from)'
             passed == IF q = p THEN 1 ELSE 0
             swept == was /\ q.from = b0 /\ q \notin DOMAIN NewYoung(p)
             lost == (was \/ q = p) /\ ~is /\ ~swept
  <2>1. /\ admissions[q] \in Nat /\ forgotten[q] \in Nat /\ q.ts \in Int
        /\ admissions'[q] = admissions[q] + passed
        /\ forgotten'[q] = forgotten[q] + (IF lost THEN 1 ELSE 0)
    <3>1. /\ admissions[q] \in Nat /\ forgotten[q] \in Nat /\ q.ts \in Int
          /\ admissions'[q] = admissions[q] + passed
      <4>1. q.ts \in Int
        BY ReplayGuardAssumption DEF Packets
      <4>2. admissions \in [Packets -> Nat] /\ forgotten \in [Packets -> Nat]
        BY DEF ReplayInv, TypeOK, Types
      <4>3. admissions' = [admissions EXCEPT ![p] = @ + 1]
        BY DEF CheckReplay
      <4>4. QED
        BY <4>1, <4>2, <4>3
    <3>2. lost <=> /\ q \in DOMAIN (IF q.from = b0 THEN NewYoung(p)
                                                ELSE Bucket(q.from))
                   /\ ~is
      <4>1. p \in DOMAIN NewYoung(p)
            /\ DOMAIN NewYoung(p) \ {p} \subseteq DOMAIN Bucket(b0)
        BY <1>2, YoungFacts
      <4>2. QED
        BY <1>2, <4>1
    <3>3. forgotten'[q] =
              IF /\ q \in DOMAIN (IF q.from = b0 THEN NewYoung(p)
                                                 ELSE Bucket(q.from))
                 /\ ~is
              THEN forgotten[q] + 1 ELSE forgotten[q]
      BY DEF CheckReplay, NewYoung, Bucket
    <3>4. QED
      BY <3>1, <3>2, <3>3
  <2>2. /\ admissions[q] <= 1 + forgotten[q]
        /\ IF was THEN q.ts - Bucket(q.from)[q].ts <= Window
                  ELSE admissions[q] <= forgotten[q] \/ now - q.ts > Window
    BY DEF ReplayInv, Remembered
  <2>3. CASE is /\ q # p
    <3>1. was /\ Bucket(q.from)'[q] = Bucket(q.from)[q]
      <4>1. /\ q.from \in DOMAIN seenNonces'
            /\ Bucket(q.from)' = seenNonces'[q.from]
        BY <2>3 DEF Bucket, Value, EmptyHash
      <4>2. CASE q.from = b0
        BY <1>2, <2>3, <4>1, <4>2, NewCache
      <4>3. CASE q.from # b0
        BY <2>3, <4>1, <4>3, NewCache DEF Bucket, Value
      <4>4. QED
        BY <4>2, <4>3
    <3>2. QED
      BY <2>1, <2>2, <2>3, <3>1
  <2>4. CASE q = p
    <3>1. /\ ~was /\ is /\ Bucket(q.from)'[q].ts = now
      BY <1>2, <2>4, NewCache DEF Bucket, Value
    <3>2. now - p.ts <= Window /\ p.ts - now <= Window
      BY <1>1 DEF CheckReplay, Fresh, Abs
    <3>3. QED
      BY <1>1, <2>1, <2>2, <2>4, <3>1, <3>2
  <2>5. CASE ~is /\ q # p /\ swept
    <3>1. /\ now - Bucket(q.from)[q].ts > Ttl
      BY <1>2, <2>5, YoungFacts
    <3>2. Bucket(q.from)[q].ts \in Int
      <4>1. q.from \in DOMAIN seenNonces
        BY <2>5 DEF Bucket, Value, EmptyHash
      <4>2. Bucket(q.from)[q] \in Seen
        BY <2>5, <4>1 DEF Bucket, Value, ReplayInv, TypeOK, Types, IsHash
      <4>3. QED
        BY <4>2 DEF Seen
    <3>3. q.ts - Bucket(q.from)[q].ts <= Window
      BY <2>2, <2>5
    <3>4. now - q.ts > Window
      BY <1>1, <2>1, <3>1, <3>2, <3>3
    <3>5. QED
      BY <2>1, <2>2, <2>5, <3>4
  <2>6. CASE ~is /\ q # p /\ ~swept
    <3>1. CASE was
      BY <2>1, <2>2, <2>6, <3>1
    <3>2. CASE ~was
      BY <2>1, <2>2, <2>6, <3>2
    <3>3. QED
      BY <3>1, <3>2
  <2>7. QED
    BY <2>3, <2>4, <2>5, <2>6
<1>8. QED
  BY <1>3, <1>4, <1>5, <1>6, <1>7 DEF ReplayInv, TypeOK

\* Time passing only makes packets too old.
LEMMA PassIInv ==
    ASSUME ReplayInv, Pass
    PROVE  ReplayInv'
<1>1. /\ now \in 0..MaxClock /\ now' \in 0..MaxClock /\ now' > now
      /\ UNCHANGED <<seenNonces, nonceBucketTouched, nonceSeq, admissions,
                     forgotten>>
  BY ReplayGuardAssumption DEF ReplayInv, TypeOK, Types, Pass
<1>2. TypeOK'
  BY <1>1 DEF ReplayInv, TypeOK, Types, WithinCaps
<1>3. Finite' /\ Numbered' /\ NewestKept'
  BY <1>1 DEF ReplayInv, Finite, Numbered, NewestKept
<1>4. Remembered'
  <2>1. \A p \in Packets : p.ts \in Int /\ Window \in Nat
    BY ReplayGuardAssumption DEF Packets
  <2>2. \A p \in Packets : now - p.ts > Window => now' - p.ts > Window
    BY <1>1, <2>1
  <2>3. \A p \in Packets : Bucket(p.from)' = Bucket(p.from)
    BY <1>1 DEF Bucket
  <2>4. QED
    BY <1>1, <2>2, <2>3 DEF ReplayInv, Remembered
<1>5. QED
  BY <1>2, <1>3, <1>4 DEF ReplayInv

\* The empty cache satisfies the invariant.
LEMMA InitIInv == Init => ReplayInv
<1> SUFFICES ASSUME Init PROVE ReplayInv
  OBVIOUS
<1> USE ReplayGuardAssumption DEF Init, EmptyHash
<1>1. Types
  BY DEF Types, IsHash
<1>2. Finite /\ WithinCaps
  BY FS_EmptySet DEF Finite, WithinCaps
<1>3. Numbered /\ NewestKept
  BY DEF Numbered, NewestKept
<1>4. Remembered
  BY DEF Remembered, Bucket, Value
<1>5. QED
  BY <1>1, <1>2, <1>3, <1>4 DEF ReplayInv, TypeOK

\* Every step keeps it.
LEMMA NextIInv == ReplayInv /\ [Next]_vars => ReplayInv'
<1> SUFFICES ASSUME ReplayInv, [Next]_vars PROVE ReplayInv'
  OBVIOUS
<1>1. CASE Pass
  BY <1>1, PassIInv
<1>2. ASSUME NEW p \in Packets, CheckReplay(p) PROVE ReplayInv'
  BY <1>2, CheckReplayIInv
<1>3. CASE UNCHANGED vars
  BY <1>3 DEF vars, ReplayInv, TypeOK, Types, WithinCaps, Finite, Numbered,
              NewestKept, Remembered, Bucket
<1>4. QED
  BY <1>1, <1>2, <1>3 DEF Next

\* So it holds throughout.
LEMMA SpecIInv == Spec => []ReplayInv
BY InitIInv, NextIInv, PTL DEF Spec
-----------------------------------------------------------------------------
\* However many senders flood it, the cache keeps its type and both its caps.
THEOREM CacheBounded == Spec => []TypeOK
BY SpecIInv, PTL DEF ReplayInv

\* The two hashes of checkReplay() never disagree and the newest arrival is
\* never lost: evictOldestNoncePeers() never clears the cache.
THEOREM HashesAgree == Spec => []NewestKept
BY SpecIInv, PTL DEF ReplayInv

\* A packet passes at most once, and once more for each time a cap forgot it:
\* a time to live of two windows is enough for every clock skew the window
\* admits.
THEOREM PassesOnce == Spec => []AtMostOnce
<1>1. ReplayInv => AtMostOnce
  BY DEF ReplayInv, Remembered, AtMostOnce
<1>2. QED
  BY <1>1, SpecIInv, PTL

\* checkReplay() answers as NonceLog does, which forgets only what the caps
\* strike: the initial state is its initial state, an admission its admission
\* and time passing its passing of time.
THEOREM CacheImplementsLog == Spec => Implements
<1>1. Init => Log!Init
  BY DEF Init, Log!Init
<1>2. ASSUME ReplayInv, [Next]_vars
      PROVE  [Log!Next]_<<now, admissions, forgotten>>
  <2>1. CASE Pass
    <3>1. now' > now
      BY <1>2, <2>1, ReplayGuardAssumption DEF Pass, ReplayInv, TypeOK, Types
    <3>2. QED
      BY <2>1, <3>1 DEF Pass, Log!Pass, Log!Next
  <2>2. ASSUME NEW p \in Packets, CheckReplay(p)
        PROVE  Log!Next
    <3>1. /\ now \in Int /\ p.ts \in Int /\ Window \in Nat
          /\ admissions \in [Packets -> Nat]
          /\ forgotten \in [Packets -> Nat]
      <4>1. /\ now \in Int /\ admissions \in [Packets -> Nat]
            /\ forgotten \in [Packets -> Nat]
        BY <1>2 DEF ReplayInv, TypeOK, Types
      <4>2. p.ts \in Int /\ Window \in Nat
        BY ReplayGuardAssumption DEF Packets
      <4>3. QED
        BY <4>1, <4>2
    <3>2. now - p.ts <= Window /\ p.ts - now <= Window
      BY <2>2, <3>1 DEF CheckReplay, Fresh, Abs
    <3>3. now - p.ts \in (-Window)..Window
      BY <3>1, <3>2
    <3>4. admissions[p] <= forgotten[p]
      <4>1. p \notin DOMAIN Bucket(p.from)
        BY <2>2 DEF CheckReplay
      <4>2. ~(now - p.ts > Window)
        BY <3>1, <3>2
      <4>3. QED
        BY <1>2, <4>1, <4>2 DEF ReplayInv, Remembered
    <3>5. admissions' = [admissions EXCEPT ![p] = @ + 1] /\ now' = now
      BY <2>2 DEF CheckReplay
    <3>6. \A q \in Packets : forgotten'[q] \in {forgotten[q], forgotten[q] + 1}
      BY <2>2 DEF CheckReplay
    <3>7. QED
      BY <3>3, <3>4, <3>5, <3>6 DEF Log!Next, Log!Admit, Log!Inside
  <2>3. CASE UNCHANGED vars
    BY <2>3 DEF vars
  <2>4. QED
    BY <1>2, <2>1, <2>2, <2>3 DEF Next
<1>3. QED
  BY <1>1, <1>2, SpecIInv, PTL DEF Spec, Implements, Log!Spec
-----------------------------------------------------------------------------
\* What a bucket forgets for its cap has more newer arrivals in it than half
\* the cap.
LEMMA HalfSurvives ==
    ASSUME ReplayInv, NEW p \in Packets, p \notin DOMAIN Bucket(p.from),
           NEW q \in DOMAIN NewYoung(p) \ DOMAIN NewKept(p)
    PROVE  /\ \A r \in DOMAIN NewKept(p) : NewKept(p)[r].seq > NewYoung(p)[q].seq
           /\ Cardinality(DOMAIN NewKept(p)) > MaxNoncesPerPeer \div 2
<1> DEFINE young == NewYoung(p)
           D == DOMAIN young
           half == Cardinality(D) \div 2
           lost == OlderHalf(young)
<1>1. /\ IsFiniteSet(D) /\ Cardinality(D) \in Nat
      /\ \A r \in D : young[r].seq \in Nat /\ young[r].seq <= nonceSeq + 1
  <2>1. IsFiniteSet(D) /\ nonceSeq \in Nat
    BY YoungFacts DEF ReplayInv, TypeOK, Types
  <2>2. \A r \in D : young[r].seq \in Nat /\ young[r].seq <= nonceSeq + 1
    BY <2>1, YoungFacts DEF Seen
  <2>3. QED
    BY <2>1, <2>2, FS_CardinalityType
<1>2. nonceSeq \in Nat /\ MaxNoncesPerPeer \in Nat
  BY ReplayGuardAssumption DEF ReplayInv, TypeOK, Types
<1>3. /\ DOMAIN NewKept(p) = D \ lost /\ q \in lost
      /\ \A r \in DOMAIN NewKept(p) : NewKept(p)[r] = young[r]
  BY DEF NewKept, Remove
<1>4. /\ ~(Cardinality(D) <= MaxNoncesPerPeer)
      /\ lost = {r \in D : Before(young, r) < half}
  BY <1>3 DEF OlderHalf
<1>5. \A r \in D : /\ IsFiniteSet({m \in D : young[m].seq < young[r].seq})
                   /\ Before(young, r) \in Nat
  <2> TAKE r \in D
  <2>1. IsFiniteSet({m \in D : young[m].seq < young[r].seq})
    BY <1>1, FS_Subset
  <2>2. QED
    BY <2>1, FS_CardinalityType DEF Before
<1>6. \A r, x \in D : young[r].seq <= young[x].seq =>
          Before(young, r) <= Before(young, x)
  <2> SUFFICES ASSUME NEW r \in D, NEW x \in D, young[r].seq <= young[x].seq
               PROVE  Before(young, r) <= Before(young, x)
    OBVIOUS
  <2>1. {m \in D : young[m].seq < young[r].seq}
          \subseteq {m \in D : young[m].seq < young[x].seq}
    <3> HIDE DEF young, D
    <3>1. QED
      BY <1>1 
  <2>2. QED
    BY <1>5, <2>1, FS_Subset DEF Before
<1>7. half \in Nat /\ half < Cardinality(D)
  BY <1>1, <1>2, <1>4
<1>8. \A r \in DOMAIN NewKept(p), x \in lost : young[r].seq > young[x].seq
  <2> SUFFICES ASSUME NEW r \in D \ lost, NEW x \in lost
               PROVE  young[r].seq > young[x].seq
    BY <1>3
  <2>1. ~(Before(young, r) < half) /\ Before(young, x) < half /\ x \in D
    BY <1>4
  <2>2. Before(young, r) \in Nat /\ Before(young, x) \in Nat /\ half \in Nat
    BY <1>5, <1>7, <2>1
  <2> HIDE DEF young, D, lost, half
  <2>3. ~(Before(young, r) <= Before(young, x))
    BY <2>1, <2>2
  <2>4. ~(young[r].seq <= young[x].seq)
    BY <1>6, <2>1, <2>3
  <2>5. QED
    BY <1>1, <2>1, <2>4
<1>9. PICK x \in lost : \A y \in lost : young[y].seq <= young[x].seq
  <2> DEFINE S == {nonceSeq + 1 - young[y].seq : y \in lost}
  <2>1. S \in SUBSET Nat /\ S # {}
    BY <1>1, <1>2, <1>3, <1>4
  <2>2. PICK n \in S : \A m \in S : n <= m
    BY <2>1, LeastNatural
  <2>3. PICK x \in lost : nonceSeq + 1 - young[x].seq = n
    BY <2>2
  <2>4. \A y \in lost : nonceSeq + 1 - young[x].seq <= nonceSeq + 1 - young[y].seq
    BY <2>2, <2>3
  <2>5. \A y \in lost : young[y].seq \in Nat
    BY <1>1, <1>4
  <2> HIDE DEF lost, young
  <2>6. QED
    BY <1>2, <2>3, <2>4, <2>5
<1>10. lost \subseteq {m \in D : young[m].seq < young[x].seq} \cup {x}
  <2> SUFFICES ASSUME NEW y \in lost, y # x
               PROVE  y \in D /\ young[y].seq < young[x].seq
    OBVIOUS
  <2>1. y \in D /\ x \in D /\ young[y].seq <= young[x].seq
    BY <1>4, <1>9
  <2>2. young[y].seq # young[x].seq
    BY <2>1, YoungApart
  <2>3. QED
    BY <1>1, <2>1, <2>2
<1>11. IsFiniteSet(lost) /\ Cardinality(lost) \in Nat /\ Cardinality(lost) <= half
  <2> DEFINE L == {m \in D : young[m].seq < young[x].seq}
  <2>1. x \in D /\ Before(young, x) < half /\ Before(young, x) \in Nat
        /\ Before(young, x) = Cardinality(L) /\ IsFiniteSet(L)
    BY <1>4, <1>5 DEF Before
  <2> HIDE DEF L, lost, half, D, young
  <2>2. IsFiniteSet(L \cup {x}) /\ Cardinality(L \cup {x}) <= Cardinality(L) + 1
        /\ Cardinality(L \cup {x}) \in Nat
    BY <2>1, OneMore
  <2>3. IsFiniteSet(lost) /\ Cardinality(lost) <= Cardinality(L \cup {x})
    BY <1>10, <2>2, FS_Subset DEF L
  <2>4. Cardinality(lost) \in Nat
    BY <2>3, FS_CardinalityType
  <2>5. QED
    BY <1>7, <2>1, <2>2, <2>3, <2>4
<1>12. Cardinality(D \ lost) = Cardinality(D) - Cardinality(lost)
  <2>1. lost \subseteq D
    BY <1>4
  <2>2. /\ Cardinality(D \ lost) = Cardinality(D) - Cardinality(D \cap lost)
        /\ D \cap lost = lost
    BY <1>1, <2>1, FS_Difference
  <2>3. QED
    BY <2>2
<1>13. Cardinality(DOMAIN NewKept(p)) > MaxNoncesPerPeer \div 2
  <2>1. Cardinality(DOMAIN NewKept(p)) = Cardinality(D) - Cardinality(lost)
    BY <1>3, <1>12
  <2>2. Cardinality(D) - half > MaxNoncesPerPeer \div 2
    <3> HIDE DEF D
    <3>1. QED
      BY <1>1, <1>2, <1>4
  <2> HIDE DEF half, D, lost
  <2>3. MaxNoncesPerPeer \div 2 \in Nat
    BY <1>2
  <2>4. QED
    BY <1>1, <1>7, <1>11, <2>1, <2>2, <2>3
<1>14. QED
  BY <1>3, <1>8, <1>13

\* A bucket is evicted when as many as there is room for are touched later, and
\* those stay.
LEMMA LaterStay ==
    ASSUME ReplayInv, NEW p \in Packets, p \notin DOMAIN Bucket(p.from),
           NEW b \in LeastRecent(NewTouched(p))
    PROVE  /\ \A c \in DOMAIN NewTouched(p) \ LeastRecent(NewTouched(p)) :
                  NewTouched(p)[c] > NewTouched(p)[b]
           /\ Cardinality(DOMAIN NewTouched(p) \ LeastRecent(NewTouched(p)))
                = MaxNoncePeers
<1> DEFINE touched == NewTouched(p)
           D == DOMAIN touched
           gone == LeastRecent(touched)
           Later(c) == {d \in D : touched[d] > touched[c]}
<1>1. nonceSeq \in Nat /\ MaxNoncePeers \in Nat
  BY ReplayGuardAssumption DEF ReplayInv, TypeOK, Types
<1>2. /\ D = DOMAIN NewBuckets(p)
      /\ IsFiniteSet(D) /\ Cardinality(D \ gone) <= MaxNoncePeers
  BY GoneFacts DEF ReplayInv, NewestKept, NewTouched, NewBuckets, Insert
<1>3. \A c \in D : touched[c] \in Nat /\ touched[c] <= nonceSeq + 1
  BY <1>1 DEF NewTouched, Insert, ReplayInv, TypeOK, Types, IsHash, Numbered
<1>4. gone = {c \in D : Cardinality(Later(c)) >= MaxNoncePeers}
  BY DEF LeastRecent
<1>5. \A c \in D : IsFiniteSet(Later(c)) /\ Cardinality(Later(c)) \in Nat
  <2> TAKE c \in D
  <2>1. IsFiniteSet(Later(c))
    BY <1>2, FS_Subset
  <2>2. QED
    BY <2>1, FS_CardinalityType
<1>6. b \in gone
  OBVIOUS
<1> HIDE DEF touched, D, gone
<1>7. \A c, d \in D : touched[c] <= touched[d] => Later(d) \subseteq Later(c)
  BY <1>3
<1>8. \A c \in D \ gone, d \in gone : touched[c] > touched[d]
  <2> SUFFICES ASSUME NEW c \in D \ gone, NEW d \in gone, touched[c] <= touched[d]
               PROVE  FALSE
    BY <1>3, <1>4
  <2>1. d \in D /\ Cardinality(Later(d)) >= MaxNoncePeers
    BY <1>4
  <2>2. ~(Cardinality(Later(c)) >= MaxNoncePeers)
    BY <1>4
  <2> HIDE DEF Later
  <2>3. Cardinality(Later(d)) <= Cardinality(Later(c))
    BY <1>5, <1>7, <2>1, FS_Subset
  <2>4. QED
    BY <1>1, <1>5, <2>1, <2>2, <2>3
<1>9. PICK x \in gone : \A y \in gone : touched[y] <= touched[x]
  <2> DEFINE S == {nonceSeq + 1 - touched[y] : y \in gone}
  <2>1. gone \subseteq D
    BY <1>4
  <2>2. S \in SUBSET Nat /\ S # {}
    <3>1. \A y \in gone : nonceSeq + 1 - touched[y] \in Nat
      BY <1>1, <1>3, <2>1
    <3>2. QED
      BY <1>6, <3>1
  <2>3. PICK n \in S : \A m \in S : n <= m
    BY <2>2, LeastNatural
  <2>4. PICK x \in gone : nonceSeq + 1 - touched[x] = n
    BY <2>3
  <2>5. \A y \in gone : nonceSeq + 1 - touched[x] <= nonceSeq + 1 - touched[y]
    BY <2>3, <2>4
  <2> HIDE DEF S
  <2>6. QED
    BY <1>1, <1>3, <2>1, <2>5
<1>10. Later(x) \subseteq D \ gone
  BY <1>3, <1>4, <1>9
<1>11. x \in D /\ Cardinality(Later(x)) >= MaxNoncePeers
  BY <1>4
<1>12. Cardinality(D \ gone) = MaxNoncePeers
  <2>1. IsFiniteSet(D \ gone) /\ Cardinality(D \ gone) \in Nat
    BY <1>2, FS_Subset, FS_CardinalityType
  <2> HIDE DEF Later
  <2>2. Cardinality(Later(x)) <= Cardinality(D \ gone)
    BY <1>10, <2>1, FS_Subset
  <2>3. QED
    BY <1>1, <1>2, <1>5, <1>11, <2>1, <2>2
<1>13. QED
  BY <1>8, <1>12 DEF D, gone, touched

\* Recent nonces of a real peer survive a flood from others: what an admission
\* forgets is past its time to live, in the older half of its own sender's
\* bucket, or in a bucket heard less recently than all that stay
\* (CryptoManager::checkReplay, evictOldestNoncePeers).
THEOREM RecentAlwaysSurvive == Spec => RecentSurvive
<1>1. ASSUME ReplayInv, NEW p \in Packets, CheckReplay(p),
             NEW b \in DOMAIN seenNonces, NEW q \in DOMAIN seenNonces[b],
             ~(b \in DOMAIN seenNonces' /\ q \in DOMAIN seenNonces'[b]),
             ~Expired(seenNonces[b][q])
      PROVE  \/ /\ b \in DOMAIN seenNonces'
                /\ Cardinality(Newer(b, q)) > MaxNoncesPerPeer \div 2
             \/ /\ b \notin DOMAIN seenNonces'
                /\ Cardinality(DOMAIN seenNonces') = MaxNoncePeers
                /\ \A c \in DOMAIN seenNonces' :
                       nonceBucketTouched'[c] > nonceBucketTouched[b]
  <2>1. p \notin DOMAIN Bucket(p.from)
    BY <1>1, CheckReplayEffect
  <2>2. CASE b = p.from
    <3>1. b \in DOMAIN seenNonces' /\ seenNonces'[b] = NewKept(p)
          /\ Bucket(p.from) = seenNonces[b]
      BY <1>1, <2>2, NewCache DEF Bucket, Value
    <3>2. q \in DOMAIN NewYoung(p)
      BY <1>1, <2>1, <2>2, <3>1 DEF NewYoung, Young, Insert, Remove
    <3>3. q # p /\ NewYoung(p)[q] = seenNonces[b][q]
      BY <1>1, <2>1, <3>1, <3>2, YoungFacts
    <3>4. /\ \A r \in DOMAIN NewKept(p) : NewKept(p)[r].seq > seenNonces[b][q].seq
          /\ Cardinality(DOMAIN NewKept(p)) > MaxNoncesPerPeer \div 2
      BY <1>1, <2>1, <3>1, <3>2, <3>3, HalfSurvives
    <3>5. Newer(b, q) = DOMAIN NewKept(p)
      BY <3>1, <3>4 DEF Newer
    <3>6. QED
      BY <3>1, <3>4, <3>5
  <2>3. CASE b # p.from
    <3> DEFINE touched == NewTouched(p)
               gone == LeastRecent(NewTouched(p))
    <3>1. /\ DOMAIN nonceBucketTouched = DOMAIN seenNonces
          /\ DOMAIN nonceBucketTouched' = DOMAIN seenNonces'
      BY <1>1, NewCache DEF ReplayInv, NewestKept
    <3>2. /\ DOMAIN seenNonces' = DOMAIN touched \ gone
          /\ \A c \in DOMAIN seenNonces' : nonceBucketTouched'[c] = touched[c]
      BY <1>1, <3>1, CheckReplayEffect DEF Remove
    <3>3. b \in DOMAIN touched /\ touched[b] = nonceBucketTouched[b]
      BY <1>1, <2>3, <3>1 DEF NewTouched, Insert
    <3> HIDE DEF touched, gone
    <3>4. b \notin DOMAIN seenNonces'
      BY <1>1, <2>3, NewCache
    <3>5. /\ \A c \in DOMAIN touched \ gone : touched[c] > touched[b]
          /\ Cardinality(DOMAIN touched \ gone) = MaxNoncePeers
      BY <1>1, <2>1, <3>2, <3>3, <3>4, LaterStay DEF touched, gone
    <3>6. QED
      BY <3>2, <3>3, <3>4, <3>5
  <2>4. QED
    BY <2>2, <2>3
<1>2. ReplayInv /\ [Next]_vars =>
          [\A b \in DOMAIN seenNonces : \A p \in DOMAIN seenNonces[b] :
              \/ b \in DOMAIN seenNonces' /\ p \in DOMAIN seenNonces'[b]
              \/ Expired(seenNonces[b][p])
              \/ /\ b \in DOMAIN seenNonces'
                 /\ Cardinality(Newer(b, p)) > MaxNoncesPerPeer \div 2
              \/ /\ b \notin DOMAIN seenNonces'
                 /\ Cardinality(DOMAIN seenNonces') = MaxNoncePeers
                 /\ \A c \in DOMAIN seenNonces' :
                        nonceBucketTouched'[c] > nonceBucketTouched[b]]_vars
  <2>1. CASE Pass
    BY <2>1 DEF Pass
  <2>2. QED
    BY <1>1, <2>1 DEF Next
<1>3. QED
  BY <1>2, SpecIInv, PTL DEF Spec, RecentSurvive
-----------------------------------------------------------------------------
(* The rate limiter: any number of sources, any cap of its table, and time *)
(* that passes as it likes.                                                *)
RateTyped ==
    /\ MaxPerSec \in Nat /\ Second \in Nat \ {0}

LEMMA RateCardinality == ASSUME NEW S PROVE Rate!Cardinality(S) = Cardinality(S)
  BY DEF Cardinality, Rate!Cardinality

\* What a table of windows and the calls granted so far have to do with each
\* other: a window holds calls that were granted, and every one that is not a
\* second old, though the window was thrown away in between.
WindowsTrue(counters, calls) ==
    \A s \in Sources :
        /\ Rate!Value(counters, s, {}) \subseteq calls[s]
        /\ Rate!Recent(calls[s]) \subseteq Rate!Value(counters, s, {})

\* The calls granted, counted: of each time they are numbered from 0.
Of(grants, at) == {g \in grants : g.at = at}
CallsTyped(calls) ==
    /\ calls = [s \in Sources |-> calls[s]]
    /\ \A s \in Sources :
           /\ IsFiniteSet(calls[s])
           /\ \A g \in calls[s] : g.at \in Nat /\ g.nth \in Nat /\ g.at <= rateNow
           /\ \A g \in calls[s] : g.nth < Cardinality(Of(calls[s], g.at))
WithinRate(calls) ==
    \A s \in Sources, t \in Nat :
        Cardinality(Rate!InASecond(calls[s], t)) <= MaxPerSec

RateTrue(counters, calls) ==
    WindowsTrue(counters, calls) /\ CallsTyped(calls) /\ WithinRate(calls)
RateInv == rateNow \in Nat /\ RateTrue(rateCounters, granted)

\* The window that a call is measured by is what was granted to its source
\* within the last second, whatever the sweep erased.
LEMMA SweptIsRecent ==
    ASSUME NEW counters, NEW calls, NEW s \in Sources, WindowsTrue(counters, calls)
    PROVE  /\ DOMAIN Rate!Swept(counters, s) \subseteq DOMAIN counters \cup {s}
           /\ s \in DOMAIN Rate!Swept(counters, s)
           /\ Rate!Swept(counters, s)[s] = Rate!Recent(calls[s])
           /\ \A q \in Sources \ {s} :
                  \/ Rate!Value(Rate!Swept(counters, s), q, {}) = Rate!Value(counters, q, {})
                  \/ /\ Rate!Value(Rate!Swept(counters, s), q, {}) = {}
                     /\ Rate!Recent(calls[q]) = {}
<1> DEFINE idle == Rate!Idle(counters)
           left == Rate!Remove(counters, idle)
<1>1. \A q \in idle : q \in DOMAIN counters /\ Rate!Recent(counters[q]) = {}
  BY DEF Rate!Idle, Rate!Recent
<1>2. \A q : Rate!Value(left, q, {}) = IF q \in idle THEN {} ELSE Rate!Value(counters, q, {})
  BY <1>1 DEF Rate!Remove, Rate!Value, Rate!Value
<1>3. Rate!Recent({}) = {}
  BY DEF Rate!Recent
<1>4. \A q \in Sources : Rate!Recent(Rate!Value(counters, q, {})) = Rate!Recent(calls[q])
  BY DEF WindowsTrue, Rate!Recent, Rate!Old
<1>5. \A q \in idle : Rate!Value(counters, q, {}) = counters[q]
  BY <1>1 DEF Rate!Value
<1>6. Rate!Swept(counters, s) = Rate!Insert(left, s, Rate!Recent(Rate!Value(left, s, {})))
  BY DEF Rate!Swept
<1>7. DOMAIN left = DOMAIN counters \ idle
  BY DEF Rate!Remove
<1> HIDE DEF left, idle
<1>8. Rate!Recent(Rate!Value(left, s, {})) = Rate!Recent(calls[s])
  BY <1>1, <1>2, <1>3, <1>4, <1>5
<1>9. \A q \in Sources \ {s} :
          Rate!Value(Rate!Swept(counters, s), q, {}) = Rate!Value(left, q, {})
  BY <1>6 DEF Rate!Insert, Rate!Value, Rate!Value
<1>10. /\ DOMAIN Rate!Swept(counters, s) = (DOMAIN counters \ idle) \cup {s}
       /\ Rate!Swept(counters, s)[s] = Rate!Recent(calls[s])
  BY <1>6, <1>7, <1>8 DEF Rate!Insert
<1>11. QED
  BY <1>1, <1>2, <1>4, <1>5, <1>9, <1>10

\* A call that is granted is not one that was counted before.
LEMMA GrantIsNew ==
    ASSUME NEW grants, IsFiniteSet(grants), rateNow \in Nat,
           \A g \in grants : g.at \in Nat /\ g.nth \in Nat /\ g.at <= rateNow,
           \A g \in grants : g.nth < Cardinality(Of(grants, g.at)),
           NEW new, new = [at |-> rateNow, nth |-> Cardinality(Rate!Now(grants))]
    PROVE  /\ new \notin grants /\ IsFiniteSet(grants \cup {new})
           /\ new.at = rateNow /\ new.nth \in Nat
           /\ \A g \in grants \cup {new} :
                  g.nth < Cardinality(Of(grants \cup {new}, g.at))
<1>1. \A at : IsFiniteSet(Of(grants, at)) /\ Cardinality(Of(grants, at)) \in Nat
  BY FS_Subset, FS_CardinalityType DEF Of
<1>2. new.at = rateNow /\ new.nth = Cardinality(Of(grants, rateNow))
  BY DEF Rate!Now, Of
<1>3. new \notin grants
  BY <1>1, <1>2
<1>4. \A at : Of(grants \cup {new}, at)
                  = IF at = rateNow THEN Of(grants, at) \cup {new} ELSE Of(grants, at)
  BY <1>2 DEF Of
<1>5. Cardinality(Of(grants, rateNow) \cup {new}) = Cardinality(Of(grants, rateNow)) + 1
  <2>1. new \notin Of(grants, rateNow)
    BY <1>3 DEF Of
  <2>2. QED
    BY <1>1, <2>1, OneMore
<1>6. ASSUME NEW g \in grants \cup {new}
      PROVE  g.nth < Cardinality(Of(grants \cup {new}, g.at))
  <2> DEFINE before == Cardinality(Of(grants, rateNow))
             later == Cardinality(Of(grants \cup {new}, rateNow))
  <2>0. before \in Nat /\ later = before + 1
    BY <1>1, <1>4, <1>5
  <2>1. CASE g = new
    <3>1. g.nth = before /\ g.at = rateNow
      BY <1>2, <2>1
    <3> HIDE DEF before
    <3>2. QED
      BY <2>0, <3>1
  <2>2. CASE g \in grants /\ g.at = rateNow
    <3>1. g.nth < before /\ g.nth \in Nat
      BY <2>2
    <3> HIDE DEF before
    <3>2. QED
      BY <2>0, <2>2, <3>1
  <2>3. CASE g \in grants /\ g.at # rateNow
    <3>1. Of(grants \cup {new}, g.at) = Of(grants, g.at)
      BY <1>4, <2>3
    <3>2. QED
      BY <2>3, <3>1
  <2>4. QED
    BY <2>1, <2>2, <2>3
<1>7. IsFiniteSet(grants \cup {new})
  BY FS_AddElement
<1>8. QED
  BY <1>1, <1>2, <1>3, <1>6, <1>7

\* One call of checkRate(), on any table and history that agree.
Calls(counters, calls, s) ==
    IF Rate!Granted(counters, s) THEN [calls EXCEPT ![s] = Rate!Grant(@)] ELSE calls

LEMMA CallKeeps ==
    ASSUME RateTyped, rateNow \in Nat, NEW counters, NEW calls, NEW s \in Sources,
           RateTrue(counters, calls)
    PROVE  RateTrue(Rate!CheckRate(counters, s), Calls(counters, calls, s))
<1> DEFINE swept == Rate!Swept(counters, s)
           recent == Rate!Recent(calls[s])
           new == [at |-> rateNow, nth |-> Cardinality(Rate!Now(calls[s]))]
<1>1. /\ s \in DOMAIN swept
      /\ swept[s] = recent
      /\ \A q \in Sources \ {s} :
             \/ Rate!Value(swept, q, {}) = Rate!Value(counters, q, {})
             \/ Rate!Value(swept, q, {}) = {} /\ Rate!Recent(calls[q]) = {}
  BY SweptIsRecent DEF RateTrue
<1>2. /\ IsFiniteSet(calls[s]) /\ calls = [q \in Sources |-> calls[q]]
      /\ \A g \in calls[s] : g.at \in Nat /\ g.nth \in Nat /\ g.at <= rateNow
      /\ \A g \in calls[s] : g.nth < Cardinality(Of(calls[s], g.at))
  BY DEF RateTrue, CallsTyped
<1>3. IsFiniteSet(recent) /\ recent \subseteq calls[s]
  BY <1>2, FS_Subset DEF Rate!Recent
<1>4. \A q \in Sources \ {s} :
          /\ Rate!Value(swept, q, {}) \subseteq calls[q]
          /\ Rate!Recent(calls[q]) \subseteq Rate!Value(swept, q, {})
  BY <1>1 DEF RateTrue, WindowsTrue
<1>5. CASE ~Rate!Granted(counters, s)
  <2>1. Rate!CheckRate(counters, s) = swept /\ Calls(counters, calls, s) = calls
    BY <1>5 DEF Rate!CheckRate, Calls
  <2>2. Rate!Value(swept, s, {}) = recent
    BY <1>1 DEF Rate!Value
  <2>3. WindowsTrue(swept, calls)
    BY <1>3, <1>4, <2>2 DEF WindowsTrue
  <2>4. QED
    BY <2>1, <2>3 DEF RateTrue
<1>6. CASE Rate!Granted(counters, s)
  <2> DEFINE table == Rate!CheckRate(counters, s)
             calls2 == [calls EXCEPT ![s] = calls[s] \cup {new}]
  <2>1. Rate!Now(recent) = Rate!Now(calls[s])
    <3>1. \A g \in calls[s] : g.at = rateNow => g \in recent
      BY DEF Rate!Recent, Rate!Old, RateTyped
    <3>2. QED
      BY <1>3, <3>1 DEF Rate!Now
  <2>2. table = Rate!Insert(swept, s, recent \cup {new})
    <3>1. table = Rate!Insert(swept, s, Rate!Grant(recent))
      BY <1>1, <1>6 DEF Rate!CheckRate
    <3>2. Rate!Grant(recent) = recent \cup {new}
      BY <2>1, RateCardinality DEF Rate!Grant
    <3>3. QED
      BY <3>1, <3>2
  <2>3. Calls(counters, calls, s) = calls2
    BY <1>2, <1>6, RateCardinality DEF Calls, Rate!Grant
  <2>4. /\ new \notin calls[s] /\ IsFiniteSet(calls[s] \cup {new})
        /\ new.at = rateNow /\ new.nth \in Nat
        /\ \A g \in calls[s] \cup {new} :
               g.nth < Cardinality(Of(calls[s] \cup {new}, g.at))
    BY <1>2, GrantIsNew
  <2>5. Cardinality(recent) < MaxPerSec
    BY <1>1, <1>6, RateCardinality DEF Rate!Granted
  <2> HIDE DEF new, recent, swept, table
  <2>6. /\ calls2[s] = calls[s] \cup {new} /\ calls2 = [q \in Sources |-> calls2[q]]
        /\ \A q \in Sources \ {s} : calls2[q] = calls[q]
    BY <1>2
  <2>7. /\ Rate!Value(table, s, {}) = recent \cup {new}
        /\ \A q \in Sources \ {s} : Rate!Value(table, q, {}) = Rate!Value(swept, q, {})
    BY <2>2 DEF Rate!Insert, Rate!Value
  <2>8. recent \subseteq calls[s] /\ Rate!Recent(calls[s] \cup {new}) \subseteq recent \cup {new}
    BY <1>3 DEF Rate!Recent, Rate!Old, recent
  <2> HIDE DEF calls2
  <2>9. WindowsTrue(table, calls2)
    <3> SUFFICES ASSUME NEW q \in Sources
                 PROVE  /\ Rate!Value(table, q, {}) \subseteq calls2[q]
                        /\ Rate!Recent(calls2[q]) \subseteq Rate!Value(table, q, {})
      BY DEF WindowsTrue
    <3>1. CASE q = s
      BY <1>3, <2>6, <2>7, <2>8, <3>1
    <3>2. CASE q # s
      BY <1>4, <2>6, <2>7, <3>2
    <3>3. QED
      BY <3>1, <3>2
  <2>10. CallsTyped(calls2)
    <3> SUFFICES ASSUME NEW q \in Sources
                 PROVE  /\ IsFiniteSet(calls2[q])
                        /\ \A g \in calls2[q] :
                               g.at \in Nat /\ g.nth \in Nat /\ g.at <= rateNow
                        /\ \A g \in calls2[q] : g.nth < Cardinality(Of(calls2[q], g.at))
      BY <2>6 DEF CallsTyped
    <3>1. CASE q = s
      BY <1>2, <2>4, <2>6, <3>1
    <3>2. CASE q # s
      BY <2>6, <3>2 DEF RateTrue, CallsTyped
    <3>3. QED
      BY <3>1, <3>2
  <2>11. WithinRate(calls2)
    <3> SUFFICES ASSUME NEW q \in Sources, NEW t \in Nat
                 PROVE  Cardinality(Rate!InASecond(calls2[q], t)) <= MaxPerSec
      BY DEF WithinRate
    <3>1. CASE q # s
      BY <2>6, <3>1 DEF RateTrue, WithinRate
    <3>2. CASE q = s /\ rateNow \notin t..(t + Second - 1)
      <4>1. Rate!InASecond(calls2[s], t) = Rate!InASecond(calls[s], t)
        BY <2>4, <2>6, <3>2 DEF Rate!InASecond
      <4>2. QED
        BY <3>2, <4>1 DEF RateTrue, WithinRate
    <3>3. CASE q = s /\ rateNow \in t..(t + Second - 1)
      <4> DEFINE old == Rate!InASecond(calls[s], t)
      <4>1. old \subseteq recent
        BY <1>2, <3>3 DEF Rate!InASecond, Rate!Recent, Rate!Old, recent, RateTyped
      <4>2. Rate!InASecond(calls2[s], t) = old \cup {new}
        BY <2>4, <2>6, <3>3 DEF Rate!InASecond
      <4> HIDE DEF old
      <4>3. IsFiniteSet(old) /\ Cardinality(old) <= Cardinality(recent)
        BY <1>3, <4>1, FS_Subset
      <4>4. Cardinality(old) \in Nat /\ Cardinality(recent) \in Nat
        BY <1>3, <4>3, FS_CardinalityType
      <4>5. Cardinality(old \cup {new}) <= Cardinality(old) + 1
        BY <4>3, OneMore
      <4>6. Cardinality(old \cup {new}) \in Nat
        BY <4>3, OneMore
      <4>7. QED
        BY <2>5, <3>3, <4>2, <4>3, <4>4, <4>5, <4>6 DEF RateTyped
    <3>4. QED
      BY <3>1, <3>2, <3>3
  <2>12. QED
    BY <2>3, <2>9, <2>10, <2>11 DEF RateTrue, table
<1>7. QED
  BY <1>5, <1>6

LEMMA RateInitHolds == RateTyped /\ Rate!Init => RateInv
<1> SUFFICES ASSUME RateTyped, Rate!Init
             PROVE  RateInv
  OBVIOUS
<1>1. rateNow = 0 /\ granted = [s \in Sources |-> {}] /\ DOMAIN rateCounters = {}
  BY DEF Rate!Init, Rate!EmptyHash
<1>2. IsFiniteSet({}) /\ Cardinality({}) = 0
  BY FS_EmptySet
<1>3. \A s \in Sources : granted[s] = {} /\ Rate!Value(rateCounters, s, {}) = {}
  BY <1>1 DEF Rate!Value
<1>4. \A t : Rate!InASecond({}, t) = {} /\ Rate!Recent({}) = {}
  BY DEF Rate!InASecond, Rate!Recent
<1>5. CallsTyped(granted)
  BY <1>1, <1>2, <1>3 DEF CallsTyped
<1>6. WithinRate(granted)
  BY <1>2, <1>3, <1>4 DEF WithinRate, RateTyped
<1>7. QED
  BY <1>1, <1>3, <1>4, <1>5, <1>6 DEF RateInv, RateTrue, WindowsTrue

\* Time only makes windows smaller.
LEMMA TickKeeps ==
    ASSUME RateInv, RateTyped, Rate!Tick
    PROVE  RateInv'
<1>1. /\ rateNow \in Nat /\ rateNow' = rateNow + 1
      /\ UNCHANGED <<rateCounters, granted>>
  BY DEF Rate!Tick, RateInv
<1>2. CallsTyped(granted)'
  BY <1>1 DEF RateInv, RateTrue, CallsTyped
<1>3. WithinRate(granted)'
  BY <1>1 DEF RateInv, RateTrue, WithinRate, Rate!InASecond
<1>4. \A s \in Sources : Rate!Recent(granted[s])' \subseteq Rate!Recent(granted[s])
  BY <1>1 DEF RateInv, RateTrue, CallsTyped, Rate!Recent, Rate!Old, RateTyped
<1>5. WindowsTrue(rateCounters, granted)'
  BY <1>1, <1>4 DEF RateInv, RateTrue, WindowsTrue
<1>6. QED
  BY <1>1, <1>2, <1>3, <1>5 DEF RateInv, RateTrue

LEMMA AskKeeps ==
    ASSUME RateInv, RateTyped, NEW s \in Sources, Rate!AskOnce(s) \/ Rate!AskTwice(s)
    PROVE  RateInv'
<1> DEFINE first == Rate!CheckRate(rateCounters, s)
           calls == Calls(rateCounters, granted, s)
<1>1. RateTrue(first, calls)
  BY CallKeeps DEF RateInv
<1>2. RateTrue(Rate!CheckRate(first, s), Calls(first, calls, s))
  BY <1>1, CallKeeps DEF RateInv
<1>3. DOMAIN granted = Sources
  BY DEF RateInv, RateTrue, CallsTyped
<1>4. rateNow' = rateNow
  BY DEF Rate!AskOnce, Rate!AskTwice
<1>5. CASE Rate!AskOnce(s)
  <2>1. rateCounters' = first /\ granted' = calls
    BY <1>3, <1>5 DEF Rate!AskOnce, Calls
  <2>2. RateTrue(rateCounters', granted')
    BY <1>1, <2>1
  <2>3. QED
    BY <1>4, <2>2 DEF RateInv, RateTrue, WindowsTrue, CallsTyped, WithinRate,
                      Rate!Recent, Rate!Old, Rate!InASecond, Rate!Value
<1>6. CASE Rate!AskTwice(s)
  <2>1. rateCounters' = Rate!CheckRate(first, s)
    BY <1>6 DEF Rate!AskTwice
  <2>2. calls = [granted EXCEPT ![s] = Rate!Grant(@)]
    BY <1>6 DEF Rate!AskTwice, Calls
  <2>3. granted' = [granted EXCEPT ![s] = IF Rate!Granted(first, s)
                        THEN Rate!Grant(Rate!Grant(@)) ELSE Rate!Grant(@)]
    BY <1>6 DEF Rate!AskTwice
  <2> HIDE DEF first
  <2>4. granted' = Calls(first, calls, s)
    BY <1>3, <2>2, <2>3 DEF Calls
  <2>5. RateTrue(rateCounters', granted')
    BY <1>2, <2>1, <2>4
  <2>6. QED
    BY <1>4, <2>5 DEF RateInv, RateTrue, WindowsTrue, CallsTyped, WithinRate,
                      Rate!Recent, Rate!Old, Rate!InASecond, Rate!Value
<1>7. QED
  BY <1>5, <1>6

LEMMA RateNext ==
    ASSUME RateTyped, RateInv, [Rate!Next]_(Rate!vars)
    PROVE  RateInv'
<1>1. CASE UNCHANGED Rate!vars
  BY <1>1 DEF Rate!vars, RateInv, RateTrue, WindowsTrue, CallsTyped, WithinRate,
              Rate!Recent, Rate!Old, Rate!InASecond, Rate!Value
<1>2. QED
  BY <1>1, TickKeeps, AskKeeps DEF Rate!Next

\* Within any second no source is granted more calls than the limit, for any
\* number of sources and any cap of the table, whatever windows the sweep of
\* checkRate() throws away in between (CryptoManager::checkRate).
THEOREM RateAlwaysHeld ==
    ASSUME RateTyped
    PROVE  Rate!Spec => []RateHeld
<1>1. Rate!Init => RateInv
  BY RateInitHolds
<1>2. RateInv /\ [Rate!Next]_(Rate!vars) => RateInv'
  BY RateNext
<1>3. RateInv => RateHeld
  <2> SUFFICES ASSUME RateInv, NEW s \in Sources, NEW t \in 0..MaxRateClock
               PROVE  Cardinality(Rate!InASecond(granted[s], t)) <= MaxPerSec
    BY RateCardinality DEF RateHeld, Rate!RateHeld
  <2>1. t \in Nat
    OBVIOUS
  <2>2. QED
    BY <2>1 DEF RateInv, RateTrue, WithinRate
<1>4. QED
  BY <1>1, <1>2, <1>3, PTL DEF Rate!Spec

\* The windows of the table, and what a call leaves of them.
TableTyped(counters) == DOMAIN counters \subseteq Sources /\ IsFiniteSet(DOMAIN counters)
CapTyped == MaxRatePeers \in Nat /\ MaxPerSec > 0
HeardIn(calls) == {s \in Sources : Rate!Recent(calls[s]) # {}}

LEMMA CallLeaves ==
    ASSUME RateTyped, CapTyped, rateNow \in Nat, NEW counters, NEW calls, NEW s \in Sources,
           RateTrue(counters, calls), TableTyped(counters)
    PROVE  LET table == Rate!CheckRate(counters, s)
           IN /\ TableTyped(table)
              /\ Cardinality(DOMAIN table) > MaxRatePeers + 1 =>
                     DOMAIN table \subseteq HeardIn(Calls(counters, calls, s))
<1> DEFINE idle == Rate!Idle(counters)
           swept == Rate!Swept(counters, s)
           table == Rate!CheckRate(counters, s)
           later == Calls(counters, calls, s)
           recent == Rate!Recent(calls[s])
           new == [at |-> rateNow, nth |-> Cardinality(Rate!Now(calls[s]))]
<1>1. DOMAIN swept = (DOMAIN counters \ idle) \cup {s}
  BY DEF Rate!Swept, Rate!Insert, Rate!Remove
<1>2. DOMAIN table = DOMAIN swept
  BY <1>1 DEF Rate!CheckRate, Rate!Insert
<1>3. /\ calls = [q \in Sources |-> calls[q]] /\ IsFiniteSet(calls[s])
      /\ later = calls \/ (/\ Rate!Granted(counters, s)
                           /\ later = [calls EXCEPT ![s] = calls[s] \cup {new}])
  BY RateCardinality DEF RateTrue, CallsTyped, Calls, Rate!Grant
<1>4. \A q \in Sources : calls[q] \subseteq later[q]
  BY <1>3
<1>5. \A q \in Sources : Rate!Recent(calls[q]) \subseteq Rate!Recent(later[q])
  BY <1>4 DEF Rate!Recent, Rate!Old
<1>6. TableTyped(table)
  <2>1. IsFiniteSet(DOMAIN counters \ idle)
    BY FS_Subset DEF TableTyped
  <2>2. IsFiniteSet(DOMAIN table)
    BY <1>1, <1>2, <2>1, FS_AddElement
  <2>3. QED
    BY <1>1, <1>2, <2>2 DEF TableTyped
<1>7. s \in HeardIn(later)
  <2>1. CASE Rate!Granted(counters, s)
    <3>1. new \in later[s] /\ new.at = rateNow
      BY <1>3, <2>1, RateCardinality DEF Calls, Rate!Grant
    <3>2. new \in Rate!Recent(later[s])
      BY <3>1 DEF Rate!Recent, Rate!Old, RateTyped
    <3>3. QED
      BY <3>2 DEF HeardIn
  <2>2. CASE ~Rate!Granted(counters, s)
    <3>1. swept[s] = recent
      BY SweptIsRecent DEF RateTrue
    <3>2. ~(Cardinality(recent) < MaxPerSec)
      BY <2>2, <3>1, RateCardinality DEF Rate!Granted
    <3>3. recent # {}
      BY <3>2, FS_EmptySet DEF CapTyped
    <3>4. QED
      BY <1>5, <3>3 DEF HeardIn
  <2>3. QED
    BY <2>1, <2>2
<1>8. ASSUME Cardinality(DOMAIN table) > MaxRatePeers + 1
      PROVE  DOMAIN table \subseteq HeardIn(later)
  <2>1. ~(Cardinality(DOMAIN counters) <= MaxRatePeers)
    <3>1. SUFFICES ASSUME Cardinality(DOMAIN counters) <= MaxRatePeers PROVE FALSE
      OBVIOUS
    <3>2. idle = {}
      BY <3>1, RateCardinality DEF Rate!Idle
    <3>3. DOMAIN table = DOMAIN counters \cup {s}
      BY <1>1, <1>2, <3>2
    <3> HIDE DEF table
    <3>4. /\ Cardinality(DOMAIN table) <= Cardinality(DOMAIN counters) + 1
          /\ Cardinality(DOMAIN counters) \in Nat /\ Cardinality(DOMAIN table) \in Nat
      BY <3>3, OneMore DEF TableTyped
    <3>5. QED
      BY <1>8, <3>1, <3>4 DEF CapTyped
  <2>2. ASSUME NEW q \in DOMAIN counters \ idle PROVE q \in HeardIn(later)
    <3>1. Rate!Old(counters[q]) # counters[q]
      BY <2>1, <2>2, RateCardinality DEF Rate!Idle
    <3>2. q \in Sources /\ Rate!Value(counters, q, {}) = counters[q]
      BY DEF TableTyped, Rate!Value
    <3>3. counters[q] \subseteq calls[q]
      BY <3>2 DEF RateTrue, WindowsTrue
    <3>4. Rate!Recent(calls[q]) # {}
      BY <3>1, <3>3 DEF Rate!Recent, Rate!Old
    <3>5. QED
      BY <1>5, <3>2, <3>4 DEF HeardIn
  <2>3. QED
    BY <1>1, <1>2, <1>7, <2>2
<1>9. QED
  BY <1>6, <1>8

\* What one step of the limiter does to its table.
LEMMA StepLeaves ==
    ASSUME RateTyped, CapTyped, RateInv, TableTyped(rateCounters), [Rate!Next]_(Rate!vars)
    PROVE  /\ TableTyped(rateCounters')
           /\ rateCounters' # rateCounters
                  /\ Cardinality(DOMAIN rateCounters') > MaxRatePeers + 1
                  => DOMAIN rateCounters' \subseteq HeardIn(granted')
<1>1. CASE Rate!Tick \/ UNCHANGED Rate!vars
  BY <1>1 DEF Rate!Tick, Rate!vars
<1>2. ASSUME NEW s \in Sources, Rate!AskOnce(s) \/ Rate!AskTwice(s)
      PROVE  /\ TableTyped(rateCounters')
             /\ Cardinality(DOMAIN rateCounters') > MaxRatePeers + 1
                    => DOMAIN rateCounters' \subseteq HeardIn(granted')
  <2> DEFINE first == Rate!CheckRate(rateCounters, s)
             calls == Calls(rateCounters, granted, s)
  <2>1. RateTrue(first, calls)
    BY CallKeeps DEF RateInv
  <2>2. /\ TableTyped(first)
        /\ Cardinality(DOMAIN first) > MaxRatePeers + 1 =>
               DOMAIN first \subseteq HeardIn(calls)
    BY CallLeaves DEF RateInv
  <2>3. DOMAIN granted = Sources
    BY DEF RateInv, RateTrue, CallsTyped
  <2>4. CASE Rate!AskOnce(s)
    <3>1. rateCounters' = first /\ granted' = calls
      BY <2>3, <2>4 DEF Rate!AskOnce, Calls
    <3>2. QED
      BY <2>2, <3>1
  <2>5. CASE Rate!AskTwice(s)
    <3>1. rateCounters' = Rate!CheckRate(first, s)
      BY <2>5 DEF Rate!AskTwice
    <3>2. calls = [granted EXCEPT ![s] = Rate!Grant(@)]
      BY <2>5 DEF Rate!AskTwice, Calls
    <3>3. granted' = [granted EXCEPT ![s] = IF Rate!Granted(first, s)
                          THEN Rate!Grant(Rate!Grant(@)) ELSE Rate!Grant(@)]
      BY <2>5 DEF Rate!AskTwice
    <3> HIDE DEF first
    <3>4. granted' = Calls(first, calls, s)
      BY <2>3, <3>2, <3>3 DEF Calls
    <3> HIDE DEF calls
    <3>5. /\ TableTyped(Rate!CheckRate(first, s))
          /\ Cardinality(DOMAIN Rate!CheckRate(first, s)) > MaxRatePeers + 1 =>
                 DOMAIN Rate!CheckRate(first, s) \subseteq HeardIn(Calls(first, calls, s))
      BY <2>1, <2>2, CallLeaves DEF RateInv
    <3>6. QED
      BY <3>1, <3>4, <3>5
  <2>6. QED
    BY <1>2, <2>4, <2>5
<1>3. QED
  BY <1>1, <1>2 DEF Rate!Next

\* How far a flood of sources can grow the table: past the cap and the one window
\* a call may add to a full table, it holds windows only of sources that were
\* granted a call within the last second, for any number of sources and any cap
\* (checkRate's purge).
THEOREM TableGrowsByTheHeard ==
    ASSUME RateTyped, CapTyped
    PROVE  Rate!Spec => GrowsByTheHeard
<1> DEFINE Inv == RateInv /\ TableTyped(rateCounters)
           Step == rateCounters' # rateCounters
                       /\ Cardinality(DOMAIN rateCounters') > MaxRatePeers + 1
                       => DOMAIN rateCounters' \subseteq HeardIn(granted')
           Grows == rateCounters' # rateCounters
                        /\ Rate!Cardinality(DOMAIN rateCounters') > MaxRatePeers + 1
                        => DOMAIN rateCounters' \subseteq Rate!Heard'
<1>1. Rate!Init => Inv
  <2>1. Rate!Init => DOMAIN rateCounters = {}
    BY DEF Rate!Init, Rate!EmptyHash
  <2>2. QED
    BY <2>1, RateInitHolds, FS_EmptySet DEF TableTyped
<1>2. Inv /\ [Rate!Next]_(Rate!vars) => Inv'
  BY RateNext, StepLeaves DEF TableTyped
<1>3. Inv /\ [Rate!Next]_(Rate!vars) => [Grows]_(Rate!vars)
  <2> SUFFICES ASSUME Inv, [Rate!Next]_(Rate!vars), rateCounters' # rateCounters,
                      Rate!Cardinality(DOMAIN rateCounters') > MaxRatePeers + 1
               PROVE  DOMAIN rateCounters' \subseteq Rate!Heard'
    OBVIOUS
  <2>1. DOMAIN rateCounters' \subseteq HeardIn(granted')
    BY StepLeaves, RateCardinality
  <2>2. rateNow' = rateNow
    BY DEF Rate!Next, Rate!Tick, Rate!AskOnce, Rate!AskTwice, Rate!vars
  <2>3. HeardIn(granted') = Rate!Heard'
    BY <2>2 DEF HeardIn, Rate!Heard, Rate!Recent, Rate!Old
  <2>4. QED
    BY <2>1, <2>3
<1> HIDE DEF Inv
<1>4. Rate!Spec => [][Grows]_(Rate!vars)
  BY <1>1, <1>2, <1>3, PTL DEF Rate!Spec
<1>5. QED
  BY <1>4 DEF GrowsByTheHeard, Rate!GrowsByTheHeard
-----------------------------------------------------------------------------
(* Sums over finite sets, as FiniteSetsExt defines them: by an iteration   *)
(* that chooses one element after the other.                               *)
One(s) == CHOOSE x \in s : TRUE
Adds(it, f, S) ==
    it = [s \in SUBSET S |->
             IF s = {} THEN 0 ELSE f[One(s)] + it[s \ {One(s)}]]
SumOn(f, S) == (CHOOSE it : Adds(it, f, S))[S]

\* What holds of a finite set as soon as it holds of its proper subsets holds
\* of it.
LEMMA SubsetInduction ==
    ASSUME NEW S, IsFiniteSet(S), NEW G,
           \A T \in SUBSET S : (\A U \in SUBSET T : U # T => U \in G) => T \in G
    PROVE  S \in G
<1> SUFFICES ASSUME S \notin G PROVE FALSE
  OBVIOUS
<1> DEFINE bad == {T \in SUBSET S : T \notin G}
           sizes == {Cardinality(T) : T \in bad}
<1>1. \A T \in SUBSET S : IsFiniteSet(T) /\ Cardinality(T) \in Nat
  BY FS_Subset, FS_CardinalityType
<1>2. sizes \in SUBSET Nat /\ sizes # {}
  BY <1>1
<1>3. PICK n \in sizes : \A m \in sizes : n <= m
  BY <1>2, LeastNatural
<1>4. PICK T \in bad : Cardinality(T) = n
  BY <1>3
<1>5. ASSUME NEW U \in SUBSET T, U # T PROVE U \in G
  <2> SUFFICES ASSUME U \notin G PROVE FALSE
    OBVIOUS
  <2>1. Cardinality(U) <= Cardinality(T) /\ Cardinality(U) # Cardinality(T)
    BY <1>1, <1>5, FS_Subset
  <2>2. U \in bad /\ Cardinality(U) \in Nat /\ Cardinality(T) \in Nat
    BY <1>1, <1>5
  <2>3. n <= Cardinality(U)
    BY <1>3, <2>2
  <2>4. QED
    BY <1>4, <2>1, <2>2, <2>3
<1>6. QED
  BY <1>5

LEMMA OneOf == ASSUME NEW s, s # {} PROVE One(s) \in s
  BY DEF One

\* Two iterations of the same terms agree where both are defined.
LEMMA AddsUnique ==
    ASSUME NEW f, NEW S, IsFiniteSet(S), NEW U, NEW V, S \subseteq U, S \subseteq V,
           NEW i, NEW j, Adds(i, f, U), Adds(j, f, V)
    PROVE  i[S] = j[S]
<1> DEFINE G == {s \in SUBSET S : i[s] = j[s]}
<1>1. ASSUME NEW T \in SUBSET S, \A s \in SUBSET T : s # T => s \in G
      PROVE  T \in G
  <2>1. /\ i[T] = IF T = {} THEN 0 ELSE f[One(T)] + i[T \ {One(T)}]
        /\ j[T] = IF T = {} THEN 0 ELSE f[One(T)] + j[T \ {One(T)}]
    BY DEF Adds
  <2>2. CASE T = {}
    BY <2>1, <2>2
  <2>3. CASE T # {}
    <3>1. T \ {One(T)} \in SUBSET T /\ T \ {One(T)} # T
      BY <2>3, OneOf
    <3>2. i[T \ {One(T)}] = j[T \ {One(T)}]
      BY <1>1, <3>1
    <3>3. QED
      BY <2>1, <2>3, <3>2
  <2>4. QED
    BY <2>2, <2>3
<1> HIDE DEF G
<1>2. S \in G
  BY <1>1, SubsetInduction
<1>3. QED
  BY <1>2 DEF G

\* And there is one.
LEMMA AddsExists ==
    ASSUME NEW f, NEW S, IsFiniteSet(S)
    PROVE  Adds(CHOOSE it : Adds(it, f, S), f, S)
<1> DEFINE G == {s \in SUBSET S : \E it : Adds(it, f, s)}
<1>1. ASSUME NEW T \in SUBSET S, \A s \in SUBSET T : s # T => s \in G
      PROVE  T \in G
  <2> DEFINE Sum(s) == IF s = {} THEN 0
                       ELSE f[One(s)] + SumOn(f, s \ {One(s)})
             it == [s \in SUBSET T |-> Sum(s)]
  <2>1. ASSUME NEW s \in SUBSET T, s # T PROVE SumOn(f, s) = Sum(s)
    <3> DEFINE i == CHOOSE it2 : Adds(it2, f, s)
    <3>1. Adds(i, f, s)
      BY <1>1, <2>1
    <3>2. SumOn(f, s) = IF s = {} THEN 0 ELSE f[One(s)] + i[s \ {One(s)}]
      BY <3>1 DEF SumOn, Adds
    <3>3. CASE s = {}
      BY <3>2, <3>3
    <3>4. CASE s # {}
      <4> DEFINE u == s \ {One(s)}
                 j == CHOOSE it2 : Adds(it2, f, u)
      <4>1. u \in SUBSET T /\ u # T /\ u \in SUBSET s
        BY <2>1
      <4>2. Adds(j, f, u)
        BY <1>1, <4>1
      <4>3. IsFiniteSet(u)
        BY <4>1, FS_Subset
      <4> HIDE DEF i, j
      <4>4. i[u] = j[u]
        BY <3>1, <4>1, <4>2, <4>3, AddsUnique
      <4>5. SumOn(f, u) = j[u]
        BY DEF SumOn, j
      <4>6. QED
        BY <3>2, <3>4, <4>4, <4>5
    <3>5. QED
      BY <3>3, <3>4
  <2>2. \A s \in SUBSET T : s # {} =>
            s \ {One(s)} \in SUBSET T /\ s \ {One(s)} # T
    BY OneOf
  <2>3. Adds(it, f, T)
    <3>1. \A s \in SUBSET T :
              Sum(s) = IF s = {} THEN 0 ELSE f[One(s)] + it[s \ {One(s)}]
      BY <2>1, <2>2
    <3> HIDE DEF Sum
    <3>2. QED
      BY <3>1 DEF Adds
  <2> HIDE DEF it
  <2>4. QED
    BY <2>3
<1> HIDE DEF G
<1>2. S \in G
  BY <1>1, SubsetInduction
<1>3. QED
  BY <1>2 DEF G

LEMMA SumOfNone == ASSUME NEW f PROVE SumOn(f, {}) = 0
  BY AddsExists, FS_EmptySet DEF SumOn, Adds

\* A sum is its chosen term and the sum of the others.
LEMMA SumSplits ==
    ASSUME NEW f, NEW S, IsFiniteSet(S), S # {}
    PROVE  SumOn(f, S) = f[One(S)] + SumOn(f, S \ {One(S)})
<1> DEFINE i == CHOOSE it : Adds(it, f, S)
           rest == S \ {One(S)}
           j == CHOOSE it : Adds(it, f, rest)
<1>1. Adds(i, f, S)
  BY AddsExists
<1>2. IsFiniteSet(rest) /\ rest \subseteq S
  BY FS_Subset
<1>3. Adds(j, f, rest)
  BY <1>2, AddsExists
<1>4. i[S] = f[One(S)] + i[rest]
  BY <1>1 DEF Adds
<1> HIDE DEF i, j, rest
<1>5. i[rest] = j[rest]
  BY <1>1, <1>2, <1>3, AddsUnique
<1>6. SumOn(f, S) = i[S] /\ SumOn(f, rest) = j[rest]
  BY DEF SumOn, i, j
<1>7. QED
  BY <1>4, <1>5, <1>6 DEF rest

\* A sum of natural numbers is one, and equal terms have an equal sum.
LEMMA SumIsNat ==
    ASSUME NEW f, NEW S, IsFiniteSet(S), \A x \in S : f[x] \in Nat
    PROVE  SumOn(f, S) \in Nat
<1> DEFINE G == {s \in SUBSET S : SumOn(f, s) \in Nat}
<1>1. ASSUME NEW T \in SUBSET S, \A s \in SUBSET T : s # T => s \in G
      PROVE  T \in G
  <2>1. CASE T = {}
    BY <2>1, SumOfNone
  <2>2. CASE T # {}
    <3>1. One(T) \in T /\ T \ {One(T)} \in SUBSET T /\ T \ {One(T)} # T
          /\ IsFiniteSet(T)
      BY <2>2, OneOf, FS_Subset
    <3>2. SumOn(f, T \ {One(T)}) \in Nat /\ f[One(T)] \in Nat
      BY <1>1, <3>1
    <3>3. QED
      BY <2>2, <3>1, <3>2, SumSplits
  <2>3. QED
    BY <2>1, <2>2
<1> HIDE DEF G
<1>2. S \in G
  BY <1>1, SubsetInduction
<1>3. QED
  BY <1>2 DEF G

LEMMA SumsAgree ==
    ASSUME NEW f, NEW g, NEW S, IsFiniteSet(S), \A x \in S : f[x] = g[x]
    PROVE  SumOn(f, S) = SumOn(g, S)
<1> DEFINE G == {s \in SUBSET S : SumOn(f, s) = SumOn(g, s)}
<1>1. ASSUME NEW T \in SUBSET S, \A s \in SUBSET T : s # T => s \in G
      PROVE  T \in G
  <2>1. CASE T = {}
    BY <2>1, SumOfNone
  <2>2. CASE T # {}
    <3>1. One(T) \in T /\ T \ {One(T)} \in SUBSET T /\ T \ {One(T)} # T
          /\ IsFiniteSet(T)
      BY <2>2, OneOf, FS_Subset
    <3>2. SumOn(f, T \ {One(T)}) = SumOn(g, T \ {One(T)}) /\ f[One(T)] = g[One(T)]
      BY <1>1, <3>1
    <3>3. QED
      BY <2>2, <3>1, <3>2, SumSplits
  <2>3. QED
    BY <2>1, <2>2
<1> HIDE DEF G
<1>2. S \in G
  BY <1>1, SubsetInduction
<1>3. QED
  BY <1>2 DEF G

\* Any term may be taken out first.
LEMMA SumTakesOut ==
    ASSUME NEW f, NEW S, IsFiniteSet(S), \A x \in S : f[x] \in Nat, NEW y \in S
    PROVE  SumOn(f, S) = f[y] + SumOn(f, S \ {y})
<1> DEFINE G == {s \in SUBSET S :
                     \A x \in s : SumOn(f, s) = f[x] + SumOn(f, s \ {x})}
<1>1. ASSUME NEW T \in SUBSET S, \A s \in SUBSET T : s # T => s \in G
      PROVE  T \in G
  <2> SUFFICES ASSUME NEW x \in T
               PROVE  SumOn(f, T) = f[x] + SumOn(f, T \ {x})
    OBVIOUS
  <2> DEFINE c == One(T)
             rest == T \ {c}
  <2>1. c \in T /\ IsFiniteSet(T)
    BY OneOf, FS_Subset
  <2>2. SumOn(f, T) = f[c] + SumOn(f, rest)
    BY <2>1, SumSplits
  <2>3. CASE c = x
    BY <2>2, <2>3
  <2>4. CASE c # x
    <3> HIDE DEF c
    <3>1. /\ x \in rest /\ rest \in SUBSET T /\ rest # T
          /\ c \in T \ {x} /\ T \ {x} \in SUBSET T /\ T \ {x} # T
          /\ rest \ {x} = (T \ {x}) \ {c}
      BY <2>1, <2>4
    <3>2. SumOn(f, rest) = f[x] + SumOn(f, rest \ {x})
      BY <1>1, <3>1
    <3>3. SumOn(f, T \ {x}) = f[c] + SumOn(f, (T \ {x}) \ {c})
      BY <1>1, <3>1
    <3>4. f[x] \in Nat /\ f[c] \in Nat /\ SumOn(f, rest \ {x}) \in Nat
      <4>1. IsFiniteSet(rest \ {x}) /\ rest \ {x} \subseteq S
        BY <2>1, FS_Subset
      <4>2. \A z \in rest \ {x} : f[z] \in Nat
        BY <4>1
      <4>3. QED
        BY <2>1, <4>1, <4>2, SumIsNat
    <3>5. SumOn(f, rest \ {x}) = SumOn(f, (T \ {x}) \ {c})
      BY <3>1
    <3> HIDE DEF rest
    <3>6. QED
      BY <2>2, <3>2, <3>3, <3>4, <3>5
  <2>5. QED
    BY <2>3, <2>4
<1> HIDE DEF G
<1>2. S \in G
  BY <1>1, SubsetInduction
<1>3. QED
  BY <1>2 DEF G

\* Part of a sum of natural numbers is no more than all of it.
LEMMA PartOfSum ==
    ASSUME NEW f, NEW S, IsFiniteSet(S), \A x \in S : f[x] \in Nat,
           NEW T \in SUBSET S
    PROVE  SumOn(f, T) <= SumOn(f, S)
<1> DEFINE G == {s \in SUBSET S : T \subseteq s => SumOn(f, T) <= SumOn(f, s)}
<1>1. ASSUME NEW U \in SUBSET S, \A s \in SUBSET U : s # U => s \in G
      PROVE  U \in G
  <2> SUFFICES ASSUME T \subseteq U PROVE SumOn(f, T) <= SumOn(f, U)
    OBVIOUS
  <2>1. IsFiniteSet(U) /\ IsFiniteSet(T)
    BY FS_Subset
  <2>2. SumOn(f, T) \in Nat
    BY <2>1, SumIsNat
  <2>3. CASE T = U
    BY <2>2, <2>3
  <2>4. CASE T # U
    <3>1. PICK x \in U : x \notin T
      BY <2>4
    <3>2. U \ {x} \in SUBSET U /\ U \ {x} # U /\ T \subseteq U \ {x}
          /\ IsFiniteSet(U \ {x})
      BY <2>1, <3>1, FS_Subset
    <3>3. SumOn(f, T) <= SumOn(f, U \ {x})
      BY <1>1, <3>2
    <3>4. SumOn(f, U) = f[x] + SumOn(f, U \ {x}) /\ f[x] \in Nat
      BY <2>1, <3>1, SumTakesOut
    <3>5. SumOn(f, U \ {x}) \in Nat
      BY <3>2, SumIsNat
    <3>6. QED
      BY <2>2, <3>3, <3>4, <3>5
  <2>5. QED
    BY <2>3, <2>4
<1> HIDE DEF G
<1>2. S \in G
  BY <1>1, SubsetInduction
<1>3. QED
  BY <1>2 DEF G
-----------------------------------------------------------------------------
(* The table of incomplete files: any number of transfers, any sizes and   *)
(* caps, and whatever is announced, resent and contradicted.               *)
FilesTyped ==
    /\ Sizes \subseteq Int /\ ChunkSizes \subseteq Nat /\ Totals \subseteq Int
    /\ Limits \subseteq Nat
    /\ MaxPendingTransfers \in Nat /\ MaxPendingBytes \in Nat
    /\ TransferTtl \in Nat /\ Sweep \in Nat

LEMMA FilesCardinality == ASSUME NEW S PROVE Files!Cardinality(S) = Cardinality(S)
  BY DEF Cardinality, Files!Cardinality

\* The sums of the model are sums as above.
Held(table) == [u \in DOMAIN table |-> table[u].received]

LEMMA BytesAreSum ==
    ASSUME NEW chunks
    PROVE  Files!Bytes(chunks) = SumOn(chunks, DOMAIN chunks)
  BY DEF Files!Bytes, Files!MapThenSumSet, Files!MapThenFoldSet, SumOn, Adds, One

LEMMA BufferedAreSum ==
    ASSUME NEW tid, NEW received
    PROVE  Files!PendingBufferedBytes(tid, received)
               = received + SumOn(Held(pending), DOMAIN pending \ {tid})
<1> DEFINE D == DOMAIN pending \ {tid}
           Iterates(it) == it = [s \in SUBSET D |->
               IF s = {} THEN 0 ELSE pending[One(s)].received + it[s \ {One(s)}]]
<1>1. \A s \in SUBSET D : s # {} => Held(pending)[One(s)] = pending[One(s)].received
  BY OneOf DEF Held
<1> HIDE DEF D
<1>2. \A it : Adds(it, Held(pending), D) <=> Iterates(it)
  BY <1>1 DEF Adds
<1> HIDE DEF Iterates
<1>3. (CHOOSE it : Adds(it, Held(pending), D)) = (CHOOSE it : Iterates(it))
  BY <1>2
<1>4. Files!PendingBufferedBytes(tid, received)
          = received + (CHOOSE it : Iterates(it))[D]
  BY DEF Files!PendingBufferedBytes, Files!MapThenSumSet, Files!MapThenFoldSet,
         Iterates, D, One
<1>5. QED
  BY <1>3, <1>4 DEF SumOn, D

LEMMA AllBytesAreSum ==
    ASSUME IsFiniteSet(DOMAIN pending),
           \A tid \in DOMAIN pending :
               pending[tid].received = Files!Bytes(pending[tid].chunks)
    PROVE  Files!MapThenSumSet(LAMBDA tid : Files!Bytes(pending[tid].chunks),
                               DOMAIN pending)
               = SumOn(Held(pending), DOMAIN pending)
<1> DEFINE D == DOMAIN pending
           Iterates(it) == it = [s \in SUBSET D |->
               IF s = {} THEN 0
               ELSE Files!Bytes(pending[One(s)].chunks) + it[s \ {One(s)}]]
<1>1. \A s \in SUBSET D : s # {} =>
          Held(pending)[One(s)] = Files!Bytes(pending[One(s)].chunks)
  BY OneOf DEF Held
<1> HIDE DEF D
<1>2. \A it : Adds(it, Held(pending), D) <=> Iterates(it)
  BY <1>1 DEF Adds
<1> HIDE DEF Iterates
<1>3. (CHOOSE it : Adds(it, Held(pending), D)) = (CHOOSE it : Iterates(it))
  BY <1>2
<1>4. Files!MapThenSumSet(LAMBDA tid : Files!Bytes(pending[tid].chunks), DOMAIN pending)
          = (CHOOSE it : Iterates(it))[D]
  BY DEF Files!MapThenSumSet, Files!MapThenFoldSet, Iterates, D, One
<1>5. QED
  BY <1>3, <1>4 DEF SumOn, D

\* A transfer is counted right, within what it announced, unfinished and young.
TransferTrue(t, since) ==
    /\ t = [total |-> t.total, announced |-> t.announced, received |-> t.received,
            chunks |-> t.chunks, age |-> t.age]
    /\ t.total \in Int /\ t.announced \in Nat
    /\ IsFiniteSet(DOMAIN t.chunks)
    /\ \A i \in DOMAIN t.chunks : t.chunks[i] \in Nat
    /\ t.received = SumOn(t.chunks, DOMAIN t.chunks) /\ t.received <= t.announced
    /\ t.age \in Nat /\ t.age <= TransferTtl + since
    /\ IF t.total >= 0 THEN /\ DOMAIN t.chunks \subseteq 0..(t.total - 1)
                            /\ Cardinality(DOMAIN t.chunks) < t.total
                       ELSE DOMAIN t.chunks = {}
TableTrue(table, since) ==
    /\ IsFiniteSet(DOMAIN table)
    /\ Cardinality(DOMAIN table) <= MaxPendingTransfers
    /\ \A tid \in DOMAIN table : TransferTrue(table[tid], since)
    /\ SumOn(Held(table), DOMAIN table) <= MaxPendingBytes
FilesInv ==
    /\ maxTransfer \in Nat /\ sinceSweep \in 0..Sweep
    /\ TableTrue(pending, sinceSweep)

LEMMA HeldAreNat ==
    ASSUME NEW table, NEW since, TableTrue(table, since)
    PROVE  \A u \in DOMAIN table : Held(table)[u] \in Nat
<1> SUFFICES ASSUME NEW u \in DOMAIN table PROVE table[u].received \in Nat
  BY DEF Held
<1>1. TransferTrue(table[u], since)
  BY DEF TableTrue
<1>2. QED
  BY <1>1, SumIsNat DEF TransferTrue

\* Without some of its transfers a table is as true.
LEMMA TableLoses ==
    ASSUME FilesTyped, NEW table, NEW since, NEW later, TableTrue(table, since), NEW D,
           \A tid \in DOMAIN table \ D : TransferTrue(table[tid], later)
    PROVE  TableTrue(Files!Remove(table, D), later)
<1> DEFINE left == Files!Remove(table, D)
<1>1. /\ DOMAIN left = DOMAIN table \ D
      /\ \A u \in DOMAIN left : left[u] = table[u]
  BY DEF Files!Remove
<1>2. IsFiniteSet(DOMAIN table) /\ Cardinality(DOMAIN table) <= MaxPendingTransfers
      /\ Cardinality(DOMAIN table) \in Nat
  BY FS_CardinalityType DEF TableTrue
<1> HIDE DEF left
<1>3. IsFiniteSet(DOMAIN left) /\ Cardinality(DOMAIN left) <= Cardinality(DOMAIN table)
      /\ Cardinality(DOMAIN left) \in Nat
  <2>1. DOMAIN left \subseteq DOMAIN table
    BY <1>1
  <2>2. QED
    BY <1>2, <2>1, FS_Subset, FS_CardinalityType
<1>4. SumOn(Held(left), DOMAIN left) = SumOn(Held(table), DOMAIN left)
  BY <1>1, <1>3, SumsAgree DEF Held
<1>5. SumOn(Held(table), DOMAIN left) <= SumOn(Held(table), DOMAIN table)
  BY <1>1, <1>2, HeldAreNat, PartOfSum
<1>6. /\ SumOn(Held(table), DOMAIN left) \in Nat
      /\ SumOn(Held(table), DOMAIN table) \in Nat
  BY <1>1, <1>2, <1>3, HeldAreNat, SumIsNat
<1>7. SumOn(Held(table), DOMAIN table) <= MaxPendingBytes
  BY DEF TableTrue
<1>8. SumOn(Held(left), DOMAIN left) <= MaxPendingBytes
  BY <1>4, <1>5, <1>6, <1>7 DEF FilesTyped
<1>9. Cardinality(DOMAIN left) <= MaxPendingTransfers
  BY <1>2, <1>3 DEF FilesTyped
<1>10. QED
  BY <1>1, <1>3, <1>8, <1>9 DEF TableTrue, left

\* With one more or another in the place of one, too, if there is room for it.
LEMMA TableGains ==
    ASSUME FilesTyped, NEW table, NEW since, TableTrue(table, since), NEW tid, NEW t,
           TransferTrue(t, since),
           tid \in DOMAIN table \/ Cardinality(DOMAIN table) < MaxPendingTransfers,
           t.received + SumOn(Held(table), DOMAIN table \ {tid}) <= MaxPendingBytes
    PROVE  TableTrue(Files!Insert(table, tid, t), since)
<1> DEFINE more == Files!Insert(table, tid, t)
           D == DOMAIN table
<1>1. /\ DOMAIN more = D \cup {tid} /\ more[tid] = t
      /\ \A u \in DOMAIN more \ {tid} : u \in D /\ more[u] = table[u]
  BY DEF Files!Insert
<1>2. IsFiniteSet(D) /\ Cardinality(D) \in Nat /\ Cardinality(D) <= MaxPendingTransfers
  BY FS_CardinalityType DEF TableTrue
<1> HIDE DEF more
<1>3. IsFiniteSet(DOMAIN more) /\ Cardinality(DOMAIN more) <= MaxPendingTransfers
  <2>1. CASE tid \in D
    <3>1. D \cup {tid} = D
      BY <2>1
    <3>2. QED
      BY <1>1, <1>2, <3>1
  <2>2. CASE Cardinality(D) < MaxPendingTransfers
    <3> HIDE DEF D
    <3>1. QED
      BY <1>1, <1>2, <2>2, OneMore DEF FilesTyped
  <2>3. QED
    BY <2>1, <2>2
<1>4. \A u \in DOMAIN more : TransferTrue(more[u], since)
  BY <1>1 DEF TableTrue
<1>5. \A u \in DOMAIN more : Held(more)[u] \in Nat
  <2> SUFFICES ASSUME NEW u \in DOMAIN more PROVE more[u].received \in Nat
    BY DEF Held
  <2>1. TransferTrue(more[u], since)
    BY <1>4
  <2>2. QED
    BY <2>1, SumIsNat DEF TransferTrue
<1>6. SumOn(Held(more), DOMAIN more)
          = t.received + SumOn(Held(more), DOMAIN more \ {tid})
  <2>1. tid \in DOMAIN more /\ Held(more)[tid] = t.received
    BY <1>1 DEF Held
  <2>2. QED
    BY <1>3, <1>5, <2>1, SumTakesOut
<1>7. SumOn(Held(more), DOMAIN more \ {tid}) = SumOn(Held(table), D \ {tid})
  <2>1. DOMAIN more \ {tid} = D \ {tid}
    BY <1>1
  <2>2. IsFiniteSet(D \ {tid})
    BY <1>2, FS_Subset
  <2>3. \A u \in D \ {tid} : Held(more)[u] = Held(table)[u]
    BY <1>1 DEF Held
  <2>4. QED
    BY <2>1, <2>2, <2>3, SumsAgree
<1>8. QED
  BY <1>3, <1>4, <1>6, <1>7 DEF TableTrue, more

\* The count of a transfer with one chunk more, or the same again.
LEMMA ChunkCounted ==
    ASSUME NEW t, NEW since, TransferTrue(t, since), NEW idx, NEW size \in Nat,
           Files!Value(t.chunks, idx, size) = size
    PROVE  LET more == Files!Insert(t.chunks, idx, size)
           IN  /\ IsFiniteSet(DOMAIN more) /\ DOMAIN more = DOMAIN t.chunks \cup {idx}
               /\ \A i \in DOMAIN more : more[i] \in Nat
               /\ Files!Received(t, idx, size) = SumOn(more, DOMAIN more)
               /\ Files!Received(t, idx, size) \in Nat
<1> DEFINE D == DOMAIN t.chunks
           more == Files!Insert(t.chunks, idx, size)
<1>1. /\ DOMAIN more = D \cup {idx} /\ more[idx] = size
      /\ \A i \in D \ {idx} : more[i] = t.chunks[i]
  BY DEF Files!Insert
<1>2. /\ IsFiniteSet(D) /\ \A i \in D : t.chunks[i] \in Nat
      /\ t.received = SumOn(t.chunks, D)
  BY DEF TransferTrue
<1>3. t.received \in Nat
  BY <1>2, SumIsNat
<1>4. Files!Received(t, idx, size) = t.received + size - (IF idx \in D THEN t.chunks[idx] ELSE 0)
  BY DEF Files!Received, Files!Value
<1>5. idx \in D => t.chunks[idx] = size
  BY DEF Files!Value
<1> HIDE DEF D, more
<1>6. IsFiniteSet(D \cup {idx})
  BY <1>2, OneMore
<1>7. \A i \in D \cup {idx} : more[i] \in Nat
  BY <1>1, <1>2
<1>8. Files!Received(t, idx, size) = SumOn(more, D \cup {idx})
  <2>1. CASE idx \in D
    <3>1. D \cup {idx} = D /\ \A i \in D : more[i] = t.chunks[i]
      BY <1>1, <1>5, <2>1
    <3>2. SumOn(more, D) = SumOn(t.chunks, D)
      BY <1>2, <3>1, SumsAgree
    <3>3. Files!Received(t, idx, size) = t.received
      BY <1>3, <1>4, <1>5, <2>1
    <3>4. QED
      BY <1>2, <3>1, <3>2, <3>3
  <2>2. CASE idx \notin D
    <3>1. SumOn(more, D \cup {idx}) = size + SumOn(more, (D \cup {idx}) \ {idx})
      BY <1>1, <1>6, <1>7, SumTakesOut
    <3>2. (D \cup {idx}) \ {idx} = D /\ \A i \in D : more[i] = t.chunks[i]
      BY <1>1, <2>2
    <3>3. SumOn(more, D) = SumOn(t.chunks, D)
      BY <1>2, <3>2, SumsAgree
    <3>4. Files!Received(t, idx, size) = t.received + size
      BY <1>3, <1>4, <2>2
    <3>5. SumOn(more, D \cup {idx}) = size + t.received
      BY <1>2, <3>1, <3>2, <3>3
    <3>6. QED
      BY <1>3, <3>4, <3>5
  <2>3. QED
    BY <2>1, <2>2
<1>9. SumOn(more, D \cup {idx}) \in Nat
  BY <1>6, <1>7, SumIsNat
<1>10. QED
  BY <1>1, <1>6, <1>7, <1>8, <1>9 DEF D, more

\* A chunk of a transfer keeps the table true: it ends the transfer, or is
\* counted in it.
LEMMA ChunkTaken ==
    ASSUME FilesTyped, FilesInv, NEW tid, NEW total \in Int, NEW size \in Nat, NEW idx,
           ~Files!Ignored(tid, idx, total),
           ~Files!Contradicts(pending[tid], idx, total, size),
           ~Files!Over(tid, pending[tid], Files!Received(pending[tid], idx, size)),
           ~Files!Complete(Files!Insert(pending[tid].chunks, idx, size), total),
           pending' = [pending EXCEPT
                           ![tid].total = total,
                           ![tid].received = Files!Received(pending[tid], idx, size),
                           ![tid].chunks = Files!Insert(pending[tid].chunks, idx, size)]
    PROVE  TableTrue(pending', sinceSweep)
<1> DEFINE t == pending[tid]
           received == Files!Received(t, idx, size)
           chunks == Files!Insert(t.chunks, idx, size)
           new == [total |-> total, announced |-> t.announced, received |-> received,
                   chunks |-> chunks, age |-> t.age]
<1>1. tid \in DOMAIN pending /\ idx \in 0..(total - 1)
  BY DEF Files!Ignored
<1>2. TransferTrue(t, sinceSweep) /\ TableTrue(pending, sinceSweep)
  BY <1>1 DEF FilesInv, TableTrue
<1>3. /\ Files!Value(t.chunks, idx, size) = size
      /\ ~(t.total >= 0 /\ t.total # total)
  BY DEF Files!Contradicts
<1>4. /\ ~(received > t.announced)
      /\ ~(Files!PendingBufferedBytes(tid, received) > MaxPendingBytes)
  BY DEF Files!Over
<1>5. ~(Cardinality(DOMAIN chunks) >= total)
  BY FilesCardinality DEF Files!Complete
<1>6. /\ IsFiniteSet(DOMAIN chunks) /\ DOMAIN chunks = DOMAIN t.chunks \cup {idx}
      /\ \A i \in DOMAIN chunks : chunks[i] \in Nat
      /\ received = SumOn(chunks, DOMAIN chunks) /\ received \in Nat
  BY <1>2, <1>3, ChunkCounted
<1>7. pending' = Files!Insert(pending, tid, new)
  <2>1. t = [total |-> t.total, announced |-> t.announced, received |-> t.received,
             chunks |-> t.chunks, age |-> t.age]
    BY <1>2 DEF TransferTrue
  <2>2. DOMAIN pending \cup {tid} = DOMAIN pending
    BY <1>1
  <2> HIDE DEF received, chunks, t
  <2>3. [[[t EXCEPT !.total = total] EXCEPT !.received = received] EXCEPT !.chunks = chunks]
            = new
    <3>1. \E a, b, c, d, e :
              t = [total |-> a, announced |-> b, received |-> c, chunks |-> d, age |-> e]
      BY <2>1
    <3>2. PICK a, b, c, d, e :
              t = [total |-> a, announced |-> b, received |-> c, chunks |-> d, age |-> e]
      BY <3>1
    <3>3. new = [total |-> total, announced |-> b, received |-> received,
                 chunks |-> chunks, age |-> e]
      BY <3>2
    <3> DEFINE t1 == [t EXCEPT !.total = total]
               t2 == [t1 EXCEPT !.received = received]
    <3>4. t1 = [total |-> total, announced |-> b, received |-> c, chunks |-> d,
                age |-> e]
      BY <3>2
    <3> HIDE DEF t1, new
    <3>5. t2 = [total |-> total, announced |-> b, received |-> received,
                chunks |-> d, age |-> e]
      BY <3>4
    <3> HIDE DEF t2
    <3>6. [t2 EXCEPT !.chunks = chunks]
              = [total |-> total, announced |-> b, received |-> received,
                 chunks |-> chunks, age |-> e]
      BY <3>5
    <3>7. QED
      BY <3>3, <3>6 DEF t1, t2
  <2>4. pending' = [u \in DOMAIN pending |-> IF u = tid THEN new ELSE pending[u]]
    BY <1>1, <2>1, <2>3 DEF received, chunks, t
  <2>5. QED
    BY <2>2, <2>4 DEF Files!Insert
<1> HIDE DEF received, chunks
<1>8. TransferTrue(new, sinceSweep)
  <2>1. DOMAIN t.chunks \subseteq 0..(total - 1)
    BY <1>2, <1>3 DEF TransferTrue
  <2>2. DOMAIN chunks \subseteq 0..(total - 1) /\ total >= 0
    BY <1>1, <1>6, <2>1
  <2>3. Cardinality(DOMAIN chunks) < total
    BY <1>5, <1>6, FS_CardinalityType
  <2>4. received <= t.announced
    BY <1>2, <1>4, <1>6 DEF TransferTrue
  <2>5. QED
    BY <1>2, <1>6, <2>2, <2>3, <2>4 DEF TransferTrue
<1>9. received + SumOn(Held(pending), DOMAIN pending \ {tid}) <= MaxPendingBytes
  <2>1. SumOn(Held(pending), DOMAIN pending \ {tid}) \in Nat
    <3>1. IsFiniteSet(DOMAIN pending \ {tid})
      BY <1>2, FS_Subset DEF TableTrue
    <3>2. QED
      BY <1>2, <3>1, HeldAreNat, SumIsNat
  <2>2. Files!PendingBufferedBytes(tid, received)
            = received + SumOn(Held(pending), DOMAIN pending \ {tid})
    BY BufferedAreSum
  <2>3. QED
    BY <1>4, <1>6, <2>1, <2>2 DEF FilesTyped
<1>10. new.received = received
  OBVIOUS
<1> HIDE DEF new
<1>11. TableTrue(Files!Insert(pending, tid, new), sinceSweep)
  BY <1>1, <1>2, <1>8, <1>9, <1>10, TableGains
<1>12. QED
  BY <1>7, <1>11

\* An announcement that is accepted begins a transfer anew.
LEMMA MetaTaken ==
    ASSUME FilesTyped, FilesInv, NEW tid, NEW size, Files!Usable(size), ~Files!Full(tid)
    PROVE  TableTrue(Files!Insert(pending, tid,
                         [total |-> -1, announced |-> size, received |-> 0,
                          chunks |-> Files!EmptyHash, age |-> 0]), sinceSweep)
<1> DEFINE new == [total |-> -1, announced |-> size, received |-> 0,
                   chunks |-> Files!EmptyHash, age |-> 0]
<1>1. size \in Nat
  BY DEF Files!Usable, FilesInv
<1>2. DOMAIN Files!EmptyHash = {} /\ IsFiniteSet({})
  BY FS_EmptySet DEF Files!EmptyHash
<1>3. SumOn(Files!EmptyHash, DOMAIN Files!EmptyHash) = 0
  BY <1>2, SumOfNone
<1>4. TransferTrue(new, sinceSweep)
  BY <1>1, <1>2, <1>3 DEF TransferTrue, FilesInv, FilesTyped
<1>5. tid \in DOMAIN pending \/ Cardinality(DOMAIN pending) < MaxPendingTransfers
  <2>1. Cardinality(DOMAIN pending) \in Nat
    BY FS_CardinalityType DEF FilesInv, TableTrue
  <2>2. QED
    BY <2>1, FilesCardinality DEF Files!Full, FilesTyped
<1>6. 0 + SumOn(Held(pending), DOMAIN pending \ {tid}) <= MaxPendingBytes
  <2>1. IsFiniteSet(DOMAIN pending) /\ IsFiniteSet(DOMAIN pending \ {tid})
        /\ \A u \in DOMAIN pending : Held(pending)[u] \in Nat
    BY FS_Subset, HeldAreNat DEF FilesInv, TableTrue
  <2> DEFINE D == DOMAIN pending
             f == Held(pending)
  <2> HIDE DEF D, f
  <2>2. /\ SumOn(f, D \ {tid}) \in Nat /\ SumOn(f, D) \in Nat
        /\ SumOn(f, D \ {tid}) <= SumOn(f, D)
    <3>1. IsFiniteSet(D) /\ IsFiniteSet(D \ {tid}) /\ \A u \in D : f[u] \in Nat
      BY <2>1 DEF D, f
    <3>2. SumOn(f, D \ {tid}) <= SumOn(f, D)
      BY <3>1, PartOfSum
    <3>3. SumOn(f, D \ {tid}) \in Nat
      <4>1. \A u \in D \ {tid} : f[u] \in Nat
        BY <3>1
      <4>2. QED
        BY <3>1, <4>1, SumIsNat
    <3>4. SumOn(f, D) \in Nat
      BY <3>1, SumIsNat
    <3>5. QED
      BY <3>2, <3>3, <3>4
  <2>3. SumOn(f, D) <= MaxPendingBytes
    BY DEF FilesInv, TableTrue, D, f
  <2>4. 0 + SumOn(f, D \ {tid}) <= MaxPendingBytes
    BY <2>2, <2>3 DEF FilesTyped
  <2>5. QED
    BY <2>4 DEF D, f
<1>7. new.received = 0
  OBVIOUS
<1> HIDE DEF new
<1>8. TableTrue(Files!Insert(pending, tid, new), sinceSweep)
  BY <1>4, <1>5, <1>6, <1>7, TableGains DEF FilesInv
<1>9. QED
  BY <1>8 DEF new

LEMMA FilesInitHolds == FilesTyped /\ Files!Init => FilesInv
<1> SUFFICES ASSUME FilesTyped, Files!Init PROVE FilesInv
  OBVIOUS
<1>1. DOMAIN pending = {}
  BY DEF Files!Init, Files!EmptyHash
<1>2. TableTrue(pending, sinceSweep)
  BY <1>1, SumOfNone, FS_EmptySet DEF TableTrue, FilesTyped
<1>3. QED
  BY <1>2 DEF Files!Init, FilesInv, FilesTyped

LEMMA FilesNextKeeps ==
    ASSUME FilesTyped, FilesInv, [Files!Next]_(Files!vars)
    PROVE  FilesInv'
<1>1. ASSUME NEW tid \in Tids, NEW size \in Sizes, Files!OnMeta(tid, size)
      PROVE  FilesInv'
  <2>1. maxTransfer' = maxTransfer /\ sinceSweep' = sinceSweep
    BY <1>1 DEF Files!OnMeta
  <2>2. TableTrue(pending', sinceSweep)
    BY <1>1, MetaTaken DEF Files!OnMeta, FilesInv
  <2>3. QED
    BY <2>1, <2>2 DEF FilesInv
<1>2. ASSUME NEW tid \in Tids, NEW total \in Totals, NEW size \in ChunkSizes,
             NEW idx \in 0..total, Files!OnChunkMessage(tid, idx, total, size)
      PROVE  FilesInv'
  <2>1. maxTransfer' = maxTransfer /\ sinceSweep' = sinceSweep
    BY <1>2 DEF Files!OnChunkMessage
  <2>2. CASE pending' = pending
    BY <2>1, <2>2 DEF FilesInv
  <2>3. CASE pending' = Files!Remove(pending, {tid})
    <3>1. TableTrue(pending', sinceSweep)
      BY <2>3, TableLoses DEF FilesInv, TableTrue
    <3>2. QED
      BY <2>1, <3>1 DEF FilesInv
  <2>4. CASE /\ ~Files!Ignored(tid, idx, total)
             /\ ~Files!Contradicts(pending[tid], idx, total, size)
             /\ ~Files!Over(tid, pending[tid], Files!Received(pending[tid], idx, size))
             /\ ~Files!Complete(Files!Insert(pending[tid].chunks, idx, size), total)
             /\ pending' = [pending EXCEPT
                    ![tid].total = total,
                    ![tid].received = Files!Received(pending[tid], idx, size),
                    ![tid].chunks = Files!Insert(pending[tid].chunks, idx, size)]
    <3>1. total \in Int /\ size \in Nat
      BY DEF FilesTyped
    <3>2. TableTrue(pending', sinceSweep)
      BY <2>4, <3>1, ChunkTaken
    <3>3. QED
      BY <2>1, <3>2 DEF FilesInv
  <2>5. QED
    BY <1>2, <2>2, <2>3, <2>4 DEF Files!OnChunkMessage, Files!End, Files!Without
<1>3. CASE Files!Tick
  <2> DEFINE older == [tid \in DOMAIN pending |->
                          [pending[tid] EXCEPT !.age = Files!Older(@)]]
  <2>1. /\ pending' = older /\ maxTransfer' = maxTransfer
        /\ sinceSweep' = sinceSweep + 1 /\ sinceSweep < Sweep
    BY <1>3 DEF Files!Tick
  <2>2. /\ sinceSweep \in 0..Sweep /\ Sweep \in Nat /\ TransferTtl \in Nat
        /\ TableTrue(pending, sinceSweep)
    BY DEF FilesInv, FilesTyped
  <2>3. ASSUME NEW tid \in DOMAIN pending
        PROVE  TransferTrue(older[tid], sinceSweep + 1)
               /\ older[tid].received = pending[tid].received
    <3> DEFINE t == pending[tid]
    <3>1. TransferTrue(t, sinceSweep)
      BY <2>2 DEF TableTrue
    <3>2. older[tid] = [total |-> t.total, announced |-> t.announced,
                        received |-> t.received, chunks |-> t.chunks,
                        age |-> Files!Older(t.age)]
      BY <3>1 DEF TransferTrue
    <3>3. /\ Files!Older(t.age) \in Nat
          /\ Files!Older(t.age) <= TransferTtl + sinceSweep + 1
      BY <2>2, <3>1 DEF TransferTrue, Files!Older
    <3> HIDE DEF older
    <3>4. QED
      BY <2>2, <3>1, <3>2, <3>3 DEF TransferTrue
  <2>4. DOMAIN older = DOMAIN pending
    OBVIOUS
  <2> HIDE DEF older
  <2>5. SumOn(Held(older), DOMAIN older) = SumOn(Held(pending), DOMAIN pending)
    BY <2>2, <2>3, <2>4, SumsAgree DEF Held, TableTrue
  <2>6. TableTrue(older, sinceSweep + 1)
    BY <2>2, <2>3, <2>4, <2>5 DEF TableTrue
  <2>7. maxTransfer' \in Nat /\ sinceSweep' \in 0..Sweep
    BY <2>1, <2>2 DEF FilesInv
  <2>8. QED
    BY <2>1, <2>6, <2>7 DEF FilesInv
<1>4. CASE Files!PruneStaleTransfers
  <2>1. /\ maxTransfer' = maxTransfer /\ sinceSweep' = 0
        /\ pending' = Files!Remove(pending, Files!Stale)
    BY <1>4 DEF Files!PruneStaleTransfers
  <2>2. \A tid \in DOMAIN pending \ Files!Stale : TransferTrue(pending[tid], 0)
    <3> SUFFICES ASSUME NEW tid \in DOMAIN pending, tid \notin Files!Stale
                 PROVE  TransferTrue(pending[tid], 0)
      OBVIOUS
    <3>1. ~(pending[tid].age > TransferTtl)
      BY DEF Files!Stale
    <3>2. TransferTrue(pending[tid], sinceSweep)
      BY DEF FilesInv, TableTrue
    <3>3. pending[tid].age \in Nat /\ pending[tid].age <= TransferTtl + 0
      BY <3>1, <3>2 DEF TransferTrue, FilesTyped
    <3>4. QED
      BY <3>2, <3>3 DEF TransferTrue
  <2>3. TableTrue(pending', 0)
    BY <2>1, <2>2, TableLoses DEF FilesInv
  <2>4. QED
    BY <2>1, <2>3 DEF FilesInv, FilesTyped
<1>5. CASE Files!SetMaxTransferBytes
  BY <1>5 DEF Files!SetMaxTransferBytes, FilesInv, FilesTyped
<1>6. CASE UNCHANGED Files!vars
  BY <1>6 DEF Files!vars, FilesInv
<1>7. QED
  BY <1>1, <1>2, <1>3, <1>4, <1>5, <1>6 DEF Files!Next

\* What is held for a sender is counted right though its chunks are resent,
\* stays within every cap though the limit is lowered, is never complete and
\* waiting, and never outlives its time by more than a sweep
\* (FileTransferHandler::onMeta, onChunkMessage, pruneStaleTransfers).
THEOREM PendingAlwaysTrue ==
    ASSUME FilesTyped
    PROVE  Files!Spec => []PendingTrue
<1>1. FilesInv => PendingTrue
  <2> SUFFICES ASSUME FilesInv PROVE PendingTrue
    OBVIOUS
  <2>1. /\ TableTrue(pending, sinceSweep) /\ sinceSweep \in 0..Sweep
        /\ \A tid \in DOMAIN pending : TransferTrue(pending[tid], sinceSweep)
    BY DEF FilesInv, TableTrue
  <2>2. \A tid \in DOMAIN pending :
            /\ pending[tid].received = Files!Bytes(pending[tid].chunks)
            /\ Files!Bytes(pending[tid].chunks) <= pending[tid].announced
    BY <2>1, BytesAreSum DEF TransferTrue
  <2>3. Files!BytesCounted
    BY <2>2 DEF Files!BytesCounted
  <2>4. Files!MapThenSumSet(LAMBDA tid : Files!Bytes(pending[tid].chunks), DOMAIN pending)
            <= MaxPendingBytes
    BY <2>1, <2>2, AllBytesAreSum DEF TableTrue
  <2>5. Files!MemoryBounded
    BY <2>1, <2>2, <2>4, FilesCardinality DEF Files!MemoryBounded, TableTrue
  <2>6. Files!NoneLingers
    <3> SUFFICES ASSUME NEW tid \in DOMAIN pending, pending[tid].total >= 0,
                        \A i \in 0..(pending[tid].total - 1) :
                            i \in DOMAIN pending[tid].chunks
                 PROVE  FALSE
      BY DEF Files!NoneLingers
    <3> DEFINE n == pending[tid].total
               D == DOMAIN pending[tid].chunks
    <3>1. D \subseteq 0..(n - 1) /\ Cardinality(D) < n /\ n \in Int
      BY <2>1 DEF TransferTrue
    <3>2. D = 0..(n - 1)
      BY <3>1
    <3> HIDE DEF D, n
    <3>3. n - 1 \in Int /\ n >= 0
      BY <3>1 DEF n
    <3>4. \A b \in Int : Cardinality(0..b) = IF 0 > b THEN 0 ELSE b - 0 + 1
      BY FS_Interval
    <3>5. QED
      BY <3>1, <3>2, <3>3, <3>4
  <2>7. Files!StaleGone
    BY <2>1 DEF Files!StaleGone, TransferTrue, FilesTyped
  <2>8. QED
    BY <2>3, <2>5, <2>6, <2>7 DEF PendingTrue, Files!PendingTrue
<1>2. FilesInv /\ [Files!Next]_(Files!vars) => FilesInv'
  BY FilesNextKeeps
<1>3. QED
  BY FilesInitHolds, <1>1, <1>2, PTL DEF Files!Spec
-----------------------------------------------------------------------------
(* The encrypted store: what a user was not warned about comes back at     *)
(* every start, for any number of runs, keys, configs and failed writes,   *)
(* as long as the store reads what it holds.                               *)

\* The file can be read, and nothing that is no key is taken for one.
StoreReads == MaxMisreads = 0 /\ None \notin Nat /\ Bad \notin Nat

Secrets == Keys!Halves \cup {"passphrase", "group"}
KeysTyped ==
    /\ made \in Nat /\ misreads \in Nat
    /\ pair = [h \in Keys!Halves |-> pair[h]]
    /\ config = [n \in Keys!Halves \cup {"passphrase"} |-> config[n]]
    /\ DOMAIN promised \subseteq Secrets
    /\ after \in {"check", "readPassphrase"}

\* What was promised is in the store, and is no less than a whole identity.
PromisesStored ==
    /\ \A n \in DOMAIN promised : promised[n] # None /\ Keys!Entry(store, n) = promised[n]
    /\ "id" \in DOMAIN promised <=> "dh" \in DOMAIN promised
    /\ \A h \in Keys!Halves : h \in DOMAIN promised => promised[h] # Bad

Dropping == {"drop", "stashId", "stashDh", "purge"}
Past == {"readPassphrase", "movePassphrase", "purgePassphrase", "ready", "up"}
\* Which steps a start can be at, and what it has found by then.
StartFound ==
    /\ pc \in Past \/ pc = "generateDh" \/ (pc \in Dropping /\ after = "readPassphrase")
           => Keys!Usable(pair)
    /\ "id" \in DOMAIN promised =>
           /\ pc \notin {"migrateId", "migrateDh", "generateId", "generateDh"}
           /\ pc = "readDh" => pair["id"] = promised["id"]
           /\ pc \in Dropping \cup {"check"} \cup Past =>
                  \A h \in Keys!Halves : pair[h] = promised[h]
    /\ "passphrase" \in DOMAIN promised =>
           /\ pc # "movePassphrase"
           /\ pc \in {"purgePassphrase", "ready", "up"} =>
                  passphrase = promised["passphrase"]
    /\ "group" \in DOMAIN promised => storedKey \in {None, promised["group"]}

\* The plaintext has a copy before it goes.
Copied(h) ==
    config[h] = None \/ config[h] \in {Keys!Entry(store, h), Keys!Entry(store, Keys!Superseded(h))}
CopiedFirst ==
    /\ pc = "stashDh" => Copied("id")
    /\ pc = "purge" => \A h \in Keys!Halves : Copied(h)

KeysInv == KeysTyped /\ PromisesStored /\ StartFound /\ CopiedFirst
-----------------------------------------------------------------------------
(* The store *)

LEMMA EntryOfInsert ==
    ASSUME NEW t, NEW n, NEW v, NEW m
    PROVE  Keys!Entry(Keys!Insert(t, n, v), m) = IF m = n THEN v ELSE Keys!Entry(t, m)
  BY DEF Keys!Entry, Keys!Insert, Keys!Value

LEMMA EntryOfRemove ==
    ASSUME NEW t, NEW n, NEW m, m # n
    PROVE  Keys!Entry(Keys!Remove(t, {n}), m) = Keys!Entry(t, m)
  BY DEF Keys!Entry, Keys!Remove, Keys!Value

LEMMA ReadsStore ==
    ASSUME StoreReads, KeysTyped, NEW entries, Keys!Reads(entries)
    PROVE  entries = store /\ misreads' = misreads
  BY DEF StoreReads, KeysTyped, Keys!Reads

LEMMA WriteEffect ==
    ASSUME StoreReads, KeysTyped, NEW name, NEW value, NEW ok \in BOOLEAN, Keys!Write(name, value, ok)
    PROVE  /\ misreads' = misreads
           /\ \A n : Keys!Entry(store, n)' = IF ok /\ n = name THEN value ELSE Keys!Entry(store, n)
<1>1. PICK entries : Keys!Reads(entries) /\ Keys!Saves(Keys!Insert(entries, name, value), ok)
  BY DEF Keys!Write
<1>2. entries = store /\ misreads' = misreads
  BY <1>1, ReadsStore
<1>3. store' = IF ok THEN Keys!Insert(store, name, value) ELSE store
  BY <1>1, <1>2 DEF Keys!Saves
<1>4. QED
  BY <1>2, <1>3, EntryOfInsert DEF Keys!Entry

LEMMA EraseEffect ==
    ASSUME StoreReads, KeysTyped, NEW name, NEW ok \in BOOLEAN, Keys!Erase(name, ok)
    PROVE  /\ misreads' = misreads
           /\ \A n : n # name => Keys!Entry(store, n)' = Keys!Entry(store, n)
<1>1. PICK entries : /\ Keys!Reads(entries)
                     /\ IF name \in DOMAIN entries
                        THEN Keys!Saves(Keys!Remove(entries, {name}), ok)
                        ELSE ok /\ UNCHANGED <<store, faults>>
  BY DEF Keys!Erase
<1>2. entries = store /\ misreads' = misreads
  BY <1>1, ReadsStore
<1>3. store' \in {store, Keys!Remove(store, {name})}
  BY <1>1, <1>2 DEF Keys!Saves
<1>4. \A n : n # name => Keys!Entry(Keys!Remove(store, {name}), n) = Keys!Entry(store, n)
  BY EntryOfRemove
<1>5. CASE store' = store
  BY <1>2, <1>5 DEF Keys!Entry
<1>6. CASE store' = Keys!Remove(store, {name})
  BY <1>2, <1>4, <1>6 DEF Keys!Entry
<1>7. QED
  BY <1>3, <1>5, <1>6
-----------------------------------------------------------------------------
LEMMA KeysInitHolds == Keys!Init => KeysInv
  BY DEF Keys!Init, KeysInv, KeysTyped, PromisesStored, StartFound, CopiedFirst,
         Keys!Configs, Keys!NoPair, Keys!Halves,
         Keys!EmptyHash, Dropping, Past

\* A start reads the identity.
LEMMA ReadKeeps ==
    ASSUME StoreReads, KeysInv, Keys!Start \/ Keys!ReadId \/ Keys!ReadDh \/ Keys!Check
    PROVE  KeysInv'
<1>1. CASE Keys!Start
  BY <1>1 DEF Keys!Start, Keys!Goto, Keys!NoPair, Keys!counters, KeysInv, KeysTyped,
              PromisesStored, StartFound, CopiedFirst,
              Dropping, Past, Keys!Halves, Keys!Entry
<1>2. CASE Keys!ReadId
  <2>1. /\ pc = "readId" /\ UNCHANGED <<store, config, passphrase, storedKey, promised, misreads, made>>
        /\ after' = "check"
        /\ IF Keys!Entry(store, "id") # None
           THEN pair' = [pair EXCEPT !["id"] = Keys!Entry(store, "id")] /\ pc' = "readDh"
           ELSE pair' = pair /\ pc' = Keys!IfMissing
    BY <1>2, ReadsStore DEF Keys!ReadId, Keys!ReadHalf, KeysInv
  <2>2. QED
    BY <2>1 DEF KeysInv, KeysTyped, PromisesStored, StartFound, CopiedFirst, Dropping,
                Past, Keys!Halves,
                Keys!Entry, Keys!IfMissing
<1>3. CASE Keys!ReadDh
  <2>1. /\ pc = "readDh" /\ UNCHANGED <<store, config, passphrase, storedKey, promised, misreads, made>>
        /\ after' = "check"
        /\ IF Keys!Entry(store, "dh") # None
           THEN pair' = [pair EXCEPT !["dh"] = Keys!Entry(store, "dh")] /\ pc' = "drop"
           ELSE pair' = pair /\ pc' = Keys!IfMissing
    BY <1>3, ReadsStore DEF Keys!ReadDh, Keys!ReadHalf, KeysInv
  <2>2. QED
    BY <2>1 DEF KeysInv, KeysTyped, PromisesStored, StartFound, CopiedFirst, Dropping,
                Past, Keys!Halves,
                Keys!Entry, Keys!IfMissing
<1>4. CASE Keys!Check
  BY <1>4 DEF Keys!Check, Keys!Goto, Keys!counters, Keys!memory, KeysInv, KeysTyped,
              PromisesStored, StartFound, CopiedFirst,
              Dropping, Past, Keys!Halves, Keys!Entry, Keys!Usable
<1>5. QED
  BY <1>1, <1>2, <1>3, <1>4

\* An old config's pair is moved in, or a new one is made.
LEMMA MakeKeeps ==
    ASSUME StoreReads, KeysInv, Keys!MigrateId \/ Keys!MigrateDh \/ Keys!GenerateId \/ Keys!GenerateDh
    PROVE  KeysInv'
<1>1. "id" \notin DOMAIN promised /\ "dh" \notin DOMAIN promised
  BY DEF Keys!MigrateId, Keys!MigrateDh, Keys!Migrate, Keys!GenerateId,
         Keys!GenerateDh, KeysInv, PromisesStored, StartFound
<1>2. CASE Keys!MigrateId \/ Keys!MigrateDh
  <2>1. PICK half \in Keys!Halves, ok \in BOOLEAN :
            /\ Keys!Write(half, config[half], ok)
            /\ pc' \in {"migrateDh", "drop", "check"}
            /\ pair' = Keys!LegacyPair /\ after' = "check"
            /\ UNCHANGED <<config, passphrase, storedKey, made, promised>>
    BY <1>2 DEF Keys!MigrateId, Keys!MigrateDh, Keys!Migrate, Keys!Halves
  <2>2. /\ misreads' = misreads
        /\ \A n : n # half => Keys!Entry(store, n)' = Keys!Entry(store, n)
    BY <2>1, WriteEffect DEF KeysInv
  <2>3. QED
    BY <1>1, <2>1, <2>2
    DEF KeysInv, KeysTyped, PromisesStored, StartFound, CopiedFirst, Copied, Dropping,
        Past,
                Keys!Halves, Secrets, Keys!Superseded, Keys!LegacyPair
<1>3. CASE Keys!GenerateId
  <2>1. PICK ok \in BOOLEAN :
            /\ Keys!Write("id", made', ok)
            /\ pc' \in {"generateDh", "readPassphrase"}
            /\ pair' = [h \in Keys!Halves |-> made'] /\ made' = made + 1
            /\ UNCHANGED <<after, config, passphrase, storedKey, promised>>
    BY <1>3 DEF Keys!GenerateId, Keys!Goto
  <2>2. /\ misreads' = misreads
        /\ \A n : n # "id" => Keys!Entry(store, n)' = Keys!Entry(store, n)
    BY <2>1, WriteEffect DEF KeysInv
  <2>3. Keys!Usable(pair)'
    BY <2>1 DEF Keys!Usable, StoreReads, KeysInv, KeysTyped
  <2>4. QED
    BY <1>1, <2>1, <2>2, <2>3
    DEF KeysInv, KeysTyped, PromisesStored, StartFound, CopiedFirst, Copied, Dropping,
        Past,
                Keys!Halves, Secrets, Keys!Superseded
<1>4. CASE Keys!GenerateDh
  <2>1. PICK ok \in BOOLEAN :
            /\ Keys!Write("dh", pair["dh"], ok)
            /\ pc' \in {"drop", "readPassphrase"} /\ after' = "readPassphrase"
            /\ pc = "generateDh"
            /\ UNCHANGED <<config, pair, passphrase, storedKey, made, promised>>
    BY <1>4 DEF Keys!GenerateDh, Keys!memory
  <2>2. /\ misreads' = misreads
        /\ \A n : n # "dh" => Keys!Entry(store, n)' = Keys!Entry(store, n)
    BY <2>1, WriteEffect DEF KeysInv
  <2>3. Keys!Usable(pair)'
    BY <2>1 DEF KeysInv, StartFound, Keys!Usable
  <2>4. QED
    BY <1>1, <2>1, <2>2, <2>3
    DEF KeysInv, KeysTyped, PromisesStored, StartFound, CopiedFirst, Copied, Dropping,
        Past,
                Keys!Halves, Secrets, Keys!Superseded
<1>5. QED
  BY <1>2, <1>3, <1>4

\* The plaintext of the pair is compared, copied and dropped.
LEMMA DropKeeps ==
    ASSUME StoreReads, KeysInv, Keys!Compare \/ Keys!StashId \/ Keys!StashDh \/ Keys!DropPlaintext
    PROVE  KeysInv'
<1>1. CASE Keys!Compare
  <2>1. /\ pc = "drop" /\ pc' \in {after, "purge", "stashId"}
        /\ pc' = "purge" => Keys!Matches(store)
        /\ UNCHANGED <<after, store, config, Keys!memory, made, promised, misreads>>
    <3>1. after \in {"check", "readPassphrase"}
      BY DEF KeysInv, KeysTyped
    <3>2. CASE Keys!LegacyPair = Keys!NoPair
      BY <1>1, <3>1, <3>2 DEF Keys!Compare, Keys!Goto, Keys!memory
    <3>3. CASE Keys!LegacyPair # Keys!NoPair
      BY <1>1, <3>1, <3>3, ReadsStore DEF Keys!Compare, Keys!Goto, Keys!memory,
                                          KeysInv
    <3>4. QED
      BY <3>2, <3>3
  <2>2. QED
    BY <2>1
    DEF KeysInv, KeysTyped, PromisesStored, StartFound, CopiedFirst, Copied, Dropping,
        Past,
                Keys!Halves, Secrets, Keys!Superseded, Keys!memory, Keys!Matches,
                Keys!Entry, Keys!Usable
<1>2. CASE Keys!StashId
  <2>1. PICK ok \in BOOLEAN :
            /\ IF config["id"] = None
               THEN ok /\ UNCHANGED <<store, faults, misreads>>
               ELSE Keys!Write("oldId", config["id"], ok)
            /\ pc = "stashId" /\ pc' = IF ok THEN "stashDh" ELSE after
            /\ UNCHANGED <<after, config, Keys!memory, made, promised>>
    BY <1>2 DEF Keys!StashId, Keys!Stash, Keys!Goto, Keys!Superseded
  <2>2. /\ misreads' = misreads
        /\ \A n : n # "oldId" => Keys!Entry(store, n)' = Keys!Entry(store, n)
        /\ ok => config["id"] = None \/ Keys!Entry(store, "oldId")' = config["id"]
    BY <2>1, WriteEffect DEF KeysInv, Keys!Entry
  <2>3. QED
    BY <2>1, <2>2
    DEF KeysInv, KeysTyped, PromisesStored, StartFound, CopiedFirst, Copied, Dropping,
        Past,
                Keys!Halves, Secrets, Keys!Superseded, Keys!memory, Keys!Usable
<1>3. CASE Keys!StashDh
  <2>1. PICK ok \in BOOLEAN :
            /\ IF config["dh"] = None
               THEN ok /\ UNCHANGED <<store, faults, misreads>>
               ELSE Keys!Write("oldDh", config["dh"], ok)
            /\ pc = "stashDh" /\ pc' = IF ok THEN "purge" ELSE after
            /\ UNCHANGED <<after, config, Keys!memory, made, promised>>
    BY <1>3 DEF Keys!StashDh, Keys!Stash, Keys!Goto, Keys!Superseded
  <2>2. /\ misreads' = misreads
        /\ \A n : n # "oldDh" => Keys!Entry(store, n)' = Keys!Entry(store, n)
        /\ ok => config["dh"] = None \/ Keys!Entry(store, "oldDh")' = config["dh"]
    BY <2>1, WriteEffect DEF KeysInv, Keys!Entry
  <2>3. QED
    BY <2>1, <2>2
    DEF KeysInv, KeysTyped, PromisesStored, StartFound, CopiedFirst, Copied, Dropping,
        Past,
                Keys!Halves, Secrets, Keys!Superseded, Keys!memory, Keys!Usable
<1>4. CASE Keys!DropPlaintext
  <2>1. /\ pc = "purge" /\ pc' = after
        /\ config' = [n \in Keys!Halves \cup {"passphrase"} |-> config'[n]]
        /\ UNCHANGED <<after, store, Keys!memory, made, misreads, promised>>
    BY <1>4 DEF Keys!DropPlaintext, Keys!Purge, Keys!Goto, KeysInv, KeysTyped
  <2>2. QED
    BY <2>1
    DEF KeysInv, KeysTyped, PromisesStored, StartFound, CopiedFirst, Copied, Dropping,
        Past,
                Keys!Halves, Secrets, Keys!Superseded, Keys!memory, Keys!Entry,
                Keys!Usable
<1>5. QED
  BY <1>1, <1>2, <1>3, <1>4

\* The passphrase is read, moved or set.
LEMMA PassphraseKeeps ==
    ASSUME StoreReads, KeysInv,
           \/ Keys!ReadPassphrase \/ Keys!MovePassphrase \/ Keys!DropPassphrase
           \/ \E p \in Phrases \cup {None} : Keys!SetGroupPassphrase(p)
    PROVE  KeysInv'
<1>1. CASE Keys!ReadPassphrase
  <2>1. /\ pc = "readPassphrase" /\ passphrase' = Keys!Entry(store, "passphrase")
        /\ pc' \in {"purgePassphrase", "movePassphrase", "ready"}
        /\ pc' = "movePassphrase" => passphrase' = None
        /\ UNCHANGED <<after, store, config, pair, storedKey, made, promised, misreads>>
    BY <1>1, ReadsStore DEF Keys!ReadPassphrase, Keys!Goto, KeysInv
  <2>2. QED
    BY <2>1
    DEF KeysInv, KeysTyped, PromisesStored, StartFound, CopiedFirst, Copied, Dropping,
        Past,
                Keys!Halves, Secrets, Keys!Superseded, Keys!Entry, Keys!Usable
<1>2. CASE Keys!MovePassphrase
  <2>1. PICK ok \in BOOLEAN :
            /\ Keys!Write("passphrase", passphrase', ok)
            /\ pc = "movePassphrase" /\ pc' \in {"purgePassphrase", "ready"}
            /\ UNCHANGED <<after, config, pair, storedKey, made, promised>>
    BY <1>2 DEF Keys!MovePassphrase, Keys!Goto
  <2>2. /\ misreads' = misreads
        /\ \A n : n # "passphrase" => Keys!Entry(store, n)' = Keys!Entry(store, n)
    BY <2>1, WriteEffect DEF KeysInv
  <2>3. QED
    BY <2>1, <2>2
    DEF KeysInv, KeysTyped, PromisesStored, StartFound, CopiedFirst, Copied, Dropping,
        Past,
                Keys!Halves, Secrets, Keys!Superseded, Keys!Usable
<1>3. CASE Keys!DropPassphrase
  <2>1. /\ pc = "purgePassphrase" /\ pc' = "ready"
        /\ config' = [n \in Keys!Halves \cup {"passphrase"} |-> config'[n]]
        /\ UNCHANGED <<after, store, Keys!memory, made, misreads, promised>>
    BY <1>3 DEF Keys!DropPassphrase, Keys!Purge, Keys!Goto, KeysInv, KeysTyped
  <2>2. QED
    BY <2>1
    DEF KeysInv, KeysTyped, PromisesStored, StartFound, CopiedFirst, Copied, Dropping,
        Past,
                Keys!Halves, Secrets, Keys!Superseded, Keys!memory, Keys!Entry,
                Keys!Usable
<1>4. ASSUME NEW p \in Phrases \cup {None}, Keys!SetGroupPassphrase(p)
      PROVE  KeysInv'
  <2>1. PICK ok \in BOOLEAN :
            /\ IF p = None THEN Keys!Erase("passphrase", ok)
               ELSE Keys!Write("passphrase", p, ok)
            /\ Keys!Promise("passphrase", p, ok)
            /\ pc = "up" /\ passphrase' = p
            /\ UNCHANGED <<config, pc, after, pair, storedKey, made>>
    BY <1>4 DEF Keys!SetGroupPassphrase
  <2>2. /\ misreads' = misreads
        /\ \A n : n # "passphrase" => Keys!Entry(store, n)' = Keys!Entry(store, n)
        /\ p # None /\ ok => Keys!Entry(store, "passphrase")' = p
    BY <2>1, WriteEffect, EraseEffect DEF KeysInv
  <2>3. QED
    BY <2>1, <2>2
    DEF KeysInv, KeysTyped, PromisesStored, StartFound, CopiedFirst, Copied, Dropping,
        Past,
                Keys!Halves, Secrets, Keys!Superseded, Keys!Usable, Keys!Promise,
                Keys!Insert, Keys!Remove
<1>5. QED
  BY <1>1, <1>2, <1>3, <1>4

\* The group's key is made or handed over.
LEMMA GroupKeyKeeps ==
    ASSUME StoreReads, KeysInv, Keys!EnsureGroupKey \/ \E k \in Phrases : Keys!SetGroupKey(k)
    PROVE  KeysInv'
<1>1. ASSUME Keys!EnsureGroupKey, Keys!Entry(store, "group") # None
      PROVE  KeysInv'
  <2>1. /\ pc = "up" /\ storedKey' = Keys!Entry(store, "group")
        /\ UNCHANGED <<store, config, pc, after, pair, passphrase, made, promised, misreads>>
    BY <1>1, ReadsStore DEF Keys!EnsureGroupKey, KeysInv
  <2>2. QED
    BY <2>1
    DEF KeysInv, KeysTyped, PromisesStored, StartFound, CopiedFirst, Copied, Dropping,
        Past,
                Keys!Halves, Secrets, Keys!Superseded, Keys!Entry, Keys!Usable
<1>2. ASSUME Keys!EnsureGroupKey, Keys!Entry(store, "group") = None
      PROVE  KeysInv'
  <2>1. PICK ok \in BOOLEAN :
            /\ Keys!Saves(Keys!Insert(store, "group", made'), ok)
            /\ Keys!Promise("group", made', ok)
            /\ pc = "up" /\ storedKey' = made' /\ made' = made + 1
            /\ UNCHANGED <<config, pc, after, pair, passphrase, misreads>>
    BY <1>2, ReadsStore DEF Keys!EnsureGroupKey, KeysInv
  <2>2. store' = IF ok THEN Keys!Insert(store, "group", made') ELSE store
    BY <2>1 DEF Keys!Saves
  <2>3. /\ \A n : n # "group" => Keys!Entry(store, n)' = Keys!Entry(store, n)
        /\ ok => Keys!Entry(store, "group")' = made'
    BY <2>2, EntryOfInsert DEF Keys!Entry
  <2>4. QED
    BY <2>1, <2>3
    DEF KeysInv, KeysTyped, PromisesStored, StartFound, CopiedFirst, Copied, Dropping,
        Past,
                Keys!Halves, Secrets, Keys!Superseded, Keys!Usable, Keys!Promise,
                Keys!Insert, Keys!Remove
<1>3. ASSUME NEW k \in Phrases, Keys!SetGroupKey(k)
      PROVE  KeysInv'
  <2>1. PICK ok \in BOOLEAN :
            /\ Keys!Write("group", k, ok) /\ Keys!Promise("group", k, ok)
            /\ pc = "up" /\ storedKey' = k
            /\ UNCHANGED <<config, pc, after, pair, passphrase, made>>
    BY <1>3 DEF Keys!SetGroupKey
  <2>2. /\ misreads' = misreads
        /\ \A n : n # "group" => Keys!Entry(store, n)' = Keys!Entry(store, n)
        /\ ok => Keys!Entry(store, "group")' = k
    BY <2>1, WriteEffect DEF KeysInv
  <2>3. QED
    BY <2>1, <2>2
    DEF KeysInv, KeysTyped, PromisesStored, StartFound, CopiedFirst, Copied, Dropping,
        Past,
                Keys!Halves, Secrets, Keys!Superseded, Keys!Usable, Keys!Promise,
                Keys!Insert, Keys!Remove
<1>4. QED
  BY <1>1, <1>2, <1>3

\* What the store holds when the program is up is promised from then on.
LEMMA AnnounceKeeps ==
    ASSUME StoreReads, KeysInv, Keys!Announce
    PROVE  KeysInv'
<1>1. /\ pc = "ready" /\ pc' = "up"
      /\ UNCHANGED <<after, store, config, Keys!memory, Keys!counters>>
  BY DEF Keys!Announce, Keys!Goto
<1>2. PICK new \in SUBSET Secrets :
          /\ \A n \in new : n \notin DOMAIN promised
          /\ "group" \notin new /\ ("id" \in new <=> "dh" \in new)
          /\ \A h \in Keys!Halves \cap new : pair[h] # None /\ Keys!Entry(store, h) = pair[h]
          /\ "passphrase" \in new =>
                 passphrase # None /\ Keys!Entry(store, "passphrase") = passphrase
          /\ promised' = [n \in DOMAIN promised \cup new |->
                             IF n \notin new THEN promised[n]
                             ELSE IF n \in Keys!Halves THEN pair[n] ELSE passphrase]
  <2> DEFINE pairHeld == \A h \in Keys!Halves : Keys!Held(h, pair[h])
             phraseHeld == Keys!Held("passphrase", passphrase)
             new == (IF pairHeld THEN Keys!Halves ELSE {})
                    \cup (IF phraseHeld THEN {"passphrase"} ELSE {})
  <2>1. promised' = [n \in DOMAIN promised \cup new |->
                       IF n \notin new THEN promised[n]
                       ELSE IF n \in Keys!Halves THEN pair[n] ELSE passphrase]
    BY DEF Keys!Announce
  <2>2. /\ new \in SUBSET Secrets /\ "group" \notin new
        /\ "id" \in new <=> "dh" \in new
        /\ \A n \in new : n \notin DOMAIN promised
        /\ \A h \in Keys!Halves \cap new : pair[h] # None /\ Keys!Entry(store, h) = pair[h]
        /\ "passphrase" \in new =>
               passphrase # None /\ Keys!Entry(store, "passphrase") = passphrase
    BY DEF Keys!Held, Keys!Halves, Secrets
  <2> HIDE DEF new
  <2>3. QED
    BY <2>1, <2>2
<1>3. /\ DOMAIN promised' = DOMAIN promised \cup new
      /\ \A n \in DOMAIN promised : promised'[n] = promised[n]
      /\ \A h \in Keys!Halves \cap new : promised'[h] = pair[h]
      /\ "passphrase" \in new => promised'["passphrase"] = passphrase
  BY <1>2 DEF Keys!Halves
<1>4. Keys!Usable(pair) /\ Keys!Usable(pair)'
  BY <1>1 DEF Keys!memory, KeysInv, StartFound, Past, Keys!Usable
<1>5. KeysTyped' /\ CopiedFirst'
  BY <1>1, <1>2, <1>3 DEF Keys!memory, Keys!counters, KeysInv, KeysTyped, CopiedFirst
<1>6. PromisesStored'
  <2>1. ASSUME NEW n \in DOMAIN promised'
        PROVE  promised'[n] # None /\ Keys!Entry(store, n)' = promised'[n]
    <3>1. Keys!Entry(store, n)' = Keys!Entry(store, n)
      BY <1>1 DEF Keys!Entry
    <3>2. n \in DOMAIN promised \/ n \in Keys!Halves \cap new \/ (n = "passphrase" /\ n \in new)
      BY <1>2, <1>3 DEF Secrets
    <3>3. CASE n \in DOMAIN promised
      BY <1>3, <3>1, <3>3 DEF KeysInv, PromisesStored
    <3>4. CASE n \in Keys!Halves \cap new
      BY <1>2, <1>3, <3>1, <3>4
    <3>5. CASE n = "passphrase" /\ n \in new
      BY <1>2, <1>3, <3>1, <3>5
    <3>6. QED
      BY <3>2, <3>3, <3>4, <3>5
  <2>2. "id" \in DOMAIN promised' <=> "dh" \in DOMAIN promised'
    BY <1>2, <1>3 DEF KeysInv, PromisesStored
  <2>3. ASSUME NEW h \in Keys!Halves, h \in DOMAIN promised'
        PROVE  promised'[h] # Bad
    BY <1>3, <1>4, <2>3 DEF KeysInv, PromisesStored, Keys!Usable
  <2>4. QED
    BY <2>1, <2>2, <2>3 DEF PromisesStored
<1>7. StartFound'
  <2>1. "id" \in DOMAIN promised' => \A h \in Keys!Halves : pair'[h] = promised'[h]
    <3>1. CASE "id" \in DOMAIN promised
      BY <1>1, <1>3, <3>1 DEF Keys!memory, KeysInv, PromisesStored, StartFound,
                              Keys!Halves, Past
    <3>2. CASE "id" \in new
      BY <1>1, <1>2, <1>3, <3>2 DEF Keys!memory, Keys!Halves
    <3>3. QED
      BY <1>3, <3>1, <3>2
  <2>2. "passphrase" \in DOMAIN promised' => passphrase' = promised'["passphrase"]
    BY <1>1, <1>3 DEF Keys!memory, KeysInv, StartFound
  <2>3. "group" \in DOMAIN promised' => storedKey' \in {None, promised'["group"]}
    BY <1>1, <1>2, <1>3 DEF Keys!memory, KeysInv, StartFound
  <2>4. QED
    BY <1>1, <1>4, <2>1, <2>2, <2>3 DEF StartFound, Dropping, Past
<1>8. QED
  BY <1>5, <1>6, <1>7 DEF KeysInv

LEMMA OutsideKeeps ==
    ASSUME StoreReads, KeysInv, Keys!Quit \/ Keys!RestoreConfig \/ UNCHANGED Keys!vars
    PROVE  KeysInv'
<1>1. CASE Keys!Quit
  BY <1>1 DEF Keys!Quit, Keys!NoPair, Keys!counters, Keys!Entry,
              KeysInv, KeysTyped, PromisesStored, StartFound, CopiedFirst, Copied,
              Dropping, Past,
                Keys!Halves, Secrets, Keys!Superseded
<1>2. CASE Keys!RestoreConfig
  BY <1>2 DEF Keys!RestoreConfig, Keys!Configs, Keys!memory, Keys!Entry,
              KeysInv, KeysTyped, PromisesStored, StartFound, CopiedFirst, Copied,
              Dropping, Past,
                Keys!Halves, Secrets, Keys!Superseded
<1>3. CASE UNCHANGED Keys!vars
  BY <1>3 DEF Keys!vars, Keys!memory, Keys!counters, Keys!Entry, Keys!Usable,
              KeysInv, KeysTyped, PromisesStored, StartFound, CopiedFirst, Copied,
              Dropping, Past,
                Keys!Halves, Secrets, Keys!Superseded
<1>4. QED
  BY <1>1, <1>2, <1>3

LEMMA KeysNextKeeps == StoreReads /\ KeysInv /\ [Keys!Next]_(Keys!vars) => KeysInv'
  BY ReadKeeps, MakeKeeps, DropKeeps, PassphraseKeeps, GroupKeyKeeps, AnnounceKeeps,
     OutsideKeeps DEF Keys!Next
-----------------------------------------------------------------------------
\* The identity, the passphrase and the group key nobody was warned about are
\* those of every later run, wherever a run ended and whatever could not be
\* written, if the store reads what it holds (CryptoManager::initKeypairs,
\* AppSettings::loadGroupPassphrase, NetworkManager::ensureGroupKey).
THEOREM SecretsAlwaysComeBack ==
    ASSUME StoreReads
    PROVE  Keys!Spec => []SecretsComeBack
<1>1. KeysInv => SecretsComeBack
  <2> SUFFICES ASSUME KeysInv, pc = "up", NEW n \in DOMAIN promised
               PROVE  CASE n \in Keys!Halves -> pair[n] = promised[n]
                        [] n = "passphrase" -> passphrase = promised[n]
                        [] OTHER -> storedKey \in {None, promised[n]}
    BY DEF SecretsComeBack, Keys!SecretsComeBack
  <2>1. CASE n \in Keys!Halves
    <3>1. "id" \in DOMAIN promised /\ n # "passphrase"
      BY <2>1 DEF KeysInv, PromisesStored, Keys!Halves
    <3>2. pair[n] = promised[n]
      BY <2>1, <3>1 DEF KeysInv, StartFound, Past
    <3>3. QED
      BY <2>1, <3>1, <3>2
  <2>2. CASE n = "passphrase"
    BY <2>2 DEF KeysInv, StartFound, Keys!Halves
  <2>3. CASE n = "group"
    BY <2>3 DEF KeysInv, StartFound, Keys!Halves
  <2>4. QED
    BY <2>1, <2>2, <2>3 DEF KeysInv, KeysTyped, Secrets
<1>2. KeysInv /\ [Keys!Next]_(Keys!vars) => KeysInv'
  BY KeysNextKeeps
<1>3. QED
  BY KeysInitHolds, <1>1, <1>2, PTL DEF Keys!Spec

\* And the plaintext of a private key never goes before the store has a copy of
\* it (CryptoManager::dropLegacyPlaintextKeys).
THEOREM PlaintextAlwaysGoesLast ==
    ASSUME StoreReads
    PROVE  Keys!Spec => PlaintextGoesLast
<1>1. KeysInv /\ [Keys!Next]_(Keys!vars) => KeysInv'
  BY KeysNextKeeps
<1>2. KeysInv /\ [Keys!Next]_(Keys!vars) =>
          [pc = "purge" =>
               \A h \in Keys!Halves :
                   config'[h] # config[h] =>
                       config[h] \in {Keys!Entry(store, h), Keys!Entry(store, Keys!Superseded(h))}]_(Keys!vars)
  <2> SUFFICES ASSUME KeysInv, Keys!Next, pc = "purge", NEW h \in Keys!Halves,
                      config'[h] # config[h]
               PROVE  config[h] \in {Keys!Entry(store, h), Keys!Entry(store, Keys!Superseded(h))}
    OBVIOUS
  <2>1. config[h] # None
    <3>1. Keys!DropPlaintext \/ UNCHANGED config
      BY DEF Keys!Next, Keys!Start, Keys!ReadId, Keys!ReadDh, Keys!ReadHalf,
             Keys!MigrateId, Keys!MigrateDh, Keys!Migrate,
             Keys!Check, Keys!GenerateId, Keys!GenerateDh, Keys!Compare, Keys!StashId,
             Keys!StashDh, Keys!Stash,
             Keys!ReadPassphrase, Keys!MovePassphrase, Keys!DropPassphrase,
             Keys!Announce, Keys!Quit,
             Keys!RestoreConfig, Keys!SetGroupPassphrase, Keys!EnsureGroupKey,
             Keys!SetGroupKey
    <3>2. Keys!DropPlaintext
      BY <3>1
    <3>3. config' = [n \in DOMAIN config |-> IF n \in Keys!Halves THEN None ELSE config[n]]
          /\ h \in DOMAIN config
      BY <3>2 DEF Keys!DropPlaintext, Keys!Purge, KeysInv, KeysTyped
    <3>4. QED
      BY <3>3
  <2>2. QED
    BY <2>1 DEF KeysInv, CopiedFirst, Copied
<1>3. QED
  BY KeysInitHolds, <1>1, <1>2, PTL DEF Keys!Spec, PlaintextGoesLast,
                                        Keys!PlaintextGoesLast
-----------------------------------------------------------------------------
(* The texts of any two hosts of a LAN, for any passphrases and any number *)
(* of datagrams.                                                           *)

\* Group keys are numbers, also the ones that travel with an invitation.
MailTyped ==
    /\ keys \in Nat /\ groupKey \in [Hosts -> Nat]
    /\ \A m \in wire : m.type = "invite" => m.about \in Nat

\* A datagram's number names what was sealed in it.
MailNumbered ==
    /\ sent \in Nat
    /\ \A m \in wire : m.n \in Nat /\ m.n <= sent
    /\ \A h \in Hosts : \A s \in shown[h] : s.n \in Nat /\ s.n <= sent
    /\ \A m, o \in wire : m.n = o.n => m.seal = o.seal
    /\ DOMAIN shown = Hosts /\ shown = [h \in Hosts |-> shown[h]]

MailInv == Mail!TextsHold /\ MailTyped /\ MailNumbered
-----------------------------------------------------------------------------
LEMMA MailInitHolds == Mail!Init => MailInv
  BY DEF Mail!Init, MailInv, Mail!TextsHold, MailTyped, MailNumbered

\* What is sent next keeps the invariant if it is sealed when it is a text.
LEMMA SendKeeps ==
    ASSUME MailInv, NEW h \in Hosts, NEW targets, NEW type, NEW seal, NEW about,
           Mail!SendTo(h, targets, type, seal, about),
           type \in Mail!Texts => seal # Mail!Clear,
           type = "invite" => about \in Nat,
           keys' \in Nat, groupKey' \in [Hosts -> Nat], UNCHANGED shown
    PROVE  MailInv'
<1> DEFINE new == [n |-> sent + 1, from |-> h, type |-> type, seal |-> seal,
                   about |-> about, taken |-> FALSE,
                   signed |-> Mail!SignPacket(h, targets)]
<1>1. sent \in Nat /\ sent' = sent + 1 /\ wire' = wire \cup {new}
  BY DEF Mail!SendTo, MailInv, MailNumbered
<1>2. new.n = sent + 1 /\ new.type = type /\ new.seal = seal /\ new.about = about
  OBVIOUS
<1> HIDE DEF new
<1>3. MailTyped'
  BY <1>1, <1>2 DEF MailInv, MailTyped
<1>4. MailNumbered'
  BY <1>1, <1>2 DEF MailInv, MailNumbered
<1>5. Mail!TextsHold'
  <2>1. \A m \in wire' : m.type \in Mail!Texts => m.seal # Mail!Clear
    BY <1>1, <1>2 DEF MailInv, Mail!TextsHold, Mail!Clear
  <2>2. \A k \in Hosts : \A s \in shown[k] : s.n # new.n
    BY <1>1, <1>2 DEF MailInv, MailNumbered
  <2>3. QED
    BY <1>1, <2>1, <2>2 DEF MailInv, Mail!TextsHold, Mail!Clear
<1>6. QED
  BY <1>3, <1>4, <1>5 DEF MailInv

\* What opens a text says it, or says that it did not open.
LEMMA TextOpens ==
    ASSUME NEW h, NEW m
    PROVE  /\ Mail!DecryptMessageText(h, m) \in {"said", "error"}
           /\ m.seal.by = "session" => Mail!DecryptMessageText(h, m) = "said"
  BY DEF Mail!DecryptMessageText, Mail!Decrypt

\* A datagram that is taken stays what it was, and shows at most itself.
LEMMA DispatchKeeps ==
    ASSUME MailInv, NEW m \in wire, Mail!HandleDatagram(m)
    PROVE  MailInv'
<1> DEFINE done == [m EXCEPT !.taken = TRUE]
           h == Mail!Other(m.from)
<1>1. wire' = (wire \ {m}) \cup {done}
      /\ UNCHANGED <<session, phrase, keys, sent>>
      /\ Mail!Dispatch(h, m)
  BY DEF Mail!HandleDatagram
<1>2. /\ done.n = m.n /\ done.type = m.type /\ done.seal = m.seal
      /\ done.about = m.about
  OBVIOUS
<1> HIDE DEF done
<1>3. \A x \in wire' : \E o \in wire :
          x.n = o.n /\ x.type = o.type /\ x.seal = o.seal /\ x.about = o.about
  BY <1>1, <1>2
<1>4. /\ \A x \in wire' : x.type \in Mail!Texts => x.seal # Mail!Clear
      /\ \A x \in wire' : x.n \in Nat /\ x.n <= sent
      /\ \A x, o \in wire' : x.n = o.n => x.seal = o.seal
      /\ \A x \in wire' : x.n = m.n => x.seal = m.seal
      /\ \A x \in wire' : x.type = "invite" => x.about \in Nat
  BY <1>3 DEF MailInv, Mail!TextsHold, MailTyped, MailNumbered, Mail!Clear
<1>5. groupKey' \in [Hosts -> Nat]
  BY <1>1 DEF Mail!Dispatch, Mail!TakeText, Mail!TakeAmendment, Mail!TakeDelete,
              Mail!TakeRead, Mail!TakeInvite,
              MailInv, MailTyped
<1>6. shown = [k \in Hosts |-> shown[k]] /\ DOMAIN shown = Hosts
  BY DEF MailInv, MailNumbered
<1>7. CASE Mail!TakeDelete(h, m) \/ Mail!TakeRead(h, m) \/ Mail!TakeInvite(h, m)
  <2>1. /\ \A k \in Hosts : shown'[k] \subseteq shown[k]
        /\ DOMAIN shown' = Hosts /\ shown' = [k \in Hosts |-> shown'[k]]
    BY <1>6, <1>7 DEF Mail!TakeDelete, Mail!TakeRead, Mail!TakeInvite
  <2>2. Mail!TextsHold'
    BY <1>3, <1>4, <2>1 DEF MailInv, Mail!TextsHold, Mail!Clear
  <2>3. MailNumbered'
    BY <1>1, <1>4, <2>1 DEF MailInv, MailNumbered
  <2>4. QED
    BY <1>1, <1>4, <1>5, <2>2, <2>3 DEF MailInv, MailTyped
<1>8. CASE Mail!TakeText(h, m) \/ Mail!TakeAmendment(h, m)
  <2>1. PICK as \in {"said", "cipher", "error"} :
            /\ shown' \in {shown, [shown EXCEPT ![h] = @ \cup
                                     {[n |-> m.n, type |-> m.type, as |-> as]}]}
            /\ m.type \in Mail!Texts => /\ as \in {"said", "error"}
                                        /\ m.seal.by = "session" => as = "said"
    BY <1>8, TextOpens DEF Mail!TakeText, Mail!TakeAmendment, Mail!Show, Mail!Texts
  <2>2. /\ \A k \in Hosts : \A s \in shown'[k] :
               \/ s \in shown[k]
               \/ s.n = m.n /\ s.type = m.type /\ s.as = as
        /\ DOMAIN shown' = Hosts /\ shown' = [k \in Hosts |-> shown'[k]]
    <3> DEFINE item == [n |-> m.n, type |-> m.type, as |-> as]
    <3>1. item.n = m.n /\ item.type = m.type /\ item.as = as
      OBVIOUS
    <3> HIDE DEF item
    <3>2. CASE shown' = shown
      BY <1>6, <3>2
    <3>3. CASE shown' = [shown EXCEPT ![h] = @ \cup {item}]
      <4> HIDE DEF h
      <4>1. DOMAIN shown' = Hosts /\ shown' = [k \in Hosts |-> shown'[k]]
        BY <1>6, <3>3
      <4>2. \A k \in Hosts : \A s \in shown'[k] : s \in shown[k] \/ s = item
        BY <1>6, <3>3
      <4>3. QED
        BY <3>1, <4>1, <4>2
    <3>4. QED
      BY <2>1, <3>2, <3>3 DEF item
  <2>3. ASSUME NEW k \in Hosts, NEW s \in shown'[k], NEW x \in wire',
               s.n = x.n, s.type \in Mail!Texts
        PROVE  s.as \in {"said", "error"} /\ (x.seal.by = "session" => s.as = "said")
    <3>1. CASE s \in shown[k]
      BY <1>3, <2>3, <3>1 DEF MailInv, Mail!TextsHold
    <3>2. CASE s.n = m.n /\ s.type = m.type /\ s.as = as
      BY <1>4, <2>1, <2>3, <3>2
    <3>3. QED
      BY <2>2, <3>1, <3>2
  <2>4. Mail!TextsHold'
    BY <1>4, <2>3 DEF Mail!TextsHold, Mail!Clear
  <2>5. MailNumbered'
    BY <1>1, <1>4, <2>2 DEF MailInv, MailNumbered
  <2>6. QED
    BY <1>1, <1>4, <1>5, <2>4, <2>5 DEF MailInv, MailTyped
<1>9. QED
  BY <1>1, <1>7, <1>8 DEF Mail!Dispatch

LEMMA MailNextKeeps ==
    ASSUME None \notin Nat, MailInv, [Mail!Next]_(Mail!vars)
    PROVE  MailInv'
<1> USE SendKeeps
<1>1. ASSUME NEW h \in Hosts, Mail!SendPrivate(h)
      PROVE  MailInv'
  BY <1>1 DEF Mail!SendPrivate, Mail!Sealed, MailInv, MailTyped
<1>2. ASSUME NEW h \in Hosts, Mail!SendGroupMessage(h)
      PROVE  MailInv'
  <2>1. /\ keys' \in Nat /\ groupKey' \in [Hosts -> Nat]
        /\ Mail!SendTo(h, {"chat"}, "group", Mail!Encrypt(h, None, groupKey'[h]), 0)
        /\ UNCHANGED shown
    BY <1>2 DEF Mail!SendGroupMessage, Mail!EnsureGroupKey, MailInv, MailTyped
  <2>2. Mail!Encrypt(h, None, groupKey'[h]) # Mail!Clear
    BY <2>1 DEF Mail!Encrypt, Mail!Clear
  <2>3. QED
    BY <2>1, <2>2
<1>3. ASSUME NEW h \in Hosts, Mail!SendGroupInvite(h)
      PROVE  MailInv'
  BY <1>3 DEF Mail!SendGroupInvite, MailInv, MailTyped, Mail!Texts
<1>4. ASSUME NEW h \in Hosts,
             Mail!SendEdit(h) \/ Mail!SendReaction(h) \/ Mail!SendDelete(h) \/ Mail!SendReadReceipt(h)
      PROVE  MailInv'
  <2>1. /\ keys' \in Nat /\ groupKey' \in [Hosts -> Nat] /\ UNCHANGED shown
        /\ {"edit", "reaction", "delete", "read"} \cap (Mail!Texts \cup {"invite"}) = {}
    BY <1>4 DEF Mail!SendEdit, Mail!SendReaction, Mail!SendDelete,
                Mail!SendReadReceipt, Mail!Texts,
                MailInv, MailTyped
  <2>2. ASSUME NEW targets, NEW type \in {"edit", "reaction", "delete", "read"},
               NEW seal, NEW n, Mail!SendTo(h, targets, type, seal, n)
        PROVE  MailInv'
    BY <2>1, <2>2
  <2>3. CASE Mail!SendEdit(h)
    BY <2>2, <2>3 DEF Mail!SendEdit
  <2>4. CASE Mail!SendReaction(h)
    BY <2>2, <2>4 DEF Mail!SendReaction
  <2>5. CASE Mail!SendDelete(h)
    BY <2>2, <2>5 DEF Mail!SendDelete
  <2>6. CASE Mail!SendReadReceipt(h)
    BY <2>2, <2>6 DEF Mail!SendReadReceipt
  <2>7. QED
    BY <1>4, <2>3, <2>4, <2>5, <2>6
<1>5. ASSUME NEW m \in wire, Mail!HandleDatagram(m)
      PROVE  MailInv'
  BY <1>5, DispatchKeeps
<1>6. ASSUME NEW h \in Hosts, Mail!Handshake(h) \/ Mail!SetGroupPassphrase(h) \/ Mail!Restart(h)
      PROVE  MailInv'
  <2>1. UNCHANGED <<keys, wire, shown, sent>> /\ groupKey' \in [Hosts -> Nat]
    BY <1>6 DEF Mail!Handshake, Mail!SetGroupPassphrase, Mail!Restart, MailInv,
                MailTyped
  <2>2. QED
    BY <2>1 DEF MailInv, Mail!TextsHold, MailTyped, MailNumbered, Mail!Clear
<1>7. CASE UNCHANGED Mail!vars
  BY <1>7 DEF Mail!vars, MailInv, Mail!TextsHold, MailTyped, MailNumbered, Mail!Clear
<1>8. QED
  BY <1>1, <1>2, <1>3, <1>4, <1>5, <1>6, <1>7 DEF Mail!Next

\* Whatever sessions, passphrases and group keys come and go, and in whatever
\* order datagrams arrive: a text never travels in the clear, never shows as a
\* cipher, and opens if the session sealed it (NetworkManager::sendPrivate,
\* sendGroupMessage, decryptMessageText).
THEOREM TextsAlwaysHold ==
    ASSUME None \notin Nat
    PROVE  Mail!Spec => []TextsHold
<1>1. MailInv /\ [Mail!Next]_(Mail!vars) => MailInv'
  BY MailNextKeeps
<1>2. MailInv => TextsHold
  BY DEF MailInv, TextsHold
<1>3. QED
  BY MailInitHolds, <1>1, <1>2, PTL DEF Mail!Spec
-----------------------------------------------------------------------------
(* The five parts of the run: its behaviours are theirs.                   *)

\* Each part starts as it does alone and takes its own steps or none.
LEMMA PartsRun ==
    MCSpec => Spec /\ Rate!Spec /\ Files!Spec /\ Keys!Spec /\ Mail!Spec
<1>1. MCInit => Init /\ Rate!Init /\ Files!Init /\ Keys!Init /\ Mail!Init
  BY DEF MCInit
<1>2. ASSUME [MCNext]_allVars
      PROVE  /\ [Next]_vars /\ [Rate!Next]_(Rate!vars) /\ [Files!Next]_(Files!vars)
             /\ [Keys!Next]_(Keys!vars) /\ [Mail!Next]_(Mail!vars)
  <2> USE DEF allVars, vars, rateVars, fileVars, keyVars, mailVars, Rate!vars,
              Files!vars, Keys!vars, Keys!memory, Keys!counters, Mail!vars
  <2>1. CASE Next /\ UNCHANGED <<part, rateVars, fileVars, keyVars, mailVars>>
    BY <2>1
  <2>2. CASE Rate!Next /\ UNCHANGED <<part, vars, fileVars, keyVars, mailVars>>
    BY <2>2
  <2>3. CASE Files!Next /\ UNCHANGED <<part, vars, rateVars, keyVars, mailVars>>
    BY <2>3
  <2>4. CASE Keys!Next /\ UNCHANGED <<part, vars, rateVars, fileVars, mailVars>>
    BY <2>4
  <2>5. CASE Mail!Next /\ UNCHANGED <<part, vars, rateVars, fileVars, keyVars>>
    BY <2>5
  <2>6. CASE UNCHANGED allVars
    BY <2>6
  <2>7. QED
    BY <1>2, <2>1, <2>2, <2>3, <2>4, <2>5, <2>6 DEF MCNext
<1>3. QED
  BY <1>1, <1>2, PTL DEF MCSpec, Spec, Rate!Spec, Files!Spec, Keys!Spec, Mail!Spec

\* So all that the run checks of them holds for every value of the constants.
THEOREM GuardsHold ==
    ASSUME RateTyped, FilesTyped, StoreReads
    PROVE  MCSpec => [](AtMostOnce /\ RateHeld /\ PendingTrue /\ SecretsComeBack
                        /\ TextsHold)
<1>1. None \notin Nat
  BY DEF StoreReads
<1>2. QED
  BY <1>1, PartsRun, PassesOnce, RateAlwaysHeld, PendingAlwaysTrue,
     SecretsAlwaysComeBack, TextsAlwaysHold, PTL
=============================================================================
