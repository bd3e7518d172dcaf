------------------------- MODULE DecryptQueueProofs -------------------------
(***************************************************************************)
(* The line in front of the key derivation serves texts as MessageLine     *)
(* promises, whatever arrives and for any lengths and caches.              *)
(***************************************************************************)
EXTENDS DecryptQueue, SequenceTheorems, WellFoundedInduction, TLAPS

Entries == [id : Nat, salt : Salts \cup {Fast}]

Typed ==
    /\ arrived \in Nat /\ pending \in Seq(Entries) /\ surfaced \in Seq(Nat)
\* The worker derives for the head, and the head needs it.
HeadServed ==
    /\ pending = <<>> <=> inFlight = Fast
    /\ pending # <<>> => inFlight = pending[1].salt

IInv == Typed /\ HeadServed
-----------------------------------------------------------------------------
(* The line and the numbers of its texts *)

LEMMA IdsType ==
    ASSUME NEW line \in Seq(Entries)
    PROVE  /\ Ids(line) \in Seq(Nat) /\ Len(Ids(line)) = Len(line)
           /\ \A i \in 1..Len(line) : Ids(line)[i] = line[i].id
<1>1. Ids(line) = [i \in 1..Len(line) |-> line[i].id]
  BY LenProperties DEF Ids
<1>2. ASSUME NEW i \in 1..Len(line)
      PROVE  line[i].id \in Nat
  <2>1. line[i] \in Entries
    BY ElementOfSeq
  <2>2. QED
    BY <2>1 DEF Entries
<1>3. QED
  BY <1>1, <1>2

LEMMA IdsOfEmpty == Ids(<<>>) = <<>>
<1>1. Ids(<<>>) \in Seq(Nat) /\ Len(Ids(<<>>)) = 0
  BY IdsType, EmptySeq
<1>2. QED
  BY <1>1, EmptySeq

LEMMA IdsOfAppend ==
    ASSUME NEW line \in Seq(Entries), NEW entry \in Entries
    PROVE  Ids(Append(line, entry)) = Append(Ids(line), entry.id)
<1>1. /\ Append(line, entry) \in Seq(Entries)
      /\ Len(Append(line, entry)) = Len(line) + 1
      /\ \A i \in 1..Len(line) : Append(line, entry)[i] = line[i]
      /\ Append(line, entry)[Len(line) + 1] = entry
      /\ Len(line) \in Nat
  BY AppendProperties, LenProperties
<1>2. Ids(line) \in Seq(Nat) /\ entry.id \in Nat
  BY IdsType DEF Entries
<1>3. /\ Append(Ids(line), entry.id) \in Seq(Nat)
      /\ Len(Append(Ids(line), entry.id)) = Len(line) + 1
      /\ \A i \in 1..Len(line) : Append(Ids(line), entry.id)[i] = line[i].id
      /\ Append(Ids(line), entry.id)[Len(line) + 1] = entry.id
  BY <1>2, IdsType, AppendProperties
<1>4. /\ Ids(Append(line, entry)) \in Seq(Nat)
      /\ Len(Ids(Append(line, entry))) = Len(line) + 1
      /\ \A i \in 1..(Len(line) + 1) :
             Ids(Append(line, entry))[i] = Append(line, entry)[i].id
  BY <1>1, IdsType
<1>5. ASSUME NEW i \in 1..(Len(line) + 1)
      PROVE  Ids(Append(line, entry))[i] = Append(Ids(line), entry.id)[i]
  <2>1. i \in 1..Len(line) \/ i = Len(line) + 1
    BY <1>1
  <2>2. QED
    BY <1>1, <1>3, <1>4, <2>1
<1>6. QED
  BY <1>3, <1>4, <1>5, SeqEqual

LEMMA IdsOfPart ==
    ASSUME NEW line \in Seq(Entries), NEW m \in Nat \ {0}, NEW n \in 0..Len(line)
    PROVE  /\ SubSeq(line, m, n) \in Seq(Entries)
           /\ Ids(SubSeq(line, m, n)) = SubSeq(Ids(line), m, n)
<1>0. Len(line) \in Nat /\ m \in Int /\ n \in Int
  BY LenProperties
<1>1. ASSUME NEW i \in m..n
      PROVE  line[i] \in Entries /\ Ids(line)[i] = line[i].id /\ Ids(line)[i] \in Nat
  <2>1. i \in 1..Len(line)
    BY <1>0
  <2>2. line[i] \in Entries
    BY <2>1, ElementOfSeq
  <2>3. Ids(line)[i] = line[i].id
    BY <2>1, IdsType
  <2>4. QED
    BY <2>2, <2>3 DEF Entries
<1>2. /\ SubSeq(line, m, n) \in Seq(Entries)
      /\ Len(SubSeq(line, m, n)) = IF m <= n THEN n - m + 1 ELSE 0
      /\ \A i \in 1..(n - m + 1) : SubSeq(line, m, n)[i] = line[m + i - 1]
  BY <1>0, <1>1, SubSeqProperties
<1>3. /\ SubSeq(Ids(line), m, n) \in Seq(Nat)
      /\ Len(SubSeq(Ids(line), m, n)) = IF m <= n THEN n - m + 1 ELSE 0
      /\ \A i \in 1..(n - m + 1) : SubSeq(Ids(line), m, n)[i] = Ids(line)[m + i - 1]
  BY <1>0, <1>1, SubSeqProperties
<1>4. /\ Ids(SubSeq(line, m, n)) \in Seq(Nat)
      /\ Len(Ids(SubSeq(line, m, n))) = Len(SubSeq(line, m, n))
      /\ \A i \in 1..Len(SubSeq(line, m, n)) :
             Ids(SubSeq(line, m, n))[i] = SubSeq(line, m, n)[i].id
  BY <1>2, IdsType
<1>5. \A i \in 1..Len(SubSeq(line, m, n)) :
          Ids(SubSeq(line, m, n))[i] = SubSeq(Ids(line), m, n)[i]
  BY <1>0, <1>1, <1>2, <1>3, <1>4
<1>6. QED
  BY <1>2, <1>3, <1>4, <1>5, SeqEqual

\* Any texts there are have a first one.
LEMMA LeastNatural ==
    ASSUME NEW S \in SUBSET Nat, S # {}
    PROVE  \E n \in S : \A m \in S : n <= m
<1>1. PICK n \in S : \A m \in S : <<m, n>> \notin OpToRel(<, Nat)
  BY NatLessThanWellFounded, WFMin
<1>2. \A m \in S : ~(m < n)
  BY <1>1 DEF OpToRel
<1>3. QED
  BY <1>2

\* With the head leave the texts behind it that need no derivation, and all of
\* them: what is left begins with one that does.
LEMMA LeavingFacts ==
    ASSUME NEW line \in Seq(Entries), line # <<>>
    PROVE  /\ Leaving(line) \in 1..Len(line)
           /\ Leaving(line) < Len(line) => line[Leaving(line) + 1].salt # Fast
<1> DEFINE Ends == {k \in 1..Len(line) : k < Len(line) => line[k + 1].salt # Fast}
<1>1. Len(line) \in Nat \ {0}
  BY EmptySeq
<1>2. Len(line) \in Ends /\ Ends \in SUBSET Nat
  BY <1>1
<1>3. PICK n \in Ends : \A k \in Ends : n <= k
  BY <1>2, LeastNatural
<1>4. ASSUME NEW i \in 2..n
      PROVE  line[i].salt = Fast
  <2>1. i - 1 \in 1..Len(line) /\ i - 1 < n /\ i - 1 < Len(line) /\ (i - 1) + 1 = i
    BY <1>1, <1>3, <1>4
  <2>2. i - 1 \notin Ends
    BY <1>1, <1>3, <2>1
  <2>3. QED
    BY <2>1, <2>2
<1>5. \E k \in 1..Len(line) : /\ \A i \in 2..k : line[i].salt = Fast
                              /\ k < Len(line) => line[k + 1].salt # Fast
  BY <1>3, <1>4
<1>6. QED
  BY <1>5 DEF Leaving
-----------------------------------------------------------------------------
LEMMA InitHolds == Init => IInv
  BY EmptySeq DEF Init, IInv, Typed, HeadServed

\* A text that joins takes the number it arrived under.
LEMMA JoinFacts ==
    ASSUME Typed, NEW salt \in Salts \cup {Fast}
    PROVE  /\ Text(salt) \in Entries /\ Text(salt).id = arrived + 1
           /\ Text(salt).salt = salt
           /\ Append(pending, Text(salt)) \in Seq(Entries)
           /\ Append(pending, Text(salt)) # <<>>
           /\ Append(pending, Text(salt))[1] = IF pending = <<>> THEN Text(salt)
                                              ELSE pending[1]
           /\ Ids(Append(pending, Text(salt))) = Append(Ids(pending), arrived + 1)
<1>1. /\ Text(salt) \in Entries /\ Text(salt).id = arrived + 1
      /\ Text(salt).salt = salt
  BY DEF Typed, Text, Entries
<1>2. pending \in Seq(Entries)
  BY DEF Typed
<1>3. pending # <<>> => 1 \in 1..Len(pending)
  BY <1>2, EmptySeq
<1>4. QED
  BY <1>1, <1>2, <1>3, AppendProperties, IdsOfAppend, EmptySeq

LEMMA JoinKeeps ==
    ASSUME IInv, NEW salt \in Salts \cup {Fast}, ~Full, arrived' = arrived + 1,
           pending' = Append(pending, Text(salt)), UNCHANGED surfaced,
           inFlight' = StartDerivation(pending', inFlight),
           pending = <<>> => salt # Fast
    PROVE  IInv' /\ Line!Join
<1>1. Typed' /\ Ids(pending)' = Append(Ids(pending), arrived')
  BY JoinFacts DEF IInv, Typed
<1>2. Len(Ids(pending)) < MaxPending
  BY IdsType, LenProperties, DecryptQueueAssumption DEF IInv, Typed, Full
<1>3. HeadServed'
  BY JoinFacts DEF IInv, HeadServed, StartDerivation
<1>4. QED
  BY <1>1, <1>2, <1>3 DEF IInv, Line!Join

LEMMA DecryptAsyncKeeps ==
    ASSUME IInv, DecryptAsync
    PROVE  IInv' /\ Line!Next
<1>1. PICK salt \in Salts \cup {Fast} :
          \/ DeliverAtOnce(salt) \/ QueueFast(salt)
          \/ QueueSealed(salt) \/ Refuse(salt)
  BY DEF DecryptAsync
<1>2. arrived' = arrived + 1 /\ arrived \in Nat /\ Fast \in Salts \cup {Fast}
  BY DEF DecryptAsync, IInv, Typed
<1>3. CASE DeliverAtOnce(salt)
  <2>1. /\ pending = <<>> /\ surfaced' = Append(surfaced, arrived')
        /\ UNCHANGED <<pending, inFlight>>
    BY <1>3 DEF DeliverAtOnce, LineEmpty
  <2>2. IInv'
    BY <1>2, <2>1, AppendProperties DEF IInv, Typed, HeadServed
  <2>3. Line!PassThrough
    BY <1>2, <2>1, IdsOfEmpty DEF Line!PassThrough
  <2>4. QED
    BY <2>2, <2>3 DEF Line!Next
<1>4. CASE QueueFast(salt)
  <2>1. pending # <<>>
    BY <1>4 DEF QueueFast, LineEmpty, IInv, HeadServed
  <2>2. inFlight' = StartDerivation(pending', inFlight)
    BY <1>4, <2>1 DEF QueueFast, StartDerivation, IInv, HeadServed
  <2>3. QED
    BY <1>2, <1>4, <2>1, <2>2, JoinKeeps DEF QueueFast, Line!Next
<1>5. CASE QueueSealed(salt)
  BY <1>2, <1>5, JoinKeeps DEF QueueSealed, Line!Next
<1>6. CASE Refuse(salt)
  <2>1. UNCHANGED <<pending, inFlight, surfaced>>
    BY <1>6 DEF Refuse
  <2>2. IInv'
    BY <1>2, <2>1 DEF IInv, Typed, HeadServed
  <2>3. Line!TurnAway
    BY <1>2, <2>1 DEF Line!TurnAway
  <2>4. QED
    BY <2>2, <2>3 DEF Line!Next
<1>7. QED
  BY <1>1, <1>3, <1>4, <1>5, <1>6

LEMMA OnDerivedKeeps ==
    ASSUME IInv, OnDerived
    PROVE  IInv' /\ Line!Next
<1> DEFINE n == Leaving(pending)
           rest == SubSeq(pending, n + 1, Len(pending))
<1>1. pending \in Seq(Entries) /\ pending # <<>> /\ Len(pending) \in Nat
  BY LenProperties DEF OnDerived, IInv, Typed, HeadServed
<1>2. n \in 1..Len(pending) /\ (n < Len(pending) => pending[n + 1].salt # Fast)
  BY <1>1, LeavingFacts
<1>3. /\ surfaced' = surfaced \o Ids(SubSeq(pending, 1, n)) /\ pending' = rest
      /\ inFlight' = StartDerivation(rest, Fast) /\ arrived' = arrived
  BY DEF OnDerived
<1> HIDE DEF n
<1>4. /\ SubSeq(pending, 1, n) \in Seq(Entries)
      /\ Ids(SubSeq(pending, 1, n)) = SubSeq(Ids(pending), 1, n)
      /\ rest \in Seq(Entries)
      /\ Ids(rest) = SubSeq(Ids(pending), n + 1, Len(pending))
  <2>1. n \in 0..Len(pending) /\ n + 1 \in Nat \ {0} /\ 1 \in Nat \ {0}
        /\ Len(pending) \in 0..Len(pending)
    BY <1>1, <1>2
  <2>2. QED
    BY <1>1, <2>1, IdsOfPart
<1>5. surfaced' \in Seq(Nat)
  BY <1>3, <1>4, IdsType, ConcatProperties DEF IInv, Typed
<1>6. rest # <<>> => rest[1] = pending[n + 1] /\ n < Len(pending)
  <2>1. \A i \in (n + 1)..Len(pending) : pending[i] \in Entries
    <3>1. \A i \in 1..Len(pending) : pending[i] \in Entries
      BY <1>1, ElementOfSeq
    <3>2. QED
      BY <1>1, <1>2, <3>1
  <2>2. /\ Len(rest) = IF n + 1 <= Len(pending) THEN Len(pending) - (n + 1) + 1 ELSE 0
        /\ \A i \in 1..(Len(pending) - (n + 1) + 1) : rest[i] = pending[(n + 1) + i - 1]
    BY <1>1, <1>2, <2>1, SubSeqProperties
  <2>3. rest # <<>> => Len(rest) # 0
    BY <1>4, EmptySeq
  <2>4. QED
    BY <1>1, <1>2, <2>2, <2>3
<1>7. HeadServed'
  BY <1>2, <1>3, <1>6 DEF HeadServed, StartDerivation
<1>8. Line!Served(n)
  <2>1. Len(Ids(pending)) = Len(pending)
    BY <1>1, IdsType
  <2>2. QED
    BY <1>3, <1>4, <2>1 DEF Line!Served
<1>9. n \in 1..Len(Ids(pending))
  BY <1>1, <1>2, IdsType
<1>10. QED
  BY <1>3, <1>4, <1>5, <1>7, <1>8, <1>9 DEF IInv, Typed, Line!Next

\* Texts surface in the order they arrived in, each once, whatever is derived,
\* cached or turned away on the way (CryptoManager::decryptAsync, onDerived).
THEOREM LineIsServed == Spec => ServedInOrder
<1>1. Init => Line!Init
  BY IdsOfEmpty DEF Init, Line!Init
<1>2. IInv /\ [Next]_vars => IInv' /\ [Line!Next]_<<arrived, Ids(pending), surfaced>>
  <2> SUFFICES ASSUME IInv, [Next]_vars
               PROVE  IInv' /\ [Line!Next]_<<arrived, Ids(pending), surfaced>>
    OBVIOUS
  <2>1. CASE DeriveKey \/ UNCHANGED vars
    <3>1. UNCHANGED <<arrived, pending, inFlight, surfaced>>
      BY <2>1 DEF DeriveKey, vars
    <3>2. QED
      BY <3>1 DEF IInv, Typed, HeadServed
  <2>2. QED
    BY <2>1, DecryptAsyncKeeps, OnDerivedKeeps DEF Next
<1>3. QED
  BY InitHolds, <1>1, <1>2, PTL DEF Spec, ServedInOrder, Line!Spec
=============================================================================
