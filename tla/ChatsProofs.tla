---------------------------- MODULE ChatsProofs ----------------------------
(***************************************************************************)
(* What the parts of the conversations keep, each for every value of its   *)
(* constants: the popups, the rows of a chat with their log and their      *)
(* view, and the list beside them.                                         *)
(***************************************************************************)
EXTENDS MCChats, FiniteSetTheorems, WellFoundedInduction, TLAPS

(* The popups: any number of chats and popups.                             *)

DeskInv == serial \in Nat /\ DOMAIN popups \subseteq Nat /\ PopupsHeld

LEMMA DeskInit == Desk!Init => DeskInv
  BY DEF Desk!Init, DeskInv, PopupsHeld, Desk!PopupsHeld, Desk!EmptyHash

LEMMA DeskNext == DeskInv /\ [Desk!Next]_deskVars => DeskInv'
<1> SUFFICES ASSUME DeskInv, [Desk!Next]_deskVars PROVE DeskInv'
  OBVIOUS
<1> USE DEF DeskInv, PopupsHeld, Desk!PopupsHeld, Desk!Value, Desk!Close
<1>1. ASSUME NEW c, Desk!Post(c) PROVE DeskInv'
  <2>1. serial' \in Nat /\ DOMAIN popups' \subseteq Nat
    BY <1>1 DEF Desk!Post, Desk!Insert
  <2>2. ASSUME NEW p \in DOMAIN popups' \ closing'
        PROVE  Desk!Value(tracked', popups'[p], -1) = p
    <3>1. CASE p = serial
      BY <1>1, <3>1 DEF Desk!Post, Desk!Insert
    <3>2. CASE p # serial
      <4>1. p \in DOMAIN popups \ closing /\ popups'[p] = popups[p] /\ p # -1
        BY <1>1, <2>2, <3>2 DEF Desk!Post, Desk!Insert
      <4>2. popups[p] \in DOMAIN tracked /\ tracked[popups[p]] = p
        BY <4>1
      <4>3. popups[p] # c
        BY <1>1, <2>2, <4>1, <4>2 DEF Desk!Post
      <4>4. QED
        BY <1>1, <4>1, <4>2, <4>3 DEF Desk!Post, Desk!Insert
    <3>3. QED
      BY <3>1, <3>2
  <2>3. QED
    BY <2>1, <2>2
<1>2. ASSUME NEW c, Desk!ClearChat(c) PROVE DeskInv'
  <2>1. serial' \in Nat /\ DOMAIN popups' \subseteq Nat
    BY <1>2 DEF Desk!ClearChat
  <2>2. ASSUME NEW p \in DOMAIN popups' \ closing'
        PROVE  Desk!Value(tracked', popups'[p], -1) = p
    <3>1. p \in DOMAIN popups \ closing /\ popups' = popups /\ p # -1
      BY <1>2, <2>2 DEF Desk!ClearChat
    <3>2. popups[p] \in DOMAIN tracked /\ tracked[popups[p]] = p
      BY <3>1
    <3>3. popups[p] # c
      BY <1>2, <2>2, <3>1, <3>2 DEF Desk!ClearChat
    <3>4. QED
      BY <1>2, <3>1, <3>2, <3>3 DEF Desk!ClearChat, Desk!Remove
  <2>3. QED
    BY <2>1, <2>2
<1>3. ASSUME NEW q \in DOMAIN popups, Desk!Closed(q) PROVE DeskInv'
  <2>1. serial' \in Nat /\ DOMAIN popups' \subseteq Nat
    BY <1>3 DEF Desk!Closed, Desk!Remove
  <2>2. ASSUME NEW p \in DOMAIN popups' \ closing'
        PROVE  Desk!Value(tracked', popups'[p], -1) = p
    <3>1. /\ p \in DOMAIN popups \ closing /\ popups'[p] = popups[p]
          /\ p # -1 /\ p # q /\ q # -1
      BY <1>3, <2>2 DEF Desk!Closed, Desk!Remove
    <3>2. popups[p] \in DOMAIN tracked /\ tracked[popups[p]] = p
      BY <3>1
    <3>3. CASE Desk!Value(tracked, popups[q], -1) = q
      BY <1>3, <3>1, <3>2, <3>3 DEF Desk!Closed, Desk!Forgotten, Desk!Remove
    <3>4. CASE Desk!Value(tracked, popups[q], -1) # q
      BY <1>3, <3>1, <3>2, <3>4 DEF Desk!Closed, Desk!Forgotten
    <3>5. QED
      BY <3>3, <3>4
  <2>3. QED
    BY <2>1, <2>2
<1>4. CASE Desk!Attention
  BY <1>4 DEF Desk!Attention
<1>5. CASE UNCHANGED deskVars
  BY <1>5 DEF deskVars
<1>6. QED
  BY <1>1, <1>2, <1>3, <1>4, <1>5
     DEF Desk!Next, Desk!NotifyMessage, Desk!NotifyCall

\* Whatever messages and calls come, chats are read and popups close late: a
\* popup that is up and was not told to close is the one its chat holds
\* (NotificationManager).
THEOREM PopupsAlwaysHeld == Desk!Init /\ [][Desk!Next]_deskVars => []PopupsHeld
<1>1. Desk!Init /\ [][Desk!Next]_deskVars => []DeskInv
  BY DeskInit, DeskNext, PTL
<1>2. DeskInv => PopupsHeld
  BY DEF DeskInv
<1>3. QED
  BY <1>1, <1>2, PTL
-----------------------------------------------------------------------------
(* Folds.  The model picks entries out of a sequence, replays votes and    *)
(* adds counts with a fold each; what is said of one is said of all three. *)

Chosen(kind, S) == IF kind = "sum" THEN CHOOSE x \in S : TRUE ELSE Max(S)
Step(kind, f, x, acc) ==
    IF kind = "sum" THEN f[x] + acc
    ELSE IF kind = "pick" THEN Append(acc, f[x])
    ELSE Voted(acc, f[x].answer, f[x].voter)

Folds(it, kind, f, base, S) ==
    it = [s \in SUBSET S |->
             IF s = {} THEN base
             ELSE Step(kind, f, Chosen(kind, s), it[s \ {Chosen(kind, s)}])]
Fold(kind, f, base, S) == (CHOOSE it : Folds(it, kind, f, base, S))[S]

\* What may be folded: a finite set, of places where their order matters.
Foldable(kind, S) == IsFiniteSet(S) /\ (kind = "sum" \/ S \subseteq Nat)

\* A nonempty set of natural numbers has a least element, and a finite one a
\* greatest.
LEMMA LeastNatural ==
    ASSUME NEW S \in SUBSET Nat, S # {}
    PROVE  \E n \in S : \A m \in S : n <= m
<1>1. PICK n \in S : \A m \in S : <<m, n>> \notin OpToRel(<, Nat)
  BY NatLessThanWellFounded, WFMin
<1>2. \A m \in S : ~(m < n)
  BY <1>1 DEF OpToRel
<1>3. QED
  BY <1>2

LEMMA LeastIs ==
    ASSUME NEW S \in SUBSET Nat, S # {}
    PROVE  Min(S) \in S /\ \A m \in S : Min(S) <= m
  BY LeastNatural DEF Min

\* Induction over the subsets of a finite set.
LEMMA SubsetInduction ==
    ASSUME NEW S, IsFiniteSet(S), NEW G,
           \A T \in SUBSET S : (\A U \in SUBSET T : U # T => U \in G) => T \in G
    PROVE  S \in G
<1> SUFFICES ASSUME S \notin G PROVE FALSE
  OBVIOUS
<1> DEFINE bad == {T \in SUBSET S : T \notin G}
           sizes == {Cardinality(T) : T \in bad}
<1>1. \A T \in SUBSET S : IsFiniteSet(T) /\ Cardinality(T) \in Nat
  BY FS_Subset, FS_CardinalityType
<1>2. sizes \in SUBSET Nat /\ sizes # {}
  BY <1>1
<1>3. PICK n \in sizes : \A m \in sizes : n <= m
  BY <1>2, LeastNatural
<1>4. PICK T \in bad : Cardinality(T) = n
  BY <1>3
<1>5. ASSUME NEW U \in SUBSET T, U # T PROVE U \in G
  <2> SUFFICES ASSUME U \notin G PROVE FALSE
    OBVIOUS
  <2>1. Cardinality(U) <= Cardinality(T) /\ Cardinality(U) # Cardinality(T)
    BY <1>1, <1>5, FS_Subset
  <2>2. U \in bad /\ Cardinality(U) \in Nat /\ Cardinality(T) \in Nat
    BY <1>1, <1>5
  <2>3. n <= Cardinality(U)
    BY <1>3, <2>2
  <2>4. QED
    BY <1>4, <2>1, <2>2, <2>3
<1>6. QED
  BY <1>5

LEMMA GreatestNatural ==
    ASSUME NEW S \in SUBSET Nat, IsFiniteSet(S), S # {}
    PROVE  \E n \in S : \A m \in S : n >= m
<1> DEFINE G == {T \in SUBSET S : T # {} => \E n \in T : \A m \in T : n >= m}
<1>1. ASSUME NEW T \in SUBSET S, \A U \in SUBSET T : U # T => U \in G
      PROVE  T \in G
  <2> SUFFICES ASSUME T # {} PROVE \E n \in T : \A m \in T : n >= m
    OBVIOUS
  <2>1. PICK x \in T : TRUE
    OBVIOUS
  <2>2. CASE T = {x}
    BY <2>2
  <2>3. CASE T # {x}
    <3>1. T \ {x} \in G /\ T \ {x} # {}
      BY <1>1, <2>1, <2>3
    <3>2. PICK n \in T \ {x} : \A m \in T \ {x} : n >= m
      BY <3>1
    <3>3. n \in Nat /\ x \in Nat /\ \A m \in T : m \in Nat
      BY <2>1
    <3>4. CASE n >= x
      BY <3>2, <3>3, <3>4
    <3>5. CASE ~(n >= x)
      BY <2>1, <3>2, <3>3, <3>5
    <3>6. QED
      BY <3>4, <3>5
  <2>4. QED
    BY <2>2, <2>3
<1> HIDE DEF G
<1>2. S \in G
  BY <1>1, SubsetInduction
<1>3. QED
  BY <1>2 DEF G

LEMMA GreatestIs ==
    ASSUME NEW S \in SUBSET Nat, IsFiniteSet(S), S # {}
    PROVE  Max(S) \in S /\ \A m \in S : Max(S) >= m
  BY GreatestNatural DEF Max

LEMMA ChosenIn ==
    ASSUME NEW kind, NEW S, Foldable(kind, S), S # {}
    PROVE  Chosen(kind, S) \in S
  BY GreatestIs DEF Foldable, Chosen

LEMMA FoldableSub ==
    ASSUME NEW kind, NEW S, Foldable(kind, S), NEW T \in SUBSET S
    PROVE  Foldable(kind, T)
  BY FS_Subset DEF Foldable

\* Two folds of the same values agree where both are defined.
LEMMA FoldsUnique ==
    ASSUME NEW kind, NEW f, NEW base, NEW S, Foldable(kind, S),
           NEW U, NEW V, S \subseteq U, S \subseteq V,
           NEW i, NEW j, Folds(i, kind, f, base, U), Folds(j, kind, f, base, V)
    PROVE  i[S] = j[S]
<1> DEFINE G == {s \in SUBSET S : i[s] = j[s]}
<1>1. ASSUME NEW T \in SUBSET S, \A s \in SUBSET T : s # T => s \in G
      PROVE  T \in G
  <2> DEFINE x == Chosen(kind, T)
  <2>1. /\ i[T] = IF T = {} THEN base ELSE Step(kind, f, x, i[T \ {x}])
        /\ j[T] = IF T = {} THEN base ELSE Step(kind, f, x, j[T \ {x}])
    BY DEF Folds
  <2>2. CASE T = {}
    BY <2>1, <2>2
  <2>3. CASE T # {}
    <3>1. T \ {x} \in SUBSET T /\ T \ {x} # T
      BY <2>3, ChosenIn, FoldableSub
    <3>2. i[T \ {x}] = j[T \ {x}]
      BY <1>1, <3>1
    <3> HIDE DEF x
    <3>3. QED
      BY <2>1, <2>3, <3>2
  <2>4. QED
    BY <2>2, <2>3
<1> HIDE DEF G
<1>2. S \in G
  BY <1>1, SubsetInduction DEF Foldable
<1>3. QED
  BY <1>2 DEF G

\* And there is one.
LEMMA FoldsExist ==
    ASSUME NEW kind, NEW f, NEW base, NEW S, Foldable(kind, S)
    PROVE  Folds(CHOOSE it : Folds(it, kind, f, base, S), kind, f, base, S)
<1> DEFINE G == {s \in SUBSET S : \E it : Folds(it, kind, f, base, s)}
<1>1. ASSUME NEW T \in SUBSET S, \A s \in SUBSET T : s # T => s \in G
      PROVE  T \in G
  <2> DEFINE rest(s) == s \ {Chosen(kind, s)}
             all(s) == IF s = {} THEN base
                       ELSE Step(kind, f, Chosen(kind, s),
                                 Fold(kind, f, base, rest(s)))
             it == [s \in SUBSET T |-> all(s)]
  <2>0. \A s \in SUBSET T : s # {} => rest(s) \in SUBSET T /\ rest(s) # T
                                      /\ rest(s) \in SUBSET s /\ rest(s) # s
    BY ChosenIn, FoldableSub
  <2>1. ASSUME NEW s \in SUBSET T, s # T PROVE Fold(kind, f, base, s) = all(s)
    <3> DEFINE i == CHOOSE it2 : Folds(it2, kind, f, base, s)
    <3>1. Folds(i, kind, f, base, s)
      BY <1>1, <2>1
    <3>2. Fold(kind, f, base, s)
              = IF s = {} THEN base ELSE Step(kind, f, Chosen(kind, s), i[rest(s)])
      BY <3>1 DEF Fold, Folds
    <3>3. CASE s = {}
      BY <3>2, <3>3
    <3>4. CASE s # {}
      <4> DEFINE u == rest(s)
                 j == CHOOSE it2 : Folds(it2, kind, f, base, u)
      <4>1. u \in SUBSET T /\ u # T /\ u \in SUBSET s
        BY <2>0, <2>1, <3>4
      <4>2. Folds(j, kind, f, base, u)
        BY <1>1, <4>1
      <4>3. Foldable(kind, u)
        BY <4>1, FoldableSub
      <4> HIDE DEF i, j
      <4>4. i[u] = j[u]
        BY <3>1, <4>1, <4>2, <4>3, FoldsUnique
      <4>5. Fold(kind, f, base, u) = j[u]
        BY DEF Fold, j
      <4>6. QED
        BY <3>2, <3>4, <4>4, <4>5
    <3>5. QED
      BY <3>3, <3>4
  <2>2. Folds(it, kind, f, base, T)
    <3>1. \A s \in SUBSET T :
              all(s) = IF s = {} THEN base
                       ELSE Step(kind, f, Chosen(kind, s), it[rest(s)])
      BY <2>0, <2>1
    <3> HIDE DEF all
    <3>2. QED
      BY <3>1 DEF Folds
  <2> HIDE DEF it
  <2>3. QED
    BY <2>2
<1> HIDE DEF G
<1>2. S \in G
  BY <1>1, SubsetInduction DEF Foldable
<1>3. QED
  BY <1>2 DEF G

LEMMA FoldOfNone ==
    ASSUME NEW kind, NEW f, NEW base PROVE Fold(kind, f, base, {}) = base
  BY FoldsExist, FS_EmptySet DEF Fold, Folds, Foldable

\* A fold is a step from the fold of the others.
LEMMA FoldSplits ==
    ASSUME NEW kind, NEW f, NEW base, NEW S, Foldable(kind, S), S # {}
    PROVE  Fold(kind, f, base, S)
               = Step(kind, f, Chosen(kind, S),
                      Fold(kind, f, base, S \ {Chosen(kind, S)}))
<1> DEFINE i == CHOOSE it : Folds(it, kind, f, base, S)
           rest == S \ {Chosen(kind, S)}
           j == CHOOSE it : Folds(it, kind, f, base, rest)
<1>1. Folds(i, kind, f, base, S)
  BY FoldsExist
<1>2. Foldable(kind, rest) /\ rest \subseteq S
  BY FoldableSub
<1>3. Folds(j, kind, f, base, rest)
  BY <1>2, FoldsExist
<1>4. i[S] = Step(kind, f, Chosen(kind, S), i[rest])
  BY <1>1 DEF Folds
<1> HIDE DEF i, j, rest
<1>5. i[rest] = j[rest]
  BY <1>1, <1>2, <1>3, FoldsUnique
<1>6. Fold(kind, f, base, S) = i[S] /\ Fold(kind, f, base, rest) = j[rest]
  BY DEF Fold, i, j
<1>7. QED
  BY <1>4, <1>5, <1>6 DEF rest

\* The folds of the model are these.
LEMMA PickedIsFold ==
    ASSUME NEW seq, NEW places
    PROVE  Picked(seq, places) = Fold("pick", seq, <<>>, places)
  BY DEF Picked, MapThenFoldSet, Fold, Folds, Step, Chosen

LEMMA ReplayedIsFold ==
    ASSUME NEW e
    PROVE  Replayed(e) = Fold("vote", stash, e, VotesFor(e.id))
  BY DEF Replayed, MapThenFoldSet, Fold, Folds, Step, Chosen

LEMMA SumIsFold ==
    ASSUME NEW f
    PROVE  List!SumOf(f) = Fold("sum", f, 0, DOMAIN f)
  BY DEF List!SumOf, List!FoldFunction, List!FoldFunctionOnSet,
         List!MapThenFoldSet, Fold, Folds, Step, Chosen
-----------------------------------------------------------------------------
(* What is picked out of a sequence.                                       *)

\* The entry at the last of the places comes last.
LEMMA PickedSplits ==
    ASSUME NEW seq, NEW P \in SUBSET Nat, IsFiniteSet(P), P # {}
    PROVE  Picked(seq, P) = Append(Picked(seq, P \ {Max(P)}), seq[Max(P)])
<1>1. Foldable("pick", P) /\ Chosen("pick", P) = Max(P)
  BY DEF Foldable, Chosen
<1>2. Fold("pick", seq, <<>>, P)
          = Step("pick", seq, Max(P), Fold("pick", seq, <<>>, P \ {Max(P)}))
  BY <1>1, FoldSplits
<1>3. QED
  BY <1>2, PickedIsFold DEF Step

LEMMA PickedNone == ASSUME NEW seq PROVE Picked(seq, {}) = <<>>
  BY PickedIsFold, FoldOfNone

\* What is picked is a sequence of entries of the places, and as long.
LEMMA PickedIsSeq ==
    ASSUME NEW seq, NEW P \in SUBSET Nat, IsFiniteSet(P),
           NEW E, \A i \in P : seq[i] \in E
    PROVE  Picked(seq, P) \in Seq(E) /\ Len(Picked(seq, P)) = Cardinality(P)
<1> DEFINE G == {s \in SUBSET P : /\ Picked(seq, s) \in Seq(E)
                                  /\ Len(Picked(seq, s)) = Cardinality(s)}
<1>1. ASSUME NEW T \in SUBSET P, \A s \in SUBSET T : s # T => s \in G
      PROVE  T \in G
  <2>1. CASE T = {}
    <3>1. Cardinality(T) = 0 /\ Picked(seq, T) = <<>>
      BY <2>1, PickedNone, FS_EmptySet
    <3>2. QED
      BY <3>1
  <2>2. CASE T # {}
    <3> DEFINE m == Max(T)
               U == T \ {m}
    <3>1. T \in SUBSET Nat /\ IsFiniteSet(T)
      BY FS_Subset
    <3>2. m \in T
      BY <2>2, <3>1, GreatestIs
    <3>3. Picked(seq, T) = Append(Picked(seq, U), seq[m])
      BY <2>2, <3>1, PickedSplits
    <3>4. Picked(seq, U) \in Seq(E) /\ Len(Picked(seq, U)) = Cardinality(U)
      BY <1>1, <3>2
    <3>5. Cardinality(U) = Cardinality(T) - 1 /\ Cardinality(T) \in Nat
      BY <3>1, <3>2, FS_RemoveElement, FS_CardinalityType
    <3>6. seq[m] \in E
      BY <3>2
    <3> HIDE DEF m, U
    <3>7. QED
      BY <3>3, <3>4, <3>5, <3>6
  <2>3. QED
    BY <2>1, <2>2
<1> HIDE DEF G
<1>2. P \in G
  BY <1>1, SubsetInduction
<1>3. QED
  BY <1>2 DEF G

\* Sequences that agree at the places give the same.
LEMMA PickedAlike ==
    ASSUME NEW r, NEW s, NEW P \in SUBSET Nat, IsFiniteSet(P),
           \A i \in P : r[i] = s[i]
    PROVE  Picked(r, P) = Picked(s, P)
<1> DEFINE G == {T \in SUBSET P : Picked(r, T) = Picked(s, T)}
<1>1. ASSUME NEW T \in SUBSET P, \A U \in SUBSET T : U # T => U \in G
      PROVE  T \in G
  <2>1. CASE T = {}
    BY <2>1, PickedNone
  <2>2. CASE T # {}
    <3>1. T \in SUBSET Nat /\ IsFiniteSet(T)
      BY FS_Subset
    <3>2. Max(T) \in T
      BY <2>2, <3>1, GreatestIs
    <3>3. Picked(r, T \ {Max(T)}) = Picked(s, T \ {Max(T)})
      BY <1>1, <3>2
    <3>4. QED
      BY <2>2, <3>1, <3>2, <3>3, PickedSplits
  <2>3. QED
    BY <2>1, <2>2
<1> HIDE DEF G
<1>2. P \in G
  BY <1>1, SubsetInduction
<1>3. QED
  BY <1>2 DEF G

\* The entry of a place is as far back as there are places up to it.
LEMMA PickedAt ==
    ASSUME NEW seq, NEW P \in SUBSET Nat, IsFiniteSet(P), NEW i \in P
    PROVE  Picked(seq, P)[Cardinality({j \in P : j <= i})] = seq[i]
<1> DEFINE rank(S, k) == Cardinality({j \in S : j <= k})
           G == {S \in SUBSET P : \A k \in S : Picked(seq, S)[rank(S, k)] = seq[k]}
           E == {seq[k] : k \in P}
<1>1. ASSUME NEW T \in SUBSET P, \A U \in SUBSET T : U # T => U \in G
      PROVE  T \in G
  <2> SUFFICES ASSUME NEW k \in T PROVE Picked(seq, T)[rank(T, k)] = seq[k]
    OBVIOUS
  <2> DEFINE m == Max(T)
             U == T \ {m}
  <2>1. T \in SUBSET Nat /\ IsFiniteSet(T)
    BY FS_Subset
  <2>2. m \in T /\ \A j \in T : m >= j
    BY <2>1, GreatestIs
  <2>3. Picked(seq, T) = Append(Picked(seq, U), seq[m])
    BY <2>1, PickedSplits
  <2>4. U \in SUBSET Nat /\ IsFiniteSet(U) /\ \A j \in U : seq[j] \in E
    BY <2>1, FS_Subset
  <2> HIDE DEF E
  <2>5. Picked(seq, U) \in Seq(E) /\ Len(Picked(seq, U)) = Cardinality(U)
    BY <2>4, PickedIsSeq
  <2> HIDE DEF m
  <2>6. Cardinality(T) = Cardinality(U) + 1 /\ Cardinality(U) \in Nat
    <3>1. Cardinality(T) \in Nat /\ Cardinality(U) \in Nat
      BY <2>1, <2>4, FS_CardinalityType
    <3>2. Cardinality(U) = Cardinality(T) - 1
      BY <2>1, <2>2, FS_RemoveElement
    <3>3. QED
      BY <3>1, <3>2
  <2>7. CASE k = m
    <3>1. {j \in T : j <= k} = T
      BY <2>1, <2>2, <2>7
    <3>2. rank(T, k) = Cardinality(U) + 1
      BY <2>6, <3>1
    <3> HIDE DEF rank, m, U
    <3>3. QED
      BY <2>3, <2>5, <2>6, <2>7, <3>2
  <2>8. CASE k # m
    <3>1. {j \in T : j <= k} = {j \in U : j <= k}
      BY <2>1, <2>2, <2>8
    <3>2. rank(T, k) = rank(U, k)
      BY <3>1
    <3>3. Picked(seq, U)[rank(U, k)] = seq[k]
      BY <1>1, <2>2, <2>8
    <3>4. rank(U, k) \in 1..Cardinality(U)
      <4>1. {j \in U : j <= k} \subseteq U /\ k \in {j \in U : j <= k}
        BY <2>1, <2>8
      <4>2. IsFiniteSet({j \in U : j <= k})
        BY <2>4, <4>1, FS_Subset
      <4>3. rank(U, k) \in Nat /\ rank(U, k) <= Cardinality(U)
        BY <2>4, <4>1, FS_Subset, FS_CardinalityType
      <4>4. rank(U, k) # 0
        BY <4>1, <4>2, FS_EmptySet
      <4> HIDE DEF rank
      <4>5. QED
        BY <2>6, <4>3, <4>4
    <3> HIDE DEF rank, m, U
    <3>5. QED
      BY <2>3, <2>5, <2>6, <3>2, <3>3, <3>4
  <2>9. QED
    BY <2>7, <2>8
<1> HIDE DEF G
<1>2. P \in G
  BY <1>1, SubsetInduction
<1>3. QED
  BY <1>2 DEF G

\* All that is picked was at one of the places.
LEMMA PickedFrom ==
    ASSUME NEW seq, NEW P \in SUBSET Nat, IsFiniteSet(P),
           NEW k \in DOMAIN Picked(seq, P)
    PROVE  \E i \in P : Picked(seq, P)[k] = seq[i]
<1> DEFINE E == {seq[i] : i \in P}
<1>1. Picked(seq, P) \in Seq(E)
  BY PickedIsSeq
<1>2. Picked(seq, P)[k] \in E
  <2> HIDE DEF E
  <2>1. QED
    BY <1>1
<1>3. QED
  BY <1>2
-----------------------------------------------------------------------------
(* The rows of a chat: any voters and answers, any log.                    *)

Row ==
    [id : Events \cup Nat, of : Nat, own : BOOLEAN, system : BOOLEAN,
     isFile : BOOLEAN, poll : BOOLEAN, text : Texts \cup {Original},
     edited : BOOLEAN, read : BOOLEAN, pending : BOOLEAN,
     counts : [Answers -> Nat], total : Nat, myVotes : SUBSET Answers,
     voters : [Voters -> Answers \cup {None}]]
Vote == [poll : Events, answer : Answers \cup {Strange}, voter : Voters]

\* Who chose an answer, and who has chosen at all.
For(e, a) == {v \in Voters : e.voters[v] = a}
Chose(e) == {v \in Voters : e.voters[v] # None}
Tallied(e) ==
    /\ \A a \in Answers : e.counts[a] = Cardinality(For(e, a))
    /\ e.total = Cardinality(Chose(e))
    /\ e.myVotes = {e.voters["me"]} \ {None}
Tallies == {e \in Row : Tallied(e)}

RowsTyped ==
    /\ clock \in Nat
    /\ rows \in Seq(Tallies) /\ cache \in Seq(Tallies)
    /\ file \in Seq(Tallies) \cup {Garbage}
    /\ stash \in Seq(Vote)

LEMMA RowsTallied == RowsTyped => TallyTrue
<1> SUFFICES ASSUME RowsTyped PROVE TallyTrue
  OBVIOUS
<1>1. \A i \in DOMAIN rows : rows[i] \in Tallies
  BY DEF RowsTyped
<1>2. QED
  BY <1>1 DEF Tallies, Tallied, TallyTrue, For, Chose

\* Two rows with the same votes are both tallied or neither.
LEMMA TalliedAlike ==
    ASSUME NEW e \in Tallies, NEW r \in Row,
           r.counts = e.counts, r.total = e.total,
           r.myVotes = e.myVotes, r.voters = e.voters
    PROVE  r \in Tallies
  BY DEF Tallies, Tallied, For, Chose

\* The parts of a row that a vote leaves alone.
Same(r, e) ==
    /\ r.id = e.id /\ r.of = e.of /\ r.own = e.own /\ r.system = e.system
    /\ r.isFile = e.isFile /\ r.poll = e.poll /\ r.text = e.text
    /\ r.edited = e.edited /\ r.read = e.read /\ r.pending = e.pending

\* A vote takes a voter from the answer before to the new one.
LEMMA VotersMove ==
    ASSUME ChatTimelineAssumption, NEW e \in Row, NEW w \in [Voters -> Answers \cup {None}],
           NEW voter \in Voters, NEW answer \in Answers,
           answer # e.voters[voter],
           w = [e.voters EXCEPT ![voter] = answer]
    PROVE  /\ \A a \in Answers :
                  Cardinality({v \in Voters : w[v] = a})
                      = IF a = answer THEN Cardinality(For(e, a)) + 1
                        ELSE IF a = e.voters[voter]
                             THEN Cardinality(For(e, a)) - 1
                             ELSE Cardinality(For(e, a))
           /\ Cardinality({v \in Voters : w[v] # None})
                  = IF e.voters[voter] = None THEN Cardinality(Chose(e)) + 1
                    ELSE Cardinality(Chose(e))
           /\ \A a \in Answers : Cardinality(For(e, a)) \in Nat
           /\ Cardinality(Chose(e)) \in Nat
           /\ e.voters[voter] # None => /\ Cardinality(For(e, e.voters[voter])) >= 1
                                        /\ Cardinality(Chose(e)) >= 1
<1> DEFINE now(a) == {v \in Voters : w[v] = a}
           chose == {v \in Voters : w[v] # None}
           prev == e.voters[voter]
<1>1. IsFiniteSet(Voters) /\ None \notin Answers
  BY DEF ChatTimelineAssumption
<1>2. \A S \in SUBSET Voters : IsFiniteSet(S) /\ Cardinality(S) \in Nat
  BY <1>1, FS_Subset, FS_CardinalityType
<1>3. e.voters \in [Voters -> Answers \cup {None}]
  BY DEF Row
<1>4. \A a : For(e, a) \in SUBSET Voters
  BY DEF For
<1>5. Chose(e) \in SUBSET Voters
  BY DEF Chose
<1>6. \A v \in Voters : w[v] = IF v = voter THEN answer ELSE e.voters[v]
  BY <1>3
<1>7. ASSUME NEW a \in Answers
      PROVE  Cardinality(now(a))
                 = IF a = answer THEN Cardinality(For(e, a)) + 1
                   ELSE IF a = prev THEN Cardinality(For(e, a)) - 1
                   ELSE Cardinality(For(e, a))
  <2>0. IsFiniteSet(For(e, a)) /\ Cardinality(For(e, a)) \in Nat
    BY <1>2, <1>4
  <2>1. CASE a = answer
    <3>1. now(a) = For(e, a) \cup {voter} /\ voter \notin For(e, a)
      BY <1>6, <2>1 DEF For
    <3>2. Cardinality(For(e, a) \cup {voter}) = Cardinality(For(e, a)) + 1
      BY <2>0, <3>1, FS_AddElement
    <3>3. QED
      BY <2>1, <3>1, <3>2
  <2>2. CASE a # answer /\ a = prev
    <3>1. now(a) = For(e, a) \ {voter} /\ voter \in For(e, a)
      BY <1>6, <2>2 DEF For
    <3>2. Cardinality(For(e, a) \ {voter}) = Cardinality(For(e, a)) - 1
      BY <2>0, <3>1, FS_RemoveElement
    <3>3. QED
      BY <2>2, <3>1, <3>2
  <2>3. CASE a # answer /\ a # prev
    <3>1. now(a) = For(e, a)
      BY <1>6, <2>3 DEF For
    <3>2. QED
      BY <2>3, <3>1
  <2>4. QED
    BY <2>1, <2>2, <2>3
<1>8. Cardinality(chose) = IF prev = None THEN Cardinality(Chose(e)) + 1
                           ELSE Cardinality(Chose(e))
  <2>0. IsFiniteSet(Chose(e))
    BY <1>2, <1>5
  <2>1. CASE prev = None
    <3>1. chose = Chose(e) \cup {voter} /\ voter \notin Chose(e)
      BY <1>1, <1>6, <2>1 DEF Chose
    <3>2. Cardinality(Chose(e) \cup {voter}) = Cardinality(Chose(e)) + 1
      BY <2>0, <3>1, FS_AddElement
    <3>3. QED
      BY <2>1, <3>1, <3>2
  <2>2. CASE prev # None
    <3>1. chose = Chose(e)
      BY <1>1, <1>6, <2>2 DEF Chose
    <3>2. QED
      BY <2>2, <3>1
  <2>3. QED
    BY <2>1, <2>2
<1>9. ASSUME prev # None
      PROVE  Cardinality(For(e, prev)) >= 1 /\ Cardinality(Chose(e)) >= 1
  <2>1. voter \in For(e, prev) /\ voter \in Chose(e)
    BY <1>9 DEF For, Chose
  <2>2. Cardinality(For(e, prev)) # 0 /\ Cardinality(Chose(e)) # 0
    BY <1>2, <1>4, <1>5, <2>1, FS_EmptySet
  <2>3. Cardinality(For(e, prev)) \in Nat /\ Cardinality(Chose(e)) \in Nat
    BY <1>2, <1>4, <1>5
  <2>4. QED
    BY <2>2, <2>3
<1>10. (\A a \in Answers : Cardinality(For(e, a)) \in Nat)
       /\ Cardinality(Chose(e)) \in Nat
  BY <1>2, <1>4, <1>5
<1>11. QED
  BY <1>7, <1>8, <1>9, <1>10

LEMMA GreaterOf == ASSUME NEW n \in Int, n >= 0 PROVE Max({0, n}) = n
<1>1. \A x \in {0, n} : (\A y \in {0, n} : x >= y) => x = n
  OBVIOUS
<1>2. \A y \in {0, n} : n >= y
  OBVIOUS
<1>3. QED
  BY <1>1, <1>2 DEF Max

\* Voted() on a row that is tallied.
LEMMA VotedTallied ==
    ASSUME ChatTimelineAssumption, NEW e \in Tallies, NEW answer, NEW voter \in Voters
    PROVE  Voted(e, answer, voter) \in Tallies /\ Same(Voted(e, answer, voter), e)
<1>1. CASE ~e.poll \/ answer \notin Answers \/ answer = e.voters[voter]
  BY <1>1 DEF Voted, Same
<1>2. CASE e.poll /\ answer \in Answers /\ answer # e.voters[voter]
  <2> DEFINE prev == e.voters[voter]
             n == e.counts[prev]
             l1 == [e EXCEPT !.counts[prev] = Max({0, @ - 1})]
             l2 == [l1 EXCEPT !.total = Max({0, @ - 1})]
             l3 == [l2 EXCEPT !.myVotes = IF voter = "me" THEN @ \ {prev} ELSE @]
             l == IF prev = None THEN e ELSE l3
             r1 == [l EXCEPT !.counts[answer] = @ + 1]
             r2 == [r1 EXCEPT !.total = @ + 1]
             r3 == [r2 EXCEPT !.voters[voter] = answer]
             r == [r3 EXCEPT !.myVotes = IF voter = "me" THEN @ \cup {answer} ELSE @]
  <2>1. Voted(e, answer, voter) = r
    BY <1>2 DEF Voted
  <2>2. e \in Row /\ Tallied(e) /\ prev \in Answers \cup {None} /\ None \notin Answers
    BY DEF Tallies, Row, ChatTimelineAssumption
  <2> DEFINE w == [e.voters EXCEPT ![voter] = answer]
  <2>3. w \in [Voters -> Answers \cup {None}]
    BY <1>2, <2>2 DEF Row
  <2> HIDE DEF w
  <2>4. /\ \A a \in Answers :
               Cardinality({v \in Voters : w[v] = a})
                   = IF a = answer THEN Cardinality(For(e, a)) + 1
                     ELSE IF a = prev THEN Cardinality(For(e, a)) - 1
                     ELSE Cardinality(For(e, a))
        /\ Cardinality({v \in Voters : w[v] # None})
               = IF prev = None THEN Cardinality(Chose(e)) + 1
                 ELSE Cardinality(Chose(e))
        /\ \A a \in Answers : Cardinality(For(e, a)) \in Nat
        /\ Cardinality(Chose(e)) \in Nat
        /\ prev # None => /\ Cardinality(For(e, prev)) >= 1
                          /\ Cardinality(Chose(e)) >= 1
    BY <1>2, <2>2, <2>3, VotersMove DEF w
  <2>5. ASSUME prev # None
        PROVE  /\ l3 \in Row /\ Same(l3, e) /\ l3.voters = e.voters
               /\ l3.counts = [e.counts EXCEPT ![prev] = @ - 1]
               /\ l3.total = e.total - 1
               /\ l3.myVotes = IF voter = "me" THEN e.myVotes \ {prev} ELSE e.myVotes
    <3>0. /\ prev \in Answers /\ e.counts[prev] \in Nat /\ e.counts[prev] >= 1
          /\ e.total \in Nat /\ e.total >= 1
      BY <2>2, <2>4, <2>5 DEF Tallied, Row
    <3> DEFINE j == e.counts[prev] - 1
               k == e.total - 1
    <3>9. j \in Int /\ j >= 0 /\ k \in Nat /\ k >= 0
      BY <3>0
    <3> HIDE DEF j, k
    <3>1. Max({0, j}) = j
      BY <3>9, GreaterOf
    <3>2. Max({0, k}) = k
      BY <3>9, GreaterOf
    <3> DEFINE c == [e.counts EXCEPT ![prev] = e.counts[prev] - 1]
               m == IF voter = "me" THEN e.myVotes \ {prev} ELSE e.myVotes
    <3>3. c \in [Answers -> Nat] /\ m \in SUBSET Answers
      BY <2>2, <3>0 DEF Row
    <3>4. l1 = [e EXCEPT !.counts = c]
      BY <2>2, <3>1 DEF Row, j
    <3> HIDE DEF prev, c, m
    <3>5. l1 \in Row /\ Same(l1, e) /\ l1.voters = e.voters /\ l1.counts = c
          /\ l1.total = e.total /\ l1.myVotes = e.myVotes
      BY <2>2, <3>3, <3>4 DEF Row, Same
    <3> HIDE DEF l1
    <3>10. l2 = [l1 EXCEPT !.total = k]
      BY <3>2, <3>5 DEF Row, k
    <3>6. l2 \in Row /\ Same(l2, e) /\ l2.voters = e.voters /\ l2.counts = c
          /\ l2.total = k /\ l2.myVotes = e.myVotes
      BY <3>5, <3>9, <3>10 DEF Row, Same
    <3> HIDE DEF l2
    <3>7. l3 \in Row /\ Same(l3, e) /\ l3.voters = e.voters /\ l3.counts = c
          /\ l3.total = k /\ l3.myVotes = m
      BY <3>3, <3>6 DEF Row, Same, m
    <3>8. QED
      BY <3>7 DEF c, m, prev, k
  <2> HIDE DEF l1, l2, l3
  <2>6. /\ l \in Row /\ Same(l, e) /\ l.voters = e.voters
        /\ l.counts = IF prev = None THEN e.counts
                      ELSE [e.counts EXCEPT ![prev] = @ - 1]
        /\ l.total = IF prev = None THEN e.total ELSE e.total - 1
        /\ l.myVotes = IF prev # None /\ voter = "me" THEN e.myVotes \ {prev}
                       ELSE e.myVotes
    BY <2>2, <2>5 DEF Same
  <2> HIDE DEF l
  <2> DEFINE c == [l.counts EXCEPT ![answer] = @ + 1]
             m == IF voter = "me" THEN l.myVotes \cup {answer} ELSE l.myVotes
  <2>7. c \in [Answers -> Nat] /\ m \in SUBSET Answers /\ l.total + 1 \in Nat
    BY <1>2, <2>6 DEF Row
  <2> HIDE DEF c, m
  <2>8. r1 = [l EXCEPT !.counts = c]
    BY <2>6 DEF Row, c
  <2>9. r1 \in Row /\ Same(r1, e) /\ r1.voters = e.voters /\ r1.counts = c
        /\ r1.total = l.total /\ r1.myVotes = l.myVotes
    BY <2>6, <2>7, <2>8 DEF Row, Same
  <2> HIDE DEF r1
  <2>10. r2 \in Row /\ Same(r2, e) /\ r2.voters = e.voters /\ r2.counts = c
         /\ r2.total = l.total + 1 /\ r2.myVotes = l.myVotes
    BY <2>7, <2>9 DEF Row, Same
  <2> HIDE DEF r2
  <2>11. r3 = [r2 EXCEPT !.voters = w]
    BY <2>10 DEF Row, w
  <2>12. r3 \in Row /\ Same(r3, e) /\ r3.voters = w /\ r3.counts = c
         /\ r3.total = l.total + 1 /\ r3.myVotes = l.myVotes
    BY <2>3, <2>10, <2>11 DEF Row, Same
  <2> HIDE DEF r3
  <2>13. r \in Row /\ Same(r, e) /\ r.voters = w /\ r.counts = c
         /\ r.total = l.total + 1 /\ r.myVotes = m
    BY <2>7, <2>12 DEF Row, Same, m
  <2> HIDE DEF r
  <2>14. \A a \in Answers : r.counts[a] = Cardinality(For(r, a))
    <3> SUFFICES ASSUME NEW a \in Answers PROVE c[a] = Cardinality(For(r, a))
      BY <2>13
    <3>1. For(r, a) = {v \in Voters : w[v] = a}
      BY <2>13 DEF For
    <3>2. /\ e.counts \in [Answers -> Nat] /\ l.counts \in [Answers -> Nat]
          /\ e.counts[a] = Cardinality(For(e, a))
      BY <2>2, <2>6 DEF Row, Tallied
    <3>3. c[a] = IF a = answer THEN l.counts[a] + 1 ELSE l.counts[a]
      BY <1>2, <3>2 DEF c
    <3>4. l.counts[a] = IF a = prev THEN e.counts[a] - 1 ELSE e.counts[a]
      BY <2>2, <2>6, <3>2
    <3> HIDE DEF prev
    <3>5. QED
      BY <1>2, <2>4, <3>1, <3>2, <3>3, <3>4 DEF prev
  <2>15. r.total = Cardinality(Chose(r))
    <3>1. Chose(r) = {v \in Voters : w[v] # None}
      BY <2>13 DEF Chose
    <3>2. e.total = Cardinality(Chose(e))
      BY <2>2 DEF Tallied
    <3> HIDE DEF prev
    <3>3. QED
      BY <2>4, <2>6, <2>13, <3>1, <3>2
  <2>16. r.myVotes = {r.voters["me"]} \ {None}
    <3>1. e.myVotes = {e.voters["me"]} \ {None} /\ answer # None
      BY <1>2, <2>2 DEF Tallied
    <3>2. CASE voter = "me"
      <4>1. w["me"] = answer
        BY <2>2, <3>2 DEF w, Row
      <4>2. l.myVotes = {}
        BY <2>2, <2>6, <3>1, <3>2
      <4>3. QED
        BY <2>13, <3>1, <3>2, <4>1, <4>2 DEF m
    <3>3. CASE voter # "me"
      <4>1. "me" \in Voters
        BY DEF ChatTimelineAssumption
      <4>2. w["me"] = e.voters["me"]
        BY <2>2, <3>3, <4>1 DEF w, Row
      <4>3. QED
        BY <2>6, <2>13, <3>1, <3>3, <4>2 DEF m
    <3>4. QED
      BY <3>2, <3>3
  <2>17. QED
    BY <2>1, <2>13, <2>14, <2>15, <2>16 DEF Tallies, Tallied
<1>3. QED
  BY <1>1, <1>2

\* The votes that came before a poll, counted after it.
LEMMA ReplayedTallied ==
    ASSUME ChatTimelineAssumption, RowsTyped, NEW e \in Tallies
    PROVE  Replayed(e) \in Tallies /\ Same(Replayed(e), e)
<1> DEFINE P == VotesFor(e.id)
           F(s) == Fold("vote", stash, e, s)
           G == {s \in SUBSET P : F(s) \in Tallies /\ Same(F(s), e)}
<1>1. P \in SUBSET Nat /\ IsFiniteSet(P) /\ \A i \in P : stash[i] \in Vote
  <2>1. DOMAIN stash = 1..Len(stash) /\ Len(stash) \in Nat
        /\ \A i \in DOMAIN stash : stash[i] \in Vote
    BY DEF RowsTyped
  <2>2. IsFiniteSet(1..Len(stash))
    BY <2>1, FS_Interval
  <2>3. QED
    BY <2>1, <2>2, FS_Subset DEF VotesFor
<1> HIDE DEF P
<1>2. ASSUME NEW T \in SUBSET P, \A s \in SUBSET T : s # T => s \in G
      PROVE  T \in G
  <2>1. CASE T = {}
    BY <2>1, FoldOfNone DEF Same
  <2>2. CASE T # {}
    <3> DEFINE x == Max(T)
    <3>1. T \in SUBSET Nat /\ IsFiniteSet(T)
      BY <1>1, FS_Subset
    <3>2. x \in T
      BY <2>2, <3>1, GreatestIs
    <3>3. Foldable("vote", T) /\ Chosen("vote", T) = x
      BY <3>1 DEF Foldable, Chosen
    <3> HIDE DEF x
    <3>4. F(T) = Step("vote", stash, x, F(T \ {x}))
      BY <2>2, <3>3, FoldSplits
    <3>5. F(T \ {x}) \in Tallies /\ Same(F(T \ {x}), e)
      BY <1>2, <3>2
    <3>6. stash[x].voter \in Voters
      BY <1>1, <3>2 DEF Vote
    <3> DEFINE r == F(T \ {x})
    <3> HIDE DEF F
    <3>7. F(T) = Voted(r, stash[x].answer, stash[x].voter)
      BY <3>4 DEF Step
    <3> HIDE DEF r
    <3>8. F(T) \in Tallies /\ Same(F(T), r)
      BY <3>5, <3>6, <3>7, VotedTallied DEF r
    <3>9. QED
      BY <3>5, <3>8 DEF Same, r
  <2>3. QED
    BY <2>1, <2>2
<1> HIDE DEF G
<1>3. P \in G
  BY <1>1, <1>2, SubsetInduction
<1>4. QED
  BY <1>3, ReplayedIsFold DEF G, P
-----------------------------------------------------------------------------
LEMMA RemoveAtIs ==
    ASSUME NEW E, NEW s \in Seq(E), NEW i \in 1..Len(s)
    PROVE  /\ RemoveAt(s, i) \in Seq(E) /\ Len(RemoveAt(s, i)) = Len(s) - 1
           /\ \A k \in 1..Len(s) - 1 :
                  RemoveAt(s, i)[k] = IF k < i THEN s[k] ELSE s[k + 1]
<1> DEFINE a == SubSeq(s, 1, i - 1)
           b == SubSeq(s, i + 1, Len(s))
<1>0. i \in Int /\ Len(s) \in Int
  OBVIOUS
<1>1. a \in Seq(E) /\ Len(a) = i - 1
  OBVIOUS
<1>2. \A k \in 1..i - 1 : a[k] = s[k]
  OBVIOUS
<1>3. b \in Seq(E) /\ Len(b) = Len(s) - i
  OBVIOUS
<1>4. \A k \in 1..Len(s) - i : b[k] = s[i + k]
  OBVIOUS
<1> HIDE DEF a, b
<1>5. a \o b \in Seq(E) /\ Len(a \o b) = Len(a) + Len(b)
  BY <1>1, <1>3
<1>6. ASSUME NEW k \in 1..Len(s) - 1
      PROVE  (a \o b)[k] = IF k < i THEN s[k] ELSE s[k + 1]
  <2>1. CASE k < i
    BY <1>1, <1>2, <1>3, <2>1
  <2>2. CASE ~(k < i)
    <3>1. (a \o b)[k] = b[k - Len(a)]
      BY <1>1, <1>3, <2>2
    <3>2. k - Len(a) \in 1..Len(s) - i /\ i + (k - Len(a)) = k + 1
      BY <1>1, <2>2
    <3>3. QED
      BY <1>4, <2>2, <3>1, <3>2
  <2>3. QED
    BY <2>1, <2>2
<1>7. RemoveAt(s, i) = a \o b
  BY DEF RemoveAt, a, b
<1>8. Len(a \o b) = Len(s) - 1
  BY <1>0, <1>1, <1>3, <1>5
<1>9. QED
  BY <1>5, <1>6, <1>7, <1>8

LEMMA InsertAtIs ==
    ASSUME NEW E, NEW s \in Seq(E), NEW i \in 1..Len(s) + 1, NEW x \in E
    PROVE  /\ InsertAt(s, i, x) \in Seq(E) /\ Len(InsertAt(s, i, x)) = Len(s) + 1
           /\ \A k \in 1..Len(s) + 1 :
                  InsertAt(s, i, x)[k] = IF k < i THEN s[k]
                                         ELSE IF k = i THEN x ELSE s[k - 1]
<1> DEFINE a == SubSeq(s, 1, i - 1)
           b == SubSeq(s, i, Len(s))
           c == Append(a, x)
<1>0. i \in Int /\ Len(s) \in Int
  OBVIOUS
<1>1. a \in Seq(E) /\ Len(a) = i - 1
  OBVIOUS
<1>2. \A k \in 1..i - 1 : a[k] = s[k]
  OBVIOUS
<1>3. b \in Seq(E) /\ Len(b) = Len(s) + 1 - i
  OBVIOUS
<1>4. \A k \in 1..Len(s) + 1 - i : b[k] = s[i + k - 1]
  OBVIOUS
<1> HIDE DEF a, b
<1>5. c \in Seq(E) /\ Len(c) = i
  BY <1>0, <1>1
<1>6. \A k \in 1..i : c[k] = IF k < i THEN s[k] ELSE x
  BY <1>0, <1>1, <1>2
<1>7. a \o <<x>> = c
  BY <1>1
<1> HIDE DEF c
<1>8. c \o b \in Seq(E) /\ Len(c \o b) = Len(c) + Len(b)
  BY <1>3, <1>5
<1>9. ASSUME NEW k \in 1..Len(s) + 1
      PROVE  (c \o b)[k] = IF k < i THEN s[k] ELSE IF k = i THEN x ELSE s[k - 1]
  <2>1. CASE k <= i
    <3>1. (c \o b)[k] = c[k] /\ k \in 1..i
      BY <1>0, <1>3, <1>5, <2>1
    <3>2. QED
      BY <1>0, <1>6, <2>1, <3>1
  <2>2. CASE ~(k <= i)
    <3>1. (c \o b)[k] = b[k - i]
      BY <1>0, <1>3, <1>5, <2>2
    <3>2. k - i \in 1..Len(s) + 1 - i /\ i + (k - i) - 1 = k - 1
      BY <1>0, <2>2
    <3>3. QED
      BY <1>0, <1>4, <2>2, <3>1, <3>2
  <2>3. QED
    BY <2>1, <2>2
<1>10. InsertAt(s, i, x) = c \o b
  BY <1>7 DEF InsertAt, a, b
<1>11. Len(c \o b) = Len(s) + 1
  BY <1>0, <1>3, <1>5, <1>8
<1>12. QED
  BY <1>8, <1>9, <1>10, <1>11

\* The newest MaxMessages of a log.
LEMMA TrimIs ==
    ASSUME ChatTimelineAssumption, NEW E, NEW s \in Seq(E)
    PROVE  /\ Trim(s) \in Seq(E)
           /\ Len(Trim(s)) = IF Len(s) > MaxMessages THEN MaxMessages ELSE Len(s)
           /\ \A k \in 1..Len(Trim(s)) : Trim(s)[k] = s[Len(s) - Len(Trim(s)) + k]
<1>1. MaxMessages \in Nat /\ MaxMessages >= 1 /\ Len(s) \in Nat
  BY DEF ChatTimelineAssumption
<1>2. CASE Len(s) > MaxMessages
  <2> DEFINE m == Len(s) - MaxMessages + 1
             t == SubSeq(s, m, Len(s))
  <2>1. /\ t \in Seq(E) /\ Len(t) = MaxMessages
        /\ \A k \in 1..MaxMessages : t[k] = s[m + k - 1]
    BY <1>1, <1>2
  <2>2. \A k \in 1..MaxMessages : m + k - 1 = Len(s) - MaxMessages + k
    BY <1>1
  <2>3. Trim(s) = t
    BY <1>2 DEF Trim
  <2> HIDE DEF t, m
  <2>4. QED
    BY <1>2, <2>1, <2>2, <2>3
<1>3. CASE ~(Len(s) > MaxMessages)
  BY <1>1, <1>3 DEF Trim
<1>4. QED
  BY <1>2, <1>3

\* The row an id names, if any.
LEMMA RowForIs ==
    ASSUME RowsTyped, NEW id, RowForMsgId(id) # 0
    PROVE  /\ RowForMsgId(id) \in DOMAIN rows
           /\ rows[RowForMsgId(id)].id = id
<1> DEFINE at == {i \in DOMAIN rows : rows[i].id = id}
<1>1. at \in SUBSET Nat
  BY DEF RowsTyped
<1>2. at # {} /\ RowForMsgId(id) = Min(at)
  BY DEF RowForMsgId
<1>3. Min(at) \in at
  BY <1>1, <1>2, LeastIs
<1>4. QED
  BY <1>2, <1>3

LEMMA EntryTallied ==
    ASSUME ChatTimelineAssumption, NEW id \in Events \cup Nat, NEW of \in Nat,
           NEW own \in BOOLEAN, NEW kind
    PROVE  Entry(id, of, own, kind) \in Tallies
<1> DEFINE e == Entry(id, of, own, kind)
<1>1. e \in Row
  BY DEF Entry, Row
<1>2. (\A a \in Answers : For(e, a) = {}) /\ Chose(e) = {}
  BY DEF ChatTimelineAssumption, Entry, For, Chose
<1>3. Tallied(e)
  BY <1>2, FS_EmptySet DEF Tallied, Entry, ChatTimelineAssumption
<1>4. QED
  BY <1>1, <1>3 DEF Tallies

LEMMA PendingTallied ==
    ASSUME NEW e \in Tallies, NEW b \in BOOLEAN
    PROVE  [e EXCEPT !.pending = b] \in Tallies
<1> DEFINE r == [e EXCEPT !.pending = b]
<1>1. /\ r \in Row /\ r.counts = e.counts /\ r.total = e.total
      /\ r.myVotes = e.myVotes /\ r.voters = e.voters
  BY DEF Tallies, Row
<1> HIDE DEF r
<1>2. r \in Tallies
  BY <1>1, TalliedAlike
<1>3. QED
  BY <1>2 DEF r

LEMMA StoredTallied == ASSUME NEW e \in Tallies PROVE Stored(e) \in Tallies
  BY PendingTallied DEF Stored

\* What is spoken in a log of tallied rows, and what is written of it.
LEMMA SpokenTallied ==
    ASSUME NEW E, NEW seq \in Seq(E)
    PROVE  /\ Spoken(seq) \in Seq(E)
           /\ {i \in DOMAIN seq : ~seq[i].system} \in SUBSET Nat
           /\ IsFiniteSet({i \in DOMAIN seq : ~seq[i].system})
           /\ Len(Spoken(seq)) <= Len(seq)
<1> DEFINE P == {i \in DOMAIN seq : ~seq[i].system}
<1>1. DOMAIN seq = 1..Len(seq) /\ Len(seq) \in Nat
  OBVIOUS
<1>2. IsFiniteSet(1..Len(seq)) /\ Cardinality(1..Len(seq)) = Len(seq)
  BY <1>1, FS_Interval
<1>3. P \in SUBSET (1..Len(seq)) /\ P \in SUBSET Nat /\ \A i \in P : seq[i] \in E
  BY <1>1
<1> HIDE DEF P
<1>4. IsFiniteSet(P) /\ Cardinality(P) <= Len(seq)
  BY <1>2, <1>3, FS_Subset
<1>5. Picked(seq, P) \in Seq(E) /\ Len(Picked(seq, P)) = Cardinality(P)
  BY <1>3, <1>4, PickedIsSeq
<1>6. QED
  BY <1>3, <1>4, <1>5 DEF Spoken, P

LEMMA WriteTyped ==
    ASSUME RowsTyped, NEW msgs \in Seq(Tallies), WriteChatFile(msgs)
    PROVE  file' \in Seq(Tallies) \cup {Garbage}
  BY DEF RowsTyped, WriteChatFile

LEMMA AppendTyped ==
    ASSUME ChatTimelineAssumption, RowsTyped, NEW e \in Tallies, HistoryAppend(e)
    PROVE  cache' \in Seq(Tallies) /\ file' \in Seq(Tallies) \cup {Garbage}
<1>1. CASE saving
  <2>1. Append(cache, Stored(e)) \in Seq(Tallies)
    BY StoredTallied DEF RowsTyped
  <2>2. cache' \in Seq(Tallies)
    BY <1>1, <2>1, TrimIs DEF HistoryAppend
  <2>3. QED
    BY <1>1, <2>2, WriteTyped DEF HistoryAppend
<1>2. CASE ~saving
  BY <1>2 DEF HistoryAppend, RowsTyped
<1>3. QED
  BY <1>1, <1>2

LEMMA ReplaceTyped ==
    ASSUME ChatTimelineAssumption, RowsTyped, NEW msgs \in Seq(Tallies),
           ReplaceLog(msgs)
    PROVE  cache' \in Seq(Tallies) /\ file' \in Seq(Tallies) \cup {Garbage}
<1>1. CASE saving
  <2> DEFINE t == Trim(msgs)
  <2>1. t \in Seq(Tallies)
    BY TrimIs
  <2>2. cache' = [i \in DOMAIN t |-> Stored(t[i])]
    BY <1>1 DEF ReplaceLog
  <2> HIDE DEF t
  <2>3. DOMAIN t = 1..Len(t) /\ Len(t) \in Nat /\ \A i \in DOMAIN t : t[i] \in Tallies
    BY <2>1
  <2>4. \A i \in DOMAIN t : Stored(t[i]) \in Tallies
    BY <2>3, StoredTallied
  <2>5. cache' \in Seq(Tallies)
    BY <2>2, <2>3, <2>4
  <2>6. QED
    BY <1>1, <2>5, WriteTyped DEF ReplaceLog
<1>2. CASE ~saving
  BY <1>2 DEF ReplaceLog, RowsTyped
<1>3. QED
  BY <1>1, <1>2

LEMMA PersistTyped ==
    ASSUME ChatTimelineAssumption, RowsTyped, rows' \in Seq(Tallies), PersistAll
    PROVE  cache' \in Seq(Tallies) /\ file' \in Seq(Tallies) \cup {Garbage}
  BY SpokenTallied, ReplaceTyped DEF PersistAll
-----------------------------------------------------------------------------
\* Every handler leaves the rows, the log and the votes put aside well tallied.
LEMMA RowsInit == Init => RowsTyped
<1> SUFFICES ASSUME Init PROVE RowsTyped
  OBVIOUS
<1>1. <<>> \in Seq(Tallies) /\ <<>> \in Seq(Vote) /\ 1 \in Nat
  OBVIOUS
<1>2. QED
  BY <1>1 DEF Init, RowsTyped

LEMMA DeleteTyped ==
    ASSUME ChatTimelineAssumption, RowsTyped, NEW row \in DOMAIN rows,
           DeleteMessage(row)
    PROVE  RowsTyped'
<1>1. rows \in Seq(Tallies) /\ row \in 1..Len(rows)
  BY DEF RowsTyped
<1>2. rows' \in Seq(Tallies)
  BY <1>1, RemoveAtIs DEF DeleteMessage
<1>3. cache' \in Seq(Tallies) /\ file' \in Seq(Tallies) \cup {Garbage}
  BY <1>2, PersistTyped DEF DeleteMessage
<1>4. QED
  BY <1>2, <1>3 DEF RowsTyped, DeleteMessage

LEMMA EditTyped ==
    ASSUME ChatTimelineAssumption, RowsTyped, NEW row \in DOMAIN rows,
           NEW text \in Texts, EditMessage(row, text)
    PROVE  RowsTyped'
<1> DEFINE e == rows[row]
           r == [e EXCEPT !.text = text, !.edited = TRUE]
<1>1. e \in Tallies /\ rows' = [rows EXCEPT ![row] = r]
  BY DEF RowsTyped, EditMessage, ChangeRow
<1> HIDE DEF e
<1>2. /\ r \in Row /\ r.counts = e.counts /\ r.total = e.total
      /\ r.myVotes = e.myVotes /\ r.voters = e.voters
  BY <1>1 DEF Tallies, Row
<1> HIDE DEF r
<1>3. r \in Tallies
  BY <1>1, <1>2, TalliedAlike
<1>4. rows' \in Seq(Tallies)
  BY <1>1, <1>3 DEF RowsTyped
<1>5. cache' \in Seq(Tallies) /\ file' \in Seq(Tallies) \cup {Garbage}
  BY <1>4, PersistTyped DEF EditMessage
<1>6. QED
  BY <1>4, <1>5 DEF RowsTyped, EditMessage

LEMMA AppendEntryTyped ==
    ASSUME ChatTimelineAssumption, RowsTyped, NEW e \in Tallies,
           NEW drawn \in Tallies, NEW atOnce, AppendEntry(e, drawn, atOnce)
    PROVE  /\ rows' \in Seq(Tallies) /\ cache' \in Seq(Tallies)
           /\ file' \in Seq(Tallies) \cup {Garbage}
  BY AppendTyped DEF AppendEntry, RowsTyped

LEMMA SendTyped ==
    ASSUME ChatTimelineAssumption, RowsTyped, NEW kind, NEW sent, Send(kind, sent)
    PROVE  RowsTyped'
<1> DEFINE e == [Entry(clock, 0, TRUE, kind) EXCEPT !.pending = TRUE]
           all == Append(rows, e)
           at == {i \in DOMAIN all : all[i].id = clock}
<1>1. Entry(clock, 0, TRUE, kind) \in Tallies
  BY EntryTallied DEF RowsTyped
<1>2. e \in Tallies /\ e.id = clock
  BY <1>1, PendingTallied DEF Entry, Tallies, Row
<1>3. rows' = IF sent THEN [all EXCEPT ![Min(at)].pending = FALSE] ELSE all
  BY DEF Send, MarkSent
<1>4. HistoryAppend(e)
  BY DEF Send
<1> HIDE DEF e
<1>5. all \in Seq(Tallies) /\ all[Len(rows) + 1] = e /\ Len(all) = Len(rows) + 1
      /\ Len(rows) \in Nat
  BY <1>2 DEF RowsTyped
<1> HIDE DEF all
<1>6. at \in SUBSET Nat /\ Len(rows) + 1 \in at
  BY <1>2, <1>5
<1>7. Min(at) \in at
  BY <1>6, LeastIs
<1>8. all[Min(at)] \in Tallies /\ Min(at) \in DOMAIN all
  BY <1>5, <1>7
<1> HIDE DEF at
<1> DEFINE m == Min(at)
           p == [all[m] EXCEPT !.pending = FALSE]
<1>9. p \in Tallies /\ m \in DOMAIN all
  BY <1>8, PendingTallied
<1>10. [all EXCEPT ![m].pending = FALSE] = [all EXCEPT ![m] = p]
  OBVIOUS
<1> HIDE DEF m, p
<1>11. [all EXCEPT ![m] = p] \in Seq(Tallies)
  BY <1>5, <1>9
<1>12. rows' \in Seq(Tallies)
  BY <1>3, <1>5, <1>10, <1>11 DEF m
<1>13. cache' \in Seq(Tallies) /\ file' \in Seq(Tallies) \cup {Garbage}
  BY <1>2, <1>4, AppendTyped
<1>14. QED
  BY <1>12, <1>13 DEF Send, RowsTyped

LEMMA ReceiveTyped ==
    ASSUME ChatTimelineAssumption, RowsTyped, NEW kind, NEW d \in Delays, NEW b,
           Receive(kind, d, b)
    PROVE  RowsTyped'
<1> DEFINE e == Entry(clock, clock - d, FALSE, kind)
<1>1. clock \in Nat /\ clock - d \in Nat
  BY DEF Receive, RowsTyped, ChatTimelineAssumption
<1>2. e \in Tallies
  BY <1>1, EntryTallied
<1>3. AppendEntry(e, e, b)
  BY DEF Receive
<1> HIDE DEF e
<1>4. /\ rows' \in Seq(Tallies) /\ cache' \in Seq(Tallies)
      /\ file' \in Seq(Tallies) \cup {Garbage}
  BY <1>2, <1>3, AppendEntryTyped
<1>5. QED
  BY <1>4 DEF Receive, RowsTyped

LEMMA OtherVotesTyped ==
    ASSUME RowsTyped, NEW id PROVE OtherVotes(id) \in Seq(Vote)
<1> DEFINE P == DOMAIN stash \ VotesFor(id)
<1>1. DOMAIN stash = 1..Len(stash) /\ Len(stash) \in Nat
  BY DEF RowsTyped
<1>2. IsFiniteSet(1..Len(stash))
  BY <1>1, FS_Interval
<1>3. P \in SUBSET Nat /\ IsFiniteSet(P) /\ \A i \in P : stash[i] \in Vote
  BY <1>1, <1>2, FS_Subset DEF RowsTyped
<1> HIDE DEF P
<1>4. Picked(stash, P) \in Seq(Vote)
  BY <1>3, PickedIsSeq
<1>5. QED
  BY <1>4 DEF OtherVotes, P

LEMMA IngestTyped ==
    ASSUME ChatTimelineAssumption, RowsTyped, NEW event \in Events, NEW b,
           Ingest(event, b)
    PROVE  RowsTyped'
<1> DEFINE n == Entry(event, 0, Author[event] = "me", Kind[event])
           e == [n EXCEPT !.read = (Author[event] = "me")]
           drawn == IF e.poll THEN Replayed(e) ELSE e
<1>1. n \in Tallies
  BY EntryTallied
<1>2. AppendEntry(e, drawn, b)
  BY DEF Ingest
<1>3. stash' = IF e.poll THEN OtherVotes(event) ELSE stash
  BY DEF Ingest
<1> HIDE DEF n
<1>4. /\ e \in Row /\ e.counts = n.counts /\ e.total = n.total
      /\ e.myVotes = n.myVotes /\ e.voters = n.voters
  BY <1>1 DEF Tallies, Row
<1> HIDE DEF e
<1>5. e \in Tallies
  BY <1>1, <1>4, TalliedAlike
<1>6. drawn \in Tallies
  BY <1>5, ReplayedTallied
<1> HIDE DEF drawn
<1>7. /\ rows' \in Seq(Tallies) /\ cache' \in Seq(Tallies)
      /\ file' \in Seq(Tallies) \cup {Garbage}
  BY <1>2, <1>5, <1>6, AppendEntryTyped
<1>8. stash' \in Seq(Vote)
  BY <1>3, OtherVotesTyped DEF RowsTyped
<1>9. QED
  BY <1>7, <1>8 DEF Ingest, RowsTyped

LEMMA VoteTyped ==
    ASSUME ChatTimelineAssumption, RowsTyped, NEW event \in Events,
           NEW a \in Answers \cup {Strange}, NEW v \in Voters,
           ApplyPollResponse(event, a, v)
    PROVE  RowsTyped'
<1> DEFINE row == RowForMsgId(event)
<1>1. CASE row = 0
  <2> DEFINE vote == [poll |-> event, answer |-> a, voter |-> v]
  <2>1. stash' = Append(stash, vote) /\ UNCHANGED <<clock, rows, cache, file>>
    BY <1>1 DEF ApplyPollResponse, log
  <2>2. vote \in Vote
    BY DEF Vote
  <2> HIDE DEF vote
  <2>3. stash' \in Seq(Vote)
    BY <2>1, <2>2 DEF RowsTyped
  <2>4. QED
    BY <2>1, <2>3 DEF RowsTyped
<1>2. CASE row # 0
  <2>1. row \in DOMAIN rows
    BY <1>2, RowForIs
  <2>2. rows[row] \in Tallies
    BY <2>1 DEF RowsTyped
  <2>3. Voted(rows[row], a, v) \in Tallies
    BY <2>2, VotedTallied
  <2>4. rows' = [rows EXCEPT ![row] = Voted(rows[row], a, v)]
        /\ UNCHANGED <<clock, stash, cache, file>>
    BY <1>2 DEF ApplyPollResponse, ChangeRow, log
  <2> HIDE DEF row
  <2>5. QED
    BY <2>1, <2>3, <2>4 DEF RowsTyped
<1>3. QED
  BY <1>1, <1>2

LEMMA RemoteEditTyped ==
    ASSUME ChatTimelineAssumption, RowsTyped, NEW event \in Events,
           NEW text \in Texts, NEW b \in BOOLEAN, ApplyRemoteEdit(event, text, b)
    PROVE  RowsTyped'
<1> DEFINE row == RowForMsgId(event)
           e == rows[row]
           r == [e EXCEPT !.text = text, !.edited = @ \/ b, !.system = @ /\ b]
<1>1. row \in DOMAIN rows
  BY RowForIs DEF ApplyRemoteEdit
<1>2. rows' = [rows EXCEPT ![row] = r] /\ PersistAll /\ UNCHANGED <<clock, stash>>
  BY DEF ApplyRemoteEdit, ChangeRow
<1> HIDE DEF row
<1>3. e \in Tallies
  BY <1>1 DEF RowsTyped
<1> HIDE DEF e
<1>4. /\ r \in Row /\ r.counts = e.counts /\ r.total = e.total
      /\ r.myVotes = e.myVotes /\ r.voters = e.voters
  BY <1>3 DEF Tallies, Row
<1> HIDE DEF r
<1>5. r \in Tallies
  BY <1>3, <1>4, TalliedAlike
<1>6. rows' \in Seq(Tallies)
  BY <1>1, <1>2, <1>5 DEF RowsTyped
<1>7. cache' \in Seq(Tallies) /\ file' \in Seq(Tallies) \cup {Garbage}
  BY <1>2, <1>6, PersistTyped
<1>8. QED
  BY <1>2, <1>6, <1>7 DEF RowsTyped

LEMMA ReadTyped ==
    ASSUME ChatTimelineAssumption, RowsTyped, MarkOwnMessagesRead
    PROVE  RowsTyped'
<1> DEFINE due(e) == e.own /\ ~e.read
           r(e) == IF due(e) THEN [e EXCEPT !.read = TRUE, !.pending = FALSE] ELSE e
<1>1. rows' = [i \in DOMAIN rows |-> r(rows[i])] /\ PersistAll
      /\ UNCHANGED <<clock, stash>>
  BY DEF MarkOwnMessagesRead
<1>2. \A e \in Tallies :
          /\ r(e) \in Row /\ r(e).counts = e.counts /\ r(e).total = e.total
          /\ r(e).myVotes = e.myVotes /\ r(e).voters = e.voters
  <2> SUFFICES ASSUME NEW e \in Tallies
               PROVE  /\ r(e) \in Row /\ r(e).counts = e.counts
                      /\ r(e).total = e.total /\ r(e).myVotes = e.myVotes
                      /\ r(e).voters = e.voters
    OBVIOUS
  <2> DEFINE f == [e EXCEPT !.read = TRUE]
             g == [f EXCEPT !.pending = FALSE]
  <2>1. /\ f \in Row /\ f.counts = e.counts /\ f.total = e.total
        /\ f.myVotes = e.myVotes /\ f.voters = e.voters
    BY DEF Tallies, Row
  <2>2. r(e) = IF due(e) THEN g ELSE e
    OBVIOUS
  <2> HIDE DEF f
  <2>3. /\ g \in Row /\ g.counts = e.counts /\ g.total = e.total
        /\ g.myVotes = e.myVotes /\ g.voters = e.voters
    BY <2>1 DEF Row
  <2> HIDE DEF g, r, due
  <2>4. QED
    BY <2>2, <2>3 DEF Tallies
<1> HIDE DEF r
<1>3. \A e \in Tallies : r(e) \in Tallies
  BY <1>2, TalliedAlike
<1>4. rows' \in Seq(Tallies)
  <2>1. DOMAIN rows = 1..Len(rows) /\ Len(rows) \in Nat
        /\ \A i \in DOMAIN rows : rows[i] \in Tallies
    BY DEF RowsTyped
  <2>2. \A i \in DOMAIN rows : r(rows[i]) \in Tallies
    BY <1>3, <2>1
  <2>3. QED
    BY <1>1, <2>1, <2>2
<1>5. cache' \in Seq(Tallies) /\ file' \in Seq(Tallies) \cup {Garbage}
  BY <1>1, <1>4, PersistTyped
<1>6. QED
  BY <1>1, <1>4, <1>5 DEF RowsTyped

LEMMA RowsNext ==
    ASSUME ChatTimelineAssumption, RowsTyped, [Next]_vars PROVE RowsTyped'
<1>1. ASSUME NEW kind, NEW sent, Send(kind, sent) PROVE RowsTyped'
  BY <1>1, SendTyped
<1>2. ASSUME NEW kind, NEW d \in Delays, NEW b, Receive(kind, d, b) PROVE RowsTyped'
  BY <1>2, ReceiveTyped
<1>3. ASSUME NEW ts, NEW text \in Texts, ReceiveEdit(ts, text) PROVE RowsTyped'
  BY <1>3, RowForIs, EditTyped DEF ReceiveEdit, RowForStamp
<1>4. ASSUME NEW ts, ReceiveDelete(ts) PROVE RowsTyped'
  BY <1>4, RowForIs, DeleteTyped DEF ReceiveDelete, RowForStamp
<1>5. CASE Tick
  BY <1>5 DEF Tick, RowsTyped, log
<1>6. ASSUME NEW event \in Events, NEW b, Ingest(event, b) PROVE RowsTyped'
  BY <1>6, IngestTyped
<1>7. ASSUME NEW event \in Events, NEW a \in Answers \cup {Strange},
             NEW v \in Voters, ApplyPollResponse(event, a, v)
      PROVE  RowsTyped'
  BY <1>7, VoteTyped
<1>8. ASSUME NEW event \in Events, NEW text \in Texts, NEW b \in BOOLEAN,
             ApplyRemoteEdit(event, text, b)
      PROVE  RowsTyped'
  BY <1>8, RemoteEditTyped
<1>9. ASSUME NEW event \in Events, RoomMessageRemoved(event) PROVE RowsTyped'
  BY <1>9, RowForIs, DeleteTyped DEF RoomMessageRemoved
<1>10. ASSUME NEW row \in DOMAIN rows, NEW text \in Texts, EditMessage(row, text)
       PROVE  RowsTyped'
  BY <1>10, EditTyped
<1>11. ASSUME NEW row \in DOMAIN rows, DeleteMessage(row) PROVE RowsTyped'
  BY <1>11, DeleteTyped
<1>12. CASE MarkOwnMessagesRead
  BY <1>12, ReadTyped
<1>13. CASE MarkAllRead
  BY <1>13 DEF MarkAllRead, RowsTyped, log
<1>14. CASE ClearMessages
  <2>1. rows' = <<>> /\ ReplaceLog(<<>>) /\ UNCHANGED <<clock, stash>>
    BY <1>14 DEF ClearMessages
  <2>2. <<>> \in Seq(Tallies)
    OBVIOUS
  <2>3. cache' \in Seq(Tallies) /\ file' \in Seq(Tallies) \cup {Garbage}
    BY <2>1, <2>2, ReplaceTyped
  <2>4. QED
    BY <2>1, <2>2, <2>3 DEF RowsTyped
<1>15. CASE SetHistorySavingEnabled
  BY <1>15 DEF SetHistorySavingEnabled, RowsTyped
<1>16. CASE Restart
  BY <1>16 DEF Restart, RowsTyped, Loaded
<1>17. CASE UNCHANGED vars
  BY <1>17 DEF vars, log, RowsTyped
<1>18. QED
  BY <1>1, <1>2, <1>3, <1>4, <1>5, <1>6, <1>7, <1>8, <1>9, <1>10, <1>11,
     <1>12, <1>13, <1>14, <1>15, <1>16, <1>17 DEF Next

\* However votes and polls overtake each other and restarts fall between, every
\* row counts each voter once, under the answer they chose last
\* (ChatModel::applyPollResponse).
THEOREM TalliesAlwaysTrue == Spec => []TallyTrue
<1>1. Spec => []RowsTyped
  BY RowsInit, RowsNext, ChatTimelineAssumption, PTL DEF Spec
<1>2. QED
  BY <1>1, RowsTallied, PTL
-----------------------------------------------------------------------------
(* The log: any cap, any failed writes, saving switched off and on.        *)

\* Counting up.
LEMMA UpTo ==
    ASSUME NEW n \in Nat, NEW G, 0 \in G, \A j \in 0..n - 1 : j \in G => j + 1 \in G
    PROVE  n \in G
<1> SUFFICES ASSUME n \notin G PROVE FALSE
  OBVIOUS
<1> DEFINE bad == {j \in 0..n : j \notin G}
<1>1. bad \in SUBSET Nat /\ bad # {}
  OBVIOUS
<1>2. PICK m \in bad : \A j \in bad : m <= j
  BY <1>1, LeastNatural
<1>3. m # 0 /\ m \in 0..n /\ m \notin G
  BY <1>2
<1>4. m - 1 \in 0..n - 1 /\ m - 1 \notin bad
  BY <1>2, <1>3
<1>5. m - 1 \in G
  BY <1>4
<1>6. (m - 1) + 1 \in G
  BY <1>4, <1>5
<1>7. QED
  BY <1>3, <1>6

LEMMA IntervalTop ==
    ASSUME NEW n \in Nat
    PROVE  /\ Max(1..n + 1) = n + 1 /\ (1..n + 1) \ {n + 1} = 1..n
           /\ 1..n + 1 # {} /\ 1..n + 1 \in SUBSET Nat /\ IsFiniteSet(1..n + 1)
<1>1. IsFiniteSet(1..n + 1)
  BY FS_Interval
<1>2. 1..n + 1 # {} /\ 1..n + 1 \in SUBSET Nat
  OBVIOUS
<1> DEFINE m == Max(1..n + 1)
<1>3. m \in 1..n + 1 /\ \A k \in 1..n + 1 : m >= k
  BY <1>1, <1>2, GreatestIs
<1> HIDE DEF m
<1>4. m = n + 1
  BY <1>3
<1>5. QED
  BY <1>1, <1>2, <1>4 DEF m

\* What both rows are to say alike, and two logs row by row.
Like(r, s) ==
    /\ r.id = s.id /\ r.text = s.text /\ r.edited = s.edited
    /\ r.read = s.read /\ r.own = s.own
Alike(s, t) ==
    /\ Len(s) = Len(t)
    /\ \A i \in 1..Len(s) : s[i].system = t[i].system /\ Like(s[i], t[i])
\* The last entries of t are those of s.
Ends(s, t) ==
    /\ Len(s) <= Len(t)
    /\ \A k \in 1..Len(s) : Like(s[k], t[Len(t) - Len(s) + k])

Where(seq) == {i \in DOMAIN seq : ~seq[i].system}

LEMMA WhereIs ==
    ASSUME NEW E, NEW seq \in Seq(E)
    PROVE  /\ Where(seq) \in SUBSET (1..Len(seq)) /\ Where(seq) \in SUBSET Nat
           /\ IsFiniteSet(Where(seq)) /\ Spoken(seq) = Picked(seq, Where(seq))
<1>1. IsFiniteSet(Where(seq)) /\ Where(seq) \in SUBSET Nat
  BY SpokenTallied DEF Where
<1>2. QED
  BY <1>1 DEF Where, Spoken

LEMMA SpokenSeq ==
    ASSUME NEW E, NEW seq \in Seq(E)
    PROVE  Spoken(seq) \in Seq(E) /\ Len(Spoken(seq)) <= Len(seq)
  BY SpokenTallied

LEMMA SpokenAppend ==
    ASSUME NEW E, NEW seq \in Seq(E), NEW e \in E
    PROVE  Spoken(Append(seq, e))
               = IF e.system THEN Spoken(seq) ELSE Append(Spoken(seq), e)
<1> DEFINE all == Append(seq, e)
           n == Len(seq)
           P == Where(seq)
<1>1. /\ all \in Seq(E) /\ Len(all) = n + 1 /\ n \in Nat /\ all[n + 1] = e
      /\ \A i \in 1..n : all[i] = seq[i]
  OBVIOUS
<1>2. P \in SUBSET (1..n) /\ P \in SUBSET Nat /\ IsFiniteSet(P)
      /\ Spoken(seq) = Picked(seq, P)
  BY WhereIs
<1>3. Spoken(all) = Picked(all, Where(all))
  BY <1>1, WhereIs
<1> HIDE DEF all
<1>4. Picked(all, P) = Picked(seq, P)
  <2>1. \A i \in P : all[i] = seq[i]
    BY <1>1, <1>2
  <2> HIDE DEF P
  <2>2. QED
    BY <1>2, <2>1, PickedAlike
<1>5. CASE e.system
  <2>1. Where(all) = P
    BY <1>1, <1>5 DEF Where
  <2>2. QED
    BY <1>2, <1>3, <1>4, <1>5, <2>1 DEF all
<1>6. CASE ~e.system
  <2> DEFINE Q == P \cup {n + 1}
  <2>1. Where(all) = Q
    BY <1>1, <1>6 DEF Where
  <2>2. Q \in SUBSET Nat /\ IsFiniteSet(Q) /\ Q # {}
    BY <1>1, <1>2, FS_AddElement
  <2>3. \A k \in Q : n + 1 >= k
    BY <1>1, <1>2
  <2> DEFINE m == Max(Q)
  <2>4. m \in Q /\ \A k \in Q : m >= k
    BY <2>2, GreatestIs
  <2>10. n + 1 \in Q /\ n + 1 \in Nat
    BY <1>1
  <2> HIDE DEF m, n, Q
  <2>5. m = n + 1
    <3>1. m \in Nat /\ m >= n + 1 /\ n + 1 >= m
      BY <2>2, <2>3, <2>4, <2>10
    <3>2. QED
      BY <2>10, <3>1
  <2>6. Q \ {n + 1} = P
    BY <1>1, <1>2 DEF Q
  <2> HIDE DEF P, Q, n
  <2>7. Picked(all, Q) = Append(Picked(all, Q \ {n + 1}), all[n + 1])
    BY <2>2, <2>5, PickedSplits DEF m
  <2>8. Picked(all, Q) = Append(Picked(seq, P), e)
    BY <1>1, <1>4, <2>6, <2>7
  <2>9. QED
    BY <1>2, <1>3, <1>6, <2>1, <2>8 DEF all
<1>7. QED
  BY <1>5, <1>6

LEMMA AppendLast ==
    ASSUME NEW E, NEW x \in Seq(E), NEW y \in Seq(E), NEW e \in E
    PROVE  Append(x \o y, e) = x \o Append(y, e)
  OBVIOUS

\* What was spoken before a place comes before what was spoken after it.
LEMMA SpokenConcat ==
    ASSUME NEW E, NEW a \in Seq(E), NEW b \in Seq(E)
    PROVE  Spoken(a \o b) = Spoken(a) \o Spoken(b)
<1> DEFINE n == Len(b)
           up(j) == SubSeq(b, 1, j)
           G == {j \in 0..n : Spoken(a \o up(j)) = Spoken(a) \o Spoken(up(j))}
<1>0. n \in Nat /\ Spoken(a) \in Seq(E)
  BY SpokenSeq
<1>1. 0 \in G
  <2>1. up(0) = <<>> /\ a \o <<>> = a
    OBVIOUS
  <2>2. Spoken(<<>>) = <<>>
    BY PickedNone DEF Spoken
  <2>3. Spoken(a) \o <<>> = Spoken(a)
    BY <1>0
  <2> HIDE DEF up
  <2>4. Spoken(a \o up(0)) = Spoken(a) /\ Spoken(up(0)) = <<>>
    BY <2>1, <2>2
  <2>5. Spoken(a \o up(0)) = Spoken(a) \o Spoken(up(0))
    BY <2>3, <2>4
  <2>6. 0 \in 0..n
    BY <1>0
  <2>7. QED
    BY <2>5, <2>6
<1>2. ASSUME NEW j \in 0..n - 1, j \in G PROVE j + 1 \in G
  <2> DEFINE u == up(j)
             c == a \o u
             e == b[j + 1]
  <2>0. j \in Nat /\ j + 1 \in 1..n /\ e \in E
    BY <1>0
  <2>3. Spoken(c) = Spoken(a) \o Spoken(u)
    BY <1>2
  <2>4. u \in Seq(E) /\ up(j + 1) = Append(u, e)
    BY <2>0
  <2> HIDE DEF u, e, up
  <2>1. c \in Seq(E)
    BY <2>4
  <2>10. a \o Append(u, e) = Append(c, e)
    BY <2>0, <2>4
  <2>2. c \in Seq(E) /\ a \o up(j + 1) = Append(c, e)
    BY <2>1, <2>4, <2>10
  <2> HIDE DEF c
  <2>5. /\ Spoken(Append(c, e))
               = IF e.system THEN Spoken(c) ELSE Append(Spoken(c), e)
        /\ Spoken(Append(u, e))
               = IF e.system THEN Spoken(u) ELSE Append(Spoken(u), e)
    BY <2>0, <2>2, <2>4, SpokenAppend
  <2>6. Spoken(u) \in Seq(E) /\ Spoken(c) = Spoken(a) \o Spoken(u)
    BY <2>3, <2>4, SpokenSeq
  <2>7. Append(Spoken(a) \o Spoken(u), e) = Spoken(a) \o Append(Spoken(u), e)
    <3>1. Spoken(a) \in Seq(E) /\ Spoken(u) \in Seq(E) /\ e \in E
      BY <1>0, <2>0, <2>6
    <3>2. QED
      BY <3>1, AppendLast
  <2>8. Spoken(a \o up(j + 1)) = Spoken(a) \o Spoken(up(j + 1))
    BY <2>2, <2>4, <2>5, <2>6, <2>7
  <2>9. QED
    BY <2>0, <2>8
<1> HIDE DEF G
<1>3. n \in G
  BY <1>0, <1>1, <1>2, UpTo
<1>4. up(n) = b
  OBVIOUS
<1>5. QED
  BY <1>3, <1>4 DEF G

\* Nothing is left out of a log where all is spoken.
LEMMA SpokenWhole ==
    ASSUME NEW E, NEW s \in Seq(E), \A i \in 1..Len(s) : ~s[i].system
    PROVE  Spoken(s) = s
<1> DEFINE n == Len(s)
           up(j) == SubSeq(s, 1, j)
           G == {j \in 0..n : Spoken(up(j)) = up(j)}
<1>0. n \in Nat
  OBVIOUS
<1>1. 0 \in G
  <2>1. up(0) = <<>>
    OBVIOUS
  <2>2. Spoken(<<>>) = <<>>
    BY PickedNone DEF Spoken
  <2> HIDE DEF up
  <2>3. QED
    BY <1>0, <2>1, <2>2
<1>2. ASSUME NEW j \in 0..n - 1, j \in G PROVE j + 1 \in G
  <2> DEFINE u == up(j)
             e == s[j + 1]
  <2>1. u \in Seq(E) /\ up(j + 1) = Append(u, e) /\ e \in E /\ ~e.system
        /\ j + 1 \in 0..n
    BY <1>0
  <2>2. Spoken(u) = u
    BY <1>2
  <2> HIDE DEF u, e, up
  <2>3. Spoken(Append(u, e)) = Append(Spoken(u), e)
    BY <2>1, SpokenAppend
  <2>4. QED
    BY <2>1, <2>2, <2>3
<1> HIDE DEF G
<1>3. n \in G
  BY <1>0, <1>1, <1>2, UpTo
<1>4. up(n) = s
  OBVIOUS
<1>5. QED
  BY <1>3, <1>4 DEF G

LEMMA SpokenOnly ==
    ASSUME NEW E, NEW s \in Seq(E), NEW k \in DOMAIN Spoken(s)
    PROVE  ~Spoken(s)[k].system
<1>1. PICK i \in Where(s) : Spoken(s)[k] = s[i]
  BY WhereIs, PickedFrom
<1>2. QED
  BY <1>1 DEF Where

\* Logs that are alike are spoken alike.
LEMMA SpokenAlike ==
    ASSUME NEW E, NEW r \in Seq(E), NEW s \in Seq(E), Alike(r, s)
    PROVE  /\ Len(Spoken(r)) = Len(Spoken(s))
           /\ \A k \in 1..Len(Spoken(r)) : Like(Spoken(r)[k], Spoken(s)[k])
<1> DEFINE n == Len(r)
           up(q, j) == SubSeq(q, 1, j)
           R(j) == Spoken(up(r, j))
           S(j) == Spoken(up(s, j))
           Goal(j) == /\ Len(R(j)) = Len(S(j))
                      /\ \A k \in 1..Len(R(j)) : Like(R(j)[k], S(j)[k])
           G == {j \in 0..n : Goal(j)}
<1>0. n \in Nat /\ Len(s) = n
  BY DEF Alike
<1>1. 0 \in G
  <2>1. up(r, 0) = <<>> /\ up(s, 0) = <<>>
    OBVIOUS
  <2>2. Spoken(<<>>) = <<>>
    BY PickedNone DEF Spoken
  <2> HIDE DEF up
  <2>3. R(0) = <<>> /\ S(0) = <<>>
    BY <2>1, <2>2
  <2> HIDE DEF R, S
  <2>4. QED
    BY <1>0, <2>3
<1>2. ASSUME NEW j \in 0..n - 1, j \in G PROVE j + 1 \in G
  <2> DEFINE u == up(r, j)
             v == up(s, j)
             d == r[j + 1]
             e == s[j + 1]
  <2>1. /\ u \in Seq(E) /\ up(r, j + 1) = Append(u, d) /\ d \in E
        /\ v \in Seq(E) /\ up(s, j + 1) = Append(v, e) /\ e \in E
        /\ j + 1 \in 0..n
    BY <1>0
  <2>2. d.system = e.system /\ Like(d, e)
    BY <1>0 DEF Alike
  <2>3. /\ Len(Spoken(u)) = Len(Spoken(v))
        /\ \A k \in 1..Len(Spoken(u)) : Like(Spoken(u)[k], Spoken(v)[k])
    BY <1>2
  <2> HIDE DEF u, v, d, e, up
  <2>4. /\ Spoken(Append(u, d))
               = IF d.system THEN Spoken(u) ELSE Append(Spoken(u), d)
        /\ Spoken(Append(v, e))
               = IF e.system THEN Spoken(v) ELSE Append(Spoken(v), e)
    BY <2>1, SpokenAppend
  <2>5. Spoken(u) \in Seq(E) /\ Spoken(v) \in Seq(E)
    BY <2>1, SpokenSeq
  <2>6. R(j + 1) = Spoken(Append(u, d)) /\ S(j + 1) = Spoken(Append(v, e))
    BY <2>1
  <2>7. CASE d.system
    BY <2>1, <2>2, <2>3, <2>4, <2>6, <2>7
  <2>8. CASE ~d.system
    <3> DEFINE x == Spoken(u)
               y == Spoken(v)
    <3>1. /\ R(j + 1) = Append(x, d) /\ S(j + 1) = Append(y, e)
          /\ x \in Seq(E) /\ y \in Seq(E) /\ Len(x) = Len(y)
          /\ \A k \in 1..Len(x) : Like(x[k], y[k])
      BY <2>2, <2>3, <2>4, <2>5, <2>6, <2>8
    <3> HIDE DEF x, y, R, S
    <3>2. Len(Append(x, d)) = Len(x) + 1 /\ Len(Append(y, e)) = Len(x) + 1
      BY <2>1, <3>1
    <3>3. ASSUME NEW k \in 1..Len(x) + 1
          PROVE  Like(Append(x, d)[k], Append(y, e)[k])
      <4>1. CASE k = Len(x) + 1
        BY <2>1, <2>2, <3>1, <4>1
      <4>2. CASE k # Len(x) + 1
        <5>1. k \in 1..Len(x)
          BY <3>1, <4>2
        <5>2. Append(x, d)[k] = x[k] /\ Append(y, e)[k] = y[k]
          BY <2>1, <3>1, <5>1
        <5>3. QED
          BY <3>1, <5>1, <5>2
      <4>3. QED
        BY <4>1, <4>2
    <3>4. Goal(j + 1)
      BY <3>1, <3>2, <3>3
    <3>5. QED
      BY <2>1, <3>4
  <2>9. QED
    BY <2>7, <2>8
<1> HIDE DEF Goal, G
<1>3. n \in G
  BY <1>0, <1>1, <1>2, UpTo
<1>4. Goal(n)
  BY <1>3 DEF G
<1>5. up(r, n) = r /\ up(s, n) = s
  BY <1>0
<1>6. R(n) = Spoken(r) /\ S(n) = Spoken(s)
  BY <1>5
<1> HIDE DEF R, S
<1>7. QED
  BY <1>4, <1>6 DEF Goal
-----------------------------------------------------------------------------
\* While nothing was missed the log ends as the rows do, and is all of them
\* unless there are more than it keeps.
Whole ==
    /\ Len(cache) <= Len(rows)
    /\ Ends(Spoken(cache), Spoken(rows))
    /\ Len(rows) <= MaxMessages => Len(Spoken(cache)) = Len(Spoken(rows))
LogInv ==
    /\ RowsTyped
    /\ file # Garbage /\ ~failed => file = cache
    /\ ~missed => Whole

LEMMA LikeTrans ==
    ASSUME NEW a, NEW b, NEW c, Like(a, b), Like(b, c) PROVE Like(a, c)
  BY DEF Like

LEMMA EndsTrans ==
    ASSUME NEW E, NEW r \in Seq(E), NEW s \in Seq(E), NEW t \in Seq(E),
           Ends(r, s), Ends(s, t)
    PROVE  Ends(r, t)
<1>1. Len(r) \in Nat /\ Len(s) \in Nat /\ Len(t) \in Nat /\ Len(r) <= Len(t)
  BY DEF Ends
<1>2. ASSUME NEW k \in 1..Len(r) PROVE Like(r[k], t[Len(t) - Len(r) + k])
  <2> DEFINE j == Len(s) - Len(r) + k
  <2>1. j \in 1..Len(s) /\ Len(t) - Len(s) + j = Len(t) - Len(r) + k
    BY <1>1 DEF Ends
  <2>2. Like(r[k], s[j])
    BY DEF Ends
  <2> HIDE DEF j
  <2>3. Like(s[j], t[Len(t) - Len(s) + j])
    BY <2>1 DEF Ends
  <2>4. QED
    BY <2>1, <2>2, <2>3, LikeTrans
<1>3. QED
  BY <1>1, <1>2 DEF Ends

LEMMA ConcatIs ==
    ASSUME NEW E, NEW x \in Seq(E), NEW y \in Seq(E)
    PROVE  /\ x \o y \in Seq(E) /\ Len(x \o y) = Len(x) + Len(y)
           /\ \A k \in 1..Len(x) : (x \o y)[k] = x[k]
           /\ \A k \in 1..Len(y) : (x \o y)[Len(x) + k] = y[k]
<1>1. x \o y \in Seq(E) /\ Len(x \o y) = Len(x) + Len(y)
  OBVIOUS
<1>2. \A k \in 1..Len(x) : (x \o y)[k] = x[k]
  OBVIOUS
<1>3. \A k \in 1..Len(y) : (x \o y)[Len(x) + k] = y[k]
  OBVIOUS
<1>4. QED
  BY <1>1, <1>2, <1>3

LEMMA SeqsEqual ==
    ASSUME NEW E, NEW x \in Seq(E), NEW y \in Seq(E), Len(x) = Len(y),
           \A k \in 1..Len(x) : x[k] = y[k]
    PROVE  x = y
  OBVIOUS

LEMMA StoredLike ==
    ASSUME NEW e \in Tallies
    PROVE  /\ Stored(e) \in Tallies /\ Stored(e).system = e.system
           /\ Like(Stored(e), e)
  BY StoredTallied DEF Stored, Like, Tallies, Row

LEMMA EndsAlike ==
    ASSUME NEW E, NEW r \in Seq(E), NEW s \in Seq(E), Alike(r, s)
    PROVE  Ends(Spoken(r), Spoken(s))
<1>1. /\ Len(Spoken(r)) = Len(Spoken(s))
      /\ \A k \in 1..Len(Spoken(r)) : Like(Spoken(r)[k], Spoken(s)[k])
  BY SpokenAlike
<1>2. Len(Spoken(r)) \in Nat
  BY SpokenSeq
<1>3. QED
  BY <1>1, <1>2 DEF Ends

\* A log that was trimmed ends as it did.
LEMMA EndsTrim ==
    ASSUME ChatTimelineAssumption, NEW E, NEW s \in Seq(E)
    PROVE  Ends(Spoken(Trim(s)), Spoken(s))
<1> DEFINE t == Trim(s)
           n == Len(s) - Len(t)
           a == SubSeq(s, 1, n)
<1>1. /\ t \in Seq(E)
      /\ Len(t) = IF Len(s) > MaxMessages THEN MaxMessages ELSE Len(s)
      /\ \A k \in 1..Len(t) : t[k] = s[Len(s) - Len(t) + k]
  BY TrimIs
<1>2. MaxMessages \in Nat /\ Len(s) \in Nat
  BY DEF ChatTimelineAssumption
<1> HIDE DEF t
<1>3. Len(t) \in Nat /\ n \in Nat /\ n <= Len(s)
  BY <1>1, <1>2
<1>4. a \in Seq(E) /\ Len(a) = n /\ \A k \in 1..n : a[k] = s[k]
  BY <1>2, <1>3
<1> HIDE DEF a
<1>5. a \o t = s
  <2>0. a \in Seq(E) /\ t \in Seq(E) /\ Len(a) = n
    BY <1>1, <1>4
  <2>1. a \o t \in Seq(E) /\ Len(a \o t) = n + Len(t)
    BY <2>0, ConcatIs
  <2>2. Len(a \o t) = Len(s)
    BY <1>2, <1>3, <2>1
  <2>3. ASSUME NEW k \in 1..Len(s) PROVE (a \o t)[k] = s[k]
    <3>1. CASE k <= n
      BY <1>1, <1>3, <1>4, <3>1
    <3>2. CASE ~(k <= n)
      <4>1. (a \o t)[k] = t[k - n]
        BY <1>1, <1>2, <1>3, <1>4, <3>2
      <4>2. k - n \in 1..Len(t) /\ n + (k - n) = k
        BY <1>2, <1>3, <3>2
      <4>3. QED
        BY <1>1, <4>1, <4>2
    <3>3. QED
      BY <3>1, <3>2
  <2>4. QED
    BY <2>1, <2>2, <2>3, SeqsEqual
<1> HIDE DEF n
<1>6. Spoken(s) = Spoken(a) \o Spoken(t)
  BY <1>1, <1>4, <1>5, SpokenConcat
<1> DEFINE x == Spoken(a)
           y == Spoken(t)
<1>7. x \in Seq(E) /\ y \in Seq(E)
  BY <1>1, <1>4, SpokenSeq
<1> HIDE DEF x, y
<1>8. Ends(y, x \o y)
  <2>1. Len(x) \in Nat /\ Len(y) \in Nat /\ Len(x \o y) = Len(x) + Len(y)
    BY <1>7
  <2>2. ASSUME NEW k \in 1..Len(y)
        PROVE  Like(y[k], (x \o y)[Len(x \o y) - Len(y) + k])
    <3>1. Len(x \o y) - Len(y) + k = Len(x) + k
      BY <2>1
    <3>2. (x \o y)[Len(x) + k] = y[k]
      BY <1>7, <2>1
    <3>3. QED
      BY <3>1, <3>2 DEF Like
  <2>3. QED
    BY <2>1, <2>2 DEF Ends
<1>9. QED
  BY <1>6, <1>8 DEF x, y, t

\* One more entry on both.
LEMMA EndsAppend ==
    ASSUME NEW E, NEW s \in Seq(E), NEW t \in Seq(E), NEW e \in E,
           Ends(Spoken(s), Spoken(t))
    PROVE  Ends(Spoken(Append(s, e)), Spoken(Append(t, e)))
<1> DEFINE x == Spoken(s)
           y == Spoken(t)
<1>1. x \in Seq(E) /\ y \in Seq(E) /\ Ends(x, y)
  BY SpokenSeq
<1>2. /\ Spoken(Append(s, e)) = IF e.system THEN x ELSE Append(x, e)
      /\ Spoken(Append(t, e)) = IF e.system THEN y ELSE Append(y, e)
  BY SpokenAppend
<1> HIDE DEF x, y
<1>3. Ends(Append(x, e), Append(y, e))
  <2>1. /\ Len(Append(x, e)) = Len(x) + 1 /\ Len(Append(y, e)) = Len(y) + 1
        /\ Len(x) \in Nat /\ Len(y) \in Nat /\ Len(x) <= Len(y)
    BY <1>1 DEF Ends
  <2>2. ASSUME NEW k \in 1..Len(x) + 1
        PROVE  Like(Append(x, e)[k], Append(y, e)[Len(y) - Len(x) + k])
    <3>1. CASE k = Len(x) + 1
      <4>1. Append(x, e)[k] = e /\ Len(y) - Len(x) + k = Len(y) + 1
        BY <1>1, <2>1, <3>1
      <4>2. Append(y, e)[Len(y) + 1] = e
        BY <1>1
      <4>3. QED
        BY <4>1, <4>2 DEF Like
    <3>2. CASE k # Len(x) + 1
      <4> DEFINE j == Len(y) - Len(x) + k
      <4>1. k \in 1..Len(x) /\ j \in 1..Len(y)
        BY <2>1, <3>2
      <4>2. Append(x, e)[k] = x[k]
        BY <1>1, <4>1
      <4>3. Append(y, e)[j] = y[j]
        BY <1>1, <4>1
      <4>4. Like(x[k], y[j])
        BY <1>1, <4>1 DEF Ends
      <4>5. QED
        BY <4>2, <4>3, <4>4
    <3>3. QED
      BY <3>1, <3>2
  <2>3. (Len(y) + 1) - (Len(x) + 1) = Len(y) - Len(x)
    BY <2>1
  <2> DEFINE p == Append(x, e)
             q == Append(y, e)
  <2>4. \A k \in 1..Len(x) + 1 : Like(p[k], q[Len(y) - Len(x) + k])
    BY <2>2
  <2>8. Len(p) = Len(x) + 1 /\ Len(q) = Len(y) + 1
    BY <2>1
  <2> HIDE DEF p, q
  <2>7. Len(q) - Len(p) = Len(y) - Len(x) /\ Len(p) <= Len(q)
    BY <2>1, <2>3, <2>8
  <2>5. Ends(p, q)
    BY <2>4, <2>7, <2>8 DEF Ends
  <2>6. QED
    BY <2>5 DEF p, q
<1>4. QED
  BY <1>1, <1>2, <1>3

LEMMA LengthAppend ==
    ASSUME NEW E, NEW s \in Seq(E), NEW e \in E
    PROVE  Len(Spoken(Append(s, e)))
               = IF e.system THEN Len(Spoken(s)) ELSE Len(Spoken(s)) + 1
<1>1. Spoken(s) \in Seq(E)
  BY SpokenSeq
<1>2. Spoken(Append(s, e)) = IF e.system THEN Spoken(s) ELSE Append(Spoken(s), e)
  BY SpokenAppend
<1>3. QED
  BY <1>1, <1>2

\* A write leaves the log on disk as the one held, or failed, or is not made.
LEMMA WriteKeeps ==
    ASSUME LogInv, WriteChatFile(cache')
    PROVE  file' # Garbage /\ ~failed' => file' = cache'
  BY DEF LogInv, WriteChatFile

\* HistoryManager::append(), of an entry that the new row is like.
LEMMA AppendWhole ==
    ASSUME ChatTimelineAssumption, LogInv, NEW e \in Tallies, HistoryAppend(e),
           rows' \in Seq(Tallies), Alike(Append(rows, e), rows')
    PROVE  /\ file' # Garbage /\ ~failed' => file' = cache'
           /\ ~missed' => Whole'
<1>1. CASE ~saving
  BY <1>1 DEF HistoryAppend, LogInv
<1>2. CASE saving
  <2> DEFINE w == Stored(e)
             c == Append(cache, w)
             a == Append(rows, w)
  <2>1. cache' = Trim(c) /\ WriteChatFile(cache') /\ missed' = missed
    BY <1>2 DEF HistoryAppend
  <2>2. w \in Tallies /\ w.system = e.system /\ Like(w, e)
    BY StoredLike
  <2> HIDE DEF w
  <2>3. rows \in Seq(Tallies) /\ cache \in Seq(Tallies)
    BY DEF LogInv, RowsTyped
  <2>4. /\ a \in Seq(Tallies) /\ c \in Seq(Tallies)
        /\ Len(a) = Len(rows) + 1 /\ Len(c) = Len(cache) + 1
        /\ Len(rows) \in Nat /\ Len(cache) \in Nat
    BY <2>2, <2>3
  <2>5. Alike(a, rows')
    <3>1. /\ Append(rows, e) \in Seq(Tallies)
          /\ Len(Append(rows, e)) = Len(rows) + 1
      BY <2>3
    <3>2. ASSUME NEW i \in 1..Len(a)
          PROVE  a[i].system = rows'[i].system /\ Like(a[i], rows'[i])
      <4>1. a[i].system = Append(rows, e)[i].system /\ Like(a[i], Append(rows, e)[i])
        <5>1. CASE i = Len(rows) + 1
          BY <2>2, <2>3, <2>4, <5>1
        <5>2. CASE i # Len(rows) + 1
          <6>1. i \in 1..Len(rows)
            BY <2>4, <5>2
          <6>2. a[i] = rows[i] /\ Append(rows, e)[i] = rows[i]
            BY <2>2, <2>3, <6>1
          <6>3. QED
            BY <6>2 DEF Like
        <5>3. QED
          BY <5>1, <5>2
      <4>2. /\ Append(rows, e)[i].system = rows'[i].system
            /\ Like(Append(rows, e)[i], rows'[i])
        BY <2>4, <3>1 DEF Alike
      <4>3. QED
        BY <4>1, <4>2, LikeTrans
    <3>3. QED
      BY <2>4, <3>1, <3>2 DEF Alike
  <2>6. file' # Garbage /\ ~failed' => file' = cache'
    BY <2>1, WriteKeeps
  <2>7. ASSUME ~missed PROVE Whole'
    <3>1. /\ Len(cache) <= Len(rows) /\ Ends(Spoken(cache), Spoken(rows))
          /\ Len(rows) <= MaxMessages => Len(Spoken(cache)) = Len(Spoken(rows))
      BY <2>7 DEF LogInv, Whole
    <3>2. Ends(Spoken(c), Spoken(a))
      BY <2>2, <2>3, <3>1, EndsAppend
    <3>3. Ends(Spoken(Trim(c)), Spoken(c)) /\ Trim(c) \in Seq(Tallies)
      BY <2>4, EndsTrim, TrimIs
    <3>4. Ends(Spoken(a), Spoken(rows'))
      BY <2>4, <2>5, EndsAlike
    <3>5. /\ Spoken(c) \in Seq(Tallies) /\ Spoken(a) \in Seq(Tallies)
          /\ Spoken(Trim(c)) \in Seq(Tallies) /\ Spoken(rows') \in Seq(Tallies)
      BY <2>4, <3>3, SpokenSeq
    <3>6. Ends(Spoken(cache'), Spoken(rows'))
      <4> DEFINE p == Spoken(Trim(c))
                 q == Spoken(c)
                 r == Spoken(a)
                 s == Spoken(rows')
      <4>1. p \in Seq(Tallies) /\ q \in Seq(Tallies) /\ r \in Seq(Tallies)
            /\ s \in Seq(Tallies) /\ Ends(p, q) /\ Ends(q, r) /\ Ends(r, s)
        BY <3>2, <3>3, <3>4, <3>5
      <4>2. Spoken(cache') = p /\ Spoken(rows') = s
        BY <2>1
      <4> HIDE DEF p, q, r, s
      <4>3. Ends(p, r)
        BY <4>1, EndsTrans
      <4>4. Ends(p, s)
        BY <4>1, <4>3, EndsTrans
      <4>5. QED
        BY <4>2, <4>4
    <3>7. Len(rows') = Len(rows) + 1
      BY <2>4, <2>5 DEF Alike
    <3>8. Len(Trim(c)) = IF Len(c) > MaxMessages THEN MaxMessages ELSE Len(c)
      BY <2>4, TrimIs
    <3>9. MaxMessages \in Nat
      BY DEF ChatTimelineAssumption
    <3> HIDE DEF a, c
    <3>10. Len(cache') <= Len(rows')
      BY <2>1, <2>4, <3>1, <3>7, <3>8, <3>9
    <3>11. ASSUME Len(rows') <= MaxMessages
           PROVE  Len(Spoken(cache')) = Len(Spoken(rows'))
      <4>1. Len(rows) <= MaxMessages /\ ~(Len(c) > MaxMessages)
        BY <2>4, <3>1, <3>7, <3>9, <3>11
      <4>2. Trim(c) = c
        BY <4>1 DEF Trim
      <4>3. Len(Spoken(c)) = Len(Spoken(a))
        BY <2>2, <2>3, <3>1, <4>1, LengthAppend DEF a, c
      <4>4. Len(Spoken(a)) = Len(Spoken(rows'))
        BY <2>4, <2>5, SpokenAlike
      <4>5. QED
        BY <2>1, <4>2, <4>3, <4>4
    <3>12. QED
      BY <3>6, <3>10, <3>11 DEF Whole
  <2>8. QED
    BY <2>1, <2>6, <2>7
<1>3. QED
  BY <1>1, <1>2

\* HistoryManager::replaceAll(), with what is spoken in the rows.
LEMMA ReplaceWhole ==
    ASSUME ChatTimelineAssumption, LogInv, rows' \in Seq(Tallies),
           ReplaceLog(Spoken(rows'))
    PROVE  /\ file' # Garbage /\ ~failed' => file' = cache'
           /\ ~missed' => Whole'
<1>1. CASE ~saving
  BY <1>1 DEF ReplaceLog, LogInv
<1>2. CASE saving
  <2> DEFINE m == Spoken(rows')
             t == Trim(m)
             c == [i \in DOMAIN t |-> Stored(t[i])]
  <2>1. cache' = c /\ WriteChatFile(cache')
    BY <1>2 DEF ReplaceLog
  <2>2. m \in Seq(Tallies) /\ Len(m) <= Len(rows') /\ Len(m) \in Nat
        /\ Len(rows') \in Nat /\ \A i \in 1..Len(m) : ~m[i].system
    BY SpokenSeq, SpokenOnly
  <2> HIDE DEF m
  <2>3. /\ t \in Seq(Tallies)
        /\ Len(t) = IF Len(m) > MaxMessages THEN MaxMessages ELSE Len(m)
        /\ \A k \in 1..Len(t) : t[k] = m[Len(m) - Len(t) + k]
    BY <2>2, TrimIs
  <2>4. MaxMessages \in Nat
    BY DEF ChatTimelineAssumption
  <2> HIDE DEF t
  <2>5. Len(t) \in Nat /\ Len(t) <= Len(m) /\ DOMAIN t = 1..Len(t)
    BY <2>2, <2>3, <2>4
  <2>6. ASSUME NEW k \in 1..Len(t)
        PROVE  /\ c[k] \in Tallies /\ ~c[k].system
               /\ Like(c[k], m[Len(m) - Len(t) + k])
    <3>1. t[k] \in Tallies /\ c[k] = Stored(t[k])
      BY <2>3, <2>5
    <3>2. c[k] \in Tallies /\ c[k].system = t[k].system /\ Like(c[k], t[k])
      BY <3>1, StoredLike
    <3>3. Len(m) - Len(t) + k \in 1..Len(m)
      BY <2>2, <2>5
    <3>4. QED
      BY <2>2, <2>3, <3>2, <3>3
  <2>7. c \in Seq(Tallies) /\ Len(c) = Len(t)
    BY <2>5, <2>6
  <2> HIDE DEF c
  <2>8. Spoken(c) = c
    BY <2>6, <2>7, SpokenWhole
  <2>9. Ends(c, m)
    BY <2>5, <2>6, <2>7 DEF Ends
  <2>10. Len(c) <= Len(rows')
         /\ (Len(rows') <= MaxMessages => Len(c) = Len(m))
    BY <2>2, <2>3, <2>4, <2>5, <2>7
  <2>11. Whole'
    BY <2>1, <2>8, <2>9, <2>10 DEF Whole, m
  <2>12. QED
    BY <2>1, <2>11, WriteKeeps
<1>3. QED
  BY <1>1, <1>2
-----------------------------------------------------------------------------
LEMMA AlikeSame ==
    ASSUME NEW E, NEW s \in Seq(E), NEW t \in Seq(E), Len(s) = Len(t), NEW m,
           \A i \in 1..Len(s) : i # m => t[i] = s[i],
           m \in 1..Len(s) => t[m].system = s[m].system /\ Like(s[m], t[m])
    PROVE  Alike(s, t)
<1>1. ASSUME NEW i \in 1..Len(s)
      PROVE  s[i].system = t[i].system /\ Like(s[i], t[i])
  <2>1. CASE i = m
    BY <2>1
  <2>2. CASE i # m
    <3>1. t[i] = s[i]
      BY <2>2
    <3>2. QED
      BY <3>1 DEF Like
  <2>3. QED
    BY <2>1, <2>2
<1>2. QED
  BY <1>1 DEF Alike

\* The new row of a LAN chat, whose hourglass may be gone already.
LEMMA SendAlike ==
    ASSUME ChatTimelineAssumption, RowsTyped, NEW kind, NEW sent, Send(kind, sent)
    PROVE  \E e \in Tallies : /\ e.own /\ HistoryAppend(e)
                              /\ Alike(Append(rows, e), rows')
<1> DEFINE e == [Entry(clock, 0, TRUE, kind) EXCEPT !.pending = TRUE]
           all == Append(rows, e)
           at == {i \in DOMAIN all : all[i].id = clock}
<1>1. Entry(clock, 0, TRUE, kind) \in Tallies
  BY EntryTallied DEF RowsTyped
<1>2. e \in Tallies /\ e.id = clock /\ e.own
  BY <1>1, PendingTallied DEF Entry, Tallies, Row
<1>3. rows' = IF sent THEN [all EXCEPT ![Min(at)].pending = FALSE] ELSE all
  BY DEF Send, MarkSent
<1>4. HistoryAppend(e)
  BY DEF Send
<1> HIDE DEF e
<1>5. all \in Seq(Tallies) /\ all[Len(rows) + 1] = e /\ Len(all) = Len(rows) + 1
      /\ Len(rows) \in Nat
  BY <1>2 DEF RowsTyped
<1> HIDE DEF all
<1>6. at \in SUBSET Nat /\ Len(rows) + 1 \in at
  BY <1>2, <1>5
<1>7. Min(at) \in at
  BY <1>6, LeastIs
<1>8. all[Min(at)] \in Tallies /\ Min(at) \in DOMAIN all
  BY <1>5, <1>7
<1> HIDE DEF at
<1> DEFINE m == Min(at)
           p == [all[m] EXCEPT !.pending = FALSE]
<1>9. p.system = all[m].system /\ Like(all[m], p) /\ m \in DOMAIN all /\ p \in Tallies
  BY <1>8, PendingTallied DEF Like, Tallies, Row
<1>10. [all EXCEPT ![m].pending = FALSE] = [all EXCEPT ![m] = p]
  OBVIOUS
<1> HIDE DEF m, p
<1> DEFINE t == [all EXCEPT ![m] = p]
<1>11. t \in Seq(Tallies) /\ Len(t) = Len(all) /\ t[m] = p
       /\ \A i \in 1..Len(all) : i # m => t[i] = all[i]
  BY <1>5, <1>9
<1>12. rows' = IF sent THEN t ELSE all
  BY <1>3, <1>10 DEF m
<1> HIDE DEF t
<1>13. Alike(all, t)
  BY <1>5, <1>9, <1>11, AlikeSame
<1>14. Alike(all, all)
  BY <1>5, AlikeSame
<1>15. Alike(all, rows')
  BY <1>12, <1>13, <1>14
<1>16. QED
  BY <1>2, <1>4, <1>15 DEF all

LEMMA ReceiveAlike ==
    ASSUME ChatTimelineAssumption, RowsTyped, NEW kind, NEW d \in Delays, NEW b,
           Receive(kind, d, b)
    PROVE  \E e \in Tallies, drawn \in Tallies :
               AppendEntry(e, drawn, b) /\ drawn.system = e.system /\ Like(e, drawn)
<1> DEFINE e == Entry(clock, clock - d, FALSE, kind)
<1>1. clock \in Nat /\ clock - d \in Nat
  BY DEF Receive, RowsTyped, ChatTimelineAssumption
<1>2. e \in Tallies
  BY <1>1, EntryTallied
<1>3. AppendEntry(e, e, b)
  BY DEF Receive
<1> HIDE DEF e
<1>4. QED
  BY <1>2, <1>3 DEF Like

LEMMA IngestAlike ==
    ASSUME ChatTimelineAssumption, RowsTyped, NEW event \in Events, NEW b,
           Ingest(event, b)
    PROVE  \E e \in Tallies, drawn \in Tallies :
               AppendEntry(e, drawn, b) /\ drawn.system = e.system /\ Like(e, drawn)
<1> DEFINE n == Entry(event, 0, Author[event] = "me", Kind[event])
           e == [n EXCEPT !.read = (Author[event] = "me")]
           drawn == IF e.poll THEN Replayed(e) ELSE e
<1>1. n \in Tallies
  BY EntryTallied
<1>2. AppendEntry(e, drawn, b)
  BY DEF Ingest
<1> HIDE DEF n
<1>3. /\ e \in Row /\ e.counts = n.counts /\ e.total = n.total
      /\ e.myVotes = n.myVotes /\ e.voters = n.voters
  BY <1>1 DEF Tallies, Row
<1> HIDE DEF e
<1>4. e \in Tallies
  BY <1>1, <1>3, TalliedAlike
<1>5. drawn \in Tallies /\ drawn.system = e.system /\ Like(e, drawn)
  BY <1>4, ReplayedTallied DEF Same, Like
<1> HIDE DEF drawn
<1>6. QED
  BY <1>2, <1>4, <1>5

LEMMA AppendEntryAlike ==
    ASSUME RowsTyped, NEW e \in Tallies, NEW drawn \in Tallies,
           drawn.system = e.system, Like(e, drawn), NEW b, AppendEntry(e, drawn, b)
    PROVE  /\ rows' \in Seq(Tallies) /\ Alike(Append(rows, e), rows')
           /\ HistoryAppend(e)
<1> DEFINE s == Append(rows, e)
           t == Append(rows, drawn)
<1>1. rows' = t /\ HistoryAppend(e)
  BY DEF AppendEntry
<1>2. rows \in Seq(Tallies)
  BY DEF RowsTyped
<1>3. /\ s \in Seq(Tallies) /\ t \in Seq(Tallies) /\ Len(s) = Len(t)
      /\ Len(s) = Len(rows) + 1 /\ Len(rows) \in Nat
      /\ s[Len(rows) + 1] = e /\ t[Len(rows) + 1] = drawn
  BY <1>2
<1>4. ASSUME NEW i \in 1..Len(s), i # Len(rows) + 1 PROVE t[i] = s[i]
  <2>1. i \in 1..Len(rows)
    BY <1>3, <1>4
  <2>2. QED
    BY <1>2, <2>1
<1> HIDE DEF s, t
<1>5. Alike(s, t)
  <2> DEFINE m == Len(rows) + 1
  <2>1. m \in 1..Len(s) => t[m].system = s[m].system /\ Like(s[m], t[m])
    BY <1>3
  <2>2. \A i \in 1..Len(s) : i # m => t[i] = s[i]
    BY <1>4
  <2> HIDE DEF m
  <2>3. QED
    BY <1>3, <2>1, <2>2, AlikeSame
<1>6. QED
  BY <1>1, <1>3, <1>5 DEF s

\* A vote changes no text and no author.
LEMMA VoteAlike ==
    ASSUME ChatTimelineAssumption, RowsTyped, NEW event \in Events,
           NEW a \in Answers \cup {Strange}, NEW v \in Voters,
           ApplyPollResponse(event, a, v)
    PROVE  rows' \in Seq(Tallies) /\ Alike(rows, rows')
<1> DEFINE row == RowForMsgId(event)
<1>0. rows \in Seq(Tallies)
  BY DEF RowsTyped
<1>1. CASE row = 0
  <2>1. rows' = rows
    BY <1>1 DEF ApplyPollResponse
  <2>2. QED
    BY <1>0, <2>1, AlikeSame
<1>2. CASE row # 0
  <2> DEFINE w == Voted(rows[row], a, v)
  <2>1. row \in DOMAIN rows
    BY <1>2, RowForIs
  <2>2. rows[row] \in Tallies
    BY <2>1 DEF RowsTyped
  <2>3. w \in Tallies /\ w.system = rows[row].system /\ Like(rows[row], w)
    BY <2>2, VotedTallied DEF Same, Like
  <2>4. rows' = [rows EXCEPT ![row] = w]
    BY <1>2 DEF ApplyPollResponse, ChangeRow
  <2> HIDE DEF row, w
  <2>5. rows' \in Seq(Tallies) /\ Len(rows') = Len(rows) /\ rows'[row] = w
        /\ \A i \in 1..Len(rows) : i # row => rows'[i] = rows[i]
    BY <1>0, <2>1, <2>3, <2>4
  <2>6. QED
    BY <1>0, <2>3, <2>5, AlikeSame
<1>3. QED
  BY <1>1, <1>2

LEMMA WholeAlike ==
    ASSUME LogInv, rows' \in Seq(Tallies), Alike(rows, rows'), UNCHANGED log
    PROVE  /\ file' # Garbage /\ ~failed' => file' = cache'
           /\ ~missed' => Whole'
<1>1. cache' = cache /\ file' = file /\ failed' = failed /\ missed' = missed
  BY DEF log
<1>2. ASSUME ~missed PROVE Whole'
  <2>1. rows \in Seq(Tallies) /\ cache \in Seq(Tallies) /\ Whole
    BY <1>2 DEF LogInv, RowsTyped
  <2>2. /\ Len(Spoken(rows)) = Len(Spoken(rows')) /\ Len(rows') = Len(rows)
        /\ Ends(Spoken(rows), Spoken(rows'))
    BY <2>1, SpokenAlike, EndsAlike DEF Alike
  <2>3. /\ Spoken(rows) \in Seq(Tallies) /\ Spoken(rows') \in Seq(Tallies)
        /\ Spoken(cache) \in Seq(Tallies)
    BY <2>1, SpokenSeq
  <2>4. Ends(Spoken(cache), Spoken(rows'))
    <3> DEFINE p == Spoken(cache)
               q == Spoken(rows)
               r == Spoken(rows')
    <3>1. p \in Seq(Tallies) /\ q \in Seq(Tallies) /\ r \in Seq(Tallies)
          /\ Ends(p, q) /\ Ends(q, r)
      BY <2>1, <2>2, <2>3 DEF Whole
    <3> HIDE DEF p, q, r
    <3>2. Ends(p, r)
      BY <3>1, EndsTrans
    <3>3. QED
      BY <3>2 DEF p, r
  <2>5. QED
    BY <1>1, <2>1, <2>2, <2>4 DEF Whole
<1>3. QED
  BY <1>1, <1>2 DEF LogInv

LEMMA SpokenOfNone == Spoken(<<>>) = <<>>
  BY PickedNone DEF Spoken
-----------------------------------------------------------------------------
LEMMA LogInit == ASSUME ChatTimelineAssumption, Init PROVE LogInv
<1>1. RowsTyped
  BY RowsInit
<1>2. rows = <<>> /\ cache = <<>> /\ file \in {<<>>, Garbage}
  BY DEF Init
<1>3. Ends(<<>>, <<>>)
  BY DEF Ends
<1>4. Whole
  BY <1>2, <1>3, SpokenOfNone DEF Whole
<1>5. QED
  BY <1>1, <1>2, <1>4 DEF LogInv

LEMMA LogPersist ==
    ASSUME ChatTimelineAssumption, LogInv, RowsTyped', PersistAll PROVE LogInv'
<1>1. rows' \in Seq(Tallies)
  BY DEF RowsTyped
<1>2. QED
  BY <1>1, ReplaceWhole DEF PersistAll, LogInv

LEMMA LogAppend ==
    ASSUME ChatTimelineAssumption, LogInv, RowsTyped', NEW e \in Tallies,
           HistoryAppend(e), Alike(Append(rows, e), rows')
    PROVE  LogInv'
<1>1. rows' \in Seq(Tallies)
  BY DEF RowsTyped
<1>2. QED
  BY <1>1, AppendWhole DEF LogInv

LEMMA LogNext ==
    ASSUME ChatTimelineAssumption, LogInv, [Next]_vars PROVE LogInv'
<1>0. RowsTyped /\ RowsTyped'
  BY RowsNext DEF LogInv
<1>1. ASSUME NEW kind, NEW sent, Send(kind, sent) PROVE LogInv'
  BY <1>0, <1>1, SendAlike, LogAppend
<1>2. ASSUME NEW e \in Tallies, NEW drawn \in Tallies, NEW b,
             AppendEntry(e, drawn, b), drawn.system = e.system, Like(e, drawn)
      PROVE  LogInv'
  BY <1>0, <1>2, AppendEntryAlike, LogAppend
<1>3. ASSUME NEW kind, NEW d \in Delays, NEW b, Receive(kind, d, b) PROVE LogInv'
  BY <1>0, <1>2, <1>3, ReceiveAlike
<1>4. ASSUME NEW event \in Events, NEW b, Ingest(event, b) PROVE LogInv'
  BY <1>0, <1>2, <1>4, IngestAlike
<1>5. ASSUME NEW row, NEW text, EditMessage(row, text) PROVE LogInv'
  BY <1>0, <1>5, LogPersist DEF EditMessage
<1>6. ASSUME NEW row, DeleteMessage(row) PROVE LogInv'
  BY <1>0, <1>6, LogPersist DEF DeleteMessage
<1>7. ASSUME NEW event, NEW text, NEW b, ApplyRemoteEdit(event, text, b) PROVE LogInv'
  BY <1>0, <1>7, LogPersist DEF ApplyRemoteEdit
<1>8. CASE MarkOwnMessagesRead
  BY <1>0, <1>8, LogPersist DEF MarkOwnMessagesRead
<1>9. ASSUME NEW event \in Events, NEW a \in Answers \cup {Strange},
             NEW v \in Voters, ApplyPollResponse(event, a, v)
      PROVE  LogInv'
  <2>1. rows' \in Seq(Tallies) /\ Alike(rows, rows') /\ UNCHANGED log
    BY <1>0, <1>9, VoteAlike DEF ApplyPollResponse
  <2>2. QED
    BY <1>0, <2>1, WholeAlike DEF LogInv
<1>10. CASE ClearMessages
  <2>1. rows' = <<>> /\ ReplaceLog(<<>>)
    BY <1>10 DEF ClearMessages
  <2>2. Spoken(rows') = <<>>
    BY <2>1, SpokenOfNone
  <2>3. ReplaceLog(Spoken(rows'))
    BY <2>1, <2>2
  <2>4. rows' \in Seq(Tallies)
    BY <1>0 DEF RowsTyped
  <2>5. QED
    BY <1>0, <2>3, <2>4, ReplaceWhole DEF LogInv
<1>11. CASE Restart
  <2>1. /\ rows' = Loaded /\ cache' = Loaded /\ file' = file
    BY <1>11 DEF Restart
  <2>2. Spoken(rows') \in Seq(Tallies) /\ Len(rows') \in Nat
    BY <1>0, SpokenSeq DEF RowsTyped
  <2>3. Ends(Spoken(rows'), Spoken(rows'))
    BY <2>2 DEF Ends, Like
  <2>4. cache' = rows'
    BY <2>1
  <2>5. Whole'
    BY <2>2, <2>3, <2>4 DEF Whole
  <2>6. file' # Garbage => file' = cache'
    BY <2>1 DEF Loaded
  <2>7. QED
    BY <1>0, <2>5, <2>6 DEF LogInv
<1>12. CASE UNCHANGED <<rows, log>>
  BY <1>0, <1>12 DEF LogInv, Whole, log
<1>13. CASE SetHistorySavingEnabled
  BY <1>0, <1>13 DEF SetHistorySavingEnabled, LogInv, Whole
<1>14. CASE Tick \/ MarkAllRead \/ UNCHANGED vars
  BY <1>12, <1>14 DEF Tick, MarkAllRead, vars
<1>15. ASSUME NEW ts, NEW text, ReceiveEdit(ts, text) PROVE LogInv'
  BY <1>5, <1>15 DEF ReceiveEdit
<1>16. ASSUME NEW ts, ReceiveDelete(ts) PROVE LogInv'
  BY <1>6, <1>16 DEF ReceiveDelete
<1>17. ASSUME NEW event, RoomMessageRemoved(event) PROVE LogInv'
  BY <1>6, <1>17 DEF RoomMessageRemoved
<1>18. QED
  BY <1>1, <1>3, <1>4, <1>5, <1>6, <1>7, <1>8, <1>9, <1>10, <1>11, <1>13,
     <1>14, <1>15, <1>16, <1>17 DEF Next

\* What is kept of an entry.
LEMMA KeptAt ==
    ASSUME NEW E, NEW seq \in Seq(E)
    PROVE  /\ Spoken(seq) \in Seq(E)
           /\ KeptOf(seq) \in Seq({Kept(e) : e \in E})
           /\ Len(KeptOf(seq)) = Len(Spoken(seq))
           /\ \A i \in 1..Len(Spoken(seq)) : KeptOf(seq)[i] = Kept(Spoken(seq)[i])
<1> DEFINE s == Spoken(seq)
           k == [i \in DOMAIN s |-> Kept(s[i])]
<1>1. s \in Seq(E) /\ KeptOf(seq) = k
  BY SpokenSeq DEF KeptOf
<1> HIDE DEF s
<1>2. DOMAIN s = 1..Len(s) /\ Len(s) \in Nat /\ \A i \in 1..Len(s) : s[i] \in E
  BY <1>1
<1>3. \A i \in 1..Len(s) : k[i] = Kept(s[i]) /\ k[i] \in {Kept(e) : e \in E}
  BY <1>2
<1>4. k \in Seq({Kept(e) : e \in E}) /\ Len(k) = Len(s)
  BY <1>2, <1>3
<1> HIDE DEF k
<1>5. QED
  BY <1>1, <1>2, <1>3, <1>4 DEF s

LEMMA ReverseIs ==
    ASSUME NEW E, NEW s \in Seq(E)
    PROVE  /\ Reverse(s) \in Seq(E) /\ Len(Reverse(s)) = Len(s)
           /\ \A i \in 1..Len(s) : Reverse(s)[i] = s[Len(s) - i + 1]
  BY DEF Reverse

LEMMA SuffixIs ==
    ASSUME NEW E, NEW s \in Seq(E), NEW t \in Seq(E), Len(s) <= Len(t),
           \A k \in 1..Len(s) : s[k] = t[Len(t) - Len(s) + k]
    PROVE  IsSuffix(s, t)
<1> DEFINE p == Reverse(s)
           q == Reverse(t)
<1>1. /\ p \in Seq(E) /\ Len(p) = Len(s) /\ q \in Seq(E) /\ Len(q) = Len(t)
      /\ \A i \in 1..Len(s) : p[i] = s[Len(s) - i + 1]
      /\ \A i \in 1..Len(t) : q[i] = t[Len(t) - i + 1]
  BY ReverseIs
<1> HIDE DEF p, q
<1>2. Len(s) \in Nat /\ Len(t) \in Nat
  OBVIOUS
<1>3. ASSUME NEW i \in 1..Len(s) PROVE p[i] = q[i]
  <2>1. Len(s) - i + 1 \in 1..Len(s) /\ i \in 1..Len(t)
    BY <1>2
  <2>2. Len(t) - Len(s) + (Len(s) - i + 1) = Len(t) - i + 1
    BY <1>2
  <2>3. QED
    BY <1>1, <2>1, <2>2
<1> DEFINE r == SubSeq(q, 1, Len(p))
<1>4. r \in Seq(E) /\ Len(r) = Len(p) /\ \A i \in 1..Len(p) : r[i] = q[i]
  BY <1>1, <1>2
<1> HIDE DEF r
<1>5. p = r
  BY <1>1, <1>3, <1>4, SeqsEqual
<1>6. QED
  BY <1>1, <1>5 DEF IsSuffix, IsPrefix, p, q, r

LEMMA LikeKept == ASSUME NEW r, NEW s, Like(r, s) PROVE Kept(r) = Kept(s)
  BY DEF Like, Kept

LEMMA LogHolds == ASSUME LogInv PROVE LogIsWhole
<1> SUFFICES ASSUME ~missed, ~failed, file # Garbage
             PROVE  /\ IsSuffix(KeptOf(file), KeptOf(rows))
                    /\ Len(rows) <= MaxMessages => KeptOf(file) = KeptOf(rows)
  BY DEF LogIsWhole
<1>1. /\ file \in Seq(Tallies) /\ rows \in Seq(Tallies)
      /\ Ends(Spoken(file), Spoken(rows))
      /\ Len(rows) <= MaxMessages => Len(Spoken(file)) = Len(Spoken(rows))
  BY DEF LogInv, RowsTyped, Whole
<1> DEFINE s == Spoken(file)
           t == Spoken(rows)
           p == KeptOf(file)
           q == KeptOf(rows)
           F == {Kept(e) : e \in Tallies}
<1>2. /\ s \in Seq(Tallies) /\ p \in Seq(F) /\ Len(p) = Len(s)
      /\ \A i \in 1..Len(s) : p[i] = Kept(s[i])
  BY <1>1, KeptAt
<1>3. /\ t \in Seq(Tallies) /\ q \in Seq(F) /\ Len(q) = Len(t)
      /\ \A i \in 1..Len(t) : q[i] = Kept(t[i])
  BY <1>1, KeptAt
<1>4. Ends(s, t)
  BY <1>1
<1> HIDE DEF s, t, p, q, F
<1>5. Len(s) \in Nat /\ Len(t) \in Nat /\ Len(s) <= Len(t)
  BY <1>2, <1>3, <1>4 DEF Ends
<1>6. ASSUME NEW k \in 1..Len(p) PROVE p[k] = q[Len(q) - Len(p) + k]
  <2>1. Like(s[k], t[Len(t) - Len(s) + k])
    BY <1>2, <1>4, <1>5 DEF Ends
  <2>2. Len(t) - Len(s) + k \in 1..Len(t)
    BY <1>2, <1>5
  <2>3. QED
    BY <1>2, <1>3, <2>1, <2>2, LikeKept
<1>7. IsSuffix(p, q)
  BY <1>2, <1>3, <1>5, <1>6, SuffixIs
<1>8. ASSUME Len(s) = Len(t) PROVE p = q
  <2>1. \A k \in 1..Len(p) : Len(q) - Len(p) + k = k
    BY <1>2, <1>3, <1>5, <1>8
  <2>2. \A k \in 1..Len(p) : p[k] = q[k]
    BY <1>6, <2>1
  <2>3. QED
    BY <1>2, <1>3, <1>8, <2>2, SeqsEqual
<1>9. QED
  BY <1>1, <1>7, <1>8 DEF s, t, p, q

\* While saving is on and the last write went through, the log on disk ends as
\* the rows on the screen do: edited, read and without the deleted ones
\* (ChatModel::persistAll, HistoryManager::append, replaceAll).
THEOREM LogAlwaysWhole == Spec => []LogIsWhole
<1>1. Init => LogInv
  BY LogInit, ChatTimelineAssumption
<1>2. LogInv /\ [Next]_vars => LogInv'
  BY LogNext, ChatTimelineAssumption
<1>3. LogInv => LogIsWhole
  BY LogHolds
<1>4. QED
  BY <1>1, <1>2, <1>3, PTL DEF Spec
-----------------------------------------------------------------------------
(* The screen: the delegates the window draws, and the marker.             *)

Lines == [id : Events \cup Nat, author : BOOLEAN]
\* Does a row look the same to the reversed view.
Looks(r, s) == r.id = s.id /\ r.own = s.own /\ r.system = s.system
Framed(s, t) == Len(s) = Len(t) /\ \A i \in 1..Len(s) : Looks(s[i], t[i])
\* Delegates v of the rows s, of which those with an id of R were revealed.
Shown(v, s, R, i) ==
    /\ v[Len(s) + 1 - i].id = s[i].id
    /\ \/ s[i].id \in R
       \/ i > 1 /\ s[i - 1].id \in R
       \/ v[Len(s) + 1 - i] = Delegate(s, i)
Mirrors(v, s, R) ==
    /\ v \in Seq(Lines) /\ Len(v) = Len(s)
    /\ \A i \in 1..Len(s) : Shown(v, s, R, i)

LEMMA AlikeFramed == ASSUME NEW s, NEW t, Alike(s, t) PROVE Framed(s, t)
  BY DEF Alike, Like, Framed, Looks

LEMMA SameDelegate ==
    ASSUME NEW s, NEW t, NEW i \in Nat, NEW j \in Nat, Looks(s[i], t[j]),
           i = 1 <=> j = 1, i > 1 => Looks(s[i - 1], t[j - 1]), i >= 1, j >= 1
    PROVE  Delegate(s, i) = Delegate(t, j)
<1>1. StartsRun(s, i) = StartsRun(t, j)
  <2>1. CASE i = 1
    BY <2>1 DEF StartsRun, Looks
  <2>2. CASE i # 1
    <3>1. Looks(s[i], t[j]) /\ Looks(s[i - 1], t[j - 1]) /\ j # 1
      BY <2>2
    <3>2. QED
      BY <2>2, <3>1 DEF StartsRun, Looks
  <2>3. QED
    BY <2>1, <2>2
<1>2. QED
  BY <1>1 DEF Delegate, Looks

LEMMA DelegateTyped ==
    ASSUME NEW s \in Seq(Tallies), NEW i \in 1..Len(s) PROVE Delegate(s, i) \in Lines
<1>1. s[i] \in Tallies
  OBVIOUS
<1>2. s[i].id \in Events \cup Nat
  BY <1>1 DEF Tallies, Row
<1>3. StartsRun(s, i) \in BOOLEAN
  BY DEF StartsRun
<1>4. QED
  BY <1>2, <1>3 DEF Delegate, Lines

LEMMA ExceptIs ==
    ASSUME NEW E, NEW s \in Seq(E), NEW m \in 1..Len(s), NEW e \in E
    PROVE  /\ [s EXCEPT ![m] = e] \in Seq(E) /\ Len([s EXCEPT ![m] = e]) = Len(s)
           /\ \A k \in 1..Len(s) :
                  [s EXCEPT ![m] = e][k] = IF k = m THEN e ELSE s[k]
  OBVIOUS

\* The rows changed in what the view does not ask for.
LEMMA MirrorsFramed ==
    ASSUME NEW s \in Seq(Tallies), NEW t \in Seq(Tallies), Framed(s, t),
           NEW v, NEW R, Mirrors(v, s, R)
    PROVE  Mirrors(v, t, R)
<1>1. Len(s) = Len(t) /\ Len(s) \in Nat
  BY DEF Framed
<1>2. ASSUME NEW i \in 1..Len(t) PROVE Shown(v, t, R, i)
  <2>1. i \in Nat /\ i >= 1 /\ i \in 1..Len(s) /\ Looks(s[i], t[i])
    BY <1>1 DEF Framed
  <2>2. i > 1 => Looks(s[i - 1], t[i - 1])
    BY <1>1, <2>1 DEF Framed
  <2>3. Delegate(s, i) = Delegate(t, i)
    BY <2>1, <2>2, SameDelegate
  <2>4. Shown(v, s, R, i)
    BY <2>1 DEF Mirrors
  <2>5. QED
    BY <1>1, <2>1, <2>2, <2>3, <2>4 DEF Shown, Looks
<1>3. QED
  BY <1>1, <1>2 DEF Mirrors

\* A row behind the others is a delegate before them.
LEMMA MirrorsAppend ==
    ASSUME NEW s \in Seq(Tallies), NEW t \in Seq(Tallies), NEW e \in Tallies,
           Framed(Append(s, e), t), NEW v, NEW R, Mirrors(v, s, R)
    PROVE  Mirrors(InsertAt(v, 1, Delegate(t, Len(s) + 1)), t, R)
<1> DEFINE n == Len(s)
           d == Delegate(t, n + 1)
           w == InsertAt(v, 1, d)
           a == Append(s, e)
<1>1. /\ n \in Nat /\ Len(a) = n + 1 /\ Len(t) = n + 1
      /\ v \in Seq(Lines) /\ Len(v) = n
  BY DEF Framed, Mirrors
<1>2. d \in Lines
  BY <1>1, DelegateTyped
<1> HIDE DEF d
<1>3. /\ w \in Seq(Lines) /\ Len(w) = n + 1
      /\ \A k \in 1..n + 1 : w[k] = IF k < 1 THEN v[k]
                                    ELSE IF k = 1 THEN d ELSE v[k - 1]
  <2>1. 1 \in 1..Len(v) + 1
    BY <1>1
  <2>2. QED
    BY <1>1, <1>2, <2>1, InsertAtIs
<1>4. \A i \in 1..n : Looks(s[i], t[i])
  <2>1. \A i \in 1..n : a[i] = s[i]
    OBVIOUS
  <2> HIDE DEF a, n
  <2>2. \A i \in 1..n : Looks(a[i], t[i])
    BY <1>1 DEF Framed, a, n
  <2>3. QED
    BY <2>1, <2>2
<1> HIDE DEF w, a
<1>5. ASSUME NEW i \in 1..Len(t) PROVE Shown(w, t, R, i)
  <2>1. CASE i = n + 1
    <3>1. Len(t) + 1 - i = 1
      BY <1>1, <2>1
    <3>2. w[1] = d
      BY <1>1, <1>3
    <3>3. d = Delegate(t, i) /\ d.id = t[i].id
      BY <2>1 DEF d, Delegate
    <3>4. QED
      BY <3>1, <3>2, <3>3 DEF Shown
  <2>2. CASE i # n + 1
    <3>1. /\ i \in 1..n /\ i \in Nat /\ i >= 1
          /\ Len(t) + 1 - i \in 1..n + 1 /\ Len(t) + 1 - i # 1
          /\ ~(Len(t) + 1 - i < 1) /\ Len(t) + 1 - i - 1 = n + 1 - i
      BY <1>1, <2>2
    <3>2. w[Len(t) + 1 - i] = v[n + 1 - i]
      BY <1>3, <3>1
    <3>3. Looks(s[i], t[i]) /\ (i > 1 => Looks(s[i - 1], t[i - 1]))
      BY <1>1, <1>4, <3>1
    <3>4. Delegate(s, i) = Delegate(t, i)
      BY <3>1, <3>3, SameDelegate
    <3>5. Shown(v, s, R, i)
      BY <3>1 DEF Mirrors
    <3>6. QED
      BY <3>2, <3>3, <3>4, <3>5 DEF Shown, Looks
  <2>3. QED
    BY <2>1, <2>2
<1>6. QED
  BY <1>1, <1>3, <1>5 DEF Mirrors, w, d

\* A row is gone: its delegate too, and the author line of the row after it is
\* drawn again.
LEMMA MirrorsRemove ==
    ASSUME NEW s \in Seq(Tallies), NEW t \in Seq(Tallies), NEW row \in 1..Len(s),
           t = RemoveAt(s, row), NEW v, NEW R, Mirrors(v, s, R),
           NEW w, NEW u, u = RemoveAt(v, FromSourceRow(Len(s), row)),
           w = IF row > Len(t) THEN u
               ELSE [u EXCEPT ![FromSourceRow(Len(t), row)] = Delegate(t, row)]
    PROVE  Mirrors(w, t, R)
<1> DEFINE n == Len(s)
           c == n + 1 - row
           d == Delegate(t, row)
<1>1. /\ n \in Nat /\ row \in Nat /\ row >= 1 /\ row <= n
      /\ v \in Seq(Lines) /\ Len(v) = n /\ c \in 1..n /\ c \in Nat
  BY DEF Mirrors
<1>2. Len(t) = n - 1 /\ \A k \in 1..n - 1 : t[k] = IF k < row THEN s[k] ELSE s[k + 1]
  BY RemoveAtIs
<1>3. /\ u \in Seq(Lines) /\ Len(u) = n - 1
      /\ \A k \in 1..n - 1 : u[k] = IF k < c THEN v[k] ELSE v[k + 1]
  <2>1. u = RemoveAt(v, c) /\ c \in 1..Len(v)
    BY <1>1 DEF FromSourceRow
  <2> HIDE DEF c
  <2>2. QED
    BY <1>1, <2>1, RemoveAtIs
<1>4. /\ w \in Seq(Lines) /\ Len(w) = n - 1
      /\ \A k \in 1..n - 1 : w[k] = IF k = n - row THEN d ELSE u[k]
  <2>1. CASE row > n - 1
    <3>1. w = u
      BY <1>2, <2>1
    <3>2. \A k \in 1..n - 1 : k # n - row
      BY <1>1, <2>1
    <3> HIDE DEF d
    <3>3. QED
      BY <1>3, <3>1, <3>2
  <2>2. CASE ~(row > n - 1)
    <3>1. n - row \in 1..n - 1 /\ row \in 1..n - 1
      BY <1>1, <2>2
    <3>2. d \in Lines
      BY <1>2, <3>1, DelegateTyped
    <3>3. FromSourceRow(Len(t), row) = n - row
      BY <1>1, <1>2 DEF FromSourceRow
    <3>4. w = [u EXCEPT ![n - row] = d]
      BY <1>2, <2>2, <3>3
    <3> DEFINE m == n - row
    <3> HIDE DEF d, m
    <3>5. m \in 1..Len(u) /\ w = [u EXCEPT ![m] = d]
      BY <1>3, <3>1, <3>4 DEF m
    <3> DEFINE x == [u EXCEPT ![m] = d]
    <3>8. u \in Seq(Lines)
      BY <1>3
    <3>9. /\ x \in Seq(Lines) /\ Len(x) = Len(u)
          /\ \A k \in 1..Len(u) : x[k] = IF k = m THEN d ELSE u[k]
      BY <3>2, <3>5, <3>8, ExceptIs
    <3> HIDE DEF x
    <3>6. /\ w \in Seq(Lines) /\ Len(w) = Len(u)
          /\ \A k \in 1..Len(u) : w[k] = IF k = m THEN d ELSE u[k]
      BY <3>5, <3>9 DEF x
    <3>7. QED
      BY <1>3, <3>6 DEF m
  <2>3. QED
    BY <2>1, <2>2
<1> HIDE DEF d
<1>5. ASSUME NEW i \in 1..Len(t) PROVE Shown(w, t, R, i)
  <2> DEFINE k == Len(t) + 1 - i
  <2>0. i \in 1..n - 1 /\ i \in Nat /\ k = n - i /\ k \in 1..n - 1 /\ k \in Nat
    BY <1>1, <1>2
  <2>1. CASE i = row
    <3>1. w[k] = d
      BY <1>4, <2>0, <2>1
    <3>2. d = Delegate(t, i) /\ d.id = t[i].id
      BY <2>1 DEF d, Delegate
    <3>3. QED
      BY <3>1, <3>2 DEF Shown
  <2>2. CASE i < row
    <3>1. k # n - row /\ ~(k < c) /\ k + 1 = n + 1 - i
      BY <1>1, <2>0, <2>2
    <3>2. w[k] = v[n + 1 - i]
      BY <1>3, <1>4, <2>0, <3>1
    <3>3. t[i] = s[i] /\ (i > 1 => t[i - 1] = s[i - 1])
      BY <1>1, <1>2, <2>0, <2>2
    <3>4. Delegate(t, i) = Delegate(s, i)
      BY <2>0, <3>3, SameDelegate DEF Looks
    <3>5. Shown(v, s, R, i)
      BY <1>1, <2>0 DEF Mirrors
    <3>6. QED
      BY <3>2, <3>3, <3>4, <3>5 DEF Shown
  <2>3. CASE i > row
    <3>1. k # n - row /\ k < c /\ k = n + 1 - (i + 1)
      BY <1>1, <2>0, <2>3
    <3>2. w[k] = v[n + 1 - (i + 1)]
      BY <1>3, <1>4, <2>0, <3>1
    <3>3. /\ t[i] = s[i + 1] /\ t[i - 1] = s[i] /\ i > 1 /\ i + 1 > 1
          /\ i + 1 \in Nat /\ i + 1 \in 1..n /\ (i + 1) - 1 = i
      BY <1>1, <1>2, <2>0, <2>3
    <3>4. Delegate(t, i) = Delegate(s, i + 1)
      BY <2>0, <3>3, SameDelegate DEF Looks
    <3>5. Shown(v, s, R, i + 1)
      BY <3>3 DEF Mirrors
    <3>6. QED
      BY <3>2, <3>3, <3>4, <3>5 DEF Shown
  <2>4. QED
    BY <1>1, <2>0, <2>1, <2>2, <2>3
<1>6. QED
  BY <1>2, <1>4, <1>5 DEF Mirrors

LEMMA MirrorsDrawn ==
    ASSUME NEW s \in Seq(Tallies), NEW R PROVE Mirrors(Drawn(s), s, R)
<1> DEFINE n == Len(s)
           v == [k \in 1..n |-> Delegate(s, n + 1 - k)]
<1>1. n \in Nat /\ DOMAIN s = 1..n
  OBVIOUS
<1>2. Drawn(s) = v
  BY <1>1 DEF Drawn, FromSourceRow
<1>3. \A k \in 1..n : n + 1 - k \in 1..n
  BY <1>1
<1>4. \A k \in 1..n : Delegate(s, n + 1 - k) \in Lines
  BY <1>3, DelegateTyped
<1>5. v \in Seq(Lines) /\ Len(v) = n
  BY <1>1, <1>4
<1>6. ASSUME NEW i \in 1..n PROVE Shown(v, s, R, i)
  <2>1. n + 1 - i \in 1..n /\ n + 1 - (n + 1 - i) = i
    BY <1>1
  <2>2. v[n + 1 - i] = Delegate(s, i)
    BY <2>1
  <2>3. QED
    BY <2>2 DEF Shown, Delegate
<1>7. QED
  BY <1>2, <1>5, <1>6 DEF Mirrors
-----------------------------------------------------------------------------
\* What is counted of the rows from a place on, and the marker's promise.
Unseen(s, m) == {j \in 1..Len(s) : Counted(s[j]) /\ j >= m}
Marked(s, m, u) ==
    IF m = 0 THEN u = 0
    ELSE m \in Unseen(s, m) /\ Cardinality(Unseen(s, m)) = u

LEMMA UnseenFinite ==
    ASSUME NEW E, NEW s \in Seq(E), NEW m
    PROVE  /\ Unseen(s, m) \in SUBSET (1..Len(s)) /\ IsFiniteSet(Unseen(s, m))
           /\ Cardinality(Unseen(s, m)) \in Nat
<1>1. Unseen(s, m) \in SUBSET (1..Len(s)) /\ Len(s) \in Nat
  BY DEF Unseen
<1>2. IsFiniteSet(1..Len(s))
  BY <1>1, FS_Interval
<1>3. QED
  BY <1>1, <1>2, FS_Subset, FS_CardinalityType

LEMMA MarkedFramed ==
    ASSUME NEW s, NEW t, Framed(s, t), NEW m, NEW u, Marked(s, m, u)
    PROVE  Marked(t, m, u)
<1>1. ASSUME NEW j \in 1..Len(s) PROVE Counted(s[j]) <=> Counted(t[j])
  BY DEF Framed, Looks, Counted
<1>2. Unseen(s, m) = Unseen(t, m)
  BY <1>1 DEF Unseen, Framed
<1>3. QED
  BY <1>2 DEF Marked

LEMMA UnseenAppend ==
    ASSUME NEW E, NEW s \in Seq(E), NEW e \in E, NEW t, Framed(Append(s, e), t),
           NEW m \in Nat, m <= Len(s) + 1
    PROVE  Unseen(t, m) = IF Counted(e) THEN Unseen(s, m) \cup {Len(s) + 1}
                          ELSE Unseen(s, m)
<1> DEFINE n == Len(s)
           a == Append(s, e)
<1>1. n \in Nat /\ Len(a) = n + 1 /\ a[n + 1] = e /\ \A j \in 1..n : a[j] = s[j]
  OBVIOUS
<1> HIDE DEF a
<1>2. Len(t) = n + 1 /\ \A j \in 1..n + 1 : Counted(a[j]) <=> Counted(t[j])
  BY <1>1 DEF Framed, Looks, Counted, a
<1> HIDE DEF n
<1>3. ASSUME NEW j
      PROVE  j \in Unseen(t, m) <=>
                 \/ j \in 1..n /\ Counted(s[j]) /\ j >= m
                 \/ j = n + 1 /\ Counted(e)
  <2>1. j \in Unseen(t, m) <=> j \in 1..n + 1 /\ Counted(t[j]) /\ j >= m
    BY <1>2 DEF Unseen
  <2>2. j \in 1..n + 1 <=> j \in 1..n \/ j = n + 1
    BY <1>1
  <2>3. j \in 1..n => (Counted(t[j]) <=> Counted(s[j]))
    BY <1>1, <1>2
  <2>4. j = n + 1 => (Counted(t[j]) <=> Counted(e)) /\ j >= m
    BY <1>1, <1>2 DEF n
  <2>5. QED
    BY <2>1, <2>2, <2>3, <2>4
<1>4. QED
  BY <1>3 DEF Unseen, n

\* A message that counts stands below the marker, or is the first to.
LEMMA MarkedAppend ==
    ASSUME NEW E, NEW s \in Seq(E), NEW e \in E, NEW t, Framed(Append(s, e), t),
           NEW m \in Nat, NEW u \in Nat, Marked(s, m, u)
    PROVE  /\ ~Counted(e) => Marked(t, m, u)
           /\ Counted(e) => Marked(t, IF m = 0 THEN Len(s) + 1 ELSE m, u + 1)
<1> DEFINE n == Len(s)
<1>1. n \in Nat /\ n + 1 # 0 /\ n + 1 \in Nat
  OBVIOUS
<1>2. m <= n + 1
  BY <1>1, UnseenFinite DEF Marked
<1>3. ~Counted(e) => Marked(t, m, u)
  BY <1>2, UnseenAppend DEF Marked
<1>4. ASSUME Counted(e), m = 0 PROVE Marked(t, n + 1, u + 1)
  <2>1. Unseen(t, n + 1) = Unseen(s, n + 1) \cup {n + 1}
    BY <1>1, <1>4, UnseenAppend
  <2>2. Unseen(s, n + 1) = {}
    BY <1>1 DEF Unseen
  <2>3. IsFiniteSet({}) /\ Cardinality({}) = 0 /\ n + 1 \notin {}
    BY FS_EmptySet
  <2>4. Cardinality({} \cup {n + 1}) = 0 + 1
    BY <2>3, FS_AddElement
  <2>5. Unseen(t, n + 1) = {} \cup {n + 1}
    BY <2>1, <2>2
  <2>6. u = 0
    BY <1>4 DEF Marked
  <2> HIDE DEF n
  <2>7. QED
    BY <1>1, <2>4, <2>5, <2>6 DEF Marked
<1>5. ASSUME Counted(e), m # 0 PROVE Marked(t, m, u + 1)
  <2>1. Unseen(t, m) = Unseen(s, m) \cup {n + 1}
    BY <1>2, <1>5, UnseenAppend
  <2>2. n + 1 \notin Unseen(s, m) /\ IsFiniteSet(Unseen(s, m))
    BY <1>1, UnseenFinite
  <2>3. Cardinality(Unseen(t, m)) = Cardinality(Unseen(s, m)) + 1
    BY <2>1, <2>2, FS_AddElement
  <2>4. QED
    BY <1>5, <2>1, <2>3 DEF Marked
<1>6. QED
  BY <1>3, <1>4, <1>5

\* Sets of one size.
LEMMA SameSize ==
    ASSUME NEW S, NEW T, IsFiniteSet(S), NEW f \in [S -> T],
           \A a, b \in S : f[a] = f[b] => a = b,
           \A c \in T : \E a \in S : f[a] = c
    PROVE  Cardinality(T) = Cardinality(S)
<1>1. f \in Bijection(S, T)
  BY DEF Bijection, Injection, Surjection, IsInjective
<1>2. QED
  BY <1>1, FS_Bijection DEF ExistsBijection

\* A row that was seen, or is one's own, is gone.
LEMMA MarkedRemove ==
    ASSUME NEW E, NEW s \in Seq(E), NEW row \in 1..Len(s),
           NEW m \in Nat, NEW u \in Nat, Marked(s, m, u),
           m = 0 \/ row < m \/ s[row].own
    PROVE  Marked(RemoveAt(s, row), IF row < m THEN m - 1 ELSE m, u)
<1> DEFINE n == Len(s)
           t == RemoveAt(s, row)
           S == Unseen(s, m)
           to(j) == IF j < row THEN j ELSE j - 1
           T == Unseen(t, to(m))
<1>1. n \in Nat /\ row \in Nat /\ 1 <= row /\ row <= n
  OBVIOUS
<1>2. Len(t) = n - 1 /\ \A k \in 1..n - 1 : t[k] = IF k < row THEN s[k] ELSE s[k + 1]
  BY RemoveAtIs
<1>3. CASE m = 0
  BY <1>1, <1>3 DEF Marked
<1>4. CASE m # 0
  <2>1. m \in S /\ Cardinality(S) = u
    BY <1>4 DEF Marked
  <2>2. IsFiniteSet(S) /\ S \in SUBSET (1..n)
    BY UnseenFinite
  <2>3. row \notin S
    BY <1>1, <1>4, <2>1 DEF Unseen, Counted
  <2>4. m # row /\ m \in 1..n
    BY <2>1, <2>2, <2>3
  <2> HIDE DEF t
  <2>5. ASSUME NEW j \in S PROVE to(j) \in T
    <3>1. j \in 1..n /\ j # row /\ j >= m /\ Counted(s[j])
      BY <2>2, <2>3 DEF Unseen
    <3>2. to(j) \in 1..n - 1 /\ to(j) >= to(m)
      BY <1>1, <2>4, <3>1
    <3>3. t[to(j)] = s[j]
      BY <1>1, <1>2, <3>1
    <3> HIDE DEF to
    <3>4. QED
      BY <1>2, <3>1, <3>2, <3>3 DEF Unseen
  <2>6. ASSUME NEW k \in T PROVE \E j \in S : to(j) = k
    <3> DEFINE j == IF k < row THEN k ELSE k + 1
    <3>1. k \in 1..n - 1 /\ k >= to(m) /\ Counted(t[k])
      BY <1>2 DEF Unseen
    <3>2. j \in 1..n /\ to(j) = k /\ j >= m
      BY <1>1, <2>4, <3>1
    <3>3. t[k] = s[j]
      BY <1>2, <3>1
    <3>4. j \in S
      BY <3>1, <3>2, <3>3 DEF Unseen
    <3>5. QED
      BY <3>2, <3>4
  <2> DEFINE f == [j \in S |-> to(j)]
  <2>7. f \in [S -> T]
    BY <2>5
  <2>8. ASSUME NEW a \in S, NEW b \in S, f[a] = f[b] PROVE a = b
    BY <1>1, <2>2, <2>3, <2>8
  <2>9. \A k \in T : \E j \in S : f[j] = k
    BY <2>6
  <2>10. to(m) \in T
    BY <2>1, <2>5
  <2>11. to(m) # 0 /\ to(m) = IF row < m THEN m - 1 ELSE m
    BY <1>1, <2>4
  <2> HIDE DEF S, T, f, to
  <2>12. Cardinality(T) = Cardinality(S)
    BY <2>2, <2>7, <2>8, <2>9, SameSize
  <2>13. Marked(t, to(m), u)
    BY <2>1, <2>10, <2>11, <2>12 DEF Marked, T
  <2>14. QED
    BY <2>11, <2>13 DEF t
<1>5. QED
  BY <1>3, <1>4

\* A notice that was seen, or is one's own, has its text now.
LEMMA MarkedRevealed ==
    ASSUME NEW E, NEW s \in Seq(E), NEW t, Len(t) = Len(s), NEW row \in 1..Len(s),
           NEW m \in Nat, NEW u, Marked(s, m, u), m = 0 \/ row < m \/ s[row].own,
           t[row].own = s[row].own,
           s[row].system,
           \A i \in 1..Len(s) : i # row => t[i] = s[i]
    PROVE  Marked(t, m, u)
<1>1. CASE m = 0
  BY <1>1 DEF Marked
<1>2. CASE m # 0
  <2>1. ASSUME NEW j \in 1..Len(s), j >= m PROVE Counted(t[j]) <=> Counted(s[j])
    <3>1. CASE j # row
      BY <3>1
    <3>2. CASE j = row
      BY <1>2, <2>1, <3>2 DEF Counted
    <3>3. QED
      BY <3>1, <3>2
  <2>2. Unseen(t, m) = Unseen(s, m)
    BY <2>1 DEF Unseen
  <2>3. QED
    BY <2>2 DEF Marked
<1>3. QED
  BY <1>1, <1>2

\* The row the window puts the marker above is the one it should be.
LEMMA MarkedHonest ==
    ASSUME NEW E, rows \in Seq(E), mark \in Nat, unread \in Nat,
           Marked(rows, mark, unread)
    PROVE  FirstUnreadRow = mark
<1> DEFINE counted == {i \in DOMAIN rows : ~rows[i].own /\ ~rows[i].system}
           newest == {i \in counted :
                         Cardinality({j \in counted : j >= i}) <= unread}
<1>1. FirstUnreadRow = IF newest = {} THEN 0 ELSE Min(newest)
  BY DEF FirstUnreadRow
<1>2. /\ counted \in SUBSET Nat /\ \A i \in counted : i # 0
      /\ \A i : {j \in counted : j >= i} = Unseen(rows, i)
  BY DEF Unseen, Counted
<1>3. \A i : IsFiniteSet(Unseen(rows, i)) /\ Cardinality(Unseen(rows, i)) \in Nat
  BY UnseenFinite
<1>4. \A i : Unseen(rows, i) = {j \in counted : j >= i}
  BY <1>2
<1>5. \A i : i \in newest <=> i \in counted /\ Cardinality(Unseen(rows, i)) <= unread
  BY <1>2
<1> HIDE DEF newest, counted
<1>6. CASE mark = 0
  <2>1. unread = 0
    BY <1>6 DEF Marked
  <2>2. ASSUME NEW i \in newest PROVE FALSE
    <3>1. i \in counted /\ Cardinality(Unseen(rows, i)) <= 0
      BY <1>5, <2>1
    <3>2. i \in Unseen(rows, i)
      BY <1>2, <1>4, <3>1
    <3>3. Cardinality(Unseen(rows, i)) # 0
      BY <1>3, <3>2, FS_EmptySet
    <3>4. QED
      BY <1>3, <3>1, <3>3
  <2>3. QED
    BY <1>1, <1>6, <2>2
<1>7. CASE mark # 0
  <2>1. mark \in Unseen(rows, mark) /\ Cardinality(Unseen(rows, mark)) = unread
    BY <1>7 DEF Marked
  <2>2. mark \in counted
    BY <1>4, <2>1
  <2>3. mark \in newest
    BY <1>5, <2>1, <2>2
  <2>4. ASSUME NEW i \in newest, i < mark PROVE FALSE
    <3>1. i \in counted /\ i \in Nat /\ Cardinality(Unseen(rows, i)) <= unread
      BY <1>2, <1>5
    <3>2. i \in Unseen(rows, i) /\ i \notin Unseen(rows, mark)
      BY <1>4, <2>4, <3>1
    <3>3. Unseen(rows, mark) \subseteq Unseen(rows, i)
      <4>1. ASSUME NEW j \in Unseen(rows, mark) PROVE j \in Unseen(rows, i)
        <5>1. j \in counted /\ j >= mark
          BY <1>4
        <5>2. j \in Nat
          BY <1>2, <5>1
        <5>3. j >= i
          BY <2>4, <3>1, <5>1, <5>2
        <5>4. QED
          BY <1>4, <5>1, <5>3
      <4>2. QED
        BY <4>1
    <3>4. Cardinality(Unseen(rows, mark)) < Cardinality(Unseen(rows, i))
      BY <1>3, <3>2, <3>3, FS_Subset
    <3>5. QED
      BY <1>3, <2>1, <3>1, <3>4
  <2>5. newest \in SUBSET Nat
    BY <1>2, <1>5
  <2>6. Min(newest) \in newest /\ Min(newest) <= mark /\ Min(newest) \in Nat
    BY <2>3, <2>5, LeastIs
  <2>7. Min(newest) = mark
    BY <2>4, <2>6
  <2>8. QED
    BY <1>1, <2>3, <2>7
<1>8. QED
  BY <1>6, <1>7
-----------------------------------------------------------------------------
\* Counting what is spoken up to a row.
LEMMA RankIs ==
    ASSUME NEW E, NEW s \in Seq(E), NEW i \in Where(s)
    PROVE  /\ i \in 1..Len(s) /\ Rank(s, i) \in 1..Len(Spoken(s))
           /\ Spoken(s)[Rank(s, i)] = s[i]
<1> DEFINE P == Where(s)
           Q == {j \in P : j <= i}
<1>1. /\ P \in SUBSET (1..Len(s)) /\ P \in SUBSET Nat /\ IsFiniteSet(P)
      /\ Spoken(s) = Picked(s, P)
  BY WhereIs
<1>2. \A j \in P : s[j] \in E
  BY <1>1
<1>3. Len(Picked(s, P)) = Cardinality(P)
  BY <1>1, <1>2, PickedIsSeq
<1>4. Picked(s, P)[Cardinality(Q)] = s[i]
  BY <1>1, PickedAt
<1>5. Rank(s, i) = Cardinality(Q)
  <2>1. {j \in 1..i : ~s[j].system} = Q
    BY <1>1 DEF Where
  <2>2. QED
    BY <2>1 DEF Rank
<1>6. IsFiniteSet(Q) /\ Cardinality(Q) \in Nat /\ Cardinality(Q) <= Cardinality(P)
      /\ Cardinality(P) \in Nat
  BY <1>1, FS_Subset, FS_CardinalityType
<1>7. i \in Q
  BY <1>1
<1>8. Cardinality(Q) # 0
  BY <1>6, <1>7, FS_EmptySet
<1> HIDE DEF P, Q
<1>9. QED
  BY <1>1, <1>3, <1>4, <1>5, <1>6, <1>8 DEF P

LEMMA RankGrows ==
    ASSUME NEW E, NEW s \in Seq(E), NEW i \in Where(s), NEW j \in Where(s), i < j
    PROVE  Rank(s, i) < Rank(s, j)
<1> DEFINE A == {k \in 1..i : ~s[k].system}
           B == {k \in 1..j : ~s[k].system}
<1>1. i \in Nat /\ j \in Nat /\ j \in 1..Len(s) /\ ~s[j].system
  BY WhereIs DEF Where
<1>2. IsFiniteSet(1..j)
  BY <1>1, FS_Interval
<1>3. IsFiniteSet(B) /\ A \in SUBSET B /\ j \in B /\ j \notin A
  BY <1>1, <1>2, FS_Subset
<1>4. IsFiniteSet(A) /\ Cardinality(A) <= Cardinality(B) /\ A # B
      /\ (Cardinality(B) = Cardinality(A) => B = A)
  BY <1>3, FS_Subset
<1>5. Cardinality(A) \in Nat /\ Cardinality(B) \in Nat
  BY <1>3, <1>4, FS_CardinalityType
<1> HIDE DEF A, B
<1>6. Cardinality(A) < Cardinality(B)
  BY <1>4, <1>5
<1>7. QED
  BY <1>6 DEF Rank, A, B

LEMMA RankOnce ==
    ASSUME NEW E, NEW s \in Seq(E), NEW i \in Where(s), NEW j \in Where(s),
           Rank(s, i) = Rank(s, j)
    PROVE  i = j
<1>1. i \in Nat /\ j \in Nat /\ Rank(s, i) \in Nat /\ Rank(s, j) \in Nat
  BY RankIs, WhereIs
<1>2. ~(i < j) /\ ~(j < i)
  BY <1>1, RankGrows
<1>3. QED
  BY <1>1, <1>2

LEMMA RankOnto ==
    ASSUME NEW E, NEW s \in Seq(E), NEW k \in 1..Len(Spoken(s))
    PROVE  \E i \in Where(s) : Rank(s, i) = k
<1> DEFINE P == Where(s)
           T == 1..Len(Spoken(s))
           f == [i \in P |-> Rank(s, i)]
<1>1. P \in SUBSET (1..Len(s)) /\ P \in SUBSET Nat /\ IsFiniteSet(P)
      /\ Spoken(s) = Picked(s, P)
  BY WhereIs
<1>2. \A j \in P : s[j] \in E
  BY <1>1
<1>3. Len(Spoken(s)) = Cardinality(P) /\ Cardinality(P) \in Nat
  BY <1>1, <1>2, PickedIsSeq, FS_CardinalityType
<1>4. IsFiniteSet(T) /\ Cardinality(T) = Cardinality(P)
  BY <1>3, FS_Interval
<1>5. f \in [P -> T]
  BY RankIs
<1>6. ASSUME NEW a \in P, NEW b \in P, f[a] = f[b] PROVE a = b
  BY <1>6, RankOnce
<1> HIDE DEF T, f, P
<1>7. f \in Injection(P, T)
  BY <1>5, <1>6 DEF Injection, IsInjective
<1>8. f \in Surjection(P, T)
  BY <1>4, <1>7, FS_Injection
<1>9. \E i \in P : f[i] = k
  BY <1>8 DEF Surjection, T
<1>10. QED
  BY <1>9 DEF f, P

\* What is not seen, counted in what is spoken.
Heard(x, r) == {k \in 1..Len(x) : ~x[k].own /\ k >= r}

LEMMA UnseenHeard ==
    ASSUME NEW E, NEW s \in Seq(E), NEW m \in Where(s)
    PROVE  /\ Cardinality(Heard(Spoken(s), Rank(s, m))) = Cardinality(Unseen(s, m))
           /\ m \in Unseen(s, m) <=> ~Spoken(s)[Rank(s, m)].own
<1> DEFINE x == Spoken(s)
           r == Rank(s, m)
           S == Unseen(s, m)
           T == Heard(x, r)
           f == [j \in S |-> Rank(s, j)]
<1>1. /\ S \in SUBSET (1..Len(s)) /\ IsFiniteSet(S) /\ m \in Nat /\ Len(s) \in Nat
      /\ \A j \in S : j \in Where(s)
  BY UnseenFinite, WhereIs DEF Unseen, Where, Counted
<1>2. ASSUME NEW j \in S PROVE Rank(s, j) \in T
  <2>1. j \in Where(s) /\ j >= m /\ ~s[j].own /\ j \in Nat
    BY <1>1 DEF Unseen, Counted
  <2>2. Rank(s, j) \in 1..Len(x) /\ x[Rank(s, j)] = s[j] /\ r \in 1..Len(x)
    BY <2>1, RankIs
  <2>3. Rank(s, j) >= r
    <3>1. CASE j = m
      BY <2>2, <3>1
    <3>2. CASE j # m
      <4>1. m < j
        BY <1>1, <2>1, <3>2
      <4>2. r < Rank(s, j)
        BY <2>1, <4>1, RankGrows
      <4>3. r \in Int /\ Rank(s, j) \in Int
        BY <2>2
      <4> HIDE DEF r
      <4>4. QED
        BY <4>2, <4>3
    <3>3. QED
      BY <3>1, <3>2
  <2> HIDE DEF x, r
  <2>4. QED
    BY <2>1, <2>2, <2>3 DEF Heard
<1>3. ASSUME NEW k \in T PROVE \E j \in S : Rank(s, j) = k
  <2>1. k \in 1..Len(x) /\ ~x[k].own /\ k >= r
    BY DEF Heard
  <2>2. PICK j \in Where(s) : Rank(s, j) = k
    BY <2>1, RankOnto
  <2>3. x[k] = s[j] /\ j \in 1..Len(s) /\ j \in Nat /\ r \in 1..Len(x) /\ ~s[j].system
    BY <2>2, RankIs DEF Where
  <2>4. ASSUME j < m PROVE FALSE
    <3>1. Rank(s, j) < r
      BY <2>2, <2>4, RankGrows
    <3>2. r \in Int /\ k \in Int
      BY <2>1, <2>3
    <3> HIDE DEF r
    <3>3. QED
      BY <2>1, <2>2, <3>1, <3>2
  <2>5. j >= m
    BY <1>1, <2>3, <2>4
  <2>6. j \in S
    BY <2>1, <2>3, <2>5 DEF Unseen, Counted
  <2>7. QED
    BY <2>2, <2>6
<1>4. \A a, b \in S : f[a] = f[b] => a = b
  BY <1>1, RankOnce
<1>5. f \in [S -> T]
  BY <1>2
<1>6. \A k \in T : \E j \in S : f[j] = k
  BY <1>3
<1>7. m \in S <=> ~x[r].own
  <2>1. m \in 1..Len(s) /\ x[r] = s[m] /\ ~s[m].system
    BY RankIs DEF Where
  <2>2. QED
    BY <1>1, <2>1 DEF Unseen, Counted
<1> HIDE DEF S, T, f
<1>8. Cardinality(T) = Cardinality(S)
  BY <1>1, <1>4, <1>5, <1>6, SameSize
<1>9. QED
  BY <1>7, <1>8 DEF S, T

\* A log that says the same as the rows has the marker where they have it.
LEMMA MarkedLoaded ==
    ASSUME NEW E, rows \in Seq(E), NEW t \in Seq(E), mark \in Nat, NEW u \in Nat,
           Len(Spoken(t)) = Len(Spoken(rows)),
           \A k \in 1..Len(Spoken(t)) : Like(Spoken(t)[k], Spoken(rows)[k]),
           Marked(rows, mark, u)
    PROVE  MarkIn(t) \in Nat /\ Marked(t, MarkIn(t), u)
<1> DEFINE x == Spoken(rows)
           y == Spoken(t)
           r == Rank(rows, mark)
           same == {j \in DOMAIN t : ~t[j].system /\ Rank(t, j) = r}
<1>1. CASE mark = 0
  BY <1>1 DEF MarkIn, Marked
<1>2. CASE mark # 0
  <2>1. mark \in Unseen(rows, mark) /\ Cardinality(Unseen(rows, mark)) = u
    BY <1>2 DEF Marked
  <2>2. mark \in Where(rows)
    BY <2>1 DEF Unseen, Counted, Where
  <2>3. r \in 1..Len(y)
    BY <2>2, RankIs
  <2>4. PICK i \in Where(t) : Rank(t, i) = r
    BY <2>3, RankOnto
  <2>5. i \in same /\ i \in Nat /\ i # 0
    BY <2>4, RankIs, WhereIs DEF Where
  <2>6. \A j \in same : j = i
    BY <2>4, RankOnce DEF Where
  <2>7. same = {i}
    BY <2>5, <2>6
  <2>8. MarkIn(t) = Min(same)
    <3>1. same # {}
      BY <2>7
    <3>2. QED
      BY <1>2, <3>1 DEF MarkIn
  <2>9. Min({i}) = i
    <3>1. {i} \in SUBSET Nat /\ {i} # {}
      BY <2>5
    <3>2. Min({i}) \in {i}
      BY <3>1, LeastIs
    <3>3. QED
      BY <3>2
  <2>10. MarkIn(t) = i
    BY <2>7, <2>8, <2>9
  <2>11. \A k \in 1..Len(y) : y[k].own <=> x[k].own
    BY DEF Like
  <2> HIDE DEF x, y, r
  <2>12. Heard(y, r) = Heard(x, r)
    BY <2>11 DEF Heard, x, y
  <2>13. /\ Cardinality(Heard(x, r)) = Cardinality(Unseen(rows, mark))
         /\ mark \in Unseen(rows, mark) <=> ~x[r].own
    BY <2>2, UnseenHeard DEF x, r
  <2>14. /\ Cardinality(Heard(y, r)) = Cardinality(Unseen(t, i))
         /\ i \in Unseen(t, i) <=> ~y[r].own
    BY <2>4, UnseenHeard DEF y
  <2>15. QED
    BY <2>1, <2>3, <2>5, <2>10, <2>11, <2>12, <2>13, <2>14 DEF Marked
<1>3. QED
  BY <1>1, <1>2
-----------------------------------------------------------------------------
\* The delegates mirror the rows and the marker is where it belongs.
ScreenInv ==
    /\ LogInv
    /\ unread \in Nat /\ mark \in Nat /\ exact \in BOOLEAN
    /\ Mirrors(view, rows, revealed)
    /\ exact => Marked(rows, mark, unread)

LEMMA ScreenInit == ASSUME ChatTimelineAssumption, Init PROVE ScreenInv
<1>1. LogInv
  BY LogInit
<1>2. Drawn(<<>>) = <<>>
  BY DEF Drawn
<1>3. Mirrors(<<>>, <<>>, {})
  <2>1. <<>> \in Seq(Tallies)
    OBVIOUS
  <2>2. Mirrors(Drawn(<<>>), <<>>, {})
    BY <2>1, MirrorsDrawn
  <2>3. QED
    BY <1>2, <2>2
<1>4. QED
  BY <1>1, <1>3 DEF Init, ScreenInv, Marked

\* The rows look the same, and nothing else of the screen changed.
LEMMA ScreenFramed ==
    ASSUME ScreenInv, LogInv', Framed(rows, rows'),
           UNCHANGED <<unread, view, mark, exact, revealed>>
    PROVE  ScreenInv'
<1>1. rows \in Seq(Tallies) /\ rows' \in Seq(Tallies)
  BY DEF ScreenInv, LogInv, RowsTyped
<1>2. Mirrors(view, rows', revealed)
  BY <1>1, MirrorsFramed DEF ScreenInv
<1>3. exact => Marked(rows', mark, unread)
  BY MarkedFramed DEF ScreenInv
<1>4. QED
  BY <1>2, <1>3 DEF ScreenInv

LEMMA ViewInsertIs ==
    ASSUME ScreenInv, NEW first, first = Len(rows) + 1
    PROVE  ViewInsert(first) = InsertAt(view, 1, Delegate(rows', Len(rows) + 1))
<1>1. Len(rows) \in Nat
  BY DEF ScreenInv, LogInv, RowsTyped
<1>2. Len(rows) + 2 - first = 1
  BY <1>1
<1>3. QED
  BY <1>2 DEF ViewInsert

LEMMA ScreenSend ==
    ASSUME ChatTimelineAssumption, ScreenInv, LogInv', NEW kind, NEW sent,
           Send(kind, sent)
    PROVE  ScreenInv'
<1>1. RowsTyped /\ rows \in Seq(Tallies) /\ rows' \in Seq(Tallies)
  BY DEF ScreenInv, LogInv, RowsTyped
<1>2. PICK e \in Tallies : e.own /\ Alike(Append(rows, e), rows')
  BY <1>1, SendAlike
<1>3. Framed(Append(rows, e), rows')
  BY <1>2, AlikeFramed
<1>4. /\ \E all : view' = ViewInsert(Len(all)) /\ Len(all) = Len(rows) + 1
      /\ UNCHANGED <<unread, mark, exact, revealed>>
  <2> DEFINE a == [Entry(clock, 0, TRUE, kind) EXCEPT !.pending = TRUE]
  <2>1. view' = ViewInsert(Len(Append(rows, a)))
        /\ UNCHANGED <<unread, mark, exact, revealed>>
    BY DEF Send
  <2> HIDE DEF a
  <2>2. Len(Append(rows, a)) = Len(rows) + 1
    BY <1>1
  <2>3. QED
    BY <2>1, <2>2
<1>5. view' = InsertAt(view, 1, Delegate(rows', Len(rows) + 1))
  BY <1>4, ViewInsertIs
<1>6. Mirrors(view', rows', revealed')
  BY <1>1, <1>3, <1>4, <1>5, MirrorsAppend DEF ScreenInv
<1>7. exact => Marked(rows', mark, unread)
  BY <1>1, <1>2, <1>3, MarkedAppend DEF ScreenInv, Counted
<1>8. QED
  BY <1>4, <1>6, <1>7 DEF ScreenInv

LEMMA ScreenAppend ==
    ASSUME ChatTimelineAssumption, ScreenInv, LogInv', NEW e \in Tallies,
           NEW drawn \in Tallies, drawn.system = e.system, Like(e, drawn), NEW b,
           AppendEntry(e, drawn, b), UNCHANGED revealed
    PROVE  ScreenInv'
<1>1. RowsTyped /\ rows \in Seq(Tallies) /\ rows' \in Seq(Tallies)
  BY DEF ScreenInv, LogInv, RowsTyped
<1>2. Framed(Append(rows, e), rows')
  BY <1>1, AppendEntryAlike, AlikeFramed
<1>3. view' = InsertAt(view, 1, Delegate(rows', Len(rows) + 1))
  BY ViewInsertIs DEF AppendEntry
<1>4. Mirrors(view', rows', revealed')
  BY <1>1, <1>2, <1>3, MirrorsAppend DEF ScreenInv
<1>5. unread \in Nat /\ mark \in Nat /\ exact \in BOOLEAN
      /\ (exact => Marked(rows, mark, unread))
  BY DEF ScreenInv
<1>6. exact => /\ ~Counted(e) => Marked(rows', mark, unread)
               /\ Counted(e) => Marked(rows', IF mark = 0 THEN Len(rows) + 1
                                              ELSE mark, unread + 1)
  BY <1>1, <1>2, <1>5, MarkedAppend
<1>7. Len(rows') = Len(rows) + 1 /\ Len(rows) \in Nat
  BY <1>1, <1>2 DEF Framed
<1>8. CASE MarkRead
  BY <1>4, <1>8 DEF MarkRead, ScreenInv, Marked
<1>9. CASE /\ Counted(e) /\ unread' = unread + 1
           /\ mark' = (IF exact /\ mark = 0 THEN Len(rows') ELSE mark)
           /\ UNCHANGED exact
  BY <1>4, <1>5, <1>6, <1>7, <1>9 DEF ScreenInv
<1>10. CASE ~Counted(e) /\ UNCHANGED <<unread, mark, exact>>
  BY <1>4, <1>5, <1>6, <1>10 DEF ScreenInv
<1>11. QED
  BY <1>8, <1>9, <1>10 DEF AppendEntry

LEMMA ScreenDelete ==
    ASSUME ChatTimelineAssumption, ScreenInv, LogInv', NEW row \in DOMAIN rows,
           DeleteMessage(row)
    PROVE  ScreenInv'
<1>1. rows \in Seq(Tallies) /\ rows' \in Seq(Tallies) /\ row \in 1..Len(rows)
  BY DEF ScreenInv, LogInv, RowsTyped
<1>2. /\ rows' = RemoveAt(rows, row) /\ view' = ViewRemove(row)
      /\ exact' = (exact /\ (mark = 0 \/ row < mark \/ rows[row].own))
      /\ mark' = IF ~exact' THEN 0 ELSE IF row < mark THEN mark - 1 ELSE mark
      /\ UNCHANGED <<unread, revealed>>
  BY DEF DeleteMessage
<1>3. Mirrors(view', rows', revealed')
  <2> DEFINE u == RemoveAt(view, FromSourceRow(Len(rows), row))
  <2>1. view' = IF row > Len(rows') THEN u
                ELSE [u EXCEPT ![FromSourceRow(Len(rows'), row)] = Delegate(rows', row)]
    BY <1>2 DEF ViewRemove
  <2>2. Mirrors(view, rows, revealed)
    BY DEF ScreenInv
  <2>3. Mirrors(view', rows', revealed)
    BY <1>1, <1>2, <2>1, <2>2, MirrorsRemove
  <2>4. QED
    BY <1>2, <2>3
<1>4. unread \in Nat /\ mark \in Nat /\ exact \in BOOLEAN
      /\ (exact => Marked(rows, mark, unread))
  BY DEF ScreenInv
<1>5. ASSUME exact' PROVE Marked(rows', mark', unread)
  <2>1. Marked(rows, mark, unread) /\ (mark = 0 \/ row < mark \/ rows[row].own)
    BY <1>2, <1>4, <1>5
  <2>2. mark' = IF row < mark THEN mark - 1 ELSE mark
    BY <1>2, <1>5
  <2>3. Marked(RemoveAt(rows, row), IF row < mark THEN mark - 1 ELSE mark, unread)
    BY <1>1, <1>4, <2>1, MarkedRemove
  <2>4. QED
    BY <1>2, <2>2, <2>3
<1>6. mark' \in Nat /\ exact' \in BOOLEAN
  BY <1>1, <1>2, <1>4
<1>7. QED
  BY <1>2, <1>3, <1>4, <1>5, <1>6 DEF ScreenInv

LEMMA ScreenEdit ==
    ASSUME ScreenInv, LogInv', NEW row, NEW text, EditMessage(row, text)
    PROVE  ScreenInv'
<1> DEFINE r == [rows[row] EXCEPT !.text = text, !.edited = TRUE]
<1>1. rows \in Seq(Tallies)
  BY DEF ScreenInv, LogInv, RowsTyped
<1>2. rows' = [rows EXCEPT ![row] = r]
      /\ UNCHANGED <<unread, view, mark, exact, revealed>>
  BY DEF EditMessage, ChangeRow
<1>3. row \in DOMAIN rows => Looks(rows[row], r)
  BY <1>1 DEF Looks, Tallies, Row
<1> HIDE DEF r
<1>4. Len(rows') = Len(rows) /\ \A i \in 1..Len(rows) :
          rows'[i] = IF i = row THEN r ELSE rows[i]
  BY <1>1, <1>2
<1>5. Framed(rows, rows')
  BY <1>1, <1>3, <1>4 DEF Framed, Looks
<1>6. QED
  BY <1>2, <1>5, ScreenFramed

LEMMA SameLength ==
    ASSUME NEW a \in Nat, NEW b \in Nat, 1..a = 1..b PROVE a = b
<1>1. b \in 1..b \/ b = 0
  OBVIOUS
<1>2. a \in 1..a \/ a = 0
  OBVIOUS
<1>3. b <= a
  BY <1>1
<1>4. a <= b
  BY <1>2
<1>5. QED
  BY <1>3, <1>4

LEMMA ScreenRead ==
    ASSUME ScreenInv, LogInv', MarkOwnMessagesRead PROVE ScreenInv'
<1> DEFINE r(e) == [e EXCEPT !.read = TRUE, !.pending = FALSE]
<1>1. rows \in Seq(Tallies) /\ DOMAIN rows = 1..Len(rows) /\ Len(rows) \in Nat
  BY DEF ScreenInv, LogInv, RowsTyped
<1>2. rows' = [i \in DOMAIN rows |->
                  IF rows[i].own /\ ~rows[i].read THEN r(rows[i]) ELSE rows[i]]
      /\ UNCHANGED <<unread, view, mark, exact, revealed>>
  BY DEF MarkOwnMessagesRead
<1>3. ASSUME NEW e \in Tallies PROVE Looks(e, r(e)) /\ Looks(e, e)
  BY DEF Looks, Tallies, Row
<1> HIDE DEF r
<1>4. rows' \in Seq(Tallies)
  BY DEF LogInv, RowsTyped
<1>5. DOMAIN rows' = 1..Len(rows') /\ DOMAIN rows' = DOMAIN rows /\ Len(rows') \in Nat
  BY <1>2, <1>4
<1>6. Len(rows') = Len(rows)
  BY <1>1, <1>5, SameLength
<1>7. ASSUME NEW i \in 1..Len(rows) PROVE Looks(rows[i], rows'[i])
  <2>1. rows[i] \in Tallies
    BY <1>1
  <2>2. rows'[i] = r(rows[i]) \/ rows'[i] = rows[i]
    BY <1>1, <1>2
  <2>3. QED
    BY <1>3, <2>1, <2>2
<1>8. Framed(rows, rows')
  BY <1>6, <1>7 DEF Framed
<1>9. QED
  BY <1>2, <1>8, ScreenFramed

\* A notice that became a message touches its own delegate and the next.
LEMMA ScreenRemoteEdit ==
    ASSUME ScreenInv, LogInv', NEW event, NEW text, NEW b \in BOOLEAN,
           ApplyRemoteEdit(event, text, b)
    PROVE  ScreenInv'
<1> DEFINE row == RowForMsgId(event)
           e == rows[row]
           r == [e EXCEPT !.text = text, !.edited = @ \/ b, !.system = @ /\ b]
           notice == ~b /\ e.system
<1>1. RowsTyped /\ rows \in Seq(Tallies) /\ rows' \in Seq(Tallies)
  BY DEF ScreenInv, LogInv, RowsTyped
<1>2. row \in 1..Len(rows) /\ e.id = event
  <2>1. row \in DOMAIN rows /\ e.id = event
    BY <1>1, RowForIs DEF ApplyRemoteEdit
  <2>2. QED
    BY <1>1, <2>1
<1>3. /\ rows' = [rows EXCEPT ![row] = r]
      /\ revealed' = (IF notice THEN revealed \cup {event} ELSE revealed)
      /\ exact' = (exact /\ (notice => mark = 0 \/ row < mark \/ e.own))
      /\ mark' = (IF exact' THEN mark ELSE 0)
      /\ UNCHANGED <<unread, view>>
  BY DEF ApplyRemoteEdit, ChangeRow
<1> HIDE DEF row
<1>4. e \in Tallies
  BY <1>1, <1>2
<1> HIDE DEF e
<1>5. r.id = e.id /\ r.own = e.own /\ r.system = (e.system /\ b)
      /\ e.system \in BOOLEAN
  BY <1>4 DEF Tallies, Row
<1> HIDE DEF r
<1>6. Len(rows') = Len(rows) /\ rows'[row] = r
      /\ \A i \in 1..Len(rows) : i # row => rows'[i] = rows[i]
  BY <1>1, <1>2, <1>3
<1>7. unread \in Nat /\ mark \in Nat /\ exact \in BOOLEAN
      /\ (exact => Marked(rows, mark, unread)) /\ Mirrors(view, rows, revealed)
  BY DEF ScreenInv
<1>8. CASE ~notice
  <2>1. r.system = e.system
    BY <1>5, <1>8
  <2>2. Framed(rows, rows')
    BY <1>5, <1>6, <2>1 DEF Framed, Looks, e
  <2>3. Mirrors(view, rows', revealed)
    BY <1>1, <1>7, <2>2, MirrorsFramed
  <2>4. exact => Marked(rows', mark, unread)
    BY <1>7, <2>2, MarkedFramed
  <2>5. exact' = exact /\ revealed' = revealed
    BY <1>3, <1>7, <1>8
  <2>6. QED
    BY <1>3, <1>7, <2>3, <2>4, <2>5 DEF ScreenInv
<1>9. CASE notice
  <2>1. exact' = (exact /\ (mark = 0 \/ row < mark \/ e.own))
        /\ revealed' = revealed \cup {event}
    BY <1>3, <1>9
  <2>2. exact' => Marked(rows', mark, unread)
    <3>1. SUFFICES ASSUME exact' PROVE Marked(rows', mark, unread)
      OBVIOUS
    <3>2. Marked(rows, mark, unread) /\ (mark = 0 \/ row < mark \/ rows[row].own)
          /\ rows[row].system /\ rows'[row].own = rows[row].own
      BY <1>5, <1>6, <1>7, <1>9, <2>1, <3>1 DEF e
    <3>3. QED
      BY <1>1, <1>2, <1>6, <1>7, <3>2, MarkedRevealed
  <2>3. Mirrors(view', rows', revealed')
    <3>1. ASSUME NEW i \in 1..Len(rows') PROVE Shown(view', rows', revealed', i)
      <4>1. Shown(view, rows, revealed, i)
        BY <1>6, <1>7 DEF Mirrors
      <4>2. rows'[i].id = rows[i].id
        BY <1>5, <1>6 DEF e
      <4>3. i > 1 => rows'[i - 1].id = rows[i - 1].id
        <5>1. i > 1 => i - 1 \in 1..Len(rows)
          BY <1>1, <1>6
        <5>2. QED
          BY <1>5, <1>6, <5>1 DEF e
      <4>4. CASE i = row \/ (i > 1 /\ i - 1 = row)
        <5>1. rows[row].id = event
          BY <1>2 DEF e
        <5>2. rows'[i].id \in revealed' \/ (i > 1 /\ rows'[i - 1].id \in revealed')
          BY <2>1, <4>2, <4>3, <4>4, <5>1
        <5>3. QED
          BY <1>3, <1>6, <4>1, <4>2, <5>2 DEF Shown
      <4>5. CASE i # row /\ ~(i > 1 /\ i - 1 = row)
        <5>1. rows'[i] = rows[i] /\ (i > 1 => rows'[i - 1] = rows[i - 1])
          <6>1. i > 1 => i - 1 \in 1..Len(rows)
            BY <1>1, <1>6
          <6>2. QED
            BY <1>6, <4>5, <6>1
        <5>2. i \in Nat /\ i >= 1
          BY <1>1
        <5>3. Delegate(rows', i) = Delegate(rows, i)
          BY <5>1, <5>2, SameDelegate DEF Looks
        <5>4. QED
          BY <1>3, <1>6, <2>1, <4>1, <5>1, <5>3 DEF Shown
      <4>6. QED
        BY <4>4, <4>5
    <3>2. view' \in Seq(Lines) /\ Len(view') = Len(rows')
      BY <1>3, <1>6, <1>7 DEF Mirrors
    <3>3. QED
      BY <3>1, <3>2 DEF Mirrors
  <2>4. mark' = (IF exact' THEN mark ELSE 0) /\ unread' = unread
    BY <1>3
  <2>5. exact' \in BOOLEAN
    BY <1>7, <2>1
  <2>6. QED
    BY <1>7, <2>2, <2>3, <2>4, <2>5 DEF ScreenInv
<1>10. QED
  BY <1>8, <1>9

LEMMA ScreenRestart ==
    ASSUME ScreenInv, LogInv', Restart PROVE ScreenInv'
<1>1. /\ rows \in Seq(Tallies) /\ cache \in Seq(Tallies) /\ rows' \in Seq(Tallies)
      /\ unread \in Nat /\ mark \in Nat /\ exact \in BOOLEAN
      /\ (exact => Marked(rows, mark, unread))
      /\ (file # Garbage /\ ~failed => file = cache) /\ (~missed => Whole)
  BY DEF ScreenInv, LogInv, RowsTyped
<1>2. /\ rows' = Loaded /\ view' = Drawn(rows') /\ unread' = unread
      /\ exact' = (exact /\ ~missed /\ ~failed /\ file # Garbage
                         /\ Len(Spoken(rows)) <= Len(Spoken(Loaded)))
      /\ mark' = IF exact' THEN MarkIn(Loaded) ELSE 0
  BY DEF Restart
<1>3. Mirrors(view', rows', revealed')
  BY <1>1, <1>2, MirrorsDrawn
<1>4. ASSUME exact' PROVE mark' \in Nat /\ Marked(rows', mark', unread)
  <2>1. Loaded = cache /\ rows' = cache /\ Whole /\ Marked(rows, mark, unread)
        /\ Len(Spoken(rows)) <= Len(Spoken(cache))
    BY <1>1, <1>2, <1>4 DEF Loaded
  <2> DEFINE x == Spoken(cache)
             y == Spoken(rows)
  <2>2. x \in Seq(Tallies) /\ y \in Seq(Tallies) /\ Ends(x, y) /\ Len(y) <= Len(x)
    BY <1>1, <2>1, SpokenSeq DEF Whole
  <2> HIDE DEF x, y
  <2>3. Len(x) \in Nat /\ Len(y) \in Nat /\ Len(x) = Len(y)
    BY <2>2 DEF Ends
  <2>4. ASSUME NEW k \in 1..Len(x) PROVE Like(x[k], y[k])
    <3>1. Len(y) - Len(x) + k = k
      BY <2>3
    <3>2. QED
      BY <2>2, <3>1 DEF Ends
  <2>5. MarkIn(cache) \in Nat /\ Marked(cache, MarkIn(cache), unread)
    <3>1. /\ Len(Spoken(cache)) = Len(Spoken(rows))
          /\ \A k \in 1..Len(Spoken(cache)) : Like(Spoken(cache)[k], Spoken(rows)[k])
      BY <2>3, <2>4 DEF x, y
    <3>2. QED
      BY <1>1, <2>1, <3>1, MarkedLoaded
  <2>6. mark' = MarkIn(cache)
    BY <1>2, <1>4, <2>1
  <2>7. QED
    BY <2>1, <2>5, <2>6
<1>5. mark' \in Nat /\ exact' \in BOOLEAN
  BY <1>1, <1>2, <1>4
<1>6. QED
  BY <1>1, <1>2, <1>3, <1>4, <1>5 DEF ScreenInv

LEMMA ScreenNext ==
    ASSUME ChatTimelineAssumption, ScreenInv, [Next]_vars PROVE ScreenInv'
<1>0. LogInv' /\ LogInv /\ RowsTyped
  BY LogNext DEF ScreenInv, LogInv
<1>1. ASSUME NEW kind, NEW sent, Send(kind, sent) PROVE ScreenInv'
  BY <1>0, <1>1, ScreenSend
<1>2. ASSUME NEW kind, NEW d \in Delays, NEW b, Receive(kind, d, b) PROVE ScreenInv'
  BY <1>0, <1>2, ReceiveAlike, ScreenAppend DEF Receive
<1>3. ASSUME NEW event \in Events, NEW b, Ingest(event, b) PROVE ScreenInv'
  BY <1>0, <1>3, IngestAlike, ScreenAppend DEF Ingest
<1>4. ASSUME NEW row, NEW text, EditMessage(row, text) PROVE ScreenInv'
  BY <1>0, <1>4, ScreenEdit
<1>5. ASSUME NEW row \in DOMAIN rows, DeleteMessage(row) PROVE ScreenInv'
  BY <1>0, <1>5, ScreenDelete
<1>6. ASSUME NEW ts, NEW text, ReceiveEdit(ts, text) PROVE ScreenInv'
  BY <1>4, <1>6 DEF ReceiveEdit
<1>7. ASSUME NEW ts, ReceiveDelete(ts) PROVE ScreenInv'
  BY <1>0, <1>5, <1>7, RowForIs DEF ReceiveDelete, RowForStamp
<1>8. ASSUME NEW event, RoomMessageRemoved(event) PROVE ScreenInv'
  BY <1>0, <1>5, <1>8, RowForIs DEF RoomMessageRemoved
<1>9. ASSUME NEW event \in Events, NEW a \in Answers \cup {Strange},
             NEW v \in Voters, ApplyPollResponse(event, a, v)
      PROVE  ScreenInv'
  BY <1>0, <1>9, VoteAlike, AlikeFramed, ScreenFramed DEF ApplyPollResponse
<1>10. ASSUME NEW event, NEW text, NEW b \in BOOLEAN, ApplyRemoteEdit(event, text, b)
       PROVE  ScreenInv'
  BY <1>0, <1>10, ScreenRemoteEdit
<1>11. CASE MarkOwnMessagesRead
  BY <1>0, <1>11, ScreenRead
<1>12. CASE MarkAllRead
  BY <1>0, <1>12 DEF MarkAllRead, MarkRead, ScreenInv, Marked
<1>13. CASE ClearMessages
  <2>1. /\ rows' = <<>> /\ view' = <<>> /\ unread' = 0 /\ mark' = 0 /\ exact' = TRUE
    BY <1>13 DEF ClearMessages, MarkRead
  <2>2. Drawn(<<>>) = <<>> /\ <<>> \in Seq(Tallies)
    BY DEF Drawn
  <2>3. Mirrors(Drawn(<<>>), <<>>, revealed')
    BY <2>2, MirrorsDrawn
  <2>4. QED
    BY <1>0, <2>1, <2>2, <2>3 DEF ScreenInv, Marked
<1>14. CASE Restart
  BY <1>0, <1>14, ScreenRestart
<1>15. CASE Tick \/ SetHistorySavingEnabled \/ UNCHANGED vars
  BY <1>0, <1>15 DEF Tick, SetHistorySavingEnabled, vars, ScreenInv
<1>16. QED
  BY <1>1, <1>2, <1>3, <1>4, <1>5, <1>6, <1>7, <1>8, <1>9, <1>10, <1>11,
     <1>12, <1>13, <1>14, <1>15 DEF Next

LEMMA ScreenHolds == ASSUME ScreenInv PROVE ScreenTrue
<1>1. rows \in Seq(Tallies) /\ Len(rows) \in Nat /\ DOMAIN rows = 1..Len(rows)
  BY DEF ScreenInv, LogInv, RowsTyped
<1>2. ASSUME NEW k \in DOMAIN rows
      PROVE  LET i == FromSourceRow(Len(rows), k)
             IN  view[k].id = rows[i].id /\ (Touched(i) \/ view[k] = Delegate(rows, i))
  <2> DEFINE i == FromSourceRow(Len(rows), k)
  <2>1. i \in 1..Len(rows) /\ Len(rows) + 1 - i = k
    BY <1>1 DEF FromSourceRow
  <2>2. Shown(view, rows, revealed, i)
    BY <2>1 DEF ScreenInv, Mirrors
  <2> HIDE DEF i
  <2>3. view[k].id = rows[i].id /\ (Touched(i) \/ view[k] = Delegate(rows, i))
    BY <2>1, <2>2 DEF Shown, Touched
  <2>4. QED
    BY <2>3 DEF i
<1>3. ViewMirrors
  BY <1>2 DEF ViewMirrors
<1>4. MarkerHonest
  BY <1>1, MarkedHonest DEF ScreenInv, MarkerHonest
<1>5. QED
  BY <1>3, <1>4 DEF ScreenTrue

\* The window shows the rows of the model in reverse, each under its author
\* where it starts a run, and the marker above the first row that was not seen,
\* across restarts too (ReversedChatModel, ChatModel::firstUnreadRow).
THEOREM ScreenAlwaysTrue == Spec => []ScreenTrue
<1>1. Init => ScreenInv
  BY ScreenInit, ChatTimelineAssumption
<1>2. ScreenInv /\ [Next]_vars => ScreenInv'
  BY ScreenNext, ChatTimelineAssumption
<1>3. ScreenInv => ScreenTrue
  BY ScreenHolds
<1>4. QED
  BY <1>1, <1>2, <1>3, PTL DEF Spec
-----------------------------------------------------------------------------
(* The conversations beside the timeline.                                  *)

SumOn(f, S) == Fold("sum", f, 0, S)

LEMMA SumOfNone == ASSUME NEW f PROVE SumOn(f, {}) = 0
  BY FoldOfNone DEF SumOn

LEMMA SumSplits ==
    ASSUME NEW f, NEW S, IsFiniteSet(S), S # {}
    PROVE  \E c \in S : SumOn(f, S) = f[c] + SumOn(f, S \ {c})
<1>1. Foldable("sum", S)
  BY DEF Foldable
<1>2. Chosen("sum", S) \in S
  BY DEF Chosen
<1>3. QED
  BY <1>1, <1>2, FoldSplits DEF SumOn, Step

LEMMA SumIsNat ==
    ASSUME NEW f, NEW S, IsFiniteSet(S), \A x \in S : f[x] \in Nat
    PROVE  SumOn(f, S) \in Nat
<1> DEFINE G == {s \in SUBSET S : SumOn(f, s) \in Nat}
<1>1. ASSUME NEW T \in SUBSET S, \A s \in SUBSET T : s # T => s \in G
      PROVE  T \in G
  <2>1. CASE T = {}
    BY <2>1, SumOfNone
  <2>2. CASE T # {}
    <3>1. IsFiniteSet(T)
      BY FS_Subset
    <3>2. PICK c \in T : SumOn(f, T) = f[c] + SumOn(f, T \ {c})
      BY <2>2, <3>1, SumSplits
    <3>3. SumOn(f, T \ {c}) \in Nat /\ f[c] \in Nat
      BY <1>1
    <3>4. QED
      BY <3>2, <3>3
  <2>3. QED
    BY <2>1, <2>2
<1> HIDE DEF G
<1>2. S \in G
  BY <1>1, SubsetInduction
<1>3. QED
  BY <1>2 DEF G

\* Any term may be taken out of a sum.
LEMMA SumTakesOut ==
    ASSUME NEW f, NEW S, IsFiniteSet(S), \A x \in S : f[x] \in Nat, NEW y \in S
    PROVE  SumOn(f, S) = f[y] + SumOn(f, S \ {y})
<1> DEFINE G == {s \in SUBSET S :
                     \A x \in s : SumOn(f, s) = f[x] + SumOn(f, s \ {x})}
<1>1. ASSUME NEW T \in SUBSET S, \A s \in SUBSET T : s # T => s \in G
      PROVE  T \in G
  <2> SUFFICES ASSUME NEW x \in T
               PROVE  SumOn(f, T) = f[x] + SumOn(f, T \ {x})
    OBVIOUS
  <2>1. IsFiniteSet(T)
    BY FS_Subset
  <2>2. PICK c \in T : SumOn(f, T) = f[c] + SumOn(f, T \ {c})
    BY <2>1, SumSplits
  <2>3. CASE c = x
    BY <2>2, <2>3
  <2>4. CASE c # x
    <3> DEFINE rest == T \ {c}
    <3>1. /\ x \in rest /\ rest \in SUBSET T /\ rest # T
          /\ c \in T \ {x} /\ T \ {x} \in SUBSET T /\ T \ {x} # T
          /\ rest \ {x} = (T \ {x}) \ {c}
      BY <2>4
    <3>2. SumOn(f, rest) = f[x] + SumOn(f, rest \ {x})
      BY <1>1, <3>1
    <3>3. SumOn(f, T \ {x}) = f[c] + SumOn(f, (T \ {x}) \ {c})
      BY <1>1, <3>1
    <3>4. f[x] \in Nat /\ f[c] \in Nat /\ SumOn(f, rest \ {x}) \in Nat
      <4>1. IsFiniteSet(rest \ {x}) /\ rest \ {x} \subseteq S
        BY <2>1, FS_Subset
      <4>2. \A z \in rest \ {x} : f[z] \in Nat
        BY <4>1
      <4>3. QED
        BY <4>1, <4>2, SumIsNat
    <3>5. SumOn(f, rest \ {x}) = SumOn(f, (T \ {x}) \ {c})
      BY <3>1
    <3>6. SumOn(f, T) = f[c] + SumOn(f, rest)
      BY <2>2
    <3> HIDE DEF rest
    <3>7. QED
      BY <3>2, <3>3, <3>4, <3>5, <3>6
  <2>5. QED
    BY <2>3, <2>4
<1> HIDE DEF G
<1>2. S \in G
  BY <1>1, SubsetInduction
<1>3. QED
  BY <1>2 DEF G

\* What is zero adds nothing.
LEMMA SumZeros ==
    ASSUME NEW f, NEW S, IsFiniteSet(S), \A x \in S : f[x] \in Nat,
           NEW T \in SUBSET S, \A x \in S \ T : f[x] = 0
    PROVE  SumOn(f, S) = SumOn(f, T)
<1> DEFINE G == {s \in SUBSET S : T \subseteq s => SumOn(f, s) = SumOn(f, T)}
<1>1. ASSUME NEW U \in SUBSET S, \A s \in SUBSET U : s # U => s \in G
      PROVE  U \in G
  <2> SUFFICES ASSUME T \subseteq U PROVE SumOn(f, U) = SumOn(f, T)
    OBVIOUS
  <2>1. CASE T = U
    BY <2>1
  <2>2. CASE T # U
    <3>1. PICK x \in U : x \notin T
      BY <2>2
    <3>2. U \ {x} \in SUBSET U /\ U \ {x} # U /\ T \subseteq U \ {x}
      BY <3>1
    <3>3. SumOn(f, U \ {x}) = SumOn(f, T)
      BY <1>1, <3>2
    <3>4. IsFiniteSet(U) /\ IsFiniteSet(U \ {x})
          /\ (\A z \in U : f[z] \in Nat) /\ \A z \in U \ {x} : f[z] \in Nat
      BY FS_Subset
    <3>5. SumOn(f, U) = f[x] + SumOn(f, U \ {x})
      BY <3>4, SumTakesOut
    <3>6. SumOn(f, U \ {x}) \in Nat /\ f[x] = 0
      BY <3>1, <3>4, SumIsNat
    <3>7. QED
      BY <3>3, <3>5, <3>6
  <2>3. QED
    BY <2>1, <2>2
<1> HIDE DEF G
<1>2. S \in G
  BY <1>1, SubsetInduction
<1>3. QED
  BY <1>2 DEF G

\* A sum is the same under other names.
LEMMA SumRenamed ==
    ASSUME NEW g, NEW S, IsFiniteSet(S), NEW f, NEW h,
           \A x \in S : g[x] \in Nat /\ f[h[x]] = g[x],
           \A x, y \in S : h[x] = h[y] => x = y
    PROVE  SumOn(g, S) = SumOn(f, {h[x] : x \in S})
<1> DEFINE G == {s \in SUBSET S : SumOn(g, s) = SumOn(f, {h[x] : x \in s})}
<1>1. ASSUME NEW T \in SUBSET S, \A s \in SUBSET T : s # T => s \in G
      PROVE  T \in G
  <2> DEFINE A == {h[x] : x \in T}
  <2>1. CASE T = {}
    <3>1. A = {}
      BY <2>1
    <3>2. SumOn(g, {}) = 0 /\ SumOn(f, {}) = 0
      BY SumOfNone
    <3>3. QED
      BY <2>1, <3>1, <3>2
  <2>2. CASE T # {}
    <3>1. PICK c \in T : TRUE
      BY <2>2
    <3> DEFINE U == T \ {c}
               B == {h[x] : x \in U}
    <3>2. U \in SUBSET T /\ U # T /\ U \in SUBSET S /\ IsFiniteSet(T)
      BY <3>1, FS_Subset
    <3>3. B = A \ {h[c]} /\ h[c] \in A
      BY <3>1
    <3>4. SumOn(g, U) = SumOn(f, B)
      BY <1>1, <3>2
    <3>5. SumOn(g, T) = g[c] + SumOn(g, U)
      BY <3>1, <3>2, SumTakesOut
    <3>6. IsFiniteSet(A)
      <4> DEFINE m == [x \in T |-> h[x]]
      <4>1. m \in Surjection(T, A)
        BY DEF Surjection
      <4> HIDE DEF m, A
      <4>2. QED
        BY <3>2, <4>1, FS_Surjection
    <3>7. \A a \in A : f[a] \in Nat
      OBVIOUS
    <3>8. SumOn(f, A) = f[h[c]] + SumOn(f, A \ {h[c]})
      <4> HIDE DEF A
      <4>1. QED
        BY <3>3, <3>6, <3>7, SumTakesOut
    <3>9. SumOn(f, A) = f[h[c]] + SumOn(f, B)
      BY <3>3, <3>8
    <3>10. f[h[c]] = g[c]
      BY <3>1
    <3> HIDE DEF B, U
    <3>11. SumOn(g, T) = SumOn(f, A)
      BY <3>4, <3>5, <3>9, <3>10
    <3>12. QED
      BY <3>11
  <2>3. QED
    BY <2>1, <2>2
<1> HIDE DEF G
<1>2. S \in G
  BY <1>1, SubsetInduction
<1>3. QED
  BY <1>2 DEF G
-----------------------------------------------------------------------------
\* The rows of the list, which section each is of, and the order asked for.
Conversations == {Peer, Room, Space}
ListRow == [chat : Conversations, stamp : Nat, unread : Nat, online : BOOLEAN]
Section(c) == IF c = Peer THEN 0 ELSE 1
Sorted(a, b) ==
    \/ Section(a.chat) < Section(b.chat)
    \/ Section(a.chat) = Section(b.chat) /\ a.stamp >= b.stamp
Ordered(s) == \A i, j \in 1..Len(s) : i < j => Sorted(s[i], s[j])
Once(s) == \A i, j \in 1..Len(s) : s[i].chat = s[j].chat => i = j
\* The same conversations at the same places, as recent as before.
Placewise(s, t) ==
    /\ Len(s) = Len(t)
    /\ \A i \in 1..Len(s) : t[i].chat = s[i].chat /\ t[i].stamp = s[i].stamp
RowsOf(s) == {s[i] : i \in 1..Len(s)}

LEMMA ListRemove == ASSUME NEW s, NEW i PROVE List!SE!RemoveAt(s, i) = RemoveAt(s, i)
  BY DEF List!SE!RemoveAt, RemoveAt
LEMMA ListInsert ==
    ASSUME NEW s, NEW i, NEW x PROVE List!SE!InsertAt(s, i, x) = InsertAt(s, i, x)
  BY DEF List!SE!InsertAt, InsertAt
LEMMA ListMin == ASSUME NEW S PROVE List!Min(S) = Min(S)
  BY DEF List!Min, Min

LEMMA PlacewiseKeeps ==
    ASSUME NEW s, NEW t, Placewise(s, t)
    PROVE  (Once(s) => Once(t)) /\ (Ordered(s) => Ordered(t))
  BY DEF Placewise, Once, Ordered, Sorted

\* destinationFor() is before all the rows that are to follow and behind the
\* others.
LEMMA DestinationIs ==
    ASSUME NEW s \in Seq(ListRow), NEW row \in ListRow, Ordered(s)
    PROVE  \E p \in 1..Len(s) + 1 :
               /\ List!Placed(s, row) = InsertAt(s, p, row)
               /\ \A i \in 1..Len(s) : i < p => Sorted(s[i], row)
               /\ \A i \in 1..Len(s) : i >= p => Sorted(row, s[i])
<1> DEFINE Grp == [c \in {Peer, Room, Space} |-> IF c = Peer THEN 0 ELSE 1]
           g == Grp[row.chat]
           stops == {i \in DOMAIN s : \/ Grp[s[i].chat] > g
                                      \/ Grp[s[i].chat] = g /\ s[i].stamp <= row.stamp}
           p == IF stops = {} THEN Len(s) + 1 ELSE Min(stops)
           halts(r) == \/ Section(r.chat) > Section(row.chat)
                       \/ /\ Section(r.chat) = Section(row.chat)
                          /\ r.stamp <= row.stamp
<1>1. List!Placed(s, row) = InsertAt(s, p, row)
  BY ListInsert, ListMin DEF List!Placed, List!DestinationFor
<1>2. DOMAIN s = 1..Len(s) /\ Len(s) \in Nat /\ \A i \in 1..Len(s) : s[i] \in ListRow
  OBVIOUS
<1>3. \A c \in Conversations : Grp[c] = Section(c) /\ Section(c) \in {0, 1}
  BY DEF Conversations, Section
<1>4. row.chat \in Conversations /\ row.stamp \in Nat
      /\ \A r \in ListRow : r.chat \in Conversations /\ r.stamp \in Nat
  BY DEF ListRow
<1>5. stops = {i \in 1..Len(s) : halts(s[i])}
  BY <1>2, <1>3, <1>4
<1> HIDE DEF stops, Grp
<1>6. stops \in SUBSET Nat /\ stops \in SUBSET (1..Len(s))
  BY <1>2, <1>5
<1>7. p \in 1..Len(s) + 1 /\ \A i \in 1..Len(s) : i < p => i \notin stops
  <2>1. CASE stops = {}
    BY <1>2, <2>1
  <2>2. CASE stops # {}
    <3>1. Min(stops) \in stops /\ \A i \in stops : Min(stops) <= i
      BY <1>6, <2>2, LeastIs
    <3>2. Min(stops) \in 1..Len(s)
      BY <1>6, <3>1
    <3>3. p = Min(stops)
      BY <2>2
    <3> HIDE DEF p
    <3>4. QED
      BY <1>2, <3>1, <3>2, <3>3
  <2>3. QED
    BY <2>1, <2>2
<1>8. \A i \in 1..Len(s) : i >= p => i \in stops
  <2>1. CASE stops = {}
    BY <1>2, <2>1
  <2>2. CASE stops # {}
    <3>1. Min(stops) \in stops /\ p = Min(stops)
      BY <1>6, <2>2, LeastIs
    <3> HIDE DEF p
    <3>2. p \in 1..Len(s) /\ halts(s[p])
      BY <1>5, <3>1
    <3>3. ASSUME NEW i \in 1..Len(s), i > p PROVE halts(s[i])
      <4>1. Sorted(s[p], s[i])
        BY <3>2, <3>3 DEF Ordered
      <4>2. s[p] \in ListRow /\ s[i] \in ListRow
        BY <1>2, <3>2
      <4>3. QED
        BY <1>3, <1>4, <3>2, <4>1, <4>2 DEF Sorted
    <3>4. QED
      BY <1>2, <1>5, <3>2, <3>3
  <2>3. QED
    BY <2>1, <2>2
<1> HIDE DEF p
<1>9. ASSUME NEW i \in 1..Len(s), i < p PROVE Sorted(s[i], row)
  <2>1. ~halts(s[i])
    BY <1>5, <1>7, <1>9
  <2>2. s[i] \in ListRow
    BY <1>2
  <2>3. QED
    BY <1>3, <1>4, <2>1, <2>2 DEF Sorted
<1>10. ASSUME NEW i \in 1..Len(s), i >= p PROVE Sorted(row, s[i])
  <2>1. halts(s[i])
    BY <1>5, <1>8, <1>10
  <2>2. s[i] \in ListRow
    BY <1>2
  <2>3. QED
    BY <1>3, <1>4, <2>1, <2>2 DEF Sorted
<1>11. QED
  BY <1>1, <1>7, <1>9, <1>10

\* The position of a row that is not asked to be in order.
LEMMA PlacedAt ==
    ASSUME NEW s \in Seq(ListRow), NEW row \in ListRow
    PROVE  \E p \in 1..Len(s) + 1 : List!Placed(s, row) = InsertAt(s, p, row)
<1> DEFINE p == List!DestinationFor(s, row.stamp,
               [c \in {Peer, Room, Space} |-> IF c = Peer THEN 0 ELSE 1][row.chat])
<1>1. List!Placed(s, row) = InsertAt(s, p, row)
  BY ListInsert DEF List!Placed
<1>2. p \in 1..Len(s) + 1
  <2> DEFINE Grp == [c \in {Peer, Room, Space} |-> IF c = Peer THEN 0 ELSE 1]
             g == Grp[row.chat]
             stops == {i \in DOMAIN s : \/ Grp[s[i].chat] > g
                                        \/ Grp[s[i].chat] = g /\ s[i].stamp <= row.stamp}
  <2>1. p = IF stops = {} THEN Len(s) + 1 ELSE Min(stops)
    BY ListMin DEF List!DestinationFor
  <2>2. stops \in SUBSET (1..Len(s)) /\ stops \in SUBSET Nat /\ Len(s) \in Nat
    OBVIOUS
  <2> HIDE DEF stops, p
  <2>3. CASE stops = {}
    BY <2>1, <2>2, <2>3
  <2>4. CASE stops # {}
    <3>1. Min(stops) \in stops
      BY <2>2, <2>4, LeastIs
    <3>2. p \in 1..Len(s)
      BY <2>1, <2>2, <2>4, <3>1
    <3>3. QED
      BY <2>2, <3>2
  <2>5. QED
    BY <2>3, <2>4
<1>3. QED
  BY <1>1, <1>2

LEMMA InsertRows ==
    ASSUME NEW s \in Seq(ListRow), NEW row \in ListRow, NEW p \in 1..Len(s) + 1
    PROVE  /\ InsertAt(s, p, row) \in Seq(ListRow)
           /\ RowsOf(InsertAt(s, p, row)) = RowsOf(s) \cup {row}
           /\ Once(s) /\ (\A r \in RowsOf(s) : r.chat # row.chat)
                  => Once(InsertAt(s, p, row))
           /\ /\ Ordered(s)
              /\ \A i \in 1..Len(s) : i < p => Sorted(s[i], row)
              /\ \A i \in 1..Len(s) : i >= p => Sorted(row, s[i])
              => Ordered(InsertAt(s, p, row))
<1> DEFINE t == InsertAt(s, p, row)
           n == Len(s)
           from(k) == IF k < p THEN k ELSE k - 1
<1>1. /\ t \in Seq(ListRow) /\ Len(t) = n + 1
      /\ \A k \in 1..n + 1 : t[k] = IF k < p THEN s[k] ELSE IF k = p THEN row
                                    ELSE s[k - 1]
  BY InsertAtIs
<1>2. n \in Nat /\ p \in 1..n + 1 /\ p \in Nat
  OBVIOUS
<1> HIDE DEF t, n
<1>3. \A k \in 1..n + 1 : k # p => from(k) \in 1..n /\ t[k] = s[from(k)]
  BY <1>1, <1>2
<1>4. t[p] = row
  BY <1>1, <1>2
<1>5. \A j \in 1..n : \E k \in 1..n + 1 : k # p /\ from(k) = j
  <2> SUFFICES ASSUME NEW j \in 1..n PROVE \E k \in 1..n + 1 : k # p /\ from(k) = j
    OBVIOUS
  <2> DEFINE k == IF j < p THEN j ELSE j + 1
  <2>1. k \in 1..n + 1 /\ k # p /\ from(k) = j
    BY <1>2
  <2>2. QED
    BY <2>1
<1>6. RowsOf(t) = RowsOf(s) \cup {row}
  <2>1. \A k \in 1..n + 1 : t[k] \in RowsOf(s) \cup {row}
    BY <1>3, <1>4 DEF RowsOf, n
  <2>2. \A j \in 1..n : s[j] \in {t[k] : k \in 1..n + 1}
    BY <1>3, <1>5
  <2>3. row \in {t[k] : k \in 1..n + 1}
    BY <1>2, <1>4
  <2>4. QED
    BY <1>1, <2>1, <2>2, <2>3 DEF RowsOf, n
<1>7. ASSUME Once(s), \A r \in RowsOf(s) : r.chat # row.chat PROVE Once(t)
  <2> SUFFICES ASSUME NEW i \in 1..n + 1, NEW j \in 1..n + 1,
                      t[i].chat = t[j].chat
               PROVE  i = j
    BY <1>1 DEF Once
  <2>1. \A k \in 1..n : s[k].chat # row.chat
    BY <1>7 DEF RowsOf, n
  <2>2. CASE i = p \/ j = p
    BY <1>3, <1>4, <2>1, <2>2
  <2>3. CASE i # p /\ j # p
    <3>1. from(i) = from(j)
      BY <1>3, <1>7, <2>3 DEF Once, n
    <3>2. QED
      BY <1>2, <2>3, <3>1
  <2>4. QED
    BY <2>2, <2>3
<1>8. ASSUME Ordered(s), \A i \in 1..n : i < p => Sorted(s[i], row),
             \A i \in 1..n : i >= p => Sorted(row, s[i])
      PROVE  Ordered(t)
  <2> SUFFICES ASSUME NEW i \in 1..n + 1, NEW j \in 1..n + 1, i < j
               PROVE  Sorted(t[i], t[j])
    BY <1>1 DEF Ordered
  <2>1. CASE i = p
    <3>1. j # p /\ from(j) \in 1..n /\ from(j) >= p
      BY <1>2, <1>3, <2>1
    <3>2. QED
      BY <1>3, <1>4, <1>8, <2>1, <3>1
  <2>2. CASE j = p
    <3>1. i # p /\ from(i) \in 1..n /\ from(i) < p
      BY <1>2, <1>3, <2>2
    <3>2. QED
      BY <1>3, <1>4, <1>8, <2>2, <3>1
  <2>3. CASE i # p /\ j # p
    <3>1. from(i) < from(j) /\ from(i) \in 1..n /\ from(j) \in 1..n
      BY <1>2, <1>3, <2>3
    <3>2. Sorted(s[from(i)], s[from(j)])
      BY <1>8, <3>1 DEF Ordered, n
    <3>3. QED
      BY <1>3, <2>3, <3>2
  <2>4. QED
    BY <2>1, <2>2, <2>3
<1>9. QED
  BY <1>1, <1>6, <1>7, <1>8 DEF t, n

\* A row with its place in its section.
LEMMA PlacedIs ==
    ASSUME NEW s \in Seq(ListRow), NEW row \in ListRow, Once(s),
           \A r \in RowsOf(s) : r.chat # row.chat
    PROVE  /\ List!Placed(s, row) \in Seq(ListRow)
           /\ RowsOf(List!Placed(s, row)) = RowsOf(s) \cup {row}
           /\ Once(List!Placed(s, row))
           /\ Ordered(s) => Ordered(List!Placed(s, row))
<1>1. PICK p \in 1..Len(s) + 1 : List!Placed(s, row) = InsertAt(s, p, row)
  BY PlacedAt
<1>2. ASSUME Ordered(s) PROVE Ordered(List!Placed(s, row))
  <2>1. PICK q \in 1..Len(s) + 1 :
            /\ List!Placed(s, row) = InsertAt(s, q, row)
            /\ \A i \in 1..Len(s) : i < q => Sorted(s[i], row)
            /\ \A i \in 1..Len(s) : i >= q => Sorted(row, s[i])
    BY <1>2, DestinationIs
  <2>2. Ordered(InsertAt(s, q, row))
    BY <1>2, <2>1, InsertRows
  <2>3. QED
    BY <2>1, <2>2
<1>3. QED
  BY <1>1, <1>2, InsertRows

\* A row taken out.
LEMMA RemovedIs ==
    ASSUME NEW s \in Seq(ListRow), NEW i \in 1..Len(s), Once(s)
    PROVE  /\ RemoveAt(s, i) \in Seq(ListRow) /\ Once(RemoveAt(s, i))
           /\ RowsOf(RemoveAt(s, i)) = {r \in RowsOf(s) : r.chat # s[i].chat}
           /\ Ordered(s) => Ordered(RemoveAt(s, i))
<1> DEFINE t == RemoveAt(s, i)
           n == Len(s)
           from(k) == IF k < i THEN k ELSE k + 1
<1>1. /\ t \in Seq(ListRow) /\ Len(t) = n - 1
      /\ \A k \in 1..n - 1 : t[k] = IF k < i THEN s[k] ELSE s[k + 1]
  BY RemoveAtIs
<1>2. n \in Nat /\ i \in 1..n /\ i \in Nat
  OBVIOUS
<1> HIDE DEF t, n
<1>3. \A k \in 1..n - 1 : from(k) \in 1..n /\ from(k) # i /\ t[k] = s[from(k)]
  BY <1>1, <1>2
<1>4. \A j \in 1..n : j # i => \E k \in 1..n - 1 : from(k) = j
  <2> SUFFICES ASSUME NEW j \in 1..n, j # i PROVE \E k \in 1..n - 1 : from(k) = j
    OBVIOUS
  <2> DEFINE k == IF j < i THEN j ELSE j - 1
  <2>1. k \in 1..n - 1 /\ from(k) = j
    BY <1>2
  <2>2. QED
    BY <2>1
<1>5. \A j \in 1..n : s[j].chat = s[i].chat <=> j = i
  BY <1>2 DEF Once, n
<1>6. RowsOf(t) = {r \in RowsOf(s) : r.chat # s[i].chat}
  <2>1. \A k \in 1..n - 1 : t[k] \in {s[j] : j \in 1..n} /\ t[k].chat # s[i].chat
    BY <1>3, <1>5
  <2>2. \A j \in 1..n : s[j].chat # s[i].chat => s[j] \in {t[k] : k \in 1..n - 1}
    BY <1>3, <1>4, <1>5
  <2>3. QED
    BY <1>1, <2>1, <2>2 DEF RowsOf, n
<1>7. Once(t)
  <2> SUFFICES ASSUME NEW a \in 1..n - 1, NEW b \in 1..n - 1, t[a].chat = t[b].chat
               PROVE  a = b
    BY <1>1 DEF Once
  <2>1. from(a) = from(b)
    BY <1>3 DEF Once, n
  <2>2. QED
    BY <1>2, <2>1
<1>8. ASSUME Ordered(s) PROVE Ordered(t)
  <2> SUFFICES ASSUME NEW a \in 1..n - 1, NEW b \in 1..n - 1, a < b
               PROVE  Sorted(t[a], t[b])
    BY <1>1 DEF Ordered
  <2>1. from(a) < from(b) /\ from(a) \in 1..n /\ from(b) \in 1..n
    BY <1>2, <1>3
  <2>2. Sorted(s[from(a)], s[from(b)])
    BY <1>8, <2>1 DEF Ordered, n
  <2>3. QED
    BY <1>3, <2>2
<1>9. QED
  BY <1>1, <1>6, <1>7, <1>8 DEF t
-----------------------------------------------------------------------------
\* The list can be put in the order of activity.
LEMMA SortedExists ==
    ASSUME NEW s \in Seq(ListRow)
    PROVE  \E from \in List!Injection(DOMAIN s, DOMAIN s) :
               \A i, j \in DOMAIN s : i < j => List!Newer(s, from[i], from[j])
<1> DEFINE n == Len(s)
           D == 1..n
           newer(i, j) == List!Newer(s, i, j)
           ahead(i) == {j \in D : newer(j, i) \/ j = i}
           rank == [i \in D |-> Cardinality(ahead(i))]
           from == [k \in D |-> CHOOSE i \in D : rank[i] = k]
<1>1. DOMAIN s = D /\ n \in Nat /\ D \in SUBSET Nat /\ IsFiniteSet(D)
      /\ Cardinality(D) = n /\ \A i \in D : s[i].stamp \in Nat
  <2>1. n \in Nat
    OBVIOUS
  <2>2. IsFiniteSet(D) /\ Cardinality(D) = n
    BY <2>1, FS_Interval
  <2>3. \A i \in D : s[i] \in ListRow
    OBVIOUS
  <2>4. QED
    BY <2>1, <2>2, <2>3 DEF ListRow
<1>2. /\ \A i, j, k \in D : newer(i, j) /\ newer(j, k) => newer(i, k)
      /\ \A i \in D : ~newer(i, i)
      /\ \A i, j \in D : newer(i, j) \/ newer(j, i) \/ i = j
  BY <1>1 DEF List!Newer
<1> HIDE DEF newer, D
<1>3. ASSUME NEW i \in D
      PROVE  IsFiniteSet(ahead(i)) /\ rank[i] \in Nat /\ rank[i] \in D
  <2>1. ahead(i) \in SUBSET D /\ i \in ahead(i) /\ rank[i] = Cardinality(ahead(i))
    OBVIOUS
  <2> HIDE DEF ahead, rank
  <2>2. IsFiniteSet(ahead(i)) /\ Cardinality(ahead(i)) <= n
    BY <1>1, <2>1, FS_Subset
  <2>3. Cardinality(ahead(i)) \in Nat
    BY <2>2, FS_CardinalityType
  <2>4. Cardinality(ahead(i)) # 0
    BY <2>1, <2>2, FS_EmptySet
  <2>5. QED
    BY <1>1, <2>1, <2>2, <2>3, <2>4 DEF D
<1>4. ASSUME NEW i \in D, NEW j \in D, newer(i, j) PROVE rank[i] < rank[j]
  <2>1. ahead(i) \in SUBSET ahead(j) /\ j \in ahead(j) /\ j \notin ahead(i)
    BY <1>2, <1>4
  <2>2. rank[i] = Cardinality(ahead(i)) /\ rank[j] = Cardinality(ahead(j))
    OBVIOUS
  <2>3. IsFiniteSet(ahead(i)) /\ IsFiniteSet(ahead(j)) /\ rank[i] \in Nat /\ rank[j] \in Nat
    BY <1>3
  <2> HIDE DEF ahead, rank
  <2>4. Cardinality(ahead(i)) <= Cardinality(ahead(j)) /\ ahead(i) # ahead(j)
        /\ (Cardinality(ahead(j)) = Cardinality(ahead(i)) => ahead(j) = ahead(i))
    BY <2>1, <2>3, FS_Subset
  <2>5. QED
    BY <2>2, <2>3, <2>4
<1>5. \A i, j \in D : rank[i] = rank[j] => i = j
  <2> SUFFICES ASSUME NEW i \in D, NEW j \in D, rank[i] = rank[j] PROVE i = j
    OBVIOUS
  <2>1. rank[i] \in Nat /\ rank[j] \in Nat
    BY <1>3
  <2> HIDE DEF rank
  <2>2. ~newer(i, j) /\ ~newer(j, i)
    BY <1>4, <2>1
  <2>3. QED
    BY <1>2, <2>2
<1>6. rank \in [D -> D]
  BY <1>3
<1> HIDE DEF rank
<1>7. rank \in Injection(D, D)
  BY <1>5, <1>6 DEF Injection, IsInjective
<1>8. rank \in Surjection(D, D)
  BY <1>1, <1>7, FS_Injection
<1>9. ASSUME NEW k \in D PROVE from[k] \in D /\ rank[from[k]] = k
  <2>1. \E i \in D : rank[i] = k
    BY <1>8 DEF Surjection
  <2>2. from[k] = CHOOSE i \in D : rank[i] = k
    OBVIOUS
  <2> HIDE DEF from
  <2>3. QED
    BY <2>1, <2>2
<1>10. from \in [D -> D]
  BY <1>9
<1> HIDE DEF from
<1>11. \A i, j \in D : from[i] = from[j] => i = j
  BY <1>9
<1>12. from \in List!Injection(D, D)
  BY <1>10, <1>11 DEF List!Injection, List!IsInjective
<1>13. ASSUME NEW i \in D, NEW j \in D, i < j PROVE newer(from[i], from[j])
  <2>1. from[i] \in D /\ from[j] \in D /\ rank[from[i]] = i /\ rank[from[j]] = j
    BY <1>9
  <2>2. i \in Nat /\ j \in Nat
    BY <1>1
  <2>3. ~(j < i) /\ i # j
    BY <1>13, <2>2
  <2>4. ~newer(from[j], from[i])
    BY <1>4, <2>1, <2>3
  <2>5. from[i] # from[j]
    BY <1>11, <2>3
  <2>6. QED
    BY <1>2, <2>1, <2>4, <2>5
<1>14. QED
  BY <1>1, <1>12, <1>13 DEF newer

\* The rows a restart loads are the rows of the index, in another order.
LEMMA LoadedIs ==
    ASSUME NEW s \in Seq(ListRow), Once(s)
    PROVE  /\ List!Loaded(s) \in Seq(ListRow) /\ Once(List!Loaded(s))
           /\ RowsOf(List!Loaded(s)) = RowsOf(s)
<1> DEFINE n == Len(s)
           from == List!ByActivity(s)
           t == List!Loaded(s)
<1>1. DOMAIN s = 1..n /\ n \in Nat
  OBVIOUS
<1>2. from \in List!Injection(DOMAIN s, DOMAIN s)
  BY SortedExists DEF List!ByActivity
<1>3. t = [i \in 1..n |-> s[from[i]]]
  BY <1>1 DEF List!Loaded
<1> HIDE DEF from, t
<1>4. from \in [1..n -> 1..n] /\ \A i, j \in 1..n : from[i] = from[j] => i = j
  BY <1>1, <1>2 DEF List!Injection, List!IsInjective
<1>5. from \in Surjection(1..n, 1..n)
  <2>1. from \in Injection(1..n, 1..n)
    BY <1>4 DEF Injection, IsInjective
  <2>2. IsFiniteSet(1..n)
    BY <1>1, FS_Interval
  <2>3. QED
    BY <2>1, <2>2, FS_Injection
<1>6. /\ t \in Seq(ListRow) /\ Len(t) = n /\ \A i \in 1..n : t[i] = s[from[i]]
  <2>1. \A i \in 1..n : s[from[i]] \in ListRow
    BY <1>4
  <2>2. QED
    BY <1>1, <1>3, <2>1
<1>7. Once(t)
  BY <1>4, <1>6 DEF Once
<1>8. RowsOf(t) = RowsOf(s)
  <2>1. \A i \in 1..n : t[i] \in RowsOf(s)
    BY <1>4, <1>6 DEF RowsOf
  <2>2. ASSUME NEW j \in 1..n PROVE s[j] \in RowsOf(t)
    <3>1. PICK i \in 1..n : from[i] = j
      BY <1>5 DEF Surjection
    <3>2. t[i] = s[j]
      BY <1>6, <3>1
    <3>3. QED
      BY <1>6, <3>2 DEF RowsOf
  <2>3. QED
    BY <1>6, <2>1, <2>2 DEF RowsOf
<1>9. QED
  BY <1>6, <1>7, <1>8 DEF t
-----------------------------------------------------------------------------
\* The list, the index and the counts: a row to a conversation, its badge the
\* count, no count without a row, in order for as long as nothing was loaded.
ListInv ==
    /\ list \in Seq(ListRow) /\ index \in Seq(ListRow)
    /\ Once(list) /\ Once(index)
    /\ DOMAIN counts \subseteq Conversations
    /\ \A c \in DOMAIN counts : counts[c] \in Nat
    /\ \A r \in RowsOf(list) : r.unread = List!Unread(r.chat)
    /\ \A c \in DOMAIN counts :
           counts[c] # 0 => \E r \in RowsOf(list) : r.chat = c
    /\ restarts = 0 => Ordered(list)
    /\ ~armed /\ ~unsaved => List!Lasting(index) = List!Lasting(list)

Lasts(r) == [chat |-> r.chat, stamp |-> r.stamp, unread |-> r.unread]

LEMMA LastingIs ==
    ASSUME NEW s \in Seq(ListRow)
    PROVE  List!Lasting(s) = {Lasts(r) : r \in RowsOf(s)}
<1>1. DOMAIN s = 1..Len(s)
  OBVIOUS
<1>2. QED
  BY <1>1 DEF List!Lasting, Lasts, RowsOf

LEMMA RowOfIs ==
    ASSUME list \in Seq(ListRow), NEW c
    PROVE  /\ List!RowOf(c) = 0 => \A r \in RowsOf(list) : r.chat # c
           /\ List!RowOf(c) # 0 => /\ List!RowOf(c) \in 1..Len(list)
                                   /\ list[List!RowOf(c)].chat = c
<1> DEFINE at == {i \in DOMAIN list : list[i].chat = c}
<1>1. List!RowOf(c) = IF at = {} THEN 0 ELSE Min(at)
  BY ListMin DEF List!RowOf
<1>2. at \in SUBSET Nat /\ at \in SUBSET (1..Len(list)) /\ DOMAIN list = 1..Len(list)
  OBVIOUS
<1>3. CASE at = {}
  BY <1>1, <1>2, <1>3 DEF RowsOf
<1>4. CASE at # {}
  <2>1. Min(at) \in at
    BY <1>2, <1>4, LeastIs
  <2>2. Min(at) \in 1..Len(list) /\ list[Min(at)].chat = c /\ Min(at) # 0
    BY <1>2, <2>1
  <2>3. QED
    BY <1>1, <1>4, <2>2
<1>5. QED
  BY <1>3, <1>4

\* A count that changed.
LEMMA CountIs ==
    ASSUME DOMAIN counts \subseteq Conversations,
           \A c \in DOMAIN counts : counts[c] \in Nat,
           NEW c \in Conversations, NEW n \in Nat
    PROVE  LET h == List!Counted(c, n)
           IN  /\ DOMAIN h \subseteq Conversations
               /\ \A d \in DOMAIN h : h[d] \in Nat
               /\ \A d : List!Value(h, d, 0)
                             = IF d = c THEN n ELSE List!Value(counts, d, 0)
               /\ \A d \in DOMAIN h : h[d] # 0 => (d = c /\ n # 0)
                                         \/ (d \in DOMAIN counts /\ counts[d] # 0)
<1> DEFINE h == List!Counted(c, n)
<1>1. h = IF n = 0 THEN [x \in DOMAIN counts \ {c} |-> counts[x]]
          ELSE [x \in DOMAIN counts \cup {c} |-> IF x = c THEN n ELSE counts[x]]
  BY DEF List!Counted, List!Insert, List!Remove
<1> HIDE DEF h
<1>2. /\ DOMAIN h = IF n = 0 THEN DOMAIN counts \ {c} ELSE DOMAIN counts \cup {c}
      /\ \A d \in DOMAIN h : h[d] = IF d = c THEN n ELSE counts[d]
  BY <1>1
<1>3. \A d : List!Value(h, d, 0) = IF d = c THEN n ELSE List!Value(counts, d, 0)
  <2> SUFFICES ASSUME NEW d
               PROVE  List!Value(h, d, 0) = IF d = c THEN n ELSE List!Value(counts, d, 0)
    OBVIOUS
  <2>1. List!Value(h, d, 0) = IF d \in DOMAIN h THEN h[d] ELSE 0
    BY DEF List!Value
  <2>2. List!Value(counts, d, 0) = IF d \in DOMAIN counts THEN counts[d] ELSE 0
    BY DEF List!Value
  <2>3. QED
    BY <1>2, <2>1, <2>2
<1>4. \A d \in DOMAIN h : h[d] \in Nat
  BY <1>2
<1>5. \A d \in DOMAIN h : h[d] # 0 => (d = c /\ n # 0)
                                     \/ (d \in DOMAIN counts /\ counts[d] # 0)
  <2> SUFFICES ASSUME NEW d \in DOMAIN h, h[d] # 0
               PROVE  (d = c /\ n # 0) \/ (d \in DOMAIN counts /\ counts[d] # 0)
    OBVIOUS
  <2>1. CASE d = c
    BY <1>2, <2>1
  <2>2. CASE d # c
    BY <1>2, <2>2
  <2>3. QED
    BY <2>1, <2>2
<1>6. DOMAIN h \subseteq Conversations
  BY <1>2
<1>7. QED
  BY <1>3, <1>4, <1>5, <1>6 DEF h

LEMMA UnreadIs ==
    ASSUME ListInv, NEW c
    PROVE  /\ List!Unread(c) \in Nat
           /\ (\A r \in RowsOf(list) : r.chat # c) => List!Unread(c) = 0
  BY DEF ListInv, List!Unread, List!Value

\* The badge of a conversation is told, at the place of its row.
LEMMA ToldIs ==
    ASSUME list \in Seq(ListRow), NEW c, NEW n \in Nat
    PROVE  /\ List!Told(c, n) \in Seq(ListRow) /\ Placewise(list, List!Told(c, n))
           /\ \A i \in 1..Len(list) :
                  List!Told(c, n)[i].unread = IF list[i].chat = c THEN n
                                              ELSE list[i].unread
<1> DEFINE t == List!Told(c, n)
           r(i) == IF list[i].chat = c THEN [list[i] EXCEPT !.unread = n] ELSE list[i]
<1>1. DOMAIN list = 1..Len(list) /\ Len(list) \in Nat
      /\ \A i \in 1..Len(list) : list[i] \in ListRow
  OBVIOUS
<1>2. t = [i \in 1..Len(list) |-> r(i)]
  BY <1>1 DEF List!Told
<1>3. \A i \in 1..Len(list) :
          /\ r(i) \in ListRow /\ r(i).chat = list[i].chat
          /\ r(i).stamp = list[i].stamp
          /\ r(i).unread = IF list[i].chat = c THEN n ELSE list[i].unread
  BY <1>1 DEF ListRow
<1> HIDE DEF r, t
<1>4. t \in Seq(ListRow) /\ Len(t) = Len(list) /\ \A i \in 1..Len(list) : t[i] = r(i)
  BY <1>1, <1>2, <1>3
<1>5. QED
  BY <1>3, <1>4 DEF Placewise, t
-----------------------------------------------------------------------------
\* noteMessage() moves the row to its place with a stamp no older.
LEMMA NotedIs ==
    ASSUME NEW s \in Seq(ListRow), Once(s), NEW i \in 1..Len(s), NEW stamp \in Nat
    PROVE  /\ List!Noted(s, i, stamp) \in Seq(ListRow)
           /\ Once(List!Noted(s, i, stamp))
           /\ Ordered(s) => Ordered(List!Noted(s, i, stamp))
           /\ \E row \in ListRow :
                  /\ row.chat = s[i].chat /\ row.unread = s[i].unread
                  /\ RowsOf(List!Noted(s, i, stamp))
                         = {r \in RowsOf(s) : r.chat # s[i].chat} \cup {row}
<1> DEFINE o == s[i]
           row == [o EXCEPT !.stamp = IF stamp > @ THEN stamp ELSE @]
           e == [s EXCEPT ![i] = row]
           u == RemoveAt(s, i)
<1>1. o \in ListRow
  OBVIOUS
<1> HIDE DEF o
<1>2. row \in ListRow /\ row.chat = o.chat /\ row.unread = o.unread
  BY <1>1 DEF ListRow
<1>3. [s EXCEPT ![i].stamp = IF stamp > @ THEN stamp ELSE @] = e
  BY DEF o
<1> HIDE DEF row
<1>4. /\ e \in Seq(ListRow) /\ Len(e) = Len(s) /\ e[i] = row
      /\ \A k \in 1..Len(s) : k # i => e[k] = s[k]
  BY <1>2
<1>5. List!Noted(s, i, stamp) = List!Placed(RemoveAt(e, i), e[i])
  BY <1>3, ListRemove DEF List!Noted, List!MoveToSortedPosition
<1> HIDE DEF e
<1>6. RemoveAt(e, i) = u
  <2> DEFINE w == RemoveAt(e, i)
             n == Len(s)
  <2>1. /\ u \in Seq(ListRow) /\ Len(u) = n - 1
        /\ \A k \in 1..n - 1 : u[k] = IF k < i THEN s[k] ELSE s[k + 1]
    BY RemoveAtIs
  <2>2. i \in 1..Len(e)
    BY <1>4
  <2>3. /\ w \in Seq(ListRow) /\ Len(w) = Len(e) - 1
        /\ \A k \in 1..Len(e) - 1 : w[k] = IF k < i THEN e[k] ELSE e[k + 1]
    BY <1>4, <2>2, RemoveAtIs
  <2>4. n \in Nat /\ i \in Nat /\ Len(e) = n
    BY <1>4
  <2> HIDE DEF w, n
  <2>5. ASSUME NEW k \in 1..n - 1 PROVE w[k] = u[k]
    <3>1. CASE k < i
      BY <1>4, <2>1, <2>3, <2>4, <3>1 DEF n
    <3>2. CASE ~(k < i)
      <4>1. k + 1 \in 1..n /\ k + 1 # i
        BY <2>4, <3>2
      <4>2. QED
        BY <1>4, <2>1, <2>3, <2>4, <3>2, <4>1 DEF n
    <3>3. QED
      BY <3>1, <3>2
  <2> HIDE DEF u
  <2>6. QED
    BY <2>1, <2>3, <2>4, <2>5, SeqsEqual DEF w
<1>7. /\ u \in Seq(ListRow) /\ Once(u) /\ (Ordered(s) => Ordered(u))
      /\ RowsOf(u) = {r \in RowsOf(s) : r.chat # o.chat}
  BY RemovedIs DEF o
<1>8. List!Noted(s, i, stamp) = List!Placed(u, row)
  BY <1>4, <1>5, <1>6
<1> HIDE DEF u
<1>9. \A r \in RowsOf(u) : r.chat # row.chat
  BY <1>2, <1>7
<1>10. /\ List!Placed(u, row) \in Seq(ListRow)
       /\ RowsOf(List!Placed(u, row)) = RowsOf(u) \cup {row}
       /\ Once(List!Placed(u, row)) /\ (Ordered(u) => Ordered(List!Placed(u, row)))
  BY <1>2, <1>7, <1>9, PlacedIs
<1>11. QED
  BY <1>2, <1>7, <1>8, <1>10 DEF o

LEMMA ListInit == ASSUME List!Init PROVE ListInv
<1>1. list = <<>> /\ index = <<>> /\ DOMAIN counts = {}
  BY DEF List!Init, List!EmptyHash
<1>2. <<>> \in Seq(ListRow) /\ Once(<<>>) /\ Ordered(<<>>) /\ RowsOf(<<>>) = {}
  BY DEF Once, Ordered, RowsOf
<1>3. QED
  BY <1>1, <1>2 DEF ListInv

LEMMA ListOpen ==
    ASSUME ListInv, NEW c \in Conversations, List!OpenChat(c) PROVE ListInv'
<1> DEFINE row == List!NewRow(c, 0, 0)
<1>1. /\ List!RowOf(c) = 0 /\ list' = List!Placed(list, row) /\ armed' = TRUE
      /\ counts' = counts /\ index' = index /\ restarts' = restarts
  BY DEF List!OpenChat, List!ScheduleSave
<1>2. row \in ListRow /\ row.chat = c /\ row.unread = 0
  BY DEF List!NewRow, ListRow
<1> HIDE DEF row
<1>3. \A r \in RowsOf(list) : r.chat # c
  BY <1>1, RowOfIs DEF ListInv
<1>4. /\ list' \in Seq(ListRow) /\ Once(list') /\ (Ordered(list) => Ordered(list'))
      /\ RowsOf(list') = RowsOf(list) \cup {row}
  BY <1>1, <1>2, <1>3, PlacedIs DEF ListInv
<1>5. List!Unread(c) = 0
  BY <1>3, UnreadIs
<1>6. \A d : List!Unread(d)' = List!Unread(d)
  BY <1>1 DEF List!Unread, List!Value
<1>7. QED
  BY <1>1, <1>2, <1>4, <1>5, <1>6 DEF ListInv

\* The counts and the rows after one count was told, be there a row or not.
LEMMA CountTold ==
    ASSUME ListInv, NEW c \in Conversations, NEW n \in Nat,
           counts' = List!Counted(c, n)
    PROVE  /\ DOMAIN counts' \subseteq Conversations
           /\ \A d \in DOMAIN counts' : counts'[d] \in Nat
           /\ \A d : List!Unread(d)' = IF d = c THEN n ELSE List!Unread(d)
           /\ \A d \in DOMAIN counts' : counts'[d] # 0 => (d = c /\ n # 0)
                  \/ (d \in DOMAIN counts /\ counts[d] # 0)
           /\ \A r \in RowsOf(List!Told(c, n)) : r.unread = List!Unread(r.chat)'
           /\ {r.chat : r \in RowsOf(List!Told(c, n))} = {r.chat : r \in RowsOf(list)}
           /\ List!Told(c, n) \in Seq(ListRow) /\ Once(List!Told(c, n))
           /\ Ordered(list) => Ordered(List!Told(c, n))
<1>1. /\ DOMAIN counts' \subseteq Conversations
      /\ \A d \in DOMAIN counts' : counts'[d] \in Nat
      /\ \A d : List!Value(counts', d, 0)
                    = IF d = c THEN n ELSE List!Value(counts, d, 0)
      /\ \A d \in DOMAIN counts' : counts'[d] # 0 => (d = c /\ n # 0)
                  \/ (d \in DOMAIN counts /\ counts[d] # 0)
  BY CountIs DEF ListInv
<1>2. \A d : List!Unread(d)' = IF d = c THEN n ELSE List!Unread(d)
  BY <1>1 DEF List!Unread
<1> DEFINE t == List!Told(c, n)
<1>3. /\ t \in Seq(ListRow) /\ Placewise(list, t)
      /\ \A i \in 1..Len(list) :
             t[i].unread = IF list[i].chat = c THEN n ELSE list[i].unread
  BY ToldIs DEF ListInv
<1> HIDE DEF t
<1>4. Once(t) /\ (Ordered(list) => Ordered(t))
  BY <1>3, PlacewiseKeeps DEF ListInv
<1>5. Len(t) = Len(list) /\ \A i \in 1..Len(list) : t[i].chat = list[i].chat
  BY <1>3 DEF Placewise
<1>6. ASSUME NEW r \in RowsOf(t) PROVE r.unread = List!Unread(r.chat)'
  <2>1. PICK i \in 1..Len(list) : r = t[i]
    BY <1>5 DEF RowsOf
  <2>2. list[i] \in RowsOf(list)
    BY DEF RowsOf
  <2>3. list[i].unread = List!Unread(list[i].chat)
    BY <2>2 DEF ListInv
  <2>4. r.chat = list[i].chat
        /\ r.unread = IF list[i].chat = c THEN n ELSE list[i].unread
    BY <1>3, <1>5, <2>1
  <2>5. List!Unread(r.chat)' = IF r.chat = c THEN n ELSE List!Unread(r.chat)
    BY <1>2
  <2>6. QED
    BY <2>3, <2>4, <2>5
<1>7. \A r \in RowsOf(t) : r.unread = List!Unread(r.chat)'
  BY <1>6
<1>8. {r.chat : r \in RowsOf(t)} = {r.chat : r \in RowsOf(list)}
  BY <1>5 DEF RowsOf
<1>9. QED
  BY <1>1, <1>2, <1>3, <1>4, <1>7, <1>8 DEF t

LEMMA ListRead ==
    ASSUME ListInv, NEW c \in Conversations, List!MarkRead(c) PROVE ListInv'
<1>1. /\ counts' = List!Counted(c, 0) /\ list' = List!Told(c, 0)
      /\ armed' = (armed \/ List!RowOf(c) # 0) /\ unsaved' = unsaved
      /\ index' = index /\ restarts' = restarts
  BY DEF List!MarkRead
<1>2. /\ DOMAIN counts' \subseteq Conversations
      /\ \A d \in DOMAIN counts' : counts'[d] \in Nat
      /\ \A d \in DOMAIN counts' : counts'[d] # 0 =>
                  d \in DOMAIN counts /\ counts[d] # 0
      /\ \A r \in RowsOf(list') : r.unread = List!Unread(r.chat)'
      /\ {r.chat : r \in RowsOf(list')} = {r.chat : r \in RowsOf(list)}
      /\ list' \in Seq(ListRow) /\ Once(list') /\ (Ordered(list) => Ordered(list'))
  BY <1>1, CountTold
<1>3. ASSUME NEW d \in DOMAIN counts', counts'[d] # 0
      PROVE  \E r \in RowsOf(list') : r.chat = d
  <2>1. \E r \in RowsOf(list) : r.chat = d
    BY <1>2, <1>3 DEF ListInv
  <2>2. QED
    BY <1>2, <2>1
<1>4. ASSUME ~armed', ~unsaved' PROVE List!Lasting(index') = List!Lasting(list')
  <2>1. ~armed /\ ~unsaved /\ List!RowOf(c) = 0
    BY <1>1, <1>4
  <2>2. \A r \in RowsOf(list) : r.chat # c
    BY <2>1, RowOfIs DEF ListInv
  <2>3. \A i \in DOMAIN list : list[i].chat # c
    BY <2>2 DEF RowsOf, ListInv
  <2>4. list' = [i \in DOMAIN list |-> list[i]]
    BY <1>1, <2>3 DEF List!Told
  <2>5. list' = list
    BY <2>4 DEF ListInv
  <2>6. QED
    BY <1>1, <2>1, <2>5 DEF ListInv
<1>5. QED
  BY <1>1, <1>2, <1>3, <1>4 DEF ListInv

LEMMA ListDrop ==
    ASSUME ListInv, NEW c \in Conversations, List!DropChatLocally(c) PROVE ListInv'
<1> DEFINE i == List!RowOf(c)
<1>1. /\ i # 0 /\ list' = RemoveAt(list, i) /\ armed' = TRUE
      /\ counts' = (IF List!Unread(c) > 0 THEN List!Counted(c, 0) ELSE counts)
      /\ index' = index /\ restarts' = restarts
  BY ListRemove DEF List!DropChatLocally, List!ScheduleSave
<1>2. i \in 1..Len(list) /\ list[i].chat = c
  BY <1>1, RowOfIs DEF ListInv
<1> HIDE DEF i
<1>3. /\ list' \in Seq(ListRow) /\ Once(list') /\ (Ordered(list) => Ordered(list'))
      /\ RowsOf(list') = {r \in RowsOf(list) : r.chat # c}
  BY <1>1, <1>2, RemovedIs DEF ListInv
<1>4. /\ DOMAIN counts' \subseteq Conversations
      /\ \A d \in DOMAIN counts' : counts'[d] \in Nat
      /\ \A d : d # c => List!Unread(d)' = List!Unread(d)
      /\ \A d \in DOMAIN counts' : counts'[d] # 0 =>
             d # c /\ d \in DOMAIN counts /\ counts[d] # 0
  <2>1. CASE List!Unread(c) > 0
    <3>1. counts' = List!Counted(c, 0)
      BY <1>1, <2>1
    <3>2. /\ DOMAIN counts' \subseteq Conversations
          /\ \A d \in DOMAIN counts' : counts'[d] \in Nat
          /\ \A d : List!Unread(d)' = IF d = c THEN 0 ELSE List!Unread(d)
          /\ \A d \in DOMAIN counts' : counts'[d] # 0 =>
                 d \in DOMAIN counts /\ counts[d] # 0
      BY <3>1, CountTold
    <3>3. c \notin DOMAIN counts'
      BY <3>1 DEF List!Counted, List!Remove
    <3>4. QED
      BY <3>2, <3>3
  <2>2. CASE ~(List!Unread(c) > 0)
    <3>1. counts' = counts
      BY <1>1, <2>2
    <3>2. List!Unread(c) = 0
      BY <2>2, UnreadIs
    <3>3. c \in DOMAIN counts => counts[c] = 0
      BY <3>2 DEF List!Unread, List!Value
    <3>4. \A d : List!Unread(d)' = List!Unread(d)
      BY <3>1 DEF List!Unread, List!Value
    <3>5. QED
      BY <3>1, <3>3, <3>4 DEF ListInv
  <2>3. QED
    BY <2>1, <2>2
<1>5. \A r \in RowsOf(list') : r.unread = List!Unread(r.chat)'
  BY <1>3, <1>4 DEF ListInv
<1>6. ASSUME NEW d \in DOMAIN counts', counts'[d] # 0
      PROVE  \E r \in RowsOf(list') : r.chat = d
  <2>1. d # c /\ \E r \in RowsOf(list) : r.chat = d
    BY <1>4, <1>6 DEF ListInv
  <2>2. QED
    BY <1>3, <2>1
<1>7. QED
  BY <1>1, <1>3, <1>4, <1>5, <1>6 DEF ListInv

LEMMA ListPresence ==
    ASSUME ListInv, NEW c \in Conversations, NEW online \in BOOLEAN,
           List!SetPresence(c, online)
    PROVE  ListInv'
<1> DEFINE i == List!RowOf(c)
           row == [list[i] EXCEPT !.online = online]
<1>1. /\ i # 0 /\ list' = [list EXCEPT ![i] = row] /\ counts' = counts
      /\ index' = index /\ restarts' = restarts /\ (~armed' => ~armed)
      /\ unsaved' = unsaved
  BY DEF List!SetPresence
<1>2. i \in 1..Len(list)
  BY <1>1, RowOfIs DEF ListInv
<1> HIDE DEF i
<1>3. list[i] \in ListRow
  BY <1>2 DEF ListInv
<1>4. /\ row \in ListRow /\ row.chat = list[i].chat /\ row.stamp = list[i].stamp
      /\ row.unread = list[i].unread
  BY <1>3 DEF ListRow
<1> HIDE DEF row
<1>5. /\ list' \in Seq(ListRow) /\ Len(list') = Len(list)
      /\ \A k \in 1..Len(list) : list'[k] = IF k = i THEN row ELSE list[k]
  BY <1>1, <1>2, <1>4 DEF ListInv
<1>6. \A k \in 1..Len(list) : /\ list'[k].chat = list[k].chat
                              /\ list'[k].stamp = list[k].stamp
                              /\ list'[k].unread = list[k].unread
  BY <1>4, <1>5
<1>7. Once(list') /\ (Ordered(list) => Ordered(list'))
  BY <1>5, <1>6, PlacewiseKeeps DEF Placewise, ListInv
<1>8. \A d : List!Unread(d)' = List!Unread(d)
  BY <1>1 DEF List!Unread, List!Value
<1>9. \A r \in RowsOf(list') : r.unread = List!Unread(r.chat)'
  <2>1. \A k \in 1..Len(list) : list[k].unread = List!Unread(list[k].chat)
    BY DEF ListInv, RowsOf
  <2>2. QED
    BY <1>5, <1>6, <1>8, <2>1 DEF RowsOf
<1>10. ASSUME NEW d, \E r \in RowsOf(list) : r.chat = d
       PROVE  \E r \in RowsOf(list') : r.chat = d
  BY <1>5, <1>6, <1>10 DEF RowsOf
<1>11. List!Lasting(list') = List!Lasting(list)
  <2>1. DOMAIN list' = 1..Len(list) /\ DOMAIN list = 1..Len(list)
    BY <1>5 DEF ListInv
  <2>2. QED
    BY <1>6, <2>1 DEF List!Lasting
<1>12. List!Lasting(index') = List!Lasting(index)
  BY <1>1
<1>13. QED
  BY <1>1, <1>5, <1>7, <1>9, <1>10, <1>11, <1>12 DEF ListInv

\* A save that does not reach the disk claims nothing any more.
LEMMA ListSaveMissed ==
    ASSUME ListInv, List!Save, UNCHANGED index, unsaved' = TRUE PROVE ListInv'
<1>1. list' = list /\ counts' = counts /\ restarts' = restarts
  BY DEF List!Save
<1>2. \A d : List!Unread(d)' = List!Unread(d)
  BY <1>1 DEF List!Unread, List!Value
<1>3. QED
  BY <1>1, <1>2 DEF ListInv

LEMMA ListSave ==
    ASSUME ListInv, List!Save, index' = List!IndexOf(list) PROVE ListInv'
<1> DEFINE w(k) == [list[k] EXCEPT !.online = FALSE]
<1>1. /\ index' = [k \in DOMAIN list |-> w(k)] /\ list' = list
      /\ counts' = counts /\ restarts' = restarts
  BY DEF List!Save, List!IndexOf, List!Written
<1>2. DOMAIN list = 1..Len(list) /\ Len(list) \in Nat
      /\ \A k \in 1..Len(list) : list[k] \in ListRow
  BY DEF ListInv
<1>3. \A k \in 1..Len(list) :
          /\ w(k) \in ListRow /\ w(k).chat = list[k].chat
          /\ w(k).stamp = list[k].stamp /\ w(k).unread = list[k].unread
  BY <1>2 DEF ListRow
<1> HIDE DEF w
<1>4. index' \in Seq(ListRow) /\ Len(index') = Len(list)
      /\ \A k \in 1..Len(list) : index'[k] = w(k)
  BY <1>1, <1>2, <1>3
<1>5. Once(index')
  BY <1>3, <1>4, PlacewiseKeeps DEF Placewise, ListInv
<1>6. List!Lasting(index') = List!Lasting(list')
  <2>1. DOMAIN index' = 1..Len(list) /\ DOMAIN list' = 1..Len(list)
    BY <1>1, <1>2
  <2>2. QED
    BY <1>1, <1>3, <1>4, <2>1 DEF List!Lasting
<1>7. \A d : List!Unread(d)' = List!Unread(d)
  BY <1>1 DEF List!Unread, List!Value
<1>8. QED
  BY <1>1, <1>4, <1>5, <1>6, <1>7 DEF ListInv
-----------------------------------------------------------------------------
\* A row of a list, field by field.
LEMMA RowAt ==
    ASSUME NEW s \in Seq(ListRow), NEW i \in 1..Len(s)
    PROVE  /\ s[i] \in ListRow /\ s[i].chat \in Conversations
           /\ s[i].unread \in Nat /\ s[i] \in RowsOf(s)
<1>1. s[i] \in ListRow
  OBVIOUS
<1>2. ASSUME NEW r \in ListRow PROVE r.chat \in Conversations /\ r.unread \in Nat
  BY DEF ListRow
<1>3. QED
  BY <1>1, <1>2 DEF RowsOf

LEMMA ListMessage ==
    ASSUME ListInv, NEW c \in Conversations, NEW own \in BOOLEAN, NEW stamp \in Nat,
           List!Message(c, own, stamp)
    PROVE  ListInv'
<1> DEFINE count == IF own THEN List!Unread(c) ELSE List!Unread(c) + 1
           i == List!RowOf(c)
           s == IF own THEN list ELSE List!Told(c, count)
<1>1. /\ counts' = (IF own THEN counts ELSE List!Counted(c, count))
      /\ list' = IF i = 0 THEN List!Placed(list, List!NewRow(c, stamp, count))
                 ELSE List!Noted(s, i, stamp)
      /\ armed' = TRUE /\ index' = index /\ restarts' = restarts
  BY DEF List!Message, List!ScheduleSave
<1>2. List!Unread(c) \in Nat /\ count \in Nat
  BY UnreadIs
<1>3. (i # 0 => i \in 1..Len(list) /\ list[i].chat = c)
      /\ (i = 0 => \A r \in RowsOf(list) : r.chat # c)
  BY RowOfIs DEF ListInv
<1> HIDE DEF i
<1>4. /\ DOMAIN counts' \subseteq Conversations
      /\ \A d \in DOMAIN counts' : counts'[d] \in Nat
      /\ \A d : List!Unread(d)' = IF d = c THEN count ELSE List!Unread(d)
      /\ \A d \in DOMAIN counts' : counts'[d] # 0 =>
             d = c \/ (d \in DOMAIN counts /\ counts[d] # 0)
      /\ \A r \in RowsOf(s) : r.unread = List!Unread(r.chat)'
      /\ {r.chat : r \in RowsOf(s)} = {r.chat : r \in RowsOf(list)}
      /\ s \in Seq(ListRow) /\ Once(s) /\ (Ordered(list) => Ordered(s))
  <2>1. CASE own
    <3>1. counts' = counts /\ s = list /\ count = List!Unread(c)
      BY <1>1, <2>1
    <3>2. \A d : List!Unread(d)' = List!Unread(d)
      BY <3>1 DEF List!Unread, List!Value
    <3> HIDE DEF s, count
    <3>3. QED
      BY <3>1, <3>2 DEF ListInv
  <2>2. CASE ~own
    <3>1. counts' = List!Counted(c, count) /\ s = List!Told(c, count)
      BY <1>1, <2>2
    <3> HIDE DEF s, count
    <3>2. QED
      BY <1>2, <3>1, CountTold
  <2>3. QED
    BY <2>1, <2>2
<1>5. i # 0 => i \in 1..Len(s) /\ s[i].chat = c
  <2>1. CASE own
    BY <1>3, <2>1
  <2>2. CASE ~own
    BY <1>2, <1>3, <2>2, ToldIs DEF Placewise, ListInv
  <2>3. QED
    BY <2>1, <2>2
<1> HIDE DEF s, count
<1>6. CASE i = 0
  <2> DEFINE row == List!NewRow(c, stamp, count)
  <2>1. row \in ListRow /\ row.chat = c /\ row.unread = count
    BY <1>2 DEF List!NewRow, ListRow
  <2> HIDE DEF row
  <2>2. /\ list' \in Seq(ListRow) /\ Once(list') /\ (Ordered(list) => Ordered(list'))
        /\ RowsOf(list') = RowsOf(list) \cup {row}
    BY <1>1, <1>3, <1>6, <2>1, PlacedIs DEF ListInv, row
  <2>3. \A r \in RowsOf(list') : r.unread = List!Unread(r.chat)'
    <3>1. \A r \in RowsOf(list) : r.unread = List!Unread(r.chat) /\ r.chat # c
      BY <1>3, <1>6 DEF ListInv
    <3>2. QED
      BY <1>4, <2>1, <2>2, <3>1
  <2>4. ASSUME NEW d \in DOMAIN counts', counts'[d] # 0
        PROVE  \E r \in RowsOf(list') : r.chat = d
    <3>1. CASE d = c
      BY <2>1, <2>2, <3>1
    <3>2. CASE d # c
      BY <1>4, <2>2, <2>4, <3>2 DEF ListInv
    <3>3. QED
      BY <3>1, <3>2
  <2>5. QED
    BY <1>1, <1>4, <2>2, <2>3, <2>4 DEF ListInv
<1>7. CASE i # 0
  <2>1. /\ list' \in Seq(ListRow) /\ Once(list') /\ (Ordered(s) => Ordered(list'))
        /\ \E row \in ListRow :
              /\ row.chat = s[i].chat /\ row.unread = s[i].unread
              /\ RowsOf(list') = {r \in RowsOf(s) : r.chat # s[i].chat} \cup {row}
    BY <1>1, <1>4, <1>5, <1>7, NotedIs
  <2>2. PICK row \in ListRow :
            /\ row.chat = c /\ row.unread = s[i].unread
            /\ RowsOf(list') = {r \in RowsOf(s) : r.chat # c} \cup {row}
    BY <1>5, <1>7, <2>1
  <2>3. s[i] \in RowsOf(s)
    BY <1>5, <1>7 DEF RowsOf
  <2>4. \A r \in RowsOf(list') : r.unread = List!Unread(r.chat)'
    <3>1. s[i].unread = count
      BY <1>4, <1>5, <1>7, <2>3
    <3>2. row.unread = List!Unread(row.chat)'
      <4>1. List!Unread(row.chat)' = count
        BY <1>4, <2>2
      <4>2. QED
        BY <2>2, <3>1, <4>1
    <3>3. QED
      BY <1>4, <2>2, <3>2
  <2>5. ASSUME NEW d \in DOMAIN counts', counts'[d] # 0
        PROVE  \E r \in RowsOf(list') : r.chat = d
    <3>1. CASE d = c
      BY <2>2, <3>1
    <3>2. CASE d # c
      <4>1. \E r \in RowsOf(list) : r.chat = d
        BY <1>4, <2>5, <3>2 DEF ListInv
      <4>2. d \in {r.chat : r \in RowsOf(s)}
        BY <1>4, <4>1
      <4>3. QED
        BY <2>2, <3>2, <4>2
    <3>3. QED
      BY <3>1, <3>2
  <2>6. QED
    BY <1>1, <1>4, <2>1, <2>4, <2>5 DEF ListInv
<1>8. QED
  BY <1>6, <1>7

\* The counts a restart finds in the rows are those of the rows.
LEMMA RestoredIs ==
    ASSUME NEW s \in Seq(ListRow), Once(s)
    PROVE  /\ DOMAIN List!Restored(s) \subseteq Conversations
           /\ \A c \in DOMAIN List!Restored(s) :
                  /\ List!Restored(s)[c] \in Nat
                  /\ \E r \in RowsOf(s) : r.chat = c
           /\ \A r \in RowsOf(s) : List!Value(List!Restored(s), r.chat, 0) = r.unread
<1> DEFINE some == {i \in DOMAIN s : s[i].unread > 0}
           at(c) == CHOOSE i \in some : s[i].chat = c
           h == List!Restored(s)
<1>1. DOMAIN s = 1..Len(s) /\ \A i \in 1..Len(s) :
          s[i] \in ListRow /\ s[i].chat \in Conversations /\ s[i].unread \in Nat
  BY RowAt
<1>2. h = [c \in {s[i].chat : i \in some} |-> s[at(c)].unread]
  BY DEF List!Restored
<1>3. some \in SUBSET (1..Len(s)) /\ \A i \in 1..Len(s) : i \in some <=> s[i].unread > 0
  BY <1>1
<1> HIDE DEF some, h
<1>4. ASSUME NEW c, \E i \in some : s[i].chat = c PROVE at(c) \in some /\ s[at(c)].chat = c
  BY <1>4
<1>5. \A i \in some : at(s[i].chat) = i
  BY <1>3, <1>4 DEF Once
<1>6. ASSUME NEW c \in DOMAIN h
      PROVE  /\ c \in Conversations /\ h[c] \in Nat /\ \E r \in RowsOf(s) : r.chat = c
  <2>1. PICK i \in some : s[i].chat = c
    BY <1>2
  <2>2. h[c] = s[i].unread
    <3>1. h[c] = s[at(c)].unread
      BY <1>2
    <3>2. at(c) = i
      BY <1>5, <2>1
    <3>3. QED
      BY <3>1, <3>2
  <2>3. s[i] \in RowsOf(s)
    BY <1>3 DEF RowsOf
  <2>4. QED
    BY <1>1, <1>3, <2>1, <2>2, <2>3
<1>7. ASSUME NEW i \in 1..Len(s) PROVE List!Value(h, s[i].chat, 0) = s[i].unread
  <2>1. CASE i \in some
    <3>1. s[i].chat \in DOMAIN h /\ h[s[i].chat] = s[i].unread
      BY <1>2, <1>5, <2>1
    <3>2. QED
      BY <3>1 DEF List!Value
  <2>2. CASE i \notin some
    <3>1. s[i].unread = 0
      BY <1>1, <1>3, <2>2
    <3>2. s[i].chat \notin DOMAIN h
      BY <1>2, <1>3, <2>2 DEF Once
    <3>3. QED
      BY <3>1, <3>2 DEF List!Value
  <2>3. QED
    BY <2>1, <2>2
<1>8. \A r \in RowsOf(s) : List!Value(h, r.chat, 0) = r.unread
  BY <1>7 DEF RowsOf
<1>9. QED
  BY <1>6, <1>8 DEF h

LEMMA ListRestart == ASSUME ListInv, List!Restart PROVE ListInv'
<1>1. /\ list' = List!Loaded(index) /\ counts' = List!Restored(list')
      /\ restarts' = 1 /\ index' = index
  BY DEF List!Restart
<1>2. list' \in Seq(ListRow) /\ Once(list') /\ RowsOf(list') = RowsOf(index)
  BY <1>1, LoadedIs DEF ListInv
<1>3. /\ DOMAIN counts' \subseteq Conversations
      /\ \A c \in DOMAIN counts' :
             counts'[c] \in Nat /\ \E r \in RowsOf(list') : r.chat = c
      /\ \A r \in RowsOf(list') : List!Value(counts', r.chat, 0) = r.unread
  BY <1>1, <1>2, RestoredIs
<1>4. List!Lasting(index') = List!Lasting(list')
  BY <1>1, <1>2, LastingIs DEF ListInv
<1>5. \A d : List!Unread(d)' = List!Value(counts', d, 0)
  BY DEF List!Unread
<1>6. QED
  BY <1>1, <1>2, <1>3, <1>4, <1>5 DEF ListInv

LEMMA ListNext ==
    ASSUME MCChatsAssumption, ListInv, [List!Next]_listVars PROVE ListInv'
<1> USE DEF Conversations, MCChatsAssumption
<1>1. ASSUME NEW c \in Conversations,
             List!OpenChat(c) \/ List!MarkRead(c) \/ List!DropChatLocally(c)
      PROVE  ListInv'
  BY <1>1, ListOpen, ListRead, ListDrop
<1>2. ASSUME NEW c \in Conversations, NEW own \in BOOLEAN, NEW stamp \in 1..ListStamp,
             List!Message(c, own, stamp)
      PROVE  ListInv'
  BY <1>2, ListMessage
<1>3. ASSUME NEW c \in Conversations, NEW online \in BOOLEAN,
             List!SetPresence(c, online)
      PROVE  ListInv'
  BY <1>3, ListPresence
<1>4. CASE List!Save
  BY <1>4, ListSave, ListSaveMissed DEF List!Save, List!WriteIndex
<1>5. CASE List!Restart
  BY <1>5, ListRestart
<1>6. CASE UNCHANGED listVars
  <2>1. /\ list' = list /\ counts' = counts /\ index' = index
        /\ armed' = armed /\ unsaved' = unsaved /\ restarts' = restarts
    BY <1>6 DEF listVars
  <2>2. \A d : List!Unread(d)' = List!Unread(d)
    BY <2>1 DEF List!Unread, List!Value
  <2>3. List!Lasting(list') = List!Lasting(list) /\ List!Lasting(index') = List!Lasting(index)
    BY <2>1
  <2>4. QED
    BY <2>1, <2>2, <2>3 DEF ListInv
<1>7. QED
  BY <1>1, <1>2, <1>3, <1>4, <1>5, <1>6 DEF List!Next

\* The badges add up to the counts.
LEMMA BadgesHold == ASSUME ListInv PROVE List!BadgesAgree
<1> DEFINE n == Len(list)
           S == 1..n
           g == [i \in DOMAIN list |-> list[i].unread]
           h == [i \in S |-> list[i].chat]
           P == {i \in S : list[i].unread # 0}
           Q == {h[i] : i \in P}
           D == DOMAIN counts
<1>1. /\ DOMAIN list = S /\ n \in Nat /\ \A i \in S : list[i].unread \in Nat
      /\ \A i \in S : list[i] \in RowsOf(list)
      /\ \A i, j \in S : list[i].chat = list[j].chat => i = j
  <2>1. list \in Seq(ListRow) /\ Once(list)
    BY DEF ListInv
  <2>2. \A i \in S : list[i].unread \in Nat /\ list[i] \in RowsOf(list)
    BY <2>1, RowAt
  <2>3. QED
    BY <2>1, <2>2 DEF Once
<1>2. \A i \in S : list[i].unread = List!Unread(list[i].chat)
  BY <1>1 DEF ListInv
<1>3. ASSUME NEW i \in S PROVE List!RowOf(list[i].chat) = i
  <2>1. \E r \in RowsOf(list) : r.chat = list[i].chat
    BY <1>1
  <2>2. List!RowOf(list[i].chat) # 0
    BY <2>1, RowOfIs DEF ListInv
  <2>3. List!RowOf(list[i].chat) \in S
        /\ list[List!RowOf(list[i].chat)].chat = list[i].chat
    BY <2>2, RowOfIs DEF ListInv
  <2>4. QED
    BY <1>1, <2>3
<1>4. IsFiniteSet(S) /\ P \in SUBSET S /\ IsFiniteSet(P)
  <2>1. IsFiniteSet(S)
    BY <1>1, FS_Interval
  <2>2. QED
    BY <2>1, FS_Subset
<1>5. IsFiniteSet(D)
  <2>1. IsFiniteSet(Conversations)
    <3>1. IsFiniteSet({Peer})
      BY FS_EmptySet, FS_AddElement, {} \cup {Peer} = {Peer}
    <3>2. IsFiniteSet({Peer} \cup {Room})
      BY <3>1, FS_AddElement
    <3>3. IsFiniteSet({Peer} \cup {Room} \cup {Space})
      BY <3>2, FS_AddElement
    <3>4. Conversations = {Peer} \cup {Room} \cup {Space}
      BY DEF Conversations
    <3>5. QED
      BY <3>3, <3>4
  <2>2. QED
    BY <2>1, FS_Subset DEF ListInv
<1>6. List!SumOf(g) = SumOn(g, S)
  BY <1>1, SumIsFold DEF SumOn
<1>7. List!Total = SumOn(counts, D)
  BY SumIsFold DEF SumOn, List!Total
<1>8. \A i \in S : g[i] = list[i].unread /\ g[i] \in Nat /\ h[i] = list[i].chat
  BY <1>1
<1>9. \A i \in P : h[i] \in D /\ counts[h[i]] = g[i] /\ g[i] \in Nat
  <2> SUFFICES ASSUME NEW i \in P
               PROVE  h[i] \in D /\ counts[h[i]] = g[i] /\ g[i] \in Nat
    OBVIOUS
  <2>1. List!Value(counts, h[i], 0) = g[i] /\ g[i] # 0
    BY <1>2, <1>8 DEF List!Unread
  <2>2. QED
    BY <1>8, <2>1 DEF List!Value
<1>10. ASSUME NEW c \in D, c \notin Q PROVE counts[c] = 0
  <2> SUFFICES ASSUME counts[c] # 0 PROVE FALSE
    OBVIOUS
  <2>1. PICK r \in RowsOf(list) : r.chat = c
    BY DEF ListInv
  <2>2. PICK i \in S : list[i] = r
    BY DEF RowsOf
  <2>3. list[i].unread = counts[c]
    BY <1>2, <2>1, <2>2 DEF List!Unread, List!Value
  <2>4. i \in P /\ h[i] = c
    BY <1>8, <2>1, <2>2, <2>3
  <2>5. QED
    BY <1>10, <2>4
<1>11. \A x, y \in P : h[x] = h[y] => x = y
  BY <1>1, <1>8
<1>12. \A i \in S \ P : g[i] = 0
  BY <1>8
<1>13. \A c \in D : counts[c] \in Nat
  BY DEF ListInv
<1>14. Q \in SUBSET D
  BY <1>9
<1> HIDE DEF S, g, h, P, D
<1>15. SumOn(g, S) = SumOn(g, P)
  BY <1>4, <1>8, <1>12, SumZeros
<1>16. SumOn(g, P) = SumOn(counts, Q)
  BY <1>4, <1>9, <1>11, SumRenamed
<1> HIDE DEF Q
<1>17. SumOn(counts, D) = SumOn(counts, Q)
  BY <1>5, <1>10, <1>13, <1>14, SumZeros
<1>18. List!Total = List!SumOf(g)
  BY <1>6, <1>7, <1>15, <1>16, <1>17
<1>19. QED
  BY <1>1, <1>2, <1>3, <1>18 DEF List!BadgesAgree, g

LEMMA ListHolds == ASSUME ListInv PROVE ListTrue
<1>1. DOMAIN list = 1..Len(list) /\ \A i \in 1..Len(list) : list[i].chat \in Conversations
  BY RowAt DEF ListInv
<1>2. ASSUME Ordered(list) PROVE List!SectionsInOrder
  <2> DEFINE Grp == [c \in {Peer, Room, Space} |-> IF c = Peer THEN 0 ELSE 1]
  <2>1. \A c \in Conversations : Grp[c] = Section(c)
    BY DEF Conversations, Section
  <2>2. ASSUME NEW i \in 1..Len(list), NEW j \in 1..Len(list), i < j
        PROVE  List!Before(list[i], list[j])
    <3>1. Sorted(list[i], list[j])
      BY <1>2, <2>2 DEF Ordered
    <3>2. QED
      BY <1>1, <2>1, <3>1 DEF Sorted, List!Before
  <2>3. QED
    BY <1>1, <2>2 DEF List!SectionsInOrder
<1>3. List!SortedUntilRestart
  BY <1>2 DEF List!SortedUntilRestart, ListInv
<1>4. List!IndexSettled
  BY DEF List!IndexSettled, ListInv
<1>5. QED
  BY <1>3, <1>4, BadgesHold DEF ListTrue, List!ListTrue

\* Every row shows the count of its conversation, the rows add up to the total
\* of the tray, the sections are in order until a restart, and with no save due
\* and the last one on the disk the index says what the list does
\* (ChatListModel, UnreadManager).
THEOREM ListAlwaysTrue == List!Init /\ [][List!Next]_listVars => []ListTrue
<1>1. List!Init => ListInv
  BY ListInit
<1>2. ListInv /\ [List!Next]_listVars => ListInv'
  BY ListNext, MCChatsAssumption
<1>3. ListInv => ListTrue
  BY ListHolds
<1>4. QED
  BY <1>1, <1>2, <1>3, PTL
-----------------------------------------------------------------------------
\* The run's behaviours are of one of the three parts, and all of the above
\* holds in each.
ChatsHold == TallyTrue /\ LogIsWhole /\ ScreenTrue /\ ListTrue /\ PopupsHeld
AllInv == ScreenInv /\ ListInv /\ DeskInv

\* What the timeline, the list and the desktop promise is kept together, however
\* they take turns (ChatModel, ChatListModel, NotificationManager).
THEOREM ChatsAlwaysHold == MCSpec => []ChatsHold
<1>1. MCInit => AllInv
  BY ScreenInit, ListInit, DeskInit, ChatTimelineAssumption DEF MCInit, AllInv
<1>2. AllInv /\ [MCNext]_allVars => AllInv'
  <2> SUFFICES ASSUME AllInv, [MCNext]_allVars PROVE AllInv'
    OBVIOUS
  <2>1. [Next]_vars /\ [List!Next]_listVars /\ [Desk!Next]_deskVars
    BY DEF MCNext, allVars
  <2>2. QED
    BY <2>1, ScreenNext, ListNext, DeskNext, ChatTimelineAssumption, MCChatsAssumption
    DEF AllInv
<1>3. AllInv => ChatsHold
  <2>1. DeskInv => PopupsHeld
    BY DEF DeskInv
  <2>2. QED
    BY <2>1, ScreenHolds, LogHolds, RowsTallied, ListHolds
    DEF AllInv, ChatsHold, ScreenInv, LogInv
<1>4. QED
  BY <1>1, <1>2, <1>3, PTL DEF MCSpec
=============================================================================
