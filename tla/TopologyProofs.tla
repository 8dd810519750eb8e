--------------------------- MODULE TopologyProofs ---------------------------
(***************************************************************************)
(* Proofs about Topology, for every set of nodes, number of layers,        *)
(* configuration, seed and permutation drawn from it.                      *)
(*                                                                         *)
(* Nothing is computed by recursion, so that no induction is needed: the   *)
(* order of a set is the rank of its elements, the places that layers have *)
(* left are counted, and what is placed once is an injection.              *)
(***************************************************************************)
EXTENDS Topology, TLAPS, FiniteSetTheorems, FunctionTheorems, SequenceTheorems

Rank(set, n) == Cardinality({m \in set : m <= n})

-----------------------------------------------------------------------------
(* Elements of a set of numbers have different ranks, in their order.      *)
LEMMA RankFacts ==
  ASSUME NEW set, IsFiniteSet(set), set \subseteq Int
  PROVE  /\ Cardinality(set) \in Nat
         /\ \A n \in set : Rank(set, n) \in 1 .. Cardinality(set)
         /\ \A n, m \in set : n < m => Rank(set, n) < Rank(set, m)
         /\ \A n, m \in set : Rank(set, n) = Rank(set, m) => n = m
<1> DEFINE UpTo(n) == {m \in set : m <= n}
<1>1. \A n : IsFiniteSet(UpTo(n)) /\ Cardinality(UpTo(n)) \in Nat
                /\ Cardinality(UpTo(n)) <= Cardinality(set)
  BY FS_Subset, FS_CardinalityType
<1>2. \A n \in set : Cardinality(UpTo(n)) # 0
  BY <1>1, FS_EmptySet
<1>3. ASSUME NEW n \in set, NEW m \in set, n < m
      PROVE  Cardinality(UpTo(n)) < Cardinality(UpTo(m))
  <2>1. UpTo(n) \in SUBSET UpTo(m)
    <3>1. \A k \in set : k \in Int OBVIOUS
    <3>2. \A k \in set : k <= n => k <= m BY <1>3, <3>1
    <3> QED BY <3>2
  <2>2. m \in UpTo(m) /\ m \notin UpTo(n) BY <1>3
  <2>3. Cardinality(UpTo(n)) <= Cardinality(UpTo(m))
          /\ (Cardinality(UpTo(m)) = Cardinality(UpTo(n)) => UpTo(m) = UpTo(n))
    BY <1>1, <2>1, FS_Subset
  <2> QED BY <1>1, <2>2, <2>3
<1>4. Cardinality(set) \in Nat BY FS_CardinalityType
<1>5. \A n : Rank(set, n) = Cardinality(UpTo(n)) BY DEF Rank
<1> HIDE DEF UpTo
<1>6. \A n, m \in set : n < m => Rank(set, n) < Rank(set, m) BY <1>3, <1>5
<1>7. \A n \in set : Rank(set, n) \in 1 .. Cardinality(set) BY <1>1, <1>2, <1>4, <1>5
<1> QED BY <1>4, <1>6, <1>7

(* Ascending lists every element of a set once, in order.                  *)
LEMMA AscendingFacts ==
  ASSUME NEW set, IsFiniteSet(set), set \subseteq Int
  PROVE  /\ Ascending(set) \in [1 .. Cardinality(set) -> set]
         /\ \A n \in set : \E i \in 1 .. Cardinality(set) : Ascending(set)[i] = n
         /\ \A i, j \in 1 .. Cardinality(set) : i < j => Ascending(set)[i] < Ascending(set)[j]
<1> DEFINE size == Cardinality(set)
           rank == [n \in set |-> Rank(set, n)]
<1>1. size \in Nat /\ rank \in [set -> 1 .. size]
        /\ \A n, m \in set : rank[n] = rank[m] => n = m
  BY RankFacts
<1>2. rank \in Injection(set, 1 .. size) BY <1>1, Fun_IsInj
<1>3. IsFiniteSet(1 .. size) /\ Cardinality(1 .. size) = size BY <1>1, FS_Interval
<1>4. rank \in Surjection(set, 1 .. size) BY <1>2, <1>3, FS_Injection
<1>5. \A i \in 1 .. size : \E n \in set : Rank(set, n) = i
  <2>1. \A i \in 1 .. size : \E n \in set : rank[n] = i BY <1>4 DEF Surjection
  <2> QED BY <2>1
<1>6. \A i \in 1 .. size : /\ Ascending(set)[i] \in set
                           /\ Rank(set, Ascending(set)[i]) = i
  BY <1>5 DEF Ascending, Rank
<1>7. Ascending(set) \in [1 .. size -> set] BY <1>6 DEF Ascending
<1>8. \A n \in set : Rank(set, n) \in 1 .. size BY RankFacts
<1>9. \A n \in set : Ascending(set)[Rank(set, n)] = n BY <1>6, <1>8, RankFacts
<1>10. ASSUME NEW i \in 1 .. size, NEW j \in 1 .. size, i < j
       PROVE  Ascending(set)[i] < Ascending(set)[j]
  <2>1. Ascending(set)[i] \in Int /\ Ascending(set)[j] \in Int BY <1>6
  <2>2. Ascending(set)[j] < Ascending(set)[i] => j < i
    <3>1. \A n, m \in set : n < m => Rank(set, n) < Rank(set, m) BY RankFacts
    <3> QED BY <1>6, <3>1
  <2>3. Ascending(set)[j] # Ascending(set)[i] BY <1>6, <1>10
  <2> QED BY <1>1, <1>10, <2>1, <2>2, <2>3
<1> QED BY <1>7, <1>8, <1>9, <1>10

(* The elements of a sequence that has none twice are as many as it is     *)
(* long.                                                                   *)
LEMMA RangeSize ==
  ASSUME NEW X, NEW seq \in Seq(X), IsInjective(seq)
  PROVE  IsFiniteSet(Range(seq)) /\ Cardinality(Range(seq)) = Len(seq)
<1>1. Len(seq) \in Nat /\ DOMAIN seq = 1 .. Len(seq) /\ seq \in [1 .. Len(seq) -> X]
  BY LenProperties
<1>2. seq \in [1 .. Len(seq) -> Range(seq)]
        /\ \A n \in Range(seq) : \E i \in 1 .. Len(seq) : seq[i] = n
  BY <1>1 DEF Range
<1>3. seq \in Surjection(1 .. Len(seq), Range(seq)) BY <1>2, Fun_IsSurj
<1>4. seq \in Injection(1 .. Len(seq), Range(seq)) BY <1>1, <1>2, Fun_IsInj DEF IsInjective
<1>5. IsFiniteSet(1 .. Len(seq)) /\ Cardinality(1 .. Len(seq)) = Len(seq)
  BY <1>1, FS_Interval
<1> QED BY <1>3, <1>4, <1>5, FS_Surjection

LEMMA AmongFacts ==
  ASSUME NEW X, NEW seq \in Seq(X), NEW set
  PROVE  /\ Among(seq, set) \in Seq(X)
         /\ Range(Among(seq, set)) = Range(seq) \cap set
         /\ IsInjective(seq) => IsInjective(Among(seq, set))
<1> DEFINE found == {i \in DOMAIN seq : seq[i] \in set}
           places == Ascending(found)
           size == Cardinality(found)
<1>1. Len(seq) \in Nat /\ DOMAIN seq = 1 .. Len(seq) /\ seq \in [1 .. Len(seq) -> X]
  BY LenProperties
<1>2. found \in SUBSET (1 .. Len(seq)) /\ found \subseteq Int BY <1>1
<1>3. IsFiniteSet(found) /\ size \in Nat
  <2>1. IsFiniteSet(1 .. Len(seq)) BY <1>1, FS_Interval
  <2> QED BY <1>2, <2>1, FS_Subset, FS_CardinalityType
<1>4. /\ places \in [1 .. size -> found]
      /\ \A n \in found : \E i \in 1 .. size : places[i] = n
      /\ \A i, j \in 1 .. size : i < j => places[i] < places[j]
  <2> HIDE DEF found
  <2> QED BY <1>2, <1>3, AscendingFacts
<1>5. Among(seq, set) = [i \in 1 .. size |-> seq[places[i]]]
  <2>1. DOMAIN places = 1 .. size BY <1>4
  <2> QED BY <2>1 DEF Among
<1>6. \A n \in found : n \in 1 .. Len(seq) /\ seq[n] \in set /\ seq[n] \in X BY <1>1
<1>7. \A n \in 1 .. Len(seq) : seq[n] \in set => n \in found BY <1>1
<1> HIDE DEF found, places, size
<1>8. Among(seq, set) \in [1 .. size -> X] BY <1>4, <1>5, <1>6
<1>9. Among(seq, set) \in Seq(X) BY <1>3, <1>8
<1>10. Range(Among(seq, set)) = Range(seq) \cap set
  <2>1. ASSUME NEW i \in 1 .. size PROVE seq[places[i]] \in Range(seq) \cap set
    BY <1>1, <1>4, <1>6 DEF Range
  <2>2. ASSUME NEW n \in Range(seq) \cap set
        PROVE  \E i \in 1 .. size : seq[places[i]] = n
    <3>1. PICK k \in 1 .. Len(seq) : seq[k] = n BY <1>1 DEF Range
    <3> QED BY <3>1, <1>4, <1>7
  <2>3. Range(Among(seq, set)) = {seq[places[i]] : i \in 1 .. size} BY <1>5 DEF Range
  <2> QED BY <2>1, <2>2, <2>3
<1>11. ASSUME IsInjective(seq) PROVE IsInjective(Among(seq, set))
  <2> SUFFICES ASSUME NEW i \in 1 .. size, NEW j \in 1 .. size,
                      seq[places[i]] = seq[places[j]]
               PROVE  i = j
    BY <1>5 DEF IsInjective
  <2>1. places[i] = places[j] BY <1>1, <1>4, <1>6, <1>11 DEF IsInjective
  <2>2. places[i] \in Int /\ places[j] \in Int BY <1>2, <1>4
  <2> QED BY <1>3, <1>4, <2>1, <2>2
<1> QED BY <1>9, <1>10, <1>11

LEMMA UptoFacts ==
  ASSUME NEW X, NEW seq \in Seq(X), NEW n \in Nat
  PROVE  /\ Upto(seq, n) \in Seq(X)
         /\ Len(Upto(seq, n)) = IF Len(seq) <= n THEN Len(seq) ELSE n
         /\ Range(Upto(seq, n)) \subseteq Range(seq)
         /\ IsInjective(seq) => IsInjective(Upto(seq, n))
<1> DEFINE size == IF Len(seq) <= n THEN Len(seq) ELSE n
<1>1. Len(seq) \in Nat /\ DOMAIN seq = 1 .. Len(seq) /\ \A i \in 1 .. Len(seq) : seq[i] \in X
  BY LenProperties
<1>2. size \in Nat /\ size <= Len(seq) BY <1>1
<1>3. /\ Upto(seq, n) \in Seq(X) /\ Len(Upto(seq, n)) = size
      /\ \A i \in 1 .. size : Upto(seq, n)[i] = seq[i]
  BY <1>1, <1>2, SubSeqProperties DEF Upto
<1>4. DOMAIN Upto(seq, n) = 1 .. size BY <1>3, LenProperties
<1>5. Range(Upto(seq, n)) \subseteq Range(seq) BY <1>1, <1>2, <1>3, <1>4 DEF Range
<1>6. IsInjective(seq) => IsInjective(Upto(seq, n)) BY <1>1, <1>2, <1>3, <1>4 DEF IsInjective
<1> QED BY <1>3, <1>5, <1>6

(* A permutation drawn from the reader changes the order alone.            *)
LEMMA ShuffledFacts ==
  ASSUME NEW X, NEW seq \in Seq(X), srv \in Seeds,
         NEW lengths \in Lengths, lengths[Len(lengths)] = Len(seq)
  PROVE  /\ Shuffled(seq, lengths) \in Seq(X)
         /\ Len(Shuffled(seq, lengths)) = Len(seq)
         /\ Range(Shuffled(seq, lengths)) = Range(seq)
         /\ IsInjective(seq) => IsInjective(Shuffled(seq, lengths))
<1> DEFINE indexes == 1 .. Len(seq)
           perm == Perm(srv, lengths)
<1>1. Len(seq) \in Nat /\ DOMAIN seq = indexes /\ \A i \in indexes : seq[i] \in X
  BY LenProperties
<1>2. perm \in Bijection(indexes, indexes) BY PermAssumption
<1>3. /\ perm \in [indexes -> indexes]
      /\ \A i, j \in indexes : perm[i] = perm[j] => i = j
      /\ \A k \in indexes : \E i \in indexes : perm[i] = k
  BY <1>2 DEF Bijection, Injection, Surjection, IsInjective
<1> HIDE DEF perm
<1>4. Shuffled(seq, lengths) = [i \in indexes |-> seq[perm[i]]] BY DEF Shuffled, perm
<1>5. Shuffled(seq, lengths) \in [indexes -> X] BY <1>1, <1>3, <1>4
<1>6. Shuffled(seq, lengths) \in Seq(X) /\ Len(Shuffled(seq, lengths)) = Len(seq)
  BY <1>1, <1>5
<1>7. Range(Shuffled(seq, lengths)) = Range(seq)
  <2>1. Range(Shuffled(seq, lengths)) = {seq[perm[i]] : i \in indexes} BY <1>4 DEF Range
  <2>2. Range(seq) = {seq[i] : i \in indexes} BY <1>1 DEF Range
  <2> HIDE DEF indexes
  <2>3. ASSUME NEW i \in indexes PROVE seq[perm[i]] \in Range(seq)
    <3>1. perm[i] \in indexes BY <1>3
    <3> QED BY <2>2, <3>1
  <2>4. \A i \in indexes : \E k \in indexes : seq[perm[k]] = seq[i] BY <1>3
  <2> QED BY <2>1, <2>2, <2>3, <2>4
<1>8. ASSUME IsInjective(seq) PROVE IsInjective(Shuffled(seq, lengths))
  <2> HIDE DEF indexes
  <2> SUFFICES ASSUME NEW i \in indexes, NEW j \in indexes, seq[perm[i]] = seq[perm[j]]
               PROVE  i = j
    BY <1>4 DEF IsInjective
  <2>1. perm[i] \in DOMAIN seq /\ perm[j] \in DOMAIN seq BY <1>1, <1>3
  <2>2. perm[i] = perm[j] BY <1>8, <2>1 DEF IsInjective
  <2> QED BY <1>3, <2>2
<1> QED BY <1>6, <1>7, <1>8

-----------------------------------------------------------------------------
(* How many elements k rounds over the layers take.                        *)
Rounds(k) == k * Layers

(* The place in a sequence of what is dealt to layer l as its k-th.        *)
Index(k, l) == Rounds(k - 1) + l

LEMMA Division ==
  \A a \in Nat : /\ a \div Layers \in Nat
                 /\ Rounds(a \div Layers) <= a
                 /\ a < Rounds(a \div Layers) + Layers
BY LayersAssumption DEF Rounds

LEMMA Multiples ==
  /\ Rounds(0) = 0
  /\ \A i, j \in Int : /\ Rounds(i) \in Int
                       /\ i < j => Rounds(i) + Layers <= Rounds(j)
                       /\ i <= j => Rounds(i) <= Rounds(j)
BY LayersAssumption DEF Rounds

LEMMA IndexUnique ==
  ASSUME NEW k \in Nat, NEW j \in Nat, NEW l \in AllLayers, NEW m \in AllLayers,
         Index(k, l) = Index(j, m)
  PROVE  k = j /\ l = m
<1>1. Layers \in Nat /\ l \in 1 .. Layers /\ m \in 1 .. Layers
  BY LayersAssumption DEF AllLayers
<1>2. PICK r \in Int, s \in Int :
        /\ Index(k, l) = r + l /\ Index(j, m) = s + m
        /\ k < j => r + Layers <= s
        /\ j < k => s + Layers <= r
        /\ k = j => r = s
  <2>1. k - 1 \in Int /\ j - 1 \in Int OBVIOUS
  <2>2. Rounds(k - 1) \in Int /\ Rounds(j - 1) \in Int
          /\ (k < j => Rounds(k - 1) + Layers <= Rounds(j - 1))
          /\ (j < k => Rounds(j - 1) + Layers <= Rounds(k - 1))
    BY <2>1, Multiples
  <2> QED BY <2>2 DEF Index
<1>3. r + l = s + m BY <1>2
<1> QED BY <1>1, <1>2, <1>3

LEMMA DealFacts ==
  ASSUME NEW X, NEW seq \in Seq(X)
  PROVE  /\ Deal(seq) \in [AllLayers -> Seq(X)]
         /\ \A l \in AllLayers : \A k \in 1 .. Len(Deal(seq)[l]) :
              Index(k, l) \in 1 .. Len(seq) /\ Deal(seq)[l][k] = seq[Index(k, l)]
         /\ \A x \in 1 .. Len(seq) :
              \E l \in AllLayers : \E k \in 1 .. Len(Deal(seq)[l]) : Index(k, l) = x
         /\ \A k, l \in AllLayers : Len(Deal(seq)[k]) - Len(Deal(seq)[l]) <= 1
<1> DEFINE size(l) == (Len(seq) + Layers - l) \div Layers
<1>1. Len(seq) \in Nat /\ Layers \in Nat \ {0} /\ \A i \in 1 .. Len(seq) : seq[i] \in X
  BY LenProperties, LayersAssumption
<1>2. \A l \in AllLayers : l \in 1 .. Layers BY DEF AllLayers
<1>3. ASSUME NEW l \in AllLayers
      PROVE  /\ size(l) \in Nat /\ Rounds(size(l)) <= Len(seq) + Layers - l
             /\ Len(seq) + Layers - l < Rounds(size(l)) + Layers
  <2>1. Len(seq) + Layers - l \in Nat BY <1>1, <1>2
  <2> QED BY <2>1, Division
<1>4. ASSUME NEW l \in AllLayers, NEW k \in Nat \ {0}
      PROVE  k <= size(l) <=> Index(k, l) <= Len(seq)
  <2>1. size(l) \in Nat /\ l \in 1 .. Layers BY <1>2, <1>3
  <2> HIDE DEF size
  <2>2. PICK r \in Int, t \in Int :
          /\ Index(k, l) = r + l
          /\ k <= size(l) => r + Layers <= t
          /\ size(l) < k => t <= r
          /\ t <= Len(seq) + Layers - l
          /\ Len(seq) + Layers - l < t + Layers
    <3>1. k - 1 \in Int /\ size(l) \in Int /\ (k <= size(l) => k - 1 < size(l))
            /\ (size(l) < k => size(l) <= k - 1)
      BY <2>1
    <3>2. /\ Rounds(k - 1) \in Int /\ Rounds(size(l)) \in Int
          /\ k <= size(l) => Rounds(k - 1) + Layers <= Rounds(size(l))
          /\ size(l) < k => Rounds(size(l)) <= Rounds(k - 1)
      BY <3>1, Multiples
    <3> QED BY <1>3, <3>2 DEF Index
  <2> QED BY <1>1, <2>1, <2>2
<1>5. Deal(seq) = [l \in AllLayers |-> [k \in 1 .. size(l) |-> seq[Index(k, l)]]]
  BY DEF Deal, Index, Rounds
<1>6. ASSUME NEW l \in AllLayers, NEW k \in 1 .. size(l)
      PROVE  Index(k, l) \in 1 .. Len(seq)
  <2>1. k \in Nat \ {0} /\ k <= size(l) BY <1>3
  <2>2. Index(k, l) <= Len(seq) BY <1>4, <2>1
  <2>3. 0 <= Rounds(k - 1) /\ Rounds(k - 1) \in Int BY <2>1, Multiples
  <2>4. l \in 1 .. Layers BY <1>2
  <2> QED BY <1>1, <2>2, <2>3, <2>4 DEF Index
<1>7. ASSUME NEW x \in 1 .. Len(seq)
      PROVE  \E l \in AllLayers : \E k \in 1 .. size(l) : Index(k, l) = x
  <2> DEFINE q == (x - 1) \div Layers
             r == x - Rounds(q)
  <2>1. q \in Nat /\ Rounds(q) <= x - 1 /\ x - 1 < Rounds(q) + Layers
    <3>1. x - 1 \in Nat BY <1>1
    <3> QED BY <3>1, Division
  <2> HIDE DEF q
  <2>2. Rounds(q) \in Int /\ Rounds((q + 1) - 1) = Rounds(q) BY <2>1, Multiples
  <2>3. r \in AllLayers BY <1>1, <2>1, <2>2 DEF AllLayers
  <2>4. Index(q + 1, r) = x BY <1>1, <2>2 DEF Index
  <2>5. q + 1 <= size(r) BY <1>4, <2>1, <2>3, <2>4
  <2>6. q + 1 \in 1 .. size(r) BY <1>3, <2>1, <2>3, <2>5
  <2> QED BY <2>3, <2>4, <2>6
<1>8. ASSUME NEW k \in AllLayers, NEW l \in AllLayers PROVE size(k) - size(l) <= 1
  <2>1. size(k) \in Nat /\ size(l) \in Nat /\ k \in 1 .. Layers /\ l \in 1 .. Layers
    BY <1>2, <1>3
  <2> HIDE DEF size
  <2>2. PICK r \in Int, t \in Int :
          /\ size(l) + 1 < size(k) => r + Layers + Layers <= t
          /\ t <= Len(seq) + Layers - k
          /\ Len(seq) + Layers - l < r + Layers
    <3>1. size(l) \in Int /\ size(l) + 1 \in Int /\ size(k) \in Int /\ size(l) < size(l) + 1
      BY <2>1
    <3>2. /\ Rounds(size(k)) \in Int /\ Rounds(size(l)) \in Int
          /\ Rounds(size(l) + 1) \in Int
          /\ Rounds(size(l)) + Layers <= Rounds(size(l) + 1)
          /\ size(l) + 1 < size(k) => Rounds(size(l) + 1) + Layers <= Rounds(size(k))
      BY <3>1, Multiples
    <3>3. size(l) + 1 < size(k) =>
            Rounds(size(l)) + Layers + Layers <= Rounds(size(k))
      BY <1>1, <3>2
    <3> QED BY <1>3, <3>2, <3>3
  <2> QED BY <1>1, <2>1, <2>2
<1> HIDE DEF size
<1>9. ASSUME NEW l \in AllLayers
      PROVE  /\ Deal(seq)[l] \in [1 .. size(l) -> X] /\ Deal(seq)[l] \in Seq(X)
             /\ Len(Deal(seq)[l]) = size(l)
             /\ \A k \in 1 .. size(l) : Deal(seq)[l][k] = seq[Index(k, l)]
  <2>1. Deal(seq)[l] = [k \in 1 .. size(l) |-> seq[Index(k, l)]] BY <1>5
  <2>2. Deal(seq)[l] \in [1 .. size(l) -> X] BY <1>1, <1>6, <2>1
  <2> QED BY <1>3, <2>1, <2>2
<1>10. Deal(seq) \in [AllLayers -> Seq(X)] BY <1>5, <1>9
<1> QED BY <1>6, <1>7, <1>8, <1>9, <1>10

-----------------------------------------------------------------------------
(* What placing nodes by the layers of a previous document starts from.    *)
HasPrevious == IsTopology(previous) /\ srv \in Seeds /\ nodes \subseteq Nodes

LEMMA NodesFinite ==
  ASSUME nodes \subseteq Nodes
  PROVE  /\ IsFiniteSet(nodes) /\ nodes \subseteq Int
         /\ Cardinality(nodes) \in Nat /\ Cardinality(nodes) <= Cardinality(Nodes)
         /\ Cardinality(Nodes) \in Nat
         /\ Target \in Nat /\ Rounds(Target) <= Cardinality(nodes)
<1>1. IsFiniteSet(Nodes) /\ Nodes \subseteq Int BY NodesAssumption
<1>2. IsFiniteSet(nodes) /\ Cardinality(nodes) <= Cardinality(Nodes) BY <1>1, FS_Subset
<1>3. Cardinality(nodes) \in Nat /\ Cardinality(Nodes) \in Nat
  BY <1>1, <1>2, FS_CardinalityType
<1>4. Target \in Nat /\ Rounds(Target) <= Cardinality(nodes) BY <1>3, Division DEF Target
<1> QED BY <1>1, <1>2, <1>3, <1>4

LEMMA LayerFacts ==
  ASSUME NEW t, IsTopology(t), NEW l \in AllLayers
  PROVE  t[l] \in Seq(Nodes) /\ IsInjective(t[l]) /\ Len(t[l]) \in 0 .. Cardinality(Nodes)
<1>1. t[l] \in Seq(Nodes) BY DEF IsTopology
<1>2. IsInjective(t[l]) BY DEF IsTopology, PlacedOnce, IsInjective
<1>3. Range(t[l]) \in SUBSET Nodes /\ Len(t[l]) \in Nat
  <2>1. Len(t[l]) \in Nat /\ DOMAIN t[l] = 1 .. Len(t[l])
          /\ \A i \in 1 .. Len(t[l]) : t[l][i] \in Nodes
    BY <1>1, LenProperties
  <2> QED BY <2>1 DEF Range
<1>4. Cardinality(Range(t[l])) = Len(t[l]) BY <1>1, <1>2, RangeSize
<1>5. Cardinality(Range(t[l])) <= Cardinality(Nodes)
  BY <1>3, NodesAssumption, FS_Subset
<1>6. Cardinality(Nodes) \in Nat BY NodesAssumption, FS_CardinalityType
<1> QED BY <1>1, <1>2, <1>3, <1>4, <1>5, <1>6

(* A layer keeps as many nodes that are still there as fit in it.          *)
LEMMA KeptFacts ==
  ASSUME HasPrevious, NEW l \in AllLayers
  PROVE  /\ Kept(l) \in Seq(Nodes) /\ IsInjective(Kept(l))
         /\ Range(Kept(l)) \subseteq Range(previous[l]) \cap nodes
         /\ Len(Kept(l)) =
              IF Cardinality(Range(previous[l]) \cap nodes) <= Target
                THEN Cardinality(Range(previous[l]) \cap nodes) ELSE Target
         /\ Len(Kept(l)) \in 0 .. Target
<1> DEFINE lengths == [k \in 1 .. l |-> Len(previous[k])]
           still == Among(DrawnLayer(l), nodes)
<1>1. Layers \in Nat /\ l \in 1 .. Layers BY LayersAssumption DEF AllLayers
<1>2. lengths \in [1 .. l -> 0 .. Cardinality(Nodes)]
  <2>1. \A k \in 1 .. l : k \in AllLayers BY <1>1 DEF AllLayers
  <2>2. \A k \in 1 .. l : Len(previous[k]) \in 0 .. Cardinality(Nodes)
    BY <2>1, LayerFacts DEF HasPrevious
  <2> QED BY <2>2
<1>3. lengths \in Lengths BY <1>1, <1>2 DEF Lengths
<1>4. lengths[Len(lengths)] = Len(previous[l]) BY <1>1
<1>5. previous[l] \in Seq(Nodes) /\ IsInjective(previous[l]) BY LayerFacts DEF HasPrevious
<1> HIDE DEF lengths
<1>6. /\ DrawnLayer(l) \in Seq(Nodes) /\ IsInjective(DrawnLayer(l))
      /\ Range(DrawnLayer(l)) = Range(previous[l])
  <2>1. DrawnLayer(l) = Shuffled(previous[l], lengths) BY DEF DrawnLayer, lengths
  <2> QED BY <1>3, <1>4, <1>5, <2>1, ShuffledFacts DEF HasPrevious
<1>7. /\ still \in Seq(Nodes) /\ IsInjective(still)
      /\ Range(still) = Range(previous[l]) \cap nodes
  BY <1>6, AmongFacts
<1> HIDE DEF still
<1>8. Cardinality(Range(still)) = Len(still) /\ Len(still) \in Nat
  BY <1>7, RangeSize, LenProperties
<1>9. Target \in Nat BY NodesFinite DEF HasPrevious
<1>10. Kept(l) = Upto(still, Target) BY DEF Kept, still
<1>11. /\ Kept(l) \in Seq(Nodes) /\ IsInjective(Kept(l))
       /\ Range(Kept(l)) \subseteq Range(still)
       /\ Len(Kept(l)) = IF Len(still) <= Target THEN Len(still) ELSE Target
  BY <1>7, <1>9, <1>10, UptoFacts
<1> QED BY <1>7, <1>8, <1>9, <1>11

(* No node is kept in two places.                                          *)
LEMMA KeptOnce ==
  ASSUME HasPrevious, NEW k \in AllLayers, NEW l \in AllLayers,
         NEW i \in 1 .. Len(Kept(k)), NEW j \in 1 .. Len(Kept(l)), Kept(k)[i] = Kept(l)[j]
  PROVE  k = l /\ i = j
<1>1. \A h \in AllLayers : /\ DOMAIN Kept(h) = 1 .. Len(Kept(h)) /\ IsInjective(Kept(h))
                           /\ Range(Kept(h)) \subseteq Range(previous[h])
  BY KeptFacts, LenProperties
<1>2. Kept(k)[i] \in Range(previous[k]) /\ Kept(k)[i] \in Range(previous[l])
  <2>1. Kept(k)[i] \in Range(Kept(k)) /\ Kept(l)[j] \in Range(Kept(l)) BY <1>1 DEF Range
  <2> QED BY <1>1, <2>1
<1>3. k = l BY <1>2 DEF HasPrevious, IsTopology, PlacedOnce, Range
<1> QED BY <1>1, <1>3 DEF IsInjective

-----------------------------------------------------------------------------
(* The places that the layers before l have left.                          *)
Free(l) == {place \in (1 .. l - 1) \X (1 .. Target) : place[2] > Len(Kept(place[1]))}

LEMMA FreeFacts ==
  ASSUME HasPrevious, NEW l \in 1 .. Layers + 1
  PROVE  /\ IsFiniteSet(Free(l)) /\ Before(l) = Cardinality(Free(l)) /\ Before(l) \in Nat
         /\ \A m \in 1 .. l : Before(m) <= Before(l)
<1>1. Layers \in Nat /\ Target \in Nat BY LayersAssumption, NodesFinite DEF HasPrevious
<1>2. IsFiniteSet((1 .. l - 1) \X (1 .. Target))
  <2>1. IsFiniteSet(1 .. l - 1) /\ IsFiniteSet(1 .. Target) BY <1>1, FS_Interval
  <2> QED BY <2>1, FS_Product
<1>3. IsFiniteSet(Free(l)) BY <1>2, FS_Subset DEF Free
<1>4. \A m : Before(m) = Cardinality(Free(m)) BY DEF Before, Free
<1>5. ASSUME NEW m \in 1 .. l PROVE Before(m) <= Before(l)
  <2>1. 1 .. m - 1 \subseteq 1 .. l - 1 BY <1>1
  <2>2. Free(m) \in SUBSET Free(l) BY <2>1 DEF Free
  <2> QED BY <1>3, <1>4, <2>2, FS_Subset
<1>6. Before(l) \in Nat BY <1>3, <1>4, FS_CardinalityType
<1> QED BY <1>3, <1>4, <1>5, <1>6

LEMMA BeforeFirst == ASSUME HasPrevious PROVE Before(1) = 0
<1>1. Free(1) = {} BY DEF Free
<1>2. Before(1) = Cardinality(Free(1)) BY DEF Before, Free
<1> QED BY <1>1, <1>2, FS_EmptySet

(* A layer takes as many as it has places left.                            *)
LEMMA BeforeNext ==
  ASSUME HasPrevious, NEW l \in AllLayers
  PROVE  Before(l + 1) = Before(l) + (Target - Len(Kept(l)))
<1> DEFINE left == Len(Kept(l)) + 1 .. Target
           here == {<<l, i>> : i \in left}
<1>1. Layers \in Nat /\ l \in 1 .. Layers BY LayersAssumption DEF AllLayers
<1>2. Target \in Nat /\ Len(Kept(l)) \in 0 .. Target
  BY NodesFinite, KeptFacts DEF HasPrevious
<1>3. l \in 1 .. Layers + 1 /\ l + 1 \in 1 .. Layers + 1 BY <1>1
<1>4. /\ IsFiniteSet(Free(l)) /\ Before(l) = Cardinality(Free(l)) /\ Before(l) \in Nat
      /\ Before(l + 1) = Cardinality(Free(l + 1))
  BY <1>3, FreeFacts
<1>5. IsFiniteSet(left) /\ Cardinality(left) = Target - Len(Kept(l))
  <2>1. PICK n \in Nat : n = Len(Kept(l)) /\ n <= Target BY <1>2
  <2>2. IsFiniteSet(n + 1 .. Target) /\ Cardinality(n + 1 .. Target) = Target - n
    <3>1. n + 1 \in Int /\ Target \in Int BY <1>2
    <3>2. /\ IsFiniteSet(n + 1 .. Target)
          /\ Cardinality(n + 1 .. Target) =
               IF n + 1 > Target THEN 0 ELSE Target - (n + 1) + 1
      BY ONLY <3>1, FS_Interval
    <3> QED BY <1>2, <2>1, <3>2
  <2> QED BY <2>1, <2>2
<1>6. IsFiniteSet(here) /\ Cardinality(here) = Target - Len(Kept(l))
  <2> DEFINE f == [i \in left |-> <<l, i>>]
  <2> HIDE DEF left
  <2>1. f \in [left -> here] /\ (\A i, j \in left : f[i] = f[j] => i = j)
          /\ \A place \in here : \E i \in left : f[i] = place
    OBVIOUS
  <2> HIDE DEF f, here
  <2>2. f \in Surjection(left, here) BY <2>1, Fun_IsSurj
  <2>3. f \in Injection(left, here) BY <2>1, Fun_IsInj
  <2> QED BY <1>5, <2>2, <2>3, FS_Surjection
<1>7. Free(l + 1) = Free(l) \cup here
  <2>1. (1 .. (l + 1) - 1) = (1 .. l - 1) \cup {l} BY <1>1
  <2>2. left = {i \in 1 .. Target : i > Len(Kept(l))} BY <1>2
  <2> HIDE DEF left
  <2>3. ASSUME NEW place \in Free(l + 1) PROVE place \in Free(l) \cup here
    BY <2>1, <2>2 DEF Free
  <2>4. Free(l) \subseteq Free(l + 1) BY <2>1 DEF Free
  <2>5. here \subseteq Free(l + 1) BY <2>1, <2>2 DEF Free
  <2> QED BY <2>3, <2>4, <2>5
<1>8. Free(l) \cap here = {} BY <1>1 DEF Free
<1> HIDE DEF here, left
<1>9. Cardinality(Free(l) \cap here) = 0 BY <1>8, FS_EmptySet
<1>10. Cardinality(Free(l) \cup here) =
         Cardinality(Free(l)) + Cardinality(here) - Cardinality(Free(l) \cap here)
  BY <1>4, <1>6, FS_Union
<1>11. PICK n \in Nat, b \in Nat : n = Len(Kept(l)) /\ b = Before(l)
  BY <1>2, <1>4
<1>12. Before(l + 1) = b + (Target - n) - 0 BY <1>4, <1>6, <1>7, <1>9, <1>10, <1>11
<1>13. Before(l + 1) = b + (Target - n) BY <1>2, <1>11, <1>12
<1> QED BY <1>11, <1>13

AllKept == UNION {Range(Kept(l)) : l \in AllLayers}

LEMMA AllKeptFacts ==
  ASSUME HasPrevious
  PROVE  /\ AllKept \subseteq nodes /\ Pending = nodes \ AllKept
         /\ IsFiniteSet(AllKept) /\ IsFiniteSet(Pending)
         /\ Cardinality(AllKept) \in Nat /\ Cardinality(Pending) \in Nat
         /\ Cardinality(Pending) = Cardinality(nodes) - Cardinality(AllKept)
<1>1. AllKept \subseteq nodes BY KeptFacts DEF AllKept
<1>2. Pending = nodes \ AllKept BY DEF Pending, AllKept
<1>3. IsFiniteSet(nodes) BY NodesFinite DEF HasPrevious
<1>4. IsFiniteSet(AllKept) /\ IsFiniteSet(Pending) BY <1>1, <1>2, <1>3, FS_Subset
<1>5. nodes \cap AllKept = AllKept BY <1>1
<1>6. Cardinality(Pending) = Cardinality(nodes) - Cardinality(AllKept)
  BY <1>2, <1>3, <1>5, FS_Difference
<1> QED BY <1>1, <1>2, <1>4, <1>6, FS_CardinalityType

(* The places that nodes are kept in and the places left are all places of *)
(* layers of the target size, so that there are nodes enough to fill them. *)
LEMMA EnoughToFill ==
  ASSUME HasPrevious
  PROVE  Before(Layers + 1) \in Nat /\ Before(Layers + 1) <= Cardinality(Pending)
<1> DEFINE all == AllLayers \X (1 .. Target)
           free == Free(Layers + 1)
           taken == all \ free
           keeps == [place \in taken |-> Kept(place[1])[place[2]]]
<1>1. Layers \in Nat /\ Target \in Nat BY LayersAssumption, NodesFinite DEF HasPrevious
<1>2. IsFiniteSet(all) /\ Cardinality(all) = Layers * Target
  <2>1. IsFiniteSet(AllLayers) /\ Cardinality(AllLayers) = Layers
    BY <1>1, FS_Interval DEF AllLayers
  <2>2. IsFiniteSet(1 .. Target) /\ Cardinality(1 .. Target) = Target BY <1>1, FS_Interval
  <2> QED BY <2>1, <2>2, FS_Product
<1>3. /\ Before(Layers + 1) = Cardinality(free) /\ Before(Layers + 1) \in Nat
      /\ IsFiniteSet(free)
  <2>1. Layers + 1 \in 1 .. Layers + 1 BY <1>1
  <2> QED BY <2>1, FreeFacts
<1>4. free = {place \in all : place[2] > Len(Kept(place[1]))}
  <2>1. AllLayers = 1 .. (Layers + 1) - 1 BY <1>1 DEF AllLayers
  <2> QED BY <2>1 DEF Free
<1>5. \A place : place \in taken <=>
        /\ place \in all /\ place[1] \in AllLayers
        /\ place[2] \in 1 .. Len(Kept(place[1]))
  <2>1. \A l \in AllLayers : Len(Kept(l)) \in 0 .. Target BY KeptFacts
  <2>2. ASSUME NEW place \in all
        PROVE  place \in taken <=> place[2] \in 1 .. Len(Kept(place[1]))
    <3>1. place[1] \in AllLayers /\ place[2] \in 1 .. Target OBVIOUS
    <3>2. place \in taken <=> ~ (place[2] > Len(Kept(place[1]))) BY <1>4
    <3> QED BY <1>1, <2>1, <3>1, <3>2
  <2> QED BY <2>2
<1>6. \A l \in AllLayers : DOMAIN Kept(l) = 1 .. Len(Kept(l)) BY KeptFacts, LenProperties
<1>7. taken \subseteq all /\ all = AllLayers \X (1 .. Target) OBVIOUS
<1>8. IsFiniteSet(taken) /\ Cardinality(taken) = Cardinality(all) - Cardinality(free)
  <2>1. all \cap free = free BY <1>4
  <2> HIDE DEF all, free
  <2>2. Cardinality(taken) = Cardinality(all) - Cardinality(all \cap free)
          /\ IsFiniteSet(taken)
    BY <1>2, FS_Difference
  <2> QED BY <2>1, <2>2
<1> HIDE DEF taken
<1>9. keeps \in [taken -> AllKept] BY <1>5, <1>6 DEF AllKept, Range
<1>10. ASSUME NEW p \in taken, NEW q \in taken, keeps[p] = keeps[q] PROVE p = q
  <2>1. Kept(p[1])[p[2]] = Kept(q[1])[q[2]] BY <1>10
  <2>2. p[1] = q[1] /\ p[2] = q[2] BY <1>5, <2>1, KeptOnce
  <2> QED BY <1>7, <2>2
<1>11. ASSUME NEW n \in AllKept PROVE \E place \in taken : keeps[place] = n
  <2>1. PICK l \in AllLayers : \E i \in 1 .. Len(Kept(l)) : Kept(l)[i] = n
    BY <1>6 DEF AllKept, Range
  <2>2. PICK i \in 1 .. Len(Kept(l)) : Kept(l)[i] = n BY <2>1
  <2>3. i \in 1 .. Target
    <3>1. Len(Kept(l)) \in 0 .. Target BY KeptFacts
    <3> QED BY <1>1, <3>1
  <2>4. <<l, i>> \in taken BY <1>5, <2>3
  <2>5. keeps[<<l, i>>] = n BY <2>2, <2>4
  <2> QED BY <2>4, <2>5
<1> HIDE DEF keeps
<1>12. keeps \in Surjection(taken, AllKept) BY <1>9, <1>11, Fun_IsSurj
<1>13. keeps \in Injection(taken, AllKept) BY <1>9, <1>10, Fun_IsInj
<1>14. Cardinality(taken) = Cardinality(AllKept) BY <1>8, <1>12, <1>13, FS_Surjection
<1>15. Layers * Target \in Int /\ Layers * Target <= Cardinality(nodes)
  <2>1. Rounds(Target) = Layers * Target /\ Rounds(Target) \in Int BY <1>1 DEF Rounds
  <2> QED BY <2>1, NodesFinite DEF HasPrevious
<1>16. PICK b \in Nat, k \in Nat, p \in Nat, n \in Nat, r \in Int :
         /\ b = Before(Layers + 1) /\ k = Cardinality(AllKept) /\ p = Cardinality(Pending)
         /\ n = Cardinality(nodes) /\ r = Layers * Target
  BY <1>3, <1>15, AllKeptFacts, NodesFinite DEF HasPrevious
<1>17. k = r - b BY <1>2, <1>3, <1>8, <1>14, <1>16
<1>18. p = n - k /\ r <= n BY <1>15, <1>16, AllKeptFacts
<1> QED BY <1>16, <1>17, <1>18

-----------------------------------------------------------------------------
(* What generateTopology yields, whatever the order of the map: the nodes  *)
(* drawn are the sorted ones, each layer has those it keeps, those that    *)
(* fill it and those dealt to it.                                          *)
Drawn ==
  Shuffled(Ascending(Pending),
           [k \in 1 .. Layers + 1 |->
              IF k <= Layers THEN Len(previous[k]) ELSE Cardinality(Pending)])
Filled(l) == SubSeq(Drawn, Before(l) + 1, Before(l) + Target - Len(Kept(l)))
Rest == Deal(SubSeq(Drawn, Before(Layers + 1) + 1, Len(Drawn)))
Placing == [l \in AllLayers |-> Kept(l) \o Filled(l) \o Rest[l]]

LEMMA OrderOfMap ==
  ASSUME HasPrevious, NEW flat \in Flattened(Pending)
  PROVE  GenerateTopology(flat) = Placing
<1> DEFINE size == Cardinality(Pending)
<1>1. size \in Nat BY AllKeptFacts
<1>2. flat \in [1 .. size -> Pending] /\ \A n \in Pending : \E i \in 1 .. size : flat[i] = n
  BY DEF Flattened, Bijection, Surjection
<1>3. Range(flat) = Pending BY <1>2 DEF Range
<1>4. Len(flat) = size
  <2> HIDE DEF size
  <2> QED BY <1>1, <1>2
<1> QED BY <1>3, <1>4 DEF GenerateTopology, Placing, Filled, Rest, Drawn, ToAssign

LEMMA DrawnFacts ==
  ASSUME HasPrevious
  PROVE  /\ Drawn \in Seq(Nodes) /\ IsInjective(Drawn) /\ Range(Drawn) = Pending
         /\ Len(Drawn) = Cardinality(Pending) /\ Len(Drawn) \in Nat
         /\ DOMAIN Drawn = 1 .. Len(Drawn)
<1> DEFINE size == Cardinality(Pending)
           sorted == Ascending(Pending)
           lengths == [k \in 1 .. Layers + 1 |->
                         IF k <= Layers THEN Len(previous[k]) ELSE size]
<1>1. /\ Pending \subseteq nodes /\ IsFiniteSet(Pending) /\ Pending \subseteq Int
      /\ size \in Nat /\ size <= Cardinality(nodes)
  BY AllKeptFacts, NodesFinite, FS_Subset DEF HasPrevious
<1>2. /\ sorted \in [1 .. size -> Pending]
      /\ \A n \in Pending : \E i \in 1 .. size : sorted[i] = n
      /\ \A i, j \in 1 .. size : i < j => sorted[i] < sorted[j]
  BY <1>1, AscendingFacts
<1> HIDE DEF sorted
<1>3. sorted \in Seq(Nodes) /\ Len(sorted) = size /\ DOMAIN sorted = 1 .. size
  <2>1. sorted \in [1 .. size -> Nodes] BY <1>1, <1>2 DEF HasPrevious
  <2> HIDE DEF size
  <2> QED BY <1>1, <2>1
<1>4. IsInjective(sorted)
  <2> SUFFICES ASSUME NEW i \in 1 .. size, NEW j \in 1 .. size, sorted[i] = sorted[j]
               PROVE  i = j
    BY <1>3 DEF IsInjective
  <2>1. sorted[i] \in Int /\ sorted[j] \in Int BY <1>1, <1>2
  <2> QED BY <1>1, <1>2, <2>1
<1>5. Range(sorted) = Pending BY <1>2 DEF Range
<1>6. Layers \in Nat \ {0} BY LayersAssumption
<1>7. lengths \in [1 .. Layers + 1 -> 0 .. Cardinality(Nodes)]
  <2>1. \A k \in 1 .. Layers : Len(previous[k]) \in 0 .. Cardinality(Nodes)
    BY LayerFacts DEF HasPrevious, AllLayers
  <2>2. size \in 0 .. Cardinality(Nodes) BY <1>1, NodesFinite DEF HasPrevious
  <2> HIDE DEF size
  <2> QED BY <1>6, <2>1, <2>2
<1>8. lengths \in Lengths BY <1>6, <1>7 DEF Lengths
<1>9. lengths[Len(lengths)] = Len(sorted) BY <1>3, <1>6
<1>10. Drawn = Shuffled(sorted, lengths) BY DEF Drawn, sorted
<1> HIDE DEF lengths
<1>11. /\ Drawn \in Seq(Nodes) /\ IsInjective(Drawn) /\ Range(Drawn) = Pending
       /\ Len(Drawn) = size
  BY <1>3, <1>4, <1>5, <1>8, <1>9, <1>10, ShuffledFacts DEF HasPrevious
<1> QED BY <1>1, <1>11, LenProperties

(* The nodes that fill a layer are the next ones drawn, and there are      *)
(* enough.                                                                 *)
LEMMA FillFacts ==
  ASSUME HasPrevious, NEW l \in AllLayers
  PROVE  /\ Target \in Nat /\ Len(Kept(l)) \in 0 .. Target
         /\ Before(l) \in Nat /\ Before(l + 1) \in Nat /\ Before(Layers + 1) \in Nat
         /\ Before(l + 1) = Before(l) + (Target - Len(Kept(l)))
         /\ Before(l + 1) <= Before(Layers + 1) /\ Before(Layers + 1) <= Len(Drawn)
         /\ Filled(l) \in Seq(Nodes) /\ Len(Filled(l)) = Target - Len(Kept(l))
         /\ \A i \in 1 .. Target - Len(Kept(l)) : Filled(l)[i] = Drawn[Before(l) + i]
<1>1. Layers \in Nat /\ l \in 1 .. Layers BY LayersAssumption DEF AllLayers
<1>2. l \in 1 .. Layers + 1 /\ l + 1 \in 1 .. Layers + 1 /\ Layers + 1 \in 1 .. Layers + 1
        /\ l + 1 \in 1 .. (Layers + 1)
  BY <1>1
<1>3. Target \in Nat /\ Len(Kept(l)) \in 0 .. Target BY NodesFinite, KeptFacts DEF HasPrevious
<1>4. /\ Before(l) \in Nat /\ Before(l + 1) \in Nat /\ Before(Layers + 1) \in Nat
      /\ Before(l + 1) <= Before(Layers + 1)
  BY <1>2, FreeFacts
<1>5. Before(Layers + 1) <= Len(Drawn) BY EnoughToFill, DrawnFacts
<1>6. Before(l + 1) = Before(l) + (Target - Len(Kept(l))) BY BeforeNext
<1>7. PICK k \in Nat, b \in Nat : k = Len(Kept(l)) /\ b = Before(l) /\ k <= Target
  BY <1>3, <1>4
<1>8. Filled(l) = SubSeq(Drawn, b + 1, b + Target - k) BY <1>7 DEF Filled
<1>9. b + (Target - k) <= Len(Drawn) /\ Len(Drawn) \in Nat
  BY <1>3, <1>4, <1>5, <1>6, <1>7, DrawnFacts
<1>10. \A i \in b + 1 .. b + Target - k : Drawn[i] \in Nodes
  <2>1. \A i \in b + 1 .. b + Target - k : i \in 1 .. Len(Drawn) BY <1>3, <1>7, <1>9
  <2> QED BY <2>1, DrawnFacts, ElementOfSeq
<1>11. b + 1 \in Int /\ b + Target - k \in Int BY <1>3
<1>12. /\ Filled(l) \in Seq(Nodes)
       /\ Len(Filled(l)) = IF b + 1 <= b + Target - k THEN (b + Target - k) - (b + 1) + 1 ELSE 0
       /\ \A i \in 1 .. (b + Target - k) - (b + 1) + 1 : Filled(l)[i] = Drawn[(b + 1) + i - 1]
  BY <1>8, <1>10, <1>11, SubSeqProperties
<1>13. Len(Filled(l)) = Target - k BY <1>3, <1>7, <1>12
<1>14. ASSUME NEW i \in 1 .. Target - k PROVE Filled(l)[i] = Drawn[b + i]
  <2>1. i \in 1 .. (b + Target - k) - (b + 1) + 1 /\ (b + 1) + i - 1 = b + i BY <1>3, <1>7
  <2> QED BY <1>12, <2>1
<1> QED BY <1>3, <1>4, <1>5, <1>6, <1>7, <1>12, <1>13, <1>14

(* What is left of the nodes drawn is dealt.                               *)
LEMMA RestFacts ==
  ASSUME HasPrevious
  PROVE  /\ \A l \in AllLayers : Rest[l] \in Seq(Nodes)
         /\ \A l \in AllLayers : \A k \in 1 .. Len(Rest[l]) :
              /\ Index(k, l) \in 1 .. Len(Drawn) - Before(Layers + 1)
              /\ Rest[l][k] = Drawn[Before(Layers + 1) + Index(k, l)]
         /\ \A x \in 1 .. Len(Drawn) - Before(Layers + 1) :
              \E l \in AllLayers : \E k \in 1 .. Len(Rest[l]) : Index(k, l) = x
         /\ \A k, l \in AllLayers : Len(Rest[k]) - Len(Rest[l]) <= 1
<1> DEFINE left == SubSeq(Drawn, Before(Layers + 1) + 1, Len(Drawn))
<1>1. PICK b \in Nat, d \in Nat : b = Before(Layers + 1) /\ d = Len(Drawn) /\ b <= d
  BY EnoughToFill, DrawnFacts
<1>2. \A i \in b + 1 .. d : Drawn[i] \in Nodes
  <2>1. \A i \in b + 1 .. d : i \in 1 .. Len(Drawn) BY <1>1
  <2> QED BY <2>1, DrawnFacts, ElementOfSeq
<1>3. /\ left \in Seq(Nodes)
      /\ Len(left) = IF b + 1 <= d THEN d - (b + 1) + 1 ELSE 0
      /\ \A i \in 1 .. d - (b + 1) + 1 : left[i] = Drawn[(b + 1) + i - 1]
  <2>1. left = SubSeq(Drawn, b + 1, d) BY <1>1
  <2> HIDE DEF left
  <2>2. b + 1 \in Int /\ d \in Int OBVIOUS
  <2> QED BY <1>2, <2>1, <2>2, SubSeqProperties
<1> HIDE DEF left
<1>4. Len(left) = d - b BY <1>1, <1>3
<1>5. ASSUME NEW i \in 1 .. d - b PROVE left[i] = Drawn[b + i]
  <2>1. i \in 1 .. d - (b + 1) + 1 /\ (b + 1) + i - 1 = b + i BY <1>1
  <2> QED BY <1>3, <2>1
<1>6. Rest = Deal(left) BY DEF Rest, left
<1>7. /\ Rest \in [AllLayers -> Seq(Nodes)]
      /\ \A l \in AllLayers : \A k \in 1 .. Len(Rest[l]) :
           Index(k, l) \in 1 .. Len(left) /\ Rest[l][k] = left[Index(k, l)]
      /\ \A x \in 1 .. Len(left) :
           \E l \in AllLayers : \E k \in 1 .. Len(Rest[l]) : Index(k, l) = x
      /\ \A k, l \in AllLayers : Len(Rest[k]) - Len(Rest[l]) <= 1
  BY <1>3, <1>6, DealFacts
<1> QED BY <1>1, <1>4, <1>5, <1>7

(* Which of the nodes drawn is at the i-th place of layer l, behind those  *)
(* the layer keeps.                                                        *)
At(l, i) ==
  IF i <= Target THEN Before(l) + (i - Len(Kept(l)))
                 ELSE Before(Layers + 1) + Index(i - Target, l)

LEMMA PlacingLayer ==
  ASSUME HasPrevious, NEW l \in AllLayers
  PROVE  /\ Placing[l] \in Seq(Nodes)
         /\ Len(Rest[l]) \in Nat /\ Len(Placing[l]) = Target + Len(Rest[l])
         /\ \A i \in 1 .. Len(Placing[l]) :
              IF i <= Len(Kept(l)) THEN Placing[l][i] = Kept(l)[i]
              ELSE At(l, i) \in 1 .. Len(Drawn) /\ Placing[l][i] = Drawn[At(l, i)]
<1> DEFINE both == Kept(l) \o Filled(l)
<1>1. PICK k \in Nat, b \in Nat, c \in Nat, d \in Nat, r \in Nat, T \in Nat :
        /\ k = Len(Kept(l)) /\ b = Before(l) /\ c = Before(Layers + 1) /\ d = Len(Drawn)
        /\ r = Len(Rest[l]) /\ T = Target
        /\ k <= T /\ b + (T - k) <= c /\ c <= d
  <2>1. Len(Rest[l]) \in Nat BY RestFacts, LenProperties
  <2>2. Len(Drawn) \in Nat BY DrawnFacts
  <2>3. /\ Target \in Nat /\ Len(Kept(l)) \in Nat /\ Len(Kept(l)) <= Target
        /\ Before(l) \in Nat /\ Before(Layers + 1) \in Nat
        /\ Before(l) + (Target - Len(Kept(l))) <= Before(Layers + 1)
        /\ Before(Layers + 1) <= Len(Drawn)
    BY FillFacts
  <2> HIDE DEF both
  <2> QED BY ONLY <2>1, <2>2, <2>3
<1>2. Kept(l) \in Seq(Nodes) /\ Filled(l) \in Seq(Nodes) /\ Rest[l] \in Seq(Nodes)
  BY KeptFacts, FillFacts, RestFacts
<1>3. Len(Filled(l)) = T - k /\ \A i \in 1 .. T - k : Filled(l)[i] = Drawn[b + i]
  BY <1>1, FillFacts
<1>4. \A j \in 1 .. r : Index(j, l) \in 1 .. d - c /\ Rest[l][j] = Drawn[c + Index(j, l)]
  BY <1>1, RestFacts
<1>5. /\ both \in Seq(Nodes) /\ Len(both) = k + (T - k)
      /\ \A i \in 1 .. k + (T - k) :
           both[i] = IF i <= k THEN Kept(l)[i] ELSE Filled(l)[i - k]
  BY <1>1, <1>2, <1>3, ConcatProperties
<1>6. Len(both) = T BY <1>5
<1>7. /\ Placing[l] \in Seq(Nodes) /\ Len(Placing[l]) = T + r
      /\ \A i \in 1 .. T + r : Placing[l][i] = IF i <= T THEN both[i] ELSE Rest[l][i - T]
  <2>1. Placing[l] = both \o Rest[l] BY DEF Placing
  <2> HIDE DEF both
  <2>2. /\ Placing[l] \in Seq(Nodes) /\ Len(Placing[l]) = Len(both) + Len(Rest[l])
        /\ \A i \in 1 .. Len(both) + Len(Rest[l]) :
             Placing[l][i] = IF i <= Len(both) THEN both[i] ELSE Rest[l][i - Len(both)]
    <3>1. both \in Seq(Nodes) /\ Rest[l] \in Seq(Nodes) BY <1>2, <1>5
    <3> QED BY ONLY <2>1, <3>1, ConcatProperties
  <2> QED BY <1>1, <1>6, <2>2
<1> HIDE DEF both
<1>8. ASSUME NEW i \in 1 .. T + r, i <= k PROVE Placing[l][i] = Kept(l)[i]
  <2>1. i \in 1 .. k + (T - k) /\ i <= T BY <1>1, <1>8
  <2> QED BY <1>5, <1>7, <1>8, <2>1
<1>9. ASSUME NEW i \in 1 .. T + r, ~ (i <= k), i <= T
      PROVE  At(l, i) \in 1 .. d /\ Placing[l][i] = Drawn[At(l, i)]
  <2>1. i \in 1 .. k + (T - k) /\ i - k \in 1 .. T - k /\ b + (i - k) \in 1 .. d
    BY <1>1, <1>9
  <2>2. At(l, i) = b + (i - k) BY <1>1, <1>9 DEF At
  <2> QED BY <1>3, <1>5, <1>7, <1>9, <2>1, <2>2
<1>10. ASSUME NEW i \in 1 .. T + r, ~ (i <= T)
       PROVE  At(l, i) \in 1 .. d /\ Placing[l][i] = Drawn[At(l, i)]
  <2>1. i - T \in 1 .. r BY <1>10
  <2>2. Index(i - T, l) \in 1 .. d - c /\ Rest[l][i - T] = Drawn[c + Index(i - T, l)]
    BY <1>4, <2>1
  <2>3. At(l, i) = c + Index(i - T, l) BY <1>1, <1>10 DEF At
  <2>4. Placing[l][i] = Drawn[At(l, i)] BY <1>7, <1>10, <2>2, <2>3
  <2>5. PICK n \in 1 .. d - c : n = Index(i - T, l) BY <2>2
  <2>6. c + n \in 1 .. d BY <1>1
  <2> QED BY <2>3, <2>4, <2>5, <2>6
<1> QED BY <1>1, <1>7, <1>8, <1>9, <1>10

(* No node drawn is in two places.                                         *)
LEMMA AtUnique ==
  ASSUME HasPrevious, NEW k \in AllLayers, NEW l \in AllLayers,
         NEW i \in 1 .. Len(Placing[k]), NEW j \in 1 .. Len(Placing[l]),
         ~ (i <= Len(Kept(k))), ~ (j <= Len(Kept(l))), At(k, i) = At(l, j)
  PROVE  k = l /\ i = j
<1> DEFINE last == Before(Layers + 1)
<1>1. Layers \in Nat /\ k \in 1 .. Layers /\ l \in 1 .. Layers /\ Target \in Nat
  BY LayersAssumption, FillFacts DEF AllLayers
<1>2. \A h \in AllLayers :
        /\ Before(h) \in Nat /\ Before(h + 1) \in Nat /\ last \in Nat
        /\ Before(h + 1) = Before(h) + (Target - Len(Kept(h))) /\ Before(h + 1) <= last
        /\ Len(Kept(h)) \in 0 .. Target
        /\ Len(Placing[h]) = Target + Len(Rest[h]) /\ Len(Rest[h]) \in Nat
  BY FillFacts, PlacingLayer
<1>3. ASSUME NEW h \in AllLayers, NEW n \in 1 .. Len(Placing[h]), ~ (n <= Len(Kept(h)))
      PROVE  /\ n \in Int
             /\ n <= Target => /\ At(h, n) = Before(h) + (n - Len(Kept(h)))
                               /\ Before(h) < At(h, n) /\ At(h, n) <= Before(h + 1)
             /\ ~ (n <= Target) => /\ n - Target \in Nat /\ n - Target \in 1 .. Len(Rest[h])
                                   /\ At(h, n) = last + Index(n - Target, h)
                                   /\ last < At(h, n)
  <2>1. PICK c \in Nat, b \in Nat, r \in Nat :
          /\ c = Len(Kept(h)) /\ b = Before(h) /\ r = Len(Rest[h])
          /\ Before(h + 1) = b + (Target - c) /\ c <= Target /\ n \in 1 .. Target + r
    <3>1. /\ Len(Kept(h)) \in Nat /\ Len(Kept(h)) <= Target /\ Before(h) \in Nat
          /\ Before(h + 1) = Before(h) + (Target - Len(Kept(h))) /\ Len(Rest[h]) \in Nat
      <4>1. Len(Kept(h)) \in 0 .. Target BY <1>2
      <4> QED BY <1>1, <1>2, <4>1
    <3>2. n \in 1 .. Target + Len(Rest[h]) BY <1>2
    <3> QED BY ONLY <3>1, <3>2
  <2>2. n <= Target => At(h, n) = b + (n - c) BY <2>1 DEF At
  <2>3. ~ (n <= Target) => At(h, n) = last + Index(n - Target, h) /\ n - Target \in 1 .. r
    BY <1>1, <2>1 DEF At
  <2>4. \A m \in 1 .. r : Index(m, h) \in 1 .. Len(Drawn) - last BY <2>1, RestFacts
  <2>5. Len(Drawn) \in Nat /\ last \in Nat BY <1>2, DrawnFacts
  <2> HIDE DEF last
  <2>6. ~ (n <= Target) => last < At(h, n) BY <2>3, <2>4, <2>5
  <2>7. n \in Int /\ ~ (n <= c) BY <1>1, <1>3, <2>1
  <2>8. n <= Target => b < b + (n - c) /\ b + (n - c) <= b + (Target - c)
    BY ONLY <1>1, <2>7, b \in Nat, c \in Nat
  <2>9. n <= Target => /\ At(h, n) = Before(h) + (n - Len(Kept(h)))
                       /\ Before(h) < At(h, n) /\ At(h, n) <= Before(h + 1)
    BY <2>1, <2>2, <2>8
  <2>10. ~ (n <= Target) => n - Target \in Nat BY <1>1, <2>7
  <2> QED BY <2>1, <2>3, <2>6, <2>7, <2>9, <2>10
<1>4. ASSUME NEW g \in AllLayers, NEW h \in AllLayers, g < h
      PROVE  Before(g + 1) <= Before(h)
  <2>1. h \in 1 .. Layers + 1 /\ g + 1 \in 1 .. h BY <1>1, <1>4 DEF AllLayers
  <2> QED BY <2>1, FreeFacts
<1>5. i \in Int /\ j \in Int /\ At(k, i) \in Int
  <2>1. i \in Int /\ j \in Int BY <1>3
  <2>2. Len(Drawn) \in Nat /\ At(k, i) \in 1 .. Len(Drawn) BY DrawnFacts, PlacingLayer
  <2> QED BY <2>1, <2>2
<1>6. CASE i <= Target /\ j <= Target
  <2>1. ~ (k < l) BY <1>2, <1>3, <1>4, <1>5, <1>6
  <2>2. ~ (l < k) BY <1>2, <1>3, <1>4, <1>5, <1>6
  <2>3. k = l BY <1>1, <2>1, <2>2
  <2> QED BY <1>2, <1>3, <1>5, <1>6, <2>3
<1>7. CASE ~ (i <= Target) /\ ~ (j <= Target)
  <2>1. /\ last + Index(i - Target, k) = last + Index(j - Target, l)
        /\ i - Target \in 1 .. Len(Rest[k]) /\ j - Target \in 1 .. Len(Rest[l])
        /\ i - Target \in Nat /\ j - Target \in Nat
    BY <1>3, <1>7
  <2>2. Index(i - Target, k) \in Int /\ Index(j - Target, l) \in Int BY <2>1, RestFacts
  <2>3. Index(i - Target, k) = Index(j - Target, l) BY <1>2, <2>1, <2>2
  <2>4. k = l /\ i - Target = j - Target BY <2>1, <2>3, IndexUnique
  <2> QED BY <1>1, <1>5, <2>4
<1>8. ~ (i <= Target /\ ~ (j <= Target)) BY <1>2, <1>3, <1>5
<1>9. ~ (j <= Target /\ ~ (i <= Target)) BY <1>2, <1>3, <1>5
<1> QED BY <1>6, <1>7, <1>8, <1>9

LEMMA Smallest ==
  ASSUME NEW set, IsFiniteSet(set), set \subseteq Int, set # {}
  PROVE  \E m \in set : \A n \in set : m <= n
<1> DEFINE size == Cardinality(set)
           sorted == Ascending(set)
<1>1. size \in Nat \ {0} BY FS_CardinalityType, FS_EmptySet
<1>2. /\ sorted \in [1 .. size -> set]
      /\ \A n \in set : \E i \in 1 .. size : sorted[i] = n
      /\ \A i, j \in 1 .. size : i < j => sorted[i] < sorted[j]
  BY AscendingFacts
<1> HIDE DEF size, sorted
<1>3. sorted[1] \in set BY <1>1, <1>2
<1>4. ASSUME NEW n \in set PROVE sorted[1] <= n
  <2>1. PICK i \in 1 .. size : sorted[i] = n BY <1>2
  <2>2. sorted[1] \in Int /\ n \in Int BY <1>3
  <2>3. CASE i = 1 BY <2>1, <2>2, <2>3
  <2>4. CASE 1 < i BY <1>1, <1>2, <2>1, <2>2, <2>4
  <2> QED BY <1>1, <2>3, <2>4
<1> QED BY <1>3, <1>4

(* Every node drawn is in a place.                                         *)
LEMMA AtCovers ==
  ASSUME HasPrevious, NEW x \in 1 .. Len(Drawn)
  PROVE  \E l \in AllLayers :
           \E i \in 1 .. Len(Placing[l]) : ~ (i <= Len(Kept(l))) /\ At(l, i) = x
<1> DEFINE last == Before(Layers + 1)
           set == {l \in AllLayers : x <= Before(l + 1)}
<1>1. Layers \in Nat \ {0} /\ AllLayers = 1 .. Layers BY LayersAssumption DEF AllLayers
<1>2. Target \in Nat /\ last \in Nat /\ Len(Drawn) \in Nat
  BY <1>1, FillFacts, DrawnFacts
<1>3. CASE x <= last
  <2>1. Layers \in set BY <1>1, <1>3
  <2>2. set \subseteq Int /\ IsFiniteSet(set)
    <3>1. IsFiniteSet(AllLayers) BY <1>1, FS_Interval
    <3> QED BY <1>1, <3>1, FS_Subset
  <2>3. PICK l \in set : \A n \in set : l <= n
    <3> HIDE DEF set
    <3> QED BY <2>1, <2>2, Smallest
  <2>4. l \in AllLayers /\ x <= Before(l + 1) OBVIOUS
  <2>5. Before(l) < x
    <3>1. CASE l = 1 BY <3>1, BeforeFirst
    <3>2. CASE l # 1
      <4>1. l - 1 \in AllLayers /\ (l - 1) + 1 = l /\ ~ (l <= l - 1) BY <1>1, <2>4, <3>2
      <4>2. l - 1 \notin set BY <2>3, <4>1
      <4>3. ~ (x <= Before(l)) BY <4>1, <4>2
      <4>4. Before(l) \in Nat BY <2>4, FillFacts
      <4> QED BY <4>3, <4>4
    <3> QED BY <3>1, <3>2
  <2>6. PICK k \in Nat, b \in Nat, r \in Nat :
          /\ k = Len(Kept(l)) /\ b = Before(l) /\ r = Len(Rest[l])
          /\ Before(l + 1) = b + (Target - k) /\ k <= Target /\ Len(Placing[l]) = Target + r
    <3>1. /\ Len(Kept(l)) \in 0 .. Target /\ Before(l) \in Nat
          /\ Before(l + 1) = Before(l) + (Target - Len(Kept(l)))
      BY <2>4, FillFacts
    <3>2. Len(Rest[l]) \in Nat /\ Len(Placing[l]) = Target + Len(Rest[l])
      BY <2>4, PlacingLayer
    <3>3. Len(Kept(l)) \in Nat /\ Len(Kept(l)) <= Target BY <1>2, <3>1
    <3> QED BY ONLY <3>1, <3>2, <3>3
  <2>7. x \in Int /\ b < x /\ x <= b + (Target - k) BY <1>2, <2>4, <2>5, <2>6
  <2>8. PICK i \in Int : i = x - b + k BY <2>7
  <2>9. i <= Target /\ ~ (i <= k) BY <1>2, <2>7, <2>8
  <2>10. i \in 1 .. Target + r BY <1>2, <2>8, <2>9
  <2>11. b + (i - k) = x BY <2>7, <2>8
  <2>12. At(l, i) = x BY <2>6, <2>9, <2>11 DEF At
  <2> HIDE DEF last, set
  <2> QED BY <2>4, <2>6, <2>9, <2>10, <2>12
<1>4. CASE ~ (x <= last)
  <2>1. x - last \in 1 .. Len(Drawn) - last BY <1>2, <1>4
  <2>2. PICK l \in AllLayers : \E k \in 1 .. Len(Rest[l]) : Index(k, l) = x - last
    BY <2>1, RestFacts
  <2>3. PICK k \in 1 .. Len(Rest[l]) : Index(k, l) = x - last BY <2>2
  <2>4. /\ Len(Placing[l]) = Target + Len(Rest[l]) /\ Len(Rest[l]) \in Nat
        /\ Len(Kept(l)) \in 0 .. Target
    BY PlacingLayer, FillFacts
  <2> HIDE DEF last
  <2>5. /\ Target + k \in 1 .. Target + Len(Rest[l]) /\ ~ (Target + k <= Target)
        /\ ~ (Target + k <= Len(Kept(l))) /\ (Target + k) - Target = k
        /\ last + (x - last) = x
    BY <1>2, <2>3, <2>4
  <2>6. At(l, Target + k) = x BY <2>3, <2>5 DEF At, last
  <2> QED BY <2>4, <2>5, <2>6
<1> QED BY <1>3, <1>4

(* Placing by a previous document is a topology of the nodes, each once,   *)
(* with even layers, where the nodes kept are in their layer.              *)
LEMMA PlacingFacts ==
  ASSUME HasPrevious
  PROVE  /\ IsTopology(Placing)
         /\ UNION {Range(Placing[l]) : l \in AllLayers} = nodes
         /\ \A k, l \in AllLayers : Len(Placing[k]) - Len(Placing[l]) <= 1
         /\ \A l \in AllLayers : Range(Kept(l)) \subseteq Range(Placing[l])
<1>1. \A l \in AllLayers :
        /\ Placing[l] \in Seq(Nodes) /\ DOMAIN Placing[l] = 1 .. Len(Placing[l])
        /\ DOMAIN Kept(l) = 1 .. Len(Kept(l)) /\ Range(Kept(l)) \subseteq nodes
        /\ Len(Kept(l)) \in 0 .. Target /\ Target \in Nat
        /\ Len(Rest[l]) \in Nat /\ Len(Placing[l]) = Target + Len(Rest[l])
  <2> TAKE l \in AllLayers
  <2>1. Placing[l] \in Seq(Nodes) /\ Kept(l) \in Seq(Nodes) BY PlacingLayer, KeptFacts
  <2> QED BY <2>1, PlacingLayer, KeptFacts, FillFacts, LenProperties
<1>2. \A l \in AllLayers : \A i \in 1 .. Len(Placing[l]) :
        IF i <= Len(Kept(l)) THEN i \in 1 .. Len(Kept(l)) /\ Placing[l][i] = Kept(l)[i]
        ELSE At(l, i) \in 1 .. Len(Drawn) /\ Placing[l][i] = Drawn[At(l, i)]
  BY <1>1, PlacingLayer
<1>3. AllKept \subseteq nodes /\ Pending = nodes \ AllKept BY AllKeptFacts
<1>4. \A l \in AllLayers : \A i \in 1 .. Len(Kept(l)) : Kept(l)[i] \in AllKept
  BY <1>1 DEF AllKept, Range
<1>5. /\ IsInjective(Drawn) /\ DOMAIN Drawn = 1 .. Len(Drawn)
      /\ \A x \in 1 .. Len(Drawn) : Drawn[x] \in Pending
      /\ \A n \in Pending : \E x \in 1 .. Len(Drawn) : Drawn[x] = n
  BY DrawnFacts DEF Range
<1>6. PlacedOnce(Placing)
  <2>1. \A l \in AllLayers : DOMAIN Placing[l] = 1 .. Len(Placing[l]) BY <1>1
  <2> SUFFICES ASSUME NEW k \in AllLayers, NEW l \in AllLayers,
                      NEW i \in 1 .. Len(Placing[k]), NEW j \in 1 .. Len(Placing[l]),
                      Placing[k][i] = Placing[l][j]
               PROVE  k = l /\ i = j
    BY <2>1 DEF PlacedOnce
  <2>2. CASE i <= Len(Kept(k)) /\ j <= Len(Kept(l))
    <3>1. /\ i \in 1 .. Len(Kept(k)) /\ j \in 1 .. Len(Kept(l))
          /\ Kept(k)[i] = Kept(l)[j]
      BY <1>2, <2>2
    <3> QED BY <3>1, KeptOnce
  <2>3. CASE ~ (i <= Len(Kept(k))) /\ ~ (j <= Len(Kept(l)))
    <3>1. At(k, i) = At(l, j) BY <1>2, <1>5, <2>3 DEF IsInjective
    <3> QED BY <2>3, <3>1, AtUnique
  <2>4. ~ (i <= Len(Kept(k)) /\ ~ (j <= Len(Kept(l)))) BY <1>2, <1>3, <1>4, <1>5
  <2>5. ~ (j <= Len(Kept(l)) /\ ~ (i <= Len(Kept(k)))) BY <1>2, <1>3, <1>4, <1>5
  <2> QED BY <2>2, <2>3, <2>4, <2>5
<1>7. IsTopology(Placing)
  <2>1. Placing = [l \in AllLayers |-> Placing[l]] BY DEF Placing
  <2>2. Placing \in [AllLayers -> Seq(Nodes)] BY <1>1, <2>1
  <2> QED BY <1>6, <2>2 DEF IsTopology
<1>8. \A l \in AllLayers : Range(Kept(l)) \subseteq Range(Placing[l])
  <2> SUFFICES ASSUME NEW l \in AllLayers, NEW i \in 1 .. Len(Kept(l))
               PROVE  Kept(l)[i] \in Range(Placing[l])
    BY <1>1 DEF Range
  <2>1. i \in 1 .. Len(Placing[l]) /\ i <= Len(Kept(l)) BY <1>1
  <2>2. Placing[l][i] = Kept(l)[i] BY <1>2, <2>1
  <2> QED BY <1>1, <2>1, <2>2 DEF Range
<1>9. \A l \in AllLayers : Range(Placing[l]) \subseteq nodes
  <2> SUFFICES ASSUME NEW l \in AllLayers, NEW i \in 1 .. Len(Placing[l])
               PROVE  Placing[l][i] \in nodes
    BY <1>1 DEF Range
  <2> QED BY <1>2, <1>3, <1>4, <1>5
<1>10. ASSUME NEW n \in nodes PROVE \E l \in AllLayers : n \in Range(Placing[l])
  <2>1. CASE n \in AllKept BY <1>8, <2>1 DEF AllKept
  <2>2. CASE n \in Pending
    <3>1. PICK x \in 1 .. Len(Drawn) : Drawn[x] = n BY <1>5, <2>2
    <3>2. PICK l \in AllLayers :
            \E i \in 1 .. Len(Placing[l]) : ~ (i <= Len(Kept(l))) /\ At(l, i) = x
      BY AtCovers
    <3>3. PICK i \in 1 .. Len(Placing[l]) : ~ (i <= Len(Kept(l))) /\ At(l, i) = x BY <3>2
    <3>4. Placing[l][i] = n BY <1>2, <3>1, <3>3
    <3> QED BY <1>1, <3>4 DEF Range
  <2> QED BY <1>3, <2>1, <2>2
<1>11. UNION {Range(Placing[l]) : l \in AllLayers} = nodes BY <1>9, <1>10
<1>12. ASSUME NEW k \in AllLayers, NEW l \in AllLayers
       PROVE  Len(Placing[k]) - Len(Placing[l]) <= 1
  <2>1. Len(Rest[k]) - Len(Rest[l]) <= 1 BY RestFacts
  <2> QED BY <1>1, <2>1
<1> QED BY <1>7, <1>8, <1>11, <1>12

-----------------------------------------------------------------------------
(* Placing at random: a topology of the nodes, each once, with even        *)
(* layers.                                                                 *)
LEMMA RandomFacts ==
  ASSUME srv \in Seeds, nodes \subseteq Nodes
  PROVE  /\ IsTopology(GenerateRandomTopology)
         /\ UNION {Range(GenerateRandomTopology[l]) : l \in AllLayers} = nodes
         /\ \A k, l \in AllLayers :
              Len(GenerateRandomTopology[k]) - Len(GenerateRandomTopology[l]) <= 1
<1> DEFINE size == Cardinality(nodes)
           sorted == Ascending(nodes)
           lengths == <<size>>
           drawn == Shuffled(sorted, lengths)
           t == GenerateRandomTopology
<1>1. /\ IsFiniteSet(nodes) /\ nodes \subseteq Int /\ size \in 0 .. Cardinality(Nodes)
      /\ size \in Nat
  BY NodesFinite
<1>2. /\ sorted \in [1 .. size -> nodes]
      /\ \A n \in nodes : \E i \in 1 .. size : sorted[i] = n
      /\ \A i, j \in 1 .. size : i < j => sorted[i] < sorted[j]
  BY <1>1, AscendingFacts
<1> HIDE DEF sorted
<1>3. sorted \in Seq(Nodes) /\ Len(sorted) = size /\ DOMAIN sorted = 1 .. size
  <2>1. sorted \in [1 .. size -> Nodes] BY <1>2
  <2> HIDE DEF size
  <2> QED BY <1>1, <2>1
<1>4. IsInjective(sorted)
  <2> SUFFICES ASSUME NEW i \in 1 .. size, NEW j \in 1 .. size, sorted[i] = sorted[j]
               PROVE  i = j
    BY <1>3 DEF IsInjective
  <2>1. sorted[i] \in Int /\ sorted[j] \in Int BY <1>1, <1>2
  <2> QED BY <1>1, <1>2, <2>1
<1>5. Range(sorted) = nodes BY <1>2 DEF Range
<1>6. lengths \in Lengths /\ lengths[Len(lengths)] = Len(sorted)
  <2> HIDE DEF size
  <2>1. lengths \in [1 .. 1 -> 0 .. Cardinality(Nodes)] BY <1>1
  <2>2. 1 \in 1 .. Layers + 1 BY LayersAssumption
  <2> QED BY <1>3, <2>1, <2>2 DEF Lengths
<1>7. t = Deal(drawn) BY DEF GenerateRandomTopology, sorted
<1> HIDE DEF lengths
<1>8. /\ drawn \in Seq(Nodes) /\ Len(drawn) = size
      /\ Range(drawn) = nodes /\ IsInjective(drawn)
  BY <1>3, <1>4, <1>5, <1>6, ShuffledFacts
<1>9. DOMAIN drawn = 1 .. Len(drawn) BY <1>8, LenProperties
<1> HIDE DEF drawn, t
<1>10. /\ t \in [AllLayers -> Seq(Nodes)]
       /\ \A l \in AllLayers : \A k \in 1 .. Len(t[l]) :
            Index(k, l) \in 1 .. Len(drawn) /\ t[l][k] = drawn[Index(k, l)]
       /\ \A x \in 1 .. Len(drawn) :
            \E l \in AllLayers : \E k \in 1 .. Len(t[l]) : Index(k, l) = x
       /\ \A k, l \in AllLayers : Len(t[k]) - Len(t[l]) <= 1
  BY <1>7, <1>8, DealFacts
<1>11. \A l \in AllLayers : DOMAIN t[l] = 1 .. Len(t[l]) /\ Len(t[l]) \in Nat
  BY <1>10, LenProperties
<1>12. PlacedOnce(t)
  <2> SUFFICES ASSUME NEW k \in AllLayers, NEW l \in AllLayers,
                      NEW i \in 1 .. Len(t[k]), NEW j \in 1 .. Len(t[l]), t[k][i] = t[l][j]
               PROVE  k = l /\ i = j
    BY <1>11 DEF PlacedOnce
  <2>1. Index(i, k) = Index(j, l) BY <1>8, <1>9, <1>10 DEF IsInjective
  <2>2. i \in Nat /\ j \in Nat BY <1>11
  <2> QED BY <2>1, <2>2, IndexUnique
<1>13. UNION {Range(t[l]) : l \in AllLayers} = nodes
  <2>1. \A l \in AllLayers : Range(t[l]) \subseteq nodes
    BY <1>8, <1>9, <1>10, <1>11 DEF Range
  <2>2. ASSUME NEW n \in nodes PROVE \E l \in AllLayers : n \in Range(t[l])
    <3>1. PICK x \in 1 .. Len(drawn) : drawn[x] = n BY <1>8, <1>9 DEF Range
    <3>2. PICK l \in AllLayers : \E k \in 1 .. Len(t[l]) : Index(k, l) = x BY <1>10
    <3>3. PICK k \in 1 .. Len(t[l]) : Index(k, l) = x BY <3>2
    <3>4. t[l][k] = n BY <1>10, <3>1, <3>3
    <3> QED BY <1>11, <3>4 DEF Range
  <2> QED BY <2>1, <2>2
<1> QED BY <1>10, <1>12, <1>13 DEF t, IsTopology

(* Placing as configured: the listed nodes that are there, in their layer. *)
LEMMA FixedFacts ==
  ASSUME IsTopology(fixed)
  PROVE  /\ IsTopology(GenerateFixedTopology)
         /\ UNION {Range(GenerateFixedTopology[l]) : l \in AllLayers} =
              nodes \cap UNION {Range(fixed[l]) : l \in AllLayers}
<1> DEFINE t == GenerateFixedTopology
<1>1. \A l \in AllLayers :
        /\ t[l] = Among(fixed[l], nodes) /\ t[l] \in Seq(Nodes)
        /\ Range(t[l]) = Range(fixed[l]) \cap nodes /\ IsInjective(t[l])
  <2> TAKE l \in AllLayers
  <2>1. t[l] = Among(fixed[l], nodes) BY DEF GenerateFixedTopology
  <2>2. fixed[l] \in Seq(Nodes) /\ IsInjective(fixed[l]) BY LayerFacts
  <2> HIDE DEF t
  <2> QED BY <2>1, <2>2, AmongFacts
<1>2. t \in [AllLayers -> Seq(Nodes)]
  <2>1. t = [l \in AllLayers |-> t[l]] BY DEF GenerateFixedTopology
  <2> HIDE DEF t
  <2> QED BY <1>1, <2>1
<1> HIDE DEF t
<1>3. PlacedOnce(t)
  <2> SUFFICES ASSUME NEW k \in AllLayers, NEW l \in AllLayers,
                      NEW i \in DOMAIN t[k], NEW j \in DOMAIN t[l], t[k][i] = t[l][j]
               PROVE  k = l /\ i = j
    BY DEF PlacedOnce
  <2>1. t[k][i] \in Range(t[k]) /\ t[k][i] \in Range(t[l]) BY DEF Range
  <2>2. t[k][i] \in Range(fixed[k]) /\ t[k][i] \in Range(fixed[l]) BY <1>1, <2>1
  <2>3. k = l BY <2>2 DEF IsTopology, PlacedOnce, Range
  <2> QED BY <1>1, <2>3 DEF IsInjective
<1>4. UNION {Range(t[l]) : l \in AllLayers} = nodes \cap UNION {Range(fixed[l]) : l \in AllLayers}
  BY <1>1
<1> QED BY <1>2, <1>3, <1>4 DEF t, IsTopology

-----------------------------------------------------------------------------
(* No even placing keeps more nodes in their layers.  Of the nodes it      *)
(* leaves in layer l there are no more than the layer has room for, nor    *)
(* than there were in l and are still there: no more than Kept(l) has.  So *)
(* the n-th of them is mapped to the n-th of Kept(l), and no two nodes are *)
(* mapped to the same.                                                     *)
LEMMA KeptMost ==
  ASSUME HasPrevious, NEW place \in [nodes -> AllLayers],
         \A l \in AllLayers : Cardinality({n \in nodes : place[n] = l}) = Target
  PROVE  Cardinality(Stay([l \in AllLayers |-> {n \in nodes : place[n] = l}]))
           <= Cardinality(Stay([l \in AllLayers |-> Range(Placing[l])]))
<1> DEFINE theirs == Stay([l \in AllLayers |-> {n \in nodes : place[n] = l}])
           ours == Stay([l \in AllLayers |-> Range(Placing[l])])
           in(l) == {n \in theirs : place[n] = l}
           f == [n \in theirs |-> Kept(place[n])[Rank(in(place[n]), n)]]
<1>1. IsFiniteSet(nodes) /\ nodes \subseteq Int /\ Target \in Nat
  BY NodesFinite DEF HasPrevious
<1>2. theirs = {n \in nodes : n \in Range(previous[place[n]])} BY DEF Stay
<1>3. AllKept \subseteq ours
  <2> SUFFICES ASSUME NEW l \in AllLayers, NEW n \in Range(Kept(l)) PROVE n \in ours
    BY DEF AllKept
  <2>1. n \in Range(Placing[l]) BY PlacingFacts
  <2>2. n \in nodes /\ n \in Range(previous[l]) BY KeptFacts
  <2> QED BY <2>1, <2>2 DEF Stay
<1>4. IsFiniteSet(ours) /\ IsFiniteSet(AllKept) /\ Cardinality(AllKept) <= Cardinality(ours)
  <2>1. ours \subseteq nodes BY DEF Stay
  <2> HIDE DEF ours
  <2>2. IsFiniteSet(ours) BY <1>1, <2>1, FS_Subset
  <2> QED BY <1>3, <2>2, FS_Subset
<1> HIDE DEF theirs, ours
<1>5. ASSUME NEW l \in AllLayers
      PROVE  /\ IsFiniteSet(in(l)) /\ in(l) \subseteq Int /\ Cardinality(in(l)) \in Nat
             /\ Cardinality(in(l)) <= Len(Kept(l)) /\ Len(Kept(l)) \in Nat
  <2>1. in(l) \in SUBSET {n \in nodes : place[n] = l} BY <1>2
  <2>2. in(l) \in SUBSET (Range(previous[l]) \cap nodes) BY <1>2
  <2>3. IsFiniteSet({n \in nodes : place[n] = l}) /\ IsFiniteSet(Range(previous[l]) \cap nodes)
    BY <1>1, FS_Subset
  <2> HIDE DEF in
  <2>4. IsFiniteSet(in(l)) /\ Cardinality(in(l)) <= Target BY <2>1, <2>3, FS_Subset
  <2>5. Cardinality(in(l)) <= Cardinality(Range(previous[l]) \cap nodes)
    BY <2>2, <2>3, FS_Subset
  <2>6. Cardinality(in(l)) \in Nat BY <2>4, FS_CardinalityType
  <2>7. Cardinality(in(l)) <= Len(Kept(l)) /\ Len(Kept(l)) \in 0 .. Target
    BY <2>4, <2>5, KeptFacts
  <2> QED BY <1>1, <2>1, <2>4, <2>6, <2>7
<1>6. ASSUME NEW n \in theirs
      PROVE  /\ place[n] \in AllLayers /\ n \in in(place[n])
             /\ Rank(in(place[n]), n) \in 1 .. Len(Kept(place[n]))
  <2>1. place[n] \in AllLayers /\ n \in in(place[n]) BY <1>2
  <2> HIDE DEF in
  <2>2. Rank(in(place[n]), n) \in 1 .. Cardinality(in(place[n])) BY <1>5, <2>1, RankFacts
  <2> QED BY <1>5, <2>1, <2>2
<1>7. f \in [theirs -> AllKept]
  <2>1. \A l \in AllLayers : DOMAIN Kept(l) = 1 .. Len(Kept(l)) BY KeptFacts, LenProperties
  <2>2. \A l \in AllLayers : \A i \in 1 .. Len(Kept(l)) : Kept(l)[i] \in AllKept
    BY <2>1 DEF AllKept, Range
  <2> HIDE DEF in
  <2>3. \A n \in theirs : Kept(place[n])[Rank(in(place[n]), n)] \in AllKept
    BY <1>6, <2>2
  <2> QED BY <2>3
<1>8. ASSUME NEW n \in theirs, NEW m \in theirs, f[n] = f[m] PROVE n = m
  <2>1. Kept(place[n])[Rank(in(place[n]), n)] = Kept(place[m])[Rank(in(place[m]), m)]
    BY <1>8
  <2> HIDE DEF in
  <2>2. place[n] = place[m] /\ Rank(in(place[n]), n) = Rank(in(place[m]), m)
    BY <1>6, <2>1, KeptOnce
  <2> QED BY <1>5, <1>6, <2>2, RankFacts
<1> HIDE DEF f
<1>9. f \in Injection(theirs, AllKept) BY <1>7, <1>8, Fun_IsInj
<1>10. IsFiniteSet(theirs) /\ Cardinality(theirs) <= Cardinality(AllKept)
  BY <1>4, <1>9, FS_Injection
<1>11. Cardinality(theirs) \in Nat /\ Cardinality(AllKept) \in Nat /\ Cardinality(ours) \in Nat
  BY <1>4, <1>10, FS_CardinalityType
<1>12. Cardinality(theirs) <= Cardinality(ours) BY <1>4, <1>10, <1>11
<1> QED BY <1>12 DEF theirs, ours

-----------------------------------------------------------------------------
(* What an authority votes for follows from what it read and holds.        *)
Generated(a) ==
  IF fixed # None THEN GenerateFixedTopology
  ELSE IF a \in holds THEN Placing ELSE GenerateRandomTopology

TopologyInv ==
  /\ TypeOK
  /\ holds # {} => previous # None
  /\ \A a \in Voted : topology[a] = Generated(a)

LEMMA NoneIsNone == \A t : IsTopology(t) => t # None
<1>1. 1 \in AllLayers BY LayersAssumption DEF AllLayers
<1> SUFFICES ASSUME NEW t, IsTopology(t), t = None PROVE FALSE OBVIOUS
<1>2. DOMAIN t = AllLayers BY DEF IsTopology
<1>3. DOMAIN None = {} BY DEF None
<1> QED BY <1>1, <1>2, <1>3

LEMMA GeneratedFacts ==
  ASSUME TypeOK, holds # {} => previous # None, NEW a \in Authorities
  PROVE  /\ IsTopology(Generated(a))
         /\ UNION {Range(Generated(a)[l]) : l \in AllLayers} = ToPlace
         /\ fixed = None => \A k, l \in AllLayers :
                              Len(Generated(a)[k]) - Len(Generated(a)[l]) <= 1
<1>1. CASE fixed # None
  <2>1. Generated(a) = GenerateFixedTopology BY <1>1 DEF Generated
  <2>2. IsTopology(fixed) BY <1>1 DEF TypeOK
  <2> QED BY <1>1, <2>1, <2>2, FixedFacts DEF ToPlace
<1>2. CASE fixed = None /\ a \in holds
  <2>1. Generated(a) = Placing BY <1>2 DEF Generated
  <2>2. HasPrevious BY <1>2 DEF TypeOK, HasPrevious
  <2> QED BY <1>2, <2>1, <2>2, PlacingFacts DEF ToPlace
<1>3. CASE fixed = None /\ a \notin holds
  <2>1. Generated(a) = GenerateRandomTopology BY <1>3 DEF Generated
  <2>2. srv \in Seeds /\ nodes \subseteq Nodes BY DEF TypeOK
  <2> QED BY <1>3, <2>1, <2>2, RandomFacts DEF ToPlace
<1> QED BY <1>1, <1>2, <1>3

LEMMA GeneratedStable ==
  ASSUME UNCHANGED <<fixed, nodes, srv, previous, holds>>
  PROVE  \A a : Generated(a)' = Generated(a)
<1>1. Target' = Target BY DEF Target
<1>2. \A l : DrawnLayer(l)' = DrawnLayer(l) BY DEF DrawnLayer, Shuffled
<1>3. \A l : Kept(l)' = Kept(l) BY <1>1, <1>2 DEF Kept
<1>4. Pending' = Pending BY <1>3 DEF Pending
<1>5. \A l : Before(l)' = Before(l) BY <1>1, <1>3 DEF Before
<1>6. Drawn' = Drawn BY <1>4 DEF Drawn, Shuffled
<1>7. \A l : Filled(l)' = Filled(l) BY <1>1, <1>3, <1>5, <1>6 DEF Filled
<1>8. Rest' = Rest BY <1>5, <1>6 DEF Rest
<1>9. Placing' = Placing BY <1>3, <1>7, <1>8 DEF Placing
<1>10. GenerateRandomTopology' = GenerateRandomTopology BY DEF GenerateRandomTopology, Shuffled
<1>11. GenerateFixedTopology' = GenerateFixedTopology BY DEF GenerateFixedTopology
<1> QED BY <1>9, <1>10, <1>11 DEF Generated

LEMMA VoteInv ==
  ASSUME TopologyInv, NEW a \in Authorities, Vote(a) PROVE TopologyInv'
<1>1. UNCHANGED <<fixed, nodes, srv, previous, holds>> BY DEF Vote
<1>2. \A b : Generated(b)' = Generated(b) BY <1>1, GeneratedStable
<1>3. TypeOK /\ (holds # {} => previous # None) BY DEF TopologyInv
<1>4. topology' = [topology EXCEPT ![a] = Generated(a)]
  <2>1. CASE fixed # None BY <2>1 DEF Vote, Generated
  <2>2. CASE fixed = None /\ a \notin holds BY <2>2 DEF Vote, Generated
  <2>3. CASE fixed = None /\ a \in holds
    <3>1. PICK flat \in Flattened(Pending) :
            topology' = [topology EXCEPT ![a] = GenerateTopology(flat)]
      BY <2>3 DEF Vote
    <3>2. HasPrevious BY <1>3, <2>3 DEF TypeOK, HasPrevious
    <3>3. GenerateTopology(flat) = Placing BY <3>2, OrderOfMap
    <3> QED BY <2>3, <3>1, <3>3 DEF Generated
  <2> QED BY <2>1, <2>2, <2>3
<1>5. DOMAIN topology = Authorities BY <1>3 DEF TypeOK
<1>6. \A b \in Authorities : topology'[b] = IF b = a THEN Generated(a) ELSE topology[b]
  BY <1>4, <1>5
<1>7. IsTopology(Generated(a)) BY <1>3, GeneratedFacts
<1>8. TypeOK'
  <2>1. topology' = [b \in Authorities |-> topology'[b]] BY <1>4, <1>5
  <2>2. \A b \in Authorities : topology'[b] = None \/ IsTopology(topology'[b])
    BY <1>3, <1>6, <1>7 DEF TypeOK
  <2> QED BY <1>1, <1>3, <2>1, <2>2 DEF TypeOK
<1>9. \A b \in Voted' : topology'[b] = Generated(b)'
  <2> SUFFICES ASSUME NEW b \in Authorities, topology'[b] # None
               PROVE  topology'[b] = Generated(b)
    BY <1>2 DEF Voted
  <2> QED BY <1>6 DEF TopologyInv, Voted
<1> QED BY <1>1, <1>3, <1>8, <1>9 DEF TopologyInv

LEMMA NextEpochInv ==
  ASSUME TopologyInv, NextEpoch PROVE TopologyInv'
<1>1. PICK a \in Authorities : previous' = topology[a] BY DEF NextEpoch
<1>2. topology[a] # None BY DEF NextEpoch
<1>3. IsTopology(previous') BY <1>1, <1>2 DEF TopologyInv, TypeOK
<1>4. previous' # None BY <1>1, <1>2
<1>5. topology' = [b \in Authorities |-> None] /\ UNCHANGED <<fixed, srv>>
        /\ nodes' \subseteq Nodes /\ holds' \subseteq Authorities
  BY DEF NextEpoch
<1>6. TypeOK' BY <1>3, <1>5 DEF TopologyInv, TypeOK
<1>7. Voted' = {} BY <1>5 DEF Voted
<1> QED BY <1>4, <1>6, <1>7 DEF TopologyInv

(* TopologyInv is inductive.                                               *)
THEOREM TopologyInvariant == Spec => []TopologyInv
<1>1. Init => TopologyInv
  <2> SUFFICES ASSUME Init PROVE TopologyInv OBVIOUS
  <2>1. fixed = None \/ IsTopology(fixed) BY ConfiguredAssumption DEF Init
  <2>2. TypeOK BY <2>1 DEF Init, TypeOK
  <2>3. Voted = {} BY DEF Init, Voted
  <2> QED BY <2>2, <2>3 DEF Init, TopologyInv
<1>2. TopologyInv /\ [Next]_vars => TopologyInv'
  <2> SUFFICES ASSUME TopologyInv, [Next]_vars PROVE TopologyInv' OBVIOUS
  <2>1. ASSUME NEW a \in Authorities, Vote(a) PROVE TopologyInv' BY <2>1, VoteInv
  <2>2. CASE NextEpoch BY <2>2, NextEpochInv
  <2>3. CASE UNCHANGED vars
    <3>1. UNCHANGED <<fixed, nodes, srv, previous, holds>> /\ topology' = topology
      BY <2>3 DEF vars
    <3>2. \A a : Generated(a)' = Generated(a) BY <3>1, GeneratedStable
    <3>3. TypeOK' BY <3>1 DEF TopologyInv, TypeOK
    <3> QED BY <3>1, <3>2, <3>3 DEF TopologyInv, Voted
  <2> QED BY <2>1, <2>2, <2>3 DEF Next
<1> QED BY <1>1, <1>2, PTL DEF Spec

(* TypeOK: what is voted for is a topology, with no node in two places.    *)
THEOREM TopologyTypeCorrect == Spec => []TypeOK
<1>1. TopologyInv => TypeOK BY DEF TopologyInv
<1> QED BY <1>1, TopologyInvariant, PTL

(* VotesAlike: authorities that start from the same vote for the same.     *)
THEOREM AuthoritiesPlaceAlike == Spec => []VotesAlike
<1>1. TopologyInv => VotesAlike BY DEF TopologyInv, VotesAlike, Generated
<1> QED BY <1>1, TopologyInvariant, PTL

(* EveryNodePlacedOnce: no node is left out, placed twice or added.        *)
THEOREM NodesPlacedOnce == Spec => []EveryNodePlacedOnce
<1>1. TopologyInv => EveryNodePlacedOnce
  <2> SUFFICES ASSUME TopologyInv, NEW a \in Voted
               PROVE  /\ UNION {Range(topology[a][l]) : l \in AllLayers} = ToPlace
                      /\ PlacedOnce(topology[a])
    BY DEF EveryNodePlacedOnce
  <2>1. a \in Authorities /\ topology[a] = Generated(a) BY DEF TopologyInv, Voted
  <2>2. IsTopology(Generated(a))
          /\ UNION {Range(Generated(a)[l]) : l \in AllLayers} = ToPlace
    BY <2>1, GeneratedFacts DEF TopologyInv
  <2> QED BY <2>1, <2>2 DEF IsTopology
<1> QED BY <1>1, TopologyInvariant, PTL

(* LayersEven: the sizes of two layers differ by one node at most.         *)
THEOREM EvenLayers == Spec => []LayersEven
<1>1. TopologyInv => LayersEven
  <2> SUFFICES ASSUME TopologyInv, fixed = None, NEW a \in Voted,
                      NEW k \in AllLayers, NEW l \in AllLayers
               PROVE  Len(topology[a][k]) - Len(topology[a][l]) <= 1
    BY DEF LayersEven
  <2>1. a \in Authorities /\ topology[a] = Generated(a) BY DEF TopologyInv, Voted
  <2> QED BY <2>1, GeneratedFacts DEF TopologyInv
<1> QED BY <1>1, TopologyInvariant, PTL

(* FewestMoves: no even placing keeps more nodes in their layers.          *)
THEOREM FewNodesMove == Spec => []FewestMoves
<1>1. TopologyInv => FewestMoves
  <2> SUFFICES ASSUME TopologyInv, fixed = None, NEW a \in Voted \cap holds,
                      NEW place \in [nodes -> AllLayers],
                      \A l \in AllLayers : Cardinality({n \in nodes : place[n] = l}) = Target
               PROVE  Cardinality(Stay([l \in AllLayers |-> {n \in nodes : place[n] = l}]))
                        <= Cardinality(Stay([l \in AllLayers |-> Range(topology[a][l])]))
    BY DEF FewestMoves
  <2>1. topology[a] = Placing BY DEF TopologyInv, Generated
  <2>2. HasPrevious BY DEF TopologyInv, TypeOK, HasPrevious
  <2> QED BY <2>1, <2>2, KeptMost
<1> QED BY <1>1, TopologyInvariant, PTL
=============================================================================
