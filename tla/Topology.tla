------------------------------ MODULE Topology ------------------------------
(***************************************************************************)
(* The layers of a document: how each authority places the mix nodes whose *)
(* descriptors it read, on its own, so that the documents the authorities  *)
(* vote for are equal hash for hash.  An authority that holds the          *)
(* document of the previous epoch starts from its layers, one that does    *)
(* not places all nodes at random; where the configuration lists the       *)
(* layers, both follow the list.                                           *)
(*                                                                         *)
(* A mix node is a number, in the order of the hashes of identity keys.    *)
(* The random reader is seeded anew for each vote with the shared random   *)
(* value, which is the same for all authorities and all epochs.            *)
(***************************************************************************)
EXTENDS Integers, Sequences, FiniteSets, Functions

CONSTANTS
  Nodes,            \* the mix nodes
  Layers,           \* how many layers a document has
  Authorities,
  Configured,       \* the layers a configuration may list, or None
  Seeds,            \* the shared random values (bound)
  Perm(_, _),       \* the permutation that the last of several draws gives
  MaxChanges        \* how many nodes come or go between two epochs (bound)

AllLayers == 1 .. Layers
None == <<>>

PlacedOnce(t) ==
  \A k, l \in AllLayers : \A i \in DOMAIN t[k], j \in DOMAIN t[l] :
    t[k][i] = t[l][j] => k = l /\ i = j

IsTopology(t) == t \in [AllLayers -> Seq(Nodes)] /\ PlacedOnce(t)

(* What is drawn from a reader depends on its seed and on all the lengths  *)
(* that permutations were drawn for.                                       *)
Lengths == UNION {[1 .. draws -> 0 .. Cardinality(Nodes)] : draws \in 1 .. Layers + 1}

ASSUME NodesAssumption == IsFiniteSet(Nodes) /\ Nodes \subseteq Int
ASSUME LayersAssumption == Layers \in Nat \ {0}
ASSUME ConfiguredAssumption == \A layers \in Configured \ {None} : IsTopology(layers)
ASSUME PermAssumption ==
  \A seed \in Seeds, lengths \in Lengths :
    LET indexes == 1 .. lengths[Len(lengths)]
    IN Perm(seed, lengths) \in Bijection(indexes, indexes)

VARIABLES
  fixed,            \* the layers the configuration lists, or None
  nodes,            \* the mix nodes whose descriptors the chain has
  srv,              \* the shared random value
  previous,         \* the layers of the consensus of the previous epoch
  holds,            \* the authorities that hold that consensus
  topology          \* the layers in each authority's vote, or None

vars == <<fixed, nodes, srv, previous, holds, topology>>

TypeOK ==
  /\ fixed = None \/ IsTopology(fixed)
  /\ nodes \subseteq Nodes
  /\ srv \in Seeds
  /\ previous = None \/ IsTopology(previous)
  /\ holds \subseteq Authorities
  /\ topology = [a \in Authorities |-> topology[a]]
  /\ \A a \in Authorities : topology[a] = None \/ IsTopology(topology[a])

-----------------------------------------------------------------------------
(* The i-th has i - 1 below it. *)
Ascending(set) ==
  [i \in 1 .. Cardinality(set) |-> CHOOSE n \in set : Cardinality({m \in set : m <= n}) = i]

(* The elements of a sequence that are in a set, in their order.  (Like    *)
(* SelectSeq, which the prover does not expand.)                           *)
Among(seq, set) ==
  LET places == Ascending({i \in DOMAIN seq : seq[i] \in set})
  IN [i \in DOMAIN places |-> seq[places[i]]]

Upto(seq, n) == SubSeq(seq, 1, IF Len(seq) <= n THEN Len(seq) ELSE n)

(* The permutation is that of the last of the lengths drawn for.           *)
Shuffled(seq, lengths) == [i \in 1 .. Len(seq) |-> seq[Perm(srv, lengths)[i]]]

(* Mutant: the first layer takes all. *)
DealToFirst(seq) == [l \in AllLayers |-> IF l = 1 THEN seq ELSE <<>>]

(* A sequence dealt over the layers in turn.                               *)
Deal(seq) ==
  [l \in AllLayers |-> [k \in 1 .. (Len(seq) + Layers - l) \div Layers |-> seq[(k - 1) * Layers + l]]]

(* The descriptors are in the order of the chain, the same for all.        *)
GenerateRandomTopology == Deal(Shuffled(Ascending(nodes), <<Cardinality(nodes)>>))

(* Nodes that are still there stay in their layer, up to the target size.  *)
Target == Cardinality(nodes) \div Layers

DrawnLayer(l) == Shuffled(previous[l], [k \in 1 .. l |-> Len(previous[k])])

(* Mutant: nodes that left keep their place. *)
KeptDeparted(l) == Upto(DrawnLayer(l), Target)

(* Mutant: a layer keeps one node less than it could. *)
KeptFewer(l) == Upto(Among(DrawnLayer(l), nodes), Target - 1)

Kept(l) == Upto(Among(DrawnLayer(l), nodes), Target)

Pending == nodes \ UNION {Range(Kept(l)) : l \in AllLayers}

(* The others come out of a map, in an order that differs from authority   *)
(* to authority.                                                           *)
Flattened(pending) == Bijection(1 .. Cardinality(pending), pending)

(* Mutant: the nodes to place are taken in the order of the map. *)
ToAssignUnsorted(flat) == flat

(* They are sorted. *)
ToAssign(flat) == Ascending(Range(flat))

(* Mutant: every layer is filled from the first node to place. *)
BeforeNone(l) == 0

(* How many of them the layers before l take to reach the target size: as  *)
(* many as these have places left.                                         *)
Before(l) ==
  Cardinality({place \in (1 .. l - 1) \X (1 .. Target) : place[2] > Len(Kept(place[1]))})

(* The layers below the target size are filled, and what remains is dealt. *)
GenerateTopology(flat) ==
  LET lengths == [k \in 1 .. Layers + 1 |-> IF k <= Layers THEN Len(previous[k]) ELSE Len(flat)]
      drawn == Shuffled(ToAssign(flat), lengths)
      rest == Deal(SubSeq(drawn, Before(Layers + 1) + 1, Len(drawn)))
  IN [l \in AllLayers |->
        Kept(l) \o SubSeq(drawn, Before(l) + 1, Before(l) + Target - Len(Kept(l))) \o rest[l]]

(* A node the configuration does not list is in no layer. *)
GenerateFixedTopology ==
  [l \in AllLayers |-> Among(fixed[l], nodes)]

-----------------------------------------------------------------------------
(* A document without a node in every layer is not well formed. *)
Enough(set) ==
  IF fixed = None THEN Cardinality(set) >= Layers
                  ELSE \A l \in AllLayers : Range(fixed[l]) \cap set # {}

Init ==
  /\ fixed \in Configured
  /\ nodes \in {set \in SUBSET Nodes : Enough(set)}
  /\ srv \in Seeds
  /\ previous = None /\ holds = {}
  /\ topology = [a \in Authorities |-> None]

Vote(a) ==
  /\ topology[a] = None
  /\ \/ fixed # None /\ topology' = [topology EXCEPT ![a] = GenerateFixedTopology]
     \/ /\ fixed = None /\ a \notin holds
        /\ topology' = [topology EXCEPT ![a] = GenerateRandomTopology]
     \/ /\ fixed = None /\ a \in holds
        /\ \E flat \in Flattened(Pending) :
             topology' = [topology EXCEPT ![a] = GenerateTopology(flat)]
  /\ UNCHANGED <<fixed, nodes, srv, previous, holds>>

(* One of the documents voted for is the consensus, and each authority has *)
(* it when it votes for the next epoch, or has not; nodes come and go.     *)
NextEpoch ==
  /\ \A a \in Authorities : topology[a] # None
  /\ \E a \in Authorities : previous' = topology[a]
  /\ holds' \in SUBSET Authorities
  /\ nodes' \in {set \in SUBSET Nodes :
       Enough(set) /\ Cardinality((set \ nodes) \cup (nodes \ set)) <= MaxChanges}
  /\ topology' = [a \in Authorities |-> None]
  /\ UNCHANGED <<fixed, srv>>

Next == NextEpoch \/ \E a \in Authorities : Vote(a)

Spec == Init /\ [][Next]_vars

-----------------------------------------------------------------------------
Voted == {a \in Authorities : topology[a] # None}

(* Authorities that start from the same document, or all from none, place  *)
(* every node alike, whatever order their maps come in: their votes can    *)
(* form a majority (state.go:1230).  With configured layers they place     *)
(* them alike whatever they hold.                                          *)
VotesAlike ==
  \A a, b \in Voted :
    (fixed # None \/ (a \in holds <=> b \in holds)) => topology[a] = topology[b]

ToPlace ==
  IF fixed = None THEN nodes ELSE nodes \cap UNION {Range(fixed[l]) : l \in AllLayers}

(* Every node whose descriptor was read (and which the configuration       *)
(* lists, if it lists any) is in one layer, once, also one that left its   *)
(* layer or came back, and no other node is in any.                        *)
EveryNodePlacedOnce ==
  \A a \in Voted :
    /\ UNION {Range(topology[a][l]) : l \in AllLayers} = ToPlace
    /\ PlacedOnce(topology[a])

(* The layers stay even however nodes come and go, epoch after epoch.      *)
LayersEven ==
  fixed = None => \A a \in Voted, k, l \in AllLayers : Len(topology[a][k]) - Len(topology[a][l]) <= 1

(* The nodes of a topology that are in the layer they were in before.      *)
Stay(t) ==
  {n \in nodes : \E l \in AllLayers : n \in Range(previous[l]) /\ n \in t[l]}

(* "As many nodes as possible retain their existing layer assignment to    *)
(* minimise network churn" (state.go:1194): no even placing keeps more     *)
(* nodes in their layers, when the nodes can be shared out evenly.         *)
FewestMoves ==
  fixed = None /\ Cardinality(nodes) % Layers = 0 =>
    \A a \in Voted \cap holds :
      \A place \in [nodes -> AllLayers] :
        (\A l \in AllLayers : Cardinality({n \in nodes : place[n] = l}) = Target)
          => Cardinality(Stay([l \in AllLayers |-> {n \in nodes : place[n] = l}]))
               <= Cardinality(Stay([l \in AllLayers |-> Range(topology[a][l])]))
=============================================================================
