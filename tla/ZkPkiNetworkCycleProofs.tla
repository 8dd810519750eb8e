---------------------- MODULE ZkPkiNetworkCycleProofs ----------------------
(***************************************************************************)
(* Proofs about ZkPkiNetwork when what is sent on time lands on time       *)
(* (InTime): everybody votes on the epoch after the current one and reads  *)
(* the same descriptors, so a correct majority decides in every epoch on a *)
(* document that lists all the correct and keeps the genesis epoch.        *)
(* CycleInv is the inductive invariant, on top of NetworkInv.              *)
(***************************************************************************)
EXTENDS ZkPkiNetworkProofs, FiniteSetTheorems

(* The latest an authority begins to gather descriptors, has voted, and    *)
(* sleeps before it looks for the consensus.                               *)
GatheredBy == DescriptorBlockDeadline + JitterMax + MaxDelay + MaxLate
VotedBy == GatheredBy + MaxDelay + MaxDelay
ConfirmedBy == PublishConsensusDeadline + Period \div 8

(* When a vote that is sent on time is on the chain before the consensus   *)
(* is due.                                                                 *)
VotesInTime == VotedBy < PublishConsensusDeadline

(* Of the state l of an authority: it acts on the epoch after the current  *)
(* one, no phase begins or ends later than its share of the epoch, and no  *)
(* submission begins before the mix publish deadline.  The wakeup, or the  *)
(* end of a chain call, is at l.timer + elapsed.                           *)
InStep(l) ==
  /\ l.fsm = "down" => l.timer = 0
  /\ l.timer >= IF l.call = "none" THEN -MaxLate ELSE 0
  /\ l.fsm = "descriptor_send" /\ l.call = "none" =>
       \/ /\ l.votingEpoch = epoch + 1
          /\ l.timer + elapsed >= MixPublishDeadline
          /\ l.timer + elapsed <= MixPublishDeadline + JitterMax
       \/ /\ l.votingEpoch = epoch + 2 /\ l.documents[epoch + 1] # NoDocument
          /\ l.timer + elapsed >= Period + MixPublishDeadline
          /\ l.timer + elapsed <= Period + MixPublishDeadline + JitterMax
  /\ l.call = "submit" =>
       /\ l.votingEpoch = epoch + 1
       /\ l.readElapsed >= MixPublishDeadline /\ l.readElapsed <= elapsed
       /\ l.readElapsed <= MixPublishDeadline + JitterMax + MaxLate
       /\ l.timer + elapsed <= l.readElapsed + MaxDelay
  /\ l.fsm = "accept_desc" /\ l.call = "none" =>
       l.votingEpoch = epoch + 1 /\ l.timer + elapsed <= GatheredBy - MaxLate
  /\ l.call = "gather" =>
       l.votingEpoch = epoch + 1 /\ l.timer + elapsed <= GatheredBy + MaxDelay
  /\ l.call = "vote" =>
       l.votingEpoch = epoch + 1 /\ l.timer + elapsed <= VotedBy
  /\ l.fsm = "accept_vote" =>
       l.votingEpoch = epoch + 1 /\ l.timer + elapsed <= VotedBy
  /\ l.fsm = "confirm_consensus" =>
       l.votingEpoch = epoch + 1 /\ l.timer + elapsed <= ConfirmedBy

(* No epoch gets its consensus before its descriptors are complete, or     *)
(* after it began.                                                         *)
ConsensusNotEarly ==
  \A e \in Epochs : consensus[e] # NoDocument =>
    e <= epoch \/ (e = epoch + 1 /\ elapsed >= DescriptorBlockDeadline)
Closed == \A e \in Epochs : e <= epoch => ~CanSettle(e)

(* What an authority still has to do in the current epoch.                 *)
ToBootstrap(l) == l.fsm = "down" \/ (l.fsm = "bootstrap" /\ l.timer + elapsed = 0)
ToSubmit(l) == ToBootstrap(l) \/ (l.fsm = "descriptor_send" /\ l.votingEpoch = epoch + 1)
ToVote(l) == ToSubmit(l) \/ l.fsm = "accept_desc"

(* The document the correct authorities vote for.                          *)
Origin(e) == IF consensus[e - 1] # NoDocument THEN consensus[e - 1].genesis ELSE e
Ballot(e) == [genesis |-> Origin(e), descs |-> chainDescs[e]]

(* Of a correct authority.  It bootstraps when an epoch begins, its node   *)
(* uploads then too.                                                       *)
OnTime(l) ==
  /\ l.fsm = "down" => elapsed = 0
  /\ l.fsm = "bootstrap" => l.timer + elapsed = 0 \/ l.timer + elapsed = Period
  /\ elapsed > 0 => epoch + 1 \in l.descriptors

(* Once it bootstrapped it holds what the chain settled on for the epoch.  *)
Learnt(l) ==
  \/ ToBootstrap(l)
  \/ l.documents[epoch] = consensus[epoch]
  \/ l.fetching[epoch] > 0 /\ elapsed <= MaxLate

Submitted(a) == ToSubmit(auth[a]) \/ a \in chainDescs[epoch + 1]

VotesAlike(a) ==
  /\ auth[a].call = "gather" => auth[a].genesisEpoch = Origin(auth[a].votingEpoch)
  /\ auth[a].call = "vote" => auth[a].vote = Ballot(auth[a].votingEpoch)
  /\ \A e \in Epochs \ {0} : chainVotes[e][a] = NoDocument \/ chainVotes[e][a] = Ballot(e)

EnoughNodes == Cardinality(Correct) >= MinDescriptors

Voted(a) ==
  \/ ToVote(auth[a])
  \/ consensus[epoch + 1] # NoDocument
  \/ chainVotes[epoch + 1][a] # NoDocument

CorrectInv(a) ==
  /\ OnTime(auth[a]) /\ Learnt(auth[a]) /\ Submitted(a) /\ VotesAlike(a)
  /\ EnoughNodes => Voted(a)

(* What comes of it on the chain.                                          *)
OneGenesis ==
  \A e \in Epochs \ {0} :
    consensus[e] # NoDocument /\ consensus[e - 1] # NoDocument
      => consensus[e].genesis = consensus[e - 1].genesis
Included == consensus[epoch + 1] # NoDocument => Correct \subseteq consensus[epoch + 1].descs
Decided == elapsed >= PublishConsensusDeadline => consensus[epoch + 1] # NoDocument

Outcome ==
  /\ Quorum(Correct) => OneGenesis /\ Included
  /\ Quorum(Correct) /\ EnoughNodes /\ VotesInTime => Decided

CycleInv ==
  /\ \A a \in Authorities : InStep(auth[a])
  /\ ConsensusNotEarly /\ Closed
  /\ \A a \in Correct : CorrectInv(a)
  /\ Outcome

-----------------------------------------------------------------------------
(* How the latest times follow on each other when InTime holds.  In slots  *)
(* of two ticks, a period of 16, votes are in time too; a slot of one tick *)
(* has no room for two calls of one tick.                                  *)
LEMMA Timing ==
  ASSUME InTime
  PROVE  /\ MaxDelay \in Nat /\ MaxLate \in Nat /\ JitterMax \in Nat /\ Period \in Nat
         /\ GatheredBy \in Nat /\ VotedBy \in Nat /\ ConfirmedBy \in Nat
         /\ MixPublishDeadline >= 1 /\ MaxLate <= MixPublishDeadline
         /\ MixPublishDeadline + JitterMax + MaxLate + MaxDelay < DescriptorBlockDeadline
         /\ GatheredBy = DescriptorBlockDeadline + JitterMax + MaxDelay + MaxLate
         /\ VotedBy = GatheredBy + MaxDelay + MaxDelay
         /\ AuthorityVoteDeadline <= DescriptorBlockDeadline
         /\ VotedBy + MaxLate <= ConfirmedBy /\ PublishConsensusDeadline <= ConfirmedBy
         /\ ConfirmedBy + MaxLate < Period
         /\ Period >= 16 => VotesInTime
<1> DEFINE p == Period \div 8
<1>1. Period \in Nat /\ Period >= 8 /\ MaxDelay \in Nat /\ MaxLate \in Nat
  BY PeriodAssumption, NetworkDelayAssumption
<1>2. /\ p \in Nat /\ p >= 1 /\ JitterMax \in Nat /\ (Period >= 16 => JitterMax >= 1)
      /\ 8 * p <= Period
  BY <1>1 DEF JitterMax
<1>3. DescriptorBlockDeadline \in {p + p, p + p + 1} BY <1>1 DEF DescriptorBlockDeadline
<1>4. /\ MixPublishDeadline = p /\ AuthorityVoteDeadline = p + p
      /\ PublishConsensusDeadline = p + p + p + p + p
      /\ ConfirmedBy = PublishConsensusDeadline + p
  BY <1>2 DEF MixPublishDeadline, AuthorityVoteDeadline, PublishConsensusDeadline,
       AuthorityCertDeadline, AuthorityRevealDeadline, ConfirmedBy
<1> HIDE DEF p
<1>5. p + JitterMax + MaxLate + MaxDelay < DescriptorBlockDeadline
  BY <1>4 DEF InTime
<1> QED BY <1>1, <1>2, <1>3, <1>4, <1>5 DEF GatheredBy, VotedBy, VotesInTime

-----------------------------------------------------------------------------
(* Pruning changes nothing of what the invariant says.                     *)
LEMMA PrunedKeeps ==
  ASSUME TypeOK, NEW l \in Locals
  PROVE  /\ InStep(l) => InStep(Pruned(l))
         /\ OnTime(l) => OnTime(Pruned(l))
         /\ Learnt(l) => Learnt(Pruned(l))
         /\ ToBootstrap(Pruned(l)) <=> ToBootstrap(l)
         /\ ToSubmit(Pruned(l)) <=> ToSubmit(l)
         /\ ToVote(Pruned(l)) <=> ToVote(l)
<1> DEFINE p == Pruned(l)
<1>1. ~Expired(epoch) /\ ~Expired(epoch + 1)
  BY EpochsAround DEF Expired, PreserveForPastEpochs
<1>2. /\ p.fsm = l.fsm /\ p.votingEpoch = l.votingEpoch /\ p.timer = l.timer
      /\ p.call = l.call /\ p.readElapsed = l.readElapsed /\ p.fetching = l.fetching
      /\ p.documents[epoch] = l.documents[epoch]
      /\ p.documents[epoch + 1] = l.documents[epoch + 1]
      /\ epoch + 1 \in l.descriptors => epoch + 1 \in p.descriptors
  <2>1. /\ p.documents = [e \in Epochs |-> IF Expired(e) THEN NoDocument ELSE l.documents[e]]
        /\ p.descriptors = {e \in l.descriptors : ~Expired(e)}
    BY PrunedFields
  <2>2. epoch \in Epochs /\ epoch + 1 \in Epochs BY EpochsAround
  <2>3. /\ p.documents[epoch] = l.documents[epoch]
        /\ p.documents[epoch + 1] = l.documents[epoch + 1]
    BY <1>1, <2>1, <2>2
  <2>4. epoch + 1 \in l.descriptors => epoch + 1 \in p.descriptors BY <1>1, <2>1
  <2> QED BY <2>3, <2>4, PrunedFields
<1> HIDE DEF p
<1>3. InStep(l) => InStep(p) BY <1>2 DEF InStep
<1>4. OnTime(l) => OnTime(p) BY <1>2 DEF OnTime
<1>5. ToBootstrap(p) <=> ToBootstrap(l) BY <1>2 DEF ToBootstrap
<1>6. Learnt(l) => Learnt(p) BY <1>2, <1>5 DEF Learnt
<1>7. ToSubmit(p) <=> ToSubmit(l) BY <1>2, <1>5 DEF ToSubmit
<1>8. ToVote(p) <=> ToVote(l) BY <1>2, <1>7 DEF ToVote
<1> QED BY <1>3, <1>4, <1>5, <1>6, <1>7, <1>8 DEF p

(* What a step of an authority may change on the chain, when all are in    *)
(* step: descriptors and votes of the next epoch are added, the former     *)
(* before the descriptor block deadline.                                   *)
ChainMoves ==
  /\ UNCHANGED <<clock, consensus>>
  /\ \A e \in Epochs :
       /\ chainDescs[e] \subseteq chainDescs'[e]
       /\ \/ chainDescs'[e] = chainDescs[e]
          \/ e = epoch + 1 /\ elapsed < DescriptorBlockDeadline
  /\ \A e \in Epochs, b \in Authorities :
       \/ chainVotes'[e][b] = chainVotes[e][b]
       \/ /\ e = epoch + 1 /\ e = auth[b].votingEpoch /\ auth[b].call = "vote"
          /\ chainVotes[e][b] = NoDocument /\ chainVotes'[e][b] = auth[b].vote

(* What a step makes of a correct authority.                               *)
CorrectStep(a, l) ==
  /\ OnTime(l) /\ Learnt(l)
  /\ ToSubmit(l) \/ a \in chainDescs'[epoch + 1]
  /\ l.call = "gather" => l.genesisEpoch = Origin(l.votingEpoch)
  /\ l.call = "vote" => l.vote = Ballot(l.votingEpoch)
  /\ EnoughNodes =>
       \/ ToVote(l)
       \/ consensus[epoch + 1] # NoDocument
       \/ chainVotes'[epoch + 1][a] # NoDocument

(* An authority that gathers or votes does so after the block deadline.    *)
LEMMA VotesLate ==
  ASSUME TypeOK, NEW l \in Locals, NotAhead(l), InStep(l), l.call \in {"gather", "vote"}
  PROVE  l.votingEpoch = epoch + 1 /\ elapsed >= DescriptorBlockDeadline
BY EpochsAround DEF InStep, NotAhead

(* What is voted for an epoch stays what the correct vote for.             *)
LEMMA BallotStays ==
  ASSUME NetworkInv, ChainMoves, NEW e \in Epochs \ {0},
         e <= epoch \/ (e = epoch + 1 /\ elapsed >= DescriptorBlockDeadline)
  PROVE  Ballot(e)' = Ballot(e) /\ Origin(e)' = Origin(e)
<1>1. consensus' = consensus BY DEF ChainMoves
<1>2. chainDescs'[e] = chainDescs[e]
  BY EpochsAround, Schedule, NetworkEpochAssumption DEF ChainMoves, NetworkInv, Epochs
<1>3. Origin(e)' = Origin(e) BY <1>1 DEF Origin
<1> QED BY <1>2, <1>3 DEF Ballot

LEMMA CorrectMoves ==
  ASSUME NetworkInv, ChainMoves, NEW a \in Correct, CorrectInv(a), InStep(auth[a]),
         NEW l \in Locals, auth'[a] = l, NotAhead(l), InStep(l), CorrectStep(a, l)
  PROVE  CorrectInv(a)'
<1>0. /\ TypeOK /\ ChainInv /\ a \in Authorities /\ auth[a] \in Locals
      /\ LocalInv(auth[a])
  BY DEF NetworkInv, TypeOK, Correct
<1>1. epoch' = epoch /\ elapsed' = elapsed /\ consensus' = consensus
  BY DEF ChainMoves, clock
<1>2. ToBootstrap(auth[a])' <=> ToBootstrap(l) BY <1>1 DEF ToBootstrap
<1>3. ToSubmit(auth[a])' <=> ToSubmit(l) BY <1>1, <1>2 DEF ToSubmit
<1>4. ToVote(auth[a])' <=> ToVote(l) BY <1>1, <1>3 DEF ToVote
<1>5. OnTime(auth[a])' BY <1>1 DEF OnTime, CorrectStep
<1>6. Learnt(auth[a])' BY <1>1, <1>2 DEF Learnt, CorrectStep
<1>7. Submitted(a)' BY <1>1, <1>3 DEF Submitted, CorrectStep
<1>8. (EnoughNodes => Voted(a))' BY <1>1, <1>4 DEF Voted, CorrectStep, EnoughNodes
<1>9. VotesAlike(a)'
  <2>1. ASSUME l.call \in {"gather", "vote"}
        PROVE  /\ Ballot(l.votingEpoch)' = Ballot(l.votingEpoch)
               /\ Origin(l.votingEpoch)' = Origin(l.votingEpoch)
    <3>1. l.votingEpoch = epoch + 1 /\ elapsed >= DescriptorBlockDeadline
      BY <2>1, <1>0, VotesLate
    <3> QED BY <3>1, <1>0, BallotStays, EpochsAround
  <2>2. l.call = "gather" => l.genesisEpoch = Origin(l.votingEpoch)'
    BY <2>1 DEF CorrectStep
  <2>3. l.call = "vote" => l.vote = Ballot(l.votingEpoch)'
    BY <2>1 DEF CorrectStep
  <2>4. ASSUME NEW e \in Epochs \ {0}, chainVotes'[e][a] # NoDocument
        PROVE  chainVotes'[e][a] = Ballot(e)'
    <3>1. CASE chainVotes'[e][a] = chainVotes[e][a]
      <4>1. chainVotes[e][a] = Ballot(e) BY <2>4, <3>1 DEF CorrectInv, VotesAlike
      <4>2. e <= epoch \/ (e = epoch + 1 /\ elapsed >= DescriptorBlockDeadline)
        BY <2>4, <3>1, <1>0 DEF ChainInv, LocalInv, NotEarly
      <4> QED BY <3>1, <4>1, <4>2, BallotStays
    <3>2. CASE /\ e = epoch + 1 /\ e = auth[a].votingEpoch /\ auth[a].call = "vote"
               /\ chainVotes'[e][a] = auth[a].vote
      <4>1. auth[a].vote = Ballot(e) BY <3>2 DEF CorrectInv, VotesAlike
      <4>2. elapsed >= DescriptorBlockDeadline BY <1>0, <3>2, VotesLate DEF LocalInv
      <4> QED BY <3>2, <4>1, <4>2, BallotStays
    <3> QED BY <1>0, <3>1, <3>2 DEF ChainMoves
  <2> QED BY <2>2, <2>3, <2>4 DEF VotesAlike
<1> QED BY <1>5, <1>6, <1>7, <1>8, <1>9 DEF CorrectInv

LEMMA CorrectStays ==
  ASSUME NetworkInv, ChainMoves, NEW a \in Correct, CorrectInv(a), InStep(auth[a]),
         auth'[a] = auth[a]
  PROVE  CorrectInv(a)'
<1>0. auth[a] \in Locals /\ a \in Authorities /\ NotAhead(auth[a])
  BY DEF NetworkInv, LocalInv, TypeOK, Correct
<1>1. PICK l \in Locals : l = auth[a] BY <1>0
<1>2. NotAhead(l) /\ InStep(l) BY <1>0, <1>1
<1>3. OnTime(l) /\ Learnt(l) BY <1>1 DEF CorrectInv
<1>4. ToSubmit(l) \/ a \in chainDescs'[epoch + 1]
  BY <1>1, EpochsAround DEF CorrectInv, Submitted, ChainMoves, NetworkInv
<1>5. /\ l.call = "gather" => l.genesisEpoch = Origin(l.votingEpoch)
      /\ l.call = "vote" => l.vote = Ballot(l.votingEpoch)
  BY <1>1 DEF CorrectInv, VotesAlike
<1>6. EnoughNodes =>
        \/ ToVote(l)
        \/ consensus[epoch + 1] # NoDocument
        \/ chainVotes'[epoch + 1][a] # NoDocument
  BY <1>0, <1>1, EpochsAround DEF CorrectInv, Voted, ChainMoves, NetworkInv
<1>7. CorrectStep(a, l) BY <1>3, <1>4, <1>5, <1>6 DEF CorrectStep
<1> QED BY <1>1, <1>2, <1>7, CorrectMoves

(* A step of an authority that keeps it in step, and as the correct are,   *)
(* keeps the invariant.                                                    *)
LEMMA AuthorityMoves ==
  ASSUME NetworkInv, NetworkInv', CycleInv, ChainMoves,
         NEW a \in Authorities, NEW l \in Locals, auth' = [auth EXCEPT ![a] = l],
         InStep(l), a \in Correct => CorrectStep(a, l)
  PROVE  CycleInv'
<1>0. TypeOK BY DEF NetworkInv
<1>1. epoch' = epoch /\ elapsed' = elapsed /\ consensus' = consensus
  BY DEF ChainMoves, clock
<1>2. \A b \in Authorities : auth'[b] = IF b = a THEN l ELSE auth[b] BY <1>0 DEF TypeOK
<1>3. ASSUME NEW b \in Authorities PROVE InStep(auth[b])'
  <2>1. InStep(auth'[b]) BY <1>2 DEF CycleInv
  <2> QED BY <2>1, <1>1 DEF InStep
<1>4. ASSUME NEW b \in Correct PROVE CorrectInv(b)'
  <2>0. b \in Authorities BY DEF Correct
  <2>1. CorrectInv(b) /\ InStep(auth[b]) BY <2>0 DEF CycleInv
  <2>2. CASE b # a BY <2>0, <2>1, <2>2, <1>2, CorrectStays
  <2>3. CASE b = a
    <3>1. auth'[b] = l /\ CorrectStep(b, l) BY <2>3, <1>2
    <3>2. NotAhead(l)
      <4>1. NotAhead(auth[b])' BY <2>0 DEF NetworkInv, LocalInv
      <4> QED BY <4>1, <3>1, <1>1 DEF NotAhead
    <3> QED BY <2>1, <3>1, <3>2, CorrectMoves
  <2> QED BY <2>2, <2>3
<1>5. ConsensusNotEarly' BY <1>1 DEF CycleInv, ConsensusNotEarly
<1>6. Closed'
  <2> SUFFICES ASSUME NEW e \in Epochs, e <= epoch PROVE ~CanSettle(e)'
    BY <1>1 DEF Closed
  <2>1. \A b \in Authorities : chainVotes'[e][b] = chainVotes[e][b]
    BY <1>0, EpochsAround, NetworkEpochAssumption DEF ChainMoves, Epochs
  <2>2. ~CanSettle(e) BY DEF CycleInv, Closed
  <2>3. \A doc : Voters(e, doc)' = Voters(e, doc) BY <2>1 DEF Voters
  <2>4. \A doc : Settled(e, doc)' <=> Settled(e, doc) BY <2>3 DEF Settled, Quorum
  <2> QED BY <2>1, <2>2, <2>4, <1>1 DEF CanSettle
<1>7. Outcome'
  <2>1. (OneGenesis' <=> OneGenesis) /\ (Included' <=> Included) /\ (Decided' <=> Decided)
    BY <1>1 DEF OneGenesis, Included, Decided
  <2> QED BY <2>1 DEF CycleInv, Outcome, EnoughNodes
<1> QED BY <1>3, <1>4, <1>5, <1>6, <1>7 DEF CycleInv

(* The same for a step of fsm(), which ends with the pruning.              *)
LEMMA AuthorityBecomes ==
  ASSUME NetworkInv, NetworkInv', CycleInv, ChainMoves,
         NEW a \in Authorities, NEW l \in Locals, auth' = [auth EXCEPT ![a] = Pruned(l)],
         InStep(l), a \in Correct => CorrectStep(a, l)
  PROVE  CycleInv'
<1>0. TypeOK BY DEF NetworkInv
<1>1. PICK p \in Locals : p = Pruned(l) BY PrunedFields
<1>2. /\ p.call = l.call /\ p.genesisEpoch = l.genesisEpoch
      /\ p.votingEpoch = l.votingEpoch /\ p.vote = l.vote
  BY <1>1, PrunedFields
<1>3. InStep(p) BY <1>0, <1>1, PrunedKeeps
<1>4. a \in Correct => CorrectStep(a, p)
  <2> SUFFICES ASSUME a \in Correct, CorrectStep(a, l) PROVE CorrectStep(a, p) OBVIOUS
  <2>1. /\ OnTime(l) => OnTime(p)
        /\ Learnt(l) => Learnt(p)
        /\ ToSubmit(p) <=> ToSubmit(l)
        /\ ToVote(p) <=> ToVote(l)
    BY <1>0, <1>1, PrunedKeeps
  <2> QED BY <1>2, <2>1 DEF CorrectStep
<1> QED BY <1>1, <1>3, <1>4, AuthorityMoves

LEMMA ChainStill == ASSUME UNCHANGED <<clock, chainState>> PROVE ChainMoves
BY DEF ChainMoves, chainState

(* What the tables of a correct authority hold stays true of them.         *)
LEMMA SameTables ==
  ASSUME NetworkInv, NEW a \in Correct, CorrectInv(a), NEW l \in Locals,
         auth[a].fsm \notin {"down", "bootstrap"}, l.fsm \notin {"down", "bootstrap"},
         l.documents = auth[a].documents, l.descriptors = auth[a].descriptors,
         l.fetching[epoch] >= auth[a].fetching[epoch]
  PROVE  OnTime(l) /\ Learnt(l)
<1>0. TypeOK /\ auth[a] \in Locals BY DEF NetworkInv, TypeOK, Correct
<1>1. l.fetching[epoch] \in Nat /\ auth[a].fetching[epoch] \in Nat
  BY <1>0, EpochsAround, LocalFields
<1>2. OnTime(l) BY DEF OnTime, CorrectInv
<1>3. Learnt(l) BY <1>1 DEF Learnt, ToBootstrap, CorrectInv
<1> QED BY <1>2, <1>3

(* When the descriptor window closes every correct node is on the chain.   *)
LEMMA AllSubmitted ==
  ASSUME InTime, NetworkInv, CycleInv, elapsed >= DescriptorBlockDeadline
  PROVE  Correct \subseteq chainDescs[epoch + 1]
<1> SUFFICES ASSUME NEW a \in Correct PROVE ~ToSubmit(auth[a])
  BY DEF CycleInv, CorrectInv, Submitted
<1> DEFINE l == auth[a]
<1>0. /\ TypeOK /\ l \in Locals /\ CallInPhase(l) /\ InStep(l) /\ OnTime(l)
      /\ epoch \in Nat /\ elapsed \in Nat
  BY EpochsAround DEF NetworkInv, LocalInv, TypeOK, CycleInv, CorrectInv, Correct
<1>1. l.timer \in Int /\ l.readElapsed \in Nat /\ l.call \in {"none", "submit", "gather", "vote"}
  BY <1>0, LocalFields DEF Locals
<1> HIDE DEF l
<1>2. l.fsm # "down" BY <1>0, Timing, Schedule DEF OnTime
<1>3. ~(l.fsm = "bootstrap" /\ l.timer + elapsed = 0)
  BY <1>0, <1>1, Timing, Schedule DEF InStep, CallInPhase
<1>4. ~(l.fsm = "descriptor_send" /\ l.votingEpoch = epoch + 1)
  <2> SUFFICES ASSUME l.fsm = "descriptor_send", l.votingEpoch = epoch + 1 PROVE FALSE
    OBVIOUS
  <2>1. CASE l.call = "none"
    BY <2>1, <1>0, <1>1, Timing, Schedule DEF InStep
  <2>2. CASE l.call = "submit"
    BY <2>2, <1>0, <1>1, Timing, Schedule DEF InStep
  <2> QED BY <1>0, <1>1, <2>1, <2>2 DEF CallInPhase
<1> QED BY <1>2, <1>3, <1>4 DEF ToSubmit, ToBootstrap, l

-----------------------------------------------------------------------------
(* Each step of the schedule of an authority keeps the invariant.          *)
LEMMA BootstrapInStep ==
  ASSUME InTime, NetworkInv, NetworkInv', CycleInv, NEW a \in Authorities, Bootstrap(a)
  PROVE  CycleInv'
<1> DEFINE m == auth[a]
<1>0. /\ TypeOK /\ m \in Locals /\ LocalInv(m) /\ InStep(m)
      /\ epoch \in Nat /\ elapsed \in Nat /\ elapsed < Period
  BY EpochsAround DEF NetworkInv, TypeOK, CycleInv
<1>1. m.fsm = "bootstrap" /\ m.call = "none" /\ m.timer <= 0 BY DEF Bootstrap, Awake
<1>2. PICK l \in Locals :
        /\ auth' = [auth EXCEPT ![a] = Pruned(l)]
        /\ \/ /\ elapsed > MixPublishDeadline
              /\ l.votingEpoch = epoch + 2 /\ l.fsm = "bootstrap"
              /\ l.timer = Sleep(Period - elapsed)
           \/ /\ elapsed <= MixPublishDeadline
              /\ l.votingEpoch = epoch + 1 /\ l.fsm = "descriptor_send"
              /\ \E j \in Jitter : l.timer = Sleep(MixPublishDeadline - elapsed + j)
        /\ l.fetching = Fetching(m, {epoch - 1, epoch}) /\ l.call = "none"
        /\ l.documents = m.documents /\ l.descriptors = m.descriptors
  BY <1>0, BootstrapEffect
<1>j. \A j \in Jitter : j \in Nat /\ j <= JitterMax BY JitterInNat, Timing DEF Jitter
<1>3. InStep(l)
  <2>1. CASE l.fsm = "bootstrap"
    BY <2>1, <1>0, <1>2, Timing, SleepInInt DEF InStep
  <2>2. CASE l.fsm = "descriptor_send"
    <3>1. PICK j \in Jitter : l.timer = Sleep(MixPublishDeadline - elapsed + j)
      BY <1>2, <2>2
    <3>2. l.timer = MixPublishDeadline - elapsed + j /\ l.votingEpoch = epoch + 1
          /\ l.timer >= 0
      BY <3>1, <1>0, <1>2, <1>j, <2>2, Schedule DEF Sleep
    <3> QED BY <3>2, <1>0, <1>2, <1>j, <2>2, Timing, Schedule DEF InStep
  <2> QED BY <1>2, <2>1, <2>2
<1>4. ASSUME a \in Correct PROVE CorrectStep(a, l)
  <2>0. CorrectInv(a) BY <1>4 DEF CycleInv
  <2>1. elapsed <= MaxLate
    <3>1. m.timer \in Int /\ m.timer >= -MaxLate BY <1>0, <1>1, LocalFields DEF InStep
    <3>2. m.timer + elapsed = 0 \/ m.timer + elapsed = Period
      BY <2>0, <1>1 DEF CorrectInv, OnTime
    <3> QED BY <1>0, <1>1, <3>1, <3>2, Timing
  <2>2. l.fsm = "descriptor_send" /\ l.votingEpoch = epoch + 1
    BY <1>0, <1>2, <2>1, Timing, Schedule
  <2>3. OnTime(l) BY <1>2, <2>0, <2>2 DEF CorrectInv, OnTime
  <2>4. Learnt(l)
    <3>1. CASE m.documents[epoch] # NoDocument
      <4>1. m.documents[epoch] = consensus[epoch]
        BY <3>1, <1>0, EpochsAround DEF LocalInv, Copies
      <4> QED BY <4>1, <1>2 DEF Learnt
    <3>2. CASE m.documents[epoch] = NoDocument
      <4>1. l.fetching[epoch] = m.fetching[epoch] + 1
        BY <3>2, <1>0, <1>2, EpochsAround DEF Fetching
      <4>2. m.fetching[epoch] \in Nat BY <1>0, EpochsAround, LocalFields
      <4> QED BY <4>1, <4>2, <2>1 DEF Learnt
    <3> QED BY <3>1, <3>2
  <2>5. ToSubmit(l) /\ ToVote(l) BY <2>2 DEF ToSubmit, ToVote
  <2> QED BY <1>2, <2>3, <2>4, <2>5 DEF CorrectStep
<1>5. ChainMoves BY ChainStill DEF Bootstrap
<1> QED BY <1>2, <1>3, <1>4, <1>5, AuthorityBecomes

LEMMA SubmitDescriptorInStep ==
  ASSUME InTime, NetworkInv, NetworkInv', CycleInv, NEW a \in Authorities,
         SubmitDescriptor(a)
  PROVE  CycleInv'
<1> DEFINE m == auth[a]
           l == [m EXCEPT !.call = "submit", !.timer = MaxDelay, !.readElapsed = elapsed]
<1>0. /\ TypeOK /\ m \in Locals /\ InStep(m)
      /\ epoch \in Nat /\ elapsed \in Nat /\ elapsed < Period
  BY EpochsAround DEF NetworkInv, TypeOK, CycleInv
<1>1. m.fsm = "descriptor_send" /\ m.call = "none" /\ m.timer <= 0
  BY DEF SubmitDescriptor, Awake
<1>2. auth' = [auth EXCEPT ![a] = l] BY <1>0 DEF SubmitDescriptor, TypeOK
<1>3. /\ l \in Locals /\ l.fsm = m.fsm /\ l.call = "submit" /\ l.readElapsed = elapsed
      /\ l.votingEpoch = m.votingEpoch /\ l.timer = MaxDelay
      /\ l.documents = m.documents /\ l.descriptors = m.descriptors
      /\ l.fetching = m.fetching
  <2>1. elapsed \in 0 .. Period - 1 /\ MaxDelay \in Int
    BY <1>0, NetworkDelayAssumption DEF TypeOK
  <2> QED BY <1>0, <2>1 DEF Locals
<1>4. m.votingEpoch = epoch + 1 /\ elapsed >= MixPublishDeadline
      /\ elapsed <= MixPublishDeadline + JitterMax + MaxLate
  BY <1>0, <1>1, LocalFields, Timing, Schedule DEF InStep
<1> HIDE DEF l
<1>5. InStep(l) BY <1>0, <1>1, <1>3, <1>4, Timing, Schedule DEF InStep
<1>6. ASSUME a \in Correct PROVE CorrectStep(a, l)
  <2>0. CorrectInv(a) /\ l.fetching[epoch] \in Nat
    BY <1>0, <1>3, <1>6, EpochsAround, LocalFields DEF CycleInv
  <2>1. OnTime(l) /\ Learnt(l) BY <1>1, <1>3, <1>6, <2>0, SameTables
  <2>2. ToSubmit(l) /\ ToVote(l) BY <1>1, <1>3, <1>4 DEF ToSubmit, ToVote
  <2> QED BY <1>3, <2>1, <2>2 DEF CorrectStep
<1>7. ChainMoves BY ChainStill DEF SubmitDescriptor
<1> QED BY <1>2, <1>3, <1>5, <1>6, <1>7, AuthorityMoves

(* The sleep that follows a submission is reckoned from readAt.            *)
LEMMA AcceptDescriptorsInStep ==
  ASSUME InTime, NetworkInv, NetworkInv', CycleInv, ChainMoves, NEW a \in Authorities,
         NEW readAt \in 0 .. Period - 1, AcceptDescriptorsFrom(a, readAt),
         auth[a].fsm = "descriptor_send", auth[a].votingEpoch = epoch + 1,
         readAt <= MixPublishDeadline + JitterMax + MaxLate, elapsed <= readAt + MaxDelay,
         a \in Correct => a \in chainDescs'[epoch + 1]
  PROVE  CycleInv'
<1> DEFINE m == auth[a]
<1>0. /\ TypeOK /\ m \in Locals
      /\ epoch \in Nat /\ elapsed \in Nat /\ elapsed < Period /\ readAt \in Nat
  BY EpochsAround, Schedule DEF NetworkInv, TypeOK
<1>1. PICK l \in Locals :
        /\ auth' = [auth EXCEPT ![a] = Pruned(l)]
        /\ l.fsm = "accept_desc" /\ l.call = "none"
        /\ \E j \in Jitter : l.timer = Sleep(DescriptorBlockDeadline - readAt + j)
        /\ l.votingEpoch = m.votingEpoch
        /\ l.documents = m.documents /\ l.descriptors = m.descriptors
        /\ l.fetching = m.fetching
  BY <1>0, AcceptDescriptorsEffect
<1>2. InStep(l)
  <2>1. PICK j \in Jitter : l.timer = Sleep(DescriptorBlockDeadline - readAt + j) BY <1>1
  <2>2. j \in Nat /\ j <= JitterMax BY JitterInNat, Timing DEF Jitter
  <2>3. l.timer = 0 \/ l.timer = DescriptorBlockDeadline - readAt + j
    BY <2>1 DEF Sleep
  <2>4. l.timer \in Int /\ l.timer >= 0
    BY <2>1, <2>2, <1>0, Schedule, SleepInInt
  <2>5. l.timer + elapsed <= DescriptorBlockDeadline + JitterMax + MaxDelay
    BY <2>2, <2>3, <1>0, Timing, Schedule
  <2>6. l.timer + elapsed <= GatheredBy - MaxLate
    BY <2>4, <2>5, <1>0, Timing, Schedule
  <2> QED BY <1>0, <1>1, <2>4, <2>6, Timing DEF InStep
<1>3. ASSUME a \in Correct PROVE CorrectStep(a, l)
  <2>0. CorrectInv(a) /\ l.fetching[epoch] \in Nat
    BY <1>0, <1>1, <1>3, EpochsAround, LocalFields DEF CycleInv
  <2>1. OnTime(l) /\ Learnt(l) BY <1>1, <1>3, <2>0, SameTables
  <2>2. ToVote(l) BY <1>1 DEF ToVote
  <2> QED BY <1>1, <1>3, <2>1, <2>2 DEF CorrectStep
<1> QED BY <1>1, <1>2, <1>3, AuthorityBecomes

(* A descriptor is sent, and lands, before the block deadline.             *)
LEMMA Submitting ==
  ASSUME InTime, NetworkInv, CycleInv, NEW a \in Authorities, auth[a].call = "submit"
  PROVE  /\ auth[a].fsm = "descriptor_send" /\ auth[a].votingEpoch = epoch + 1
         /\ auth[a].readElapsed \in 0 .. Period - 1
         /\ auth[a].readElapsed <= MixPublishDeadline + JitterMax + MaxLate
         /\ elapsed <= auth[a].readElapsed + MaxDelay
         /\ elapsed < DescriptorBlockDeadline
         /\ consensus[epoch + 1] = NoDocument
<1> DEFINE m == auth[a]
<1>0. /\ TypeOK /\ m \in Locals /\ CallInPhase(m) /\ InStep(m)
      /\ epoch \in Nat /\ elapsed \in Nat
  BY EpochsAround DEF NetworkInv, TypeOK, CycleInv, LocalInv
<1>1. m.fsm = "descriptor_send" /\ m.votingEpoch = epoch + 1
      /\ m.readElapsed <= MixPublishDeadline + JitterMax + MaxLate
  BY <1>0 DEF CallInPhase, InStep
<1>2. elapsed <= m.readElapsed + MaxDelay /\ m.readElapsed \in 0 .. Period - 1
  BY <1>0, LocalFields, Timing DEF InStep, Locals
<1>3. elapsed < DescriptorBlockDeadline
  BY <1>0, <1>1, <1>2, LocalFields, Timing, Schedule
<1>4. consensus[epoch + 1] = NoDocument
  BY <1>0, <1>3, EpochsAround, Schedule DEF CycleInv, ConsensusNotEarly
<1> QED BY <1>1, <1>2, <1>3, <1>4

LEMMA DescriptorLands ==
  ASSUME InTime, NetworkInv, CycleInv, NEW a \in Authorities, auth[a].call = "submit",
         SetMixDescriptor(a, auth[a].votingEpoch), UNCHANGED <<clock, chainVotes, consensus>>
  PROVE  ChainMoves /\ a \in chainDescs'[epoch + 1]
<1>0. chainDescs \in [Epochs -> SUBSET Authorities] /\ epoch + 1 \in Epochs
  BY EpochsAround DEF NetworkInv, TypeOK
<1>1. /\ auth[a].votingEpoch = epoch + 1 /\ consensus[epoch + 1] = NoDocument
      /\ elapsed < DescriptorBlockDeadline
  BY Submitting
<1>2. chainDescs' = [chainDescs EXCEPT ![epoch + 1] = @ \cup {a}]
  BY <1>1 DEF SetMixDescriptor
<1> QED BY <1>0, <1>1, <1>2 DEF ChainMoves

LEMMA SubmitReturnsInStep ==
  ASSUME InTime, NetworkInv, NetworkInv', CycleInv, NEW a \in Authorities, SubmitReturns(a)
  PROVE  CycleInv'
<1>1. /\ auth[a].call = "submit" /\ AcceptDescriptorsFrom(a, auth[a].readElapsed)
      /\ UNCHANGED <<clock, chainVotes, consensus>>
      /\ \/ SetMixDescriptor(a, auth[a].votingEpoch)
         \/ a \in Faulty /\ UNCHANGED chainDescs
  BY DEF SubmitReturns
<1>2. ChainMoves /\ (a \in Correct => a \in chainDescs'[epoch + 1])
  <2>1. CASE SetMixDescriptor(a, auth[a].votingEpoch) BY <1>1, <2>1, DescriptorLands
  <2>2. CASE a \in Faulty /\ UNCHANGED chainDescs
    BY <1>1, <2>2, ChainStill DEF Correct, chainState
  <2> QED BY <1>1, <2>1, <2>2
<1>3. PICK readAt \in 0 .. Period - 1 : readAt = auth[a].readElapsed BY <1>1, Submitting
<1>4. AcceptDescriptorsFrom(a, readAt) BY <1>1, <1>3
<1> QED BY <1>1, <1>2, <1>3, <1>4, Submitting, AcceptDescriptorsInStep

LEMMA NoDescriptorToSubmitInStep ==
  ASSUME InTime, NetworkInv, NetworkInv', CycleInv, NEW a \in Authorities,
         NoDescriptorToSubmit(a)
  PROVE  CycleInv'
<1> DEFINE m == auth[a]
<1>0. /\ TypeOK /\ m \in Locals /\ InStep(m)
      /\ epoch \in Nat /\ elapsed \in Nat /\ elapsed < Period /\ elapsed \in 0 .. Period - 1
  BY EpochsAround DEF NetworkInv, TypeOK, CycleInv
<1>1. /\ m.fsm = "descriptor_send" /\ m.call = "none" /\ m.timer <= 0
      /\ m.votingEpoch \notin m.descriptors /\ AcceptDescriptorsFrom(a, elapsed)
  BY DEF NoDescriptorToSubmit, Awake
<1>2. m.votingEpoch = epoch + 1 /\ elapsed >= MixPublishDeadline
      /\ elapsed <= MixPublishDeadline + JitterMax + MaxLate
  BY <1>0, <1>1, LocalFields, Timing, Schedule DEF InStep
<1>3. a \notin Correct
  <2>1. elapsed > 0 BY <1>0, <1>2, Timing, Schedule
  <2> QED BY <1>1, <1>2, <2>1 DEF CycleInv, CorrectInv, OnTime
<1>4. ChainMoves BY ChainStill DEF NoDescriptorToSubmit
<1>5. elapsed <= elapsed + MaxDelay BY <1>0, Timing
<1>6. PICK readAt \in 0 .. Period - 1 : readAt = elapsed BY <1>0
<1>7. AcceptDescriptorsFrom(a, readAt) BY <1>1, <1>6
<1> QED BY <1>1, <1>2, <1>3, <1>4, <1>5, <1>6, <1>7, AcceptDescriptorsInStep

LEMMA GetVoteInStep ==
  ASSUME InTime, NetworkInv, NetworkInv', CycleInv, NEW a \in Authorities, GetVote(a)
  PROVE  CycleInv'
<1> DEFINE m == auth[a]
           previous == m.documents[m.votingEpoch - 1]
           g == IF previous # NoDocument THEN previous.genesis ELSE m.votingEpoch
           l == [m EXCEPT !.genesisEpoch = g, !.call = "gather", !.timer = MaxDelay]
<1>0. /\ TypeOK /\ m \in Locals /\ LocalInv(m) /\ InStep(m)
      /\ epoch \in Nat /\ elapsed \in Nat /\ elapsed < Period
  BY EpochsAround DEF NetworkInv, TypeOK, CycleInv
<1>1. m.fsm = "accept_desc" /\ m.call = "none" /\ m.timer <= 0
  BY DEF GetVote, Awake
<1>2. auth' = [auth EXCEPT ![a] = l] BY <1>0 DEF GetVote, TypeOK
<1>3. /\ m.votingEpoch = epoch + 1 /\ elapsed <= GatheredBy
      /\ elapsed >= DescriptorBlockDeadline
  BY <1>0, <1>1, LocalFields, Timing, Schedule DEF InStep, LocalInv, NotAhead
<1>4. previous = m.documents[epoch] /\ previous \in Documents
  <2>1. m.votingEpoch - 1 = epoch BY <1>0, <1>3
  <2> QED BY <2>1, <1>0, EpochsAround, LocalFields
<1>5. g \in Epochs
  <2>1. previous.genesis \in Epochs BY <1>4 DEF Documents
  <2> QED BY <2>1, <1>0, LocalFields
<1> HIDE DEF g
<1>6. /\ l \in Locals /\ l.fsm = m.fsm /\ l.call = "gather" /\ l.genesisEpoch = g
      /\ l.votingEpoch = m.votingEpoch /\ l.timer = MaxDelay
      /\ l.documents = m.documents /\ l.descriptors = m.descriptors
      /\ l.fetching = m.fetching
  <2>1. MaxDelay \in Int BY NetworkDelayAssumption
  <2> QED BY <1>0, <1>5, <2>1 DEF Locals
<1> HIDE DEF l
<1>7. InStep(l) BY <1>0, <1>1, <1>3, <1>6, Timing DEF InStep
<1>8. ASSUME a \in Correct PROVE CorrectStep(a, l)
  <2>0. CorrectInv(a) /\ l.fetching[epoch] \in Nat
    BY <1>0, <1>6, <1>8, EpochsAround, LocalFields DEF CycleInv
  <2>1. OnTime(l) /\ Learnt(l) BY <1>1, <1>6, <1>8, <2>0, SameTables
  <2>2. ToVote(l) BY <1>1, <1>6 DEF ToVote
  <2>3. a \in chainDescs'[epoch + 1]
    BY <1>3, <1>8, AllSubmitted DEF GetVote, chainState
  <2>4. previous = consensus[epoch]
    BY <1>0, <1>1, <1>3, <1>4, <2>0, Timing, Schedule DEF CorrectInv, Learnt, ToBootstrap
  <2>5. g = Origin(l.votingEpoch)
    <3>1. (epoch + 1) - 1 = epoch BY <1>0
    <3> QED BY <1>3, <1>6, <2>4, <3>1 DEF g, Origin
  <2> QED BY <1>6, <2>1, <2>2, <2>3, <2>5 DEF CorrectStep
<1>9. ChainMoves BY ChainStill DEF GetVote
<1> QED BY <1>2, <1>6, <1>7, <1>8, <1>9, AuthorityMoves

LEMMA SendVoteInStep ==
  ASSUME InTime, NetworkInv, NetworkInv', CycleInv, NEW a \in Authorities, SendVote(a)
  PROVE  CycleInv'
<1> DEFINE m == auth[a]
           doc(descs) == [genesis |-> m.genesisEpoch, descs |-> descs]
           l(descs) == [m EXCEPT !.call = "vote", !.timer = MaxDelay, !.vote = doc(descs),
                                 !.voted = @ \cup {m.votingEpoch}]
<1>0. /\ TypeOK /\ m \in Locals /\ LocalInv(m) /\ InStep(m)
      /\ epoch \in Nat /\ elapsed \in Nat /\ elapsed < Period
  BY EpochsAround DEF NetworkInv, TypeOK, CycleInv
<1>1. m.call = "gather" /\ m.fsm = "accept_desc"
  BY <1>0 DEF SendVote, LocalInv, CallInPhase
<1>2. PICK descs \in MixDescriptors(a, m.votingEpoch) : auth' = [auth EXCEPT ![a] = l(descs)]
  BY <1>0 DEF SendVote, TypeOK
<1>3. descs \in SUBSET Authorities
  BY <1>0, LocalFields DEF MixDescriptors, TypeOK
<1>4. /\ m.votingEpoch = epoch + 1 /\ elapsed <= GatheredBy + MaxDelay
      /\ elapsed >= DescriptorBlockDeadline
  BY <1>0, <1>1, LocalFields, Timing, VotesLate DEF InStep, LocalInv
<1>5. /\ l(descs) \in Locals /\ l(descs).fsm = m.fsm /\ l(descs).call = "vote"
      /\ l(descs).votingEpoch = m.votingEpoch /\ l(descs).timer = MaxDelay
      /\ l(descs).vote = doc(descs)
      /\ l(descs).documents = m.documents /\ l(descs).descriptors = m.descriptors
      /\ l(descs).fetching = m.fetching
  <2>1. MaxDelay \in Int BY NetworkDelayAssumption
  <2>2. doc(descs) \in Documents BY <1>0, <1>3 DEF Locals, Documents
  <2>3. m.voted \cup {m.votingEpoch} \in SUBSET Epochs BY <1>0, LocalFields
  <2> HIDE DEF doc
  <2> QED BY <1>0, <2>1, <2>2, <2>3 DEF Locals
<1> HIDE DEF l
<1>6. InStep(l(descs)) BY <1>0, <1>1, <1>4, <1>5, Timing DEF InStep
<1>7. ASSUME a \in Correct PROVE CorrectStep(a, l(descs))
  <2>0. CorrectInv(a) /\ l(descs).fetching[epoch] \in Nat
    BY <1>0, <1>5, <1>7, EpochsAround, LocalFields DEF CycleInv
  <2>1. OnTime(l(descs)) /\ Learnt(l(descs)) BY <1>1, <1>5, <1>7, <2>0, SameTables
  <2>2. ToVote(l(descs)) BY <1>1, <1>5 DEF ToVote
  <2>3. a \in chainDescs'[epoch + 1]
    BY <1>4, <1>7, AllSubmitted DEF SendVote, chainState
  <2>4. descs = chainDescs[m.votingEpoch]
    BY <1>2, <1>7 DEF MixDescriptors, Correct
  <2>5. l(descs).vote = Ballot(l(descs).votingEpoch)
    BY <1>1, <1>5, <2>0, <2>4 DEF CorrectInv, VotesAlike, Ballot
  <2> QED BY <1>5, <2>1, <2>2, <2>3, <2>5 DEF CorrectStep
<1>8. ChainMoves BY ChainStill DEF SendVote
<1> QED BY <1>2, <1>5, <1>6, <1>7, <1>8, AuthorityMoves

(* A vote lands as the vote of the next epoch.                             *)
LEMMA VoteLands ==
  ASSUME NetworkInv, CycleInv, NEW a \in Authorities, auth[a].call = "vote",
         SetDocument(a, auth[a].votingEpoch, auth[a].vote),
         UNCHANGED <<clock, chainDescs, consensus>>
  PROVE  /\ ChainMoves
         /\ consensus[epoch + 1] # NoDocument \/ chainVotes'[epoch + 1][a] # NoDocument
<1> DEFINE m == auth[a]
           e == epoch + 1
           d == IF consensus[e] = NoDocument /\ chainVotes[e][a] = NoDocument
                  THEN m.vote ELSE chainVotes[e][a]
<1>0. /\ chainVotes \in [Epochs -> [Authorities -> Documents]] /\ e \in Epochs
      /\ LocalInv(m) /\ InStep(m)
  BY EpochsAround DEF NetworkInv, TypeOK, CycleInv
<1>1. m.votingEpoch = e BY <1>0 DEF InStep
<1>2. chainVotes' = [chainVotes EXCEPT ![e][a] = d] BY <1>1 DEF SetDocument
<1>3. m.vote # NoDocument
  <2>1. m.vote.genesis # 0 BY <1>0 DEF LocalInv, VoteDated, Continues
  <2> QED BY <2>1 DEF NoDocument
<1>4. /\ d = chainVotes[e][a] \/ (chainVotes[e][a] = NoDocument /\ d = m.vote)
      /\ consensus[e] # NoDocument \/ d # NoDocument
  BY <1>3
<1> HIDE DEF d, e
<1>5. /\ \A x \in Epochs, b \in Authorities :
           (x # e \/ b # a) => chainVotes'[x][b] = chainVotes[x][b]
      /\ chainVotes'[e][a] = d
  BY <1>0, <1>2
<1>6. ChainMoves BY <1>1, <1>4, <1>5 DEF ChainMoves, e
<1> QED BY <1>4, <1>5, <1>6 DEF e

LEMMA AcceptVotesInStep ==
  ASSUME InTime, NetworkInv, NetworkInv', CycleInv, ChainMoves, NEW a \in Authorities,
         AcceptVotes(a), auth[a].call \in {"gather", "vote"},
         a \in Correct /\ EnoughNodes =>
           consensus[epoch + 1] # NoDocument \/ chainVotes'[epoch + 1][a] # NoDocument
  PROVE  CycleInv'
<1> DEFINE m == auth[a]
<1>0. /\ TypeOK /\ m \in Locals /\ LocalInv(m) /\ InStep(m)
      /\ epoch \in Nat /\ elapsed \in Nat /\ elapsed < Period
  BY EpochsAround DEF NetworkInv, TypeOK, CycleInv
<1>1. PICK l \in Locals :
        /\ auth' = [auth EXCEPT ![a] = Pruned(l)]
        /\ l.fsm = "accept_vote" /\ l.call = "none"
        /\ l.timer = Sleep(AuthorityVoteDeadline - elapsed)
        /\ l.votingEpoch = m.votingEpoch
        /\ l.documents = m.documents /\ l.descriptors = m.descriptors
        /\ l.fetching = m.fetching
  BY <1>0, AcceptVotesEffect
<1>2. /\ m.votingEpoch = epoch + 1 /\ elapsed <= VotedBy
      /\ elapsed >= DescriptorBlockDeadline /\ m.fsm = "accept_desc"
  BY <1>0, LocalFields, Timing, VotesLate DEF InStep, LocalInv, CallInPhase
<1>3. l.timer = 0
  <2>1. AuthorityVoteDeadline - elapsed \in Int /\ AuthorityVoteDeadline - elapsed <= 0
    BY <1>0, <1>2, Timing, Schedule
  <2> QED BY <1>1, <2>1 DEF Sleep
<1>4. InStep(l) BY <1>0, <1>1, <1>2, <1>3, Timing DEF InStep
<1>5. ASSUME a \in Correct PROVE CorrectStep(a, l)
  <2>0. CorrectInv(a) /\ l.fetching[epoch] \in Nat
    BY <1>0, <1>1, <1>5, EpochsAround, LocalFields DEF CycleInv
  <2>1. OnTime(l) /\ Learnt(l) BY <1>1, <1>2, <1>5, <2>0, SameTables
  <2>2. a \in chainDescs'[epoch + 1]
    BY <1>0, <1>2, <1>5, AllSubmitted, EpochsAround DEF ChainMoves
  <2> QED BY <1>1, <1>5, <2>1, <2>2 DEF CorrectStep
<1> QED BY <1>1, <1>4, <1>5, AuthorityBecomes

LEMMA VoteReturnsInStep ==
  ASSUME InTime, NetworkInv, NetworkInv', CycleInv, NEW a \in Authorities, VoteReturns(a)
  PROVE  CycleInv'
<1>1. /\ auth[a].call = "vote" /\ AcceptVotes(a) /\ UNCHANGED <<clock, chainDescs, consensus>>
      /\ \/ SetDocument(a, auth[a].votingEpoch, auth[a].vote)
         \/ a \in Faulty /\ UNCHANGED chainVotes
  BY DEF VoteReturns
<1>2. CASE SetDocument(a, auth[a].votingEpoch, auth[a].vote)
  BY <1>1, <1>2, VoteLands, AcceptVotesInStep
<1>3. CASE a \in Faulty /\ UNCHANGED chainVotes
  <2>1. ChainMoves BY <1>1, <1>3, ChainStill DEF chainState
  <2> QED BY <1>1, <1>3, <2>1, AcceptVotesInStep DEF Correct
<1> QED BY <1>1, <1>2, <1>3

(* With enough correct nodes the document of a correct authority is well   *)
(* formed.                                                                 *)
LEMMA GetVoteFailsInStep ==
  ASSUME InTime, NetworkInv, NetworkInv', CycleInv, NEW a \in Authorities, GetVoteFails(a)
  PROVE  CycleInv'
<1> DEFINE m == auth[a]
<1>0. /\ m.call = "gather" /\ AcceptVotes(a) /\ UNCHANGED <<clock, chainState>>
      /\ a \in Faulty \/ ~WellFormed(chainDescs[m.votingEpoch])
  BY DEF GetVoteFails
<1>1. ~(a \in Correct /\ EnoughNodes)
  <2> SUFFICES ASSUME a \in Correct, EnoughNodes, ~WellFormed(chainDescs[m.votingEpoch])
               PROVE  FALSE
    BY <1>0 DEF Correct
  <2>1. TypeOK /\ m \in Locals /\ NotAhead(m) /\ InStep(m)
    BY DEF NetworkInv, TypeOK, LocalInv, CycleInv
  <2>2. m.votingEpoch = epoch + 1 /\ elapsed >= DescriptorBlockDeadline
    BY <1>0, <2>1, VotesLate
  <2>3. Correct \subseteq chainDescs[epoch + 1] BY <2>2, AllSubmitted
  <2>4. chainDescs[epoch + 1] \subseteq Authorities BY <2>1, EpochsAround DEF TypeOK
  <2>5. IsFiniteSet(chainDescs[epoch + 1])
    BY <2>4, AuthoritiesAssumption, FS_Subset
  <2>6. /\ Cardinality(Correct) \in Nat /\ Cardinality(chainDescs[epoch + 1]) \in Nat
        /\ Cardinality(Correct) <= Cardinality(chainDescs[epoch + 1])
    BY <2>3, <2>5, FS_Subset, FS_CardinalityType
  <2> QED BY <2>2, <2>6, MinDescriptorsAssumption DEF WellFormed, EnoughNodes
<1>2. ChainMoves BY <1>0, ChainStill
<1> QED BY <1>0, <1>1, <1>2, AcceptVotesInStep

(* Past its vote a correct authority has submitted, and voted or seen the  *)
(* consensus.                                                              *)
LEMMA PastTheVote ==
  ASSUME NetworkInv, NEW a \in Correct, CorrectInv(a), UNCHANGED chainState,
         auth[a].fsm \in {"accept_vote", "confirm_consensus"},
         NEW l \in Locals, l.call = "none", OnTime(l), Learnt(l)
  PROVE  CorrectStep(a, l)
BY DEF CorrectStep, CorrectInv, Submitted, Voted, ToVote, ToSubmit, ToBootstrap, chainState

LEMMA FetchConsensusInStep ==
  ASSUME InTime, NetworkInv, NetworkInv', CycleInv, NEW a \in Authorities,
         FetchConsensus(a)
  PROVE  CycleInv'
<1> DEFINE m == auth[a]
<1>0. /\ TypeOK /\ m \in Locals /\ InStep(m)
      /\ epoch \in Nat /\ elapsed \in Nat /\ elapsed < Period
  BY EpochsAround DEF NetworkInv, TypeOK, CycleInv
<1>1. m.fsm = "accept_vote" /\ m.call = "none" /\ m.timer <= 0
  BY DEF FetchConsensus, Awake
<1>2. PICK l \in Locals :
        /\ auth' = [auth EXCEPT ![a] = Pruned(l)]
        /\ l.fsm = "confirm_consensus" /\ l.call = "none"
        /\ l.fetching = Fetching(m, {m.votingEpoch})
        /\ l.timer = Sleep(PublishConsensusDeadline - elapsed)
        /\ l.votingEpoch = m.votingEpoch
        /\ l.documents = m.documents /\ l.descriptors = m.descriptors
  BY <1>0, FetchConsensusEffect
<1>3. m.votingEpoch = epoch + 1 /\ elapsed <= VotedBy + MaxLate
  BY <1>0, <1>1, LocalFields, Timing DEF InStep
<1>4. l.timer >= 0 /\ l.timer \in Int /\ l.timer + elapsed <= ConfirmedBy
  BY <1>0, <1>2, <1>3, Timing, Schedule DEF Sleep
<1>5. InStep(l) BY <1>2, <1>3, <1>4, Timing DEF InStep
<1>6. ASSUME a \in Correct PROVE CorrectStep(a, l)
  <2>0. CorrectInv(a) BY <1>6 DEF CycleInv
  <2>1. l.fetching[epoch] >= m.fetching[epoch]
    BY <1>0, <1>2, EpochsAround, LocalFields DEF Fetching
  <2>2. OnTime(l) /\ Learnt(l) BY <1>1, <1>2, <1>6, <2>0, <2>1, SameTables
  <2> QED BY <1>1, <1>2, <1>6, <2>0, <2>2, PastTheVote DEF FetchConsensus
<1>7. ChainMoves BY ChainStill DEF FetchConsensus
<1> QED BY <1>2, <1>5, <1>6, <1>7, AuthorityBecomes

LEMMA ConfirmConsensusInStep ==
  ASSUME InTime, NetworkInv, NetworkInv', CycleInv, NEW a \in Authorities,
         ConfirmConsensus(a)
  PROVE  CycleInv'
<1> DEFINE m == auth[a]
<1>0. /\ TypeOK /\ m \in Locals /\ InStep(m)
      /\ epoch \in Nat /\ elapsed \in Nat /\ elapsed < Period
  BY EpochsAround DEF NetworkInv, TypeOK, CycleInv
<1>1. /\ m.fsm = "confirm_consensus" /\ m.call = "none"
      /\ m.documents[epoch + 1] # NoDocument
  BY DEF ConfirmConsensus, Awake
<1>2. PICK l \in Locals :
        /\ auth' = [auth EXCEPT ![a] = Pruned(l)]
        /\ l.fsm = "descriptor_send" /\ l.call = "none"
        /\ l.votingEpoch = m.votingEpoch + 1
        /\ \E j \in Jitter : l.timer = Sleep(MixPublishDeadline + (Period - elapsed) + j)
        /\ l.documents = m.documents /\ l.descriptors = m.descriptors
        /\ l.fetching = m.fetching
  BY ConfirmConsensusEffect
<1>3. l.votingEpoch = epoch + 2 BY <1>0, <1>1, <1>2 DEF InStep
<1>4. PICK j \in Jitter : l.timer = Sleep(MixPublishDeadline + (Period - elapsed) + j)
  BY <1>2
<1>5. j \in Nat /\ j <= JitterMax BY JitterInNat, Timing DEF Jitter
<1>6. l.timer = MixPublishDeadline + (Period - elapsed) + j
  BY <1>0, <1>4, <1>5, Schedule DEF Sleep
<1>7. InStep(l) BY <1>0, <1>1, <1>2, <1>3, <1>5, <1>6, Timing, Schedule DEF InStep
<1>8. ASSUME a \in Correct PROVE CorrectStep(a, l)
  <2>0. CorrectInv(a) /\ l.fetching[epoch] \in Nat
    BY <1>0, <1>2, <1>8, EpochsAround, LocalFields DEF CycleInv
  <2>1. OnTime(l) /\ Learnt(l) BY <1>1, <1>2, <1>8, <2>0, SameTables
  <2> QED BY <1>1, <1>2, <1>8, <2>0, <2>1, PastTheVote DEF ConfirmConsensus
<1>9. ChainMoves BY ChainStill DEF ConfirmConsensus
<1> QED BY <1>2, <1>7, <1>8, <1>9, AuthorityBecomes

(* An authority that misses the consensus bootstraps in the next epoch.    *)
LEMMA MissConsensusInStep ==
  ASSUME InTime, NetworkInv, NetworkInv', CycleInv, NEW a \in Authorities,
         MissConsensus(a)
  PROVE  CycleInv'
<1> DEFINE m == auth[a]
<1>0. /\ TypeOK /\ m \in Locals /\ InStep(m)
      /\ epoch \in Nat /\ elapsed \in Nat /\ elapsed < Period
  BY EpochsAround DEF NetworkInv, TypeOK, CycleInv
<1>1. m.fsm = "confirm_consensus" /\ m.call = "none" BY DEF MissConsensus, Awake
<1>2. PICK l \in Locals :
        /\ auth' = [auth EXCEPT ![a] = Pruned(l)]
        /\ l.fsm = "bootstrap" /\ l.call = "none"
        /\ l.timer = Sleep(Period - elapsed)
        /\ l.documents = m.documents /\ l.descriptors = m.descriptors
        /\ l.fetching = m.fetching
  BY <1>0, MissConsensusEffect
<1>3. l.timer = Period - elapsed BY <1>0, <1>2, Schedule DEF Sleep
<1>4. InStep(l) BY <1>0, <1>2, <1>3, Timing, Schedule DEF InStep
<1>5. ASSUME a \in Correct PROVE CorrectStep(a, l)
  <2>0. CorrectInv(a) BY <1>5 DEF CycleInv
  <2>1. l.timer + elapsed = Period BY <1>0, <1>3, Schedule
  <2>2. OnTime(l) BY <1>1, <1>2, <2>0, <2>1 DEF CorrectInv, OnTime
  <2>3. Learnt(l) BY <1>1, <1>2, <2>0 DEF CorrectInv, Learnt, ToBootstrap
  <2> QED BY <1>1, <1>2, <1>5, <2>0, <2>2, <2>3, PastTheVote DEF MissConsensus
<1>6. ChainMoves BY ChainStill DEF MissConsensus
<1> QED BY <1>2, <1>4, <1>5, <1>6, AuthorityBecomes

-----------------------------------------------------------------------------
(* What runs beside the schedule of an authority changes only its tables.  *)
LEMMA BesideInStep ==
  ASSUME InTime, NetworkInv, NetworkInv', CycleInv, NEW a \in Authorities,
         NEW l \in Locals, auth' = [auth EXCEPT ![a] = l], UNCHANGED <<clock, chainState>>,
         l.fsm = auth[a].fsm, l.call = auth[a].call,
         l.votingEpoch = auth[a].votingEpoch, l.genesisEpoch = auth[a].genesisEpoch,
         l.timer = auth[a].timer, l.readElapsed = auth[a].readElapsed,
         l.vote = auth[a].vote, auth[a].descriptors \subseteq l.descriptors,
         auth[a].documents[epoch + 1] # NoDocument => l.documents[epoch + 1] # NoDocument,
         a \in Correct => Learnt(l)
  PROVE  CycleInv'
<1> DEFINE m == auth[a]
<1>1. InStep(m) BY DEF CycleInv
<1>2. InStep(l) BY <1>1 DEF InStep
<1>3. ASSUME a \in Correct PROVE CorrectStep(a, l)
  <2>0. CorrectInv(a) BY <1>3 DEF CycleInv
  <2>1. OnTime(l) BY <2>0 DEF CorrectInv, OnTime
  <2>2. (ToSubmit(l) <=> ToSubmit(m)) /\ (ToVote(l) <=> ToVote(m))
    BY DEF ToVote, ToSubmit, ToBootstrap
  <2>3. ToSubmit(l) \/ a \in chainDescs'[epoch + 1]
    BY <2>0, <2>2 DEF CorrectInv, Submitted, chainState
  <2>4. /\ l.call = "gather" => l.genesisEpoch = Origin(l.votingEpoch)
        /\ l.call = "vote" => l.vote = Ballot(l.votingEpoch)
    BY <2>0 DEF CorrectInv, VotesAlike
  <2>5. EnoughNodes =>
          \/ ToVote(l)
          \/ consensus[epoch + 1] # NoDocument
          \/ chainVotes'[epoch + 1][a] # NoDocument
    BY <2>0, <2>2 DEF CorrectInv, Voted, chainState
  <2> QED BY <1>3, <2>1, <2>3, <2>4, <2>5 DEF CorrectStep
<1>4. ChainMoves BY ChainStill
<1> QED BY <1>2, <1>3, <1>4, AuthorityMoves

LEMMA FetchReturnsInStep ==
  ASSUME InTime, NetworkInv, NetworkInv', CycleInv, NEW a \in Authorities,
         NEW e \in Epochs, FetchReturns(a, e)
  PROVE  CycleInv'
<1> DEFINE m == auth[a]
           d == IF m.documents[e] = NoDocument THEN consensus[e] ELSE m.documents[e]
           ds == [m.documents EXCEPT ![e] = d]
           fs == [m.fetching EXCEPT ![e] = @ - 1]
           l == [m EXCEPT !.fetching = fs, !.documents = ds]
<1>0. TypeOK /\ m \in Locals /\ Copies(m) BY DEF NetworkInv, TypeOK, LocalInv
<1>1. UNCHANGED <<clock, chainState>> /\ m.fetching[e] > 0 /\ consensus[e] # NoDocument
  BY DEF FetchReturns
<1>2. auth' = [auth EXCEPT ![a] = l] BY <1>0 DEF FetchReturns, TypeOK
<1>3. ds \in [Epochs -> Documents] /\ fs \in [Epochs -> Nat]
  BY <1>0, <1>1, LocalFields DEF TypeOK
<1>4. /\ \A x \in Epochs : m.documents[x] # NoDocument => ds[x] # NoDocument
      /\ \A x \in Epochs : x # e => ds[x] = m.documents[x] /\ fs[x] = m.fetching[x]
      /\ ds[e] = consensus[e]
  BY <1>0, <1>1, LocalFields DEF Copies
<1> HIDE DEF ds, fs
<1>5. /\ l \in Locals /\ l.documents = ds /\ l.fetching = fs
      /\ l.fsm = m.fsm /\ l.call = m.call /\ l.votingEpoch = m.votingEpoch
      /\ l.genesisEpoch = m.genesisEpoch /\ l.timer = m.timer
      /\ l.readElapsed = m.readElapsed /\ l.vote = m.vote
      /\ l.descriptors = m.descriptors
  BY <1>0, <1>3 DEF Locals
<1> HIDE DEF l
<1>6. ASSUME a \in Correct PROVE Learnt(l)
  <2>1. Learnt(m) BY <1>6 DEF CycleInv, CorrectInv
  <2>2. CASE epoch = e BY <2>2, <1>4, <1>5 DEF Learnt
  <2>3. CASE epoch # e BY <2>1, <2>3, <1>0, <1>4, <1>5, EpochsAround DEF Learnt, ToBootstrap
  <2> QED BY <2>2, <2>3
<1>7. m.documents[epoch + 1] # NoDocument => l.documents[epoch + 1] # NoDocument
  BY <1>0, <1>4, <1>5, EpochsAround
<1> QED BY <1>1, <1>2, <1>5, <1>6, <1>7, BesideInStep

(* A fetch of a correct authority fails only if there is nothing to fetch. *)
LEMMA FetchFailsInStep ==
  ASSUME InTime, NetworkInv, NetworkInv', CycleInv, NEW a \in Authorities,
         NEW e \in Epochs, FetchFails(a, e)
  PROVE  CycleInv'
<1> DEFINE m == auth[a]
           fs == [m.fetching EXCEPT ![e] = @ - 1]
           l == [m EXCEPT !.fetching = fs]
<1>0. TypeOK /\ m \in Locals /\ Copies(m) BY DEF NetworkInv, TypeOK, LocalInv
<1>1. /\ UNCHANGED <<clock, chainState>> /\ m.fetching[e] > 0
      /\ a \in Correct => consensus[e] = NoDocument
  BY DEF FetchFails, Correct
<1>2. auth' = [auth EXCEPT ![a] = l] BY <1>0 DEF FetchFails, TypeOK
<1>3. fs \in [Epochs -> Nat] /\ \A x \in Epochs : x # e => fs[x] = m.fetching[x]
  BY <1>0, <1>1, LocalFields
<1> HIDE DEF fs
<1>4. /\ l \in Locals /\ l.documents = m.documents /\ l.fetching = fs
      /\ l.fsm = m.fsm /\ l.call = m.call /\ l.votingEpoch = m.votingEpoch
      /\ l.genesisEpoch = m.genesisEpoch /\ l.timer = m.timer
      /\ l.readElapsed = m.readElapsed /\ l.vote = m.vote
      /\ l.descriptors = m.descriptors
  BY <1>0, <1>3 DEF Locals
<1> HIDE DEF l
<1>5. ASSUME a \in Correct PROVE Learnt(l)
  <2>1. Learnt(m) BY <1>5 DEF CycleInv, CorrectInv
  <2>2. CASE epoch = e
    <3>1. m.documents[epoch] = consensus[epoch] BY <2>2, <1>0, <1>1, <1>5 DEF Copies
    <3> QED BY <3>1, <1>4 DEF Learnt
  <2>3. CASE epoch # e BY <2>1, <2>3, <1>0, <1>3, <1>4, EpochsAround DEF Learnt, ToBootstrap
  <2> QED BY <2>2, <2>3
<1> QED BY <1>1, <1>2, <1>4, <1>5, BesideInStep

LEMMA DescriptorUploadInStep ==
  ASSUME InTime, NetworkInv, NetworkInv', CycleInv, NEW a \in Authorities,
         DescriptorUpload(a)
  PROVE  CycleInv'
<1> DEFINE m == auth[a]
           l == [m EXCEPT !.descriptors = @ \cup {epoch + 1}]
<1>0. TypeOK /\ m \in Locals BY DEF NetworkInv, TypeOK
<1>1. UNCHANGED <<clock, chainState>> BY DEF DescriptorUpload
<1>2. auth' = [auth EXCEPT ![a] = l] BY <1>0 DEF DescriptorUpload, TypeOK
<1>3. /\ l \in Locals /\ l.documents = m.documents /\ l.fetching = m.fetching
      /\ l.fsm = m.fsm /\ l.call = m.call /\ l.votingEpoch = m.votingEpoch
      /\ l.genesisEpoch = m.genesisEpoch /\ l.timer = m.timer
      /\ l.readElapsed = m.readElapsed /\ l.vote = m.vote
      /\ m.descriptors \subseteq l.descriptors
  BY <1>0, EpochsAround DEF Locals
<1> HIDE DEF l
<1>4. a \in Correct => Learnt(l)
  BY <1>3 DEF CycleInv, CorrectInv, Learnt, ToBootstrap
<1> QED BY <1>1, <1>2, <1>3, <1>4, BesideInStep

(* A correct authority starts with the network.                            *)
LEMMA StartInStep ==
  ASSUME InTime, NetworkInv, NetworkInv', CycleInv, NEW a \in Authorities, Start(a)
  PROVE  CycleInv'
<1> DEFINE m == auth[a]
           l == [m EXCEPT !.fsm = "bootstrap"]
<1>0. /\ TypeOK /\ m \in Locals /\ CallInPhase(m) /\ InStep(m)
      /\ epoch \in Nat /\ elapsed \in Nat
  BY EpochsAround DEF NetworkInv, TypeOK, LocalInv, CycleInv
<1>1. UNCHANGED <<clock, chainState>> /\ m.fsm = "down" BY DEF Start
<1>2. auth' = [auth EXCEPT ![a] = l] BY <1>0 DEF Start, TypeOK
<1>3. m.call = "none" /\ m.timer = 0 BY <1>0, <1>1 DEF CallInPhase, Locals, InStep
<1>4. /\ l \in Locals /\ l.fsm = "bootstrap" /\ l.call = "none" /\ l.timer = 0
      /\ l.descriptors = m.descriptors
  BY <1>0, <1>3 DEF Locals
<1> HIDE DEF l
<1>5. InStep(l) BY <1>0, <1>4, Timing DEF InStep
<1>6. ASSUME a \in Correct PROVE CorrectStep(a, l)
  <2>1. elapsed = 0 BY <1>1, <1>6 DEF CycleInv, CorrectInv, OnTime
  <2>2. OnTime(l) BY <1>0, <1>4, <2>1 DEF OnTime
  <2>3. ToBootstrap(l) BY <1>4, <2>1 DEF ToBootstrap
  <2> QED BY <1>4, <2>2, <2>3 DEF CorrectStep, Learnt, ToVote, ToSubmit
<1>7. ChainMoves BY <1>1, ChainStill
<1> QED BY <1>2, <1>4, <1>5, <1>6, <1>7, AuthorityMoves

(* The command of an authority that crashes may land all the same.         *)
LEMMA CrashInStep ==
  ASSUME InTime, NetworkInv, NetworkInv', CycleInv, NEW a \in Authorities, Crash(a)
  PROVE  CycleInv'
<1> DEFINE m == auth[a]
           l == [Stopped EXCEPT !.voted = m.voted]
<1>0. TypeOK /\ m \in Locals /\ epoch \in Nat /\ elapsed \in Nat
  BY EpochsAround DEF NetworkInv, TypeOK
<1>1. /\ UNCHANGED <<clock, consensus>> /\ auth' = [auth EXCEPT ![a] = l]
      /\ a \notin Correct /\ (CommandLost(a) \/ CommandLands(a))
  BY DEF Crash, Correct
<1>2. l \in Locals /\ l.fsm = "down" /\ l.call = "none" /\ l.timer = 0
  <2>1. Stopped \in Locals BY StoppedIsLocal
  <2>2. m.voted \in SUBSET Epochs BY <1>0, LocalFields
  <2>3. l \in Locals BY <2>1, <2>2 DEF Locals
  <2> QED BY <2>3 DEF Stopped
<1> HIDE DEF l
<1>3. InStep(l) BY <1>0, <1>2, Timing DEF InStep
<1>4. ChainMoves
  <2>1. CASE CommandLost(a) BY <1>1, <2>1, ChainStill DEF CommandLost, chainState
  <2>2. CASE m.call = "submit" /\ SetMixDescriptor(a, m.votingEpoch) /\ UNCHANGED chainVotes
    BY <1>1, <2>2, DescriptorLands
  <2>3. CASE m.call = "vote" /\ SetDocument(a, m.votingEpoch, m.vote) /\ UNCHANGED chainDescs
    BY <1>1, <2>3, VoteLands
  <2> QED BY <1>1, <2>1, <2>2, <2>3 DEF CommandLands
<1> QED BY <1>1, <1>2, <1>3, <1>4, AuthorityMoves

(* Two majorities have an authority in common.                             *)
LEMMA MajoritiesMeet ==
  ASSUME NEW P \in SUBSET Authorities, NEW Q \in SUBSET Authorities, Quorum(P), Quorum(Q)
  PROVE  \E b \in P : b \in Q
<1>1. IsFiniteSet(Authorities) /\ IsFiniteSet(P) /\ IsFiniteSet(Q)
  BY AuthoritiesAssumption, FS_Subset
<1>2. Cardinality(P) \in Nat /\ Cardinality(Q) \in Nat /\ Cardinality(Authorities) \in Nat
  BY <1>1, FS_CardinalityType
<1>3. Cardinality(P) + Cardinality(Q) > Cardinality(Authorities) BY <1>2 DEF Quorum
<1>4. P \cap Q # {} BY <1>1, <1>3, FS_MajoritiesIntersect
<1> QED BY <1>4

(* The chain settles on the next epoch only, once all descriptors are in;  *)
(* with a correct majority, on what the correct voted for.                 *)
LEMMA SettlesNext ==
  ASSUME NetworkInv, CycleInv, NEW e \in Epochs, ChainSettles(e)
  PROVE  /\ e = epoch + 1 /\ elapsed >= DescriptorBlockDeadline
         /\ consensus[e] = NoDocument
         /\ UNCHANGED <<clock, auth, chainDescs>>
         /\ chainVotes' = [chainVotes EXCEPT ![e] = [b \in Authorities |-> NoDocument]]
         /\ \E doc \in Documents \ {NoDocument} :
              /\ consensus' = [consensus EXCEPT ![e] = doc]
              /\ Quorum(Correct) => doc = Ballot(e)
<1>0. TypeOK /\ ChainInv /\ epoch \in Nat /\ elapsed \in Nat
  BY EpochsAround DEF NetworkInv
<1>1. /\ consensus[e] = NoDocument /\ UNCHANGED <<clock, auth, chainDescs>>
      /\ chainVotes' = [chainVotes EXCEPT ![e] = [b \in Authorities |-> NoDocument]]
  BY ChainSettlesEffect
<1>2. PICK a \in Authorities :
        /\ Settled(e, chainVotes[e][a])
        /\ consensus' = [consensus EXCEPT ![e] = chainVotes[e][a]]
  BY DEF ChainSettles
<1>3. chainVotes[e][a] \in Documents \ {NoDocument} BY <1>0, <1>2 DEF Settled, TypeOK
<1>4. e <= epoch \/ (e = epoch + 1 /\ elapsed >= DescriptorBlockDeadline)
  BY <1>0, <1>3 DEF ChainInv, NetworkInv, LocalInv, NotEarly
<1>5. ~(e <= epoch) BY <1>1, <1>2 DEF CycleInv, Closed, CanSettle
<1>6. ASSUME Quorum(Correct) PROVE chainVotes[e][a] = Ballot(e)
  <2>1. Correct \subseteq Authorities /\ Voters(e, chainVotes[e][a]) \subseteq Authorities
    BY DEF Correct, Voters
  <2>2. PICK b \in Correct : b \in Voters(e, chainVotes[e][a])
    BY <1>2, <1>6, <2>1, MajoritiesMeet DEF Settled
  <2>3. chainVotes[e][b] = chainVotes[e][a] BY <2>2 DEF Voters
  <2>4. e \in Epochs \ {0} BY <1>0, <1>4, <1>5
  <2> QED BY <1>3, <2>3, <2>4 DEF CycleInv, CorrectInv, VotesAlike
<1> QED BY <1>1, <1>2, <1>3, <1>4, <1>5, <1>6

LEMMA ChainSettlesInStep ==
  ASSUME InTime, NetworkInv, NetworkInv', CycleInv, NEW e \in Epochs, ChainSettles(e)
  PROVE  CycleInv'
<1>0. /\ TypeOK /\ ChainInv /\ epoch \in Nat /\ elapsed \in Nat
      /\ epoch \in Epochs /\ epoch + 1 \in Epochs
  BY EpochsAround DEF NetworkInv
<1>1. /\ e = epoch + 1 /\ elapsed >= DescriptorBlockDeadline /\ consensus[e] = NoDocument
      /\ epoch' = epoch /\ elapsed' = elapsed /\ auth' = auth /\ chainDescs' = chainDescs
      /\ chainVotes' = [chainVotes EXCEPT ![e] = [b \in Authorities |-> NoDocument]]
  BY SettlesNext DEF clock
<1>2. PICK doc \in Documents \ {NoDocument} :
        consensus' = [consensus EXCEPT ![e] = doc] /\ (Quorum(Correct) => doc = Ballot(e))
  BY SettlesNext
<1>3. /\ consensus'[e] = doc /\ \A x \in Epochs \ {e} : consensus'[x] = consensus[x]
      /\ \A x \in Epochs \ {e} : chainVotes'[x] = chainVotes[x]
      /\ \A b \in Authorities : chainVotes'[e][b] = NoDocument
  BY <1>0, <1>1, <1>2 DEF TypeOK
<1>4. consensus'[epoch] = consensus[epoch] BY <1>0, <1>1, <1>3
<1>5. \A a \in Authorities : InStep(auth[a])' BY <1>1 DEF CycleInv, InStep
<1>6. ConsensusNotEarly' BY <1>0, <1>1, <1>3 DEF CycleInv, ConsensusNotEarly
<1>7. Closed'
  <2> SUFFICES ASSUME NEW x \in Epochs, x <= epoch PROVE ~CanSettle(x)'
    BY <1>1 DEF Closed
  <2>1. chainVotes'[x] = chainVotes[x] /\ consensus'[x] = consensus[x]
    BY <1>0, <1>1, <1>3
  <2>2. ~CanSettle(x) BY DEF CycleInv, Closed
  <2> QED BY <2>1, <2>2 DEF CanSettle, Settled, Quorum, Voters
<1>8. ASSUME NEW a \in Correct PROVE CorrectInv(a)'
  <2>0. /\ CorrectInv(a) /\ a \in Authorities /\ InStep(auth[a])
        /\ NotEarly(auth[a]) /\ CallInPhase(auth[a])
    BY DEF CycleInv, Correct, NetworkInv, LocalInv
  <2>1. OnTime(auth[a])' BY <2>0, <1>1 DEF CorrectInv, OnTime
  <2>2. Learnt(auth[a])' BY <2>0, <1>1, <1>4 DEF CorrectInv, Learnt, ToBootstrap
  <2>3. Submitted(a)' BY <2>0, <1>1 DEF CorrectInv, Submitted, ToSubmit, ToBootstrap
  <2>4. Voted(a)' BY <1>1, <1>3 DEF Voted
  <2>5. \A x \in Epochs \ {0} : x <= epoch + 1 => Ballot(x)' = Ballot(x) /\ Origin(x)' = Origin(x)
    <3> SUFFICES ASSUME NEW x \in Epochs \ {0}, x <= epoch + 1
                 PROVE  Origin(x)' = Origin(x)
      BY <1>1 DEF Ballot
    <3>1. x - 1 \in Epochs \ {e} BY <1>0, <1>1, NetworkEpochAssumption DEF Epochs
    <3>2. consensus'[x - 1] = consensus[x - 1] BY <1>3, <3>1
    <3> QED BY <3>2 DEF Origin
  <2>6. VotesAlike(a)'
    <3>1. ASSUME auth[a].call \in {"gather", "vote"}
          PROVE  auth[a].votingEpoch = epoch + 1 /\ epoch + 1 \in Epochs \ {0}
      BY <2>0, <3>1, <1>0 DEF InStep
    <3>2. ASSUME NEW x \in Epochs \ {0}, chainVotes'[x][a] # NoDocument
          PROVE  chainVotes'[x][a] = Ballot(x)'
      <4>1. x # e /\ chainVotes'[x][a] = chainVotes[x][a] BY <2>0, <3>2, <1>3
      <4>2. x \in auth[a].voted BY <2>0, <3>2, <4>1, <1>0 DEF ChainInv
      <4>3. x <= epoch + 1 BY <2>0, <4>2, <1>0 DEF NotEarly
      <4> QED BY <2>0, <2>5, <3>2, <4>1, <4>3 DEF CorrectInv, VotesAlike
    <3>3. /\ auth[a].call = "gather" => auth[a].genesisEpoch = Origin(auth[a].votingEpoch)'
          /\ auth[a].call = "vote" => auth[a].vote = Ballot(auth[a].votingEpoch)'
      <4>1. /\ auth[a].call = "gather" => auth[a].genesisEpoch = Origin(epoch + 1)'
            /\ auth[a].call = "vote" => auth[a].vote = Ballot(epoch + 1)'
        BY <2>0, <2>5, <3>1, <1>0, <1>1 DEF CorrectInv, VotesAlike
      <4> QED BY <4>1, <3>1, <1>1
    <3> QED BY <1>1, <3>2, <3>3 DEF VotesAlike
  <2> QED BY <2>1, <2>2, <2>3, <2>4, <2>6 DEF CorrectInv
<1>9. Outcome'
  <2>1. ASSUME Quorum(Correct), NEW x \in Epochs \ {0},
               consensus'[x] # NoDocument, consensus'[x - 1] # NoDocument
        PROVE  consensus'[x].genesis = consensus'[x - 1].genesis
    <3>0. x - 1 \in Epochs /\ x \in Nat BY NetworkEpochAssumption DEF Epochs
    <3>1. CASE x = e
      <4>1. x - 1 = epoch BY <3>1, <1>0, <1>1
      <4>2. doc.genesis = Origin(e) BY <2>1, <1>2 DEF Ballot
      <4> QED BY <2>1, <3>1, <4>1, <4>2, <1>3, <1>4 DEF Origin
    <3>2. CASE x - 1 = e
      <4>1. x = epoch + 2 /\ x # e BY <3>0, <3>2, <1>0, <1>1
      <4>2. consensus[x] # NoDocument BY <2>1, <4>1, <1>3
      <4> QED BY <4>1, <4>2, <1>0 DEF CycleInv, ConsensusNotEarly
    <3>3. CASE x # e /\ x - 1 # e
      <4>1. consensus'[x] = consensus[x] /\ consensus'[x - 1] = consensus[x - 1]
        BY <3>0, <3>3, <1>3
      <4> QED BY <2>1, <4>1 DEF CycleInv, Outcome, OneGenesis
    <3> QED BY <3>1, <3>2, <3>3
  <2>2. ASSUME Quorum(Correct) PROVE Correct \subseteq consensus'[epoch + 1].descs
    <3>1. doc.descs = chainDescs[epoch + 1] BY <2>2, <1>1, <1>2 DEF Ballot
    <3> QED BY <3>1, <1>1, <1>3, AllSubmitted
  <2>3. consensus'[epoch + 1] # NoDocument BY <1>1, <1>2, <1>3
  <2> QED BY <1>1, <2>1, <2>2, <2>3
          DEF Outcome, OneGenesis, Included, Decided, Quorum, EnoughNodes
<1> QED BY <1>5, <1>6, <1>7, <1>8, <1>9 DEF CycleInv

LEMMA StutterInStep ==
  ASSUME NetworkInv, CycleInv, UNCHANGED vars PROVE CycleInv'
<1>1. /\ UNCHANGED <<clock, chainState>>
      /\ epoch' = epoch /\ elapsed' = elapsed /\ auth' = auth
      /\ chainDescs' = chainDescs /\ chainVotes' = chainVotes /\ consensus' = consensus
  BY DEF vars, clock, chainState
<1>2. \A a \in Authorities : InStep(auth[a])' BY <1>1 DEF CycleInv, InStep
<1>3. ConsensusNotEarly' BY <1>1 DEF CycleInv, ConsensusNotEarly
<1>4. Closed' BY <1>1 DEF CycleInv, Closed, CanSettle, Settled, Quorum, Voters
<1>5. ASSUME NEW a \in Correct PROVE CorrectInv(a)'
  <2>1. CorrectInv(a) /\ InStep(auth[a]) BY DEF CycleInv, Correct
  <2> QED BY <1>1, <2>1, ChainStill, CorrectStays
<1>6. Outcome'
  BY <1>1 DEF CycleInv, Outcome, OneGenesis, Included, Decided, Quorum, EnoughNodes
<1> QED BY <1>2, <1>3, <1>4, <1>5, <1>6 DEF CycleInv

-----------------------------------------------------------------------------
(* The clock moves when nobody is overdue and nothing is owed.             *)
LEMMA TickTime ==
  ASSUME NetworkInv, Tick
  PROVE  /\ chainDescs' = chainDescs /\ chainVotes' = chainVotes /\ consensus' = consensus
         /\ \/ epoch' = epoch /\ elapsed' = elapsed + 1
            \/ epoch' = epoch + 1 /\ elapsed' = 0 /\ elapsed = Period - 1
         /\ \A e \in Epochs : ~CanSettle(e)
<1>1. epoch \in Nat /\ elapsed \in Nat /\ Period \in Nat
  BY EpochsAround, Schedule DEF NetworkInv
<1> QED BY <1>1 DEF Tick, chainState

LEMMA TickFields ==
  ASSUME NetworkInv, Tick, NEW a \in Authorities
  PROVE  LET m == auth[a]
             n == auth'[a]
         IN /\ m \in Locals /\ n \in Locals /\ LocalInv(m)
            /\ n.fsm = m.fsm /\ n.call = m.call /\ n.votingEpoch = m.votingEpoch
            /\ n.genesisEpoch = m.genesisEpoch /\ n.readElapsed = m.readElapsed
            /\ n.vote = m.vote /\ n.documents = m.documents
            /\ n.descriptors = m.descriptors /\ n.fetching = m.fetching
            /\ m.fsm = "down" => n.timer = 0
            /\ m.fsm # "down" =>
                 /\ n.timer = m.timer - 1
                 /\ m.timer >= IF m.call = "none" THEN 1 - MaxLate ELSE 1
<1> DEFINE m == auth[a]
           t == IF m.fsm = "down" THEN 0 ELSE m.timer - 1
           l == [m EXCEPT !.timer = t]
<1>1. m \in Locals /\ LocalInv(m) BY DEF NetworkInv, TypeOK
<1>2. auth'[a] = l BY DEF Tick
<1>3. m.timer \in Int /\ t \in Int BY <1>1, LocalFields
<1>4. m.fsm # "down" => m.timer >= IF m.call = "none" THEN 1 - MaxLate ELSE 1
  BY <1>3, NetworkDelayAssumption DEF Tick, Overdue
<1>5. /\ m.fsm = "down" => t = 0
      /\ m.fsm # "down" => t = m.timer - 1
  OBVIOUS
<1> HIDE DEF t
<1>6. /\ l \in Locals /\ l.fsm = m.fsm /\ l.call = m.call /\ l.timer = t
      /\ l.votingEpoch = m.votingEpoch /\ l.genesisEpoch = m.genesisEpoch
      /\ l.readElapsed = m.readElapsed /\ l.vote = m.vote /\ l.documents = m.documents
      /\ l.descriptors = m.descriptors /\ l.fetching = m.fetching
  BY <1>1, <1>3 DEF Locals
<1> QED BY <1>1, <1>2, <1>4, <1>5, <1>6

(* When an epoch ends everybody is through with it: what is awake waits    *)
(* for the next one.                                                       *)
LEMMA EpochEnds ==
  ASSUME InTime, NetworkInv, CycleInv, Tick, elapsed = Period - 1, NEW a \in Authorities,
         auth[a].fsm \notin {"down", "bootstrap"}
  PROVE  /\ auth[a].fsm = "descriptor_send" /\ auth[a].call = "none"
         /\ auth[a].votingEpoch = epoch + 2 /\ auth[a].documents[epoch + 1] # NoDocument
         /\ auth[a].timer + elapsed >= Period + MixPublishDeadline
         /\ auth[a].timer + elapsed <= Period + MixPublishDeadline + JitterMax
<1> DEFINE m == auth[a]
<1>0. /\ m \in Locals /\ CallInPhase(m) /\ InStep(m)
      /\ m.timer >= IF m.call = "none" THEN 1 - MaxLate ELSE 1
      /\ m.fsm \notin {"down", "bootstrap"}
  BY TickFields DEF LocalInv, CycleInv
<1>1. m.timer \in Int /\ m.readElapsed \in Nat BY <1>0, LocalFields
<1> HIDE DEF m
<1>2. m.call # "submit" BY <1>0, <1>1, Timing, Schedule DEF InStep
<1>3. m.call # "gather" BY <1>0, <1>1, Timing, Schedule DEF InStep
<1>4. m.call # "vote" BY <1>0, <1>1, Timing, Schedule DEF InStep
<1>5. m.call = "none" BY <1>0, <1>2, <1>3, <1>4 DEF Locals
<1>6. m.fsm # "accept_desc" BY <1>0, <1>1, <1>5, Timing, Schedule DEF InStep
<1>7. m.fsm # "accept_vote" BY <1>0, <1>1, <1>5, Timing, Schedule DEF InStep
<1>8. m.fsm # "confirm_consensus" BY <1>0, <1>1, <1>5, Timing, Schedule DEF InStep
<1>9. m.fsm = "descriptor_send" BY <1>0, <1>6, <1>7, <1>8 DEF Locals
<1> QED BY <1>0, <1>1, <1>5, <1>9, Timing, Schedule DEF InStep, m

LEMMA TickInStep ==
  ASSUME InTime, NetworkInv, CycleInv, Tick, NEW a \in Authorities
  PROVE  InStep(auth[a])'
<1> DEFINE m == auth[a]
           n == auth'[a]
<1>0. /\ m \in Locals /\ n \in Locals /\ LocalInv(m) /\ InStep(m)
      /\ n.fsm = m.fsm /\ n.call = m.call /\ n.votingEpoch = m.votingEpoch
      /\ n.readElapsed = m.readElapsed /\ n.documents = m.documents
      /\ m.fsm = "down" => n.timer = 0
      /\ m.fsm # "down" =>
           /\ n.timer = m.timer - 1
           /\ m.timer >= IF m.call = "none" THEN 1 - MaxLate ELSE 1
  BY TickFields DEF CycleInv
<1>1. epoch \in Nat /\ elapsed \in Nat /\ m.timer \in Int /\ n.timer \in Int
      /\ m.readElapsed \in Nat /\ m.votingEpoch \in Nat
  BY <1>0, EpochsAround, LocalFields DEF NetworkInv
<1>2. m.fsm = "down" => m.call = "none" BY <1>0 DEF LocalInv, CallInPhase, Locals
<1>3. n.timer >= IF n.call = "none" THEN -MaxLate ELSE 0 BY <1>0, <1>1, <1>2, Timing
<1>4. n.fsm = "down" => n.timer = 0 BY <1>0
<1>5. CASE epoch' = epoch /\ elapsed' = elapsed + 1
  <2>1. m.fsm # "down" => n.timer + elapsed' = m.timer + elapsed BY <1>0, <1>1, <1>5
  <2>2. n.fsm = "descriptor_send" /\ n.call = "none" =>
          \/ /\ n.votingEpoch = epoch + 1
             /\ n.timer + elapsed' >= MixPublishDeadline
             /\ n.timer + elapsed' <= MixPublishDeadline + JitterMax
          \/ /\ n.votingEpoch = epoch + 2 /\ n.documents[epoch + 1] # NoDocument
             /\ n.timer + elapsed' >= Period + MixPublishDeadline
             /\ n.timer + elapsed' <= Period + MixPublishDeadline + JitterMax
    BY <1>0, <2>1 DEF InStep
  <2>3. n.call = "submit" =>
          /\ n.votingEpoch = epoch + 1
          /\ n.readElapsed >= MixPublishDeadline /\ n.readElapsed <= elapsed'
          /\ n.readElapsed <= MixPublishDeadline + JitterMax + MaxLate
          /\ n.timer + elapsed' <= n.readElapsed + MaxDelay
    BY <1>0, <1>1, <1>2, <1>5, <2>1 DEF InStep
  <2>4. /\ n.fsm = "accept_desc" /\ n.call = "none" =>
             n.votingEpoch = epoch + 1 /\ n.timer + elapsed' <= GatheredBy - MaxLate
        /\ n.call = "gather" =>
             n.votingEpoch = epoch + 1 /\ n.timer + elapsed' <= GatheredBy + MaxDelay
        /\ n.call = "vote" =>
             n.votingEpoch = epoch + 1 /\ n.timer + elapsed' <= VotedBy
    BY <1>0, <1>2, <2>1 DEF InStep
  <2>5. /\ n.fsm = "accept_vote" =>
             n.votingEpoch = epoch + 1 /\ n.timer + elapsed' <= VotedBy
        /\ n.fsm = "confirm_consensus" =>
             n.votingEpoch = epoch + 1 /\ n.timer + elapsed' <= ConfirmedBy
    BY <1>0, <2>1 DEF InStep
  <2> HIDE DEF n
  <2>6. epoch' = epoch BY <1>5
  <2> QED BY <1>3, <1>4, <2>2, <2>3, <2>4, <2>5, <2>6 DEF InStep, n
<1>6. CASE epoch' = epoch + 1 /\ elapsed' = 0 /\ elapsed = Period - 1
  <2>1. CASE m.fsm \in {"down", "bootstrap"}
    <3>1. n.call = "none" BY <2>1, <1>0 DEF LocalInv, CallInPhase, Locals
    <3> QED BY <3>1, <2>1, <1>0, <1>3, <1>4 DEF InStep
  <2>2. CASE m.fsm \notin {"down", "bootstrap"}
    <3>1. /\ m.fsm = "descriptor_send" /\ m.call = "none" /\ m.votingEpoch = epoch + 2
          /\ m.timer + elapsed >= Period + MixPublishDeadline
          /\ m.timer + elapsed <= Period + MixPublishDeadline + JitterMax
      BY <2>2, <1>6, EpochEnds
    <3>2. /\ n.votingEpoch = epoch' + 1
          /\ n.timer + elapsed' >= MixPublishDeadline
          /\ n.timer + elapsed' <= MixPublishDeadline + JitterMax
      BY <3>1, <1>0, <1>1, <1>6, Timing, Schedule
    <3> QED BY <3>1, <3>2, <1>0, <1>3 DEF InStep
  <2> QED BY <2>1, <2>2
<1> QED BY <1>5, <1>6, TickTime

(* At the first tick of an epoch a correct node has uploaded.              *)
LEMMA UploadedAtOnce ==
  ASSUME InTime, NetworkInv, CycleInv, Tick, NEW a \in Correct
  PROVE  epoch + 1 \in auth[a].descriptors
<1> DEFINE m == auth[a]
<1>0. /\ TypeOK /\ a \in Authorities /\ m \in Locals /\ LocalInv(m) /\ InStep(m) /\ OnTime(m)
      /\ epoch \in Nat /\ elapsed \in Nat /\ epoch + 1 \in Epochs
  BY EpochsAround DEF NetworkInv, TypeOK, CycleInv, CorrectInv, Correct
<1>1. CASE elapsed > 0 BY <1>0, <1>1 DEF OnTime
<1>2. CASE elapsed = 0
  <2>1. m.fsm # "down" /\ ~AwaitsUpload(a) BY <1>0, <1>2 DEF Tick, Owes
  <2>2. m.call # "submit" BY <1>0, <1>2, LocalFields, Timing, Schedule DEF InStep
  <2>3. m.call \notin {"gather", "vote"}
    <3>1. ASSUME m.call \in {"gather", "vote"} PROVE elapsed >= DescriptorBlockDeadline
      BY <1>0, <3>1, VotesLate DEF LocalInv
    <3> QED BY <1>2, <3>1, Schedule
  <2>4. m.call = "none" BY <1>0, <2>2, <2>3 DEF Locals
  <2>5. m.documents[epoch + 1] = NoDocument
    <3>1. consensus[epoch + 1] = NoDocument
      BY <1>0, <1>2, Schedule DEF CycleInv, ConsensusNotEarly
    <3> QED BY <1>0, <3>1 DEF LocalInv, Copies
  <2> QED BY <1>0, <1>2, <2>1, <2>4, <2>5, UploadTimesAssumption DEF AwaitsUpload, Unlocked
<1> QED BY <1>0, <1>1, <1>2

(* What does not depend on the clock of a correct authority.               *)
LEMMA TickVotesAlike ==
  ASSUME NetworkInv, CycleInv, Tick, NEW a \in Correct PROVE VotesAlike(a)'
<1>1. a \in Authorities /\ VotesAlike(a) BY DEF Correct, CycleInv, CorrectInv
<1>2. /\ auth'[a].call = auth[a].call /\ auth'[a].genesisEpoch = auth[a].genesisEpoch
      /\ auth'[a].votingEpoch = auth[a].votingEpoch /\ auth'[a].vote = auth[a].vote
  BY <1>1, TickFields
<1>3. \A e : Origin(e)' = Origin(e) /\ Ballot(e)' = Ballot(e)
  BY TickTime DEF Origin, Ballot
<1>4. /\ Origin(auth[a].votingEpoch)' = Origin(auth[a].votingEpoch)
      /\ Ballot(auth[a].votingEpoch)' = Ballot(auth[a].votingEpoch)
  BY <1>2, TickTime DEF Origin, Ballot
<1> QED BY <1>1, <1>2, <1>3, <1>4, TickTime DEF VotesAlike

LEMMA TickCorrect ==
  ASSUME InTime, NetworkInv, CycleInv, Tick, NEW a \in Correct PROVE CorrectInv(a)'
<1> DEFINE m == auth[a]
           n == auth'[a]
<1>0. /\ TypeOK /\ a \in Authorities /\ m \in Locals /\ n \in Locals /\ LocalInv(m)
      /\ n.fsm = m.fsm /\ n.votingEpoch = m.votingEpoch
      /\ n.documents = m.documents /\ n.descriptors = m.descriptors
      /\ n.fetching = m.fetching /\ CorrectInv(a)
      /\ epoch \in Nat /\ elapsed \in Nat /\ epoch \in Epochs /\ epoch + 1 \in Epochs
  BY TickFields, EpochsAround DEF Correct, NetworkInv, CycleInv
<1>1. m.fsm # "down" /\ m.fetching[epoch] = 0
  BY <1>0, LocalFields DEF Tick, Owes
<1>2. n.timer = m.timer - 1 /\ m.timer \in Int /\ m.timer >= 1 - MaxLate
  BY <1>0, <1>1, TickFields, LocalFields, Timing
<1>3. epoch + 1 \in m.descriptors BY UploadedAtOnce
<1>4. Learnt(m) => ToBootstrap(m) \/ m.documents[epoch] = consensus[epoch]
  BY <1>1 DEF Learnt
<1>5. VotesAlike(a)' BY TickVotesAlike
<1>6. CASE epoch' = epoch /\ elapsed' = elapsed + 1
  <2>1. n.timer + elapsed' = m.timer + elapsed BY <1>0, <1>2, <1>6
  <2>2. ToBootstrap(auth[a])' <=> ToBootstrap(m) BY <1>0, <1>1, <2>1 DEF ToBootstrap
  <2>3. ToSubmit(auth[a])' <=> ToSubmit(m) BY <1>0, <1>6, <2>2 DEF ToSubmit
  <2>4. ToVote(auth[a])' <=> ToVote(m) BY <1>0, <2>3 DEF ToVote
  <2>5. OnTime(auth[a])' BY <1>0, <1>1, <1>3, <1>6, <2>1 DEF CorrectInv, OnTime
  <2>6. Learnt(auth[a])' BY <1>0, <1>4, <1>6, <2>2, TickTime DEF CorrectInv, Learnt
  <2>7. Submitted(a)' BY <1>0, <1>6, <2>3, TickTime DEF CorrectInv, Submitted
  <2>8. (EnoughNodes => Voted(a))'
    BY <1>0, <1>6, <2>4, TickTime DEF CorrectInv, Voted, EnoughNodes
  <2> QED BY <1>5, <2>5, <2>6, <2>7, <2>8 DEF CorrectInv
<1>7. CASE epoch' = epoch + 1 /\ elapsed' = 0 /\ elapsed = Period - 1
  <2>1. CASE m.fsm = "bootstrap"
    <3>1. m.timer + elapsed = Period
      BY <1>0, <1>2, <1>7, <2>1, Timing, Schedule DEF CorrectInv, OnTime
    <3>2. n.timer + elapsed' = 0 BY <1>2, <1>7, <3>1, Schedule
    <3>3. ToBootstrap(auth[a])' BY <1>0, <2>1, <3>2 DEF ToBootstrap
    <3>4. OnTime(auth[a])' BY <1>0, <1>7, <2>1, <3>2 DEF OnTime
    <3> QED BY <1>5, <3>3, <3>4 DEF CorrectInv, Learnt, Submitted, Voted, ToVote, ToSubmit
  <2>2. CASE m.fsm # "bootstrap"
    <3>1. /\ m.fsm = "descriptor_send" /\ m.votingEpoch = epoch + 2
          /\ m.documents[epoch + 1] # NoDocument
      BY <1>0, <1>1, <1>7, <2>2, EpochEnds
    <3>2. m.documents[epoch + 1] = consensus[epoch + 1]
      BY <1>0, <3>1 DEF LocalInv, Copies
    <3>3. Learnt(auth[a])' BY <1>0, <1>7, <3>2, TickTime DEF Learnt
    <3>4. n.votingEpoch = epoch' + 1 BY <1>0, <1>7, <3>1
    <3>5. ToSubmit(auth[a])' BY <1>0, <3>1, <3>4 DEF ToSubmit
    <3>6. OnTime(auth[a])' BY <1>0, <1>7, <3>1 DEF OnTime
    <3> QED BY <1>5, <3>3, <3>5, <3>6 DEF CorrectInv, Submitted, Voted, ToVote
  <2> QED BY <2>1, <2>2
<1> QED BY <1>6, <1>7, TickTime

(* When the consensus is due every correct authority has voted.            *)
LEMMA AllVoted ==
  ASSUME InTime, NetworkInv, CycleInv, Tick, EnoughNodes, NEW a \in Correct,
         elapsed >= VotedBy
  PROVE  consensus[epoch + 1] # NoDocument \/ chainVotes[epoch + 1][a] = Ballot(epoch + 1)
<1> DEFINE m == auth[a]
<1>0. /\ a \in Authorities /\ m \in Locals /\ CallInPhase(m) /\ InStep(m) /\ CorrectInv(a)
      /\ m.fsm # "down" => m.timer >= IF m.call = "none" THEN 1 - MaxLate ELSE 1
      /\ epoch \in Nat /\ elapsed \in Nat /\ epoch + 1 \in Epochs
  BY TickFields, EpochsAround DEF LocalInv, CycleInv, Correct, NetworkInv
<1>1. m.timer \in Int /\ m.readElapsed \in Nat BY <1>0, LocalFields
<1>2. m.fsm # "down" BY <1>0 DEF Tick, Owes
<1>3. elapsed >= DescriptorBlockDeadline BY <1>0, Timing, Schedule
<1>4. ~ToSubmit(m)
  <2>1. CASE m.fsm = "bootstrap" BY <2>1, <1>0, <1>1, <1>3, Timing, Schedule
                                 DEF ToSubmit, ToBootstrap, CallInPhase, Locals
  <2>2. CASE m.fsm = "descriptor_send" /\ m.votingEpoch = epoch + 1
    <3>1. m.call # "submit" BY <1>0, <1>1, <1>2, <1>3, Timing, Schedule DEF InStep
    <3>2. m.call = "none" BY <3>1, <2>2, <1>0 DEF CallInPhase, Locals
    <3> QED BY <3>2, <2>2, <1>0, <1>1, <1>3, Timing, Schedule DEF InStep
  <2> QED BY <1>2, <2>1, <2>2 DEF ToSubmit, ToBootstrap
<1>5. m.fsm # "accept_desc"
  <2> SUFFICES ASSUME m.fsm = "accept_desc" PROVE FALSE OBVIOUS
  <2>1. m.call \in {"none", "gather", "vote"} BY <1>0 DEF CallInPhase, Locals
  <2>2. m.call # "none" BY <1>0, <1>1, Timing, Schedule DEF InStep
  <2>3. m.call # "gather" BY <1>0, <1>1, <1>2, Timing, Schedule DEF InStep
  <2>4. m.call # "vote" BY <1>0, <1>1, <1>2, Timing, Schedule DEF InStep
  <2> QED BY <2>1, <2>2, <2>3, <2>4
<1>6. consensus[epoch + 1] # NoDocument \/ chainVotes[epoch + 1][a] # NoDocument
  BY <1>0, <1>4, <1>5 DEF CorrectInv, Voted, ToVote
<1> QED BY <1>0, <1>6 DEF CorrectInv, VotesAlike

LEMMA AllDecided ==
  ASSUME InTime, NetworkInv, CycleInv, Tick, EnoughNodes, Quorum(Correct), elapsed >= VotedBy
  PROVE  consensus[epoch + 1] # NoDocument
<1> SUFFICES ASSUME consensus[epoch + 1] = NoDocument PROVE FALSE OBVIOUS
<1> DEFINE e == epoch + 1
           doc == Ballot(e)
<1>0. /\ TypeOK /\ e \in Epochs /\ ChainInv BY EpochsAround DEF NetworkInv
<1>1. \A b \in Correct : chainVotes[e][b] = doc BY AllVoted
<1>2. PICK a \in Correct : TRUE
  <2>1. Correct \subseteq Authorities BY DEF Correct
  <2> QED BY <2>1, MajoritiesMeet
<1>3. doc # NoDocument
  <2>1. elapsed >= DescriptorBlockDeadline
    BY Timing, EpochsAround, Schedule DEF NetworkInv
  <2>2. a \in doc.descs BY <2>1, AllSubmitted DEF Ballot
  <2> QED BY <2>2 DEF NoDocument
<1>4. Quorum(Voters(e, doc))
  <2>1. Correct \subseteq Voters(e, doc) /\ Voters(e, doc) \subseteq Authorities
    BY <1>1 DEF Voters, Correct
  <2>2. IsFiniteSet(Voters(e, doc)) BY <2>1, AuthoritiesAssumption, FS_Subset
  <2>3. /\ Cardinality(Correct) <= Cardinality(Voters(e, doc))
        /\ Cardinality(Correct) \in Nat /\ Cardinality(Voters(e, doc)) \in Nat
        /\ Cardinality(Authorities) \in Nat
    BY <2>1, <2>2, AuthoritiesAssumption, FS_Subset, FS_CardinalityType
  <2> QED BY <2>3 DEF Quorum
<1>5. a \in Authorities /\ chainVotes[e][a] = doc BY <1>1 DEF Correct
<1>6. CanSettle(e) BY <1>3, <1>4, <1>5 DEF CanSettle, Settled
<1> QED BY <1>0, <1>6, TickTime

LEMMA TickCycle ==
  ASSUME InTime, NetworkInv, CycleInv, Tick PROVE CycleInv'
<1>0. /\ TypeOK /\ epoch \in Nat /\ elapsed \in Nat
      /\ epoch + 1 \in Epochs /\ epoch + 2 \in Epochs
  BY EpochsAround DEF NetworkInv
<1>1. \A a \in Authorities : InStep(auth[a])' BY TickInStep
<1>2. \A a \in Correct : CorrectInv(a)' BY TickCorrect
<1>3. ConsensusNotEarly'
  BY <1>0, TickTime, Schedule, NetworkEpochAssumption DEF CycleInv, ConsensusNotEarly, Epochs
<1>4. Closed' BY TickTime DEF Closed, CanSettle, Settled, Quorum, Voters
<1>5. OneGenesis' <=> OneGenesis BY TickTime DEF OneGenesis
<1>6. Included => Included'
  <2>1. CASE epoch' = epoch BY <2>1, TickTime DEF Included
  <2>2. CASE epoch' = epoch + 1
    <3>1. consensus[epoch + 2] = NoDocument BY <1>0 DEF CycleInv, ConsensusNotEarly
    <3> QED BY <1>0, <2>2, <3>1, TickTime DEF Included
  <2> QED BY <2>1, <2>2, TickTime
<1>7. ASSUME Quorum(Correct), EnoughNodes, VotesInTime, Decided PROVE Decided'
  <2> SUFFICES ASSUME elapsed' >= PublishConsensusDeadline
               PROVE  consensus'[epoch' + 1] # NoDocument
    BY DEF Decided
  <2>1. epoch' = epoch /\ elapsed' = elapsed + 1
    BY <1>7, TickTime, Timing, Schedule DEF VotesInTime
  <2>2. elapsed >= VotedBy BY <1>0, <1>7, <2>1, Timing, Schedule DEF VotesInTime
  <2> QED BY <1>7, <2>1, <2>2, AllDecided, TickTime
<1>8. Outcome' BY <1>5, <1>6, <1>7 DEF CycleInv, Outcome, Quorum, EnoughNodes
<1> QED BY <1>1, <1>2, <1>3, <1>4, <1>8 DEF CycleInv

-----------------------------------------------------------------------------
LEMMA CycleInvInit == ASSUME InTime, Init PROVE CycleInv
<1>0. /\ epoch = MinEpoch /\ elapsed = 0 /\ auth = [a \in Authorities |-> Stopped]
      /\ chainVotes = [e \in Epochs |-> [a \in Authorities |-> NoDocument]]
      /\ MinEpoch \in Nat /\ MinEpoch \in Epochs /\ MinEpoch + 1 \in Epochs
  BY NetworkEpochAssumption DEF Init, Epochs
<1>1. \A e \in Epochs : e # MinEpoch => consensus[e] = NoDocument BY DEF Init
<1>2. ASSUME NEW a \in Authorities
      PROVE  auth[a].fsm = "down" /\ auth[a].timer = 0 /\ auth[a].call = "none"
  BY <1>0 DEF Stopped
<1>3. ASSUME NEW a \in Authorities PROVE InStep(auth[a])
  BY <1>2, Timing DEF InStep
<1>4. ConsensusNotEarly BY <1>0, <1>1, NetworkEpochAssumption DEF ConsensusNotEarly, Epochs
<1>5. Closed BY <1>0 DEF Closed, CanSettle, Settled
<1>6. ASSUME NEW a \in Correct PROVE CorrectInv(a)
  <2>1. a \in Authorities BY DEF Correct
  <2>2. OnTime(auth[a]) BY <1>0, <1>2, <2>1 DEF OnTime
  <2>3. ToBootstrap(auth[a]) BY <1>2, <2>1 DEF ToBootstrap
  <2>4. VotesAlike(a) BY <1>0, <1>2, <2>1 DEF VotesAlike
  <2> QED BY <2>2, <2>3, <2>4 DEF CorrectInv, Learnt, Submitted, Voted, ToVote, ToSubmit
<1>7. OneGenesis
  <2> SUFFICES ASSUME NEW e \in Epochs \ {0}, consensus[e] # NoDocument,
                      consensus[e - 1] # NoDocument
               PROVE  FALSE
    BY DEF OneGenesis
  <2>1. e \in Nat /\ e - 1 \in Epochs BY NetworkEpochAssumption DEF Epochs
  <2> QED BY <1>0, <1>1, <2>1
<1>8. Included BY <1>0, <1>1 DEF Included
<1>9. VotesInTime => Decided BY <1>0, Timing, Schedule DEF Decided, VotesInTime
<1> QED BY <1>3, <1>4, <1>5, <1>6, <1>7, <1>8, <1>9 DEF CycleInv, Outcome

LEMMA CycleInvStep ==
  ASSUME InTime, NetworkInv, NetworkInv', CycleInv, [Next]_vars PROVE CycleInv'
<1>1. CASE Tick BY <1>1, TickCycle
<1>2. ASSUME NEW a \in Authorities, Machine(a) PROVE CycleInv'
  BY <1>2, BootstrapInStep, SubmitDescriptorInStep, SubmitReturnsInStep,
     NoDescriptorToSubmitInStep, GetVoteInStep, SendVoteInStep, GetVoteFailsInStep,
     VoteReturnsInStep, FetchConsensusInStep, ConfirmConsensusInStep, MissConsensusInStep
     DEF Machine
<1>3. ASSUME NEW a \in Authorities, DescriptorUpload(a) \/ Crash(a) \/ Start(a)
      PROVE  CycleInv'
  BY <1>3, DescriptorUploadInStep, CrashInStep, StartInStep
<1>4. ASSUME NEW a \in Authorities, NEW e \in Epochs, FetchReturns(a, e) \/ FetchFails(a, e)
      PROVE  CycleInv'
  BY <1>4, FetchReturnsInStep, FetchFailsInStep
<1>5. ASSUME NEW e \in Epochs, ChainSettles(e) PROVE CycleInv'
  BY <1>5, ChainSettlesInStep
<1>6. CASE UNCHANGED vars BY <1>6, StutterInStep
<1> QED BY <1>1, <1>2, <1>3, <1>4, <1>5, <1>6 DEF Next

(* When submissions sent on time land on time the authorities stay in step *)
(* (aux.go:52-137), whatever the faulty ones do.                           *)
THEOREM CycleInvariant == InTime => (Spec => []CycleInv)
<1> SUFFICES ASSUME InTime PROVE Spec => []CycleInv OBVIOUS
<1>1. Init => CycleInv BY CycleInvInit
<1>2. NetworkInv /\ NetworkInv' /\ CycleInv /\ [Next]_vars => CycleInv' BY CycleInvStep
<1>3. Spec => []NetworkInv BY NetworkInvariant
<1> QED BY <1>1, <1>2, <1>3, PTL DEF Spec

(* A consensus that follows one carries on its genesis epoch: the votes of *)
(* a correct majority that has the previous document and of those that     *)
(* bootstrapped are the same (getVote, state.go).                          *)
THEOREM GenesisIsKept == Spec => []GenesisKept
<1>1. CASE InTime
  <2>1. CycleInv => GenesisKept BY DEF CycleInv, Outcome, OneGenesis, GenesisKept
  <2>2. Spec => []CycleInv BY <1>1, CycleInvariant
  <2> QED BY <2>1, <2>2, PTL
<1>2. CASE ~InTime
  <2>1. GenesisKept BY <1>2 DEF GenesisKept
  <2> QED BY <2>1, PTL
<1> QED BY <1>1, <1>2

(* A correct authority holds the document of an epoch once it had the time *)
(* to bootstrap in it.                                                     *)
THEOREM CorrectAuthoritiesLearn == Spec => []CorrectLearn
<1>1. CASE InTime
  <2>1. NetworkInv /\ CycleInv => CorrectLearn
    <3> SUFFICES ASSUME NetworkInv, CycleInv, NEW a \in Correct,
                        auth[a].fsm # "down", elapsed > MaxLate
                 PROVE  auth[a].documents[epoch] = consensus[epoch]
      BY DEF CorrectLearn
    <3>1. /\ Learnt(auth[a]) /\ InStep(auth[a]) /\ CallInPhase(auth[a])
          /\ auth[a] \in Locals /\ elapsed \in Nat
      BY EpochsAround DEF CycleInv, CorrectInv, NetworkInv, LocalInv, TypeOK, Correct
    <3>2. ~ToBootstrap(auth[a])
      BY <1>1, <3>1, LocalFields, Timing DEF ToBootstrap, InStep, CallInPhase, Locals
    <3>3. ~(elapsed <= MaxLate) BY <1>1, <3>1, Timing
    <3> QED BY <3>1, <3>2, <3>3 DEF Learnt
  <2>2. Spec => []CycleInv BY <1>1, CycleInvariant
  <2> QED BY <2>1, <2>2, NetworkInvariant, PTL
<1>2. CASE ~InTime
  <2>1. CorrectLearn BY <1>2 DEF CorrectLearn
  <2> QED BY <2>1, PTL
<1> QED BY <1>1, <1>2

(* A correct majority decides in every epoch, on a document that lists all *)
(* the correct nodes, by the deadline at which it looks for the consensus  *)
(* (aux.go:97).  Timing shows the hypothesis of every period from 16 on.   *)
THEOREM CorrectMajorityDecides == VotesInTime => (Spec => []CorrectDecide)
<1> SUFFICES ASSUME VotesInTime PROVE Spec => []CorrectDecide OBVIOUS
<1>1. CASE InTime
  <2>1. CycleInv => CorrectDecide
    BY DEF CycleInv, Outcome, Decided, Included, EnoughNodes, CorrectDecide
  <2>2. Spec => []CycleInv BY <1>1, CycleInvariant
  <2> QED BY <2>1, <2>2, PTL
<1>2. CASE ~InTime
  <2>1. CorrectDecide BY <1>2 DEF CorrectDecide
  <2> QED BY <2>1, PTL
<1> QED BY <1>1, <1>2

-----------------------------------------------------------------------------
(* Which steps add descriptors, and when.                                  *)
LEMMA DescriptorsMove ==
  ASSUME InTime, NetworkInv, CycleInv, [Next]_vars, NEW e \in Epochs
  PROVE  chainDescs'[e] = chainDescs[e] \/ (e = epoch + 1 /\ elapsed < DescriptorBlockDeadline)
<1>1. CASE Tick BY <1>1, TickTime
<1>2. ASSUME NEW a \in Authorities, SubmitReturns(a)
      PROVE  UNCHANGED chainDescs \/ ChainMoves
  BY <1>2, DescriptorLands DEF SubmitReturns
<1>3. ASSUME NEW a \in Authorities, Crash(a) PROVE UNCHANGED chainDescs \/ ChainMoves
  BY <1>3, DescriptorLands DEF Crash, CommandLost, CommandLands
<1>4. ASSUME NEW a \in Authorities, Machine(a) \/ DescriptorUpload(a) \/ Crash(a) \/ Start(a)
      PROVE  UNCHANGED chainDescs \/ ChainMoves
  BY <1>2, <1>3, <1>4
     DEF Machine, Bootstrap, SubmitDescriptor, NoDescriptorToSubmit, GetVote, SendVote,
         GetVoteFails, VoteReturns, FetchConsensus, ConfirmConsensus, MissConsensus,
         DescriptorUpload, Start, chainState
<1>5. ASSUME NEW a \in Authorities, NEW x \in Epochs, FetchReturns(a, x) \/ FetchFails(a, x)
      PROVE  UNCHANGED chainDescs
  BY <1>5 DEF FetchReturns, FetchFails, chainState
<1>6. ASSUME NEW x \in Epochs, ChainSettles(x) PROVE UNCHANGED chainDescs
  BY <1>6 DEF ChainSettles
<1>7. CASE UNCHANGED vars BY <1>7 DEF vars, chainState
<1> QED BY <1>1, <1>4, <1>5, <1>6, <1>7 DEF Next, ChainMoves

(* No descriptor is added for an epoch that an authority gathers or has    *)
(* voted for, although nobody closes the window on the chain.              *)
THEOREM DescriptorsAreStable == Spec => DescriptorsStable
<1> DEFINE Stable ==
      \A a \in Authorities :
        auth[a].call = "gather" \/ auth[a].votingEpoch \in auth[a].voted
          => chainDescs'[auth[a].votingEpoch] = chainDescs[auth[a].votingEpoch]
<1>1. CASE InTime
  <2>1. ASSUME NetworkInv, CycleInv, [Next]_vars PROVE Stable
    <3> SUFFICES ASSUME NEW a \in Authorities,
                        auth[a].call = "gather" \/ auth[a].votingEpoch \in auth[a].voted
                 PROVE  chainDescs'[auth[a].votingEpoch] = chainDescs[auth[a].votingEpoch]
      OBVIOUS
    <3>1. /\ TypeOK /\ auth[a] \in Locals /\ LocalInv(auth[a]) /\ InStep(auth[a])
          /\ epoch \in Nat /\ elapsed \in Nat /\ auth[a].votingEpoch \in Epochs
      BY <2>1, EpochsAround, LocalFields DEF NetworkInv, TypeOK, CycleInv
    <3>2. auth[a].votingEpoch = epoch + 1 => elapsed >= DescriptorBlockDeadline
      <4>1. CASE auth[a].call = "gather" BY <3>1, <4>1, VotesLate DEF LocalInv
      <4>2. CASE auth[a].votingEpoch \in auth[a].voted
        BY <3>1, <4>2 DEF LocalInv, NotEarly
      <4> QED BY <4>1, <4>2
    <3> QED BY <1>1, <2>1, <3>1, <3>2, DescriptorsMove, Schedule
  <2>2. Spec => []CycleInv BY <1>1, CycleInvariant
  <2>3. NetworkInv /\ CycleInv /\ [Next]_vars => [InTime => Stable]_vars BY <2>1
  <2>4. Spec => [][InTime => Stable]_vars
    BY <2>2, <2>3, NetworkInvariant, PTL DEF Spec
  <2> QED BY <2>4 DEF DescriptorsStable
<1>2. CASE ~InTime
  <2>1. [Next]_vars => [InTime => Stable]_vars BY <1>2
  <2>2. Spec => [][InTime => Stable]_vars BY <2>1, PTL DEF Spec
  <2> QED BY <2>2 DEF DescriptorsStable
<1> QED BY <1>1, <1>2

=============================================================================
