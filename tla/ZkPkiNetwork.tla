---------------------------- MODULE ZkPkiNetwork ----------------------------
(***************************************************************************)
(* Several directory authorities and the appchain they meet on: each runs  *)
(* the voting schedule of pki/server/aux.go, puts the descriptor of its    *)
(* own mix node on the chain, votes with a document made of all the        *)
(* descriptors it reads there, and fetches the document the chain settles  *)
(* on.  Authorities never talk to each other.                              *)
(*                                                                         *)
(* The clocks are synchronised.  A faulty authority crashes and restarts   *)
(* at any time, its chain commands and its fetches may fail, and its node  *)
(* may not upload.  What a correct one asks of the chain succeeds.  A      *)
(* fetch ends before the next tick (bound).                                *)
(***************************************************************************)
EXTENDS EpochSchedule, FiniteSets

CONSTANTS
  Authorities,
  Faulty,           \* the authorities that may fail, the same all along
  MaxDelay,         \* a chain command made by the worker takes at most this long
  MaxLate,          \* the worker runs at most this long after its timer fires
  MinEpoch,         \* the epoch the history starts in
  MaxEpoch,         \* the clock stops at the end of this epoch (bound)
  UploadTimes,      \* when in an epoch nodes upload, the correct ones at 0 (bound)
  MinDescriptors    \* a document of fewer descriptors is not well formed

ASSUME AuthoritiesAssumption == IsFiniteSet(Authorities) /\ Faulty \subseteq Authorities
ASSUME NetworkDelayAssumption == MaxDelay \in Nat /\ MaxLate \in Nat
ASSUME NetworkEpochAssumption ==
  MinEpoch \in Nat /\ MinEpoch >= 3 /\ MaxEpoch \in Nat /\ MinEpoch <= MaxEpoch
ASSUME UploadTimesAssumption == 0 \in UploadTimes /\ UploadTimes \subseteq 0 .. Period - 1
ASSUME MinDescriptorsAssumption == MinDescriptors \in Nat \ {0}

Epochs == 0 .. MaxEpoch + 2
Correct == Authorities \ Faulty
PreserveForPastEpochs == 3

(* A document is what two votes for an epoch may differ in: the genesis    *)
(* epoch, which also tells whether the topology continues a previous       *)
(* document, and the authorities whose nodes' descriptors it holds.        *)
Documents == [genesis : Epochs, descs : SUBSET Authorities]
NoDocument == [genesis |-> 0, descs |-> {}]

VARIABLES
  epoch, elapsed,   \* the clock
  auth,             \* the state of each authority
  chainDescs,       \* the nodes whose descriptors the chain has, for each epoch
  chainVotes,       \* the documents the authorities set on the chain
  consensus         \* the documents the chain settled on

clock == <<epoch, elapsed>>
chainState == <<chainDescs, chainVotes, consensus>>
vars == <<clock, auth, chainState>>

(* documents, descriptors and fetching are those of ZkPkiFsm; vote is the  *)
(* document being sent, voted the epochs a vote was sent for.              *)
Locals ==
  [fsm : {"down", "bootstrap", "descriptor_send", "accept_desc", "accept_vote",
          "confirm_consensus"},
   votingEpoch : Epochs, genesisEpoch : Epochs, timer : Int,
   call : {"none", "submit", "gather", "vote"}, readElapsed : 0 .. Period - 1,
   documents : [Epochs -> Documents], descriptors : SUBSET Epochs,
   fetching : [Epochs -> Nat], vote : Documents, voted : SUBSET Epochs]

TypeOK ==
  /\ epoch \in MinEpoch .. MaxEpoch
  /\ elapsed \in 0 .. Period - 1
  /\ auth \in [Authorities -> Locals]
  /\ chainDescs \in [Epochs -> SUBSET Authorities]
  /\ chainVotes \in [Epochs -> [Authorities -> Documents]]
  /\ consensus \in [Epochs -> Documents]

Stopped ==
  [fsm |-> "down", votingEpoch |-> 0, genesisEpoch |-> 0, timer |-> 0,
   call |-> "none", readElapsed |-> 0,
   documents |-> [e \in Epochs |-> NoDocument], descriptors |-> {},
   fetching |-> [e \in Epochs |-> 0], vote |-> NoDocument, voted |-> {}]

(* The chain may already hold the first consensus of the network, for the  *)
(* current epoch.                                                          *)
Init ==
  /\ epoch = MinEpoch /\ elapsed = 0
  /\ auth = [a \in Authorities |-> Stopped]
  /\ chainDescs = [e \in Epochs |-> {}]
  /\ chainVotes = [e \in Epochs |-> [a \in Authorities |-> NoDocument]]
  /\ \E first \in {NoDocument, [genesis |-> MinEpoch, descs |-> Authorities]} :
       consensus = [e \in Epochs |-> IF e = MinEpoch THEN first ELSE NoDocument]

-----------------------------------------------------------------------------
(* The chain.  An authority sets one document for an epoch; the one a      *)
(* majority of the authorities set, hash for hash, becomes the consensus   *)
(* and is never replaced.                                                  *)

Quorum(voters) == 2 * Cardinality(voters) > Cardinality(Authorities)

Voters(e, doc) == {a \in Authorities : chainVotes[e][a] = doc}

Settled(e, doc) == doc # NoDocument /\ Quorum(Voters(e, doc))

CanSettle(e) ==
  consensus[e] = NoDocument /\ \E a \in Authorities : Settled(e, chainVotes[e][a])

ChainSettles(e) ==
  /\ consensus[e] = NoDocument
  /\ \E a \in Authorities :
       /\ Settled(e, chainVotes[e][a])
       /\ consensus' = [consensus EXCEPT ![e] = chainVotes[e][a]]
  /\ chainVotes' = [chainVotes EXCEPT ![e] = [a \in Authorities |-> NoDocument]]
  /\ UNCHANGED <<clock, auth, chainDescs>>

(* A redundant descriptor is rejected, and so is one for an epoch that has *)
(* its document.                                                           *)
SetMixDescriptor(a, e) ==
  chainDescs' = [chainDescs EXCEPT ![e] =
                   IF consensus[e] = NoDocument THEN @ \cup {a} ELSE @]

SetDocument(a, e, doc) ==
  chainVotes' = [chainVotes EXCEPT ![e][a] =
                   IF consensus[e] = NoDocument /\ @ = NoDocument THEN doc ELSE @]

-----------------------------------------------------------------------------
(* The schedule of one authority.  Each step of fsm() ends by pruning the  *)
(* tables.                                                                 *)

Awake(a, phase) == auth[a].fsm = phase /\ auth[a].call = "none" /\ auth[a].timer <= 0

Sleep(ticks) == IF ticks < 0 THEN 0 ELSE ticks

Expired(e) == e + PreserveForPastEpochs < epoch

Pruned(l) ==
  [l EXCEPT !.documents = [e \in Epochs |-> IF Expired(e) THEN NoDocument ELSE @[e]],
            !.descriptors = {e \in @ : ~Expired(e)}]

Become(a, l) == auth' = [auth EXCEPT ![a] = Pruned(l)]

Fetching(l, wanted) ==
  [e \in Epochs |->
     IF e \in wanted /\ l.documents[e] = NoDocument THEN l.fetching[e] + 1 ELSE l.fetching[e]]

(* Mutant: a bootstrap is never too late. *)
BootstrapAnytime(a) ==
  LET l == [auth[a] EXCEPT !.genesisEpoch = 0,
                           !.fetching = Fetching(auth[a], {epoch - 1, epoch})]
  IN /\ Awake(a, "bootstrap")
     /\ \E j \in Jitter :
          Become(a, [l EXCEPT !.votingEpoch = epoch + 1, !.fsm = "descriptor_send",
                              !.timer = Sleep(MixPublishDeadline - elapsed + j)])
     /\ UNCHANGED <<clock, chainState>>

(* Mutant: a bootstrap fetches the previous document only. *)
BootstrapPrevious(a) ==
  LET l == [auth[a] EXCEPT !.genesisEpoch = 0,
                           !.fetching = Fetching(auth[a], {epoch - 1})]
  IN /\ Awake(a, "bootstrap")
     /\ \/ /\ elapsed > MixPublishDeadline
           /\ Become(a, [l EXCEPT !.votingEpoch = epoch + 2, !.timer = Sleep(Period - elapsed)])
        \/ /\ elapsed <= MixPublishDeadline
           /\ \E j \in Jitter :
                Become(a, [l EXCEPT !.votingEpoch = epoch + 1, !.fsm = "descriptor_send",
                                    !.timer = Sleep(MixPublishDeadline - elapsed + j)])
     /\ UNCHANGED <<clock, chainState>>

Bootstrap(a) ==
  LET l == [auth[a] EXCEPT !.genesisEpoch = 0,
                           !.fetching = Fetching(auth[a], {epoch - 1, epoch})]
  IN /\ Awake(a, "bootstrap")
     /\ \/ /\ elapsed > MixPublishDeadline
           /\ Become(a, [l EXCEPT !.votingEpoch = epoch + 2, !.timer = Sleep(Period - elapsed)])
        \/ /\ elapsed <= MixPublishDeadline
           /\ \E j \in Jitter :
                Become(a, [l EXCEPT !.votingEpoch = epoch + 1, !.fsm = "descriptor_send",
                                    !.timer = Sleep(MixPublishDeadline - elapsed + j)])
     /\ UNCHANGED <<clock, chainState>>

(* Mutant: descriptors are collected from the mix publish deadline on. *)
AcceptDescriptorsEarly(a, readAt) ==
  \E j \in Jitter :
    Become(a, [auth[a] EXCEPT !.fsm = "accept_desc", !.call = "none", !.readElapsed = 0,
                              !.timer = Sleep(MixPublishDeadline - readAt + j)])

AcceptDescriptorsFrom(a, readAt) ==
  \E j \in Jitter :
    Become(a, [auth[a] EXCEPT !.fsm = "accept_desc", !.call = "none", !.readElapsed = 0,
                              !.timer = Sleep(DescriptorBlockDeadline - readAt + j)])

SubmitDescriptor(a) ==
  /\ Awake(a, "descriptor_send")
  /\ auth[a].votingEpoch \in auth[a].descriptors
  /\ auth' = [auth EXCEPT ![a].call = "submit", ![a].timer = MaxDelay,
                          ![a].readElapsed = elapsed]
  /\ UNCHANGED <<clock, chainState>>

SubmitReturns(a) ==
  /\ auth[a].call = "submit"
  /\ \/ SetMixDescriptor(a, auth[a].votingEpoch)
     \/ a \in Faulty /\ UNCHANGED chainDescs
  /\ AcceptDescriptorsFrom(a, auth[a].readElapsed)
  /\ UNCHANGED <<clock, chainVotes, consensus>>

NoDescriptorToSubmit(a) ==
  /\ Awake(a, "descriptor_send")
  /\ auth[a].votingEpoch \notin auth[a].descriptors
  /\ AcceptDescriptorsFrom(a, elapsed)
  /\ UNCHANGED <<clock, chainState>>

(* Mutant: the previous document is looked up under the epoch voted on. *)
GetVoteAfresh(a) ==
  LET previous == auth[a].documents[auth[a].votingEpoch]
  IN /\ Awake(a, "accept_desc")
     /\ auth' = [auth EXCEPT
          ![a].genesisEpoch = IF previous # NoDocument THEN previous.genesis
                                                       ELSE auth[a].votingEpoch,
          ![a].call = "gather", ![a].timer = MaxDelay]
     /\ UNCHANGED <<clock, chainState>>

(* Mutant: a vote without a previous document is dated the epoch before. *)
GetVoteBackdated(a) ==
  LET previous == auth[a].documents[auth[a].votingEpoch - 1]
  IN /\ Awake(a, "accept_desc")
     /\ auth' = [auth EXCEPT
          ![a].genesisEpoch = IF previous # NoDocument THEN previous.genesis
                                                       ELSE epoch,
          ![a].call = "gather", ![a].timer = MaxDelay]
     /\ UNCHANGED <<clock, chainState>>

GetVote(a) ==
  LET previous == auth[a].documents[auth[a].votingEpoch - 1]
  IN /\ Awake(a, "accept_desc")
     /\ auth' = [auth EXCEPT
          ![a].genesisEpoch = IF previous # NoDocument THEN previous.genesis
                                                       ELSE auth[a].votingEpoch,
          ![a].call = "gather", ![a].timer = MaxDelay]
     /\ UNCHANGED <<clock, chainState>>

(* The descriptors are read one by one, and one that cannot be read is     *)
(* left out.                                                               *)
MixDescriptors(a, e) == IF a \in Faulty THEN SUBSET chainDescs[e] ELSE {chainDescs[e]}

WellFormed(descs) == Cardinality(descs) >= MinDescriptors

SendVote(a) ==
  /\ auth[a].call = "gather"
  /\ \E descs \in MixDescriptors(a, auth[a].votingEpoch) :
       /\ WellFormed(descs)
       /\ auth' = [auth EXCEPT ![a].call = "vote", ![a].timer = MaxDelay,
                     ![a].vote = [genesis |-> auth[a].genesisEpoch, descs |-> descs],
                     ![a].voted = @ \cup {auth[a].votingEpoch}]
  /\ UNCHANGED <<clock, chainState>>

AcceptVotes(a) ==
  Become(a, [auth[a] EXCEPT !.fsm = "accept_vote", !.call = "none", !.vote = NoDocument,
                            !.timer = Sleep(AuthorityVoteDeadline - elapsed)])

GetVoteFails(a) ==
  /\ auth[a].call = "gather"
  /\ \/ a \in Faulty
     \/ ~WellFormed(chainDescs[auth[a].votingEpoch])
  /\ AcceptVotes(a)
  /\ UNCHANGED <<clock, chainState>>

VoteReturns(a) ==
  /\ auth[a].call = "vote"
  /\ \/ SetDocument(a, auth[a].votingEpoch, auth[a].vote)
     \/ a \in Faulty /\ UNCHANGED chainVotes
  /\ AcceptVotes(a)
  /\ UNCHANGED <<clock, chainDescs, consensus>>

FetchConsensus(a) ==
  /\ Awake(a, "accept_vote")
  /\ Become(a, [auth[a] EXCEPT !.fsm = "confirm_consensus",
                               !.fetching = Fetching(auth[a], {auth[a].votingEpoch}),
                               !.timer = Sleep(PublishConsensusDeadline - elapsed)])
  /\ UNCHANGED <<clock, chainState>>

ConfirmConsensus(a) ==
  /\ Awake(a, "confirm_consensus")
  /\ auth[a].documents[epoch + 1] # NoDocument
  /\ \E j \in Jitter :
       Become(a, [auth[a] EXCEPT !.fsm = "descriptor_send", !.votingEpoch = @ + 1,
                    !.timer = Sleep(MixPublishDeadline + (Period - elapsed) + j)])
  /\ UNCHANGED <<clock, chainState>>

MissConsensus(a) ==
  /\ Awake(a, "confirm_consensus")
  /\ auth[a].documents[epoch + 1] = NoDocument
  /\ Become(a, [auth[a] EXCEPT !.fsm = "bootstrap", !.votingEpoch = epoch + 2,
                               !.timer = Sleep(Period - elapsed)])
  /\ UNCHANGED <<clock, chainState>>

-----------------------------------------------------------------------------
(* What runs beside the schedule of an authority. *)

Unlocked(a) == auth[a].fsm # "down" /\ auth[a].call = "none"

FetchReturns(a, e) ==
  /\ Unlocked(a)
  /\ auth[a].fetching[e] > 0 /\ consensus[e] # NoDocument
  /\ auth' = [auth EXCEPT ![a].fetching[e] = @ - 1,
                          ![a].documents[e] = IF @ = NoDocument THEN consensus[e] ELSE @]
  /\ UNCHANGED <<clock, chainState>>

(* Mutant: a fetch may end that was never started. *)
FetchFailsUnstarted(a, e) ==
  /\ consensus[e] = NoDocument
  /\ auth' = [auth EXCEPT ![a].fetching[e] = @ - 1]
  /\ UNCHANGED <<clock, chainState>>

FetchFails(a, e) ==
  /\ auth[a].fetching[e] > 0
  /\ a \in Faulty \/ consensus[e] = NoDocument
  /\ auth' = [auth EXCEPT ![a].fetching[e] = @ - 1]
  /\ UNCHANGED <<clock, chainState>>

(* The nodes upload the descriptor of the next epoch. *)
AwaitsUpload(a) ==
  /\ elapsed \in UploadTimes /\ Unlocked(a)
  /\ epoch + 1 \notin auth[a].descriptors /\ auth[a].documents[epoch + 1] = NoDocument

DescriptorUpload(a) ==
  /\ AwaitsUpload(a)
  /\ auth' = [auth EXCEPT ![a].descriptors = @ \cup {epoch + 1}]
  /\ UNCHANGED <<clock, chainState>>

(* The command the worker is waiting for may have reached the chain.       *)
CommandLost(a) == UNCHANGED <<chainDescs, chainVotes>>
CommandLands(a) ==
  \/ auth[a].call = "submit" /\ SetMixDescriptor(a, auth[a].votingEpoch) /\ UNCHANGED chainVotes
  \/ /\ auth[a].call = "vote"
     /\ SetDocument(a, auth[a].votingEpoch, auth[a].vote)
     /\ UNCHANGED chainDescs

Crash(a) ==
  /\ a \in Faulty /\ auth[a].fsm # "down"
  /\ CommandLost(a) \/ CommandLands(a)
  /\ auth' = [auth EXCEPT ![a] = [Stopped EXCEPT !.voted = auth[a].voted]]
  /\ UNCHANGED <<clock, consensus>>

Start(a) ==
  /\ auth[a].fsm = "down"
  /\ auth' = [auth EXCEPT ![a].fsm = "bootstrap"]
  /\ UNCHANGED <<clock, chainState>>

(* The clock waits for the worker up to MaxLate, for a chain call up to    *)
(* MaxDelay, for the chain to settle, for the fetches, and for the correct *)
(* authorities to start and have their nodes upload.                       *)
Overdue(a) ==
  auth[a].fsm # "down" /\ auth[a].timer <= IF auth[a].call = "none" THEN -MaxLate ELSE 0

Owes(a) ==
  \/ a \in Correct /\ auth[a].fsm = "down"
  \/ a \in Correct /\ elapsed = 0 /\ AwaitsUpload(a)
  \/ \E e \in Epochs : auth[a].fetching[e] > 0

Tick ==
  /\ \A a \in Authorities : ~Overdue(a) /\ ~Owes(a)
  /\ \A e \in Epochs : ~CanSettle(e)
  /\ \/ elapsed + 1 < Period /\ elapsed' = elapsed + 1 /\ epoch' = epoch
     \/ elapsed + 1 = Period /\ epoch < MaxEpoch /\ elapsed' = 0 /\ epoch' = epoch + 1
  /\ auth' = [a \in Authorities |->
                [auth[a] EXCEPT !.timer = IF auth[a].fsm = "down" THEN 0 ELSE @ - 1]]
  /\ UNCHANGED chainState

-----------------------------------------------------------------------------
Machine(a) ==
  \/ Bootstrap(a)
  \/ SubmitDescriptor(a) \/ SubmitReturns(a) \/ NoDescriptorToSubmit(a)
  \/ GetVote(a) \/ SendVote(a) \/ GetVoteFails(a) \/ VoteReturns(a)
  \/ FetchConsensus(a)
  \/ ConfirmConsensus(a) \/ MissConsensus(a)

Next ==
  \/ Tick
  \/ \E a \in Authorities : Machine(a) \/ DescriptorUpload(a) \/ Crash(a) \/ Start(a)
  \/ \E a \in Authorities, e \in Epochs : FetchReturns(a, e) \/ FetchFails(a, e)
  \/ \E e \in Epochs : ChainSettles(e)

Spec == Init /\ [][Next]_vars

-----------------------------------------------------------------------------
(* One authority of the network, as the machine of ZkPkiFsm: the world it  *)
(* lives in is made of the other authorities.                              *)
Authority(a) == INSTANCE ZkPkiFsm WITH
  UploadEpochs <- 0 .. MaxEpoch + 1,
  SettleEpochs <- Epochs,
  Requested <- {},
  fsm <- auth[a].fsm,
  votingEpoch <- auth[a].votingEpoch,
  genesisEpoch <- auth[a].genesisEpoch,
  timer <- auth[a].timer,
  call <- auth[a].call,
  readElapsed <- auth[a].readElapsed,
  documents <- [e \in Epochs |-> auth[a].documents[e].genesis],
  descriptors <- auth[a].descriptors,
  fetching <- auth[a].fetching,
  chain <- [e \in Epochs |-> consensus[e].genesis],
  voted <- auth[a].voted,
  gone <- {}

(* Every authority of the network behaves as ZkPkiFsm: what that module    *)
(* lets the chain do to one authority is what the others can do to it, and *)
(* all that is shown of one authority there holds here.  (That a step      *)
(* leaves an authority and its world alone is looked at first: it is what  *)
(* most steps do, and the cheaper question.)                               *)
ImplementsFsm ==
  /\ \A a \in Authorities : Authority(a)!Init
  /\ [][\A a \in Authorities :
          \/ UNCHANGED <<epoch, elapsed, auth[a], consensus>>
          \/ [Authority(a)!Next]_(Authority(a)!vars)]_vars

(* The authorities agree, epoch by epoch, on a document that was made of   *)
(* the previous one: nothing an authority stores, keeps across epochs or   *)
(* loses in a crash makes it serve another document than the chain's, and  *)
(* the votes of no majority break off a genesis epoch at random.           *)
Consensus == INSTANCE EpochConsensus WITH
  chosen <- consensus,
  held <- [a \in Authorities |-> auth[a].documents]

ImplementsConsensus ==
  /\ Consensus!Init
  /\ [][UNCHANGED Consensus!vars \/ Consensus!Next]_vars

(* When a submission that is sent on time is on the chain before anybody   *)
(* reads the descriptors.                                                  *)
InTime == MixPublishDeadline + JitterMax + MaxLate + MaxDelay < DescriptorBlockDeadline

(* Once an authority has begun to gather the descriptors of an epoch no    *)
(* descriptor is added for it: although nobody closes the window on the    *)
(* chain, all that read them read the same.                                *)
DescriptorsStable ==
  [][InTime => \A a \in Authorities :
       auth[a].call = "gather" \/ auth[a].votingEpoch \in auth[a].voted
         => chainDescs'[auth[a].votingEpoch] = chainDescs[auth[a].votingEpoch]]_vars

(* When a majority is correct, it agrees on a document for the next epoch  *)
(* in every epoch: the faulty ones cannot split its votes, and those who   *)
(* have the previous document and those who fell back to bootstrap make    *)
(* the same one.                                                           *)
CorrectDecide ==
  InTime /\ Quorum(Correct) /\ Cardinality(Correct) >= MinDescriptors
    /\ elapsed >= PublishConsensusDeadline
      => /\ consensus[epoch + 1] # NoDocument
         /\ Correct \subseteq consensus[epoch + 1].descs

(* The genesis epoch of the network lasts: a consensus that follows one of *)
(* the epoch before it carries on its genesis epoch.                       *)
GenesisKept ==
  InTime /\ Quorum(Correct) =>
    \A e \in Epochs \ {0} :
      consensus[e] # NoDocument /\ consensus[e - 1] # NoDocument
        => consensus[e].genesis = consensus[e - 1].genesis

(* A correct authority that missed the one fetch after its vote (aux.go:97) *)
(* holds the document of an epoch once it had the time to bootstrap in it.  *)
CorrectLearn ==
  \A a \in Correct :
    InTime /\ auth[a].fsm # "down" /\ consensus[epoch] # NoDocument /\ elapsed > MaxLate
      => auth[a].documents[epoch] = consensus[epoch]
=============================================================================
