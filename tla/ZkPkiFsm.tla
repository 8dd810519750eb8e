------------------------------ MODULE ZkPkiFsm ------------------------------
(***************************************************************************)
(* The voting schedule of one directory authority: the finite state        *)
(* machine of pki/server/aux.go, the worker that runs it, the background   *)
(* goroutines that fetch consensus documents from the appchain, the        *)
(* tables they share with the request handlers, and crashes.               *)
(*                                                                         *)
(* Time is counted in ticks.  epochtime.Now() is the pair epoch, elapsed.  *)
(* The timer of the worker, and the budget of a chain call made under the  *)
(* state lock, count down together with the clock.                         *)
(***************************************************************************)
EXTENDS EpochSchedule

CONSTANTS
  MaxDelay,       \* a chain command made by the worker takes at most this long
  MaxLate,        \* the worker runs at most this long after its timer fires
  MinEpoch,       \* the epoch the history starts in
  MaxEpoch,       \* the clock stops at the end of this epoch (bound)
  UploadEpochs,   \* the epochs the local mix node uploads a descriptor for
  SettleEpochs,   \* the epochs the appchain may settle a document for
  Requested       \* the epochs clients ask the consensus of

(* epoch - 3 does not wrap around. *)
ASSUME DelayAssumption == MaxDelay \in Nat /\ MaxLate \in Nat
ASSUME EpochAssumption ==
  MinEpoch \in Nat /\ MinEpoch >= 3 /\ MaxEpoch \in Nat /\ MinEpoch <= MaxEpoch
ASSUME InputAssumption ==
  UploadEpochs \subseteq Nat /\ SettleEpochs \subseteq Nat /\ Requested \subseteq Nat

(* A document is its genesis epoch; NoDoc is a missing map entry. *)
NoDoc == 0
Epochs == 0 .. MaxEpoch + 2
PreserveForPastEpochs == 3

VARIABLES
  epoch, elapsed,   \* the clock
  fsm,              \* the state of the machine, or "down"
  votingEpoch, genesisEpoch,
  timer,            \* sleeping: ticks to the wakeup; in a call: ticks it may take
  call,             \* the chain call the worker makes holding the lock, or "none"
  readElapsed,      \* the elapsed time fsm() read before that call
  documents,        \* s.documents
  descriptors,      \* the epochs s.descriptors has the own node's descriptor for
  fetching,         \* how many fetch goroutines are in flight for each epoch
  chain,            \* the documents the appchain settled on
  voted,            \* the epochs a vote was sent for, over all restarts
  gone              \* the epochs a client was told will never get a document

clock == <<epoch, elapsed>>
world == <<chain, voted, gone>>
vars == <<clock, fsm, votingEpoch, genesisEpoch, timer, call, readElapsed,
          documents, descriptors, fetching, world>>

Phases == {"bootstrap", "descriptor_send", "accept_desc", "accept_vote",
           "confirm_consensus"}

TypeOK ==
  /\ epoch \in MinEpoch .. MaxEpoch
  /\ elapsed \in 0 .. Period - 1
  /\ fsm \in Phases \cup {"down"}
  /\ votingEpoch \in Epochs
  /\ genesisEpoch \in Nat
  /\ timer \in Int
  /\ call \in {"none", "submit", "gather", "vote"}
  /\ readElapsed \in 0 .. Period - 1
  /\ documents \in [Epochs -> Nat]
  /\ descriptors \subseteq Nat
  /\ fetching \in [Epochs -> Nat]
  /\ chain \in [Epochs -> Nat]
  /\ voted \subseteq Epochs
  /\ gone \subseteq Nat

(* The authority is not running yet and the chain may already hold the     *)
(* consensus of the current epoch.                                         *)
Init ==
  /\ epoch = MinEpoch /\ elapsed = 0
  /\ fsm = "down" /\ votingEpoch = 0 /\ genesisEpoch = 0
  /\ timer = 0 /\ call = "none" /\ readElapsed = 0
  /\ documents = [e \in Epochs |-> NoDoc]
  /\ descriptors = {}
  /\ fetching = [e \in Epochs |-> 0]
  /\ \E g \in {NoDoc} \cup ({MinEpoch} \cap SettleEpochs) :
       chain = [e \in Epochs |-> IF e = MinEpoch THEN g ELSE NoDoc]
  /\ voted = {} /\ gone = {}

-----------------------------------------------------------------------------
(* The clock.  A tick may not skip the wakeup by more than MaxLate, nor    *)
(* let a chain call outlive its budget.                                    *)

Overdue ==
  /\ fsm # "down"
  /\ timer <= IF call = "none" THEN -MaxLate ELSE 0

Tick ==
  /\ ~Overdue
  /\ \/ elapsed + 1 < Period /\ elapsed' = elapsed + 1 /\ epoch' = epoch
     \/ elapsed + 1 = Period /\ epoch < MaxEpoch /\ elapsed' = 0 /\ epoch' = epoch + 1
  /\ timer' = IF fsm = "down" THEN 0 ELSE timer - 1
  /\ UNCHANGED <<fsm, votingEpoch, genesisEpoch, call, readElapsed, documents,
                 descriptors, fetching, world>>

-----------------------------------------------------------------------------
(* The machine.  fsm() holds the write lock from its first line to its     *)
(* last, chain calls included.                                             *)

Awake(phase) == fsm = phase /\ call = "none" /\ timer <= 0

(* time.After fires at once when the duration is not positive. *)
Sleep(ticks) == timer' = IF ticks < 0 THEN 0 ELSE ticks

(* Mutant: the pruning window ends with the current epoch. *)
ExpiredToday(e) == e <= epoch

Expired(e) == e + PreserveForPastEpochs < epoch

(* What is left of the tables after the pruning that ends every run. *)
PruneDocuments ==
  /\ documents' = [e \in Epochs |-> IF Expired(e) THEN NoDoc ELSE documents[e]]
  /\ descriptors' = {e \in descriptors : ~Expired(e)}

(* One goroutine for each epoch of the set without a local document. *)
BackgroundFetchConsensus(wanted) ==
  fetching' = [e \in Epochs |->
                 IF e \in wanted /\ documents[e] = NoDoc THEN fetching[e] + 1 ELSE fetching[e]]

(* Mutant: too late for this round, the machine sleeps a whole period. *)
BootstrapOversleeps ==
  /\ Awake("bootstrap")
  /\ genesisEpoch' = 0
  /\ BackgroundFetchConsensus({epoch - 1, epoch})
  /\ \/ /\ elapsed > MixPublishDeadline
        /\ Sleep(Period) /\ votingEpoch' = epoch + 2
        /\ UNCHANGED fsm
     \/ /\ elapsed <= MixPublishDeadline
        /\ \E j \in Jitter : Sleep(MixPublishDeadline - elapsed + j)
        /\ votingEpoch' = epoch + 1 /\ fsm' = "descriptor_send"
  /\ PruneDocuments
  /\ UNCHANGED <<clock, call, readElapsed, world>>

(* Mutant: a bootstrap is never too late. *)
BootstrapAnytime ==
  /\ Awake("bootstrap")
  /\ genesisEpoch' = 0
  /\ BackgroundFetchConsensus({epoch - 1, epoch})
  /\ \E j \in Jitter : Sleep(MixPublishDeadline - elapsed + j)
  /\ votingEpoch' = epoch + 1 /\ fsm' = "descriptor_send"
  /\ PruneDocuments
  /\ UNCHANGED <<clock, call, readElapsed, world>>

Bootstrap ==
  /\ Awake("bootstrap")
  /\ genesisEpoch' = 0
  /\ BackgroundFetchConsensus({epoch - 1, epoch})
  /\ \/ /\ elapsed > MixPublishDeadline
        /\ Sleep(Period - elapsed)
        /\ votingEpoch' = epoch + 2
        /\ UNCHANGED fsm
     \/ /\ elapsed <= MixPublishDeadline
        /\ \E j \in Jitter : Sleep(MixPublishDeadline - elapsed + j)
        /\ votingEpoch' = epoch + 1
        /\ fsm' = "descriptor_send"
  /\ PruneDocuments
  /\ UNCHANGED <<clock, call, readElapsed, world>>

(* Mutant: descriptors are collected from the mix publish deadline on. *)
AcceptDescriptorsEarly(readAt) ==
  /\ fsm' = "accept_desc"
  /\ call' = "none" /\ readElapsed' = 0
  /\ \E j \in Jitter : Sleep(MixPublishDeadline - readAt + j)
  /\ PruneDocuments
  /\ UNCHANGED <<clock, votingEpoch, genesisEpoch, fetching, world>>

(* The sleep counts from the end of the call, its length from the elapsed  *)
(* time read before the call.                                              *)
AcceptDescriptorsFrom(readAt) ==
  /\ fsm' = "accept_desc"
  /\ call' = "none" /\ readElapsed' = 0
  /\ \E j \in Jitter : Sleep(DescriptorBlockDeadline - readAt + j)
  /\ PruneDocuments
  /\ UNCHANGED <<clock, votingEpoch, genesisEpoch, fetching, world>>

SubmitDescriptor ==
  /\ Awake("descriptor_send")
  /\ votingEpoch \in descriptors
  /\ call' = "submit" /\ timer' = MaxDelay /\ readElapsed' = elapsed
  /\ UNCHANGED <<clock, fsm, votingEpoch, genesisEpoch, documents, descriptors,
                 fetching, world>>

(* The outcome is only logged: a failure takes the same path. *)
SubmitReturns ==
  /\ call = "submit"
  /\ AcceptDescriptorsFrom(readElapsed)

NoDescriptorToSubmit ==
  /\ Awake("descriptor_send")
  /\ votingEpoch \notin descriptors
  /\ AcceptDescriptorsFrom(elapsed)

GetVote ==
  /\ Awake("accept_desc")
  /\ genesisEpoch' = IF documents[votingEpoch - 1] # NoDoc
                       THEN documents[votingEpoch - 1] ELSE votingEpoch
  /\ call' = "gather" /\ timer' = MaxDelay
  /\ UNCHANGED <<clock, fsm, votingEpoch, readElapsed, documents, descriptors,
                 fetching, world>>

SendVote ==
  /\ call = "gather"
  /\ call' = "vote" /\ timer' = MaxDelay
  /\ voted' = voted \cup {votingEpoch}
  /\ UNCHANGED <<clock, fsm, votingEpoch, genesisEpoch, readElapsed, documents,
                 descriptors, fetching, chain, gone>>

AcceptVotes ==
  /\ fsm' = "accept_vote"
  /\ call' = "none"
  /\ Sleep(AuthorityVoteDeadline - elapsed)
  /\ PruneDocuments
  /\ UNCHANGED <<clock, votingEpoch, genesisEpoch, readElapsed, fetching, world>>

(* No descriptors from the chain, or a document that is not well formed. *)
GetVoteFails == call = "gather" /\ AcceptVotes

(* An error, or a refusal by the chain, is not told from success. *)
VoteReturns == call = "vote" /\ AcceptVotes

FetchConsensus ==
  /\ Awake("accept_vote")
  /\ BackgroundFetchConsensus({votingEpoch})
  /\ fsm' = "confirm_consensus"
  /\ Sleep(PublishConsensusDeadline - elapsed)
  /\ PruneDocuments
  /\ UNCHANGED <<clock, votingEpoch, genesisEpoch, call, readElapsed, world>>

(* Mutant: the sleep to the next cycle leaves out the rest of the epoch. *)
ConfirmTooSoon ==
  /\ Awake("confirm_consensus")
  /\ documents[epoch + 1] # NoDoc
  /\ fsm' = "descriptor_send"
  /\ \E j \in Jitter : Sleep(MixPublishDeadline + j)
  /\ votingEpoch' = votingEpoch + 1
  /\ PruneDocuments
  /\ UNCHANGED <<clock, genesisEpoch, call, readElapsed, fetching, world>>

ConfirmConsensus ==
  /\ Awake("confirm_consensus")
  /\ documents[epoch + 1] # NoDoc
  /\ fsm' = "descriptor_send"
  /\ \E j \in Jitter : Sleep(MixPublishDeadline + (Period - elapsed) + j)
  /\ votingEpoch' = votingEpoch + 1
  /\ PruneDocuments
  /\ UNCHANGED <<clock, genesisEpoch, call, readElapsed, fetching, world>>

MissConsensus ==
  /\ Awake("confirm_consensus")
  /\ documents[epoch + 1] = NoDoc
  /\ fsm' = "bootstrap"
  /\ votingEpoch' = epoch + 2
  /\ Sleep(Period - elapsed)
  /\ PruneDocuments
  /\ UNCHANGED <<clock, genesisEpoch, call, readElapsed, fetching, world>>

-----------------------------------------------------------------------------
(* What runs beside the machine. *)

Unlocked == fsm # "down" /\ call = "none"

(* Mutant: a fetch may end that was never started. *)
FetchEndsUnstarted(e) == fetching' = [fetching EXCEPT ![e] = @ - 1]

FetchEnds(e) == fetching[e] > 0 /\ fetching' = [fetching EXCEPT ![e] = @ - 1]

(* A fetch that got a document needs the lock to store it. *)
FetchReturns(e) ==
  /\ Unlocked
  /\ chain[e] # NoDoc
  /\ FetchEnds(e)
  /\ documents' = IF documents[e] = NoDoc THEN [documents EXCEPT ![e] = chain[e]]
                                          ELSE documents
  /\ UNCHANGED <<clock, fsm, votingEpoch, genesisEpoch, timer, call, readElapsed,
                 descriptors, world>>

FetchFails(e) ==
  /\ FetchEnds(e)
  /\ UNCHANGED <<clock, fsm, votingEpoch, genesisEpoch, timer, call, readElapsed,
                 documents, descriptors, world>>

(* A descriptor for an epoch around the current one, new and not late. *)
DescriptorUpload(e) ==
  /\ Unlocked
  /\ e \in epoch - 1 .. epoch + 1
  /\ e \notin descriptors /\ documents[e] = NoDoc
  /\ descriptors' = descriptors \cup {e}
  /\ UNCHANGED <<clock, fsm, votingEpoch, genesisEpoch, timer, call, readElapsed,
                 documents, fetching, world>>

(* documentForEpoch answers errGone. *)
NeverWillBe(e) ==
  /\ documents[e] = NoDoc
  /\ e <= epoch \/ (e = epoch + 1 /\ elapsed > DocGenerationDeadline)

AnswerGone(e) ==
  /\ Unlocked
  /\ e \in Epochs /\ NeverWillBe(e)
  /\ gone' = gone \cup {e}
  /\ UNCHANGED <<clock, fsm, votingEpoch, genesisEpoch, timer, call, readElapsed,
                 documents, descriptors, fetching, chain, voted>>

(* The process dies; the documents and descriptors it held are not read    *)
(* back when it starts again.                                              *)
Crash ==
  /\ fsm # "down"
  /\ fsm' = "down" /\ votingEpoch' = 0 /\ genesisEpoch' = 0
  /\ timer' = 0 /\ call' = "none" /\ readElapsed' = 0
  /\ documents' = [e \in Epochs |-> NoDoc]
  /\ descriptors' = {}
  /\ fetching' = [e \in Epochs |-> 0]
  /\ UNCHANGED <<clock, world>>

Start ==
  /\ fsm = "down"
  /\ fsm' = "bootstrap"
  /\ UNCHANGED <<clock, votingEpoch, genesisEpoch, timer, call, readElapsed,
                 documents, descriptors, fetching, world>>

(* The authorities' votes settle the document of an epoch, in the epoch    *)
(* before it or late.  It continues the previous document's genesis epoch  *)
(* or starts anew.                                                         *)
ChainSettles(e) ==
  /\ e \in Epochs \ {0} /\ chain[e] = NoDoc
  /\ e <= epoch \/ (e = epoch + 1 /\ elapsed >= DescriptorBlockDeadline)
  /\ \E g \in {e, chain[e - 1]} \ {NoDoc} : chain' = [chain EXCEPT ![e] = g]
  /\ UNCHANGED <<clock, fsm, votingEpoch, genesisEpoch, timer, call, readElapsed,
                 documents, descriptors, fetching, voted, gone>>

-----------------------------------------------------------------------------
Machine ==
  \/ Bootstrap
  \/ SubmitDescriptor \/ SubmitReturns \/ NoDescriptorToSubmit
  \/ GetVote \/ SendVote \/ GetVoteFails \/ VoteReturns
  \/ FetchConsensus
  \/ ConfirmConsensus \/ MissConsensus

Next ==
  \/ Tick
  \/ Machine
  \/ \E e \in Epochs : FetchReturns(e) \/ FetchFails(e)
  \/ \E e \in SettleEpochs : ChainSettles(e)
  \/ \E e \in UploadEpochs : DescriptorUpload(e)
  \/ \E e \in Requested : AnswerGone(e)
  \/ Crash
  \/ Start

(* The clock does not stop and the scheduler runs the worker.  Nothing     *)
(* forces a fetch to return, the chain to settle, or a client to ask.      *)
Fairness == WF_vars(Tick) /\ WF_vars(Machine)

Spec == Init /\ [][Next]_vars
FairSpec == Spec /\ Fairness

-----------------------------------------------------------------------------
(* The latest the machine wakes in each phase of an epoch, and the         *)
(* condition under which a whole cycle fits in the epoch.                  *)
LatestSubmit == MixPublishDeadline + JitterMax + MaxLate
LatestGather == DescriptorBlockDeadline + JitterMax + MaxDelay + MaxLate
LatestGatherWake ==
  IF LatestSubmit + MaxDelay + MaxLate > LatestGather
    THEN LatestSubmit + MaxDelay + MaxLate ELSE LatestGather
LatestFetch == LatestGatherWake + MaxDelay + MaxDelay + MaxLate
LatestConfirm ==
  IF LatestFetch > PublishConsensusDeadline THEN LatestFetch + MaxLate
                                            ELSE PublishConsensusDeadline + MaxLate
Punctual == LatestConfirm < Period

(* A phase of the voting cycle is under way, rather than awaited. *)
Voting ==
  \/ fsm = "descriptor_send" /\ (call # "none" \/ timer <= 0)
  \/ fsm \in {"accept_desc", "accept_vote", "confirm_consensus"}

(* An authority is always voting on the epoch that follows the current     *)
(* one: fsm() never acts on an epoch another cycle already passed, though  *)
(* votingEpoch is only ever incremented (aux.go:108) and confirm looks up  *)
(* epoch+1 instead (aux.go:104).                                           *)
VotingInSync == Punctual /\ Voting => votingEpoch = epoch + 1

(* A vote is not cast before the descriptor block deadline of the epoch    *)
(* before the one voted on, whatever the delays and restarts: every mix    *)
(* had the whole window to get its descriptor on the chain.                *)
VotesNotEarly ==
  \A v \in voted : v <= epoch \/ (v = epoch + 1 /\ elapsed >= DescriptorBlockDeadline)

(* An authority sends at most one document for an epoch, over any delays,  *)
(* crashes and restarts, although nothing it voted survives a restart.     *)
AtMostOneVotePerEpoch ==
  [][call # "vote" /\ call' = "vote" => votingEpoch \notin voted]_vars

(* An authority that did not fall back to bootstrap since its last vote    *)
(* carries on the genesis epoch of the document the chain settled on: that *)
(* document is neither missing nor pruned when the next vote is made       *)
(* (state.go:292).                                                         *)
GenesisContinuity ==
  [][Punctual /\ call # "gather" /\ call' = "gather" /\ genesisEpoch # 0
       => chain[votingEpoch - 1] # NoDoc /\ genesisEpoch' = chain[votingEpoch - 1]]_vars

(* A bootstrapping authority gets to make a vote, unless it crashes: being *)
(* too late for one round (aux.go:58) does not make it late for the next.  *)
BootstrapLeadsToVote ==
  (fsm = "bootstrap" /\ epoch < MaxEpoch) ~> (call = "gather" \/ fsm = "down")

(* errGone is final (state.go:71, state.go:1829): an epoch a client was    *)
(* told will never get a document has none.                                *)
GoneIsForever == \A e \in gone : documents[e] = NoDoc
=============================================================================
