--------------------------- MODULE ZkPkiFsmProofs ---------------------------
(***************************************************************************)
(* Proofs about ZkPkiFsm, for every period, delay and number of epochs.    *)
(*                                                                         *)
(* The properties of the votes hold whatever the delays: SlowInv is their  *)
(* inductive invariant.  Staying in step with the clock, and carrying on   *)
(* the genesis epoch of the chain, need a cycle to fit in an epoch         *)
(* (Punctual): FastInv, in the second part, adds Cycle, which bounds the   *)
(* end of every phase so that none crosses the end of its epoch.           *)
(***************************************************************************)
EXTENDS ZkPkiFsm, TLAPS

(* The machine never votes ahead of the epoch after the current one, and   *)
(* what it waits for ends late enough: SubmitDescriptor after the epoch    *)
(* before votingEpoch began, GetVote after its descriptor block deadline.  *)
NotAhead ==
  /\ fsm = "descriptor_send" /\ call = "none" =>
       \/ votingEpoch <= epoch + 1
       \/ votingEpoch = epoch + 2 /\ timer >= Period - elapsed
  /\ call = "submit" =>
       votingEpoch <= epoch \/ (votingEpoch = epoch + 1 /\ readElapsed <= elapsed)
  /\ fsm = "accept_desc" /\ call = "none" =>
       \/ votingEpoch <= epoch
       \/ votingEpoch = epoch + 1 /\ timer >= DescriptorBlockDeadline - elapsed
  /\ call \in {"gather", "vote"} =>
       \/ votingEpoch <= epoch
       \/ votingEpoch = epoch + 1 /\ elapsed >= DescriptorBlockDeadline
  /\ fsm \in {"accept_vote", "confirm_consensus"} => votingEpoch <= epoch + 1
  /\ fsm \in Phases \ {"bootstrap"} => votingEpoch >= 1

(* Which chain calls belong to which phase. *)
CallInPhase ==
  /\ call = "submit" => fsm = "descriptor_send"
  /\ call \in {"gather", "vote"} => fsm = "accept_desc"

(* A vote for votingEpoch is in voted exactly once the cycle has sent it,  *)
(* and none is for a later epoch.                                          *)
BeforeVote == fsm \in {"descriptor_send", "accept_desc"} /\ call # "vote"
AfterVote == call = "vote" \/ fsm \in {"accept_vote", "confirm_consensus"}
VotedUpTo ==
  /\ BeforeVote => \A v \in voted : v < votingEpoch
  /\ AfterVote => \A v \in voted : v <= votingEpoch

SlowInv == TypeOK /\ CallInPhase /\ NotAhead /\ VotedUpTo /\ VotesNotEarly

-----------------------------------------------------------------------------
(* What the proofs use of the schedule: the order of its deadlines.        *)
LEMMA Schedule ==
  /\ MixPublishDeadline \in Nat /\ DescriptorBlockDeadline \in Nat
  /\ AuthorityVoteDeadline \in Nat /\ PublishConsensusDeadline \in Nat
  /\ MixPublishDeadline < DescriptorBlockDeadline
  /\ DescriptorBlockDeadline < Period
  /\ AuthorityVoteDeadline < Period /\ PublishConsensusDeadline < Period
BY PeriodAssumption
   DEF MixPublishDeadline, DescriptorBlockDeadline, AuthorityVoteDeadline,
       AuthorityRevealDeadline, AuthorityCertDeadline, PublishConsensusDeadline

(* The random part of a sleep is at most a sixteenth of an epoch.          *)
LEMMA JitterInNat == \A j \in Jitter : j \in Nat /\ j <= JitterMax
BY PeriodAssumption DEF Jitter, JitterMax

(* Pruning keeps the types of the tables it prunes.                        *)
LEMMA PruneType ==
  ASSUME TypeOK, PruneDocuments
  PROVE  documents' \in [Epochs -> Nat] /\ descriptors' \subseteq Nat
BY DEF TypeOK, PruneDocuments, NoDoc

(* Starting a fetch keeps the count of the fetches a number.               *)
LEMMA FetchType ==
  ASSUME TypeOK, NEW wanted, BackgroundFetchConsensus(wanted)
  PROVE  fetching' \in [Epochs -> Nat]
BY DEF TypeOK, BackgroundFetchConsensus

(* A sleep, with or without jitter, leaves an integer in the timer.        *)
LEMMA SleepType ==
  ASSUME NEW ticks \in Int, Sleep(ticks)
  PROVE  timer' \in Int /\ timer' >= 0 /\ timer' >= ticks
BY DEF Sleep

(* The invariant holds before the first start of the authority.            *)
LEMMA SlowInvInit == Init => SlowInv
BY PeriodAssumption, EpochAssumption
   DEF Init, SlowInv, TypeOK, CallInPhase, NotAhead, VotedUpTo, BeforeVote,
       AfterVote, VotesNotEarly, Epochs, NoDoc, Phases

-----------------------------------------------------------------------------
(* Every step keeps the types.                                             *)
LEMMA TypeStep ==
  ASSUME SlowInv, [Next]_vars
  PROVE  TypeOK'
<1>0. TypeOK /\ NotAhead /\ CallInPhase BY DEF SlowInv
<1> USE Schedule, JitterInNat, PeriodAssumption, DelayAssumption, EpochAssumption,
        InputAssumption
<1>n. NoDoc \in Nat BY DEF NoDoc
<1>e. Epochs \subseteq Nat /\ MinEpoch .. MaxEpoch + 2 \subseteq Epochs
  BY DEF Epochs
<1>1. CASE Tick
  BY <1>0, <1>1 DEF Tick, TypeOK, world
<1>2. CASE Bootstrap
  <2>1. documents' \in [Epochs -> Nat] /\ descriptors' \subseteq Nat
    BY <1>0, <1>2, PruneType DEF Bootstrap
  <2>2. fetching' \in [Epochs -> Nat]
    BY <1>0, <1>2, FetchType DEF Bootstrap
  <2>3. timer' \in Int
    BY <1>0, <1>2 DEF Bootstrap, TypeOK, Sleep
  <2>4. votingEpoch' \in Epochs /\ fsm' \in Phases \cup {"down"}
    BY <1>0, <1>2, <1>e DEF Bootstrap, TypeOK, Epochs, Phases
  <2> QED
    BY <1>0, <1>2, <2>1, <2>2, <2>3, <2>4 DEF Bootstrap, TypeOK, clock, world
<1>3. CASE SubmitDescriptor
  BY <1>0, <1>3 DEF SubmitDescriptor, TypeOK, clock, world
<1>4. ASSUME NEW readAt \in 0 .. Period - 1, AcceptDescriptorsFrom(readAt)
      PROVE  TypeOK'
  <2>1. documents' \in [Epochs -> Nat] /\ descriptors' \subseteq Nat
    BY <1>0, <1>4, PruneType DEF AcceptDescriptorsFrom
  <2>2. timer' \in Int
    BY <1>0, <1>4 DEF AcceptDescriptorsFrom, TypeOK, Sleep
  <2> QED
    BY <1>0, <1>4, <2>1, <2>2 DEF AcceptDescriptorsFrom, TypeOK, Phases, clock, world
<1>5. CASE SubmitReturns
  BY <1>0, <1>4, <1>5 DEF SubmitReturns, TypeOK
<1>6. CASE NoDescriptorToSubmit
  BY <1>0, <1>4, <1>6 DEF NoDescriptorToSubmit, TypeOK
<1>7. CASE GetVote
  <2>1. votingEpoch - 1 \in Epochs
    BY <1>0, <1>7 DEF GetVote, Awake, NotAhead, TypeOK, Epochs, Phases
  <2>2. genesisEpoch' \in Nat
    BY <1>0, <1>7, <1>e, <2>1 DEF GetVote, TypeOK
  <2> QED
    BY <1>0, <1>7, <2>2 DEF GetVote, TypeOK, clock, world
<1>8. CASE SendVote
  BY <1>0, <1>8 DEF SendVote, TypeOK, clock
<1>9. CASE AcceptVotes
  <2>1. documents' \in [Epochs -> Nat] /\ descriptors' \subseteq Nat
    BY <1>0, <1>9, PruneType DEF AcceptVotes
  <2>2. timer' \in Int
    BY <1>0, <1>9 DEF AcceptVotes, TypeOK, Sleep
  <2> QED
    BY <1>0, <1>9, <2>1, <2>2 DEF AcceptVotes, TypeOK, Phases, clock, world
<1>10. CASE FetchConsensus
  <2>1. documents' \in [Epochs -> Nat] /\ descriptors' \subseteq Nat
    BY <1>0, <1>10, PruneType DEF FetchConsensus
  <2>2. fetching' \in [Epochs -> Nat]
    BY <1>0, <1>10, FetchType DEF FetchConsensus
  <2>3. timer' \in Int
    BY <1>0, <1>10 DEF FetchConsensus, TypeOK, Sleep
  <2> QED
    BY <1>0, <1>10, <2>1, <2>2, <2>3 DEF FetchConsensus, TypeOK, Phases, clock, world
<1>11. CASE ConfirmConsensus
  <2>1. documents' \in [Epochs -> Nat] /\ descriptors' \subseteq Nat
    BY <1>0, <1>11, PruneType DEF ConfirmConsensus
  <2>2. timer' \in Int
    BY <1>0, <1>11 DEF ConfirmConsensus, TypeOK, Sleep
  <2>3. votingEpoch' \in Epochs
    BY <1>0, <1>11 DEF ConfirmConsensus, Awake, NotAhead, TypeOK, Epochs
  <2> QED
    BY <1>0, <1>11, <2>1, <2>2, <2>3 DEF ConfirmConsensus, TypeOK, Phases, clock, world
<1>12. CASE MissConsensus
  <2>1. documents' \in [Epochs -> Nat] /\ descriptors' \subseteq Nat
    BY <1>0, <1>12, PruneType DEF MissConsensus
  <2>2. timer' \in Int
    BY <1>0, <1>12 DEF MissConsensus, TypeOK, Sleep
  <2>3. votingEpoch' \in Epochs
    BY <1>0, <1>12 DEF MissConsensus, TypeOK, Epochs
  <2> QED
    BY <1>0, <1>12, <2>1, <2>2, <2>3 DEF MissConsensus, TypeOK, Phases, clock, world
<1>13. ASSUME NEW e \in Epochs, FetchReturns(e) PROVE TypeOK'
  BY <1>0, <1>13 DEF FetchReturns, FetchEnds, TypeOK, clock, world
<1>14. ASSUME NEW e \in Epochs, FetchFails(e) PROVE TypeOK'
  BY <1>0, <1>14 DEF FetchFails, FetchEnds, TypeOK, clock, world
<1>15. ASSUME NEW e \in SettleEpochs, ChainSettles(e) PROVE TypeOK'
  <2>1. e \in Epochs /\ e - 1 \in Epochs
    BY <1>0, <1>15 DEF ChainSettles, TypeOK, Epochs
  <2>2. PICK g \in {e, chain[e - 1]} : chain' = [chain EXCEPT ![e] = g]
    BY <1>15 DEF ChainSettles
  <2>3. g \in Nat
    BY <1>0, <1>e, <2>1, <2>2 DEF TypeOK
  <2> QED
    BY <1>0, <1>15, <2>1, <2>2, <2>3 DEF ChainSettles, TypeOK, clock
<1>16. ASSUME NEW e \in UploadEpochs, DescriptorUpload(e) PROVE TypeOK'
  BY <1>0, <1>16 DEF DescriptorUpload, TypeOK, clock, world
<1>17. ASSUME NEW e \in Requested, AnswerGone(e) PROVE TypeOK'
  BY <1>0, <1>17 DEF AnswerGone, TypeOK, clock
<1>18. CASE Crash
  BY <1>0, <1>18, <1>n DEF Crash, TypeOK, Epochs, clock, world
<1>19. CASE Start
  BY <1>0, <1>19 DEF Start, TypeOK, Phases, clock, world
<1>20. CASE UNCHANGED vars
  BY <1>0, <1>20 DEF vars, TypeOK, clock, world
<1> QED
  BY <1>1, <1>2, <1>3, <1>5, <1>6, <1>7, <1>8, <1>9, <1>10, <1>11, <1>12, <1>13,
     <1>14, <1>15, <1>16, <1>17, <1>18, <1>19, <1>20
     DEF Next, Machine, GetVoteFails, VoteReturns

-----------------------------------------------------------------------------
(* What runs beside the machine, and stuttering, leave alone everything    *)
(* the rest of the invariant speaks of.                                    *)
LEMMA BesideMachine ==
  ASSUME SlowInv,
         UNCHANGED <<clock, fsm, votingEpoch, timer, call, readElapsed, voted>>
  PROVE  CallInPhase' /\ NotAhead' /\ VotedUpTo' /\ VotesNotEarly'
BY DEF SlowInv, CallInPhase, NotAhead, VotedUpTo, BeforeVote, AfterVote,
       VotesNotEarly, clock

(* Before the mix deadline of an epoch every vote was for an epoch that    *)
(* has begun: a bootstrap that is not too late starts an untouched epoch.  *)
LEMMA NothingVotedYet ==
  ASSUME TypeOK, VotesNotEarly, elapsed <= MixPublishDeadline
  PROVE  \A v \in voted : v <= epoch
BY Schedule DEF TypeOK, VotesNotEarly, Epochs

(* Every step keeps the machine from getting ahead of the clock, and its   *)
(* votes behind the epoch it votes on.                                     *)
LEMMA SlowInvStep ==
  ASSUME SlowInv, [Next]_vars
  PROVE  SlowInv'
<1>0. TypeOK /\ CallInPhase /\ NotAhead /\ VotedUpTo /\ VotesNotEarly
  BY DEF SlowInv
<1>t. TypeOK' BY TypeStep
<1> SUFFICES CallInPhase' /\ NotAhead' /\ VotedUpTo' /\ VotesNotEarly'
  BY <1>t DEF SlowInv
<1> USE Schedule, PeriodAssumption
<1>1. CASE Tick
  <2>1. CallInPhase'
    BY <1>0, <1>1 DEF Tick, CallInPhase
  <2>2. NotAhead'
    BY <1>0, <1>1 DEF Tick, TypeOK, NotAhead, Epochs, Phases
  <2>3. VotedUpTo'
    BY <1>0, <1>1 DEF Tick, VotedUpTo, BeforeVote, AfterVote, world
  <2>4. VotesNotEarly'
    BY <1>0, <1>1 DEF Tick, TypeOK, VotesNotEarly, Epochs, world
  <2> QED BY <2>1, <2>2, <2>3, <2>4
<1>2. CASE Bootstrap
  <2>1. CallInPhase'
    BY <1>0, <1>2 DEF Bootstrap, Awake, CallInPhase
  <2>a. /\ call' = "none" /\ epoch' = epoch /\ epoch \in Nat
        /\ \/ fsm' = "bootstrap"
           \/ fsm' = "descriptor_send" /\ votingEpoch' = epoch + 1
    BY <1>0, <1>2, EpochAssumption DEF Bootstrap, Awake, TypeOK, clock
  <2>2. NotAhead'
    BY <2>a DEF NotAhead, Phases
  <2>3. VotedUpTo'
    BY <1>0, <1>2, NothingVotedYet
       DEF Bootstrap, Awake, TypeOK, VotedUpTo, BeforeVote, AfterVote, Epochs, world
  <2>4. VotesNotEarly'
    BY <1>0, <1>2 DEF Bootstrap, VotesNotEarly, clock, world
  <2> QED BY <2>1, <2>2, <2>3, <2>4
<1>3. CASE SubmitDescriptor
  <2>1. CallInPhase'
    BY <1>3 DEF SubmitDescriptor, Awake, CallInPhase
  <2>2. NotAhead'
    BY <1>0, <1>3 DEF SubmitDescriptor, Awake, TypeOK, NotAhead, Epochs, Phases, clock
  <2>3. VotedUpTo'
    BY <1>0, <1>3 DEF SubmitDescriptor, Awake, VotedUpTo, BeforeVote, AfterVote, world
  <2>4. VotesNotEarly'
    BY <1>0, <1>3 DEF SubmitDescriptor, VotesNotEarly, clock, world
  <2> QED BY <2>1, <2>2, <2>3, <2>4
(* The descriptor was sent, or skipped, not before votingEpoch - 1 began. *)
<1>4. ASSUME NEW readAt \in 0 .. Period - 1, AcceptDescriptorsFrom(readAt),
             fsm = "descriptor_send", call # "vote",
             votingEpoch <= epoch \/ (votingEpoch = epoch + 1 /\ readAt <= elapsed)
      PROVE  CallInPhase' /\ NotAhead' /\ VotedUpTo' /\ VotesNotEarly'
  <2>1. CallInPhase'
    BY <1>4 DEF AcceptDescriptorsFrom, CallInPhase
  <2>2. PICK j \in Jitter : Sleep(DescriptorBlockDeadline - readAt + j)
    BY <1>4 DEF AcceptDescriptorsFrom
  <2>3. /\ timer' \in Int /\ DescriptorBlockDeadline \in Nat
        /\ timer' >= DescriptorBlockDeadline - readAt
    BY <1>4, <2>2, JitterInNat DEF Sleep
  <2>a. /\ fsm' = "accept_desc" /\ call' = "none"
        /\ epoch' = epoch /\ elapsed' = elapsed /\ votingEpoch' = votingEpoch
    BY <1>4 DEF AcceptDescriptorsFrom, clock
  <2>b. epoch \in Nat /\ elapsed \in Nat /\ votingEpoch >= 1
    BY <1>0, <1>4, EpochAssumption DEF TypeOK, NotAhead, Phases
  <2>c. \/ votingEpoch' <= epoch'
        \/ votingEpoch' = epoch' + 1 /\ timer' >= DescriptorBlockDeadline - elapsed'
    <3>1. CASE votingEpoch <= epoch
      BY <2>a, <3>1
    <3>2. CASE votingEpoch = epoch + 1 /\ readAt <= elapsed
      BY <2>3, <2>a, <2>b, <3>2
    <3> QED BY <1>4, <3>1, <3>2
  <2>4. NotAhead'
    BY <2>a, <2>b, <2>c DEF NotAhead, Phases
  <2>5. VotedUpTo'
    BY <1>0, <1>4 DEF AcceptDescriptorsFrom, VotedUpTo, BeforeVote, AfterVote, world
  <2>6. VotesNotEarly'
    BY <1>0, <1>4 DEF AcceptDescriptorsFrom, VotesNotEarly, clock, world
  <2> QED BY <2>1, <2>4, <2>5, <2>6
<1>5. CASE SubmitReturns
  <2>1. fsm = "descriptor_send" /\ call # "vote"
    BY <1>0, <1>5 DEF SubmitReturns, CallInPhase
  <2>2. votingEpoch <= epoch \/ (votingEpoch = epoch + 1 /\ readElapsed <= elapsed)
    BY <1>0, <1>5 DEF SubmitReturns, NotAhead
  <2> QED BY <1>0, <1>4, <1>5, <2>1, <2>2 DEF SubmitReturns, TypeOK
<1>6. CASE NoDescriptorToSubmit
  <2>1. fsm = "descriptor_send" /\ call # "vote"
    BY <1>6 DEF NoDescriptorToSubmit, Awake
  <2>2. votingEpoch <= epoch \/ votingEpoch = epoch + 1
    BY <1>0, <1>6 DEF NoDescriptorToSubmit, Awake, NotAhead, TypeOK, Epochs
  <2> QED BY <1>0, <1>4, <1>6, <2>1, <2>2 DEF NoDescriptorToSubmit, TypeOK
<1>7. CASE GetVote
  <2>1. CallInPhase'
    BY <1>7 DEF GetVote, Awake, CallInPhase
  <2>2. NotAhead'
    BY <1>0, <1>7 DEF GetVote, Awake, TypeOK, NotAhead, Epochs, Phases, clock
  <2>3. VotedUpTo'
    BY <1>0, <1>7 DEF GetVote, Awake, VotedUpTo, BeforeVote, AfterVote, world
  <2>4. VotesNotEarly'
    BY <1>0, <1>7 DEF GetVote, VotesNotEarly, clock, world
  <2> QED BY <2>1, <2>2, <2>3, <2>4
<1>8. CASE SendVote
  <2>1. CallInPhase'
    BY <1>0, <1>8 DEF SendVote, CallInPhase
  <2>2. NotAhead'
    BY <1>0, <1>8 DEF SendVote, NotAhead, CallInPhase, Phases, clock
  <2>3. VotedUpTo'
    BY <1>0, <1>8
       DEF SendVote, VotedUpTo, BeforeVote, AfterVote, CallInPhase, TypeOK, Epochs
  <2>4. VotesNotEarly'
    BY <1>0, <1>8 DEF SendVote, VotesNotEarly, NotAhead, clock
  <2> QED BY <2>1, <2>2, <2>3, <2>4
<1>9. ASSUME AcceptVotes, call \in {"gather", "vote"}
      PROVE  CallInPhase' /\ NotAhead' /\ VotedUpTo' /\ VotesNotEarly'
  <2>1. CallInPhase'
    BY <1>9 DEF AcceptVotes, CallInPhase
  <2>2. NotAhead'
    BY <1>0, <1>9 DEF AcceptVotes, TypeOK, NotAhead, CallInPhase, Epochs, Phases, clock
  <2>3. VotedUpTo'
    BY <1>0, <1>9
       DEF AcceptVotes, VotedUpTo, BeforeVote, AfterVote, CallInPhase, TypeOK, Epochs, world
  <2>4. VotesNotEarly'
    BY <1>0, <1>9 DEF AcceptVotes, VotesNotEarly, clock, world
  <2> QED BY <2>1, <2>2, <2>3, <2>4
<1>10. CASE FetchConsensus
  <2>1. CallInPhase'
    BY <1>10 DEF FetchConsensus, Awake, CallInPhase
  <2>2. NotAhead'
    BY <1>0, <1>10 DEF FetchConsensus, Awake, NotAhead, Phases, clock
  <2>3. VotedUpTo'
    BY <1>0, <1>10 DEF FetchConsensus, Awake, VotedUpTo, BeforeVote, AfterVote, world
  <2>4. VotesNotEarly'
    BY <1>0, <1>10 DEF FetchConsensus, VotesNotEarly, clock, world
  <2> QED BY <2>1, <2>2, <2>3, <2>4
<1>11. CASE ConfirmConsensus
  <2>1. CallInPhase'
    BY <1>11 DEF ConfirmConsensus, Awake, CallInPhase
  <2>2. timer' >= Period - elapsed
    BY <1>0, <1>11, JitterInNat DEF ConfirmConsensus, Sleep, TypeOK
  <2>3. timer' \in Int /\ Period \in Nat
    BY <1>t DEF TypeOK
  <2>a. /\ fsm' = "descriptor_send" /\ call' = "none"
        /\ epoch' = epoch /\ elapsed' = elapsed /\ votingEpoch' = votingEpoch + 1
    BY <1>11 DEF ConfirmConsensus, Awake, clock
  <2>b. /\ epoch \in Nat /\ elapsed \in Nat /\ votingEpoch \in Nat
        /\ votingEpoch <= epoch + 1
    BY <1>0, <1>11, EpochAssumption
       DEF ConfirmConsensus, Awake, TypeOK, NotAhead, Epochs
  <2>c. \/ votingEpoch' <= epoch' + 1
        \/ votingEpoch' = epoch' + 2 /\ timer' >= Period - elapsed'
    BY <2>2, <2>a, <2>b
  <2>4. NotAhead'
    BY <2>a, <2>b, <2>c DEF NotAhead, Phases
  <2>5. VotedUpTo'
    BY <1>0, <1>11
       DEF ConfirmConsensus, Awake, VotedUpTo, BeforeVote, AfterVote, TypeOK, Epochs, world
  <2>6. VotesNotEarly'
    BY <1>0, <1>11 DEF ConfirmConsensus, VotesNotEarly, clock, world
  <2> QED BY <2>1, <2>4, <2>5, <2>6
<1>12. CASE MissConsensus
  <2>1. CallInPhase' /\ NotAhead'
    BY <1>12 DEF MissConsensus, Awake, CallInPhase, NotAhead, Phases
  <2>2. VotedUpTo'
    BY <1>12 DEF MissConsensus, Awake, VotedUpTo, BeforeVote, AfterVote
  <2>3. VotesNotEarly'
    BY <1>0, <1>12 DEF MissConsensus, VotesNotEarly, clock, world
  <2> QED BY <2>1, <2>2, <2>3
<1>13. CASE \/ \E e \in Epochs : FetchReturns(e) \/ FetchFails(e)
            \/ \E e \in SettleEpochs : ChainSettles(e)
            \/ \E e \in UploadEpochs : DescriptorUpload(e)
            \/ \E e \in Requested : AnswerGone(e)
            \/ UNCHANGED vars
  <2>1. UNCHANGED <<clock, fsm, votingEpoch, timer, call, readElapsed, voted>>
    BY <1>13 DEF FetchReturns, FetchFails, ChainSettles, DescriptorUpload, AnswerGone,
                 vars, clock, world
  <2> QED BY <2>1, BesideMachine
<1>14. CASE Crash \/ Start
  <2>1. CallInPhase' /\ NotAhead'
    BY <1>0, <1>14 DEF Crash, Start, CallInPhase, NotAhead, Phases
  <2>2. VotedUpTo'
    BY <1>0, <1>14 DEF Crash, Start, VotedUpTo, BeforeVote, AfterVote, CallInPhase
  <2>3. VotesNotEarly'
    BY <1>0, <1>14 DEF Crash, Start, VotesNotEarly, clock, world
  <2> QED BY <2>1, <2>2, <2>3
<1> QED
  BY <1>1, <1>2, <1>3, <1>5, <1>6, <1>7, <1>8, <1>9, <1>10, <1>11, <1>12, <1>13, <1>14
     DEF Next, Machine, GetVoteFails, VoteReturns

(* The types, and the earliest time of a vote, hold in every state.        *)
THEOREM SlowInvariant == Spec => []SlowInv
<1>1. Init => SlowInv
  BY SlowInvInit
<1>2. SlowInv /\ [Next]_vars => SlowInv'
  BY SlowInvStep
<1> QED
  BY <1>1, <1>2, PTL DEF Spec

(* Every variable keeps its type.                                          *)
THEOREM TypeCorrect == Spec => []TypeOK
<1>1. SlowInv => TypeOK
  BY DEF SlowInv
<1> QED
  BY <1>1, SlowInvariant, PTL

(* No authority votes before the descriptor block deadline, whatever the   *)
(* delays of the chain and the scheduler, and wherever it crashes.         *)
THEOREM NoEarlyVote == Spec => []VotesNotEarly
<1>1. SlowInv => VotesNotEarly
  BY DEF SlowInv
<1> QED
  BY <1>1, SlowInvariant, PTL

(* No authority votes twice for an epoch, whatever the delays and however  *)
(* often it restarts.                                                      *)
THEOREM NoSecondVote == Spec => AtMostOneVotePerEpoch
<1>1. ASSUME SlowInv, [Next]_vars, call # "vote", call' = "vote"
      PROVE  votingEpoch \notin voted
  <2>1. SendVote
    BY <1>1 DEF Next, Machine, Tick, Bootstrap, SubmitDescriptor, SubmitReturns,
                NoDescriptorToSubmit, AcceptDescriptorsFrom, GetVote, GetVoteFails,
                VoteReturns, AcceptVotes, FetchConsensus, ConfirmConsensus,
                MissConsensus, FetchReturns, FetchFails, ChainSettles,
                DescriptorUpload, AnswerGone, Crash, Start, vars
  <2>2. BeforeVote
    BY <1>1, <2>1 DEF SendVote, BeforeVote, SlowInv, CallInPhase
  <2> QED
    BY <1>1, <2>2 DEF SlowInv, VotedUpTo, TypeOK, Epochs
<1>2. SlowInv /\ [Next]_vars
        => [call # "vote" /\ call' = "vote" => votingEpoch \notin voted]_vars
  BY <1>1
<1> QED
  BY <1>2, SlowInvariant, PTL DEF Spec, AtMostOneVotePerEpoch
-----------------------------------------------------------------------------
(* The second part: a cycle in step with the clock.                        *)

(* The wakeup of an idle machine, or the end of its chain call, is at most *)
(* the given time of the current epoch.                                    *)
EndsBy(time) == timer <= time - elapsed

Cycle ==
  /\ fsm = "descriptor_send" /\ call = "none" =>
       \/ votingEpoch = epoch + 1 /\ EndsBy(LatestSubmit - MaxLate)
       \/ /\ votingEpoch = epoch + 2 /\ timer >= Period - elapsed
          /\ EndsBy(Period + LatestSubmit - MaxLate)
  /\ call = "submit" =>
       /\ votingEpoch = epoch + 1
       /\ readElapsed <= LatestSubmit /\ EndsBy(readElapsed + MaxDelay)
  /\ fsm = "accept_desc" /\ call = "none" =>
       votingEpoch = epoch + 1 /\ EndsBy(LatestGatherWake - MaxLate)
  /\ call = "gather" =>
       votingEpoch = epoch + 1 /\ EndsBy(LatestGatherWake + MaxDelay)
  /\ call = "vote" =>
       votingEpoch = epoch + 1 /\ EndsBy(LatestGatherWake + MaxDelay + MaxDelay)
  /\ fsm = "accept_vote" =>
       votingEpoch = epoch + 1 /\ EndsBy(LatestFetch - MaxLate)
  /\ fsm = "confirm_consensus" =>
       votingEpoch = epoch + 1 /\ EndsBy(LatestConfirm - MaxLate)

(* The machine is never later than the scheduler and the chain allow.      *)
NotOverdue == timer >= IF call = "none" THEN -MaxLate ELSE 0

(* What the authority stores of an epoch is what the chain settled on.     *)
DocumentsFromChain == \A e \in Epochs : documents[e] \in {NoDoc, chain[e]}

(* A machine that confirmed a consensus holds it until its next vote.      *)
KeepsPrevious ==
  fsm \in {"descriptor_send", "accept_desc"} /\ call \in {"none", "submit"}
    /\ genesisEpoch # 0 => documents[votingEpoch - 1] # NoDoc

FastInv == NotOverdue /\ DocumentsFromChain /\ (Punctual => Cycle /\ KeepsPrevious)

-----------------------------------------------------------------------------
(* How the latest times of the phases follow on each other.                *)
LEMMA Bounds ==
  /\ LatestSubmit \in Nat /\ LatestGatherWake \in Nat
  /\ LatestFetch \in Nat /\ LatestConfirm \in Nat
  /\ LatestSubmit = MixPublishDeadline + JitterMax + MaxLate
  /\ LatestSubmit + MaxDelay + MaxLate <= LatestGatherWake
  /\ DescriptorBlockDeadline + JitterMax + MaxDelay + MaxLate <= LatestGatherWake
  /\ LatestFetch = LatestGatherWake + MaxDelay + MaxDelay + MaxLate
  /\ LatestFetch + MaxLate <= LatestConfirm
  /\ PublishConsensusDeadline + MaxLate <= LatestConfirm
  /\ AuthorityVoteDeadline <= DescriptorBlockDeadline
  /\ JitterMax \in Nat
<1>1. Period \in Nat /\ MaxDelay \in Nat /\ MaxLate \in Nat
  BY PeriodAssumption, DelayAssumption
<1>2. JitterMax \in Nat
  BY <1>1 DEF JitterMax
<1>3. AuthorityVoteDeadline <= DescriptorBlockDeadline
  BY <1>1 DEF AuthorityVoteDeadline, DescriptorBlockDeadline, MixPublishDeadline
<1>4. LatestSubmit \in Nat /\ LatestGather \in Nat
  BY <1>1, <1>2, Schedule DEF LatestSubmit, LatestGather
<1>5. /\ LatestGatherWake \in Nat
      /\ LatestSubmit + MaxDelay + MaxLate <= LatestGatherWake
      /\ LatestGather <= LatestGatherWake
  BY <1>1, <1>4 DEF LatestGatherWake
<1>6. LatestFetch \in Nat
  BY <1>1, <1>5 DEF LatestFetch
<1>7. /\ LatestConfirm \in Nat
      /\ LatestFetch + MaxLate <= LatestConfirm
      /\ PublishConsensusDeadline + MaxLate <= LatestConfirm
  BY <1>1, <1>6, Schedule DEF LatestConfirm
<1> QED
  BY <1>2, <1>3, <1>4, <1>5, <1>6, <1>7 DEF LatestSubmit, LatestGather, LatestFetch

(* The invariant holds before the first start of the authority.            *)
LEMMA FastInvInit == Init => FastInv
BY DelayAssumption
   DEF Init, FastInv, NotOverdue, DocumentsFromChain, Cycle, KeepsPrevious

(* The machine sleeps, or waits for a call, with a budget that is not      *)
(* negative.                                                               *)
LEMMA NotOverdueStep ==
  ASSUME TypeOK, NotOverdue, [Next]_vars
  PROVE  NotOverdue'
<1> USE DelayAssumption
<1>1. CASE Tick
  BY <1>1 DEF Tick, Overdue, NotOverdue, TypeOK
<1>2. ASSUME NEW ticks \in Int, Sleep(ticks), call' = "none" PROVE NotOverdue'
  BY <1>2 DEF Sleep, NotOverdue
<1>j. Period \in Int /\ \A j \in Jitter : j \in Int
  BY PeriodAssumption, JitterInNat
<1>e. elapsed \in Int /\ readElapsed \in Int
  BY DEF TypeOK
<1>3. CASE Bootstrap
  BY <1>2, <1>3, <1>j, <1>e, Schedule DEF Bootstrap, Awake
<1>4. CASE SubmitReturns \/ NoDescriptorToSubmit
  BY <1>2, <1>4, <1>j, <1>e, Schedule
     DEF SubmitReturns, NoDescriptorToSubmit, AcceptDescriptorsFrom
<1>5. CASE SubmitDescriptor \/ GetVote \/ SendVote
  BY <1>5 DEF SubmitDescriptor, GetVote, SendVote, NotOverdue
<1>6. CASE GetVoteFails \/ VoteReturns
  BY <1>2, <1>6, <1>e, Schedule DEF GetVoteFails, VoteReturns, AcceptVotes
<1>7. CASE FetchConsensus
  BY <1>2, <1>7, <1>e, Schedule DEF FetchConsensus, Awake
<1>8. CASE ConfirmConsensus
  BY <1>2, <1>8, <1>e, <1>j, Schedule DEF ConfirmConsensus, Awake
<1>9. CASE MissConsensus
  BY <1>2, <1>9, <1>e, <1>j DEF MissConsensus, Awake
<1>10. CASE Crash \/ Start
  BY <1>10 DEF Crash, Start, NotOverdue, TypeOK
<1>11. CASE UNCHANGED <<fsm, timer, call>>
  BY <1>11 DEF NotOverdue
<1> QED
  BY <1>1, <1>3, <1>4, <1>5, <1>6, <1>7, <1>8, <1>9, <1>10, <1>11
     DEF Next, Machine, FetchReturns, FetchFails, ChainSettles, DescriptorUpload,
         AnswerGone, vars

(* The documents held are those of the chain, whose documents never change. *)
LEMMA DocumentsStep ==
  ASSUME TypeOK, DocumentsFromChain, [Next]_vars
  PROVE  DocumentsFromChain'
<1>1. ASSUME UNCHANGED chain,
             documents' = [e \in Epochs |-> IF Expired(e) THEN NoDoc ELSE documents[e]]
      PROVE  DocumentsFromChain'
  BY <1>1 DEF DocumentsFromChain
<1>2. ASSUME UNCHANGED <<chain, documents>> PROVE DocumentsFromChain'
  BY <1>2 DEF DocumentsFromChain
<1>3. ASSUME NEW e \in Epochs, FetchReturns(e) PROVE DocumentsFromChain'
  BY <1>3 DEF FetchReturns, DocumentsFromChain, TypeOK, world
<1>4. ASSUME NEW e \in SettleEpochs, ChainSettles(e) PROVE DocumentsFromChain'
  BY <1>4 DEF ChainSettles, DocumentsFromChain, TypeOK
<1>5. CASE Crash
  BY <1>5 DEF Crash, DocumentsFromChain, world
<1>6. CASE \/ Bootstrap \/ SubmitReturns \/ NoDescriptorToSubmit \/ GetVoteFails
           \/ VoteReturns \/ FetchConsensus \/ ConfirmConsensus \/ MissConsensus
  BY <1>1, <1>6
     DEF Bootstrap, SubmitReturns, NoDescriptorToSubmit, AcceptDescriptorsFrom,
         GetVoteFails, VoteReturns, AcceptVotes, FetchConsensus, ConfirmConsensus,
         MissConsensus, PruneDocuments, world
<1>7. CASE \/ Tick \/ SubmitDescriptor \/ GetVote \/ SendVote \/ Start \/ UNCHANGED vars
           \/ \E e \in Epochs : FetchFails(e)
           \/ \E e \in UploadEpochs : DescriptorUpload(e)
           \/ \E e \in Requested : AnswerGone(e)
  BY <1>2, <1>7
     DEF Tick, SubmitDescriptor, GetVote, SendVote, Start, vars, FetchFails,
         DescriptorUpload, AnswerGone, world
<1> QED
  BY <1>3, <1>4, <1>5, <1>6, <1>7 DEF Next, Machine

-----------------------------------------------------------------------------
(* One step of the machine, or of the clock, keeps the cycle in the epoch. *)
LEMMA CycleStep ==
  ASSUME SlowInv, NotOverdue, Punctual, Cycle, [Next]_vars
  PROVE  Cycle'
<1>0. TypeOK /\ CallInPhase
  BY DEF SlowInv
<1>t. /\ epoch \in Nat /\ elapsed \in Nat /\ elapsed < Period /\ timer \in Int
      /\ votingEpoch \in Nat /\ readElapsed \in Nat
      /\ Period \in Nat /\ MaxDelay \in Nat /\ MaxLate \in Nat
  BY <1>0, PeriodAssumption, DelayAssumption, EpochAssumption DEF TypeOK, Epochs
<1>1. CASE Tick
  <2>1. CASE elapsed + 1 < Period
    <3>1. /\ epoch' = epoch /\ elapsed' = elapsed + 1
          /\ fsm = "down" \/ timer' = timer - 1
          /\ UNCHANGED <<fsm, votingEpoch, call, readElapsed>>
      BY <1>1, <1>t, <2>1 DEF Tick
    <3>2. fsm # "down" => Cycle'
      BY <1>t, <3>1, Bounds DEF Cycle, EndsBy
    <3> QED
      BY <1>0, <3>1, <3>2 DEF Cycle, CallInPhase
  <2>2. CASE elapsed + 1 = Period
    <3>1. /\ epoch' = epoch + 1 /\ elapsed' = 0
          /\ fsm = "down" \/ timer' = timer - 1
          /\ UNCHANGED <<fsm, votingEpoch, call, readElapsed>>
      BY <1>1, <1>t, <2>2 DEF Tick
    <3>2. CASE fsm \in {"down", "bootstrap"}
      BY <1>0, <3>1, <3>2 DEF Cycle, CallInPhase
    (* A tick leaves the timer above its floor, so nothing ends this late. *)
    <3>3. fsm # "down" => timer > IF call = "none" THEN -MaxLate ELSE 0
      BY <1>1, <1>t DEF Tick, Overdue
    <3>4. LatestConfirm < Period
      BY DEF Punctual
    <3>5. CASE fsm = "descriptor_send" /\ call = "none"
      <4>1. votingEpoch = epoch + 2 /\ EndsBy(Period + LatestSubmit - MaxLate)
        BY <1>t, <2>2, <3>3, <3>4, <3>5, Bounds DEF Cycle, EndsBy
      <4>2. votingEpoch' = epoch' + 1 /\ EndsBy(LatestSubmit - MaxLate)'
        BY <1>t, <2>2, <3>1, <3>5, <4>1, Bounds DEF EndsBy
      <4> QED
        BY <3>1, <3>5, <4>2 DEF Cycle
    <3>6. CASE ~(fsm = "descriptor_send" /\ call = "none") /\ fsm \notin {"down", "bootstrap"}
      <4>1. EndsBy(LatestConfirm - MaxLate) \/ (call # "none" /\ EndsBy(LatestConfirm))
        BY <1>0, <1>t, <3>6, Bounds DEF Cycle, EndsBy, CallInPhase, TypeOK, Phases
      <4> QED
        BY <1>t, <2>2, <3>3, <3>4, <3>6, <4>1, Bounds DEF EndsBy
    <3> QED
      BY <3>2, <3>5, <3>6
  <2> QED
    BY <1>1, <2>1, <2>2 DEF Tick
<1>2. CASE Bootstrap
  <2>1. CASE fsm' = "bootstrap"
    BY <1>2, <2>1 DEF Bootstrap, Awake, Cycle
  <2>2. CASE elapsed <= MixPublishDeadline /\ fsm' = "descriptor_send"
    <3>1. /\ votingEpoch' = epoch + 1 /\ call' = "none"
          /\ epoch' = epoch /\ elapsed' = elapsed
      BY <1>2, <1>t, <2>2 DEF Bootstrap, Awake, clock
    <3>2. PICK j \in Jitter : Sleep(MixPublishDeadline - elapsed + j)
      BY <1>2, <1>t, <2>2, Schedule DEF Bootstrap
    <3>3. timer' = MixPublishDeadline - elapsed + j
      BY <1>t, <2>2, <3>2, Schedule, JitterInNat DEF Sleep
    <3>4. EndsBy(LatestSubmit - MaxLate)'
      BY <1>t, <3>1, <3>3, Schedule, Bounds, JitterInNat DEF EndsBy
    <3> QED BY <2>2, <3>1, <3>4 DEF Cycle
  <2> QED BY <1>2, <2>1, <2>2 DEF Bootstrap, Awake
<1>3. ASSUME Awake("descriptor_send")
      PROVE  votingEpoch = epoch + 1 /\ elapsed <= LatestSubmit
  BY <1>3, <1>t, Bounds DEF Awake, Cycle, EndsBy, NotOverdue
<1>4. CASE SubmitDescriptor
  <2>1. /\ fsm' = "descriptor_send" /\ call' = "submit" /\ timer' = MaxDelay
        /\ readElapsed' = elapsed
        /\ UNCHANGED <<epoch, elapsed, votingEpoch>>
    BY <1>4 DEF SubmitDescriptor, Awake, clock
  <2>2. votingEpoch = epoch + 1 /\ elapsed <= LatestSubmit
    BY <1>3, <1>4 DEF SubmitDescriptor
  <2>3. EndsBy(readElapsed + MaxDelay)'
    BY <1>t, <2>1 DEF EndsBy
  <2> QED BY <2>1, <2>2, <2>3 DEF Cycle
<1>5. ASSUME NEW readAt \in Nat, AcceptDescriptorsFrom(readAt),
             votingEpoch = epoch + 1, readAt <= LatestSubmit, elapsed <= readAt + MaxDelay
      PROVE  Cycle'
  <2>1. /\ fsm' = "accept_desc" /\ call' = "none"
        /\ UNCHANGED <<epoch, elapsed, votingEpoch>>
    BY <1>5 DEF AcceptDescriptorsFrom, clock
  <2>2. PICK j \in Jitter : Sleep(DescriptorBlockDeadline - readAt + j)
    BY <1>5 DEF AcceptDescriptorsFrom
  <2>3. timer' = 0 \/ timer' = DescriptorBlockDeadline - readAt + j
    BY <2>2 DEF Sleep
  <2>4. EndsBy(LatestGatherWake - MaxLate)'
    BY <1>5, <1>t, <2>1, <2>3, Bounds, Schedule, JitterInNat DEF EndsBy
  <2> QED BY <1>5, <2>1, <2>4 DEF Cycle
<1>6. CASE SubmitReturns
  <2>1. votingEpoch = epoch + 1 /\ readElapsed <= LatestSubmit
    BY <1>6 DEF SubmitReturns, Cycle
  <2>2. elapsed <= readElapsed + MaxDelay
    BY <1>6, <1>t DEF SubmitReturns, Cycle, EndsBy, NotOverdue
  <2> QED BY <1>5, <1>6, <1>t, <2>1, <2>2 DEF SubmitReturns
<1>7. CASE NoDescriptorToSubmit
  <2>1. votingEpoch = epoch + 1 /\ elapsed <= LatestSubmit
    BY <1>3, <1>7 DEF NoDescriptorToSubmit
  <2>2. elapsed <= elapsed + MaxDelay
    BY <1>t
  <2> QED BY <1>5, <1>7, <1>t, <2>1, <2>2 DEF NoDescriptorToSubmit
<1>8. CASE GetVote
  <2>1. /\ fsm' = "accept_desc" /\ call' = "gather" /\ timer' = MaxDelay
        /\ UNCHANGED <<epoch, elapsed, votingEpoch>>
    BY <1>8 DEF GetVote, Awake, clock
  <2>2. votingEpoch = epoch + 1 /\ elapsed <= LatestGatherWake
    BY <1>8, <1>t, Bounds DEF GetVote, Awake, Cycle, EndsBy, NotOverdue
  <2>3. EndsBy(LatestGatherWake + MaxDelay)'
    BY <1>t, <2>1, <2>2, Bounds DEF EndsBy
  <2> QED BY <2>1, <2>2, <2>3 DEF Cycle
<1>9. CASE SendVote
  <2>1. /\ fsm' = "accept_desc" /\ call' = "vote" /\ timer' = MaxDelay
        /\ UNCHANGED <<epoch, elapsed, votingEpoch>>
    BY <1>0, <1>9 DEF SendVote, CallInPhase, clock
  <2>2. votingEpoch = epoch + 1 /\ elapsed <= LatestGatherWake + MaxDelay
    BY <1>9, <1>t, Bounds DEF SendVote, Cycle, EndsBy, NotOverdue
  <2>3. EndsBy(LatestGatherWake + MaxDelay + MaxDelay)'
    BY <1>t, <2>1, <2>2, Bounds DEF EndsBy
  <2> QED BY <2>1, <2>2, <2>3 DEF Cycle
<1>10. CASE GetVoteFails \/ VoteReturns
  <2>1. /\ fsm' = "accept_vote" /\ call' = "none"
        /\ UNCHANGED <<epoch, elapsed, votingEpoch>>
    BY <1>10 DEF GetVoteFails, VoteReturns, AcceptVotes, clock
  <2>2. votingEpoch = epoch + 1 /\ elapsed <= LatestGatherWake + MaxDelay + MaxDelay
    BY <1>10, <1>t, Bounds DEF GetVoteFails, VoteReturns, Cycle, EndsBy, NotOverdue
  <2>3. timer' = 0 \/ timer' = AuthorityVoteDeadline - elapsed
    BY <1>10 DEF GetVoteFails, VoteReturns, AcceptVotes, Sleep
  <2>4. EndsBy(LatestFetch - MaxLate)'
    BY <1>t, <2>1, <2>2, <2>3, Bounds, Schedule DEF EndsBy
  <2> QED BY <2>1, <2>2, <2>4 DEF Cycle
<1>11. CASE FetchConsensus
  <2>1. /\ fsm' = "confirm_consensus" /\ call' = "none"
        /\ UNCHANGED <<epoch, elapsed, votingEpoch>>
    BY <1>11 DEF FetchConsensus, Awake, clock
  <2>2. votingEpoch = epoch + 1 /\ elapsed <= LatestFetch
    BY <1>11, <1>t, Bounds DEF FetchConsensus, Awake, Cycle, EndsBy, NotOverdue
  <2>3. timer' = 0 \/ timer' = PublishConsensusDeadline - elapsed
    BY <1>11 DEF FetchConsensus, Sleep
  <2>4. EndsBy(LatestConfirm - MaxLate)'
    BY <1>t, <2>1, <2>2, <2>3, Bounds, Schedule DEF EndsBy
  <2> QED BY <2>1, <2>2, <2>4 DEF Cycle
<1>12. CASE ConfirmConsensus
  <2>1. /\ fsm' = "descriptor_send" /\ call' = "none" /\ votingEpoch' = votingEpoch + 1
        /\ UNCHANGED <<epoch, elapsed>>
    BY <1>12 DEF ConfirmConsensus, Awake, clock
  <2>2. votingEpoch = epoch + 1
    BY <1>12 DEF ConfirmConsensus, Awake, Cycle
  <2>3. PICK j \in Jitter : Sleep(MixPublishDeadline + (Period - elapsed) + j)
    BY <1>12 DEF ConfirmConsensus
  <2>4. timer' = MixPublishDeadline + (Period - elapsed) + j
    BY <1>t, <2>3, Schedule, JitterInNat DEF Sleep
  <2>5. timer' >= Period - elapsed' /\ EndsBy(Period + LatestSubmit - MaxLate)'
    BY <1>t, <2>1, <2>4, Bounds, Schedule, JitterInNat DEF EndsBy
  <2>6. votingEpoch' = epoch' + 2
    BY <1>t, <2>1, <2>2
  <2> QED BY <2>1, <2>5, <2>6 DEF Cycle
<1>13. CASE MissConsensus \/ Crash
  BY <1>13 DEF MissConsensus, Awake, Crash, Cycle
<1>14. CASE Start
  BY <1>0, <1>14 DEF Start, Cycle, CallInPhase
<1>15. CASE \/ \E e \in Epochs : FetchReturns(e) \/ FetchFails(e)
            \/ \E e \in SettleEpochs : ChainSettles(e)
            \/ \E e \in UploadEpochs : DescriptorUpload(e)
            \/ \E e \in Requested : AnswerGone(e)
            \/ UNCHANGED vars
  <2>1. UNCHANGED <<epoch, elapsed, fsm, votingEpoch, timer, call, readElapsed>>
    BY <1>15 DEF FetchReturns, FetchFails, ChainSettles, DescriptorUpload, AnswerGone,
                 vars, clock, world
  <2> QED BY <2>1 DEF Cycle, EndsBy
<1> QED
  BY <1>1, <1>2, <1>4, <1>6, <1>7, <1>8, <1>9, <1>10, <1>11, <1>12, <1>13, <1>14, <1>15
     DEF Next, Machine

-----------------------------------------------------------------------------
(* Pruning spares the documents of the current epoch and later ones.       *)
LEMMA PruneSpares ==
  ASSUME TypeOK, PruneDocuments, NEW e \in Epochs, e >= epoch
  PROVE  documents'[e] = documents[e]
BY EpochAssumption DEF PruneDocuments, Expired, PreserveForPastEpochs, TypeOK, Epochs

(* Every step keeps the document of the current epoch of a machine that    *)
(* confirmed it.                                                           *)
LEMMA KeepsPreviousStep ==
  ASSUME SlowInv, NotOverdue, Punctual, Cycle, KeepsPrevious, [Next]_vars
  PROVE  KeepsPrevious'
<1>0. TypeOK /\ CallInPhase
  BY DEF SlowInv
<1>t. /\ epoch \in Nat /\ elapsed \in Nat /\ elapsed < Period /\ timer \in Int
      /\ epoch \in Epochs /\ epoch + 1 \in Epochs
      /\ Period \in Nat /\ MaxLate \in Nat
  BY <1>0, PeriodAssumption, DelayAssumption, EpochAssumption DEF TypeOK, Epochs
<1>1. CASE Bootstrap
  BY <1>1 DEF Bootstrap, KeepsPrevious
<1>2. CASE SubmitReturns \/ NoDescriptorToSubmit
  <2>1. /\ fsm = "descriptor_send" /\ call \in {"none", "submit"}
        /\ PruneDocuments
        /\ UNCHANGED <<votingEpoch, genesisEpoch>>
    BY <1>0, <1>2
       DEF SubmitReturns, NoDescriptorToSubmit, Awake, AcceptDescriptorsFrom, CallInPhase
  <2>2. votingEpoch = epoch + 1
    BY <1>2, <1>t DEF SubmitReturns, NoDescriptorToSubmit, Awake, Cycle
  <2>3. votingEpoch - 1 = epoch
    BY <1>t, <2>2
  <2>4. documents'[votingEpoch - 1] = documents[votingEpoch - 1]
    BY <1>0, <1>t, <2>1, <2>3, PruneSpares
  <2> QED BY <2>1, <2>4 DEF KeepsPrevious
<1>3. CASE ConfirmConsensus
  <2>1. /\ documents[epoch + 1] # NoDoc /\ PruneDocuments
        /\ votingEpoch' = votingEpoch + 1
    BY <1>3 DEF ConfirmConsensus
  <2>2. votingEpoch = epoch + 1
    BY <1>3 DEF ConfirmConsensus, Awake, Cycle
  <2>3. votingEpoch' - 1 = epoch + 1
    BY <1>t, <2>1, <2>2
  <2>4. documents'[epoch + 1] = documents[epoch + 1]
    BY <1>0, <1>t, <2>1, PruneSpares
  <2> QED BY <2>1, <2>3, <2>4 DEF KeepsPrevious
<1>4. CASE \E e \in Epochs : FetchReturns(e)
  <2>1. PICK e \in Epochs : FetchReturns(e)
    BY <1>4
  <2>2. \A d \in Epochs : documents[d] # NoDoc => documents'[d] # NoDoc
    BY <1>0, <2>1 DEF FetchReturns, TypeOK
  <2>3. fsm \in {"descriptor_send", "accept_desc"} => votingEpoch - 1 \in Epochs
    BY <1>0, EpochAssumption DEF SlowInv, NotAhead, TypeOK, Epochs, Phases
  <2> QED
    BY <2>1, <2>2, <2>3 DEF FetchReturns, KeepsPrevious
<1>5. CASE \/ GetVote \/ SendVote \/ GetVoteFails \/ VoteReturns \/ FetchConsensus
           \/ MissConsensus \/ Crash \/ Start
  BY <1>0, <1>5
     DEF GetVote, SendVote, GetVoteFails, VoteReturns, AcceptVotes, FetchConsensus,
         MissConsensus, Crash, Start, KeepsPrevious
<1>6. CASE SubmitDescriptor
  BY <1>6 DEF SubmitDescriptor, Awake, KeepsPrevious
<1>7. CASE \/ Tick \/ UNCHANGED vars
           \/ \E e \in Epochs : FetchFails(e)
           \/ \E e \in SettleEpochs : ChainSettles(e)
           \/ \E e \in UploadEpochs : DescriptorUpload(e)
           \/ \E e \in Requested : AnswerGone(e)
  BY <1>7 DEF Tick, vars, FetchFails, ChainSettles, DescriptorUpload, AnswerGone,
              KeepsPrevious
<1> QED
  BY <1>1, <1>2, <1>3, <1>4, <1>5, <1>6, <1>7 DEF Next, Machine

(* Both invariants together: the fast one rests on the types and phases    *)
(* of the slow one.                                                        *)
THEOREM FastInvariant == Spec => [](SlowInv /\ FastInv)
<1>1. Init => FastInv
  BY FastInvInit
<1>2. SlowInv /\ FastInv /\ [Next]_vars => FastInv'
  <2> SUFFICES ASSUME SlowInv, FastInv, [Next]_vars PROVE FastInv'
    OBVIOUS
  <2>1. NotOverdue' /\ DocumentsFromChain'
    BY NotOverdueStep, DocumentsStep DEF SlowInv, FastInv
  <2>2. Punctual => Cycle' /\ KeepsPrevious'
    BY CycleStep, KeepsPreviousStep DEF FastInv
  <2>3. Punctual' <=> Punctual
    BY DEF Punctual, LatestConfirm, LatestFetch, LatestGatherWake, LatestGather,
           LatestSubmit, JitterMax, PublishConsensusDeadline, AuthorityCertDeadline,
           AuthorityRevealDeadline, AuthorityVoteDeadline, MixPublishDeadline,
           DescriptorBlockDeadline
  <2> QED BY <2>1, <2>2, <2>3 DEF FastInv
<1> QED
  BY <1>1, <1>2, SlowInvariant, PTL DEF Spec

(* When a cycle fits in an epoch, every phase of it acts on the epoch      *)
(* after the current one.                                                  *)
THEOREM InSync == Spec => []VotingInSync
<1>1. SlowInv /\ FastInv => VotingInSync
  <2> SUFFICES ASSUME SlowInv, Cycle, Voting PROVE votingEpoch = epoch + 1
    BY DEF FastInv, VotingInSync
  <2>1. elapsed \in Nat /\ elapsed < Period /\ timer \in Int /\ Period \in Nat
    BY PeriodAssumption DEF SlowInv, TypeOK
  <2>2. call \in {"none", "submit", "gather", "vote"}
    BY DEF SlowInv, TypeOK
  <2> QED
    BY <2>1, <2>2 DEF Cycle, Voting, SlowInv, CallInPhase
<1> QED
  BY <1>1, FastInvariant, PTL

(* When a cycle fits in an epoch, an authority that did not fall back to   *)
(* bootstrap carries on the chain's genesis epoch.                         *)
THEOREM SameGenesis == Spec => GenesisContinuity
<1>1. ASSUME SlowInv, FastInv, [Next]_vars, Punctual,
             call # "gather", call' = "gather", genesisEpoch # 0
      PROVE  chain[votingEpoch - 1] # NoDoc /\ genesisEpoch' = chain[votingEpoch - 1]
  <2>1. GetVote
    BY <1>1 DEF Next, Machine, Tick, Bootstrap, SubmitDescriptor, SubmitReturns,
                NoDescriptorToSubmit, AcceptDescriptorsFrom, SendVote, GetVoteFails,
                VoteReturns, AcceptVotes, FetchConsensus, ConfirmConsensus,
                MissConsensus, FetchReturns, FetchFails, ChainSettles,
                DescriptorUpload, AnswerGone, Crash, Start, vars
  <2>2. documents[votingEpoch - 1] # NoDoc
    BY <1>1, <2>1 DEF GetVote, Awake, FastInv, KeepsPrevious
  <2>3. votingEpoch - 1 \in Epochs
    BY <1>1, <2>1, EpochAssumption
       DEF GetVote, Awake, SlowInv, NotAhead, TypeOK, Epochs, Phases
  <2>4. documents[votingEpoch - 1] = chain[votingEpoch - 1]
    BY <1>1, <2>2, <2>3 DEF FastInv, DocumentsFromChain
  <2> QED
    BY <2>1, <2>2, <2>4 DEF GetVote
<1>2. SlowInv /\ FastInv /\ [Next]_vars
        => [Punctual /\ call # "gather" /\ call' = "gather" /\ genesisEpoch # 0
              => /\ chain[votingEpoch - 1] # NoDoc
                 /\ genesisEpoch' = chain[votingEpoch - 1]]_vars
  BY <1>1
<1> QED
  BY <1>2, FastInvariant, PTL DEF Spec, GenesisContinuity
=============================================================================
