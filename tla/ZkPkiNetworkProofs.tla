------------------------- MODULE ZkPkiNetworkProofs -------------------------
(***************************************************************************)
(* Proofs about ZkPkiNetwork, for every set of authorities, whichever and  *)
(* however many of them are faulty, every period and every delay: the      *)
(* authorities and the chain implement EpochConsensus, and each authority  *)
(* implements ZkPkiFsm.  NetworkInv is the inductive invariant.            *)
(***************************************************************************)
EXTENDS ZkPkiNetwork, TLAPS

(* The genesis epochs a document of epoch e may have: its own, or that of  *)
(* the consensus before it.                                                *)
Continues(e, g) ==
  /\ g # 0
  /\ \/ g = e
     \/ /\ e - 1 \in Epochs /\ consensus[e - 1] # NoDocument
        /\ g = consensus[e - 1].genesis

(* Of the state l of an authority.  Which chain calls belong to which      *)
(* phase.                                                                  *)
CallInPhase(l) ==
  /\ l.call = "submit" => l.fsm = "descriptor_send"
  /\ l.call \in {"gather", "vote"} => l.fsm = "accept_desc"

(* It never votes ahead of the epoch after the current one, and what it    *)
(* waits for ends late enough: its submission after the epoch before       *)
(* votingEpoch began, its vote after the descriptor block deadline.        *)
NotAhead(l) ==
  /\ l.fsm = "descriptor_send" /\ l.call = "none" =>
       \/ l.votingEpoch <= epoch + 1
       \/ l.votingEpoch = epoch + 2 /\ l.timer >= Period - elapsed
  /\ l.call = "submit" =>
       l.votingEpoch <= epoch \/ (l.votingEpoch = epoch + 1 /\ l.readElapsed <= elapsed)
  /\ l.fsm = "accept_desc" /\ l.call = "none" =>
       \/ l.votingEpoch <= epoch
       \/ l.votingEpoch = epoch + 1 /\ l.timer >= DescriptorBlockDeadline - elapsed
  /\ l.call \in {"gather", "vote"} =>
       \/ l.votingEpoch <= epoch
       \/ l.votingEpoch = epoch + 1 /\ elapsed >= DescriptorBlockDeadline
  /\ l.fsm \in {"accept_vote", "confirm_consensus"} => l.votingEpoch <= epoch + 1
  /\ l.fsm \notin {"down", "bootstrap"} => l.votingEpoch >= 1

(* No vote was sent before the descriptor block deadline of the epoch      *)
(* before the one voted on.                                                *)
NotEarly(l) ==
  \A v \in l.voted : v <= epoch \/ (v = epoch + 1 /\ elapsed >= DescriptorBlockDeadline)

(* The vote being made continues the previous consensus or starts anew.    *)
VoteDated(l) ==
  /\ l.call = "gather" => Continues(l.votingEpoch, l.genesisEpoch)
  /\ l.call = "vote" => /\ l.votingEpoch \in l.voted
                        /\ Continues(l.votingEpoch, l.vote.genesis)

(* What it holds is the consensus. *)
Copies(l) == \A e \in Epochs : l.documents[e] = NoDocument \/ l.documents[e] = consensus[e]

LocalInv(l) == CallInPhase(l) /\ NotAhead(l) /\ NotEarly(l) /\ VoteDated(l) /\ Copies(l)

(* What is set on the chain was voted by the authority that set it.        *)
ChainInv ==
  \A e \in Epochs, a \in Authorities :
    chainVotes[e][a] # NoDocument =>
      e \in auth[a].voted /\ Continues(e, chainVotes[e][a].genesis)

(* A consensus has a genesis epoch. *)
Dated == \A e \in Epochs : consensus[e] # NoDocument => consensus[e].genesis # 0

NetworkInv ==
  /\ TypeOK
  /\ \A a \in Authorities : LocalInv(auth[a])
  /\ ChainInv
  /\ Dated

-----------------------------------------------------------------------------
(* What the proofs use of the schedule: the order of its deadlines.        *)
LEMMA Schedule ==
  /\ Period \in Nat /\ MixPublishDeadline \in Nat /\ DescriptorBlockDeadline \in Nat
  /\ AuthorityVoteDeadline \in Nat /\ PublishConsensusDeadline \in Nat
  /\ MixPublishDeadline < DescriptorBlockDeadline
  /\ DescriptorBlockDeadline < Period
  /\ AuthorityVoteDeadline < Period /\ PublishConsensusDeadline < Period
BY PeriodAssumption
   DEF MixPublishDeadline, DescriptorBlockDeadline, AuthorityVoteDeadline,
       AuthorityRevealDeadline, AuthorityCertDeadline, PublishConsensusDeadline

(* The random part of a sleep is a number of ticks.                        *)
LEMMA JitterInNat == \A j \in Jitter : j \in Nat
BY PeriodAssumption DEF Jitter, JitterMax

LEMMA SleepInInt == ASSUME NEW ticks \in Int PROVE Sleep(ticks) \in Nat /\ Sleep(ticks) >= ticks
BY DEF Sleep

(* The epochs around the current one are epochs of the model.              *)
LEMMA EpochsAround ==
  ASSUME TypeOK
  PROVE  /\ epoch \in Nat /\ epoch >= 3 /\ MaxEpoch \in Nat /\ epoch <= MaxEpoch
         /\ elapsed \in Nat /\ elapsed < Period
         /\ epoch - 1 \in Epochs /\ epoch \in Epochs /\ epoch + 1 \in Epochs
         /\ epoch + 2 \in Epochs /\ 0 \in Epochs
BY NetworkEpochAssumption, PeriodAssumption DEF TypeOK, Epochs

LEMMA LocalFields ==
  ASSUME NEW l \in Locals
  PROVE  /\ l.votingEpoch \in Nat /\ l.votingEpoch \in Epochs /\ l.timer \in Int
         /\ l.readElapsed \in Nat /\ l.readElapsed < Period
         /\ l.documents \in [Epochs -> Documents] /\ l.fetching \in [Epochs -> Nat]
         /\ l.voted \subseteq Epochs /\ \A v \in l.voted : v \in Nat
<1>1. \A v \in Epochs : v \in Nat BY NetworkEpochAssumption DEF Epochs
<1>2. \A r \in 0 .. Period - 1 : r \in Nat /\ r < Period BY PeriodAssumption
<1> QED BY <1>1, <1>2 DEF Locals

(* A missing document is a document, of no genesis epoch.                  *)
LEMMA NoDocumentIsDocument == NoDocument \in Documents /\ NoDocument.genesis = 0
BY NetworkEpochAssumption DEF NoDocument, Documents, Epochs

LEMMA StoppedIsLocal == Stopped \in Locals
BY NoDocumentIsDocument, NetworkEpochAssumption, PeriodAssumption DEF Stopped, Locals, Epochs

(* The invariant holds of a stopped authority.                             *)
LEMMA StoppedInv == ASSUME NEW V, NotEarly([Stopped EXCEPT !.voted = V])
                    PROVE  LocalInv([Stopped EXCEPT !.voted = V])
<1> DEFINE l == [Stopped EXCEPT !.voted = V]
<1>1. l.fsm = "down" /\ l.call = "none" /\ l.documents = [e \in Epochs |-> NoDocument]
  BY DEF Stopped
<1> HIDE DEF l
<1>2. CallInPhase(l) /\ NotAhead(l) /\ VoteDated(l) /\ Copies(l)
  BY <1>1 DEF CallInPhase, NotAhead, VoteDated, Copies
<1>3. NotEarly(l) BY DEF l
<1> QED BY <1>2, <1>3 DEF LocalInv, l

LEMMA NetworkInvInit == Init => NetworkInv
<1> SUFFICES ASSUME Init PROVE NetworkInv OBVIOUS
<1>1. /\ epoch = MinEpoch /\ elapsed = 0 /\ auth = [a \in Authorities |-> Stopped]
      /\ chainDescs = [e \in Epochs |-> {}]
      /\ chainVotes = [e \in Epochs |-> [a \in Authorities |-> NoDocument]]
  BY DEF Init
<1>2. PICK first \in {NoDocument, [genesis |-> MinEpoch, descs |-> Authorities]} :
        consensus = [e \in Epochs |-> IF e = MinEpoch THEN first ELSE NoDocument]
  BY DEF Init
<1>3. MinEpoch \in Epochs \ {0} BY NetworkEpochAssumption DEF Epochs
<1>4. first \in Documents /\ (first # NoDocument => first.genesis # 0)
  BY <1>2, <1>3, NoDocumentIsDocument DEF Documents
<1>5. TypeOK
  BY <1>1, <1>2, <1>4, StoppedIsLocal, NoDocumentIsDocument, NetworkEpochAssumption,
     PeriodAssumption DEF TypeOK
<1>6. \A a \in Authorities : LocalInv(auth[a])
  <2>1. Stopped.voted = {} /\ [Stopped EXCEPT !.voted = {}] = Stopped BY DEF Stopped
  <2>2. NotEarly(Stopped) BY <2>1 DEF NotEarly
  <2>3. LocalInv(Stopped) BY <2>1, <2>2, StoppedInv
  <2> QED BY <1>1, <2>3
<1>7. ChainInv BY <1>1 DEF ChainInv
<1>8. Dated BY <1>2, <1>4 DEF Dated
<1> QED BY <1>5, <1>6, <1>7, <1>8 DEF NetworkInv

-----------------------------------------------------------------------------
(* What the pruning that ends a step of fsm() leaves of an authority.      *)
LEMMA PrunedFields ==
  ASSUME NEW l \in Locals
  PROVE  /\ Pruned(l) \in Locals
         /\ Pruned(l).fsm = l.fsm /\ Pruned(l).votingEpoch = l.votingEpoch
         /\ Pruned(l).genesisEpoch = l.genesisEpoch /\ Pruned(l).timer = l.timer
         /\ Pruned(l).call = l.call /\ Pruned(l).readElapsed = l.readElapsed
         /\ Pruned(l).fetching = l.fetching /\ Pruned(l).vote = l.vote
         /\ Pruned(l).voted = l.voted
         /\ Pruned(l).documents
              = [e \in Epochs |-> IF Expired(e) THEN NoDocument ELSE l.documents[e]]
         /\ Pruned(l).descriptors = {e \in l.descriptors : ~Expired(e)}
<1>1. [e \in Epochs |-> IF Expired(e) THEN NoDocument ELSE l.documents[e]]
        \in [Epochs -> Documents]
  BY NoDocumentIsDocument DEF Locals
<1>2. {e \in l.descriptors : ~Expired(e)} \in SUBSET Epochs
  BY DEF Locals
<1> QED BY <1>1, <1>2 DEF Pruned, Locals

LEMMA PrunedInv == ASSUME NEW l \in Locals, LocalInv(l) PROVE LocalInv(Pruned(l))
<1> DEFINE p == Pruned(l)
<1>1. /\ p.fsm = l.fsm /\ p.votingEpoch = l.votingEpoch
      /\ p.genesisEpoch = l.genesisEpoch /\ p.timer = l.timer
      /\ p.call = l.call /\ p.readElapsed = l.readElapsed
      /\ p.vote = l.vote /\ p.voted = l.voted
      /\ \A e \in Epochs : p.documents[e] = NoDocument \/ p.documents[e] = l.documents[e]
  <2>1. p.documents = [e \in Epochs |-> IF Expired(e) THEN NoDocument ELSE l.documents[e]]
    BY PrunedFields
  <2>2. \A e \in Epochs : p.documents[e] = NoDocument \/ p.documents[e] = l.documents[e]
    BY <2>1
  <2> QED BY <2>2, PrunedFields
<1> HIDE DEF p
<1>2. CallInPhase(p) /\ NotAhead(p) BY <1>1 DEF LocalInv, CallInPhase, NotAhead
<1>3. NotEarly(p) /\ VoteDated(p) BY <1>1 DEF LocalInv, NotEarly, VoteDated
<1>4. Copies(p) BY <1>1 DEF LocalInv, Copies
<1> QED BY <1>2, <1>3, <1>4 DEF LocalInv, p

(* What a vote continues does not change while the consensus does not.     *)
LEMMA MoveKeeps ==
  ASSUME NetworkInv, NEW a \in Authorities, NEW l \in Locals,
         auth' = [auth EXCEPT ![a] = l], LocalInv(l), auth[a].voted \subseteq l.voted,
         UNCHANGED <<clock, consensus>>,
         chainDescs' \in [Epochs -> SUBSET Authorities],
         \/ UNCHANGED chainVotes
         \/ \E e \in l.voted : \E doc \in Documents :
              Continues(e, doc.genesis) /\ SetDocument(a, e, doc)
  PROVE  NetworkInv'
<1>0. TypeOK /\ ChainInv /\ Dated BY DEF NetworkInv
<1>1. \A b \in Authorities : auth'[b] = IF b = a THEN l ELSE auth[b]
  BY <1>0 DEF TypeOK
<1>c. epoch' = epoch /\ elapsed' = elapsed /\ consensus' = consensus BY DEF clock
<1>2. \A b \in Authorities : LocalInv(auth[b])'
  <2>1. ASSUME NEW b \in Authorities PROVE LocalInv(auth'[b])
    BY <1>1 DEF NetworkInv
  <2>2. ASSUME NEW b \in Authorities, LocalInv(auth'[b]) PROVE LocalInv(auth[b])'
    <3>1. CallInPhase(auth[b])' BY <2>2 DEF LocalInv, CallInPhase
    <3>2. NotAhead(auth[b])' BY <2>2, <1>c DEF LocalInv, NotAhead
    <3>3. NotEarly(auth[b])' BY <2>2, <1>c DEF LocalInv, NotEarly
    <3>4. VoteDated(auth[b])' BY <2>2, <1>c DEF LocalInv, VoteDated, Continues
    <3>5. Copies(auth[b])' BY <2>2, <1>c DEF LocalInv, Copies
    <3> QED BY <3>1, <3>2, <3>3, <3>4, <3>5 DEF LocalInv
  <2> QED BY <2>1, <2>2
<1>3. /\ chainVotes' \in [Epochs -> [Authorities -> Documents]]
      /\ \A e \in Epochs, b \in Authorities :
           \/ chainVotes'[e][b] = chainVotes[e][b]
           \/ b = a /\ e \in l.voted /\ Continues(e, chainVotes'[e][b].genesis)
  <2>1. CASE UNCHANGED chainVotes BY <2>1, <1>0 DEF TypeOK
  <2>2. ASSUME NEW e \in l.voted, NEW doc \in Documents, Continues(e, doc.genesis),
               SetDocument(a, e, doc)
        PROVE  <1>3!1 /\ <1>3!2
    <3>0. chainVotes \in [Epochs -> [Authorities -> Documents]] /\ e \in Epochs
      BY <1>0 DEF TypeOK, Locals
    <3>1. PICK d \in Documents :
            /\ d = chainVotes[e][a] \/ d = doc
            /\ chainVotes' = [chainVotes EXCEPT ![e][a] = d]
      <4> DEFINE d == IF consensus[e] = NoDocument /\ chainVotes[e][a] = NoDocument
                        THEN doc ELSE chainVotes[e][a]
      <4>1. chainVotes' = [chainVotes EXCEPT ![e][a] = d] BY <2>2 DEF SetDocument
      <4>2. d \in Documents /\ (d = chainVotes[e][a] \/ d = doc) BY <3>0, <2>2
      <4> QED BY <4>1, <4>2
    <3> QED BY <3>0, <3>1, <2>2
  <2> QED BY <2>1, <2>2
<1>4. TypeOK'
  <2>1. auth' \in [Authorities -> Locals] BY <1>0 DEF TypeOK
  <2> QED BY <1>0, <1>3, <1>c, <2>1 DEF TypeOK
<1>5. ChainInv'
  <2> SUFFICES ASSUME NEW e \in Epochs, NEW b \in Authorities, chainVotes'[e][b] # NoDocument
               PROVE  e \in auth'[b].voted /\ Continues(e, chainVotes[e][b].genesis)'
    BY DEF ChainInv
  <2>1. e \in auth'[b].voted /\ Continues(e, chainVotes'[e][b].genesis)
    BY <1>0, <1>1, <1>3 DEF ChainInv
  <2> QED BY <2>1, <1>c DEF Continues
<1>6. Dated' BY <1>0, <1>c DEF Dated
<1> QED BY <1>2, <1>4, <1>5, <1>6 DEF NetworkInv

(* The same for a step of fsm(). *)
LEMMA BecomeKeeps ==
  ASSUME NetworkInv, NEW a \in Authorities, NEW l \in Locals,
         auth' = [auth EXCEPT ![a] = Pruned(l)], LocalInv(l), auth[a].voted \subseteq l.voted,
         UNCHANGED <<clock, consensus>>,
         chainDescs' \in [Epochs -> SUBSET Authorities],
         \/ UNCHANGED chainVotes
         \/ \E e \in l.voted : \E doc \in Documents :
              Continues(e, doc.genesis) /\ SetDocument(a, e, doc)
  PROVE  NetworkInv'
<1>2. Pruned(l) \in Locals /\ Pruned(l).voted = l.voted BY PrunedFields
<1>3. LocalInv(Pruned(l)) BY PrunedInv
<1> QED BY <1>2, <1>3, MoveKeeps

-----------------------------------------------------------------------------
LEMMA FetchingType ==
  ASSUME NEW l \in Locals, NEW wanted PROVE Fetching(l, wanted) \in [Epochs -> Nat]
BY DEF Fetching, Locals

(* What each step of the schedule that ends with the pruning makes of an   *)
(* authority, field by field, before the pruning.                          *)
LEMMA BootstrapEffect ==
  ASSUME TypeOK, NEW a \in Authorities, Bootstrap(a)
  PROVE  \E l \in Locals :
           /\ auth' = [auth EXCEPT ![a] = Pruned(l)]
           /\ \/ /\ elapsed > MixPublishDeadline
                 /\ l.votingEpoch = epoch + 2 /\ l.fsm = "bootstrap"
                 /\ l.timer = Sleep(Period - elapsed)
              \/ /\ elapsed <= MixPublishDeadline
                 /\ l.votingEpoch = epoch + 1 /\ l.fsm = "descriptor_send"
                 /\ \E j \in Jitter : l.timer = Sleep(MixPublishDeadline - elapsed + j)
           /\ l.genesisEpoch = 0 /\ l.fetching = Fetching(auth[a], {epoch - 1, epoch})
           /\ l.call = "none" /\ l.readElapsed = auth[a].readElapsed
           /\ l.documents = auth[a].documents /\ l.descriptors = auth[a].descriptors
           /\ l.vote = auth[a].vote /\ l.voted = auth[a].voted
<1> DEFINE m == auth[a]
           f == Fetching(m, {epoch - 1, epoch})
           l0 == [m EXCEPT !.genesisEpoch = 0, !.fetching = f]
<1>0. m \in Locals BY DEF TypeOK
<1>1. m.fsm = "bootstrap" /\ m.call = "none" BY DEF Bootstrap, Awake
<1>2. f \in [Epochs -> Nat] BY <1>0, FetchingType
<1>3. CASE elapsed > MixPublishDeadline
  <2> DEFINE l == [l0 EXCEPT !.votingEpoch = epoch + 2, !.timer = Sleep(Period - elapsed)]
  <2>1. auth' = [auth EXCEPT ![a] = Pruned(l)]
    <3>1. ~(elapsed <= MixPublishDeadline) BY <1>3, Schedule, EpochsAround
    <3> QED BY <3>1, Zenon DEF Bootstrap, Become
  <2>2. Sleep(Period - elapsed) \in Int BY EpochsAround, Schedule, SleepInInt
  <2> HIDE DEF f
  <2>3. /\ l \in Locals /\ l.votingEpoch = epoch + 2 /\ l.fsm = "bootstrap"
        /\ l.timer = Sleep(Period - elapsed) /\ l.genesisEpoch = 0 /\ l.fetching = f
        /\ l.call = "none" /\ l.readElapsed = m.readElapsed
        /\ l.documents = m.documents /\ l.descriptors = m.descriptors
        /\ l.vote = m.vote /\ l.voted = m.voted
    BY <1>0, <1>1, <1>2, <2>2, EpochsAround DEF Locals
  <2> HIDE DEF l
  <2> QED BY <2>1, <2>3, <1>3 DEF f
<1>4. CASE elapsed <= MixPublishDeadline
  <2> DEFINE t(j) == Sleep(MixPublishDeadline - elapsed + j)
             l(j) == [l0 EXCEPT !.votingEpoch = epoch + 1, !.fsm = "descriptor_send",
                                !.timer = t(j)]
  <2>1. PICK j \in Jitter : auth' = [auth EXCEPT ![a] = Pruned(l(j))]
    <3>1. ~(elapsed > MixPublishDeadline) BY <1>4, Schedule, EpochsAround
    <3> QED BY <3>1, Zenon DEF Bootstrap, Become
  <2>2. t(j) \in Int BY EpochsAround, Schedule, SleepInInt, JitterInNat
  <2> HIDE DEF f, t
  <2>3. /\ l(j) \in Locals /\ l(j).votingEpoch = epoch + 1 /\ l(j).fsm = "descriptor_send"
        /\ l(j).timer = t(j) /\ l(j).genesisEpoch = 0 /\ l(j).fetching = f
        /\ l(j).call = "none" /\ l(j).readElapsed = m.readElapsed
        /\ l(j).documents = m.documents /\ l(j).descriptors = m.descriptors
        /\ l(j).vote = m.vote /\ l(j).voted = m.voted
    BY <1>0, <1>1, <1>2, <2>2, EpochsAround DEF Locals
  <2> HIDE DEF l
  <2> QED BY <2>1, <2>3, <1>4 DEF f, t
<1>5. elapsed > MixPublishDeadline \/ elapsed <= MixPublishDeadline
  BY Schedule, EpochsAround
<1> QED BY <1>3, <1>4, <1>5, Zenon

LEMMA AcceptDescriptorsEffect ==
  ASSUME TypeOK, NEW a \in Authorities, NEW readAt \in 0 .. Period - 1,
         AcceptDescriptorsFrom(a, readAt)
  PROVE  \E l \in Locals :
           /\ auth' = [auth EXCEPT ![a] = Pruned(l)]
           /\ l.fsm = "accept_desc" /\ l.call = "none" /\ l.readElapsed = 0
           /\ \E j \in Jitter : l.timer = Sleep(DescriptorBlockDeadline - readAt + j)
           /\ l.votingEpoch = auth[a].votingEpoch /\ l.genesisEpoch = auth[a].genesisEpoch
           /\ l.documents = auth[a].documents /\ l.descriptors = auth[a].descriptors
           /\ l.fetching = auth[a].fetching
           /\ l.vote = auth[a].vote /\ l.voted = auth[a].voted
<1> DEFINE m == auth[a]
           t(j) == Sleep(DescriptorBlockDeadline - readAt + j)
           l(j) == [m EXCEPT !.fsm = "accept_desc", !.call = "none", !.readElapsed = 0,
                             !.timer = t(j)]
<1>0. m \in Locals /\ 0 \in 0 .. Period - 1 BY PeriodAssumption DEF TypeOK
<1>1. PICK j \in Jitter : auth' = [auth EXCEPT ![a] = Pruned(l(j))]
  BY Zenon DEF AcceptDescriptorsFrom, Become
<1>2. t(j) \in Int BY Schedule, JitterInNat, SleepInInt
<1> HIDE DEF t
<1>3. /\ l(j) \in Locals /\ l(j).fsm = "accept_desc" /\ l(j).call = "none"
      /\ l(j).readElapsed = 0 /\ l(j).timer = t(j)
      /\ l(j).votingEpoch = m.votingEpoch /\ l(j).genesisEpoch = m.genesisEpoch
      /\ l(j).documents = m.documents /\ l(j).descriptors = m.descriptors
      /\ l(j).fetching = m.fetching /\ l(j).vote = m.vote /\ l(j).voted = m.voted
  BY <1>0, <1>2 DEF Locals
<1> HIDE DEF l
<1> QED BY <1>1, <1>3 DEF t

LEMMA AcceptVotesEffect ==
  ASSUME TypeOK, NEW a \in Authorities, AcceptVotes(a)
  PROVE  \E l \in Locals :
           /\ auth' = [auth EXCEPT ![a] = Pruned(l)]
           /\ l.fsm = "accept_vote" /\ l.call = "none" /\ l.vote = NoDocument
           /\ l.timer = Sleep(AuthorityVoteDeadline - elapsed)
           /\ l.votingEpoch = auth[a].votingEpoch /\ l.genesisEpoch = auth[a].genesisEpoch
           /\ l.readElapsed = auth[a].readElapsed
           /\ l.documents = auth[a].documents /\ l.descriptors = auth[a].descriptors
           /\ l.fetching = auth[a].fetching /\ l.voted = auth[a].voted
<1> DEFINE m == auth[a]
           t == Sleep(AuthorityVoteDeadline - elapsed)
           l == [m EXCEPT !.fsm = "accept_vote", !.call = "none", !.vote = NoDocument,
                          !.timer = t]
<1>0. m \in Locals BY DEF TypeOK
<1>1. auth' = [auth EXCEPT ![a] = Pruned(l)] BY Zenon DEF AcceptVotes, Become
<1>2. t \in Int BY Schedule, EpochsAround, SleepInInt
<1> HIDE DEF t
<1>3. /\ l \in Locals /\ l.fsm = "accept_vote" /\ l.call = "none" /\ l.vote = NoDocument
      /\ l.timer = t
      /\ l.votingEpoch = m.votingEpoch /\ l.genesisEpoch = m.genesisEpoch
      /\ l.readElapsed = m.readElapsed
      /\ l.documents = m.documents /\ l.descriptors = m.descriptors
      /\ l.fetching = m.fetching /\ l.voted = m.voted
  BY <1>0, <1>2, NoDocumentIsDocument DEF Locals
<1> HIDE DEF l
<1> QED BY <1>1, <1>3 DEF t

LEMMA FetchConsensusEffect ==
  ASSUME TypeOK, NEW a \in Authorities, FetchConsensus(a)
  PROVE  \E l \in Locals :
           /\ auth' = [auth EXCEPT ![a] = Pruned(l)]
           /\ l.fsm = "confirm_consensus" /\ l.call = "none"
           /\ l.fetching = Fetching(auth[a], {auth[a].votingEpoch})
           /\ l.timer = Sleep(PublishConsensusDeadline - elapsed)
           /\ l.votingEpoch = auth[a].votingEpoch /\ l.genesisEpoch = auth[a].genesisEpoch
           /\ l.readElapsed = auth[a].readElapsed
           /\ l.documents = auth[a].documents /\ l.descriptors = auth[a].descriptors
           /\ l.vote = auth[a].vote /\ l.voted = auth[a].voted
<1> DEFINE m == auth[a]
           f == Fetching(m, {m.votingEpoch})
           t == Sleep(PublishConsensusDeadline - elapsed)
           l == [m EXCEPT !.fsm = "confirm_consensus", !.fetching = f, !.timer = t]
<1>0. m \in Locals /\ m.call = "none" BY DEF TypeOK, FetchConsensus, Awake
<1>1. auth' = [auth EXCEPT ![a] = Pruned(l)] BY Zenon DEF FetchConsensus, Become
<1>2. t \in Int /\ f \in [Epochs -> Nat]
  BY <1>0, Schedule, EpochsAround, SleepInInt, FetchingType
<1> HIDE DEF t, f
<1>3. /\ l \in Locals /\ l.fsm = "confirm_consensus" /\ l.call = "none"
      /\ l.fetching = f /\ l.timer = t
      /\ l.votingEpoch = m.votingEpoch /\ l.genesisEpoch = m.genesisEpoch
      /\ l.readElapsed = m.readElapsed
      /\ l.documents = m.documents /\ l.descriptors = m.descriptors
      /\ l.vote = m.vote /\ l.voted = m.voted
  BY <1>0, <1>2 DEF Locals
<1> HIDE DEF l
<1> QED BY <1>1, <1>3 DEF t, f

LEMMA ConfirmConsensusEffect ==
  ASSUME NetworkInv, NEW a \in Authorities, ConfirmConsensus(a)
  PROVE  \E l \in Locals :
           /\ auth' = [auth EXCEPT ![a] = Pruned(l)]
           /\ l.fsm = "descriptor_send" /\ l.call = "none"
           /\ l.votingEpoch = auth[a].votingEpoch + 1
           /\ \E j \in Jitter : l.timer = Sleep(MixPublishDeadline + (Period - elapsed) + j)
           /\ l.genesisEpoch = auth[a].genesisEpoch /\ l.readElapsed = auth[a].readElapsed
           /\ l.documents = auth[a].documents /\ l.descriptors = auth[a].descriptors
           /\ l.fetching = auth[a].fetching
           /\ l.vote = auth[a].vote /\ l.voted = auth[a].voted
<1> DEFINE m == auth[a]
           t(j) == Sleep(MixPublishDeadline + (Period - elapsed) + j)
           l(j) == [m EXCEPT !.fsm = "descriptor_send", !.votingEpoch = @ + 1, !.timer = t(j)]
<1>0. TypeOK /\ m \in Locals /\ LocalInv(m) BY DEF NetworkInv, TypeOK
<1>1. m.fsm = "confirm_consensus" /\ m.call = "none" BY DEF ConfirmConsensus, Awake
<1>2. PICK j \in Jitter : auth' = [auth EXCEPT ![a] = Pruned(l(j))]
  BY Zenon DEF ConfirmConsensus, Become
<1>3. t(j) \in Int BY <1>0, Schedule, EpochsAround, JitterInNat, SleepInInt
<1>4. m.votingEpoch + 1 \in Epochs
  BY <1>0, <1>1, EpochsAround, LocalFields DEF LocalInv, NotAhead, Epochs
<1> HIDE DEF t
<1>5. /\ l(j) \in Locals /\ l(j).fsm = "descriptor_send" /\ l(j).call = "none"
      /\ l(j).votingEpoch = m.votingEpoch + 1 /\ l(j).timer = t(j)
      /\ l(j).genesisEpoch = m.genesisEpoch /\ l(j).readElapsed = m.readElapsed
      /\ l(j).documents = m.documents /\ l(j).descriptors = m.descriptors
      /\ l(j).fetching = m.fetching /\ l(j).vote = m.vote /\ l(j).voted = m.voted
  BY <1>0, <1>1, <1>3, <1>4 DEF Locals
<1> HIDE DEF l
<1> QED BY <1>2, <1>5 DEF t

LEMMA MissConsensusEffect ==
  ASSUME TypeOK, NEW a \in Authorities, MissConsensus(a)
  PROVE  \E l \in Locals :
           /\ auth' = [auth EXCEPT ![a] = Pruned(l)]
           /\ l.fsm = "bootstrap" /\ l.call = "none" /\ l.votingEpoch = epoch + 2
           /\ l.timer = Sleep(Period - elapsed)
           /\ l.genesisEpoch = auth[a].genesisEpoch /\ l.readElapsed = auth[a].readElapsed
           /\ l.documents = auth[a].documents /\ l.descriptors = auth[a].descriptors
           /\ l.fetching = auth[a].fetching
           /\ l.vote = auth[a].vote /\ l.voted = auth[a].voted
<1> DEFINE m == auth[a]
           t == Sleep(Period - elapsed)
           l == [m EXCEPT !.fsm = "bootstrap", !.votingEpoch = epoch + 2, !.timer = t]
<1>0. m \in Locals /\ m.call = "none" BY DEF TypeOK, MissConsensus, Awake
<1>1. auth' = [auth EXCEPT ![a] = Pruned(l)] BY Zenon DEF MissConsensus, Become
<1>2. t \in Int BY Schedule, EpochsAround, SleepInInt
<1> HIDE DEF t
<1>3. /\ l \in Locals /\ l.fsm = "bootstrap" /\ l.call = "none" /\ l.votingEpoch = epoch + 2
      /\ l.timer = t
      /\ l.genesisEpoch = m.genesisEpoch /\ l.readElapsed = m.readElapsed
      /\ l.documents = m.documents /\ l.descriptors = m.descriptors
      /\ l.fetching = m.fetching /\ l.vote = m.vote /\ l.voted = m.voted
  BY <1>0, <1>2, EpochsAround DEF Locals
<1> HIDE DEF l
<1> QED BY <1>1, <1>3 DEF t

(* Each step of the schedule of an authority keeps the invariant.          *)
LEMMA BootstrapKeeps ==
  ASSUME NetworkInv, NEW a \in Authorities, Bootstrap(a) PROVE NetworkInv'
<1> DEFINE m == auth[a]
<1>0. TypeOK /\ m \in Locals /\ LocalInv(m) BY DEF NetworkInv, TypeOK
<1>1. PICK l \in Locals :
        /\ auth' = [auth EXCEPT ![a] = Pruned(l)] /\ l.call = "none"
        /\ \/ l.fsm = "bootstrap"
           \/ l.fsm = "descriptor_send" /\ l.votingEpoch = epoch + 1
        /\ l.voted = m.voted /\ l.documents = m.documents
  BY <1>0, BootstrapEffect
<1>2. LocalInv(l)
  <2>1. CallInPhase(l) /\ VoteDated(l) BY <1>1 DEF CallInPhase, VoteDated
  <2>2. NotAhead(l) BY <1>1, <1>0, EpochsAround DEF NotAhead
  <2>3. NotEarly(l) /\ Copies(l) BY <1>1, <1>0 DEF LocalInv, NotEarly, Copies
  <2> QED BY <2>1, <2>2, <2>3 DEF LocalInv
<1>3. /\ chainDescs' \in [Epochs -> SUBSET Authorities] /\ UNCHANGED chainVotes
      /\ UNCHANGED <<clock, consensus>>
  BY <1>0 DEF Bootstrap, TypeOK, chainState
<1> QED BY <1>1, <1>2, <1>3, BecomeKeeps

LEMMA SubmitDescriptorKeeps ==
  ASSUME NetworkInv, NEW a \in Authorities, SubmitDescriptor(a) PROVE NetworkInv'
<1> DEFINE m == auth[a]
           l == [m EXCEPT !.call = "submit", !.timer = MaxDelay, !.readElapsed = elapsed]
<1>0. TypeOK /\ m \in Locals /\ LocalInv(m) BY DEF NetworkInv, TypeOK
<1>1. /\ UNCHANGED <<clock, chainState>>
      /\ m.fsm = "descriptor_send" /\ m.call = "none" /\ m.timer <= 0
  BY DEF SubmitDescriptor, Awake
<1>2. auth' = [auth EXCEPT ![a] = l] BY <1>0 DEF SubmitDescriptor, TypeOK
<1>3. /\ l \in Locals /\ l.fsm = m.fsm /\ l.call = "submit" /\ l.readElapsed = elapsed
      /\ l.votingEpoch = m.votingEpoch /\ l.voted = m.voted /\ l.documents = m.documents
  <2>1. elapsed \in 0 .. Period - 1 /\ MaxDelay \in Int
    BY <1>0, NetworkDelayAssumption DEF TypeOK
  <2> QED BY <1>0, <2>1 DEF Locals
<1>4. LocalInv(l)
  <2> HIDE DEF l
  <2>1. CallInPhase(l) /\ VoteDated(l) BY <1>1, <1>3 DEF CallInPhase, VoteDated
  <2>2. NotAhead(l)
    <3>1. m.votingEpoch <= epoch + 1 /\ m.votingEpoch >= 1
      BY <1>0, <1>1, EpochsAround, Schedule, LocalFields DEF LocalInv, NotAhead
    <3> QED BY <3>1, <1>0, <1>1, <1>3, EpochsAround, LocalFields DEF NotAhead
  <2>3. NotEarly(l) /\ Copies(l) BY <1>3, <1>0 DEF LocalInv, NotEarly, Copies
  <2> QED BY <2>1, <2>2, <2>3 DEF LocalInv
<1>5. /\ chainDescs' \in [Epochs -> SUBSET Authorities] /\ UNCHANGED chainVotes
      /\ UNCHANGED <<clock, consensus>>
  BY <1>0, <1>1 DEF TypeOK, chainState
<1> QED BY <1>2, <1>3, <1>4, <1>5, MoveKeeps

(* The descriptor was sent, or skipped, not before votingEpoch - 1 began.  *)
LEMMA AcceptDescriptorsKeeps ==
  ASSUME NetworkInv, NEW a \in Authorities, NEW readAt \in 0 .. Period - 1,
         AcceptDescriptorsFrom(a, readAt),
         auth[a].fsm = "descriptor_send", auth[a].call # "vote",
         \/ auth[a].votingEpoch <= epoch
         \/ auth[a].votingEpoch = epoch + 1 /\ readAt <= elapsed,
         UNCHANGED <<clock, chainVotes, consensus>>,
         chainDescs' \in [Epochs -> SUBSET Authorities]
  PROVE  NetworkInv'
<1> DEFINE m == auth[a]
<1>0. TypeOK /\ m \in Locals /\ LocalInv(m) BY DEF NetworkInv, TypeOK
<1>1. PICK l \in Locals :
        /\ auth' = [auth EXCEPT ![a] = Pruned(l)]
        /\ l.fsm = "accept_desc" /\ l.call = "none"
        /\ \E j \in Jitter : l.timer = Sleep(DescriptorBlockDeadline - readAt + j)
        /\ l.votingEpoch = m.votingEpoch /\ l.voted = m.voted
        /\ l.documents = m.documents
  BY <1>0, AcceptDescriptorsEffect
<1>2. l.timer >= DescriptorBlockDeadline - readAt /\ l.timer \in Int
  <2>1. PICK j \in Jitter : l.timer = Sleep(DescriptorBlockDeadline - readAt + j) BY <1>1
  <2> QED BY <2>1, Schedule, JitterInNat, SleepInInt
<1>3. LocalInv(l)
  <2>1. CallInPhase(l) /\ VoteDated(l) BY <1>1 DEF CallInPhase, VoteDated
  <2>2. NotAhead(l)
    <3>1. m.votingEpoch >= 1 BY <1>0 DEF LocalInv, NotAhead
    <3> QED BY <3>1, <1>0, <1>1, <1>2, EpochsAround, Schedule, LocalFields DEF NotAhead
  <2>3. NotEarly(l) /\ Copies(l) BY <1>1, <1>0 DEF LocalInv, NotEarly, Copies
  <2> QED BY <2>1, <2>2, <2>3 DEF LocalInv
<1>4. UNCHANGED <<clock, consensus>> /\ UNCHANGED chainVotes BY DEF clock
<1> QED BY <1>1, <1>3, <1>4, BecomeKeeps

LEMMA SubmitReturnsKeeps ==
  ASSUME NetworkInv, NEW a \in Authorities, SubmitReturns(a) PROVE NetworkInv'
<1> DEFINE m == auth[a]
<1>0. TypeOK /\ m \in Locals /\ LocalInv(m) BY DEF NetworkInv, TypeOK
<1>1. /\ m.call = "submit" /\ AcceptDescriptorsFrom(a, m.readElapsed)
      /\ UNCHANGED <<clock, chainVotes, consensus>>
  BY DEF SubmitReturns
<1>2. chainDescs' \in [Epochs -> SUBSET Authorities]
  BY <1>0 DEF SubmitReturns, SetMixDescriptor, TypeOK
<1>3. m.fsm = "descriptor_send" BY <1>0, <1>1 DEF LocalInv, CallInPhase
<1>4. m.votingEpoch <= epoch \/ (m.votingEpoch = epoch + 1 /\ m.readElapsed <= elapsed)
  BY <1>0, <1>1 DEF LocalInv, NotAhead
<1>5. m.readElapsed \in 0 .. Period - 1 BY <1>0 DEF Locals
<1> QED BY <1>1, <1>2, <1>3, <1>4, <1>5, AcceptDescriptorsKeeps

LEMMA NoDescriptorToSubmitKeeps ==
  ASSUME NetworkInv, NEW a \in Authorities, NoDescriptorToSubmit(a) PROVE NetworkInv'
<1> DEFINE m == auth[a]
<1>0. TypeOK /\ m \in Locals /\ LocalInv(m) BY DEF NetworkInv, TypeOK
<1>1. /\ m.fsm = "descriptor_send" /\ m.call = "none" /\ m.timer <= 0
      /\ AcceptDescriptorsFrom(a, elapsed)
      /\ UNCHANGED <<clock, chainVotes, consensus>>
  BY DEF NoDescriptorToSubmit, Awake, chainState
<1>2. chainDescs' \in [Epochs -> SUBSET Authorities]
  BY <1>0 DEF NoDescriptorToSubmit, chainState, TypeOK
<1>3. m.votingEpoch <= epoch + 1
  BY <1>0, <1>1, EpochsAround, Schedule, LocalFields
     DEF LocalInv, NotAhead
<1>4. m.votingEpoch <= epoch \/ m.votingEpoch = epoch + 1
  BY <1>0, <1>3, EpochsAround, LocalFields
<1>5. elapsed \in 0 .. Period - 1 BY <1>0 DEF TypeOK
<1> QED BY <1>1, <1>2, <1>4, <1>5, AcceptDescriptorsKeeps

LEMMA GetVoteKeeps ==
  ASSUME NetworkInv, NEW a \in Authorities, GetVote(a) PROVE NetworkInv'
<1> DEFINE m == auth[a]
           previous == m.documents[m.votingEpoch - 1]
           g == IF previous # NoDocument THEN previous.genesis ELSE m.votingEpoch
           l == [m EXCEPT !.genesisEpoch = g, !.call = "gather", !.timer = MaxDelay]
<1>0. TypeOK /\ Dated /\ m \in Locals /\ LocalInv(m) BY DEF NetworkInv, TypeOK
<1>1. /\ UNCHANGED <<clock, chainState>>
      /\ m.fsm = "accept_desc" /\ m.call = "none" /\ m.timer <= 0
  BY DEF GetVote, Awake
<1>2. auth' = [auth EXCEPT ![a] = l] BY <1>0 DEF GetVote, TypeOK
<1>3. m.votingEpoch >= 1 BY <1>0, <1>1 DEF LocalInv, NotAhead
<1>4. m.votingEpoch - 1 \in Epochs
  BY <1>0, <1>3, LocalFields, NetworkEpochAssumption DEF Epochs
<1>5. g \in Epochs /\ Continues(m.votingEpoch, g)
  <2>1. CASE previous = NoDocument
    BY <2>1, <1>0, <1>3, LocalFields DEF Continues
  <2>2. CASE previous # NoDocument
    <3>1. previous = consensus[m.votingEpoch - 1] BY <2>2, <1>0, <1>4 DEF LocalInv, Copies
    <3>2. previous \in Documents BY <1>0, <1>4 DEF Locals
    <3>3. previous.genesis \in Epochs /\ previous.genesis # 0
      BY <2>2, <3>1, <3>2, <1>0, <1>4 DEF Documents, Dated
    <3> QED BY <2>2, <3>1, <3>3, <1>4 DEF Continues
  <2> QED BY <2>1, <2>2
<1> HIDE DEF g
<1>6. /\ l \in Locals /\ l.fsm = "accept_desc" /\ l.call = "gather" /\ l.genesisEpoch = g
      /\ l.votingEpoch = m.votingEpoch /\ l.voted = m.voted /\ l.documents = m.documents
  <2>1. MaxDelay \in Int BY NetworkDelayAssumption
  <2> QED BY <1>0, <1>1, <1>5, <2>1 DEF Locals
<1>7. LocalInv(l)
  <2> HIDE DEF l
  <2>1. CallInPhase(l) /\ VoteDated(l) BY <1>5, <1>6 DEF CallInPhase, VoteDated
  <2>2. NotAhead(l)
    <3>1. \/ m.votingEpoch <= epoch
          \/ m.votingEpoch = epoch + 1 /\ elapsed >= DescriptorBlockDeadline
      BY <1>0, <1>1, EpochsAround, Schedule, LocalFields DEF LocalInv, NotAhead
    <3> QED BY <3>1, <1>3, <1>6 DEF NotAhead
  <2>3. NotEarly(l) /\ Copies(l) BY <1>6, <1>0 DEF LocalInv, NotEarly, Copies
  <2> QED BY <2>1, <2>2, <2>3 DEF LocalInv
<1>8. /\ chainDescs' \in [Epochs -> SUBSET Authorities] /\ UNCHANGED chainVotes
      /\ UNCHANGED <<clock, consensus>>
  BY <1>0, <1>1 DEF TypeOK, chainState
<1> QED BY <1>2, <1>6, <1>7, <1>8, MoveKeeps

LEMMA SendVoteKeeps ==
  ASSUME NetworkInv, NEW a \in Authorities, SendVote(a) PROVE NetworkInv'
<1> DEFINE m == auth[a]
           doc(descs) == [genesis |-> m.genesisEpoch, descs |-> descs]
           l(descs) == [m EXCEPT !.call = "vote", !.timer = MaxDelay, !.vote = doc(descs),
                                 !.voted = @ \cup {m.votingEpoch}]
<1>0. TypeOK /\ m \in Locals /\ LocalInv(m) BY DEF NetworkInv, TypeOK
<1>1. UNCHANGED <<clock, chainState>> /\ m.call = "gather"
  BY DEF SendVote
<1>2. PICK descs \in MixDescriptors(a, m.votingEpoch) : auth' = [auth EXCEPT ![a] = l(descs)]
  BY <1>0 DEF SendVote, TypeOK
<1>3. descs \in SUBSET Authorities
  BY <1>0, LocalFields DEF MixDescriptors, TypeOK
<1>4. /\ m.fsm = "accept_desc" /\ Continues(m.votingEpoch, m.genesisEpoch)
      /\ \/ m.votingEpoch <= epoch
         \/ m.votingEpoch = epoch + 1 /\ elapsed >= DescriptorBlockDeadline
      /\ m.votingEpoch >= 1
  BY <1>0, <1>1 DEF LocalInv, CallInPhase, VoteDated, NotAhead
<1>5. /\ l(descs) \in Locals /\ l(descs).fsm = m.fsm /\ l(descs).call = "vote"
      /\ l(descs).votingEpoch = m.votingEpoch /\ l(descs).vote.genesis = m.genesisEpoch
      /\ l(descs).voted = m.voted \cup {m.votingEpoch}
      /\ l(descs).documents = m.documents
  <2>1. MaxDelay \in Int BY NetworkDelayAssumption
  <2>2. doc(descs) \in Documents /\ doc(descs).genesis = m.genesisEpoch
    BY <1>0, <1>3 DEF Locals, Documents
  <2>3. m.voted \cup {m.votingEpoch} \in SUBSET Epochs BY <1>0, LocalFields
  <2> HIDE DEF doc
  <2> QED BY <1>0, <2>1, <2>2, <2>3 DEF Locals
<1>6. LocalInv(l(descs))
  <2> HIDE DEF l
  <2>1. CallInPhase(l(descs)) /\ VoteDated(l(descs))
    BY <1>4, <1>5 DEF CallInPhase, VoteDated
  <2>2. NotAhead(l(descs)) BY <1>4, <1>5 DEF NotAhead
  <2>3. NotEarly(l(descs)) BY <1>4, <1>5, <1>0 DEF LocalInv, NotEarly
  <2>4. Copies(l(descs)) BY <1>5, <1>0 DEF LocalInv, Copies
  <2> QED BY <2>1, <2>2, <2>3, <2>4 DEF LocalInv
<1>7. /\ chainDescs' \in [Epochs -> SUBSET Authorities] /\ UNCHANGED chainVotes
      /\ UNCHANGED <<clock, consensus>>
  BY <1>0, <1>1 DEF TypeOK, chainState
<1>8. auth[a].voted \subseteq l(descs).voted BY <1>5
<1> QED BY <1>2, <1>5, <1>6, <1>7, <1>8, MoveKeeps

LEMMA AcceptVotesKeeps ==
  ASSUME NetworkInv, NEW a \in Authorities, AcceptVotes(a),
         auth[a].call \in {"gather", "vote"},
         UNCHANGED <<clock, chainDescs, consensus>>,
         \/ UNCHANGED chainVotes
         \/ auth[a].call = "vote" /\ SetDocument(a, auth[a].votingEpoch, auth[a].vote)
  PROVE  NetworkInv'
<1> DEFINE m == auth[a]
<1>0. TypeOK /\ m \in Locals /\ LocalInv(m) BY DEF NetworkInv, TypeOK
<1>1. PICK l \in Locals :
        /\ auth' = [auth EXCEPT ![a] = Pruned(l)]
        /\ l.fsm = "accept_vote" /\ l.call = "none"
        /\ l.votingEpoch = m.votingEpoch /\ l.voted = m.voted
        /\ l.documents = m.documents
  BY <1>0, AcceptVotesEffect
<1>2. LocalInv(l)
  <2>1. CallInPhase(l) /\ VoteDated(l) BY <1>1 DEF CallInPhase, VoteDated
  <2>2. NotAhead(l)
    <3>1. m.votingEpoch <= epoch + 1 /\ m.votingEpoch >= 1
      BY <1>0, EpochsAround, LocalFields DEF LocalInv, NotAhead, CallInPhase
    <3> QED BY <3>1, <1>1 DEF NotAhead
  <2>3. NotEarly(l) /\ Copies(l) BY <1>1, <1>0 DEF LocalInv, NotEarly, Copies
  <2> QED BY <2>1, <2>2, <2>3 DEF LocalInv
<1>3. chainDescs' \in [Epochs -> SUBSET Authorities] /\ UNCHANGED <<clock, consensus>>
  BY <1>0 DEF TypeOK
<1>4. \/ UNCHANGED chainVotes
      \/ \E e \in l.voted : \E doc \in Documents :
           Continues(e, doc.genesis) /\ SetDocument(a, e, doc)
  <2>1. SUFFICES ASSUME m.call = "vote", SetDocument(a, m.votingEpoch, m.vote)
                 PROVE  \E e \in m.voted : \E doc \in Documents :
                          Continues(e, doc.genesis) /\ SetDocument(a, e, doc)
    BY <1>1
  <2>2. /\ m.votingEpoch \in m.voted /\ m.vote \in Documents
        /\ Continues(m.votingEpoch, m.vote.genesis)
    BY <2>1, <1>0 DEF LocalInv, VoteDated, Locals
  <2> QED BY <2>1, <2>2, Zenon
<1> QED BY <1>1, <1>2, <1>3, <1>4, BecomeKeeps

LEMMA GetVoteFailsKeeps ==
  ASSUME NetworkInv, NEW a \in Authorities, GetVoteFails(a) PROVE NetworkInv'
BY AcceptVotesKeeps DEF GetVoteFails, chainState

LEMMA VoteReturnsKeeps ==
  ASSUME NetworkInv, NEW a \in Authorities, VoteReturns(a) PROVE NetworkInv'
<1>1. /\ AcceptVotes(a) /\ auth[a].call = "vote" /\ UNCHANGED <<clock, chainDescs, consensus>>
      /\ UNCHANGED chainVotes \/ SetDocument(a, auth[a].votingEpoch, auth[a].vote)
  BY DEF VoteReturns
<1> QED BY <1>1, AcceptVotesKeeps

LEMMA FetchConsensusKeeps ==
  ASSUME NetworkInv, NEW a \in Authorities, FetchConsensus(a) PROVE NetworkInv'
<1> DEFINE m == auth[a]
<1>0. TypeOK /\ m \in Locals /\ LocalInv(m) BY DEF NetworkInv, TypeOK
<1>1. UNCHANGED <<clock, chainState>> /\ m.fsm = "accept_vote"
  BY DEF FetchConsensus, Awake
<1>2. PICK l \in Locals :
        /\ auth' = [auth EXCEPT ![a] = Pruned(l)]
        /\ l.fsm = "confirm_consensus" /\ l.call = "none"
        /\ l.votingEpoch = m.votingEpoch /\ l.voted = m.voted
        /\ l.documents = m.documents
  BY <1>0, FetchConsensusEffect
<1>3. LocalInv(l)
  <2>1. CallInPhase(l) /\ VoteDated(l) BY <1>2 DEF CallInPhase, VoteDated
  <2>2. NotAhead(l) BY <1>0, <1>1, <1>2 DEF LocalInv, NotAhead
  <2>3. NotEarly(l) /\ Copies(l) BY <1>2, <1>0 DEF LocalInv, NotEarly, Copies
  <2> QED BY <2>1, <2>2, <2>3 DEF LocalInv
<1>4. /\ chainDescs' \in [Epochs -> SUBSET Authorities] /\ UNCHANGED chainVotes
      /\ UNCHANGED <<clock, consensus>>
  BY <1>0, <1>1 DEF TypeOK, chainState
<1> QED BY <1>2, <1>3, <1>4, BecomeKeeps

LEMMA ConfirmConsensusKeeps ==
  ASSUME NetworkInv, NEW a \in Authorities, ConfirmConsensus(a) PROVE NetworkInv'
<1> DEFINE m == auth[a]
<1>0. TypeOK /\ m \in Locals /\ LocalInv(m) BY DEF NetworkInv, TypeOK
<1>1. UNCHANGED <<clock, chainState>> /\ m.fsm = "confirm_consensus"
  BY DEF ConfirmConsensus, Awake
<1>2. PICK l \in Locals :
        /\ auth' = [auth EXCEPT ![a] = Pruned(l)]
        /\ l.fsm = "descriptor_send" /\ l.call = "none"
        /\ l.votingEpoch = m.votingEpoch + 1
        /\ \E j \in Jitter : l.timer = Sleep(MixPublishDeadline + (Period - elapsed) + j)
        /\ l.voted = m.voted /\ l.documents = m.documents
  BY ConfirmConsensusEffect
<1>3. l.timer \in Int /\ l.timer >= Period - elapsed
  <2>1. PICK j \in Jitter : l.timer = Sleep(MixPublishDeadline + (Period - elapsed) + j)
    BY <1>2
  <2>2. MixPublishDeadline + (Period - elapsed) + j \in Int /\ j \in Nat
    BY <1>0, Schedule, EpochsAround, JitterInNat
  <2>3. l.timer \in Nat /\ l.timer >= MixPublishDeadline + (Period - elapsed) + j
    BY <2>1, <2>2, SleepInInt
  <2> QED BY <2>2, <2>3, <1>0, Schedule, EpochsAround
<1>4. m.votingEpoch + 1 >= 1 /\ m.votingEpoch + 1 <= epoch + 2
  BY <1>0, <1>1, EpochsAround, LocalFields DEF LocalInv, NotAhead
<1>5. LocalInv(l)
  <2>1. CallInPhase(l) /\ VoteDated(l) BY <1>2 DEF CallInPhase, VoteDated
  <2>2. NotAhead(l)
    BY <1>0, <1>2, <1>3, <1>4, EpochsAround, LocalFields DEF NotAhead
  <2>3. NotEarly(l) /\ Copies(l) BY <1>2, <1>0 DEF LocalInv, NotEarly, Copies
  <2> QED BY <2>1, <2>2, <2>3 DEF LocalInv
<1>6. /\ chainDescs' \in [Epochs -> SUBSET Authorities] /\ UNCHANGED chainVotes
      /\ UNCHANGED <<clock, consensus>>
  BY <1>0, <1>1 DEF TypeOK, chainState
<1> QED BY <1>2, <1>5, <1>6, BecomeKeeps

LEMMA MissConsensusKeeps ==
  ASSUME NetworkInv, NEW a \in Authorities, MissConsensus(a) PROVE NetworkInv'
<1> DEFINE m == auth[a]
<1>0. TypeOK /\ m \in Locals /\ LocalInv(m) BY DEF NetworkInv, TypeOK
<1>1. PICK l \in Locals :
        /\ auth' = [auth EXCEPT ![a] = Pruned(l)]
        /\ l.fsm = "bootstrap" /\ l.call = "none"
        /\ l.voted = m.voted /\ l.documents = m.documents
  BY <1>0, MissConsensusEffect
<1>2. LocalInv(l)
  <2>1. CallInPhase(l) /\ VoteDated(l) /\ NotAhead(l)
    BY <1>1 DEF CallInPhase, VoteDated, NotAhead
  <2>2. NotEarly(l) /\ Copies(l) BY <1>1, <1>0 DEF LocalInv, NotEarly, Copies
  <2> QED BY <2>1, <2>2 DEF LocalInv
<1>3. /\ chainDescs' \in [Epochs -> SUBSET Authorities] /\ UNCHANGED chainVotes
      /\ UNCHANGED <<clock, consensus>>
  BY <1>0 DEF MissConsensus, TypeOK, chainState
<1> QED BY <1>1, <1>2, <1>3, BecomeKeeps

(* What runs beside the schedule leaves an authority in the same phase.    *)
LEMMA BesideKeeps ==
  ASSUME NetworkInv, NEW a \in Authorities, NEW l \in Locals,
         auth' = [auth EXCEPT ![a] = l], UNCHANGED <<clock, chainState>>,
         l.fsm = auth[a].fsm \/ (l.fsm = "bootstrap" /\ auth[a].fsm = "down"),
         l.call = auth[a].call, l.votingEpoch = auth[a].votingEpoch,
         l.genesisEpoch = auth[a].genesisEpoch, l.timer = auth[a].timer,
         l.readElapsed = auth[a].readElapsed, l.vote = auth[a].vote,
         l.voted = auth[a].voted, Copies(l)
  PROVE  NetworkInv'
<1> DEFINE m == auth[a]
<1>0. TypeOK /\ m \in Locals /\ LocalInv(m) BY DEF NetworkInv, TypeOK
<1>1. CallInPhase(l) BY <1>0 DEF LocalInv, CallInPhase
<1>2. NotAhead(l) BY <1>0, <1>1 DEF LocalInv, NotAhead, CallInPhase
<1>3. NotEarly(l) /\ VoteDated(l) BY <1>0 DEF LocalInv, NotEarly, VoteDated
<1>4. LocalInv(l) BY <1>1, <1>2, <1>3 DEF LocalInv
<1>5. /\ chainDescs' \in [Epochs -> SUBSET Authorities] /\ UNCHANGED chainVotes
      /\ UNCHANGED <<clock, consensus>>
  BY <1>0 DEF TypeOK, chainState
<1> QED BY <1>4, <1>5, MoveKeeps

LEMMA FetchReturnsKeeps ==
  ASSUME NetworkInv, NEW a \in Authorities, NEW e \in Epochs, FetchReturns(a, e)
  PROVE  NetworkInv'
<1> DEFINE m == auth[a]
           d == IF m.documents[e] = NoDocument THEN consensus[e] ELSE m.documents[e]
           ds == [m.documents EXCEPT ![e] = d]
           fs == [m.fetching EXCEPT ![e] = @ - 1]
           l == [m EXCEPT !.fetching = fs, !.documents = ds]
<1>0. TypeOK /\ m \in Locals /\ LocalInv(m) BY DEF NetworkInv, TypeOK
<1>1. UNCHANGED <<clock, chainState>> /\ m.fetching[e] > 0 BY DEF FetchReturns
<1>2. auth' = [auth EXCEPT ![a] = l] BY <1>0 DEF FetchReturns, TypeOK
<1>3. ds \in [Epochs -> Documents] /\ fs \in [Epochs -> Nat]
  BY <1>0, <1>1, LocalFields DEF TypeOK
<1>4. \A x \in Epochs : ds[x] = NoDocument \/ ds[x] = consensus[x]
  BY <1>0, LocalFields DEF LocalInv, Copies
<1> HIDE DEF ds, fs
<1>5. /\ l \in Locals /\ l.documents = ds
      /\ l.fsm = m.fsm /\ l.call = m.call /\ l.votingEpoch = m.votingEpoch
      /\ l.genesisEpoch = m.genesisEpoch /\ l.timer = m.timer
      /\ l.readElapsed = m.readElapsed /\ l.vote = m.vote /\ l.voted = m.voted
  BY <1>0, <1>3 DEF Locals
<1>6. Copies(l) BY <1>4, <1>5 DEF Copies
<1> HIDE DEF l
<1> QED BY <1>1, <1>2, <1>5, <1>6, BesideKeeps

LEMMA FetchFailsKeeps ==
  ASSUME NetworkInv, NEW a \in Authorities, NEW e \in Epochs, FetchFails(a, e)
  PROVE  NetworkInv'
<1> DEFINE m == auth[a]
           fs == [m.fetching EXCEPT ![e] = @ - 1]
           l == [m EXCEPT !.fetching = fs]
<1>0. TypeOK /\ m \in Locals /\ LocalInv(m) BY DEF NetworkInv, TypeOK
<1>1. UNCHANGED <<clock, chainState>> /\ m.fetching[e] > 0 BY DEF FetchFails
<1>2. auth' = [auth EXCEPT ![a] = l] BY <1>0 DEF FetchFails, TypeOK
<1>3. fs \in [Epochs -> Nat] BY <1>0, <1>1, LocalFields
<1> HIDE DEF fs
<1>4. /\ l \in Locals /\ l.documents = m.documents
      /\ l.fsm = m.fsm /\ l.call = m.call /\ l.votingEpoch = m.votingEpoch
      /\ l.genesisEpoch = m.genesisEpoch /\ l.timer = m.timer
      /\ l.readElapsed = m.readElapsed /\ l.vote = m.vote /\ l.voted = m.voted
  BY <1>0, <1>3 DEF Locals
<1>5. Copies(l) BY <1>0, <1>4 DEF LocalInv, Copies
<1> HIDE DEF l
<1> QED BY <1>1, <1>2, <1>4, <1>5, BesideKeeps

LEMMA DescriptorUploadKeeps ==
  ASSUME NetworkInv, NEW a \in Authorities, DescriptorUpload(a) PROVE NetworkInv'
<1> DEFINE m == auth[a]
           l == [m EXCEPT !.descriptors = @ \cup {epoch + 1}]
<1>0. TypeOK /\ m \in Locals /\ LocalInv(m) BY DEF NetworkInv, TypeOK
<1>1. UNCHANGED <<clock, chainState>> BY DEF DescriptorUpload
<1>2. auth' = [auth EXCEPT ![a] = l] BY <1>0 DEF DescriptorUpload, TypeOK
<1>3. /\ l \in Locals /\ l.documents = m.documents
      /\ l.fsm = m.fsm /\ l.call = m.call /\ l.votingEpoch = m.votingEpoch
      /\ l.genesisEpoch = m.genesisEpoch /\ l.timer = m.timer
      /\ l.readElapsed = m.readElapsed /\ l.vote = m.vote /\ l.voted = m.voted
  BY <1>0, EpochsAround DEF Locals
<1>4. Copies(l) BY <1>0, <1>3 DEF LocalInv, Copies
<1> HIDE DEF l
<1> QED BY <1>1, <1>2, <1>3, <1>4, BesideKeeps

LEMMA StartKeeps ==
  ASSUME NetworkInv, NEW a \in Authorities, Start(a) PROVE NetworkInv'
<1> DEFINE m == auth[a]
           l == [m EXCEPT !.fsm = "bootstrap"]
<1>0. TypeOK /\ m \in Locals /\ LocalInv(m) BY DEF NetworkInv, TypeOK
<1>1. UNCHANGED <<clock, chainState>> /\ m.fsm = "down" BY DEF Start
<1>2. auth' = [auth EXCEPT ![a] = l] BY <1>0 DEF Start, TypeOK
<1>3. /\ l \in Locals /\ l.documents = m.documents
      /\ l.fsm = "bootstrap" /\ l.call = m.call /\ l.votingEpoch = m.votingEpoch
      /\ l.genesisEpoch = m.genesisEpoch /\ l.timer = m.timer
      /\ l.readElapsed = m.readElapsed /\ l.vote = m.vote /\ l.voted = m.voted
  BY <1>0 DEF Locals
<1>4. Copies(l) BY <1>0, <1>3 DEF LocalInv, Copies
<1> HIDE DEF l
<1> QED BY <1>1, <1>2, <1>3, <1>4, BesideKeeps

LEMMA CrashKeeps ==
  ASSUME NetworkInv, NEW a \in Authorities, Crash(a) PROVE NetworkInv'
<1> DEFINE m == auth[a]
           l == [Stopped EXCEPT !.voted = m.voted]
<1>0. TypeOK /\ m \in Locals /\ LocalInv(m) BY DEF NetworkInv, TypeOK
<1>1. UNCHANGED <<clock, consensus>> /\ auth' = [auth EXCEPT ![a] = l] BY DEF Crash
<1>2. Stopped \in Locals BY StoppedIsLocal
<1>3. l \in Locals /\ l.voted = m.voted
  BY <1>0, <1>2, LocalFields DEF Locals
<1>4. LocalInv(l) BY <1>0, <1>3, StoppedInv DEF LocalInv, NotEarly
<1>5. chainDescs' \in [Epochs -> SUBSET Authorities]
  BY <1>0 DEF Crash, CommandLost, CommandLands, SetMixDescriptor, TypeOK
<1>6. \/ UNCHANGED chainVotes
      \/ \E e \in l.voted : \E doc \in Documents :
           Continues(e, doc.genesis) /\ SetDocument(a, e, doc)
  <2>1. CASE UNCHANGED chainVotes BY <2>1
  <2>2. CASE m.call = "vote" /\ SetDocument(a, m.votingEpoch, m.vote)
    <3>1. /\ m.votingEpoch \in m.voted /\ m.vote \in Documents
          /\ Continues(m.votingEpoch, m.vote.genesis)
      BY <2>2, <1>0 DEF LocalInv, VoteDated, Locals
    <3> QED BY <3>1, <2>2, <1>3, Zenon
  <2> QED BY <2>1, <2>2 DEF Crash, CommandLost, CommandLands
<1> HIDE DEF l
<1> QED BY <1>1, <1>3, <1>4, <1>5, <1>6, MoveKeeps

(* The clock: no timer gets further from its deadline than it was.         *)
LEMMA TickKeeps == ASSUME NetworkInv, Tick PROVE NetworkInv'
<1>0. TypeOK /\ ChainInv /\ Dated BY DEF NetworkInv
<1>1. UNCHANGED chainState BY DEF Tick
<1>2. /\ epoch \in Nat /\ elapsed \in Nat /\ elapsed < Period
      /\ epoch' \in MinEpoch .. MaxEpoch /\ elapsed' \in 0 .. Period - 1
      /\ \/ epoch' = epoch /\ elapsed' = elapsed + 1
         \/ epoch' = epoch + 1 /\ elapsed' = 0 /\ elapsed = Period - 1
  BY <1>0, EpochsAround, NetworkEpochAssumption, PeriodAssumption DEF Tick, TypeOK
<1>3. ASSUME NEW a \in Authorities
      PROVE  auth'[a] \in Locals /\ auth'[a].voted = auth[a].voted /\ LocalInv(auth[a])'
  <2> DEFINE m == auth[a]
             t == IF m.fsm = "down" THEN 0 ELSE m.timer - 1
             l == [m EXCEPT !.timer = t]
  <2>0. m \in Locals /\ LocalInv(m) BY DEF NetworkInv, TypeOK
  <2>1. auth'[a] = l BY DEF Tick
  <2>2. t \in Int /\ (m.fsm # "down" => t = m.timer - 1) BY <2>0, LocalFields
  <2> HIDE DEF t
  <2>3. /\ l \in Locals /\ l.fsm = m.fsm /\ l.call = m.call /\ l.timer = t
        /\ l.votingEpoch = m.votingEpoch /\ l.genesisEpoch = m.genesisEpoch
        /\ l.readElapsed = m.readElapsed /\ l.vote = m.vote
        /\ l.voted = m.voted /\ l.documents = m.documents
    BY <2>0, <2>2 DEF Locals
  <2>4. /\ m.votingEpoch \in Nat /\ m.timer \in Int
        /\ m.readElapsed \in Nat /\ m.readElapsed < Period
        /\ \A v \in m.voted : v \in Nat
    BY <2>0, LocalFields
  <2> HIDE DEF l, m
  <2>5. CallInPhase(auth[a])' BY <2>0, <2>1, <2>3 DEF LocalInv, CallInPhase
  <2>6. NotAhead(auth[a])'
    <3> DEFINE n == auth'[a]
               v == m.votingEpoch
    <3>1. /\ n.fsm = m.fsm /\ n.call = m.call /\ n.votingEpoch = v
          /\ n.readElapsed = m.readElapsed /\ (m.fsm # "down" => n.timer = m.timer - 1)
      BY <2>1, <2>2, <2>3
    <3>2. NotAhead(m) /\ Period \in Nat /\ DescriptorBlockDeadline \in Nat
          /\ DescriptorBlockDeadline < Period
      BY <2>0, Schedule DEF LocalInv
    <3> HIDE DEF n, v
    <3>3. n.fsm = "descriptor_send" /\ n.call = "none" =>
            \/ v <= epoch' + 1
            \/ v = epoch' + 2 /\ n.timer >= Period - elapsed'
      BY <3>1, <3>2, <2>4, <1>2 DEF NotAhead, v
    <3>4. n.call = "submit" => v <= epoch' \/ (v = epoch' + 1 /\ n.readElapsed <= elapsed')
      BY <3>1, <3>2, <2>4, <1>2 DEF NotAhead, v
    <3>5. n.fsm = "accept_desc" /\ n.call = "none" =>
            \/ v <= epoch'
            \/ v = epoch' + 1 /\ n.timer >= DescriptorBlockDeadline - elapsed'
      BY <3>1, <3>2, <2>4, <1>2 DEF NotAhead, v
    <3>6. n.call \in {"gather", "vote"} =>
            v <= epoch' \/ (v = epoch' + 1 /\ elapsed' >= DescriptorBlockDeadline)
      BY <3>1, <3>2, <2>4, <1>2 DEF NotAhead, v
    <3>7. /\ n.fsm \in {"accept_vote", "confirm_consensus"} => v <= epoch' + 1
          /\ n.fsm \notin {"down", "bootstrap"} => v >= 1
      BY <3>1, <3>2, <2>4, <1>2 DEF NotAhead, v
    <3> QED BY <3>1, <3>3, <3>4, <3>5, <3>6, <3>7 DEF NotAhead, n
  <2>7. NotEarly(auth[a])'
    BY <2>0, <2>1, <2>3, <2>4, <1>2, Schedule DEF LocalInv, NotEarly
  <2>8. VoteDated(auth[a])' /\ Copies(auth[a])'
    BY <2>0, <2>1, <2>3, <1>1 DEF LocalInv, VoteDated, Copies, Continues, chainState
  <2>9. LocalInv(auth[a])' BY <2>5, <2>6, <2>7, <2>8 DEF LocalInv
  <2> QED BY <2>1, <2>3, <2>9 DEF m
<1>4. TypeOK'
  <2>1. auth' \in [Authorities -> Locals] BY <1>3 DEF Tick
  <2> QED BY <2>1, <1>0, <1>1, <1>2 DEF TypeOK, chainState
<1>5. ChainInv'
  BY <1>0, <1>1, <1>3 DEF ChainInv, Continues, chainState
<1>6. Dated' BY <1>0, <1>1 DEF Dated, chainState
<1> QED BY <1>3, <1>4, <1>5, <1>6 DEF NetworkInv

(* The chain settles what was voted; what continued the previous consensus *)
(* still does.                                                             *)
LEMMA ChainSettlesEffect ==
  ASSUME NetworkInv, NEW e \in Epochs, ChainSettles(e)
  PROVE  /\ consensus[e] = NoDocument
         /\ UNCHANGED <<clock, auth, chainDescs>>
         /\ chainVotes' = [chainVotes EXCEPT ![e] = [b \in Authorities |-> NoDocument]]
         /\ \E doc \in Documents \ {NoDocument}, a \in Authorities :
              /\ consensus' = [consensus EXCEPT ![e] = doc]
              /\ e \in auth[a].voted /\ Continues(e, doc.genesis)
<1>0. TypeOK /\ ChainInv BY DEF NetworkInv
<1>1. PICK a \in Authorities :
        /\ Settled(e, chainVotes[e][a])
        /\ consensus' = [consensus EXCEPT ![e] = chainVotes[e][a]]
  BY DEF ChainSettles
<1>2. chainVotes[e][a] # NoDocument BY <1>1 DEF Settled
<1>3. chainVotes[e][a] \in Documents BY <1>0 DEF TypeOK
<1>4. e \in auth[a].voted /\ Continues(e, chainVotes[e][a].genesis)
  BY <1>0, <1>2 DEF ChainInv
<1> QED BY <1>1, <1>2, <1>3, <1>4 DEF ChainSettles

LEMMA ChainSettlesKeeps ==
  ASSUME NetworkInv, NEW e \in Epochs, ChainSettles(e) PROVE NetworkInv'
<1>0. TypeOK /\ ChainInv /\ Dated BY DEF NetworkInv
<1>1. /\ consensus[e] = NoDocument
      /\ UNCHANGED <<clock, auth, chainDescs>>
      /\ chainVotes' = [chainVotes EXCEPT ![e] = [b \in Authorities |-> NoDocument]]
  BY ChainSettlesEffect
<1>2. PICK doc \in Documents \ {NoDocument} :
        consensus' = [consensus EXCEPT ![e] = doc] /\ Continues(e, doc.genesis)
  BY ChainSettlesEffect
<1>3. \A x \in Epochs : consensus[x] # NoDocument => consensus'[x] = consensus[x]
  BY <1>0, <1>1, <1>2 DEF TypeOK
<1>4. ASSUME NEW x, NEW g, Continues(x, g)
      PROVE  /\ g # 0
             /\ \/ g = x
                \/ /\ x - 1 \in Epochs /\ consensus'[x - 1] # NoDocument
                   /\ g = consensus'[x - 1].genesis
  BY <1>3, <1>4 DEF Continues
<1>5. TypeOK'
  <2>1. consensus' \in [Epochs -> Documents] BY <1>0, <1>2 DEF TypeOK
  <2>2. chainVotes' \in [Epochs -> [Authorities -> Documents]]
    BY <1>0, <1>1, NoDocumentIsDocument DEF TypeOK
  <2> QED BY <1>0, <1>1, <2>1, <2>2 DEF TypeOK, clock
<1>6. ASSUME NEW a \in Authorities PROVE LocalInv(auth[a])'
  <2>0. LocalInv(auth[a]) /\ auth[a] \in Locals BY DEF NetworkInv, TypeOK
  <2>1. CallInPhase(auth[a])' /\ NotAhead(auth[a])' /\ NotEarly(auth[a])'
    BY <2>0, <1>1 DEF LocalInv, CallInPhase, NotAhead, NotEarly, clock
  <2>2. VoteDated(auth[a])'
    BY <2>0, <1>1, <1>4 DEF LocalInv, VoteDated, Continues
  <2>3. Copies(auth[a])' BY <2>0, <1>1, <1>3 DEF LocalInv, Copies
  <2> QED BY <2>1, <2>2, <2>3 DEF LocalInv
<1>7. ChainInv'
  <2> SUFFICES ASSUME NEW x \in Epochs, NEW a \in Authorities, chainVotes'[x][a] # NoDocument
               PROVE  x \in auth'[a].voted /\ Continues(x, chainVotes[x][a].genesis)'
    BY DEF ChainInv
  <2>1. chainVotes'[x][a] = chainVotes[x][a] BY <1>0, <1>1 DEF TypeOK
  <2>2. x \in auth[a].voted /\ Continues(x, chainVotes[x][a].genesis)
    BY <2>1, <1>0 DEF ChainInv
  <2> QED BY <2>1, <2>2, <1>1, <1>4 DEF Continues
<1>8. Dated' BY <1>0, <1>2 DEF Dated, TypeOK, Continues
<1> QED BY <1>5, <1>6, <1>7, <1>8 DEF NetworkInv

LEMMA NetworkInvStep == NetworkInv /\ [Next]_vars => NetworkInv'
<1> SUFFICES ASSUME NetworkInv, [Next]_vars PROVE NetworkInv' OBVIOUS
<1>1. CASE Tick BY <1>1, TickKeeps
<1>2. ASSUME NEW a \in Authorities, Machine(a) PROVE NetworkInv'
  BY <1>2, BootstrapKeeps, SubmitDescriptorKeeps, SubmitReturnsKeeps,
     NoDescriptorToSubmitKeeps, GetVoteKeeps, SendVoteKeeps, GetVoteFailsKeeps,
     VoteReturnsKeeps, FetchConsensusKeeps, ConfirmConsensusKeeps, MissConsensusKeeps
     DEF Machine
<1>3. ASSUME NEW a \in Authorities, DescriptorUpload(a) \/ Crash(a) \/ Start(a)
      PROVE  NetworkInv'
  BY <1>3, DescriptorUploadKeeps, CrashKeeps, StartKeeps
<1>4. ASSUME NEW a \in Authorities, NEW e \in Epochs, FetchReturns(a, e) \/ FetchFails(a, e)
      PROVE  NetworkInv'
  BY <1>4, FetchReturnsKeeps, FetchFailsKeeps
<1>5. ASSUME NEW e \in Epochs, ChainSettles(e) PROVE NetworkInv'
  BY <1>5, ChainSettlesKeeps
<1>6. CASE UNCHANGED vars
  <2>1. UNCHANGED <<epoch, elapsed, auth, chainDescs, chainVotes, consensus>>
    BY <1>6 DEF vars, clock, chainState
  <2>2. TypeOK' BY <2>1 DEF NetworkInv, TypeOK
  <2>3. ASSUME NEW a \in Authorities PROVE LocalInv(auth[a])'
    BY <2>1 DEF NetworkInv, LocalInv, CallInPhase, NotAhead, NotEarly, VoteDated, Copies,
                Continues
  <2>4. ChainInv' /\ Dated' BY <2>1 DEF NetworkInv, ChainInv, Dated, Continues
  <2> QED BY <2>2, <2>3, <2>4 DEF NetworkInv
<1> QED BY <1>1, <1>2, <1>3, <1>4, <1>5, <1>6 DEF Next

(* The invariant holds for any authorities, of which any may be faulty.    *)
THEOREM NetworkInvariant == Spec => []NetworkInv
BY NetworkInvInit, NetworkInvStep, PTL DEF Spec

(* The state of the network has its type, the voting epoch, which is only  *)
(* ever incremented or set anew, included.                                 *)
THEOREM NetworkTypeCorrect == Spec => []TypeOK
<1>1. NetworkInv => TypeOK BY DEF NetworkInv
<1> QED BY <1>1, NetworkInvariant, PTL

(* What may become of the consensus of epoch e in a step.                  *)
Elects(e) ==
  consensus'[e] # consensus[e] =>
    /\ consensus[e] = NoDocument
    /\ e <= epoch \/ (e = epoch + 1 /\ elapsed >= DescriptorBlockDeadline)
    /\ Continues(e, consensus'[e].genesis)
    /\ Quorum(Voters(e, consensus'[e]))
    /\ \A a \in Voters(e, consensus'[e]) : e \in auth[a].voted

(* The chain settles an epoch once, and not before the descriptor block    *)
(* deadline of the epoch before, on a document that a majority has there,  *)
(* every one of which did send a vote for that epoch; and the document     *)
(* carries on the genesis epoch of the consensus before it or starts with  *)
(* its own.  It holds whichever and however many of them are faulty.       *)
THEOREM ConsensusIsElected == Spec => [][\A e \in Epochs : Elects(e)]_vars
<1>1. NetworkInv /\ [Next]_vars => [\A e \in Epochs : Elects(e)]_vars
  <2> SUFFICES ASSUME NetworkInv, Next, NEW e \in Epochs, consensus'[e] # consensus[e]
               PROVE  Elects(e)
    BY DEF Elects
  <2>0. TypeOK /\ ChainInv BY DEF NetworkInv
  <2>1. PICK x \in Epochs : ChainSettles(x)
    BY DEF Next, Tick, Machine, Bootstrap, SubmitDescriptor, SubmitReturns,
           NoDescriptorToSubmit, GetVote, SendVote, GetVoteFails, VoteReturns, FetchConsensus,
           ConfirmConsensus, MissConsensus, DescriptorUpload, Crash, Start, FetchReturns,
           FetchFails, chainState
  <2>2. PICK a \in Authorities :
          /\ consensus[x] = NoDocument /\ Settled(x, chainVotes[x][a])
          /\ consensus' = [consensus EXCEPT ![x] = chainVotes[x][a]]
    BY <2>1 DEF ChainSettles
  <2>3. x = e /\ consensus'[e] = chainVotes[e][a] BY <2>0, <2>2 DEF TypeOK
  <2>4. Quorum(Voters(e, consensus'[e])) /\ chainVotes[e][a] # NoDocument
    BY <2>2, <2>3 DEF Settled
  <2>5. ASSUME NEW b \in Voters(e, consensus'[e])
        PROVE  b \in Authorities /\ e \in auth[b].voted
    <3>1. b \in Authorities /\ chainVotes[e][b] # NoDocument BY <2>3, <2>4 DEF Voters
    <3> QED BY <2>0, <3>1 DEF ChainInv
  <2>6. e \in auth[a].voted /\ Continues(e, consensus'[e].genesis)
    BY <2>0, <2>3, <2>4 DEF ChainInv
  <2>7. e <= epoch \/ (e = epoch + 1 /\ elapsed >= DescriptorBlockDeadline)
    BY <2>6 DEF NetworkInv, LocalInv, NotEarly
  <2> QED BY <2>2, <2>3, <2>4, <2>5, <2>6, <2>7 DEF Elects
<1> QED BY <1>1, NetworkInvariant, PTL DEF Spec

-----------------------------------------------------------------------------
(* The authorities and the chain implement EpochConsensus.                 *)
LEMMA SameDocuments ==
  ASSUME \A b \in Authorities : auth'[b].documents = auth[b].documents, UNCHANGED consensus
  PROVE  UNCHANGED Consensus!vars
BY DEF Consensus!vars

(* The pruning forgets the documents up to some epoch, or nothing yet.     *)
LEMMA PruneForgets ==
  ASSUME NetworkInv, NEW a \in Authorities, NEW l \in Locals,
         l.documents = auth[a].documents, auth' = [auth EXCEPT ![a] = Pruned(l)],
         UNCHANGED consensus
  PROVE  UNCHANGED Consensus!vars \/ Consensus!Forget(a)
<1>0. TypeOK BY DEF NetworkInv
<1>1. auth \in [Authorities -> Locals] BY <1>0 DEF TypeOK
<1>2. auth[a].documents \in [Epochs -> Documents] BY <1>1 DEF Locals
<1>3. Pruned(l).documents
        = [e \in Epochs |-> IF Expired(e) THEN NoDocument ELSE auth[a].documents[e]]
  BY PrunedFields
<1>4. \A b \in Authorities : auth'[b] = IF b = a THEN Pruned(l) ELSE auth[b]
  BY <1>1
<1>5. \A e \in Epochs : e \in Nat BY NetworkEpochAssumption DEF Epochs
<1>6. CASE epoch = 3
  <2>1. \A e \in Epochs : ~Expired(e)
    BY <1>5, <1>6 DEF Expired, PreserveForPastEpochs
  <2>2. Pruned(l).documents = auth[a].documents BY <1>2, <1>3, <2>1
  <2> QED BY <1>4, <2>2, SameDocuments
<1>7. CASE epoch # 3
  <2>1. epoch - 4 \in Epochs /\ epoch \in Nat
    BY <1>0, <1>7, EpochsAround DEF Epochs
  <2>2. \A e \in Epochs : Expired(e) <=> e <= epoch - 4
    BY <1>5, <2>1 DEF Expired, PreserveForPastEpochs
  <2> DEFINE held == [b \in Authorities |-> auth[b].documents]
             forgotten == [e \in Epochs |-> IF e <= epoch - 4 THEN NoDocument
                                                             ELSE held[a][e]]
  <2>3. Pruned(l).documents = forgotten BY <1>3, <2>2
  <2> HIDE DEF forgotten
  <2>4. held' = [held EXCEPT ![a] = forgotten]
    <3>1. held' = [b \in Authorities |-> IF b = a THEN forgotten ELSE held[b]]
      BY <1>4, <2>3
    <3> HIDE DEF held
    <3>2. held = [b \in Authorities |-> held[b]] BY DEF held
    <3> QED BY <3>1, <3>2
  <2> QED BY <2>1, <2>4, Zenon DEF Consensus!Forget, forgotten
<1> QED BY <1>6, <1>7

(* A step of the schedule of an authority prunes, or keeps all documents.  *)
LEMMA MachineForgets ==
  ASSUME NetworkInv, NEW a \in Authorities, Machine(a)
  PROVE  UNCHANGED Consensus!vars \/ Consensus!Forget(a)
<1>0. TypeOK /\ auth \in [Authorities -> Locals] BY DEF NetworkInv, TypeOK
<1>1. UNCHANGED consensus
  BY DEF Machine, Bootstrap, SubmitDescriptor, SubmitReturns, NoDescriptorToSubmit, GetVote,
         SendVote, GetVoteFails, VoteReturns, FetchConsensus, ConfirmConsensus,
         MissConsensus, chainState
<1>2. CASE \E l \in Locals : /\ auth' = [auth EXCEPT ![a] = Pruned(l)]
                             /\ l.documents = auth[a].documents
  BY <1>1, <1>2, PruneForgets
<1>3. CASE \A b \in Authorities : auth'[b].documents = auth[b].documents
  BY <1>1, <1>3, SameDocuments
<1>4. ASSUME NEW readAt \in 0 .. Period - 1, AcceptDescriptorsFrom(a, readAt)
      PROVE  \E l \in Locals : /\ auth' = [auth EXCEPT ![a] = Pruned(l)]
                               /\ l.documents = auth[a].documents
  BY <1>0, <1>4, AcceptDescriptorsEffect
<1>5. elapsed \in 0 .. Period - 1 /\ auth[a].readElapsed \in 0 .. Period - 1
  BY <1>0 DEF TypeOK, Locals
<1>6. CASE Bootstrap(a) BY <1>0, <1>2, <1>6, BootstrapEffect
<1>7. CASE SubmitReturns(a) BY <1>2, <1>4, <1>5, <1>7 DEF SubmitReturns
<1>8. CASE NoDescriptorToSubmit(a) BY <1>2, <1>4, <1>5, <1>8 DEF NoDescriptorToSubmit
<1>9. CASE GetVoteFails(a) BY <1>0, <1>2, <1>9, AcceptVotesEffect DEF GetVoteFails
<1>10. CASE VoteReturns(a) BY <1>0, <1>2, <1>10, AcceptVotesEffect DEF VoteReturns
<1>11. CASE FetchConsensus(a) BY <1>0, <1>2, <1>11, FetchConsensusEffect
<1>12. CASE ConfirmConsensus(a) BY <1>2, <1>12, ConfirmConsensusEffect
<1>13. CASE MissConsensus(a) BY <1>0, <1>2, <1>13, MissConsensusEffect
<1>14. CASE SubmitDescriptor(a) BY <1>0, <1>3, <1>14 DEF SubmitDescriptor, Locals
<1>15. CASE GetVote(a) BY <1>0, <1>3, <1>15 DEF GetVote, Locals
<1>16. CASE SendVote(a) BY <1>0, <1>3, <1>16 DEF SendVote, Locals
<1> QED BY <1>6, <1>7, <1>8, <1>9, <1>10, <1>11, <1>12, <1>13, <1>14, <1>15, <1>16
        DEF Machine

LEMMA FetchLearns ==
  ASSUME NetworkInv, NEW a \in Authorities, NEW e \in Epochs, FetchReturns(a, e)
  PROVE  UNCHANGED Consensus!vars \/ Consensus!Learn(a, e)
<1> DEFINE m == auth[a]
           held == [b \in Authorities |-> auth[b].documents]
<1>0. auth \in [Authorities -> Locals] /\ m \in Locals BY DEF NetworkInv, TypeOK
<1>1. UNCHANGED consensus /\ consensus[e] # NoDocument BY DEF FetchReturns, chainState
<1>2. m.documents \in [Epochs -> Documents] BY <1>0 DEF Locals
<1>3. /\ auth'[a].documents
           = [m.documents EXCEPT ![e] = IF @ = NoDocument THEN consensus[e] ELSE @]
      /\ \A b \in Authorities \ {a} : auth'[b] = auth[b]
  BY <1>0 DEF FetchReturns, Locals
<1>4. CASE m.documents[e] # NoDocument
  <2>1. auth'[a].documents = m.documents BY <1>2, <1>3, <1>4
  <2> QED BY <1>1, <1>3, <2>1, SameDocuments
<1>5. CASE m.documents[e] = NoDocument
  <2>1. auth'[a].documents = [m.documents EXCEPT ![e] = consensus[e]]
    BY <1>3, <1>5
  <2>2. held' = [held EXCEPT ![a][e] = consensus[e]]
    BY <1>2, <1>3, <2>1
  <2>3. held[a][e] = NoDocument BY <1>5
  <2> QED BY <1>1, <2>2, <2>3 DEF Consensus!Learn
<1> QED BY <1>4, <1>5

LEMMA CrashForgets ==
  ASSUME NetworkInv, NEW a \in Authorities, Crash(a) PROVE Consensus!Forget(a)
<1> DEFINE held == [b \in Authorities |-> auth[b].documents]
           nothing == [e \in Epochs |-> NoDocument]
           last == MaxEpoch + 2
<1>0. auth \in [Authorities -> Locals] BY DEF NetworkInv, TypeOK
<1>1. UNCHANGED consensus /\ auth' = [auth EXCEPT ![a] = [Stopped EXCEPT !.voted = auth[a].voted]]
  BY DEF Crash
<1>2. /\ auth'[a].documents = nothing
      /\ \A b \in Authorities \ {a} : auth'[b] = auth[b]
  BY <1>0, <1>1 DEF Stopped
<1>3. last \in Epochs /\ \A e \in Epochs : e <= last
  BY NetworkEpochAssumption DEF Epochs
<1>4. nothing = [e \in Epochs |-> IF e <= last THEN NoDocument ELSE held[a][e]]
  BY <1>3
<1> HIDE DEF nothing, last
<1>5. held' = [held EXCEPT ![a] = nothing] BY <1>2
<1> QED BY <1>1, <1>3, <1>4, <1>5, Zenon DEF Consensus!Forget

LEMMA SettlingChooses ==
  ASSUME NetworkInv, NEW e \in Epochs, ChainSettles(e) PROVE Consensus!Choose(e)
<1>1. consensus[e] = NoDocument /\ UNCHANGED auth BY ChainSettlesEffect
<1>2. PICK doc \in Documents \ {NoDocument} :
        consensus' = [consensus EXCEPT ![e] = doc] /\ Continues(e, doc.genesis)
  BY ChainSettlesEffect
<1>3. doc.genesis \in Consensus!Genesis(e)
  BY <1>2 DEF Continues, Consensus!Genesis
<1> QED BY <1>1, <1>2, <1>3 DEF Consensus!Choose

(* The authorities agree, epoch by epoch, on a document that was made of   *)
(* the previous one, whatever the delays and however many are faulty: an   *)
(* epoch gets one document, nobody ever serves another, and each carries   *)
(* on the genesis epoch of the one before or starts anew.                  *)
THEOREM AuthoritiesAgree == Spec => ImplementsConsensus
<1>1. Init => Consensus!Init
  <2> SUFFICES ASSUME Init PROVE Consensus!Init OBVIOUS
  <2>1. TypeOK BY NetworkInvInit DEF NetworkInv
  <2>2. auth = [a \in Authorities |-> Stopped] BY DEF Init
  <2> QED BY <2>1, <2>2 DEF Consensus!Init, TypeOK, Stopped
<1>2. NetworkInv /\ [Next]_vars => UNCHANGED Consensus!vars \/ Consensus!Next
  <2> SUFFICES ASSUME NetworkInv, [Next]_vars
               PROVE  UNCHANGED Consensus!vars \/ Consensus!Next
    OBVIOUS
  <2>0. auth \in [Authorities -> Locals] BY DEF NetworkInv, TypeOK
  <2>1. CASE Tick
    <3>1. UNCHANGED consensus BY <2>1 DEF Tick, chainState
    <3>2. \A b \in Authorities : auth'[b].documents = auth[b].documents
      BY <2>0, <2>1 DEF Tick, Locals
    <3> QED BY <3>1, <3>2, SameDocuments
  <2>2. ASSUME NEW a \in Authorities, Machine(a)
        PROVE  UNCHANGED Consensus!vars \/ Consensus!Next
    BY <2>2, MachineForgets DEF Consensus!Next
  <2>3. ASSUME NEW a \in Authorities, DescriptorUpload(a) \/ Start(a)
        PROVE  UNCHANGED Consensus!vars
    <3>1. UNCHANGED consensus BY <2>3 DEF DescriptorUpload, Start, chainState
    <3>2. \A b \in Authorities : auth'[b].documents = auth[b].documents
      <4>1. CASE DescriptorUpload(a)
        BY <2>0, <4>1 DEF DescriptorUpload, Locals
      <4>2. CASE Start(a) BY <2>0, <4>2 DEF Start, Locals
      <4> QED BY <2>3, <4>1, <4>2
    <3> QED BY <3>1, <3>2, SameDocuments
  <2>4. ASSUME NEW a \in Authorities, Crash(a) PROVE Consensus!Next
    BY <2>4, CrashForgets DEF Consensus!Next
  <2>5. ASSUME NEW a \in Authorities, NEW e \in Epochs, FetchReturns(a, e)
        PROVE  UNCHANGED Consensus!vars \/ Consensus!Next
    BY <2>5, FetchLearns DEF Consensus!Next
  <2>6. ASSUME NEW a \in Authorities, NEW e \in Epochs, FetchFails(a, e)
        PROVE  UNCHANGED Consensus!vars
    <3>1. UNCHANGED consensus BY <2>6 DEF FetchFails, chainState
    <3>2. \A b \in Authorities : auth'[b].documents = auth[b].documents
      BY <2>0, <2>6 DEF FetchFails, Locals
    <3> QED BY <3>1, <3>2, SameDocuments
  <2>7. ASSUME NEW e \in Epochs, ChainSettles(e) PROVE Consensus!Next
    BY <2>7, SettlingChooses DEF Consensus!Next
  <2>8. CASE UNCHANGED vars
    BY <2>8 DEF vars, chainState, Consensus!vars
  <2> QED BY <2>1, <2>2, <2>3, <2>4, <2>5, <2>6, <2>7, <2>8 DEF Next
<1> QED BY <1>1, <1>2, NetworkInvariant, PTL DEF Spec, ImplementsConsensus

-----------------------------------------------------------------------------
(* Each authority implements ZkPkiFsm.  What the two modules define alike. *)
LEMMA SameSchedule ==
  ASSUME NEW a \in Authorities
  PROVE  /\ Authority(a)!Epochs = Epochs /\ Authority(a)!NoDoc = 0
         /\ Authority(a)!MixPublishDeadline = MixPublishDeadline
         /\ Authority(a)!DescriptorBlockDeadline = DescriptorBlockDeadline
         /\ Authority(a)!AuthorityVoteDeadline = AuthorityVoteDeadline
         /\ Authority(a)!PublishConsensusDeadline = PublishConsensusDeadline
         /\ Authority(a)!Jitter = Jitter
         /\ \A e : Authority(a)!Expired(e) <=> Expired(e)
<1>1. Authority(a)!Epochs = Epochs /\ Authority(a)!NoDoc = 0
  BY DEF Authority!Epochs, Epochs, Authority!NoDoc
<1>2. /\ Authority(a)!MixPublishDeadline = MixPublishDeadline
      /\ Authority(a)!DescriptorBlockDeadline = DescriptorBlockDeadline
      /\ Authority(a)!AuthorityVoteDeadline = AuthorityVoteDeadline
      /\ Authority(a)!PublishConsensusDeadline = PublishConsensusDeadline
      /\ Authority(a)!Jitter = Jitter
  BY DEF Authority!MixPublishDeadline, MixPublishDeadline,
         Authority!DescriptorBlockDeadline, DescriptorBlockDeadline,
         Authority!AuthorityVoteDeadline, AuthorityVoteDeadline,
         Authority!AuthorityRevealDeadline, AuthorityRevealDeadline,
         Authority!AuthorityCertDeadline, AuthorityCertDeadline,
         Authority!PublishConsensusDeadline, PublishConsensusDeadline,
         Authority!Jitter, Jitter, Authority!JitterMax, JitterMax
<1>3. \A e : Authority(a)!Expired(e) <=> Expired(e)
  BY DEF Authority!Expired, Expired, Authority!PreserveForPastEpochs, PreserveForPastEpochs
<1> QED BY <1>1, <1>2, <1>3

(* A document that is held, or settled, is missing exactly when its        *)
(* genesis epoch is.                                                       *)
LEMMA GenesisTells ==
  ASSUME NetworkInv, NEW e \in Epochs
  PROVE  /\ consensus[e] = NoDocument <=> consensus[e].genesis = 0
         /\ \A a \in Authorities :
              auth[a].documents[e] = NoDocument <=> auth[a].documents[e].genesis = 0
BY NoDocumentIsDocument DEF NetworkInv, Dated, LocalInv, Copies

LEMMA InitMaps == ASSUME Init, NEW a \in Authorities PROVE Authority(a)!Init
<1>1. /\ auth[a] = Stopped /\ epoch = MinEpoch /\ elapsed = 0
  BY DEF Init
<1>2. PICK first \in {NoDocument, [genesis |-> MinEpoch, descs |-> Authorities]} :
        consensus = [e \in Epochs |-> IF e = MinEpoch THEN first ELSE NoDocument]
  BY DEF Init
<1>3. MinEpoch \in Epochs BY NetworkEpochAssumption DEF Epochs
<1>4. [e \in Epochs |-> consensus[e].genesis]
        = [e \in Epochs |-> IF e = MinEpoch THEN first.genesis ELSE 0]
  BY <1>2, NoDocumentIsDocument
<1>5. first.genesis \in {0} \cup ({MinEpoch} \cap Epochs)
  BY <1>2, <1>3, NoDocumentIsDocument
<1>6. [e \in Epochs |-> auth[a].documents[e].genesis] = [e \in Epochs |-> 0]
  BY <1>1, NoDocumentIsDocument DEF Stopped
<1>7. /\ auth[a].fsm = "down" /\ auth[a].votingEpoch = 0 /\ auth[a].genesisEpoch = 0
      /\ auth[a].timer = 0 /\ auth[a].call = "none" /\ auth[a].readElapsed = 0
      /\ auth[a].descriptors = {} /\ auth[a].fetching = [e \in Epochs |-> 0]
      /\ auth[a].voted = {}
  BY <1>1 DEF Stopped
<1> QED BY <1>1, <1>4, <1>5, <1>6, <1>7, SameSchedule DEF Authority!Init

LEMMA TickMaps ==
  ASSUME NetworkInv, Tick, NEW a \in Authorities PROVE Authority(a)!Tick
<1>0. auth[a] \in Locals BY DEF NetworkInv, TypeOK
<1>1. ~Overdue(a) /\ UNCHANGED chainState BY DEF Tick
<1>2. /\ \/ elapsed + 1 < Period /\ elapsed' = elapsed + 1 /\ epoch' = epoch
         \/ elapsed + 1 = Period /\ epoch < MaxEpoch /\ elapsed' = 0 /\ epoch' = epoch + 1
      /\ auth'[a] = [auth[a] EXCEPT !.timer = IF auth[a].fsm = "down" THEN 0 ELSE @ - 1]
  BY DEF Tick
<1>3. /\ auth'[a].fsm = auth[a].fsm /\ auth'[a].votingEpoch = auth[a].votingEpoch
      /\ auth'[a].genesisEpoch = auth[a].genesisEpoch /\ auth'[a].call = auth[a].call
      /\ auth'[a].readElapsed = auth[a].readElapsed
      /\ auth'[a].documents = auth[a].documents
      /\ auth'[a].descriptors = auth[a].descriptors
      /\ auth'[a].fetching = auth[a].fetching /\ auth'[a].voted = auth[a].voted
      /\ auth'[a].timer = IF auth[a].fsm = "down" THEN 0 ELSE auth[a].timer - 1
  BY <1>0, <1>2 DEF Locals
<1>4. ~Authority(a)!Overdue BY <1>1 DEF Overdue, Authority!Overdue
<1> QED BY <1>1, <1>2, <1>3, <1>4 DEF Authority!Tick, Authority!world, chainState

(* A step of fsm(), seen in the terms of ZkPkiFsm: the pruning that ends   *)
(* it, and the fields it set before.                                       *)
LEMMA PrunedMaps ==
  ASSUME NetworkInv, NEW a \in Authorities, NEW l \in Locals,
         auth' = [auth EXCEPT ![a] = Pruned(l)], UNCHANGED <<clock, consensus>>,
         l.documents = auth[a].documents, l.descriptors = auth[a].descriptors
  PROVE  /\ Authority(a)!PruneDocuments /\ UNCHANGED <<epoch, elapsed, consensus>>
         /\ auth'[a].fsm = l.fsm /\ auth'[a].votingEpoch = l.votingEpoch
         /\ auth'[a].genesisEpoch = l.genesisEpoch /\ auth'[a].timer = l.timer
         /\ auth'[a].call = l.call /\ auth'[a].readElapsed = l.readElapsed
         /\ auth'[a].fetching = l.fetching /\ auth'[a].voted = l.voted
<1>0. auth[a] \in Locals /\ auth' [a] = Pruned(l) BY DEF NetworkInv, TypeOK
<1>1. /\ auth'[a].documents
           = [e \in Epochs |-> IF Expired(e) THEN NoDocument ELSE auth[a].documents[e]]
      /\ auth'[a].descriptors = {e \in auth[a].descriptors : ~Expired(e)}
  BY <1>0, PrunedFields
<1>2. [e \in Epochs |-> auth'[a].documents[e].genesis]
        = [e \in Epochs |-> IF Expired(e) THEN 0 ELSE auth[a].documents[e].genesis]
  BY <1>1, NoDocumentIsDocument
<1>3. Authority(a)!PruneDocuments
  BY <1>1, <1>2, SameSchedule DEF Authority!PruneDocuments
<1>4. UNCHANGED <<epoch, elapsed, consensus>> BY DEF clock
<1>5. /\ auth'[a].fsm = l.fsm /\ auth'[a].votingEpoch = l.votingEpoch
      /\ auth'[a].genesisEpoch = l.genesisEpoch /\ auth'[a].timer = l.timer
      /\ auth'[a].call = l.call /\ auth'[a].readElapsed = l.readElapsed
      /\ auth'[a].fetching = l.fetching /\ auth'[a].voted = l.voted
  <2>1. PICK p \in Locals : p = Pruned(l) BY PrunedFields
  <2>2. /\ p.fsm = l.fsm /\ p.votingEpoch = l.votingEpoch
        /\ p.genesisEpoch = l.genesisEpoch /\ p.timer = l.timer
        /\ p.call = l.call /\ p.readElapsed = l.readElapsed
        /\ p.fetching = l.fetching /\ p.voted = l.voted
    BY <2>1, PrunedFields
  <2> QED BY <1>0, <2>1, <2>2
<1> QED BY <1>3, <1>4, <1>5

LEMMA FetchingMaps ==
  ASSUME NetworkInv, NEW a \in Authorities, NEW wanted,
         auth'[a].fetching = Fetching(auth[a], wanted)
  PROVE  Authority(a)!BackgroundFetchConsensus(wanted)
BY GenesisTells, SameSchedule DEF Fetching, Authority!BackgroundFetchConsensus

LEMMA SleepMaps ==
  ASSUME NEW a \in Authorities, NEW ticks, auth'[a].timer = Sleep(ticks)
  PROVE  Authority(a)!Sleep(ticks)
BY DEF Sleep, Authority!Sleep

(* Each step of the schedule is that step of ZkPkiFsm.                     *)
LEMMA BootstrapMaps ==
  ASSUME NetworkInv, NEW a \in Authorities, Bootstrap(a) PROVE Authority(a)!Bootstrap
<1>0. TypeOK BY DEF NetworkInv
<1>1. Awake(a, "bootstrap") /\ UNCHANGED <<clock, chainState>> BY DEF Bootstrap
<1>2. PICK l \in Locals :
        /\ auth' = [auth EXCEPT ![a] = Pruned(l)]
        /\ \/ /\ elapsed > MixPublishDeadline
              /\ l.votingEpoch = epoch + 2 /\ l.fsm = "bootstrap"
              /\ l.timer = Sleep(Period - elapsed)
           \/ /\ elapsed <= MixPublishDeadline
              /\ l.votingEpoch = epoch + 1 /\ l.fsm = "descriptor_send"
              /\ \E j \in Jitter : l.timer = Sleep(MixPublishDeadline - elapsed + j)
        /\ l.genesisEpoch = 0 /\ l.fetching = Fetching(auth[a], {epoch - 1, epoch})
        /\ l.call = "none" /\ l.readElapsed = auth[a].readElapsed
        /\ l.documents = auth[a].documents /\ l.descriptors = auth[a].descriptors
        /\ l.vote = auth[a].vote /\ l.voted = auth[a].voted
  BY <1>0, BootstrapEffect
<1>3. /\ Authority(a)!PruneDocuments /\ UNCHANGED <<epoch, elapsed, consensus>>
      /\ auth'[a].fsm = l.fsm /\ auth'[a].votingEpoch = l.votingEpoch
      /\ auth'[a].genesisEpoch = l.genesisEpoch /\ auth'[a].timer = l.timer
      /\ auth'[a].call = l.call /\ auth'[a].readElapsed = l.readElapsed
      /\ auth'[a].fetching = l.fetching /\ auth'[a].voted = l.voted
  BY <1>1, <1>2, PrunedMaps DEF chainState
<1>4. Authority(a)!BackgroundFetchConsensus({epoch - 1, epoch})
  BY <1>2, <1>3, FetchingMaps
<1>5. Authority(a)!Awake("bootstrap") BY <1>1 DEF Awake, Authority!Awake
<1>6. \/ /\ elapsed > MixPublishDeadline
         /\ Authority(a)!Sleep(Period - elapsed)
         /\ auth'[a].votingEpoch = epoch + 2 /\ auth'[a].fsm = auth[a].fsm
      \/ /\ elapsed <= MixPublishDeadline
         /\ \E j \in Jitter : Authority(a)!Sleep(MixPublishDeadline - elapsed + j)
         /\ auth'[a].votingEpoch = epoch + 1 /\ auth'[a].fsm = "descriptor_send"
  BY <1>1, <1>2, <1>3, SleepMaps DEF Awake
<1>7. auth[a].call = "none" BY <1>1 DEF Awake
<1> QED BY <1>2, <1>3, <1>4, <1>5, <1>6, <1>7, SameSchedule
        DEF Authority!Bootstrap, Authority!clock, Authority!world

LEMMA AcceptDescriptorsMaps ==
  ASSUME NetworkInv, NEW a \in Authorities, NEW readAt \in 0 .. Period - 1,
         AcceptDescriptorsFrom(a, readAt), UNCHANGED <<clock, consensus>>
  PROVE  Authority(a)!AcceptDescriptorsFrom(readAt)
<1>0. TypeOK BY DEF NetworkInv
<1>1. PICK l \in Locals :
        /\ auth' = [auth EXCEPT ![a] = Pruned(l)]
        /\ l.fsm = "accept_desc" /\ l.call = "none" /\ l.readElapsed = 0
        /\ \E j \in Jitter : l.timer = Sleep(DescriptorBlockDeadline - readAt + j)
        /\ l.votingEpoch = auth[a].votingEpoch /\ l.genesisEpoch = auth[a].genesisEpoch
        /\ l.documents = auth[a].documents /\ l.descriptors = auth[a].descriptors
        /\ l.fetching = auth[a].fetching
        /\ l.vote = auth[a].vote /\ l.voted = auth[a].voted
  BY <1>0, AcceptDescriptorsEffect
<1>2. /\ Authority(a)!PruneDocuments /\ UNCHANGED <<epoch, elapsed, consensus>>
      /\ auth'[a].fsm = l.fsm /\ auth'[a].votingEpoch = l.votingEpoch
      /\ auth'[a].genesisEpoch = l.genesisEpoch /\ auth'[a].timer = l.timer
      /\ auth'[a].call = l.call /\ auth'[a].readElapsed = l.readElapsed
      /\ auth'[a].fetching = l.fetching /\ auth'[a].voted = l.voted
  BY <1>1, PrunedMaps
<1>3. \E j \in Jitter : Authority(a)!Sleep(DescriptorBlockDeadline - readAt + j)
  BY <1>1, <1>2, SleepMaps
<1> QED BY <1>1, <1>2, <1>3, SameSchedule
        DEF Authority!AcceptDescriptorsFrom, Authority!clock, Authority!world

LEMMA AcceptVotesMaps ==
  ASSUME NetworkInv, NEW a \in Authorities, AcceptVotes(a), UNCHANGED <<clock, consensus>>
  PROVE  Authority(a)!AcceptVotes
<1>0. TypeOK BY DEF NetworkInv
<1>1. PICK l \in Locals :
        /\ auth' = [auth EXCEPT ![a] = Pruned(l)]
        /\ l.fsm = "accept_vote" /\ l.call = "none" /\ l.vote = NoDocument
        /\ l.timer = Sleep(AuthorityVoteDeadline - elapsed)
        /\ l.votingEpoch = auth[a].votingEpoch /\ l.genesisEpoch = auth[a].genesisEpoch
        /\ l.readElapsed = auth[a].readElapsed
        /\ l.documents = auth[a].documents /\ l.descriptors = auth[a].descriptors
        /\ l.fetching = auth[a].fetching /\ l.voted = auth[a].voted
  BY <1>0, AcceptVotesEffect
<1>2. /\ Authority(a)!PruneDocuments /\ UNCHANGED <<epoch, elapsed, consensus>>
      /\ auth'[a].fsm = l.fsm /\ auth'[a].votingEpoch = l.votingEpoch
      /\ auth'[a].genesisEpoch = l.genesisEpoch /\ auth'[a].timer = l.timer
      /\ auth'[a].call = l.call /\ auth'[a].readElapsed = l.readElapsed
      /\ auth'[a].fetching = l.fetching /\ auth'[a].voted = l.voted
  BY <1>1, PrunedMaps
<1>3. Authority(a)!Sleep(AuthorityVoteDeadline - elapsed) BY <1>1, <1>2, SleepMaps
<1> QED BY <1>1, <1>2, <1>3, SameSchedule
        DEF Authority!AcceptVotes, Authority!clock, Authority!world

LEMMA FetchConsensusMaps ==
  ASSUME NetworkInv, NEW a \in Authorities, FetchConsensus(a)
  PROVE  Authority(a)!FetchConsensus
<1>0. TypeOK BY DEF NetworkInv
<1>1. Awake(a, "accept_vote") /\ UNCHANGED <<clock, chainState>> BY DEF FetchConsensus
<1>2. PICK l \in Locals :
        /\ auth' = [auth EXCEPT ![a] = Pruned(l)]
        /\ l.fsm = "confirm_consensus" /\ l.call = "none"
        /\ l.fetching = Fetching(auth[a], {auth[a].votingEpoch})
        /\ l.timer = Sleep(PublishConsensusDeadline - elapsed)
        /\ l.votingEpoch = auth[a].votingEpoch /\ l.genesisEpoch = auth[a].genesisEpoch
        /\ l.readElapsed = auth[a].readElapsed
        /\ l.documents = auth[a].documents /\ l.descriptors = auth[a].descriptors
        /\ l.vote = auth[a].vote /\ l.voted = auth[a].voted
  BY <1>0, FetchConsensusEffect
<1>3. /\ Authority(a)!PruneDocuments /\ UNCHANGED <<epoch, elapsed, consensus>>
      /\ auth'[a].fsm = l.fsm /\ auth'[a].votingEpoch = l.votingEpoch
      /\ auth'[a].genesisEpoch = l.genesisEpoch /\ auth'[a].timer = l.timer
      /\ auth'[a].call = l.call /\ auth'[a].readElapsed = l.readElapsed
      /\ auth'[a].fetching = l.fetching /\ auth'[a].voted = l.voted
  BY <1>1, <1>2, PrunedMaps DEF chainState
<1>4. Authority(a)!BackgroundFetchConsensus({auth[a].votingEpoch})
  BY <1>2, <1>3, FetchingMaps
<1>5. Authority(a)!Awake("accept_vote") /\ auth[a].call = "none"
  BY <1>1 DEF Awake, Authority!Awake
<1>6. Authority(a)!Sleep(PublishConsensusDeadline - elapsed) BY <1>2, <1>3, SleepMaps
<1> QED BY <1>2, <1>3, <1>4, <1>5, <1>6, SameSchedule
        DEF Authority!FetchConsensus, Authority!clock, Authority!world

LEMMA ConfirmConsensusMaps ==
  ASSUME NetworkInv, NEW a \in Authorities, ConfirmConsensus(a)
  PROVE  Authority(a)!ConfirmConsensus
<1>0. TypeOK BY DEF NetworkInv
<1>1. /\ Awake(a, "confirm_consensus") /\ auth[a].documents[epoch + 1] # NoDocument
      /\ UNCHANGED <<clock, chainState>>
  BY DEF ConfirmConsensus
<1>2. PICK l \in Locals :
        /\ auth' = [auth EXCEPT ![a] = Pruned(l)]
        /\ l.fsm = "descriptor_send" /\ l.call = "none"
        /\ l.votingEpoch = auth[a].votingEpoch + 1
        /\ \E j \in Jitter : l.timer = Sleep(MixPublishDeadline + (Period - elapsed) + j)
        /\ l.genesisEpoch = auth[a].genesisEpoch /\ l.readElapsed = auth[a].readElapsed
        /\ l.documents = auth[a].documents /\ l.descriptors = auth[a].descriptors
        /\ l.fetching = auth[a].fetching
        /\ l.vote = auth[a].vote /\ l.voted = auth[a].voted
  BY ConfirmConsensusEffect
<1>3. /\ Authority(a)!PruneDocuments /\ UNCHANGED <<epoch, elapsed, consensus>>
      /\ auth'[a].fsm = l.fsm /\ auth'[a].votingEpoch = l.votingEpoch
      /\ auth'[a].genesisEpoch = l.genesisEpoch /\ auth'[a].timer = l.timer
      /\ auth'[a].call = l.call /\ auth'[a].readElapsed = l.readElapsed
      /\ auth'[a].fetching = l.fetching /\ auth'[a].voted = l.voted
  BY <1>1, <1>2, PrunedMaps DEF chainState
<1>4. Authority(a)!Awake("confirm_consensus") /\ auth[a].call = "none"
  BY <1>1 DEF Awake, Authority!Awake
<1>5. \E j \in Jitter : Authority(a)!Sleep(MixPublishDeadline + (Period - elapsed) + j)
  BY <1>2, <1>3, SleepMaps
<1>6. auth[a].documents[epoch + 1].genesis # 0 /\ epoch + 1 \in Epochs
  BY <1>0, <1>1, GenesisTells, EpochsAround
<1> QED BY <1>2, <1>3, <1>4, <1>5, <1>6, SameSchedule
        DEF Authority!ConfirmConsensus, Authority!clock, Authority!world

LEMMA MissConsensusMaps ==
  ASSUME NetworkInv, NEW a \in Authorities, MissConsensus(a)
  PROVE  Authority(a)!MissConsensus
<1>0. TypeOK BY DEF NetworkInv
<1>1. /\ Awake(a, "confirm_consensus") /\ auth[a].documents[epoch + 1] = NoDocument
      /\ UNCHANGED <<clock, chainState>>
  BY DEF MissConsensus
<1>2. PICK l \in Locals :
        /\ auth' = [auth EXCEPT ![a] = Pruned(l)]
        /\ l.fsm = "bootstrap" /\ l.call = "none" /\ l.votingEpoch = epoch + 2
        /\ l.timer = Sleep(Period - elapsed)
        /\ l.genesisEpoch = auth[a].genesisEpoch /\ l.readElapsed = auth[a].readElapsed
        /\ l.documents = auth[a].documents /\ l.descriptors = auth[a].descriptors
        /\ l.fetching = auth[a].fetching
        /\ l.vote = auth[a].vote /\ l.voted = auth[a].voted
  BY <1>0, MissConsensusEffect
<1>3. /\ Authority(a)!PruneDocuments /\ UNCHANGED <<epoch, elapsed, consensus>>
      /\ auth'[a].fsm = l.fsm /\ auth'[a].votingEpoch = l.votingEpoch
      /\ auth'[a].genesisEpoch = l.genesisEpoch /\ auth'[a].timer = l.timer
      /\ auth'[a].call = l.call /\ auth'[a].readElapsed = l.readElapsed
      /\ auth'[a].fetching = l.fetching /\ auth'[a].voted = l.voted
  BY <1>1, <1>2, PrunedMaps DEF chainState
<1>4. Authority(a)!Awake("confirm_consensus") /\ auth[a].call = "none"
  BY <1>1 DEF Awake, Authority!Awake
<1>5. Authority(a)!Sleep(Period - elapsed) BY <1>2, <1>3, SleepMaps
<1>6. auth[a].documents[epoch + 1].genesis = 0 /\ epoch + 1 \in Epochs
  BY <1>0, <1>1, NoDocumentIsDocument, EpochsAround
<1> QED BY <1>2, <1>3, <1>4, <1>5, <1>6, SameSchedule
        DEF Authority!MissConsensus, Authority!clock, Authority!world

(* The steps that leave the tables alone. *)
LEMMA SubmitDescriptorMaps ==
  ASSUME NetworkInv, NEW a \in Authorities, SubmitDescriptor(a)
  PROVE  Authority(a)!SubmitDescriptor
<1> DEFINE m == auth[a]
           l == [m EXCEPT !.call = "submit", !.timer = MaxDelay, !.readElapsed = elapsed]
<1>0. m \in Locals BY DEF NetworkInv, TypeOK
<1>1. auth'[a] = l BY <1>0 DEF SubmitDescriptor, NetworkInv, TypeOK
<1>2. /\ l.fsm = m.fsm /\ l.votingEpoch = m.votingEpoch /\ l.genesisEpoch = m.genesisEpoch
      /\ l.timer = MaxDelay /\ l.call = "submit" /\ l.readElapsed = elapsed
      /\ l.documents = m.documents /\ l.descriptors = m.descriptors
      /\ l.fetching = m.fetching /\ l.voted = m.voted
  BY <1>0 DEF Locals
<1> HIDE DEF l
<1>3. UNCHANGED <<epoch, elapsed, consensus>> BY DEF SubmitDescriptor, clock, chainState
<1>4. Authority(a)!Awake("descriptor_send") /\ m.votingEpoch \in m.descriptors
  BY DEF SubmitDescriptor, Awake, Authority!Awake
<1> QED BY <1>1, <1>2, <1>3, <1>4
        DEF Authority!SubmitDescriptor, Authority!clock, Authority!world

LEMMA GetVoteMaps ==
  ASSUME NetworkInv, NEW a \in Authorities, GetVote(a) PROVE Authority(a)!GetVote
<1> DEFINE m == auth[a]
           previous == m.documents[m.votingEpoch - 1]
           g == IF previous # NoDocument THEN previous.genesis ELSE m.votingEpoch
           l == [m EXCEPT !.genesisEpoch = g, !.call = "gather", !.timer = MaxDelay]
<1>0. TypeOK /\ m \in Locals /\ LocalInv(m) BY DEF NetworkInv, TypeOK
<1>1. auth'[a] = l BY <1>0 DEF GetVote, TypeOK
<1>2. Awake(a, "accept_desc") BY DEF GetVote
<1>3. m.votingEpoch - 1 \in Epochs
  BY <1>0, <1>2, LocalFields, EpochsAround DEF Awake, LocalInv, NotAhead, Epochs
<1>4. g = IF previous.genesis # 0 THEN previous.genesis ELSE m.votingEpoch
  BY <1>3, GenesisTells
<1> HIDE DEF g
<1>5. /\ l.fsm = m.fsm /\ l.votingEpoch = m.votingEpoch /\ l.genesisEpoch = g
      /\ l.timer = MaxDelay /\ l.call = "gather" /\ l.readElapsed = m.readElapsed
      /\ l.documents = m.documents /\ l.descriptors = m.descriptors
      /\ l.fetching = m.fetching /\ l.voted = m.voted
  BY <1>0 DEF Locals
<1> HIDE DEF l
<1>6. UNCHANGED <<epoch, elapsed, consensus>> BY DEF GetVote, clock, chainState
<1>7. Authority(a)!Awake("accept_desc") BY <1>2 DEF Awake, Authority!Awake
<1> QED BY <1>1, <1>3, <1>4, <1>5, <1>6, <1>7, SameSchedule
        DEF Authority!GetVote, Authority!clock, Authority!world

LEMMA SendVoteMaps ==
  ASSUME NetworkInv, NEW a \in Authorities, SendVote(a) PROVE Authority(a)!SendVote
<1> DEFINE m == auth[a]
           doc(descs) == [genesis |-> m.genesisEpoch, descs |-> descs]
           l(descs) == [m EXCEPT !.call = "vote", !.timer = MaxDelay, !.vote = doc(descs),
                                 !.voted = @ \cup {m.votingEpoch}]
<1>0. m \in Locals BY DEF NetworkInv, TypeOK
<1>1. PICK descs \in MixDescriptors(a, m.votingEpoch) : auth'[a] = l(descs)
  BY <1>0 DEF SendVote, NetworkInv, TypeOK
<1> HIDE DEF doc
<1>2. /\ l(descs).fsm = m.fsm /\ l(descs).votingEpoch = m.votingEpoch
      /\ l(descs).genesisEpoch = m.genesisEpoch
      /\ l(descs).timer = MaxDelay /\ l(descs).call = "vote"
      /\ l(descs).readElapsed = m.readElapsed
      /\ l(descs).documents = m.documents /\ l(descs).descriptors = m.descriptors
      /\ l(descs).fetching = m.fetching /\ l(descs).voted = m.voted \cup {m.votingEpoch}
  BY <1>0 DEF Locals
<1> HIDE DEF l
<1>3. UNCHANGED <<epoch, elapsed, consensus>> /\ m.call = "gather"
  BY DEF SendVote, clock, chainState
<1> QED BY <1>1, <1>2, <1>3 DEF Authority!SendVote, Authority!clock

LEMMA MachineMaps ==
  ASSUME NetworkInv, NEW a \in Authorities, Machine(a) PROVE Authority(a)!Machine
<1>0. TypeOK /\ auth[a] \in Locals /\ elapsed \in 0 .. Period - 1
  BY DEF NetworkInv, TypeOK
<1>1. CASE SubmitReturns(a)
  <2>1. auth[a].readElapsed \in 0 .. Period - 1 BY <1>0 DEF Locals
  <2>2. Authority(a)!AcceptDescriptorsFrom(auth[a].readElapsed)
    <3>1. PICK readAt \in 0 .. Period - 1 : readAt = auth[a].readElapsed BY <2>1
    <3>2. AcceptDescriptorsFrom(a, readAt) /\ UNCHANGED <<clock, consensus>>
      BY <1>1, <3>1 DEF SubmitReturns, AcceptDescriptorsFrom
    <3>3. Authority(a)!AcceptDescriptorsFrom(readAt)
      BY <3>2, AcceptDescriptorsMaps
    <3> QED BY <3>1, <3>3 DEF Authority!AcceptDescriptorsFrom
  <2>3. Authority(a)!SubmitReturns
    BY <1>1, <2>2 DEF SubmitReturns, Authority!SubmitReturns
  <2> QED BY <2>3 DEF Authority!Machine
<1>2. CASE NoDescriptorToSubmit(a)
  <2>1. Authority(a)!AcceptDescriptorsFrom(elapsed)
    <3>1. PICK readAt \in 0 .. Period - 1 : readAt = elapsed BY <1>0
    <3>2. AcceptDescriptorsFrom(a, readAt) /\ UNCHANGED <<clock, consensus>>
      BY <1>2, <3>1 DEF NoDescriptorToSubmit, AcceptDescriptorsFrom, chainState
    <3>3. Authority(a)!AcceptDescriptorsFrom(readAt)
      BY <3>2, AcceptDescriptorsMaps
    <3> QED BY <3>1, <3>3 DEF Authority!AcceptDescriptorsFrom
  <2>2. Authority(a)!NoDescriptorToSubmit
    BY <1>2, <2>1 DEF NoDescriptorToSubmit, Awake, Authority!NoDescriptorToSubmit,
       Authority!Awake
  <2> QED BY <2>2 DEF Authority!Machine
<1>3. CASE GetVoteFails(a)
  <2>1. Authority(a)!AcceptVotes
    BY <1>3, AcceptVotesMaps DEF GetVoteFails, chainState
  <2>2. Authority(a)!GetVoteFails
    BY <1>3, <2>1 DEF GetVoteFails, Authority!GetVoteFails
  <2> QED BY <2>2 DEF Authority!Machine
<1>4. CASE VoteReturns(a)
  <2>1. Authority(a)!AcceptVotes BY <1>4, AcceptVotesMaps DEF VoteReturns
  <2>2. Authority(a)!VoteReturns BY <1>4, <2>1 DEF VoteReturns, Authority!VoteReturns
  <2> QED BY <2>2 DEF Authority!Machine
<1> QED
  BY <1>1, <1>2, <1>3, <1>4, BootstrapMaps, SubmitDescriptorMaps, GetVoteMaps, SendVoteMaps,
     FetchConsensusMaps, ConfirmConsensusMaps, MissConsensusMaps
     DEF Machine, Authority!Machine

(* What runs beside the schedule. *)
LEMMA FetchReturnsMaps ==
  ASSUME NetworkInv, NEW a \in Authorities, NEW e \in Epochs, FetchReturns(a, e)
  PROVE  Authority(a)!FetchReturns(e)
<1> DEFINE m == auth[a]
           d == IF m.documents[e] = NoDocument THEN consensus[e] ELSE m.documents[e]
           ds == [m.documents EXCEPT ![e] = d]
           fs == [m.fetching EXCEPT ![e] = @ - 1]
           l == [m EXCEPT !.fetching = fs, !.documents = ds]
<1>0. m \in Locals BY DEF NetworkInv, TypeOK
<1>1. /\ UNCHANGED <<epoch, elapsed, consensus>> /\ m.fetching[e] > 0
      /\ m.fsm # "down" /\ m.call = "none" /\ consensus[e] # NoDocument
  BY DEF FetchReturns, Unlocked, clock, chainState
<1>2. auth'[a] = l BY <1>0 DEF FetchReturns, NetworkInv, TypeOK
<1>3. /\ [x \in Epochs |-> ds[x].genesis]
           = IF m.documents[e].genesis = 0
               THEN [[x \in Epochs |-> m.documents[x].genesis] EXCEPT ![e] = consensus[e].genesis]
               ELSE [x \in Epochs |-> m.documents[x].genesis]
      /\ consensus[e].genesis # 0
  <2>1. m.documents \in [Epochs -> Documents] BY <1>0, LocalFields
  <2>2. /\ consensus[e] = NoDocument <=> consensus[e].genesis = 0
        /\ m.documents[e] = NoDocument <=> m.documents[e].genesis = 0
    BY GenesisTells
  <2>3. ds = [x \in Epochs |-> IF x = e THEN d ELSE m.documents[x]] BY <2>1
  <2> HIDE DEF ds
  <2> QED BY <2>1, <2>2, <2>3, <1>1
<1> HIDE DEF ds, fs
<1>4. /\ l.fsm = m.fsm /\ l.votingEpoch = m.votingEpoch /\ l.genesisEpoch = m.genesisEpoch
      /\ l.timer = m.timer /\ l.call = m.call /\ l.readElapsed = m.readElapsed
      /\ l.documents = ds /\ l.descriptors = m.descriptors
      /\ l.fetching = fs /\ l.voted = m.voted
  BY <1>0 DEF Locals
<1> HIDE DEF l
<1>5. [x \in Epochs |-> auth'[a].documents[x].genesis] = [x \in Epochs |-> ds[x].genesis]
  BY <1>2, <1>4
<1>6. Authority(a)!Unlocked BY <1>1 DEF Authority!Unlocked
<1>7. Authority(a)!FetchEnds(e) BY <1>1, <1>2, <1>4 DEF Authority!FetchEnds, fs
<1>8. Authority(a)!NoDoc = 0 BY SameSchedule
<1> QED BY <1>1, <1>2, <1>3, <1>4, <1>5, <1>6, <1>7, <1>8
        DEF Authority!FetchReturns, Authority!clock, Authority!world

LEMMA FetchFailsMaps ==
  ASSUME NetworkInv, NEW a \in Authorities, NEW e \in Epochs, FetchFails(a, e)
  PROVE  Authority(a)!FetchFails(e)
<1> DEFINE m == auth[a]
           fs == [m.fetching EXCEPT ![e] = @ - 1]
           l == [m EXCEPT !.fetching = fs]
<1>0. m \in Locals BY DEF NetworkInv, TypeOK
<1>1. /\ UNCHANGED <<epoch, elapsed, consensus>> /\ m.fetching[e] > 0
  BY DEF FetchFails, clock, chainState
<1>2. auth'[a] = l BY <1>0 DEF FetchFails, NetworkInv, TypeOK
<1> HIDE DEF fs
<1>4. /\ l.fsm = m.fsm /\ l.votingEpoch = m.votingEpoch /\ l.genesisEpoch = m.genesisEpoch
      /\ l.timer = m.timer /\ l.call = m.call /\ l.readElapsed = m.readElapsed
      /\ l.documents = m.documents /\ l.descriptors = m.descriptors
      /\ l.fetching = fs /\ l.voted = m.voted
  BY <1>0 DEF Locals
<1> HIDE DEF l
<1>7. Authority(a)!FetchEnds(e) BY <1>1, <1>2, <1>4 DEF Authority!FetchEnds, fs
<1> QED BY <1>1, <1>2, <1>4, <1>7 DEF Authority!FetchFails, Authority!clock, Authority!world

LEMMA DescriptorUploadMaps ==
  ASSUME NetworkInv, NEW a \in Authorities, DescriptorUpload(a)
  PROVE  epoch + 1 \in 0 .. MaxEpoch + 1 /\ Authority(a)!DescriptorUpload(epoch + 1)
<1> DEFINE m == auth[a]
           l == [m EXCEPT !.descriptors = @ \cup {epoch + 1}]
<1>0. TypeOK /\ m \in Locals BY DEF NetworkInv, TypeOK
<1>1. /\ UNCHANGED <<epoch, elapsed, consensus>>
      /\ m.fsm # "down" /\ m.call = "none" /\ epoch + 1 \notin m.descriptors
      /\ m.documents[epoch + 1] = NoDocument
  BY DEF DescriptorUpload, AwaitsUpload, Unlocked, clock, chainState
<1>2. auth'[a] = l BY <1>0 DEF DescriptorUpload, TypeOK
<1>3. /\ l.fsm = m.fsm /\ l.votingEpoch = m.votingEpoch /\ l.genesisEpoch = m.genesisEpoch
      /\ l.timer = m.timer /\ l.call = m.call /\ l.readElapsed = m.readElapsed
      /\ l.documents = m.documents /\ l.descriptors = m.descriptors \cup {epoch + 1}
      /\ l.fetching = m.fetching /\ l.voted = m.voted
  BY <1>0 DEF Locals
<1> HIDE DEF l
<1>4. /\ epoch + 1 \in Epochs /\ epoch + 1 \in 0 .. MaxEpoch + 1
      /\ epoch + 1 \in epoch - 1 .. epoch + 1
  BY <1>0, EpochsAround
<1>5. [x \in Epochs |-> m.documents[x].genesis][epoch + 1] = 0
  BY <1>1, <1>4, NoDocumentIsDocument
<1>6. Authority(a)!Unlocked BY <1>1 DEF Authority!Unlocked
<1> QED BY <1>1, <1>2, <1>3, <1>4, <1>5, <1>6, SameSchedule
        DEF Authority!DescriptorUpload, Authority!clock, Authority!world

LEMMA CrashMaps ==
  ASSUME NetworkInv, NEW a \in Authorities, Crash(a) PROVE Authority(a)!Crash
<1> DEFINE m == auth[a]
           l == [Stopped EXCEPT !.voted = m.voted]
<1>1. UNCHANGED <<epoch, elapsed, consensus>> /\ m.fsm # "down" /\ auth'[a] = l
  BY DEF Crash, clock, NetworkInv, TypeOK
<1>2. /\ l.fsm = "down" /\ l.votingEpoch = 0 /\ l.genesisEpoch = 0
      /\ l.timer = 0 /\ l.call = "none" /\ l.readElapsed = 0
      /\ l.documents = [e \in Epochs |-> NoDocument] /\ l.descriptors = {}
      /\ l.fetching = [e \in Epochs |-> 0] /\ l.voted = m.voted
  BY DEF Stopped
<1> HIDE DEF l
<1>3. [x \in Epochs |-> auth'[a].documents[x].genesis] = [x \in Epochs |-> 0]
  BY <1>1, <1>2, NoDocumentIsDocument
<1> QED BY <1>1, <1>2, <1>3, SameSchedule
        DEF Authority!Crash, Authority!clock, Authority!world

LEMMA StartMaps ==
  ASSUME NetworkInv, NEW a \in Authorities, Start(a) PROVE Authority(a)!Start
<1> DEFINE m == auth[a]
           l == [m EXCEPT !.fsm = "bootstrap"]
<1>0. m \in Locals BY DEF NetworkInv, TypeOK
<1>1. /\ UNCHANGED <<epoch, elapsed, consensus>> /\ m.fsm = "down" /\ auth'[a] = l
  BY <1>0 DEF Start, clock, chainState, NetworkInv, TypeOK
<1>2. /\ l.fsm = "bootstrap" /\ l.votingEpoch = m.votingEpoch
      /\ l.genesisEpoch = m.genesisEpoch
      /\ l.timer = m.timer /\ l.call = m.call /\ l.readElapsed = m.readElapsed
      /\ l.documents = m.documents /\ l.descriptors = m.descriptors
      /\ l.fetching = m.fetching /\ l.voted = m.voted
  BY <1>0 DEF Locals
<1> HIDE DEF l
<1> QED BY <1>1, <1>2 DEF Authority!Start, Authority!clock, Authority!world

(* The chain settles, for every authority at once, what some authority     *)
(* voted: never before the descriptor block deadline.                      *)
LEMMA ChainSettlesMaps ==
  ASSUME NetworkInv, NEW e \in Epochs, ChainSettles(e), NEW a \in Authorities
  PROVE  Authority(a)!ChainSettles(e)
<1>0. TypeOK BY DEF NetworkInv
<1>1. consensus[e] = NoDocument /\ UNCHANGED <<clock, auth>> BY ChainSettlesEffect
<1>2. PICK doc \in Documents \ {NoDocument}, b \in Authorities :
        /\ consensus' = [consensus EXCEPT ![e] = doc]
        /\ e \in auth[b].voted /\ Continues(e, doc.genesis)
  BY ChainSettlesEffect
<1>3. e <= epoch \/ (e = epoch + 1 /\ elapsed >= DescriptorBlockDeadline)
  BY <1>2 DEF NetworkInv, LocalInv, NotEarly
<1> DEFINE chain == [x \in Epochs |-> consensus[x].genesis]
<1>4. chain[e] = 0 /\ chain' = [chain EXCEPT ![e] = doc.genesis]
  BY <1>0, <1>1, <1>2, NoDocumentIsDocument DEF TypeOK
<1>5. doc.genesis \in {e, chain[e - 1]} \ {0}
  BY <1>2 DEF Continues
<1>6. e # 0
  <2>1. 0 - 1 \notin Epochs BY NetworkEpochAssumption DEF Epochs
  <2> QED BY <1>2, <2>1 DEF Continues
<1> HIDE DEF chain
<1>7. Authority(a)!ChainSettles(e)
  BY <1>1, <1>3, <1>4, <1>5, <1>6, SameSchedule
     DEF Authority!ChainSettles, Authority!clock, clock, chain
<1> QED BY <1>7

(* A step of an authority is a step of no other. *)
LEMMA StepOfOne ==
  ASSUME NetworkInv, NEW b \in Authorities,
         Machine(b) \/ DescriptorUpload(b) \/ Crash(b) \/ Start(b)
  PROVE  /\ UNCHANGED <<epoch, elapsed, consensus>>
         /\ \A a \in Authorities \ {b} : auth'[a] = auth[a]
<1>0. auth \in [Authorities -> Locals] BY DEF NetworkInv, TypeOK
<1>1. CASE Bootstrap(b) \/ SubmitReturns(b) \/ NoDescriptorToSubmit(b) \/ GetVoteFails(b)
             \/ VoteReturns(b)
  BY <1>0, <1>1 DEF Bootstrap, SubmitReturns, NoDescriptorToSubmit, GetVoteFails,
     VoteReturns, AcceptDescriptorsFrom, AcceptVotes, Become, clock, chainState
<1>2. CASE FetchConsensus(b) \/ ConfirmConsensus(b) \/ MissConsensus(b)
  BY <1>0, <1>2 DEF FetchConsensus, ConfirmConsensus, MissConsensus, Become, clock,
     chainState
<1>3. CASE SubmitDescriptor(b) \/ GetVote(b) \/ SendVote(b)
  BY <1>0, <1>3 DEF SubmitDescriptor, GetVote, SendVote, clock, chainState
<1>4. CASE DescriptorUpload(b) \/ Crash(b) \/ Start(b)
  BY <1>0, <1>4 DEF DescriptorUpload, Crash, Start, clock, chainState
<1> QED BY <1>1, <1>2, <1>3, <1>4 DEF Machine

(* Every authority of the network behaves as ZkPkiFsm, whatever the others *)
(* do: what that module lets the world do to one authority is what the     *)
(* others, and the chain, can do to it.                                    *)
THEOREM EachImplementsFsm == Spec => ImplementsFsm
<1> DEFINE Maps(a) == \/ UNCHANGED <<epoch, elapsed, auth[a], consensus>>
                      \/ [Authority(a)!Next]_(Authority(a)!vars)
<1>1. Init => \A a \in Authorities : Authority(a)!Init
  BY InitMaps
<1>2. NetworkInv /\ [Next]_vars => \A a \in Authorities : Maps(a)
  <2> SUFFICES ASSUME NetworkInv, [Next]_vars, NEW a \in Authorities PROVE Maps(a)
    OBVIOUS
  <2>0. auth \in [Authorities -> Locals] BY DEF NetworkInv, TypeOK
  <2>1. CASE Tick
    BY <2>1, TickMaps DEF Authority!Next
  <2>2. ASSUME NEW b \in Authorities, Machine(b) \/ DescriptorUpload(b) \/ Crash(b) \/ Start(b)
        PROVE  Maps(a)
    <3>1. CASE b = a
      <4>1. Machine(a) => Authority(a)!Next BY MachineMaps DEF Authority!Next
      <4>2. DescriptorUpload(a) => Authority(a)!Next
        BY DescriptorUploadMaps DEF Authority!Next
      <4>3. Crash(a) \/ Start(a) => Authority(a)!Next
        BY CrashMaps, StartMaps DEF Authority!Next
      <4> QED BY <2>2, <3>1, <4>1, <4>2, <4>3
    <3>2. CASE b # a
      <4>1. UNCHANGED <<epoch, elapsed, consensus>> /\ auth'[a] = auth[a]
        BY <2>2, <3>2, StepOfOne
      <4> QED BY <4>1
    <3> QED BY <3>1, <3>2
  <2>3. ASSUME NEW b \in Authorities, NEW e \in Epochs, FetchReturns(b, e) \/ FetchFails(b, e)
        PROVE  Maps(a)
    <3>1. CASE b = a
      BY <2>3, <3>1, FetchReturnsMaps, FetchFailsMaps, SameSchedule DEF Authority!Next
    <3>2. CASE b # a
      <4>1. UNCHANGED <<epoch, elapsed, consensus>> /\ auth'[a] = auth[a]
        BY <2>0, <2>3, <3>2 DEF FetchReturns, FetchFails, clock, chainState
      <4> QED BY <4>1
    <3> QED BY <3>1, <3>2
  <2>4. ASSUME NEW e \in Epochs, ChainSettles(e) PROVE Maps(a)
    BY <2>4, ChainSettlesMaps DEF Authority!Next
  <2>5. CASE UNCHANGED vars BY <2>5 DEF vars, clock, chainState
  <2> QED BY <2>1, <2>2, <2>3, <2>4, <2>5 DEF Next
<1> QED BY <1>1, <1>2, NetworkInvariant, PTL DEF Spec, ImplementsFsm

=============================================================================
