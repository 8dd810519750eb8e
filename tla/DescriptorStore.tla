-------------------------- MODULE DescriptorStore --------------------------
(***************************************************************************)
(* How an authority takes, stores, forwards and loses the descriptors its  *)
(* nodes upload: the handlers of pki/server/wire_handler.go, the tables    *)
(* and the persistence store of state.go, the submission to the appchain,  *)
(* pruning, crashes and the restore after one.                             *)
(*                                                                         *)
(* An authorised node uploads as a mix (which covers gateways and service  *)
(* nodes) or as a replica; the two kinds have tables of their own.  What   *)
(* is not authorised or not well signed is refused before any of this.     *)
(***************************************************************************)
EXTENDS Integers, FiniteSets

CONSTANTS
  Connections,
  None,             \* a missing map entry
  Descriptors,      \* the descriptors a node may make up for an epoch
  UploadEpochs,     \* the epochs it uploads one for (bound)
  MinEpoch,         \* the epoch the history starts in
  MaxEpoch,         \* the clock stops in this epoch (bound)
  MaxCrashes,       \* how often the authority crashes (bound)
  CanFail           \* whether a write to the store may fail

ASSUME EpochAssumption ==
  MinEpoch \in Nat /\ MinEpoch >= 3 /\ MaxEpoch \in Nat /\ MinEpoch <= MaxEpoch
ASSUME CrashAssumption == MaxCrashes \in Nat /\ CanFail \in BOOLEAN

Kinds == {"mix", "replica"}
Epochs == MinEpoch - 1 .. MaxEpoch + 1
PreserveForPastEpochs == 3

ASSUME NoneAssumption == None \notin Descriptors

(* A descriptor travels, and is persisted, inside a signed upload; alone   *)
(* it is encoded otherwise.  Decoding an upload as a descriptor yields     *)
(* none: the identity key is not found where a descriptor has it.          *)
SignedUpload(desc) == <<"upload", desc>>
Marshal(desc) == <<"descriptor", desc>>
Unmarshal(raw) == IF raw[1] = "descriptor" THEN raw[2] ELSE None
NoRaw == <<"nothing", None>>
Raws == {SignedUpload(d) : d \in Descriptors} \cup {Marshal(d) : d \in Descriptors}

VARIABLES
  epoch,            \* the clock
  up,               \* the process runs
  conn,             \* the upload each connection carries past the epoch check
  tables,           \* s.descriptors and s.replicaDescriptors
  documents,        \* the epochs s.documents has
  disk,             \* the buckets of the persistence store
  chain,            \* the mix descriptors the chain has
  pruned,           \* fsm() ran in this epoch
  accepted,         \* the uploads answered DescriptorOk, and in which life
  crashes

vars == <<epoch, up, conn, tables, documents, disk, chain, pruned, accepted, crashes>>

Idle == [kind |-> "mix", epoch |-> 0, desc |-> None]
Uploads == [kind : Kinds, epoch : UploadEpochs, desc : Descriptors]
Answers == [upload : Uploads, life : 0 .. MaxCrashes]

TypeOK ==
  /\ epoch \in MinEpoch .. MaxEpoch
  /\ up \in BOOLEAN /\ pruned \in BOOLEAN
  /\ conn \in [Connections -> Uploads \cup {Idle}]
  /\ tables \in [Kinds -> [Epochs -> Descriptors \cup {None}]]
  /\ documents \subseteq Epochs
  /\ disk \in [Kinds -> [Epochs -> Raws \cup {NoRaw}]]
  /\ chain \in [Epochs -> Descriptors \cup {None}]
  /\ accepted \subseteq Answers
  /\ crashes \in 0 .. MaxCrashes

Empty == [k \in Kinds |-> [e \in Epochs |-> None]]

Init ==
  /\ epoch = MinEpoch
  /\ up = TRUE /\ pruned = FALSE
  /\ conn = [c \in Connections |-> Idle]
  /\ tables = Empty /\ documents = {}
  /\ disk = [k \in Kinds |-> [e \in Epochs |-> NoRaw]]
  /\ chain = [e \in Epochs |-> None]
  /\ accepted = {} /\ crashes = 0

-----------------------------------------------------------------------------
(* The handlers.  The epoch of an upload is checked before the lock is     *)
(* taken, and the lock may not be free before the next epoch.              *)

SaneEpochs == epoch - 1 .. epoch + 1

Post(c, u) ==
  /\ up /\ conn[c] = Idle
  /\ u.epoch \in SaneEpochs
  /\ conn' = [conn EXCEPT ![c] = u]
  /\ UNCHANGED <<epoch, up, tables, documents, disk, chain, pruned, accepted, crashes>>

Reply(c, ok) ==
  /\ conn' = [conn EXCEPT ![c] = Idle]
  /\ accepted' = IF ok THEN accepted \cup {[upload |-> conn[c], life |-> crashes]}
                       ELSE accepted
  /\ UNCHANGED <<epoch, up, documents, chain, pruned, crashes>>

Known(u) == tables[u.kind][u.epoch] # None

(* The stored descriptor is compared with the upload that came in. *)
UploadAgain(c) ==
  /\ up /\ conn[c] # Idle
  /\ Known(conn[c])
  /\ Reply(c, Marshal(tables[conn[c].kind][conn[c].epoch]) = SignedUpload(conn[c].desc))
  /\ UNCHANGED <<tables, disk>>

UploadLate(c) ==
  /\ up /\ conn[c] # Idle
  /\ ~Known(conn[c])
  /\ conn[c].epoch \in documents
  /\ Reply(c, FALSE)
  /\ UNCHANGED <<tables, disk>>

(* A failed write is fatal, in the end, but the upload is accepted. *)
UploadNew(c) ==
  LET u == conn[c]
  IN /\ up /\ u # Idle
     /\ ~Known(u)
     /\ u.epoch \notin documents
     /\ \/ disk' = [disk EXCEPT ![u.kind][u.epoch] = SignedUpload(u.desc)]
        \/ CanFail /\ UNCHANGED disk
     /\ tables' = [tables EXCEPT ![u.kind][u.epoch] = u.desc]
     /\ Reply(c, TRUE)

-----------------------------------------------------------------------------
(* The schedule and the clock. *)

(* Mutant: the pruning window ends with the current epoch. *)
ExpiredToday(e) == e <= epoch

Expired(e) == e + PreserveForPastEpochs < epoch

(* Mutant: descriptors are left out of the pruning. *)
PruneOnlyDocuments ==
  /\ documents' = {e \in documents : ~Expired(e)}
  /\ pruned' = TRUE
  /\ UNCHANGED tables

(* Replica descriptors are left out. *)
PruneDocuments ==
  /\ tables' = [tables EXCEPT !["mix"] =
                  [e \in Epochs |-> IF Expired(e) THEN None ELSE @[e]]]
  /\ documents' = {e \in documents : ~Expired(e)}
  /\ pruned' = TRUE

(* Mutant: the upload is submitted as it came in. *)
SubmitUpload ==
  /\ up
  /\ tables["mix"][epoch + 1] # None
  /\ chain' = [chain EXCEPT ![epoch + 1] =
                 IF @ = None THEN SignedUpload(tables["mix"][epoch + 1]) ELSE @]
  /\ PruneDocuments
  /\ UNCHANGED <<epoch, up, conn, disk, accepted, crashes>>

(* A run of fsm() that submits the descriptor of the epoch voted on, and   *)
(* any other.  The chain rejects a second descriptor for an epoch.         *)
SubmitDescriptor ==
  /\ up
  /\ tables["mix"][epoch + 1] # None
  /\ chain' = [chain EXCEPT ![epoch + 1] =
                 IF @ = None THEN tables["mix"][epoch + 1] ELSE @]
  /\ PruneDocuments
  /\ UNCHANGED <<epoch, up, conn, disk, accepted, crashes>>

OtherRun ==
  /\ up
  /\ PruneDocuments
  /\ UNCHANGED <<epoch, up, conn, disk, chain, accepted, crashes>>

(* A fetch stores the document of an epoch around the current one. *)
FetchReturns(e) ==
  /\ up
  /\ e \in SaneEpochs
  /\ documents' = documents \cup {e}
  /\ UNCHANGED <<epoch, up, conn, tables, disk, chain, pruned, accepted, crashes>>

(* A running authority runs fsm() in every epoch, and an upload waits for  *)
(* the lock until the next epoch at most (bound).                          *)
Tick ==
  /\ epoch < MaxEpoch
  /\ up => pruned
  /\ \A c \in Connections : conn[c] # Idle => conn[c].epoch >= epoch - 1
  /\ epoch' = epoch + 1
  /\ pruned' = FALSE
  /\ UNCHANGED <<up, conn, tables, documents, disk, chain, accepted, crashes>>

-----------------------------------------------------------------------------
Crash ==
  /\ up /\ crashes < MaxCrashes
  /\ crashes' = crashes + 1
  /\ up' = FALSE
  /\ conn' = [c \in Connections |-> Idle]
  /\ tables' = Empty /\ documents' = {}
  /\ UNCHANGED <<epoch, disk, chain, pruned, accepted>>

(* What restorePersistence finds in the store for the epochs around now.   *)
Restored(k, e) ==
  IF e \in SaneEpochs THEN Unmarshal(disk[k][e]) ELSE None

Restart ==
  /\ ~up
  /\ up' = TRUE
  /\ tables' = [k \in Kinds |-> [e \in Epochs |-> Restored(k, e)]]
  /\ UNCHANGED <<epoch, conn, documents, disk, chain, pruned, accepted, crashes>>

-----------------------------------------------------------------------------
Next ==
  \/ \E c \in Connections, u \in Uploads : Post(c, u)
  \/ \E c \in Connections : UploadAgain(c) \/ UploadLate(c) \/ UploadNew(c)
  \/ SubmitDescriptor \/ OtherRun
  \/ \E e \in UploadEpochs : FetchReturns(e)
  \/ Tick
  \/ Crash \/ Restart

Spec == Init /\ [][Next]_vars

-----------------------------------------------------------------------------
Same(u, w) == u.kind = w.kind /\ u.epoch = w.epoch

(* While it runs, an authority accepts one descriptor of a node for an     *)
(* epoch: those it has pruned are of epochs no upload is for any more,     *)
(* one that waited for the lock included.                                  *)
NoRenegingInOneLife ==
  \A x, y \in accepted :
    Same(x.upload, y.upload) /\ x.life = y.life => x.upload = y.upload

(* The descriptors of the nodes do not pile up, late uploads included.     *)
MixTableBounded ==
  \A e \in Epochs : tables["mix"][e] # None => e \in epoch - 4 .. epoch + 1

(* "If the descriptor changes, then it will be rejected to prevent nodes   *)
(* from reneging on uploads" (state.go:1770): over restarts too, as        *)
(* descriptors are persisted.                                              *)
NoReneging ==
  \A x, y \in accepted : Same(x.upload, y.upload) => x.upload = y.upload
=============================================================================
