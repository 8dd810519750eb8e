----------------------- MODULE DescriptorStoreProofs -----------------------
(***************************************************************************)
(* Proofs about DescriptorStore, for any number of connections, uploads    *)
(* and crashes: type correctness, that no descriptor is accepted beside    *)
(* another in one life of the process, and that the mix table is bounded.  *)
(* StoreInv is the inductive invariant.                                    *)
(***************************************************************************)
EXTENDS DescriptorStore, TLAPS

(* An upload that waits for the lock was sane in this epoch or the last.   *)
UploadsRecent ==
  \A c \in Connections :
    conn[c] # Idle => up /\ conn[c].epoch \in Epochs /\ conn[c].epoch \in epoch - 2 .. epoch + 1

(* The store holds nothing that restorePersistence can read. *)
DiskUnreadable ==
  \A k \in Kinds, e \in Epochs :
    disk[k][e] = NoRaw \/ \E d \in Descriptors : disk[k][e] = SignedUpload(d)

(* The mix table holds the epochs the last pruning left and those after.   *)
MixTableRecent ==
  \A e \in Epochs :
    tables["mix"][e] # None =>
      up /\ e <= epoch + 1 /\ e >= epoch - 4 /\ (pruned => e >= epoch - 3)

(* A descriptor accepted in this life is in the table still, unless it has *)
(* been pruned since: then its epoch is too old for any upload.            *)
AcceptedHeld ==
  \A x \in accepted :
    /\ x.upload.epoch \in Epochs /\ x.life <= crashes
    /\ x.life = crashes =>
         /\ up
         /\ \/ tables[x.upload.kind][x.upload.epoch] = x.upload.desc
            \/ x.upload.epoch + PreserveForPastEpochs < epoch

StoreInv ==
  /\ TypeOK
  /\ UploadsRecent
  /\ DiskUnreadable
  /\ MixTableRecent
  /\ AcceptedHeld
  /\ NoRenegingInOneLife

-----------------------------------------------------------------------------
LEMMA EpochsAround ==
  ASSUME TypeOK
  PROVE  /\ epoch \in Nat /\ epoch >= 3 /\ MaxEpoch \in Nat /\ epoch <= MaxEpoch
         /\ epoch >= MinEpoch /\ epoch + 1 \in Epochs
         /\ \A e \in SaneEpochs :
              e \in Epochs /\ e \in Int /\ e \in epoch - 2 .. epoch + 1
         /\ \A e \in Epochs : e \in Int
BY EpochAssumption DEF TypeOK, Epochs, SaneEpochs

(* An idle connection carries no upload. *)
LEMMA IdleIsNone == Idle \notin Uploads /\ \A u \in Uploads : u.desc \in Descriptors /\ u.desc # None
BY NoneAssumption DEF Idle, Uploads

(* Decoding what was stored yields nothing. *)
LEMMA NothingRestored ==
  ASSUME DiskUnreadable, NEW k \in Kinds, NEW e \in Epochs PROVE Restored(k, e) = None
<1>1. disk[k][e] = NoRaw \/ \E d \in Descriptors : disk[k][e] = SignedUpload(d)
  BY DEF DiskUnreadable
<1>2. Unmarshal(NoRaw) = None BY DEF Unmarshal, NoRaw
<1>3. \A d \in Descriptors : Unmarshal(SignedUpload(d)) = None
  BY DEF Unmarshal, SignedUpload
<1> QED BY <1>1, <1>2, <1>3 DEF Restored

LEMMA EmptyType ==
  /\ Empty \in [Kinds -> [Epochs -> Descriptors \cup {None}]]
  /\ \A k \in Kinds, e \in Epochs : Empty[k][e] = None
BY DEF Empty

LEMMA StoreInvInit == Init => StoreInv
<1> SUFFICES ASSUME Init PROVE StoreInv OBVIOUS
<1>1. TypeOK
  <2>1. epoch \in MinEpoch .. MaxEpoch /\ crashes \in 0 .. MaxCrashes
    BY EpochAssumption, CrashAssumption DEF Init
  <2>2. tables \in [Kinds -> [Epochs -> Descriptors \cup {None}]] BY EmptyType DEF Init
  <2>3. disk \in [Kinds -> [Epochs -> Raws \cup {NoRaw}]] BY Zenon DEF Init
  <2>4. /\ chain \in [Epochs -> Descriptors \cup {None}]
        /\ conn \in [Connections -> Uploads \cup {Idle}]
        /\ up \in BOOLEAN /\ pruned \in BOOLEAN
        /\ documents \subseteq Epochs /\ accepted \subseteq Answers
    BY DEF Init
  <2> QED BY <2>1, <2>2, <2>3, <2>4 DEF TypeOK
<1>2. UploadsRecent /\ DiskUnreadable BY DEF Init, UploadsRecent, DiskUnreadable
<1>3. MixTableRecent BY EmptyType DEF Init, MixTableRecent, Kinds
<1>4. AcceptedHeld /\ NoRenegingInOneLife BY DEF Init, AcceptedHeld, NoRenegingInOneLife
<1> QED BY <1>1, <1>2, <1>3, <1>4 DEF StoreInv

-----------------------------------------------------------------------------
(* Each step keeps the invariant. *)
LEMMA PostKeeps ==
  ASSUME StoreInv, NEW c \in Connections, NEW u \in Uploads, Post(c, u) PROVE StoreInv'
<1>0. TypeOK BY DEF StoreInv
<1>1. /\ up /\ u.epoch \in SaneEpochs /\ conn' = [conn EXCEPT ![c] = u]
      /\ UNCHANGED <<epoch, up, tables, documents, disk, chain, pruned, accepted, crashes>>
  BY DEF Post
<1>2. TypeOK' BY <1>0, <1>1 DEF TypeOK
<1>3. UploadsRecent'
  BY <1>0, <1>1, EpochsAround DEF StoreInv, UploadsRecent, TypeOK
<1>4. DiskUnreadable' BY <1>1 DEF StoreInv, DiskUnreadable
<1>5. MixTableRecent' BY <1>1 DEF StoreInv, MixTableRecent
<1>6. AcceptedHeld' BY <1>1 DEF StoreInv, AcceptedHeld
<1>7. NoRenegingInOneLife' BY <1>1 DEF StoreInv, NoRenegingInOneLife
<1> QED BY <1>2, <1>3, <1>4, <1>5, <1>6, <1>7 DEF StoreInv

(* An upload that is refused leaves all but its connection alone. *)
LEMMA RefusalKeeps ==
  ASSUME StoreInv, NEW c \in Connections, Reply(c, FALSE), UNCHANGED <<tables, disk>>
  PROVE  StoreInv'
<1>0. TypeOK BY DEF StoreInv
<1>1. /\ conn' = [conn EXCEPT ![c] = Idle]
      /\ UNCHANGED <<epoch, up, tables, documents, disk, chain, pruned, accepted, crashes>>
  BY DEF Reply
<1>2. TypeOK' BY <1>0, <1>1 DEF TypeOK
<1>3. UploadsRecent' BY <1>0, <1>1 DEF StoreInv, UploadsRecent, TypeOK
<1>4. DiskUnreadable' BY <1>1 DEF StoreInv, DiskUnreadable
<1>5. MixTableRecent' BY <1>1 DEF StoreInv, MixTableRecent
<1>6. AcceptedHeld' BY <1>1 DEF StoreInv, AcceptedHeld
<1>7. NoRenegingInOneLife' BY <1>1 DEF StoreInv, NoRenegingInOneLife
<1> QED BY <1>2, <1>3, <1>4, <1>5, <1>6, <1>7 DEF StoreInv

(* A descriptor uploaded again is refused, the same one included. *)
LEMMA UploadAgainKeeps ==
  ASSUME StoreInv, NEW c \in Connections, UploadAgain(c) PROVE StoreInv'
<1>1. \A d, e : (Marshal(d) = SignedUpload(e)) = FALSE
  BY DEF Marshal, SignedUpload
<1>2. Reply(c, FALSE) /\ UNCHANGED <<tables, disk>>
  BY <1>1 DEF UploadAgain, Reply
<1> QED BY <1>2, RefusalKeeps

(* An upload is accepted when the table has none for its epoch, which is   *)
(* too recent for one that was accepted in this life to be pruned yet.     *)
LEMMA UploadNewKeeps ==
  ASSUME StoreInv, NEW c \in Connections, UploadNew(c) PROVE StoreInv'
<1> DEFINE u == conn[c]
           x == [upload |-> u, life |-> crashes]
<1>0. TypeOK BY DEF StoreInv
<1>1. /\ up /\ u # Idle /\ tables[u.kind][u.epoch] = None
      /\ disk' = [disk EXCEPT ![u.kind][u.epoch] = SignedUpload(u.desc)] \/ UNCHANGED disk
      /\ tables' = [tables EXCEPT ![u.kind][u.epoch] = u.desc]
      /\ conn' = [conn EXCEPT ![c] = Idle]
      /\ accepted' = accepted \cup {x}
      /\ UNCHANGED <<epoch, up, documents, chain, pruned, crashes>>
  BY DEF UploadNew, Reply, Known
<1>2. u \in Uploads /\ u.kind \in Kinds /\ u.desc \in Descriptors /\ u.desc # None
  BY <1>0, <1>1, IdleIsNone DEF TypeOK, Uploads
<1>3. u.epoch \in Epochs /\ u.epoch \in epoch - 2 .. epoch + 1
  BY <1>1 DEF StoreInv, UploadsRecent
<1>4. /\ epoch \in Nat /\ crashes \in 0 .. MaxCrashes
      /\ tables \in [Kinds -> [Epochs -> Descriptors \cup {None}]]
      /\ disk \in [Kinds -> [Epochs -> Raws \cup {NoRaw}]]
  BY <1>0, EpochsAround DEF TypeOK
<1>5. \A k \in Kinds, e \in Epochs :
        tables'[k][e] = IF k = u.kind /\ e = u.epoch THEN u.desc ELSE tables[k][e]
  BY <1>1, <1>2, <1>3, <1>4
<1>6. \A k \in Kinds, e \in Epochs :
        disk'[k][e] = disk[k][e] \/ disk'[k][e] = SignedUpload(u.desc)
  BY <1>1, <1>2, <1>3, <1>4
<1>7. /\ UploadsRecent /\ DiskUnreadable /\ MixTableRecent /\ AcceptedHeld
      /\ NoRenegingInOneLife
  BY DEF StoreInv
<1>8. x \in Answers BY <1>2, <1>4 DEF Answers
<1>9. x.upload = u /\ x.life = crashes OBVIOUS
<1> HIDE DEF x, u
<1>10. TypeOK'
  <2>1. conn' \in [Connections -> Uploads \cup {Idle}] BY <1>0, <1>1 DEF TypeOK
  <2>2. tables' \in [Kinds -> [Epochs -> Descriptors \cup {None}]]
    BY <1>1, <1>2, <1>3, <1>4
  <2>3. disk' \in [Kinds -> [Epochs -> Raws \cup {NoRaw}]]
    <3>1. SignedUpload(u.desc) \in Raws \cup {NoRaw} BY <1>2 DEF Raws
    <3> DEFINE R == Raws \cup {NoRaw}
               raw == SignedUpload(u.desc)
    <3>2. disk \in [Kinds -> [Epochs -> R]] /\ raw \in R BY <1>4, <3>1
    <3>3. disk' = [disk EXCEPT ![u.kind][u.epoch] = raw] \/ disk' = disk BY <1>1
    <3> HIDE DEF R, raw
    <3>4. disk' \in [Kinds -> [Epochs -> R]] BY <1>2, <1>3, <3>2, <3>3
    <3> QED BY <3>4 DEF R
  <2> QED BY <1>0, <1>1, <1>8, <2>1, <2>2, <2>3 DEF TypeOK
<1>11. UploadsRecent' BY <1>0, <1>1, <1>7 DEF UploadsRecent, TypeOK
<1>12. DiskUnreadable' BY <1>2, <1>6, <1>7 DEF DiskUnreadable
<1>13. MixTableRecent'
  <2> SUFFICES ASSUME NEW e \in Epochs, tables'["mix"][e] # None
               PROVE  up' /\ e <= epoch' + 1 /\ e >= epoch' - 4 /\ (pruned' => e >= epoch' - 3)
    BY DEF MixTableRecent
  <2>1. CASE e = u.epoch BY <1>1, <1>3, <1>4, <2>1
  <2>2. CASE e # u.epoch
    <3>1. tables["mix"][e] # None BY <1>5, <2>2 DEF Kinds
    <3> QED BY <1>1, <1>7, <3>1 DEF MixTableRecent
  <2> QED BY <2>1, <2>2
<1>14. AcceptedHeld'
  <2> SUFFICES ASSUME NEW y \in accepted'
               PROVE  /\ y.upload.epoch \in Epochs /\ y.life <= crashes'
                      /\ y.life = crashes' =>
                           /\ up'
                           /\ \/ tables'[y.upload.kind][y.upload.epoch] = y.upload.desc
                              \/ y.upload.epoch + PreserveForPastEpochs < epoch'
    BY DEF AcceptedHeld
  <2>1. CASE y = x
    <3>1. crashes \in Nat BY <1>4, CrashAssumption
    <3> QED BY <1>1, <1>2, <1>3, <1>5, <1>9, <2>1, <3>1
  <2>2. CASE y \in accepted
    <3>1. /\ y.upload.epoch \in Epochs /\ y.upload.kind \in Kinds /\ y.life <= crashes
          /\ y.upload.desc \in Descriptors
      BY <1>0, <1>7, <2>2 DEF AcceptedHeld, TypeOK, Answers, Uploads
    <3>2. ASSUME y.life = crashes
          PROVE  \/ tables'[y.upload.kind][y.upload.epoch] = y.upload.desc
                 \/ y.upload.epoch + PreserveForPastEpochs < epoch
      <4>1. \/ tables[y.upload.kind][y.upload.epoch] = y.upload.desc
            \/ y.upload.epoch + PreserveForPastEpochs < epoch
        BY <1>7, <2>2, <3>2 DEF AcceptedHeld
      <4> QED BY <1>1, <1>5, <3>1, <4>1, NoneAssumption
    <3> QED BY <1>1, <3>1, <3>2
  <2> QED BY <1>1, <2>1, <2>2
<1>15. NoRenegingInOneLife'
  <2>1. ASSUME NEW y \in accepted, Same(y.upload, u), y.life = crashes PROVE FALSE
    <3>1. /\ \/ tables[u.kind][u.epoch] = y.upload.desc
             \/ u.epoch + PreserveForPastEpochs < epoch
          /\ y.upload.desc \in Descriptors
      BY <1>0, <1>7, <2>1 DEF AcceptedHeld, Same, TypeOK, Answers, Uploads
    <3> QED BY <1>1, <1>3, <1>4, <3>1, NoneAssumption DEF PreserveForPastEpochs
  <2>2. \A v, w : Same(v, w) <=> Same(w, v) BY DEF Same
  <2> QED BY <1>1, <1>7, <1>9, <2>1, <2>2 DEF NoRenegingInOneLife
<1> QED BY <1>10, <1>11, <1>12, <1>13, <1>14, <1>15 DEF StoreInv

(* A run of fsm() prunes the mix table. *)
LEMMA PruningKeeps ==
  ASSUME StoreInv, up, PruneDocuments, UNCHANGED <<epoch, up, conn, disk, accepted, crashes>>,
         chain' \in [Epochs -> Descriptors \cup {None}]
  PROVE  StoreInv'
<1>0. TypeOK BY DEF StoreInv
<1>1. /\ epoch \in Nat /\ \A e \in Epochs : e \in Int
      /\ tables \in [Kinds -> [Epochs -> Descriptors \cup {None}]]
  BY <1>0, EpochsAround DEF TypeOK
<1>2. /\ tables' \in [Kinds -> [Epochs -> Descriptors \cup {None}]]
      /\ \A k \in Kinds, e \in Epochs :
           tables'[k][e] = IF k = "mix" /\ Expired(e) THEN None ELSE tables[k][e]
      /\ documents' \subseteq documents /\ pruned' = TRUE
  BY <1>1 DEF PruneDocuments, Kinds
<1>3. TypeOK' BY <1>0, <1>2 DEF TypeOK
<1>4. UploadsRecent' BY DEF StoreInv, UploadsRecent
<1>5. DiskUnreadable' BY DEF StoreInv, DiskUnreadable
<1>6. MixTableRecent'
  <2> SUFFICES ASSUME NEW e \in Epochs, tables'["mix"][e] # None
               PROVE  up' /\ e <= epoch' + 1 /\ e >= epoch' - 4 /\ e >= epoch' - 3
    BY DEF MixTableRecent
  <2>1. ~Expired(e) /\ tables["mix"][e] # None BY <1>2 DEF Kinds
  <2> QED BY <1>1, <2>1 DEF StoreInv, MixTableRecent, Expired, PreserveForPastEpochs
<1>7. AcceptedHeld'
  <2> SUFFICES ASSUME NEW x \in accepted
               PROVE  /\ x.upload.epoch \in Epochs /\ x.life <= crashes
                      /\ x.life = crashes =>
                           /\ up
                           /\ \/ tables'[x.upload.kind][x.upload.epoch] = x.upload.desc
                              \/ x.upload.epoch + PreserveForPastEpochs < epoch
    BY DEF AcceptedHeld
  <2>1. x.upload.kind \in Kinds BY <1>0 DEF TypeOK, Answers, Uploads
  <2> QED BY <1>2, <2>1 DEF StoreInv, AcceptedHeld, Expired
<1>8. NoRenegingInOneLife' BY DEF StoreInv, NoRenegingInOneLife
<1> QED BY <1>3, <1>4, <1>5, <1>6, <1>7, <1>8 DEF StoreInv

LEMMA FetchReturnsKeeps ==
  ASSUME StoreInv, NEW e, FetchReturns(e) PROVE StoreInv'
<1>0. TypeOK BY DEF StoreInv
<1>1. /\ documents' = documents \cup {e} /\ e \in SaneEpochs
      /\ UNCHANGED <<epoch, up, conn, tables, disk, chain, pruned, accepted, crashes>>
  BY DEF FetchReturns
<1>2. TypeOK' BY <1>0, <1>1, EpochsAround DEF TypeOK
<1>3. UploadsRecent' /\ DiskUnreadable'
  BY <1>1 DEF StoreInv, UploadsRecent, DiskUnreadable
<1>4. MixTableRecent' BY <1>1 DEF StoreInv, MixTableRecent
<1>5. AcceptedHeld' BY <1>1 DEF StoreInv, AcceptedHeld
<1>6. NoRenegingInOneLife' BY <1>1 DEF StoreInv, NoRenegingInOneLife
<1> QED BY <1>2, <1>3, <1>4, <1>5, <1>6 DEF StoreInv

(* An epoch passes only when fsm() ran in it, and only over uploads of the *)
(* epoch before it or later.                                               *)
LEMMA TickKeeps == ASSUME StoreInv, Tick PROVE StoreInv'
<1>0. TypeOK BY DEF StoreInv
<1>1. /\ epoch < MaxEpoch /\ (up => pruned)
      /\ \A c \in Connections : conn[c] # Idle => conn[c].epoch >= epoch - 1
      /\ epoch' = epoch + 1 /\ pruned' = FALSE
      /\ UNCHANGED <<up, conn, tables, documents, disk, chain, accepted, crashes>>
  BY DEF Tick
<1>2. epoch \in Nat /\ \A e \in Epochs : e \in Int BY <1>0, EpochsAround
<1>3. TypeOK'
  <2>1. epoch' \in MinEpoch .. MaxEpoch
    <3>1. epoch \in MinEpoch .. MaxEpoch BY <1>0 DEF TypeOK
    <3> QED BY <1>1, <3>1, EpochAssumption
  <2>2. pruned' \in BOOLEAN BY <1>1
  <2> QED BY <1>0, <1>1, <2>1, <2>2, Zenon DEF TypeOK
<1>4. UploadsRecent' BY <1>1, <1>2 DEF StoreInv, UploadsRecent
<1>5. DiskUnreadable' BY <1>1 DEF StoreInv, DiskUnreadable
<1>6. MixTableRecent'
  <2> SUFFICES ASSUME NEW e \in Epochs, tables["mix"][e] # None
               PROVE  up /\ e <= epoch' + 1 /\ e >= epoch' - 4
    <3>1. \A e \in Epochs : tables'["mix"][e] = tables["mix"][e] BY <1>1
    <3>2. up' = up /\ pruned' = FALSE BY <1>1
    <3> QED BY <3>1, <3>2 DEF MixTableRecent
  <2>1. up /\ pruned /\ e <= epoch + 1 /\ e >= epoch - 3
    BY <1>1 DEF StoreInv, MixTableRecent
  <2> QED BY <1>1, <1>2, <2>1
<1>7. AcceptedHeld' BY <1>1, <1>2 DEF StoreInv, AcceptedHeld, PreserveForPastEpochs
<1>8. NoRenegingInOneLife' BY <1>1 DEF StoreInv, NoRenegingInOneLife
<1> QED BY <1>3, <1>4, <1>5, <1>6, <1>7, <1>8 DEF StoreInv

(* After a crash no descriptor was accepted in this life yet. *)
LEMMA CrashKeeps == ASSUME StoreInv, Crash PROVE StoreInv'
<1>0. TypeOK BY DEF StoreInv
<1>1. /\ crashes < MaxCrashes /\ crashes' = crashes + 1 /\ up' = FALSE
      /\ conn' = [c \in Connections |-> Idle] /\ tables' = Empty /\ documents' = {}
      /\ UNCHANGED <<epoch, disk, chain, pruned, accepted>>
  BY DEF Crash
<1>2. /\ crashes \in Nat /\ crashes' \in 0 .. MaxCrashes
      /\ \A x \in accepted : x.life \in 0 .. MaxCrashes
  BY <1>0, <1>1, CrashAssumption DEF TypeOK, Answers
<1>3. TypeOK' BY <1>0, <1>1, <1>2, EmptyType DEF TypeOK
<1>4. UploadsRecent' BY <1>1 DEF UploadsRecent
<1>5. DiskUnreadable' BY <1>1 DEF StoreInv, DiskUnreadable
<1>6. MixTableRecent' BY <1>1, EmptyType DEF MixTableRecent, Kinds
<1>7. AcceptedHeld' BY <1>1, <1>2 DEF StoreInv, AcceptedHeld
<1>8. NoRenegingInOneLife' BY <1>1 DEF StoreInv, NoRenegingInOneLife
<1> QED BY <1>3, <1>4, <1>5, <1>6, <1>7, <1>8 DEF StoreInv

LEMMA RestartKeeps == ASSUME StoreInv, Restart PROVE StoreInv'
<1>0. TypeOK BY DEF StoreInv
<1>1. /\ ~up /\ up' = TRUE
      /\ tables' = [k \in Kinds |-> [e \in Epochs |-> Restored(k, e)]]
      /\ UNCHANGED <<epoch, conn, documents, disk, chain, pruned, accepted, crashes>>
  BY DEF Restart
<1>2. \A k \in Kinds, e \in Epochs : Restored(k, e) = None
  BY NothingRestored DEF StoreInv
<1>3. tables' \in [Kinds -> [Epochs -> Descriptors \cup {None}]] BY <1>1, <1>2
<1>4. \A k \in Kinds, e \in Epochs : tables'[k][e] = None BY <1>1, <1>2
<1>5. TypeOK' BY <1>0, <1>1, <1>3 DEF TypeOK
<1>6. UploadsRecent' BY <1>1 DEF StoreInv, UploadsRecent
<1>7. DiskUnreadable' BY <1>1 DEF StoreInv, DiskUnreadable
<1>8. MixTableRecent' BY <1>4 DEF MixTableRecent, Kinds
<1>9. AcceptedHeld' BY <1>1 DEF StoreInv, AcceptedHeld
<1>10. NoRenegingInOneLife' BY <1>1 DEF StoreInv, NoRenegingInOneLife
<1> QED BY <1>5, <1>6, <1>7, <1>8, <1>9, <1>10 DEF StoreInv

-----------------------------------------------------------------------------
(* While the process runs, what it accepted is what it holds, until fsm()  *)
(* prunes it, and nothing is read back after a crash.                      *)
THEOREM StoreInvariant == Spec => []StoreInv
<1>1. StoreInv /\ [Next]_vars => StoreInv'
  <2> SUFFICES ASSUME StoreInv, [Next]_vars PROVE StoreInv' OBVIOUS
  <2>0. TypeOK BY DEF StoreInv
  <2>1. ASSUME NEW c \in Connections, NEW u \in Uploads, Post(c, u) PROVE StoreInv'
    BY <2>1, PostKeeps
  <2>2. ASSUME NEW c \in Connections, UploadAgain(c) \/ UploadLate(c) \/ UploadNew(c)
        PROVE  StoreInv'
    BY <2>2, UploadAgainKeeps, RefusalKeeps, UploadNewKeeps DEF UploadLate
  <2>3. CASE SubmitDescriptor
    <3>1. chain' \in [Epochs -> Descriptors \cup {None}]
      BY <2>0, <2>3, EpochsAround DEF SubmitDescriptor, TypeOK, Kinds
    <3> QED BY <2>3, <3>1, PruningKeeps DEF SubmitDescriptor
  <2>4. CASE OtherRun
    <3>1. chain' \in [Epochs -> Descriptors \cup {None}]
      BY <2>0, <2>4 DEF OtherRun, TypeOK
    <3> QED BY <2>4, <3>1, PruningKeeps DEF OtherRun
  <2>5. ASSUME NEW e \in UploadEpochs, FetchReturns(e) PROVE StoreInv'
    BY <2>5, FetchReturnsKeeps
  <2>6. CASE Tick \/ Crash \/ Restart
    BY <2>6, TickKeeps, CrashKeeps, RestartKeeps
  <2>7. CASE UNCHANGED vars
    <3>1. TypeOK' BY <2>0, <2>7 DEF vars, TypeOK
    <3>2. UploadsRecent' /\ DiskUnreadable'
      BY <2>7 DEF vars, StoreInv, UploadsRecent, DiskUnreadable
    <3>3. MixTableRecent' /\ AcceptedHeld' /\ NoRenegingInOneLife'
      BY <2>7 DEF vars, StoreInv, MixTableRecent, AcceptedHeld, NoRenegingInOneLife
    <3> QED BY <3>1, <3>2, <3>3 DEF StoreInv
  <2> QED BY <2>1, <2>2, <2>3, <2>4, <2>5, <2>6, <2>7 DEF Next
<1> QED BY StoreInvInit, <1>1, PTL DEF Spec

(* The tables, the store, the chain and the answers keep their types. *)
THEOREM StoreTypeCorrect == Spec => []TypeOK
<1>1. StoreInv => TypeOK BY DEF StoreInv
<1> QED BY <1>1, StoreInvariant, PTL

(* In one life of the process no node gets two descriptors accepted for an *)
(* epoch: one that waited for the lock over the end of an epoch, or was    *)
(* pruned meanwhile, included.                                             *)
THEOREM NoRenegingWhileUp == Spec => []NoRenegingInOneLife
<1>1. StoreInv => NoRenegingInOneLife BY DEF StoreInv
<1> QED BY <1>1, StoreInvariant, PTL

(* The mix table never holds a descriptor more than four epochs old. *)
THEOREM MixTableStaysBounded == Spec => []MixTableBounded
<1>1. StoreInv => MixTableBounded
  <2> SUFFICES ASSUME StoreInv, NEW e \in Epochs, tables["mix"][e] # None
               PROVE  e \in epoch - 4 .. epoch + 1
    BY DEF MixTableBounded
  <2>1. e \in Int /\ epoch \in Nat BY EpochsAround DEF StoreInv
  <2> QED BY <2>1 DEF StoreInv, MixTableRecent
<1> QED BY <1>1, StoreInvariant, PTL

=============================================================================
