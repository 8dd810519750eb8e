--------------------------- MODULE EpochConsensus ---------------------------
(***************************************************************************)
(* What the authorities and the appchain promise together: an epoch gets   *)
(* at most one consensus document, for good, and whatever copy of it an    *)
(* authority holds and serves is that document.  A document starts a       *)
(* genesis epoch of its own, or continues that of the epoch before.        *)
(***************************************************************************)
EXTENDS Integers

CONSTANTS Authorities, Epochs, Documents, NoDocument

VARIABLES
  chosen,     \* the consensus document of each epoch
  held        \* the copies each authority holds

(* An earlier network may have left documents behind. *)
Init ==
  /\ chosen \in [Epochs -> Documents \cup {NoDocument}]
  /\ held = [a \in Authorities |-> [e \in Epochs |-> NoDocument]]

(* The genesis epochs a document of epoch e may have: its own, or that of  *)
(* the document before it, carried on.                                     *)
Genesis(e) ==
  {e} \cup {chosen[p].genesis : p \in {q \in Epochs : q = e - 1 /\ chosen[q] # NoDocument}}

(* An epoch is decided once. *)
Choose(e) ==
  /\ UNCHANGED held
  /\ chosen[e] = NoDocument
  /\ \E doc \in Documents \ {NoDocument} :
       /\ doc.genesis \in Genesis(e)
       /\ chosen' = [chosen EXCEPT ![e] = doc]

Learn(a, e) ==
  /\ UNCHANGED chosen
  /\ chosen[e] # NoDocument /\ held[a][e] = NoDocument
  /\ held' = [held EXCEPT ![a][e] = chosen[e]]

(* The documents up to some epoch are dropped, all of them when an         *)
(* authority restarts.                                                     *)
Forget(a) ==
  /\ UNCHANGED chosen
  /\ \E last \in Epochs :
       held' = [held EXCEPT ![a] =
                  [e \in Epochs |-> IF e <= last THEN NoDocument ELSE @[e]]]

Next ==
  \/ \E e \in Epochs : Choose(e)
  \/ \E a \in Authorities, e \in Epochs : Learn(a, e)
  \/ \E a \in Authorities : Forget(a)

vars == <<chosen, held>>

Spec == Init /\ [][Next]_vars
=============================================================================
