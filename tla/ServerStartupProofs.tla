------------------------ MODULE ServerStartupProofs ------------------------
(***************************************************************************)
(* Proofs about ServerStartup, for any number of authorities that share an *)
(* identifier and any number of runs of genconfig and their processes.     *)
(***************************************************************************)
EXTENDS ServerStartup, TLAPS

(* What is on disk is a pair of keys, a private key, or nothing, and a      *)
(* private key is this run's as long as its public key is to be written.   *)
Paired(a) ==
  /\ HasPublic(a) => identity[a].private = identity[a].public
  /\ At(a, "identity_half") => identity[a].private = runs[a]
  /\ runs[a] # Missing
  /\ proc[a].at \in Identified => HasPrivate(a) /\ identity[a].private = identity[a].public

AllPaired == \A a \in Authorities : Paired(a)

(* So are the node's files, and the process holds their key once it has    *)
(* read it.                                                                *)
Registering == {"getting", "registering", "awaiting", "getting_again", "comparing"}
NodeKeyed == Registering \cup Serving

NodePaired(a) ==
  /\ node[a].public # Missing => node[a].private = node[a].public
  /\ proc[a].at \in NodeKeyed =>
       proc[a].nodeKey # Missing /\ node[a] = Pair(proc[a].nodeKey)

AllNodesPaired == \A a \in Authorities : NodePaired(a)

(* What is registered, or is to be, is the key of the node's files.        *)
Held(r) == r[2] # Missing /\ node[r[1]] = Pair(r[2])

AllHeld == \A r \in registry \cup pending : Held(r)

StartupInv == TypeOK /\ AllPaired /\ AllNodesPaired /\ AllHeld /\ ServesOnlyRegistered

-----------------------------------------------------------------------------
(* Nothing runs when the history starts.                                   *)
LEMMA StartupInit == Init => StartupInv
<1> SUFFICES ASSUME Init PROVE StartupInv
  OBVIOUS
<1>1. Pair(Missing) \in Pairs /\ Pair(Given) \in Pairs
  BY DEF Pair, Pairs, Keys, Missing, Given
<1>2. Off \in Processes
  BY DEF Off, Processes, Places, Keys, Missing
<1>3. TypeOK
  BY <1>1, <1>2 DEF Init, TypeOK, Given
<1>4. \A a \in Authorities : proc[a].at = "off"
  BY DEF Init, Off
<1>5. ASSUME NEW a \in Authorities
      PROVE  /\ identity[a].private = identity[a].public
             /\ node[a].private = node[a].public
             /\ runs[a] # Missing
  <2>1. /\ identity[a] \in {Pair(Missing), Pair(Given)}
        /\ node[a] \in {Pair(Missing), Pair(Given)}
        /\ runs[a] = Given
    BY DEF Init
  <2> QED BY <2>1 DEF Pair, Missing, Given
<1>6. AllPaired /\ AllNodesPaired
  BY <1>4, <1>5 DEF AllPaired, Paired, AllNodesPaired, NodePaired, At, Identified, NodeKeyed,
                    Registering, Serving
<1>7. AllHeld /\ ServesOnlyRegistered
  BY <1>4 DEF Init, AllHeld, ServesOnlyRegistered, Serving
<1> QED BY <1>3, <1>6, <1>7 DEF StartupInv

(* A process that goes on to another place changes nothing else.           *)
LEMMA GotoEffect ==
  ASSUME TypeOK, NEW a \in Authorities, NEW place \in Places, Goto(a, place)
  PROVE  /\ proc' \in [Authorities -> Processes]
         /\ proc'[a].at = place /\ proc'[a].nodeKey = proc[a].nodeKey
         /\ \A b \in Authorities \ {a} : proc'[b] = proc[b]
BY DEF TypeOK, Goto, Processes

(* A process that ends leaves the others alone.                            *)
LEMMA ExitEffect ==
  ASSUME TypeOK, NEW a \in Authorities, Exit(a)
  PROVE  /\ proc' \in [Authorities -> Processes]
         /\ proc'[a].at = "off"
         /\ \A b \in Authorities \ {a} : proc'[b] = proc[b]
BY DEF TypeOK, Exit, Off, Places, Processes, Keys, Missing

(* A process may move when it reaches no claim that it had not earned.     *)
LEMMA MoveKeeps ==
  ASSUME StartupInv, NEW a \in Authorities, UNCHANGED <<files, runs, registry>>,
         pending' \subseteq Registrations, \A r \in pending' : Held(r),
         proc' \in [Authorities -> Processes],
         \A b \in Authorities \ {a} : proc'[b] = proc[b],
         proc'[a].at = "identity_half" => proc[a].at = "identity_half",
         proc'[a].at \in Identified =>
           HasPrivate(a) /\ identity[a].private = identity[a].public,
         proc'[a].at \in NodeKeyed =>
           proc'[a].nodeKey # Missing /\ node[a] = Pair(proc'[a].nodeKey),
         proc'[a].at \in Serving => registry = {<<a, proc'[a].nodeKey>>}
  PROVE  StartupInv'
<1>1. /\ identity' = identity /\ link' = link /\ node' = node /\ config' = config
      /\ runs' = runs /\ registry' = registry
  BY DEF files
<1>2. TypeOK'
  BY <1>1 DEF StartupInv, TypeOK
<1>3. ASSUME NEW b \in Authorities PROVE Paired(b)' /\ NodePaired(b)'
  <2>1. CASE b = a
    BY <1>1, <2>1 DEF StartupInv, AllPaired, Paired, AllNodesPaired, NodePaired, At,
                      HasPrivate, HasPublic
  <2>2. CASE b # a
    BY <1>1, <2>2 DEF StartupInv, AllPaired, Paired, AllNodesPaired, NodePaired, At,
                      HasPrivate, HasPublic
  <2> QED BY <2>1, <2>2
<1>4. AllHeld'
  BY <1>1 DEF StartupInv, AllHeld, Held
<1>5. ServesOnlyRegistered'
  BY <1>1 DEF StartupInv, ServesOnlyRegistered
<1> QED BY <1>2, <1>3, <1>4, <1>5 DEF StartupInv, AllPaired, AllNodesPaired

(* The appchain's part of such a move, when nothing is sent.               *)
LEMMA ChainIdle ==
  ASSUME StartupInv, UNCHANGED chain
  PROVE  /\ UNCHANGED registry
         /\ pending' \subseteq Registrations /\ \A r \in pending' : Held(r)
BY DEF chain, StartupInv, TypeOK, AllHeld

(* Ending a process is always such a move.                                 *)
LEMMA ExitKeeps ==
  ASSUME StartupInv, NEW a \in Authorities, Exit(a), UNCHANGED <<files, runs, chain>>
  PROVE  StartupInv'
<1>1. TypeOK
  BY DEF StartupInv
<1>2. UNCHANGED <<files, runs, registry>>
  BY ChainIdle
<1> QED
  BY <1>1, <1>2, ChainIdle, ExitEffect, MoveKeeps
     DEF Identified, NodeKeyed, Registering, Serving

(* So is going on without a new claim.                                     *)
LEMMA GotoKeeps ==
  ASSUME StartupInv, NEW a \in Authorities, NEW place \in Places \ {"identity_half"},
         Goto(a, place), UNCHANGED <<files, runs, chain>>,
         place \in Identified =>
           HasPrivate(a) /\ identity[a].private = identity[a].public,
         place \notin NodeKeyed
  PROVE  StartupInv'
<1>1. TypeOK
  BY DEF StartupInv
<1>2. UNCHANGED <<files, runs, registry>>
  BY ChainIdle
<1> QED
  BY <1>1, <1>2, ChainIdle, GotoEffect, MoveKeeps DEF NodeKeyed

(* The claims on the keys, once earned, are kept.                          *)
LEMMA GoesOn ==
  ASSUME StartupInv, NEW a \in Authorities, NEW place \in NodeKeyed,
         proc[a].at \in NodeKeyed, Goto(a, place), UNCHANGED <<files, runs, registry>>,
         pending' \subseteq Registrations, \A r \in pending' : Held(r),
         place \in Serving => registry = {<<a, proc[a].nodeKey>>}
  PROVE  StartupInv'
<1>1. NodeKeyed \subseteq Identified /\ place \in Places /\ place # "identity_half"
  BY DEF NodeKeyed, Registering, Serving, Identified, Places
<1>2. HasPrivate(a) /\ identity[a].private = identity[a].public
  BY <1>1 DEF StartupInv, AllPaired, Paired
<1>3. proc[a].nodeKey # Missing /\ node[a] = Pair(proc[a].nodeKey)
  BY DEF StartupInv, AllNodesPaired, NodePaired
<1>4. TypeOK
  BY DEF StartupInv
<1> QED
  BY <1>1, <1>2, <1>3, <1>4, GotoEffect, MoveKeeps

(* Launching counts, and claims nothing.                                   *)
LEMMA LaunchKeeps ==
  ASSUME StartupInv, NEW a \in Authorities, Launch(a)
  PROVE  StartupInv'
<1>1. PICK g \in BOOLEAN :
        proc' = [proc EXCEPT ![a] = [Off EXCEPT !.at = "loading", !.genOnly = g]]
  BY DEF Launch
<1>2. /\ proc' \in [Authorities -> Processes]
      /\ proc'[a].at = "loading"
      /\ \A b \in Authorities \ {a} : proc'[b] = proc[b]
  BY <1>1 DEF StartupInv, TypeOK, Off, Places, Processes, Keys, Missing
<1>3. /\ identity' = identity /\ link' = link /\ node' = node /\ config' = config
      /\ registry' = registry /\ pending' = pending
  BY DEF Launch, files, chain
<1>4. /\ runs' \in [Authorities -> Nat]
      /\ runs'[a] # Missing
      /\ \A b \in Authorities \ {a} : runs'[b] = runs[b]
  BY DEF Launch, StartupInv, TypeOK, Missing
<1>5. TypeOK'
  BY <1>2, <1>3, <1>4 DEF StartupInv, TypeOK
<1>6. ASSUME NEW b \in Authorities PROVE Paired(b)' /\ NodePaired(b)'
  <2>1. CASE b = a
    BY <1>2, <1>3, <1>4, <2>1
       DEF StartupInv, AllPaired, Paired, AllNodesPaired, NodePaired, At, HasPrivate,
           HasPublic, Identified, NodeKeyed, Registering, Serving
  <2>2. CASE b # a
    BY <1>2, <1>3, <1>4, <2>2
       DEF StartupInv, AllPaired, Paired, AllNodesPaired, NodePaired, At, HasPrivate,
           HasPublic
  <2> QED BY <2>1, <2>2
<1>7. AllHeld'
  BY <1>3 DEF StartupInv, AllHeld, Held
<1>8. ServesOnlyRegistered'
  BY <1>2, <1>3 DEF StartupInv, ServesOnlyRegistered, Serving
<1> QED BY <1>5, <1>6, <1>7, <1>8 DEF StartupInv, AllPaired, AllNodesPaired

(* What genconfig leaves of a pair: all of it, if it was one, and in any   *)
(* case a pair, a private key or nothing.                                  *)
LEMMA WrittenPair ==
  ASSUME NEW pair \in Pairs, NEW key \in Nat \ {Missing}, NEW first \in BOOLEAN,
         NEW second \in BOOLEAN, second => first,
         pair.public # Missing => pair.private = pair.public
  PROVE  LET new == Written(pair, key, first, second) IN
         /\ new \in Pairs
         /\ new.public # Missing => new.private = new.public
         /\ pair.public # Missing => new = pair
BY DEF Written, Pairs, Keys, Missing

(* A run of genconfig keeps every pair, whole or cut short.                *)
LEMMA GenconfigKeeps ==
  ASSUME StartupInv, NEW a \in Authorities, Genconfig(a)
  PROVE  StartupInv'
<1>1. PICK n \in 0 .. 8 :
        /\ identity' = [identity EXCEPT ![a] = Written(@, runs'[a], n >= 1, n >= 2)]
        /\ link' = [link EXCEPT ![a] = LinkWritten(@, n >= 3, n >= 4)]
        /\ node' = [node EXCEPT ![a] = Written(@, runs'[a], n >= 5, n >= 6)]
        /\ config' = [config EXCEPT ![a] = Saved(@, n >= 7, n >= 8)]
  BY DEF Genconfig
<1>2. proc' = proc /\ registry' = registry /\ pending' = pending /\ ~At(a, "identity_half")
  BY DEF Genconfig, chain
<1>3. /\ runs' \in [Authorities -> Nat] /\ runs'[a] # Missing
      /\ \A b \in Authorities \ {a} : runs'[b] = runs[b]
  BY DEF Genconfig, StartupInv, TypeOK, Missing
<1>4. runs'[a] \in Nat \ {Missing}
  BY <1>3
<1>5. identity[a] \in Pairs /\ node[a] \in Pairs
  BY DEF StartupInv, TypeOK
<1>6. /\ identity' \in [Authorities -> Pairs]
      /\ identity'[a].public # Missing => identity'[a].private = identity'[a].public
      /\ identity[a].public # Missing => identity'[a] = identity[a]
      /\ \A b \in Authorities \ {a} : identity'[b] = identity[b]
  <2> DEFINE new == Written(identity[a], runs'[a], n >= 1, n >= 2)
  <2>1. identity[a].public # Missing => identity[a].private = identity[a].public
    BY DEF StartupInv, AllPaired, Paired, HasPublic
  <2>2. /\ new \in Pairs
        /\ new.public # Missing => new.private = new.public
        /\ identity[a].public # Missing => new = identity[a]
    <3>1. (n >= 1) \in BOOLEAN /\ (n >= 2) \in BOOLEAN /\ (n >= 2 => n >= 1)
      OBVIOUS
    <3> QED BY <1>4, <1>5, <2>1, <3>1, WrittenPair
  <2>3. identity' = [identity EXCEPT ![a] = new]
    BY <1>1
  <2> HIDE DEF new
  <2> QED BY <2>2, <2>3 DEF StartupInv, TypeOK
<1>7. /\ node' \in [Authorities -> Pairs]
      /\ node'[a].public # Missing => node'[a].private = node'[a].public
      /\ node[a].public # Missing => node'[a] = node[a]
      /\ \A b \in Authorities \ {a} : node'[b] = node[b]
  <2> DEFINE new == Written(node[a], runs'[a], n >= 5, n >= 6)
  <2>1. node[a].public # Missing => node[a].private = node[a].public
    BY DEF StartupInv, AllNodesPaired, NodePaired
  <2>2. /\ new \in Pairs
        /\ new.public # Missing => new.private = new.public
        /\ node[a].public # Missing => new = node[a]
    <3>1. (n >= 5) \in BOOLEAN /\ (n >= 6) \in BOOLEAN /\ (n >= 6 => n >= 5)
      OBVIOUS
    <3> QED BY <1>4, <1>5, <2>1, <3>1, WrittenPair
  <2>3. node' = [node EXCEPT ![a] = new]
    BY <1>1
  <2> HIDE DEF new
  <2> QED BY <2>2, <2>3 DEF StartupInv, TypeOK
<1>8. /\ link' \in [Authorities -> {"none", "private", "both"}]
      /\ config' \in [Authorities -> BOOLEAN]
  BY <1>1 DEF StartupInv, TypeOK, LinkWritten, Saved
<1>9. TypeOK'
  BY <1>2, <1>3, <1>6, <1>7, <1>8 DEF StartupInv, TypeOK
<1>10. ASSUME NEW b \in Authorities PROVE Paired(b)'
  <2>1. CASE b = a
    BY <1>2, <1>3, <1>6, <2>1 DEF StartupInv, AllPaired, Paired, At, HasPrivate, HasPublic
  <2>2. CASE b # a
    BY <1>2, <1>3, <1>6, <2>2 DEF StartupInv, AllPaired, Paired, At, HasPrivate, HasPublic
  <2> QED BY <2>1, <2>2
<1>11. ASSUME NEW b \in Authorities PROVE NodePaired(b)'
  <2>1. NodePaired(b)
    BY DEF StartupInv, AllNodesPaired
  <2>2. proc[b].at \in NodeKeyed => node[b].public # Missing
    BY <2>1 DEF NodePaired, Pair
  <2>3. b # a \/ node[b].public # Missing => node'[b] = node[b]
    BY <1>7
  <2>4. node'[b].public # Missing => node'[b].private = node'[b].public
    BY <1>7, <2>1, <2>3 DEF NodePaired
  <2>5. proc'[b].at \in NodeKeyed =>
          proc'[b].nodeKey # Missing /\ node'[b] = Pair(proc'[b].nodeKey)
    BY <1>2, <2>1, <2>2, <2>3 DEF NodePaired
  <2> QED BY <2>4, <2>5 DEF NodePaired
<1>12. ASSUME NEW r \in registry \cup pending PROVE Held(r)'
  <2>1. r[1] \in Authorities /\ Held(r)
    BY DEF StartupInv, TypeOK, Registrations, AllHeld
  <2>2. node'[r[1]] = node[r[1]]
    BY <1>7, <2>1 DEF Held, Pair
  <2> QED BY <2>1, <2>2 DEF Held
<1>13. ServesOnlyRegistered'
  BY <1>2 DEF StartupInv, ServesOnlyRegistered
<1> QED
  BY <1>2, <1>9, <1>10, <1>11, <1>12, <1>13
     DEF StartupInv, AllPaired, AllNodesPaired, AllHeld

(* The two halves of a key pair are written one by one.                    *)
LEMMA WriteIdentityKeeps ==
  ASSUME StartupInv, NEW a \in Authorities, WriteIdentity(a) \/ WritePublicIdentity(a)
  PROVE  StartupInv'
<1>1. /\ link' = link /\ node' = node /\ config' = config /\ runs' = runs
      /\ registry' = registry /\ pending' = pending
  BY DEF WriteIdentity, WritePublicIdentity, chain
<1>2. runs[a] \in Keys /\ runs[a] # Missing
  BY DEF StartupInv, TypeOK, AllPaired, Paired, Keys
<1>3. /\ identity' \in [Authorities -> Pairs]
      /\ identity'[a].private = runs[a]
      /\ \A b \in Authorities \ {a} : identity'[b] = identity[b]
  <2>1. CASE WriteIdentity(a)
    BY <1>2, <2>1 DEF WriteIdentity, StartupInv, TypeOK, Pairs
  <2>2. CASE WritePublicIdentity(a)
    BY <1>2, <2>2 DEF WritePublicIdentity, StartupInv, TypeOK, AllPaired, Paired, Pairs
  <2> QED BY <2>1, <2>2
<1>4. identity'[a].public \in {Missing, runs[a]}
  <2>1. CASE WriteIdentity(a)
    BY <2>1 DEF WriteIdentity, StartupInv, TypeOK, HasPublic, Pairs
  <2>2. CASE WritePublicIdentity(a)
    BY <2>2 DEF WritePublicIdentity, StartupInv, TypeOK, Pairs
  <2> QED BY <2>1, <2>2
<1>5. /\ proc' \in [Authorities -> Processes]
      /\ \A b \in Authorities \ {a} : proc'[b] = proc[b]
      /\ \/ proc'[a].at = "identity_half"
         \/ proc'[a].at = "link" /\ identity'[a].public = runs[a]
  <2>1. TypeOK /\ {"identity_half", "link"} \subseteq Places
    BY DEF StartupInv, Places
  <2>2. CASE WriteIdentity(a)
    BY <2>1, <2>2, GotoEffect DEF WriteIdentity
  <2>3. CASE WritePublicIdentity(a)
    BY <2>1, <2>3, GotoEffect DEF WritePublicIdentity, TypeOK, Pairs
  <2> QED BY <2>2, <2>3
<1>6. TypeOK'
  BY <1>1, <1>3, <1>5 DEF StartupInv, TypeOK
<1>7. ASSUME NEW b \in Authorities PROVE Paired(b)'
  <2>1. CASE b = a
    BY <1>1, <1>2, <1>3, <1>4, <1>5, <2>1
       DEF Paired, At, HasPrivate, HasPublic, Identified
  <2>2. CASE b # a
    BY <1>1, <1>3, <1>5, <2>2 DEF StartupInv, AllPaired, Paired, At, HasPrivate, HasPublic
  <2> QED BY <2>1, <2>2
<1>8. AllNodesPaired'
  BY <1>1, <1>5 DEF StartupInv, AllNodesPaired, NodePaired, NodeKeyed, Registering, Serving
<1>9. AllHeld'
  BY <1>1 DEF StartupInv, AllHeld, Held
<1>10. ServesOnlyRegistered'
  BY <1>1, <1>5 DEF StartupInv, ServesOnlyRegistered, Serving
<1> QED BY <1>6, <1>7, <1>8, <1>9, <1>10 DEF StartupInv, AllPaired

(* The appchain registers an identifier only once.                         *)
LEMMA ChainKeeps ==
  ASSUME StartupInv, ChainRegisters
  PROVE  StartupInv'
<1>1. PICK r \in pending :
        /\ pending' = pending \ {r}
        /\ registry' = IF registry = {} THEN {r} ELSE registry
        /\ UNCHANGED <<files, runs, proc>>
  BY DEF ChainRegisters
<1>2. /\ identity' = identity /\ link' = link /\ node' = node /\ config' = config
      /\ runs' = runs /\ proc' = proc
  BY <1>1 DEF files
<1>3. TypeOK'
  BY <1>1, <1>2 DEF StartupInv, TypeOK
<1>4. AllPaired' /\ AllNodesPaired'
  BY <1>2 DEF StartupInv, AllPaired, Paired, AllNodesPaired, NodePaired, At, HasPrivate,
              HasPublic
<1>5. AllHeld'
  BY <1>1, <1>2 DEF StartupInv, AllHeld, Held
<1>6. ServesOnlyRegistered'
  BY <1>1, <1>2 DEF StartupInv, ServesOnlyRegistered
<1> QED BY <1>3, <1>4, <1>5, <1>6 DEF StartupInv

(* No claim is about the link keys.                                        *)
LEMMA LinkKeeps ==
  ASSUME StartupInv, NEW a \in Authorities, WriteLink(a) \/ WritePublicLink(a)
  PROVE  StartupInv'
<1>1. /\ identity' = identity /\ node' = node /\ config' = config /\ runs' = runs
      /\ registry' = registry /\ pending' = pending
  BY DEF WriteLink, WritePublicLink, chain
<1>2. link' \in [Authorities -> {"none", "private", "both"}]
  BY DEF WriteLink, WritePublicLink, StartupInv, TypeOK
<1>3. /\ proc' \in [Authorities -> Processes]
      /\ proc'[a].at \in {"link_half", "keyed"} /\ proc[a].at \in {"link", "link_half"}
      /\ \A b \in Authorities \ {a} : proc'[b] = proc[b]
  <2>1. TypeOK /\ {"link_half", "keyed"} \subseteq Places
    BY DEF StartupInv, Places
  <2> QED BY <2>1, GotoEffect DEF WriteLink, WritePublicLink, At
<1>4. TypeOK'
  BY <1>1, <1>2, <1>3 DEF StartupInv, TypeOK
<1>5. ASSUME NEW b \in Authorities PROVE Paired(b)'
  <2>1. CASE b = a
    BY <1>1, <1>3, <2>1
       DEF StartupInv, AllPaired, Paired, At, HasPrivate, HasPublic, Identified, Places
  <2>2. CASE b # a
    BY <1>1, <1>3, <2>2 DEF StartupInv, AllPaired, Paired, At, HasPrivate, HasPublic
  <2> QED BY <2>1, <2>2
<1>6. AllNodesPaired'
  BY <1>1, <1>3 DEF StartupInv, AllNodesPaired, NodePaired, NodeKeyed, Registering, Serving
<1>7. AllHeld'
  BY <1>1 DEF StartupInv, AllHeld, Held
<1>8. ServesOnlyRegistered'
  BY <1>1, <1>3 DEF StartupInv, ServesOnlyRegistered, Serving
<1> QED BY <1>4, <1>5, <1>6, <1>7, <1>8 DEF StartupInv, AllPaired

(* Reading or making the keys leaves a pair, or half of one, on disk.      *)
LEMMA ReadKeysKeeps ==
  ASSUME StartupInv, NEW a \in Authorities, ReadKeys(a)
  PROVE  StartupInv'
<1>1. CASE IdentityFound(a)
  <2>1. HasPrivate(a) /\ identity[a].private = identity[a].public
    BY <1>1 DEF IdentityFound, StartupInv, AllPaired, Paired
  <2>2. "link" \in Places \ {"identity_half"} /\ "link" \notin NodeKeyed
    BY DEF Places, NodeKeyed, Registering, Serving
  <2> QED BY <1>1, <2>1, <2>2, GotoKeeps DEF IdentityFound
<1>2. CASE WriteIdentity(a) \/ WritePublicIdentity(a)
  BY <1>2, WriteIdentityKeeps
<1>3. CASE \/ IdentityHalved(a) \/ LinkHalved(a) \/ NilLinkKey(a) \/ KeysOnly(a)
           \/ NodeKeyMissing(a)
  BY <1>3, ExitKeeps DEF IdentityHalved, LinkHalved, NilLinkKey, KeysOnly, NodeKeyMissing
<1>4. CASE LinkFound(a)
  <2>1. /\ proc' \in [Authorities -> Processes]
        /\ proc'[a].at = "keyed" /\ proc[a].at = "link"
        /\ \A b \in Authorities \ {a} : proc'[b] = proc[b]
    BY <1>4 DEF LinkFound, At, StartupInv, TypeOK, Processes, Places
  <2>2. HasPrivate(a) /\ identity[a].private = identity[a].public
    BY <2>1 DEF StartupInv, AllPaired, Paired, Identified, Places
  <2>3. UNCHANGED <<files, runs, chain>>
    BY <1>4 DEF LinkFound
  <2> QED
    BY <2>1, <2>2, <2>3, ChainIdle, MoveKeeps DEF NodeKeyed, Registering, Serving
<1>5. CASE WriteLink(a) \/ WritePublicLink(a)
  BY <1>5, LinkKeeps
<1>6. CASE KeysLoaded(a)
  <2>1. /\ proc' \in [Authorities -> Processes]
        /\ proc'[a].at = "getting" /\ proc'[a].nodeKey = node[a].public
        /\ proc[a].at = "keyed"
        /\ \A b \in Authorities \ {a} : proc'[b] = proc[b]
    BY <1>6 DEF KeysLoaded, At, StartupInv, TypeOK, Processes, Places, Pairs
  <2>2. HasPrivate(a) /\ identity[a].private = identity[a].public
    BY <2>1 DEF StartupInv, AllPaired, Paired, Identified, Places
  <2>3. node[a].public # Missing /\ node[a] = Pair(node[a].public)
    BY <1>6 DEF KeysLoaded, StartupInv, TypeOK, AllNodesPaired, NodePaired, Pair, Pairs
  <2>4. UNCHANGED <<files, runs, chain>>
    BY <1>6 DEF KeysLoaded
  <2> QED
    BY <2>1, <2>2, <2>3, <2>4, ChainIdle, MoveKeeps DEF Serving
<1> QED BY <1>1, <1>2, <1>3, <1>4, <1>5, <1>6 DEF ReadKeys

(* Only the registered authority gets past the comparison of keys.         *)
LEMMA RegisterNodeKeeps ==
  ASSUME StartupInv, NEW a \in Authorities, RegisterNode(a)
  PROVE  StartupInv'
<1>1. /\ {"getting", "registering", "awaiting", "getting_again", "comparing", "store"}
           \subseteq NodeKeyed
      /\ {"registering", "awaiting", "getting_again", "comparing"} \cap Serving = {}
  BY DEF NodeKeyed, Registering, Serving
<1>2. CASE GetNode(a)
  BY <1>1, <1>2, ChainIdle, GoesOn DEF GetNode, At
<1>3. CASE Register(a)
  <2>1. /\ proc[a].at \in NodeKeyed /\ Goto(a, "awaiting")
        /\ UNCHANGED <<files, runs, registry>>
    BY <1>1, <1>3 DEF Register, At
  <2>2. /\ proc[a].nodeKey # Missing /\ node[a] = Pair(proc[a].nodeKey)
        /\ <<a, proc[a].nodeKey>> \in Registrations
    BY <2>1 DEF StartupInv, AllNodesPaired, NodePaired, TypeOK, Processes, Registrations
  <2>3. Held(<<a, proc[a].nodeKey>>)
    BY <2>2 DEF Held
  <2>4. pending' \subseteq pending \cup {<<a, proc[a].nodeKey>>}
    BY <1>3 DEF Register
  <2>5. pending' \subseteq Registrations /\ \A r \in pending' : Held(r)
    BY <2>2, <2>3, <2>4 DEF StartupInv, TypeOK, AllHeld
  <2> QED BY <1>1, <2>1, <2>5, GoesOn
<1>4. CASE RegisterFails(a)
  BY <1>4, ExitKeeps DEF RegisterFails
<1>5. CASE RegisterReturns(a)
  BY <1>1, <1>5, ChainIdle, GoesOn DEF RegisterReturns, At
<1>6. CASE GetNodeAgain(a)
  BY <1>1, <1>6, ChainIdle, GoesOn, ExitKeeps DEF GetNodeAgain, At
<1>7. CASE CompareKeys(a)
  BY <1>1, <1>7, ChainIdle, GoesOn, ExitKeeps DEF CompareKeys, At
<1> QED BY <1>2, <1>3, <1>4, <1>5, <1>6, <1>7 DEF RegisterNode

(* Every step keeps the invariant.                                         *)
LEMMA StartupStep == StartupInv /\ [Next]_vars => StartupInv'
<1> SUFFICES ASSUME StartupInv, [Next]_vars PROVE StartupInv'
  OBVIOUS
<1>1. ASSUME NEW a \in Authorities, Genconfig(a) PROVE StartupInv'
  BY <1>1, GenconfigKeeps
<1>2. ASSUME NEW a \in Authorities, Launch(a) PROVE StartupInv'
  BY <1>2, LaunchKeeps
<1>3. ASSUME NEW a \in Authorities, Start(a) PROVE StartupInv'
  <2>1. CASE Load(a)
    <3>1. /\ "identity" \in Places \ {"identity_half"} /\ "identity" \notin NodeKeyed
          /\ "identity" \notin Identified
      BY DEF Places, Identified, NodeKeyed, Registering, Serving
    <3>2. CASE Goto(a, "identity")
      BY <2>1, <3>1, <3>2, GotoKeeps DEF Load
    <3>3. CASE Exit(a)
      BY <2>1, <3>3, ExitKeeps DEF Load
    <3> QED BY <2>1, <3>2, <3>3 DEF Load
  <2>2. CASE ReadKeys(a)
    BY <2>2, ReadKeysKeeps
  <2>3. CASE RegisterNode(a)
    BY <2>3, RegisterNodeKeeps
  <2>4. CASE OpenStore(a) \/ Listen(a) \/ HandleSignals(a)
    <3>1. registry = {<<a, proc[a].nodeKey>>}
      BY <2>4 DEF OpenStore, Listen, HandleSignals, At, Serving, StartupInv,
                  ServesOnlyRegistered
    <3>2. proc[a].at \in NodeKeyed /\ UNCHANGED <<files, runs, chain>>
      BY <2>4 DEF OpenStore, Listen, HandleSignals, At, NodeKeyed, Serving
    <3>3. {"listening", "starting", "running"} \subseteq NodeKeyed
      BY DEF NodeKeyed, Serving
    <3>4. CASE Exit(a)
      BY <2>4, <3>4, ExitKeeps DEF OpenStore, Listen, HandleSignals
    <3>5. CASE Goto(a, "listening") \/ Goto(a, "starting") \/ Goto(a, "running")
      BY <3>1, <3>2, <3>3, <3>5, ChainIdle, GoesOn
    <3> QED BY <2>4, <3>4, <3>5 DEF OpenStore, Listen, HandleSignals
  <2>5. CASE Halt(a)
    BY <2>5, ExitKeeps DEF Halt
  <2> QED BY <1>3, <2>1, <2>2, <2>3, <2>4, <2>5 DEF Start
<1>4. CASE ChainRegisters
  BY <1>4, ChainKeeps
<1>5. ASSUME NEW a \in Authorities, Signal(a) PROVE StartupInv'
  <2>1. CASE Exit(a)
    BY <1>5, <2>1, ExitKeeps DEF Signal
  <2>2. CASE ~Exit(a)
    <3>1. proc' = [proc EXCEPT ![a].signalled = TRUE,
                               ![a].at = IF @ = "running" THEN "halting" ELSE @]
      BY <1>5, <2>2 DEF Signal
    <3>2. /\ proc' \in [Authorities -> Processes]
          /\ proc'[a].at = IF proc[a].at = "running" THEN "halting" ELSE proc[a].at
          /\ proc'[a].nodeKey = proc[a].nodeKey
          /\ \A b \in Authorities \ {a} : proc'[b] = proc[b]
      BY <3>1 DEF StartupInv, TypeOK, Places, Processes
    <3>3. UNCHANGED <<files, runs, chain>>
      BY <1>5 DEF Signal
    <3>4. proc'[a].at \in Identified =>
            HasPrivate(a) /\ identity[a].private = identity[a].public
      BY <3>2 DEF StartupInv, AllPaired, Paired, Identified, Places
    <3>5. proc'[a].at \in NodeKeyed =>
            proc'[a].nodeKey # Missing /\ node[a] = Pair(proc'[a].nodeKey)
      BY <3>2 DEF StartupInv, AllNodesPaired, NodePaired, NodeKeyed, Serving
    <3>6. proc'[a].at \in Serving => registry = {<<a, proc'[a].nodeKey>>}
      BY <3>2 DEF StartupInv, ServesOnlyRegistered, Serving
    <3> QED BY <3>2, <3>3, <3>4, <3>5, <3>6, ChainIdle, MoveKeeps
  <2> QED BY <2>1, <2>2
<1>6. ASSUME NEW a \in Authorities, Crash(a) PROVE StartupInv'
  BY <1>6, ExitKeeps DEF Crash
<1>7. CASE UNCHANGED vars
  <2>1. /\ identity' = identity /\ link' = link /\ node' = node /\ config' = config
        /\ runs' = runs /\ proc' = proc /\ registry' = registry /\ pending' = pending
    BY <1>7 DEF vars
  <2>2. TypeOK' /\ ServesOnlyRegistered'
    BY <2>1 DEF StartupInv, TypeOK, ServesOnlyRegistered
  <2>3. AllPaired' /\ AllNodesPaired' /\ AllHeld'
    BY <2>1 DEF StartupInv, AllPaired, Paired, AllNodesPaired, NodePaired, AllHeld, Held,
                At, HasPrivate, HasPublic
  <2> QED BY <2>2, <2>3 DEF StartupInv
<1> QED
  BY <1>1, <1>2, <1>3, <1>4, <1>5, <1>6, <1>7 DEF Next

-----------------------------------------------------------------------------
(* The invariant holds in every state.                                     *)
THEOREM StartupInvariant == Spec => []StartupInv
BY StartupInit, StartupStep, PTL DEF Spec

(* Every variable keeps its type.                                          *)
THEOREM StartupTypeCorrect == Spec => []TypeOK
<1>1. StartupInv => TypeOK
  BY DEF StartupInv
<1> QED
  BY <1>1, StartupInvariant, PTL

(* However often a launch is cut short, the identity files that an         *)
(* authority goes on with are one key pair.                                *)
THEOREM IdentityIsOnePair == Spec => []KeyPairMatches
<1>1. StartupInv => KeyPairMatches
  BY DEF StartupInv, AllPaired, Paired, KeyPairMatches
<1> QED
  BY <1>1, StartupInvariant, PTL

(* However many authorities race for an identifier, only the one whose key *)
(* the appchain registered serves.                                         *)
THEOREM OnlyTheRegisteredServes == Spec => []ServesOnlyRegistered
<1>1. StartupInv => ServesOnlyRegistered
  BY DEF StartupInv
<1> QED
  BY <1>1, StartupInvariant, PTL

(* The key registered for a node stays the key of its files, however often *)
(* genconfig runs again and wherever it is cut short.                      *)
THEOREM RegisteredKeyKept == Spec => []NodeKeyKept
<1>1. StartupInv => NodeKeyKept
  BY DEF StartupInv, TypeOK, Registrations, AllHeld, Held, NodeKeyKept
<1> QED
  BY <1>1, StartupInvariant, PTL
=============================================================================
