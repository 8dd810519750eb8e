--------------------------- MODULE ServerStartup ---------------------------
(***************************************************************************)
(* The start of an authority: the key files and configuration that         *)
(* genconfig writes, and from main() to the end of server.New the keys,    *)
(* the registration of its node on the appchain, the store, the listeners, *)
(* and the signals and crashes that meet it on the way.  The authorities   *)
(* of the model are configured with one node identifier, by mistake (it is *)
(* the type of the node when none is given), each with its own node.       *)
(*                                                                         *)
(* ServerLifecycle goes on where New returns.                              *)
(***************************************************************************)
EXTENDS Naturals

CONSTANTS
  Authorities,
  MaxRuns           \* how often each one's genconfig and process are run (bound)

ASSUME RunsAssumption == MaxRuns \in [Authorities -> Nat]

(* A key pair is the number of the run that generated it, or Given when it *)
(* was put in its directory beforehand; Missing is no file.                *)
Missing == 0
Given == 1

VARIABLES
  identity,         \* the key pair each of the two identity files belongs to
  link,             \* which link key files exist
  node,             \* the identity files of the node
  config,           \* whether the configuration can be loaded
  runs,             \* the number of the last run, counted on from Given
  proc,             \* the process
  registry,         \* the key that the appchain has for the identifier, if any
  pending           \* the registrations the appchain has yet to settle

vars == <<identity, link, node, config, runs, proc, registry, pending>>
files == <<identity, link, node, config>>
chain == <<registry, pending>>

Places == {"off", "loading", "identity", "identity_half", "link", "link_half", "keyed",
           "getting", "registering", "awaiting", "getting_again", "comparing", "store",
           "listening", "starting", "running", "halting"}

Off == [at |-> "off", genOnly |-> FALSE, linkKey |-> FALSE, nodeKey |-> Missing,
        signalled |-> FALSE]

Keys == Nat
Pairs == [private : Keys, public : Keys]
Processes == [at : Places, genOnly : BOOLEAN, linkKey : BOOLEAN, nodeKey : Keys,
              signalled : BOOLEAN]

(* A node is registered by its authority, with a key.                      *)
Registrations == Authorities \X Keys

TypeOK ==
  /\ identity \in [Authorities -> Pairs]
  /\ link \in [Authorities -> {"none", "private", "both"}]
  /\ node \in [Authorities -> Pairs]
  /\ config \in [Authorities -> BOOLEAN]
  /\ runs \in [Authorities -> Nat]
  /\ proc \in [Authorities -> Processes]
  /\ registry \subseteq Registrations
  /\ pending \subseteq Registrations

Pair(k) == [private |-> k, public |-> k]

(* The directories are empty, or prepared by hand with a configuration and *)
(* some of the key pairs.                                                  *)
Init ==
  /\ config \in [Authorities -> BOOLEAN]
  /\ identity \in [Authorities -> {Pair(Missing), Pair(Given)}]
  /\ link \in [Authorities -> {"none", "both"}]
  /\ node \in [Authorities -> {Pair(Missing), Pair(Given)}]
  /\ \A a \in Authorities : ~config[a] =>
       identity[a] = Pair(Missing) /\ link[a] = "none" /\ node[a] = Pair(Missing)
  /\ runs = [a \in Authorities |-> Given]
  /\ proc = [a \in Authorities |-> Off]
  /\ registry = {} /\ pending = {}

-----------------------------------------------------------------------------
At(a, place) == proc[a].at = place
Goto(a, place) == proc' = [proc EXCEPT ![a].at = place]

(* The process ends: os.Exit, a panic, a fatal log entry, or a kill. *)
Exit(a) == proc' = [proc EXCEPT ![a] = Off]

-----------------------------------------------------------------------------
(* genconfig. *)

(* Mutant: a pair is generated on every run. *)
WrittenAnew(pair, key, private, public) ==
  [private |-> IF private THEN key ELSE pair.private,
   public |-> IF public THEN key ELSE pair.public]

(* A pair whose public file can be read is kept, any other is generated    *)
(* and written, the private file first.                                    *)
Written(pair, key, private, public) ==
  IF pair.public # Missing THEN pair
  ELSE [private |-> IF private THEN key ELSE pair.private,
        public |-> IF public THEN key ELSE Missing]

(* The link pair is generated on every run.                                *)
LinkWritten(have, private, public) ==
  IF public THEN "both" ELSE IF private /\ have = "none" THEN "private" ELSE have

(* A configuration is truncated, then filled.                              *)
Saved(loadable, truncated, filled) == filled \/ (loadable /\ ~truncated)

(* The writes in their order: the two identity files and the two link key  *)
(* files of the authority, the two identity files of the node, and the     *)
(* configuration of the authority.  The run may be cut short after any of  *)
(* them, and the process may be running, but not generating its identity.  *)
Genconfig(a) ==
  /\ ~At(a, "identity_half") /\ runs[a] <= MaxRuns[a]
  /\ runs' = [runs EXCEPT ![a] = @ + 1]
  /\ \E n \in 0 .. 8 :
       /\ identity' = [identity EXCEPT ![a] = Written(@, runs'[a], n >= 1, n >= 2)]
       /\ link' = [link EXCEPT ![a] = LinkWritten(@, n >= 3, n >= 4)]
       /\ node' = [node EXCEPT ![a] = Written(@, runs'[a], n >= 5, n >= 6)]
       /\ config' = [config EXCEPT ![a] = Saved(@, n >= 7, n >= 8)]
  /\ UNCHANGED <<proc, chain>>

-----------------------------------------------------------------------------
(* The command line may ask to generate the keys only. *)
Launch(a) ==
  /\ At(a, "off") /\ runs[a] <= MaxRuns[a]
  /\ runs' = [runs EXCEPT ![a] = @ + 1]
  /\ \E g \in BOOLEAN :
       proc' = [proc EXCEPT ![a] = [Off EXCEPT !.at = "loading", !.genOnly = g]]
  /\ UNCHANGED <<files, chain>>

(* Configuration, data directory, log. *)
Load(a) ==
  /\ At(a, "loading")
  /\ (config[a] /\ Goto(a, "identity")) \/ Exit(a)
  /\ UNCHANGED <<files, runs, chain>>

-----------------------------------------------------------------------------
(* The keys.  The two files of a pair are written one after the other; a   *)
(* file that cannot be read or written ends the process, as Crash does.    *)

HasPrivate(a) == identity[a].private # Missing
HasPublic(a) == identity[a].public # Missing

IdentityFound(a) ==
  /\ At(a, "identity") /\ HasPrivate(a) /\ HasPublic(a)
  /\ Goto(a, "link")
  /\ UNCHANGED <<files, runs, chain>>

WriteIdentity(a) ==
  /\ At(a, "identity") /\ ~HasPrivate(a) /\ ~HasPublic(a)
  /\ identity' = [identity EXCEPT ![a].private = runs[a]]
  /\ Goto(a, "identity_half")
  /\ UNCHANGED <<link, node, config, runs, chain>>

WritePublicIdentity(a) ==
  /\ At(a, "identity_half")
  /\ identity' = [identity EXCEPT ![a].public = runs[a]]
  /\ Goto(a, "link")
  /\ UNCHANGED <<link, node, config, runs, chain>>

(* Mutant: a missing public key file is written from a new key pair. *)
IdentityRepaired(a) ==
  /\ At(a, "identity") /\ HasPrivate(a) /\ ~HasPublic(a)
  /\ Goto(a, "identity_half")
  /\ UNCHANGED <<files, runs, chain>>

IdentityHalved(a) ==
  /\ At(a, "identity") /\ HasPrivate(a) # HasPublic(a)
  /\ Exit(a)
  /\ UNCHANGED <<files, runs, chain>>

LinkFound(a) ==
  /\ At(a, "link") /\ link[a] = "both"
  /\ proc' = [proc EXCEPT ![a].at = "keyed", ![a].linkKey = TRUE]
  /\ UNCHANGED <<files, runs, chain>>

(* Mutant: the public key file is written first. *)
WriteLinkPublicFirst(a) ==
  /\ At(a, "link") /\ link[a] = "none"
  /\ link' = [link EXCEPT ![a] = "public"]
  /\ Goto(a, "link_half")
  /\ UNCHANGED <<identity, node, config, runs, chain>>

WriteLink(a) ==
  /\ At(a, "link") /\ link[a] = "none"
  /\ link' = [link EXCEPT ![a] = "private"]
  /\ Goto(a, "link_half")
  /\ UNCHANGED <<identity, node, config, runs, chain>>

(* The generated pair is held by variables of the inner block. *)
WritePublicLink(a) ==
  /\ At(a, "link_half")
  /\ link' = [link EXCEPT ![a] = "both"]
  /\ Goto(a, "keyed")
  /\ UNCHANGED <<identity, node, config, runs, chain>>

LinkHalved(a) ==
  /\ At(a, "link") /\ link[a] = "private"
  /\ Exit(a)
  /\ UNCHANGED <<files, runs, chain>>

(* The link key is nil on the start that generated it: the process panics, *)
(* with or without -g, and the next start finds the files.                 *)
NilLinkKey(a) ==
  /\ At(a, "keyed") /\ ~proc[a].linkKey
  /\ Exit(a)
  /\ UNCHANGED <<files, runs, chain>>

KeysOnly(a) ==
  /\ At(a, "keyed") /\ proc[a].linkKey /\ proc[a].genOnly
  /\ Exit(a)
  /\ UNCHANGED <<files, runs, chain>>

(* The key of the node is in a file of the node's.  Without it the process *)
(* panics.                                                                 *)
NodeKeyMissing(a) ==
  /\ At(a, "keyed") /\ proc[a].linkKey /\ ~proc[a].genOnly
  /\ node[a].public = Missing
  /\ Exit(a)
  /\ UNCHANGED <<files, runs, chain>>

KeysLoaded(a) ==
  /\ At(a, "keyed") /\ proc[a].linkKey /\ ~proc[a].genOnly
  /\ node[a].public # Missing
  /\ proc' = [proc EXCEPT ![a].at = "getting", ![a].nodeKey = node[a].public]
  /\ UNCHANGED <<files, runs, chain>>

-----------------------------------------------------------------------------
(* The registration of the node.  A command may fail before or after the   *)
(* appchain took it, and what it took is settled later.                    *)

GetNode(a) ==
  /\ At(a, "getting")
  /\ \/ registry # {} /\ Goto(a, "comparing")
     \/ Goto(a, "registering")
  /\ UNCHANGED <<files, runs, chain>>

Register(a) ==
  /\ At(a, "registering")
  /\ Goto(a, "awaiting")
  /\ pending' = IF registry = {} THEN pending \cup {<<a, proc[a].nodeKey>>} ELSE pending
  /\ UNCHANGED <<files, runs, registry>>

RegisterFails(a) ==
  /\ At(a, "registering") \/ At(a, "awaiting")
  /\ Exit(a)
  /\ UNCHANGED <<files, runs, chain>>

(* Mutant: an identifier that is registered already is taken for one's own. *)
RegisterReturnsSure(a) ==
  /\ At(a, "awaiting")
  /\ Goto(a, "store")
  /\ UNCHANGED <<files, runs, chain>>

(* That the identifier is registered already is no error. *)
RegisterReturns(a) ==
  /\ At(a, "awaiting")
  /\ Goto(a, "getting_again")
  /\ UNCHANGED <<files, runs, chain>>

(* Mutant: the node is registered until it is found. *)
GetNodeUntilFound(a) ==
  /\ At(a, "getting_again")
  /\ \/ registry # {} /\ Goto(a, "comparing")
     \/ Goto(a, "registering")
  /\ UNCHANGED <<files, runs, chain>>

GetNodeAgain(a) ==
  /\ At(a, "getting_again")
  /\ \/ registry # {} /\ Goto(a, "comparing")
     \/ Exit(a)
  /\ UNCHANGED <<files, runs, chain>>

CompareKeys(a) ==
  /\ At(a, "comparing")
  /\ IF registry = {<<a, proc[a].nodeKey>>} THEN Goto(a, "store") ELSE Exit(a)
  /\ UNCHANGED <<files, runs, chain>>

(* The first registration of an identifier stands. *)
ChainRegisters ==
  \E r \in pending :
    /\ pending' = pending \ {r}
    /\ registry' = IF registry = {} THEN {r} ELSE registry
    /\ UNCHANGED <<files, runs, proc>>

-----------------------------------------------------------------------------
(* The store, the listeners, and the signals. *)

OpenStore(a) ==
  /\ At(a, "store")
  /\ Goto(a, "listening") \/ Exit(a)
  /\ UNCHANGED <<files, runs, chain>>

(* One listener that starts is enough; without any, New shuts down. *)
Listen(a) ==
  /\ At(a, "listening")
  /\ Goto(a, "starting") \/ Exit(a)
  /\ UNCHANGED <<files, runs, chain>>

(* main() starts the goroutines that receive signals once New returned. *)
HandleSignals(a) ==
  /\ At(a, "starting")
  /\ Goto(a, "running")
  /\ UNCHANGED <<files, runs, chain>>

(* Before signal.Notify a signal kills; after it, it is sent on a channel  *)
(* without a buffer, and dropped when nobody receives.                     *)
Signal(a) ==
  /\ ~At(a, "off") /\ ~proc[a].signalled
  /\ IF At(a, "loading") THEN Exit(a)
     ELSE proc' = [proc EXCEPT ![a].signalled = TRUE,
                               ![a].at = IF @ = "running" THEN "halting" ELSE @]
  /\ UNCHANGED <<files, runs, chain>>

Halt(a) ==
  /\ At(a, "halting")
  /\ Exit(a)
  /\ UNCHANGED <<files, runs, chain>>

Crash(a) ==
  /\ ~At(a, "off")
  /\ Exit(a)
  /\ UNCHANGED <<files, runs, chain>>

-----------------------------------------------------------------------------
ReadKeys(a) ==
  \/ IdentityFound(a) \/ WriteIdentity(a) \/ WritePublicIdentity(a) \/ IdentityHalved(a)
  \/ LinkFound(a) \/ WriteLink(a) \/ WritePublicLink(a) \/ LinkHalved(a)
  \/ NilLinkKey(a) \/ KeysOnly(a) \/ NodeKeyMissing(a) \/ KeysLoaded(a)

RegisterNode(a) ==
  \/ GetNode(a)
  \/ Register(a) \/ RegisterFails(a) \/ RegisterReturns(a)
  \/ GetNodeAgain(a) \/ CompareKeys(a)

Start(a) ==
  \/ Load(a)
  \/ ReadKeys(a)
  \/ RegisterNode(a)
  \/ OpenStore(a) \/ Listen(a) \/ HandleSignals(a)
  \/ Halt(a)

Next ==
  \/ \E a \in Authorities :
       Genconfig(a) \/ Launch(a) \/ Start(a) \/ Signal(a) \/ Crash(a)
  \/ ChainRegisters

(* The process goes on, and chain commands return.  Nobody has to launch   *)
(* it or run genconfig, nor the appchain to settle a registration.         *)
Fairness == \A a \in Authorities : WF_vars(Start(a))

Spec == Init /\ [][Next]_vars /\ Fairness

-----------------------------------------------------------------------------
Identified == Places \ {"off", "loading", "identity", "identity_half"}
Serving == {"store", "listening", "starting", "running", "halting"}

(* The two identity files an authority goes on with belong to one key      *)
(* pair, wherever earlier launches and runs of genconfig were cut short    *)
(* (server.go:227, genconfig.go:889).                                      *)
KeyPairMatches ==
  \A a \in Authorities :
    proc[a].at \in Identified =>
      HasPrivate(a) /\ identity[a].private = identity[a].public

(* An authority serves only when the identifier of its node is registered  *)
(* with its node's key: of those that race for an identifier, or find it   *)
(* taken, at most one ever serves, even when the reply to a registration   *)
(* is lost (aux.go:278).                                                   *)
ServesOnlyRegistered ==
  \A a \in Authorities :
    proc[a].at \in Serving => registry = {<<a, proc[a].nodeKey>>}

(* The key that was registered for a node stays the key of its files, both *)
(* of them, however often genconfig runs again and wherever it is cut      *)
(* short: its authority can start again (genconfig.go:889).                *)
NodeKeyKept ==
  \A r \in registry : node[r[1]] = Pair(r[2])

(* A start either fails or succeeds (server.go:196). *)
StartEnds ==
  \A a \in Authorities : At(a, "loading") ~> (At(a, "running") \/ At(a, "off"))

(* "Halt the authority gracefully on SIGINT/SIGTERM" (main.go:60): after a *)
(* signal the process ends.                                                *)
SignalHalts == \A a \in Authorities : proc[a].signalled ~> At(a, "off")
=============================================================================
