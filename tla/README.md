# ZKN `opt`: the directory authority, specified and verified

The repository adapts the Katzenpost mix network to an appchain. Its core is
`pki/`, a directory authority: a server to which the nodes of a mix network
upload descriptors and which serves, for each epoch, a *consensus document* that
lists the nodes. In Katzenpost the authorities exchange votes with each other; here each
authority puts its own node's descriptor and its vote on the appchain, and reads
the document a majority agreed on from there. The rest of the repository is a
configuration generator (`genconfig/`), a wallet proxy made of an HTTP server
(`apps/walletshield/`) and a plugin at the far end of the mix network
(`server_plugins/`), and deployment scripts.

This directory holds TLA+ modules of the authority, configurations that
model-check them with TLC, and proofs that TLAPS checks.

## 1. Inventory

| part | source | state | operations | what is hard | what makes it correct |
|---|---|---|---|---|---|
| Voting schedule | `pki/server/aux.go`, `worker` and `pruneDocuments` in `state.go` | `state`, `votingEpoch`, `genesisEpoch`, `documents`, `descriptors`, the pending timer | the five phases of `fsm()`, background fetches, answers to clients | chain calls made under the lock, sleeps computed before or after them, epoch boundaries, one-shot fetches, restarts that forget | one vote per epoch, never early, always for the next epoch; the genesis epoch is carried on; a bootstrap ends in a vote |
| Appchain commands | `pki/server/state_chain_comm.go` | on the chain: descriptors, votes and a document per epoch | set and get a descriptor or a document; register a node at start | a command that fails may or may not have landed; descriptors are read one by one | all correct authorities read the same and vote the same |
| Descriptors | `wire_handler.go`, `onDescriptorUpload`, `onReplicaDescriptorUpload`, `restorePersistence` in `state.go` | tables per epoch and node, the bolt database | upload, re-upload, late upload, prune, restore | the epoch is checked before the lock, persisted data is read back after a crash | a node cannot replace what it published; tables stay bounded |
| Startup | `genconfig.go`, `cmd/pki/main.go`, `New` in `server.go`, `newState` in `state.go`, `zkpki_newState` in `aux.go` | key files, the process, the node's registration on the chain | generate the configuration, launch, read or generate keys, register, open the store, listen; signals, crashes | a program cut short between two files, `genconfig` run again beside a running authority, a registration whose reply is lost or whose identifier another holds, signals before anybody receives them | the keys in use are one pair; only the registered serves; a registered key is kept; a start ends |
| Lifecycle | `server.go`, `cmd/pki/main.go` | listeners, goroutines, `fatalErrCh`, `haltedCh`, the database | open a listener, accept, fatal error, signal, log rotation, halt | goroutines and listeners that start while the server halts, a fatal error reported under a lock or while `New` runs, the order of closing | nothing is written after the database closes; a halt ends; a fatal error ends the server |
| Peer authentication, dispatch | `wire_handler.go` | none beyond the connection | `onConn`, `IsPeerValid` | – | a peer may do what its kind may |
| Topology | `generateTopology`, `generateRandomTopology`, `generateFixedTopology` in `state.go` | none: a function of descriptors, previous document, random value and configuration | – | uneven numbers of nodes, random orders shared by all authorities | every node in one layer, layers even, nodes keep their layer, the same for all |
| Vote, reveal, certificate, signature | `state.go`, `wire_handler.go` | tables per epoch and authority | four upload handlers, tallies | order of arrival | – (the phases that tally are commented out; the handlers remain) |
| Wallet proxy | `apps/walletshield`, `server_plugins/.../http_proxy` | requests under way; per plugin a queue of commands and replies to write; counters of probes | HTTP request → message → HTTP request → reply; probes | timeouts against late answers, one command at a time, replies by goroutines, a dozen error paths, size limits, builds that differ | a 200 is the upstream's answer to that request, or empty; nothing is performed for who was answered, nor twice unless it may be repeated; one reply a request; a plugin whose upstream answers gets through its commands |
| Configuration generator | `genconfig/` | key files, configurations | generate | keys kept or renewed on a second run, a run cut short | identity pairs are kept whole; generated configurations agree |
| Compression | `common/` | none | compress, decompress | chosen when a program is built | what does not match is an error |

**How they interact.** `server.New` starts `state.worker`, which loops over
`fsm()`, and one `listenWorker` per address, which starts one goroutine per
connection. The worker, the handlers and the background fetches share the tables
of `state` under one lock; `fsm()` holds it from its first line to its last, its
chain calls included. Handlers read the clock before they take the lock.
Authorities meet only on the appchain. A fatal error goes through `fatalErrCh`
to one watcher, which halts the server, as does a termination signal.

A wallet's HTTP request reaches `Handler` of *walletshield*, which sends it through the mix
network to one of the *http_proxy* plugins and waits, with a timeout, for the reply to the SURB
(single-use reply block) that went with it. The plugin handles one command at a time, calls the
upstream server, and leaves the reply to a goroutine. The two programs share `common/compression.go`
and meet the authority nowhere.

## 2. Modules

| module | of | role |
|---|---|---|
| `EpochSchedule` | the deadlines of an epoch | shared |
| `ZkPkiFsm` | one authority's schedule, with what runs beside it | core |
| `ZkPkiFsmProofs` | – | theorems on `ZkPkiFsm`: what holds whatever the delays, and what holds when a cycle fits in an epoch |
| `ZkPkiNetwork` | several schedules and the appchain | composes `ZkPkiFsm`s: an INSTANCE per authority, and a refinement check |
| `ZkPkiNetworkProofs`, `ZkPkiNetworkCycleProofs` | – | theorems on `ZkPkiNetwork`: what holds whatever the delays, and what holds when a submission is in time |
| `EpochConsensus` | what the network promises | abstract specification, implemented by `ZkPkiNetwork` |
| `DescriptorStore` | upload, persistence, restore | core |
| `DescriptorStoreProofs` | – | theorems on `DescriptorStore` |
| `ServerStartup` | `genconfig`, and `main` until `New` returns | core, composes the two programs |
| `ServerStartupProofs` | – | theorems on `ServerStartup` |
| `ServerLifecycle` | goroutines, from the first listener to halt | core |
| `ServerLifecycleProofs` | – | theorems on `ServerLifecycle` |
| `Topology` | the layers of a document | algorithm, over epochs and authorities |
| `TopologyProofs` | – | theorems on `Topology` |
| `WalletProxy` | walletshield, the plugins, compression | several wallets, a prober and plugins |
| `WalletProxyProofs` | – | theorems on `WalletProxy` |
| `MC*` | – | model values and symmetry for TLC |

An operator whose comment begins with "Mutant:" is a plausible bug in the
operator it is a variant of; no specification uses it. `PROJECT.json` lists which
property each of them must violate when it takes the other's place.

### EpochSchedule, ZkPkiFsm

Time is in ticks and `epochtime.Now()` is `<<epoch, elapsed>>`. The timer that
`fsm()` returns is `timer`, which counts down with the clock. One action is one run of
`fsm()` between two points where something else can be seen to happen: a phase
without a chain call is one action (`Bootstrap`, `FetchConsensus`,
`ConfirmConsensus`/`MissConsensus`), and a phase with chain calls is split at each of
them (`SubmitDescriptor`, `SubmitReturns`; `GetVote`, `SendVote`, `VoteReturns`,
`GetVoteFails`), with `call` naming the call during which the lock is held and
`readElapsed` the clock read before it. That is how the model tells the sleep of
`descriptor_send`, computed from the time read *before* the chain call, from that of
`accept_desc`, which reads the clock again. Every run ends with the pruning.

Beside the machine: background fetches return or fail in any order and any time
later (`FetchReturns` needs the lock); the local node uploads; clients are
answered `errGone`; the process crashes and starts with empty tables (what is
persisted is not read back: see `DescriptorStore`); and the chain settles documents.
`MaxDelay` bounds a chain call and `MaxLate` the lateness of a wakeup; both are
arbitrary, including longer than an epoch. A document is abstracted to its
genesis epoch, which is all the schedule reads of it.

### ZkPkiNetwork, EpochConsensus

The same machine, once for each authority (`auth[a]`), on one synchronised clock,
with a chain that is no longer an environment: `chainDescs` is filled by
`SubmitDescriptor`, `chainVotes` by `SendVote`, and `consensus` is the document a
majority set, as the code and comments assume of the appchain (it is not in this
repository: `Quorum`, `Voters`, `Settled`, `CanSettle` and `ChainSettles` are marked external).
Documents carry the genesis epoch and the set of nodes listed, the two
things in which votes can differ. A faulty authority
crashes, restarts, loses commands, reads the descriptors only in part, and may not
upload. A correct one is up, and its commands and fetches succeed.

`InTime` is the one condition on the delays that the properties of the network share: a submission that starts as late as
the schedule lets it is on the chain before the first authority reads the descriptors.

`ImplementsFsm` instantiates `ZkPkiFsm` for each authority and says that every step of
the network is a step of that module, so what is proved of one authority holds
for each of the network. `ImplementsConsensus` maps the network to `EpochConsensus`: an
epoch gets one document for good, which starts a genesis epoch or carries on the previous
one, and what an authority holds is that document, until it drops the copies of past epochs or restarts.

### DescriptorStore

Both upload handlers (`kind`), whose state differs. A connection passes the epoch
check (`Post`), then needs the lock: `UploadAgain`, `UploadLate` and `UploadNew`
are the three ways through the handler, each with its answer. The encoding matters
and is modelled by what it does: the handlers persist, and compare with, the *signed
upload* as it came in, while they encode and decode a *bare descriptor* when they
compare and restore. `Tick` requires that `fsm()` ran, and thus pruned, in every epoch the
authority is up. `accepted` is the history of the answers.

### ServerStartup

Several authorities are configured, by mistake, with the same node identifier (`genconfig` takes the type of the node when it is
given none); each has directories that are empty, or prepared by hand with a configuration and some key pairs, and is
launched and cut short any number of times. `proc[a].at` is where `main`, `New` or
`newState` has come to: `ReadKeys` (each key file is a step of its own, as a crash may fall
between them), `RegisterNode` (look the node up, register it, look again after a second, compare keys),
then the store, the listeners, and the goroutines that receive signals. A key pair is the number of the run that
made it, so files of different runs can be told apart. The chain settles a registration some time after
it was sent, the reply may be lost in either case, a lookup may fail though the node is there, and the first
registration of an identifier stands (`ChainRegisters`, external); what is registered is the key read from the
node's public file. `linkKey` says whether the variable that becomes `s.linkKey` was assigned.

`Genconfig` is one run of `genconfig`, which `docker/node/node-start.sh` starts before every start of the services, also
when they are up. It makes the first `n` of its eight writes, and `n` is any number: `Written` is `cfgIdKey` on the
authority's and on the node's files, `LinkWritten` is `cfgLinkKey`, `Saved` is `saveCfg` on the authority's configuration,
without which `Load` fails. The run is one step, as it takes no time to speak of next to a start, and it does not fall between the two
writes with which `New` generates an identity.

### ServerLifecycle

`New` opens the listeners one after the other (`OpenListener`), with the worker and the watcher already
running. Every connection is a goroutine that receives, waits for the lock, writes to the store,
unlocks and replies; the worker alternates between `fsm()` and its select. `fatalErrCh`
has no buffer and its watcher receives once (`WatcherReceives` is the rendezvous, with a connection;
`RotateFails` that with the one goroutine that rotates the log).
`halt()` closes the listeners it finds, waits for them, waits for the goroutines, closes the database, and
closes the channels. `Panic` ends the process: `s.state.Go` when `s.state` is nil already, a send on the
closed channel, or the close under a blocked sender. `FailWhileOpening` says whether a write may fail before `New` has
opened all listeners; the addresses on which `net.Listen` fails are not among `Listeners`.

### Topology

A mix node is a number, in the order of identity key hashes. `GenerateRandomTopology`,
`GenerateTopology(flat)` and `GenerateFixedTopology` are the three functions of the code, `fixed` the layers
of a configuration that lists them. The loops of the first two are written without recursion, so that they can be reasoned
about: `DrawnLayer` and `Kept` (nodes that stay in their layer, up to the target), `Flattened` (the others, as they come out of a
Go map: in any order), `ToAssign` (sorted, by rank), `Before` (the running index of the loop that fills layers: how many places
the layers before have left) and `Deal` (the round-robin of the remainder). `Among` looks nodes up in `nodeMap`.
The reader is seeded anew for each vote, with the same zero bytes, so what is drawn depends on the seed and on all lengths drawn
for: `Perm(srv, lengths)` is the permutation of the last of them, a constant of the module, as the generator is the library's.
An authority that holds the previous consensus starts from it, the others at random
(`holds`); the documents of the two kinds also differ in their genesis epoch. This is
what lets `ZkPkiNetwork` reduce a document to its genesis epoch and its set of nodes.

### WalletProxy

A call is an HTTP request of a wallet or a probe; `status` is how it stands at its caller. `Make` with
`RefuseUnparsable`, `RefuseTooBig`, `NoService` or `SendRequest`, then `NoReply` (the timeout, or another error of
`BlockingSendMessage`) or `Receive`, are `sendRequest` with what `Handler` or `SendTestProbes` makes of
it. `path` is what a call that was sent asks for: a prober for the path of a probe, a wallet for any, that one included. At a plugin,
`inbox` is what waits for `OnCommand`, `serving` the command it works on, `writes` the
goroutines that run `s.write`. `OnProbe`, `OnNetwork` and `OnInvalid` are the ways a command may take, `ProbeEnds`,
`UpstreamAnswers`, `UpstreamFails` its ends. A payload is the request or the answer it stands for,
whether it is compressed, and its size: the properties tell nothing else apart. `ResponseLength` and
`RequestLength` compute what CBOR adds. `Compressing` are the plugins and the calls whose programs were built with
compression, each by itself.

Three ways through the code that are easily overlooked. A URI that the HTTP server took and `url.Parse` refuses makes `Handler` return without a word
(walletshield `main.go:211`), which the HTTP server turns into a 200 with an empty body (`RefuseUnparsable`). A wallet may ask for `/_/probe/...`: the plugin answers with no
payload (`NilReply`), which arrives as padding. As we read the CBOR library that does not decode as a `Response`, and is a 500; if it did, walletshields built without
compression would answer an empty 200. `Receive` allows both (`ReadAsEmpty`). And `http.DefaultClient.Do` (http_proxy `main.go:195`)
sends a request again by itself when a connection it used before breaks with no answer yet, if the method is one that may be repeated and there is no body:
`UpstreamPerformsAgain`, for the requests in `Replayable`. The new request has two headers of the
old one, so an `Idempotency-Key` makes none repeatable. Redirects it follows count as a part of the upstream's answer.

External, and modelled as the code relies on them: the mix network delivers a message to the plugin its
destination names, late, in any order or never, not twice (the thin client sends once, without retransmission);
the thin client hands a reply to the caller whose SURB it used, if that caller still waits; the upstream performs a request before it
answers it. Commands without a SURB, or that are not CBOR, take the same way through `sendError` as `OnInvalid`; walletshield sends
none.

## 3. Runs

| run | expects | properties | what it shows |
|---|---|---|---|
| `ZkPkiFsm` | pass | `TypeOK`, `VotesNotEarly`, `VotingInSync`, `AtMostOneVotePerEpoch`, `GenesisContinuity`, `BootstrapLeadsToVote` | with calls that take up to a tick, wakeups late by one, crashes and failed fetches, the machine votes neither early nor twice, acts on the epoch after the current one, carries on the genesis epoch and gets to vote |
| `ZkPkiFsmGone` | violation | `GoneIsForever` | see Findings |
| `ZkPkiNetwork` | pass | `TypeOK`, `CorrectDecide`, `GenesisKept`, `CorrectLearn`, `DescriptorsStable`, `ImplementsFsm`, `ImplementsConsensus` | two correct authorities and a faulty one decide in every epoch and never split, each a `ZkPkiFsm`, together an `EpochConsensus` |
| `DescriptorStore` | pass | `TypeOK`, `NoRenegingInOneLife`, `MixTableBounded` | racing and late uploads in one life of the process |
| `DescriptorStoreRenege` | violation | `NoReneging` | see Findings |
| `ServerStartup` | pass | `TypeOK`, `KeyPairMatches`, `ServesOnlyRegistered`, `NodeKeyKept`, `StartEnds` | two authorities with one identifier, runs of `genconfig` cut short anywhere, crashes, lost replies, slow registrations: one key pair in use, one authority serves, its node keeps the registered key |
| `ServerStartupSignal` | violation | `SignalHalts` | see Findings |
| `ServerLifecycle` | pass | `TypeOK`, `NoWriteAfterClose`, `GracefulHalt`, `ShutdownCompletes`, `FatalEndsServer` | shutdown under load, with one failed write or rotation once all listeners are open |
| `ServerLifecycleFatal` | violation | `ShutdownCompletes` | see Findings |
| `ServerLifecycleStarting` | violation | `FatalEndsServer` | see Findings |
| `Topology` | pass | `TypeOK`, `VotesAlike`, `EveryNodePlacedOnce`, `LayersEven`, `FewestMoves` | nodes come and go; authorities with the same document place them alike, each once, evenly, without needless moves; with configured layers, the listed ones in theirs |
| `WalletProxy` | pass | `TypeOK`, `AnswerOwn`, `SurbUsedOnce`, `ReplyFits`, `PerformedWhileOpen`, `CommandsAnswered` | two wallets and a prober share two plugins, with every loss, delay, failure and timeout: no answer goes astray, nothing is performed for who was answered, each command is answered once, and only its upstream can keep a plugin from its commands |

**Bounds.** `Period` is 16 ticks, so that the eighths of the schedule are two ticks
long and the jitter of a sixteenth has two values. Calls and wakeups are late by one tick at most, so that a cycle fits in an epoch; that the two safety
properties on votes hold for any delay is proved. Two epochs see a bootstrap, a complete cycle and the next, a bootstrap that is too late,
and a crash at any point of them; the phases of later epochs repeat these. Epochs start at 3
because the pruning window, `epoch - 3`, must not wrap around, as it does not for real
epochs. In the network three authorities are the least with which a majority survives a
fault; one may fail. `ZkPkiNetwork` runs over two epochs (a bootstrap and the cycle
that follows a confirmation) with chain calls that fit in a tick; slower ones are for `ZkPkiFsm`, whose
runs and proofs cover them. The faulty node
uploads at the two times of `UploadTimes`: before the submission phase, and after it
and before the others read. In `ZkPkiNetwork`
a fetch ends before the next tick; `ZkPkiFsm` lets it take any time. `DescriptorStore` has two
connections and two descriptors, the least that race and conflict; the epochs run from 3
to 9 so that the entry of epoch 4 is uploaded, expires and is pruned. `ServerStartup` has two authorities, the least that compete; one has three
runs, of `genconfig` or of its process in any order, so that one is cut short, one meets what it left and registers, and
one more comes after that; the other has one run, from directories prepared by hand. `ServerLifecycle` has two listeners
and three connections: one that writes, one that waits for the lock, one that is accepted while
the server halts. Its passing run has one failure, and only after the last listener is open, as the two violation runs show what
becomes of a second one and of an earlier one; the safety properties are proved for both.

`Topology` has three layers, as the code's default, and five nodes, so that targets leave two nodes over; two may come or go
at a time, which leaves layers short or over. A draw keeps the order or rotates it by
one, as a bit of the seed (one for each draw) and the first length drawn for tell; the nodes to place come out of the map in every order. The
configured layers leave out a node and have two in one layer. The proofs are for any permutations.

`WalletProxy` has two wallets and a probe, so that a command waits behind two others, of which one is a probe, and two
plugins: one wallet and one plugin were built with compression, so every pair of builds meets. That wallet's request may be repeated, once
(`MaxResends`), the other's may not. The two sizes of payloads are that of the largest
answer, and ten bytes more, which with its encoding is one too many for a request and is refused as an answer. That the prober sends one probe
after the other, for any number of them, is in the proofs.

Deadlock is checked for the schedule and the network (a stopped clock leaves crashes and
restarts, so the model never stops by itself). `DescriptorStore` really ends at
its last epoch, `ServerStartup` after the last run, `ServerLifecycle` when the server has halted and `WalletProxy` when all calls are done.

**Fairness.** In `ZkPkiFsm`: the clock advances and the worker runs (`WF` of `Tick`
and `Machine`); nothing forces a fetch to return or the chain to settle. In
`ServerStartup`: a process that can go on does, chain commands included (`WF` of `Start(a)`); nobody has to launch it or
run `genconfig`, nor the chain to register it. In `ServerLifecycle`: a goroutine that can go on does; a mutex is not taken from the same
goroutine for ever (Go's mutex is starvation-free: `SF` of `Lock`), and `select` does not for ever
prefer the timer to a closed channel, as it chooses at random (`SF` of
`WorkerStops`). Neither a client nor a signal is forced. A connection's receive and
reply end because of the deadlines the server sets on them, and the worker's chain calls
are assumed to return. In `WalletProxy` only `OnCommand` is fair: the plugin's server calls it for one command after the other, and the delay of a
probe ends. The network may lose every message, a timeout never come, a goroutine that writes a reply wait for ever, and the upstream not answer: that
one plugin's requests do end is a premise of `CommandsAnswered`, for that plugin alone.

## 4. Proofs

### The schedule

In `ZkPkiFsmProofs`, for every `Period` of at least 8
ticks, every `MaxDelay`, `MaxLate`, range of epochs and set of uploads:

| theorem | statement |
|---|---|
| `TypeCorrect` | `Spec => []TypeOK` |
| `NoEarlyVote` | `Spec => []VotesNotEarly` |
| `NoSecondVote` | `Spec => AtMostOneVotePerEpoch` |
| `InSync` | `Spec => []VotingInSync` |
| `SameGenesis` | `Spec => GenesisContinuity` |

*Assumptions* are those the modules name: `PeriodAssumption`, `DelayAssumption`,
`EpochAssumption` (the history starts at epoch 3 or later), `InputAssumption`.
The last two theorems are about properties conditioned by `Punctual`: the latest time a phase can end,
computed from the deadlines, the jitter and the delays, is before the end of the epoch.

*Argument.* A vote is seldom early for a local reason: it depends on what the timer was set
to, maybe an epoch ago, before which call, and in which state the previous life
stopped. `SlowInv` therefore says, for each phase, that the machine is not *ahead*: the
voting epoch is at most the next one, or the timer will not fire before the epoch
turns (`NotAhead`), and no vote was sent beyond the
voting epoch, strictly before it while the machine is still to vote (`VotedUpTo`). A crash empties all but
`voted`; the bootstrap that follows may start on the next epoch only before the mix
publish deadline, when by `VotesNotEarly` itself nothing was voted for it
(`NothingVotedYet`). That makes the three conjuncts inductive only together.
`FastInv` bounds the timer from the other side: in each phase the wakeup, or the
end of the call, comes by the latest time of that phase (`Cycle`), the worker is never
overdue, documents are the chain's, and a machine that confirmed a
consensus still has it when it makes the next vote (`KeepsPrevious`).

### The startup

In `ServerStartupProofs`, for any set of authorities and any `MaxRuns`:

| theorem | statement |
|---|---|
| `StartupTypeCorrect` | `Spec => []TypeOK` |
| `IdentityIsOnePair` | `Spec => []KeyPairMatches` |
| `OnlyTheRegisteredServes` | `Spec => []ServesOnlyRegistered` |
| `RegisteredKeyKept` | `Spec => []NodeKeyKept` |

*Assumption*: `RunsAssumption`.

*Argument.* The identity files of an authority are empty, a private file or one pair, and which of these is tied to where
its process is: a public key is missing next to a private one only before the second write or after `New` or `genconfig` was cut short
there, and then no start gets past the check, while `genconfig` makes both files anew; so a pair is never completed from another one
(`Paired`). The node's files are alike (`NodePaired`). That a registered key is kept is not inductive: it takes that a
process which has read the key finds it unchanged when it registers, and that so does the chain when it settles what was sent, maybe
after that process ended (`AllHeld`, of what is registered and of what is to be); a whole pair survives each run of `genconfig`, cut
short or not (`WrittenPair`). The registry changes once; what an authority has earned by comparing keys is kept as long as it
runs, because nothing that another authority, the chain or `genconfig` does moves it or the registry.

### The lifecycle

In `ServerLifecycleProofs`, for any listeners, connections and `MaxFailures`:

| theorem | statement |
|---|---|
| `LifecycleTypeCorrect` | `Spec => []TypeOK` |
| `StoreOutlivesWrites` | `Spec => []NoWriteAfterClose` |
| `HaltIsGraceful` | `Spec => []GracefulHalt` |

*Assumptions*: `FailuresAssumption`, `WorkerAssumption`, `NobodyAssumption`.

*Argument.* Neither property is inductive: that the store is open when a connection holds the
lock depends on what `halt()` waited for before it closed the store. `HaltOrder` says
what is over from then on, every `listenWorker` and every
goroutine, and `AcceptedByListening` that a connection that was accepted and not
started has a running `listenWorker`. Together they last: a goroutine that goes on had not
ended, so `halt()` is still waiting for it (`TaskGoesOn`); the one step that starts a
goroutine belongs to a `listenWorker` that runs; and a listener that `New` opens after the store was closed panics
(`PanicOrder`), while one it opens before keeps `halt()` waiting. So the late listener of finding 5 costs the end of the shutdown, not its order:
the three theorems do not assume `FailWhileOpening` to be false.

### The network

In `ZkPkiNetworkProofs`, for any finite set of authorities, any of them faulty, any delays, and every `Period` of at
least 8 ticks:

| theorem | statement |
|---|---|
| `NetworkInvariant` | `Spec => []NetworkInv` |
| `NetworkTypeCorrect` | `Spec => []TypeOK` |
| `ConsensusIsElected` | `Spec => [][\A e \in Epochs : Elects(e)]_vars` |
| `AuthoritiesAgree` | `Spec => ImplementsConsensus` |
| `EachImplementsFsm` | `Spec => ImplementsFsm` |

In `ZkPkiNetworkCycleProofs`:

| theorem | statement |
|---|---|
| `CycleInvariant` | `InTime => (Spec => []CycleInv)` |
| `GenesisIsKept` | `Spec => []GenesisKept` |
| `CorrectAuthoritiesLearn` | `Spec => []CorrectLearn` |
| `CorrectMajorityDecides` | `VotesInTime => (Spec => []CorrectDecide)` |
| `DescriptorsAreStable` | `Spec => DescriptorsStable` |

*Assumptions*: `PeriodAssumption`, `AuthoritiesAssumption`, `NetworkDelayAssumption`, `NetworkEpochAssumption`,
`UploadTimesAssumption` (the correct upload when the epoch begins) and `MinDescriptorsAssumption`. The properties of the second table have `InTime` as their
own condition, and those of decisions a correct majority (`Quorum(Correct)`). `VotesInTime` says that the latest vote lands before `PublishConsensusDeadline`; `LEMMA Timing`
shows that it follows from `InTime` when `Period >= 16`, the size of the run. It is needed: with `Period = 12` and calls of one tick
`InTime` holds, but a slot of the schedule is a single tick, the two calls of a vote do not fit in one, and TLC finds `CorrectDecide` violated.

*Argument, whatever the delays.* That what an authority holds is the consensus (`Copies`), and that a consensus names its own epoch or carries on the
genesis of the one before, need each other: the genesis of a vote is read from a copy in one step, the document made of it sent in the
next, set on the chain in a third and settled in a fourth, with the chain, crashes and other authorities in between. `VoteDated`
and `ChainInv` keep the genesis of what was read, is sent or was set next to the consensus it came from, and a crash may not take that away: what is set stands in `voted`. It stays true as a consensus is
never replaced. `NotAhead` bounds the voting epoch by the clock in each phase, and gives `NotEarly`: without it the chain might
settle an epoch before `ZkPkiFsm` allows it to. `NetworkInv` says nothing of majorities: that a document the chain settles on is one a majority set there, which all
voted for that epoch and none of them early, is said of the step that settles it (`ConsensusIsElected`), as the chain forgets the votes with it. `Dated` tells a document from none when only its genesis is left, as `ImplementsFsm` has it. The lemmas are named for what
they say of an action: `...Keeps` the invariant, `...Forgets`, `FetchLearns` and `SettlingChooses` in `EpochConsensus`, `...Maps` to one of `ZkPkiFsm`.

*Argument, in time.* `CycleInv` is inductive only on top of `NetworkInv`. `InStep` gives each phase of every authority, the faulty ones as well, its share
of the epoch; it is `FastInv` of the schedule again, as a theorem about one instance of a module with parameters cannot be used for all of them.
Then the descriptors of an epoch only grow before the first one reads them, and every correct node's is there by then (`Submitted`, `AllSubmitted`). A correct authority that read the
previous document and one that fell back to bootstrap make the same `Ballot`, as whoever bootstrapped holds the document of the current epoch if there is one
(`Learnt`, `VotesAlike`). So the correct vote alike (`Voted`, `AllVoted`); a correct majority meets any other (`MajoritiesMeet`), so what settles is
that ballot (`SettlesNext`), and it settles before the clock reaches the deadline. `Closed` says that an epoch that began without a document gets none later: no vote for it
is under way by then, and those that were set make no majority.

### The descriptor store

In `DescriptorStoreProofs`, for any connections, descriptors, range of epochs and number of crashes:

| theorem | statement |
|---|---|
| `StoreInvariant` | `Spec => []StoreInv` |
| `StoreTypeCorrect` | `Spec => []TypeOK` |
| `NoRenegingWhileUp` | `Spec => []NoRenegingInOneLife` |
| `MixTableStaysBounded` | `Spec => []MixTableBounded` |

*Assumptions*: `EpochAssumption` (the history starts at epoch 3 or later and is not empty), `CrashAssumption`, `NoneAssumption`.

*Argument.* That no node gets two descriptors accepted is not inductive: what was accepted must still be in the table when the next upload is compared with it. It is,
or else it was pruned (`AcceptedHeld`), and then no connection holds an upload that old: the epoch check before the lock leaves a window of
one epoch on each side, and an upload waits for the lock over one end of an epoch at most, as `fsm()` takes the lock in each (`UploadsRecent`). The margin is real: an upload may be of
epoch - 2, and what is pruned is older than epoch - 3. The table is bounded by `MixTableRecent`, which distinguishes an epoch that was pruned from one
that has yet to be. `DiskUnreadable`, that nothing on disk is a bare descriptor, is the cause of finding 2; in a process that could restore
what it wrote the theorem would hold across lives.

### The wallet proxy

In `WalletProxyProofs`, for any finite sets of requests and plugins, any number of probes, any sizes:

| theorem | statement |
|---|---|
| `WalletInvariant` | `Spec => []WalletInv` |
| `WalletTypeCorrect` | `Spec => []TypeOK` |
| `WalletsGetTheirAnswer` | `Spec => []AnswerOwn` |
| `AnsweredIsOver` | `Spec => PerformedWhileOpen` |
| `OneReplyPerSurb` | `Spec => []SurbUsedOnce` |
| `RepliesFit` | `MaxPayloadSize < 65536 => (Spec => []ReplyFits)` |

*Assumptions*: `RequestsAssumption`, `PluginsAssumption`, `ReplayableAssumption`, `SizesAssumption`, and `NoneAssumption`, `AnswersAssumption`, `PathsAssumption` (model values are told apart).

*Argument.* `OnePlace`: the message of a call is under way, in one place of one inbox, worked on by one plugin, or done, never two of these; queues hold nothing twice
(`TailOfQueue`, `AppendToQueue`). So a plugin that starts on a request is the first and only one, and `PerformedInv` ties what
the upstream did of a request to the stage of that plugin, and the builds of the two programs to each other. `OpenInv` is the converse for the caller: as long as a message is anywhere but done, its
call waits or was given up with a 404. A reply ends a call only after the command is done (`SurbUsedOnce`), which keeps `OpenInv`
and is why nothing is performed for who was answered. `AnswersInv` follows what a reply carries from the upstream to the caller (`AnswerTo`). `RepliesFit` has a hypothesis
because the margin of 20 bytes that http_proxy leaves for the encoding (`main.go:31`) is enough as long as the length of the answer is written in two bytes, and one byte short
beyond (`LEMMA MarginIsShort`); the configured `UserForwardPayloadLength` of 30000 is far below.

### The topology

In `TopologyProofs`, for any finite set of nodes, number of layers, configured layers, seed and permutations drawn from it, and however nodes
come and go:

| theorem | statement |
|---|---|
| `TopologyInvariant` | `Spec => []TopologyInv` |
| `TopologyTypeCorrect` | `Spec => []TypeOK` |
| `AuthoritiesPlaceAlike` | `Spec => []VotesAlike` |
| `NodesPlacedOnce` | `Spec => []EveryNodePlacedOnce` |
| `EvenLayers` | `Spec => []LayersEven` |
| `FewNodesMove` | `Spec => []FewestMoves` |

*Assumptions*: `NodesAssumption` (finitely many, ordered), `LayersAssumption` (at least one), `PermAssumption` (what `rng.Perm(n)` returns is a
permutation of the `n` indexes), `ConfiguredAssumption`: a configuration lists no node twice. `genconfig` writes them so
(`genconfig.go:770`), and the code relies on it: `generateFixedTopology` takes no node out of `nodeMap`, so one listed twice would be placed twice.

*Argument.* `TopologyInv` says that what an authority voted for is `Generated(a)`: a function of what all authorities
read, of whether this one holds the previous document, and of nothing else. That an order of the map is not in it is `OrderOfMap`: sorting by
rank undoes it (`RankFacts`: elements have different ranks, so the ranks are all of `1 .. n`). The previous document is a
topology because it was voted for, so each epoch rests on the one before.
What `generateTopology` yields is shown by counting. The places of the layers up to the target size are those
that keep a node, as many as there are nodes kept, and those left, so
the nodes to place are enough to fill these (`EnoughToFill`): this is why `toAssign[assignIndexes[idx]]` (`state.go:1241`) never is out of range. `At` is the index of
the node drawn that a place gets; it takes every index (`AtCovers`) once (`AtUnique`), in the loop that fills layers as in the
one that deals the rest, where `Index` is a division with remainder (`DealFacts`). `FewNodesMove` compares with every even placing at once (`KeptMost`): of the nodes
one leaves in a layer there are at most as many as `Kept` has there, so the n-th of them is mapped to the n-th kept, and that map is an injection.
No step takes induction: no operator of the module is recursive.

### Only model-checked

*Liveness* (`BootstrapLeadsToVote`, `StartEnds`, `ShutdownCompletes`, `FatalEndsServer`, `CommandsAnswered`): the prover does not do
fairness and `ENABLED`. Every other property of the runs that pass is the statement of a theorem.

## 5. Findings

1. `ZkPkiFsmGone`: `documentForEpoch` answers `errGone`, "will never get a Document"
   (`state.go:71`, `:1829`), for the current and the previous epochs, while the
   bootstrap fetches those documents and serves them once the fetch returns.
2. `DescriptorStoreRenege`: what is persisted cannot be restored
   (a signed upload is read as a bare descriptor, `state.go:1961`); after a restart a node may replace the
   descriptor it published, which the handler promises to prevent (`state.go:1770`).
3. `ServerLifecycleFatal`: a second failed write blocks on `fatalErrCh` holding the lock
   (`state.go:1801`), and the shutdown the first one began never ends.
4. `ServerStartupSignal`: a signal that arrives while `New` runs is dropped, as the channel has no buffer
   (`main.go:43`) and its receiver starts after `New`, so the authority is not halted (`main.go:60`).
5. `ServerLifecycleStarting`: a fatal error while `New` still opens listeners. The shutdown closes those it finds
   (`server.go:174`), `New` opens the next one, whose `listenWorker` nobody ends, and `halt()` waits for it for ever;
   "Persistence failures are FATAL" (`state.go:1800`).

Observations that need no run of their own. The start that generates the link key keeps it in variables of an inner block
(`server.go:285`) and panics on the outer, nil, one (`server.go:305`; `NilLinkKey`), so `-g` does not "generate the keys and exit"
(`main.go:23`) but writes them and crashes; the next start finds them and goes on. The cause of finding 2 has a second effect: the stored descriptor is compared, encoded
as a bare descriptor, with the signed upload, so an unchanged upload is refused as a conflict, against "Redundant
uploads that don't change are harmless" (`state.go:1781`). A crash between the two files of a key pair is not
repaired by the authority: every later start refuses (identity) or panics (link) until `genconfig` runs again, which makes both anew, or
somebody removes the file. Where `genconfig` made the keys, `New` never generates any, so the panic above is not met. `cfgIdKey` ignores
the errors of its two writes (`genconfig.go:895`, `:897`), and nothing locks the files: a private file that could not be overwritten
beside a public one that could, or a run between the two writes of a first start, would leave a pair that does not match. `FewestMoves` has a condition because of what the code does
otherwise: with layers {a, d} and {b, c}, when d leaves, the target is one node a layer, the second
layer gives up b or c, and the remainder is dealt from the first layer on, so a node moves although
{a} and {b, c} are as even. And when the number of layers does not divide that of the nodes, the surplus is dealt anew in each
epoch, so surplus nodes may trade places in a network that did not change. With two failures, a failed rotation that
blocks on `fatalErrCh` panics when `halt()` closes it (`Halted`), after the store was closed.

Of the wallet proxy: a URI that `url.Parse` refuses is answered by an empty 200, not an error (walletshield `main.go:211`). A GET may be performed
twice for one request of a wallet, as `http.Client` repeats it on a broken connection. A 404 for a timeout does not tell the wallet whether its request was performed. The answer is the format string of
`fmt.Fprintf` (walletshield `main.go:264`), so a `%` in it comes out otherwise and the length no longer fits. The status code of the upstream
is dropped: what it refuses is a 200. A probe counts any reply, an error too, as received. When the
first probe is lost the shortest time becomes NaN for good (`:304`). A delay of probes beyond
the timeout makes every probe a loss, and keeps the plugin from other commands while it lasts (http_proxy
`main.go:171`). The ephemeral daemon is held by a variable of an inner block, so `Server.daemon` is nil, and `os.Exit` skips `d.Shutdown()`.
When no service is found `sendRequest` panics: a request is given up by the HTTP server, a prober dies.

## 6. Not modelled

*Vote, reveal, certificate and signature uploads*: `onAuthority` still dispatches them, but nothing sends them, nothing
reads the tables they fill, and the configurations that `genconfig` writes name each authority as its own only peer.
*Peer authentication and dispatch*: decisions on one connection's data against tables that never change.
*Configuration generator*: beyond the key files and whether the configuration is there, a batch program that decides the contents of files.
So which link key a configuration names is left out, although a run of `genconfig` renews the link keys under a running authority. *Deployment scripts.*

Within the modelled parts: the plugin indexes the first byte of a request's path (http_proxy `main.go:97`) and panics when it is empty, which ends
its process; walletshield's HTTP server answers such a request itself (a redirect or a 404). The goroutines that fetch a document in the background (`aux.go:163`) are no tasks of
`ServerLifecycle`: `state.Halt` waits for them as for the worker, and like it each makes a chain call, takes the lock once and lets go of it; none writes to the database. In `ZkPkiNetwork` a fetch ends before the
next tick; one that comes after the machine looked is for `ZkPkiFsm`. Cryptographic
checks are taken as passed; the contents of configuration files and the parameters of a document
are left out; clocks of
authorities are equal; the appchain is a majority vote on equal documents, atomic and final.

## 7. Plan

What is left: in `ServerStartup`, the link key that a configuration names, next to the one in the files and the one in use.
