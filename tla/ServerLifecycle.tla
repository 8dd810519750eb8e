-------------------------- MODULE ServerLifecycle --------------------------
(***************************************************************************)
(* The goroutines of an authority from the moment server.New opens the     *)
(* first listener to the end of the shutdown: New itself, the listeners,   *)
(* the connections they accept, the worker of the voting schedule, the     *)
(* watcher of fatal errors, and the handlers of signals.  They share the   *)
(* lock of the state, the persistence store, and fatalErrCh, a channel     *)
(* without a buffer that only the watcher receives from, and only once.    *)
(***************************************************************************)
EXTENDS Naturals

CONSTANTS
  Listeners,        \* the addresses that can be listened on
  Connections,
  Worker,           \* the goroutine of the voting schedule
  MaxFailures,      \* how many writes to the store or log fail (bound)
  FailWhileOpening  \* whether one may while New opens listeners

ASSUME FailuresAssumption == MaxFailures \in Nat /\ FailWhileOpening \in BOOLEAN
ASSUME WorkerAssumption == Worker \notin Connections

Tasks == Connections \cup {Worker}
Nobody == "nobody"
ASSUME NobodyAssumption == Nobody \notin Tasks

VARIABLES
  opening,          \* the listeners New has yet to open
  open,             \* the listeners opened and not closed yet
  listening,        \* the listeners whose listenWorker runs
  accepted,         \* the connection each listenWorker has yet to start
  task,             \* where each connection, and the worker, is
  lock,             \* who holds the write lock of the state
  failures,         \* the writes that failed
  watcher, signal,  \* the two goroutines that call Shutdown
  rotator,          \* the goroutine that rotates the log on SIGHUP
  halt,             \* how far halt() is, or that the process panicked
  haltCh,           \* state.Halt was called
  db                \* the persistence store is open

listeners == <<opening, open, listening, accepted>>
shutdown == <<watcher, signal, halt, haltCh, db>>
vars == <<listeners, task, lock, failures, rotator, shutdown>>

(* A connection waits for its command, then for the lock; holding it, it   *)
(* writes to the store, and unlocks and replies.  A failed write sends to  *)
(* fatalErrCh before it goes on.  The worker goes from the lock to its     *)
(* select and back.                                                        *)
TypeOK ==
  /\ opening \subseteq Listeners /\ open \subseteq Listeners /\ listening \subseteq Listeners
  /\ accepted \in [Listeners -> Connections \cup {Nobody}]
  /\ task \in [Tasks -> {"none", "receiving", "locking", "locked", "sending", "stored",
                         "replying", "select", "done"}]
  /\ lock \in Tasks \cup {Nobody}
  /\ failures \in 0 .. MaxFailures
  /\ watcher \in {"waiting", "shutdown", "done"}
  /\ signal \in {"waiting", "shutdown", "done"}
  /\ rotator \in {"waiting", "sending", "done"}
  /\ halt \in {"idle", "listeners", "tasks", "closing", "halted", "panicked"}
  /\ haltCh \in BOOLEAN /\ db \in BOOLEAN

Init ==
  /\ opening = Listeners /\ open = {} /\ listening = {}
  /\ accepted = [l \in Listeners |-> Nobody]
  /\ task = [t \in Tasks |-> IF t = Worker THEN "locking" ELSE "none"]
  /\ lock = Nobody
  /\ failures = 0
  /\ watcher = "waiting" /\ signal = "waiting" /\ rotator = "waiting"
  /\ halt = "idle" /\ haltCh = FALSE /\ db = TRUE

-----------------------------------------------------------------------------
(* A panic, in whatever goroutine, ends the process. *)
Panic ==
  /\ halt' = "panicked"
  /\ opening' = {} /\ open' = {} /\ listening' = {}
  /\ accepted' = [l \in Listeners |-> Nobody]
  /\ task' = [t \in Tasks |-> "done"] /\ lock' = Nobody
  /\ watcher' = "done" /\ signal' = "done" /\ rotator' = "done"
  /\ UNCHANGED <<haltCh, db>>

(* The listeners.  A shutdown may be under way while New opens them: halt  *)
(* closes those it finds, and sets s.state, whose Go starts the            *)
(* listenWorker, to nil when state.Halt has returned.                      *)

OpenListener(l) ==
  /\ l \in opening
  /\ UNCHANGED failures
  /\ \/ /\ halt \in {"closing", "halted"}
        /\ Panic
     \/ /\ halt \notin {"closing", "halted"}
        /\ opening' = opening \ {l}
        /\ open' = open \cup {l} /\ listening' = listening \cup {l}
        /\ UNCHANGED <<accepted, task, lock, rotator, shutdown>>

Accept(l, c) ==
  /\ l \in open /\ l \in listening
  /\ accepted[l] = Nobody
  /\ task[c] = "none" /\ c \notin {accepted[k] : k \in Listeners}
  /\ accepted' = [accepted EXCEPT ![l] = c]
  /\ UNCHANGED <<opening, open, listening, task, lock, failures, rotator, shutdown>>

StartConnection(l) ==
  /\ accepted[l] # Nobody
  /\ task' = [task EXCEPT ![accepted[l]] = "receiving"]
  /\ accepted' = [accepted EXCEPT ![l] = Nobody]
  /\ UNCHANGED <<opening, open, listening, lock, failures, rotator, shutdown>>

(* Accept fails for good once the listener is closed. *)
ListenerStops(l) ==
  /\ l \in listening \ open
  /\ accepted[l] = Nobody
  /\ listening' = listening \ {l}
  /\ UNCHANGED <<opening, open, accepted, task, lock, failures, rotator, shutdown>>

-----------------------------------------------------------------------------
(* The connections and the worker. *)

Goto(t, place) == task' = [task EXCEPT ![t] = place]

(* A command that needs the state, or a failed handshake, a timeout or an  *)
(* invalid command.                                                        *)
Receive(c) ==
  /\ task[c] = "receiving"
  /\ Goto(c, "locking") \/ Goto(c, "done")
  /\ UNCHANGED <<listeners, lock, failures, rotator, shutdown>>

Lock(t) ==
  /\ task[t] = "locking" /\ lock = Nobody
  /\ lock' = t
  /\ Goto(t, "locked")
  /\ UNCHANGED <<listeners, failures, rotator, shutdown>>

(* A request that changes nothing leaves the store alone. *)
NothingToPersist(c) ==
  /\ task[c] = "locked"
  /\ Goto(c, "stored")
  /\ UNCHANGED <<listeners, lock, failures, rotator, shutdown>>

Persist(c) ==
  /\ task[c] = "locked" /\ db
  /\ Goto(c, "stored")
  /\ UNCHANGED <<listeners, lock, failures, rotator, shutdown>>

(* Mutant: a failed write is tried again for ever. *)
PersistRetries(c) ==
  /\ task[c] = "locked"
  /\ failures' = failures + 1
  /\ UNCHANGED <<listeners, task, lock, rotator, shutdown>>

(* Mutant: a failed write is logged only. *)
PersistFailsQuietly(c) ==
  /\ task[c] = "locked"
  /\ failures < MaxFailures /\ opening = {}
  /\ failures' = failures + 1
  /\ Goto(c, "stored")
  /\ UNCHANGED <<listeners, lock, rotator, shutdown>>

PersistFails(c) ==
  /\ task[c] = "locked"
  /\ failures < MaxFailures /\ (FailWhileOpening \/ opening = {})
  /\ failures' = failures + 1
  /\ Goto(c, "sending")
  /\ UNCHANGED <<listeners, lock, rotator, shutdown>>

(* fatalErrCh <- err, in onDescriptorUpload, and <-fatalErrCh. *)
WatcherReceives(c) ==
  /\ task[c] = "sending" /\ watcher = "waiting"
  /\ Goto(c, "stored")
  /\ watcher' = "shutdown"
  /\ UNCHANGED <<listeners, lock, failures, rotator, signal, halt, haltCh, db>>

Unlock(c) ==
  /\ task[c] = "stored"
  /\ lock' = Nobody
  /\ Goto(c, "replying")
  /\ UNCHANGED <<listeners, failures, rotator, shutdown>>

Reply(c) ==
  /\ task[c] = "replying"
  /\ Goto(c, "done")
  /\ UNCHANGED <<listeners, lock, failures, rotator, shutdown>>

(* fsm() is evaluated before the select that looks at HaltCh. *)
FsmReturns ==
  /\ task[Worker] = "locked"
  /\ lock' = Nobody
  /\ Goto(Worker, "select")
  /\ UNCHANGED <<listeners, failures, rotator, shutdown>>

WorkerWakes ==
  /\ task[Worker] = "select"
  /\ Goto(Worker, "locking")
  /\ UNCHANGED <<listeners, lock, failures, rotator, shutdown>>

WorkerStops ==
  /\ task[Worker] = "select" /\ haltCh
  /\ Goto(Worker, "done")
  /\ UNCHANGED <<listeners, lock, failures, rotator, shutdown>>

-----------------------------------------------------------------------------
(* The signals, whose handlers main starts once New returned. *)

SignalArrives ==
  /\ opening = {}
  /\ signal = "waiting"
  /\ signal' = "shutdown"
  /\ UNCHANGED <<listeners, task, lock, failures, rotator, watcher, halt, haltCh, db>>

Rotate ==
  /\ opening = {}
  /\ rotator = "waiting"
  /\ rotator' = "done"
  /\ UNCHANGED <<listeners, task, lock, failures, shutdown>>

(* The error goes to the watcher, blocks because the watcher has gone, or  *)
(* meets a closed channel.                                                 *)
RotateFails ==
  /\ opening = {}
  /\ rotator = "waiting"
  /\ failures < MaxFailures
  /\ failures' = failures + 1
  /\ \/ /\ watcher = "waiting"
        /\ watcher' = "shutdown" /\ rotator' = "done"
        /\ UNCHANGED <<listeners, task, lock, signal, halt, haltCh, db>>
     \/ /\ watcher # "waiting" /\ halt # "halted"
        /\ rotator' = "sending"
        /\ UNCHANGED <<listeners, task, lock, shutdown>>
     \/ /\ halt = "halted"
        /\ Panic

-----------------------------------------------------------------------------
(* The shutdown. *)

(* Mutant: the listeners are left open. *)
HaltWithoutListeners ==
  /\ halt = "idle"
  /\ "shutdown" \in {watcher, signal}
  /\ halt' = "listeners"
  /\ UNCHANGED <<listeners, task, lock, failures, rotator, watcher, signal, haltCh, db>>

(* The first to call Shutdown runs halt(), which closes the listeners. *)
HaltListeners ==
  /\ halt = "idle"
  /\ "shutdown" \in {watcher, signal}
  /\ halt' = "listeners"
  /\ open' = {}
  /\ UNCHANGED <<opening, listening, accepted, task, lock, failures, rotator, watcher, signal, haltCh, db>>

(* WaitGroup.Wait, then the first half of state.Halt. *)
HaltTasks ==
  /\ halt = "listeners"
  /\ listening = {}
  /\ halt' = "tasks"
  /\ haltCh' = TRUE
  /\ UNCHANGED <<listeners, task, lock, failures, rotator, watcher, signal, db>>

(* Mutant: connections are not goroutines of the state. *)
WorkerDone == task[Worker] = "done"

(* The listenWorkers are goroutines of the state too. *)
TasksDone == listening = {} /\ \A t \in Tasks : task[t] \in {"none", "done"}

(* Mutant: the store is closed before the goroutines have returned. *)
CloseDbFirst ==
  /\ halt = "tasks"
  /\ IF db THEN db' = FALSE /\ halt' = halt ELSE TasksDone /\ halt' = "closing" /\ db' = db
  /\ UNCHANGED <<listeners, task, lock, failures, rotator, watcher, signal, haltCh>>

(* Worker.Halt returns when the goroutines of the state have. *)
CloseDb ==
  /\ halt = "tasks"
  /\ TasksDone
  /\ halt' = "closing"
  /\ db' = FALSE
  /\ UNCHANGED <<listeners, task, lock, failures, rotator, watcher, signal, haltCh>>

(* Closing fatalErrCh ends a watcher that still waits; whoever called      *)
(* Shutdown returns.  A goroutine blocked on the channel panics.           *)
Halted ==
  /\ halt = "closing"
  /\ UNCHANGED failures
  /\ \/ /\ rotator = "sending"
        /\ Panic
     \/ /\ rotator # "sending"
        /\ halt' = "halted"
        /\ watcher' = "done" /\ signal' = IF signal = "shutdown" THEN "done" ELSE signal
        /\ UNCHANGED <<listeners, task, lock, rotator, haltCh, db>>

-----------------------------------------------------------------------------
Shutdown == HaltListeners \/ HaltTasks \/ CloseDb \/ Halted

Connection(c) ==
  \/ Receive(c)
  \/ NothingToPersist(c) \/ Persist(c) \/ PersistFails(c)
  \/ WatcherReceives(c)
  \/ Unlock(c) \/ Reply(c)

Next ==
  \/ \E l \in Listeners : OpenListener(l)
  \/ \E l \in Listeners, c \in Connections : Accept(l, c)
  \/ \E l \in Listeners : StartConnection(l) \/ ListenerStops(l)
  \/ \E c \in Connections : Connection(c)
  \/ \E t \in Tasks : Lock(t)
  \/ FsmReturns \/ WorkerWakes \/ WorkerStops
  \/ SignalArrives \/ Rotate \/ RotateFails
  \/ Shutdown

(* Every goroutine that can go on does, a mutex starves nobody, and a      *)
(* select does not pass over a closed channel for ever.  A client need not *)
(* connect, and a signal need not arrive.                                  *)
Fairness ==
  /\ \A l \in Listeners : WF_vars(OpenListener(l))
  /\ \A l \in Listeners : WF_vars(StartConnection(l)) /\ WF_vars(ListenerStops(l))
  /\ \A c \in Connections : WF_vars(Connection(c))
  /\ \A t \in Tasks : SF_vars(Lock(t))
  /\ WF_vars(FsmReturns) /\ SF_vars(WorkerStops)
  /\ WF_vars(Shutdown)

Spec == Init /\ [][Next]_vars /\ Fairness

-----------------------------------------------------------------------------
(* No request writes to the store once it is closed: a write that did      *)
(* would fail, and be taken for a fatal error (state.go:1801).             *)
NoWriteAfterClose == \A c \in Connections : task[c] = "locked" => db

(* When Shutdown returns, no goroutine of the server runs any more: every  *)
(* connection a listener had accepted was started and served               *)
(* (server.go:163).  What panics on the way, a log that cannot be rotated  *)
(* or a listener opened late, finds the store closed.                      *)
GracefulHalt ==
  /\ halt = "halted" =>
       /\ listening = {} /\ \A l \in Listeners : accepted[l] = Nobody
       /\ \A t \in Tasks : task[t] \in {"none", "done"}
  /\ halt \in {"halted", "panicked"} => ~db

(* A shutdown that has begun ends, whoever asked for it and whatever the   *)
(* requests in progress (server.go:132).                                   *)
ShutdownCompletes == (halt # "idle") ~> halt \in {"halted", "panicked"}

(* "Persistence failures are FATAL" (state.go:1800), as is a log that      *)
(* cannot be rotated: the server ends after one, one way or the other.     *)
FatalEndsServer == (failures > 0) ~> halt \in {"halted", "panicked"}
=============================================================================
