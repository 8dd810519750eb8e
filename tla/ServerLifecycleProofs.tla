----------------------- MODULE ServerLifecycleProofs -----------------------
(***************************************************************************)
(* Proofs about ServerLifecycle, for any number of listeners, connections  *)
(* and failures: the shutdown leaves nothing running and no write to the   *)
(* store comes after it is closed.                                         *)
(***************************************************************************)
EXTENDS ServerLifecycle, TLAPS

Ended(t) == task[t] \in {"none", "done"}

(* Only a listenWorker that runs holds a connection it has yet to start.   *)
AcceptedByListening == \A l \in Listeners : accepted[l] # Nobody => l \in listening

(* What halt() has waited for before it closes the store stays so: no      *)
(* listenWorker runs again, not even that of a listener New opens then,    *)
(* and no goroutine starts.                                                *)
HaltOrder ==
  IF halt \in {"closing", "halted", "panicked"}
    THEN /\ ~db /\ listening = {} /\ \A t \in Tasks : Ended(t)
         /\ halt = "panicked" => opening = {}
    ELSE db

LifecycleInv == TypeOK /\ AcceptedByListening /\ HaltOrder

-----------------------------------------------------------------------------
(* The server starts with its listeners open and its store open.           *)
LEMMA LifecycleInit == Init => LifecycleInv
<1> SUFFICES ASSUME Init PROVE LifecycleInv
  OBVIOUS
<1>1. TypeOK
  <2>1. /\ opening \subseteq Listeners /\ open \subseteq Listeners /\ listening \subseteq Listeners
        /\ lock \in Tasks \cup {Nobody}
        /\ watcher \in {"waiting", "shutdown", "done"}
        /\ signal \in {"waiting", "shutdown", "done"}
        /\ rotator \in {"waiting", "sending", "done"}
        /\ halt \in {"idle", "listeners", "tasks", "closing", "halted", "panicked"}
    BY DEF Init
  <2>2. accepted \in [Listeners -> Connections \cup {Nobody}]
    BY DEF Init
  <2>3. task \in [Tasks -> {"none", "receiving", "locking", "locked", "sending", "stored",
                            "replying", "select", "done"}]
    BY DEF Init
  <2>4. failures \in 0 .. MaxFailures
    BY FailuresAssumption DEF Init
  <2>5. haltCh \in BOOLEAN /\ db \in BOOLEAN
    BY DEF Init
  <2> QED BY <2>1, <2>2, <2>3, <2>4, <2>5 DEF TypeOK
<1>2. AcceptedByListening
  BY DEF Init, AcceptedByListening
<1>3. HaltOrder
  BY DEF Init, HaltOrder
<1> QED BY <1>1, <1>2, <1>3 DEF LifecycleInv

(* Moving a task leaves the others where they are.                         *)
LEMMA GotoType ==
  ASSUME TypeOK, NEW t \in Tasks,
         NEW place \in {"none", "receiving", "locking", "locked", "sending", "stored",
                        "replying", "select", "done"},
         Goto(t, place)
  PROVE  /\ task' \in [Tasks -> {"none", "receiving", "locking", "locked", "sending",
                                 "stored", "replying", "select", "done"}]
         /\ \A u \in Tasks \ {t} : task'[u] = task[u]
         /\ task'[t] = place
BY DEF TypeOK, Goto

(* A panic leaves every variable in its type.                              *)
LEMMA PanicType == TypeOK /\ Panic /\ failures' \in 0 .. MaxFailures => TypeOK'
<1> SUFFICES ASSUME TypeOK, Panic, failures' \in 0 .. MaxFailures PROVE TypeOK'
  OBVIOUS
<1>1. accepted' \in [Listeners -> Connections \cup {Nobody}]
  BY DEF Panic
<1>2. task' \in [Tasks -> {"none", "receiving", "locking", "locked", "sending", "stored",
                          "replying", "select", "done"}]
  BY DEF Panic
<1> QED BY <1>1, <1>2 DEF TypeOK, Panic

(* Every step keeps the types.                                             *)
LEMMA LifecycleTypeStep == TypeOK /\ [Next]_vars => TypeOK'
<1> SUFFICES ASSUME TypeOK, [Next]_vars PROVE TypeOK'
  OBVIOUS
<1> USE DEF listeners, shutdown
<1>1. ASSUME NEW l \in Listeners, NEW c \in Connections, Accept(l, c) PROVE TypeOK'
  BY <1>1 DEF TypeOK, Accept
<1>2. ASSUME NEW l \in Listeners, StartConnection(l) PROVE TypeOK'
  BY <1>2 DEF TypeOK, StartConnection, Tasks
<1>3. ASSUME NEW l \in Listeners, ListenerStops(l) PROVE TypeOK'
  BY <1>3 DEF TypeOK, ListenerStops
<1>4. ASSUME NEW c \in Connections, Connection(c) PROVE TypeOK'
  <2>1. c \in Tasks
    BY DEF Tasks
  <2>2. CASE Receive(c) \/ NothingToPersist(c) \/ Persist(c) \/ Reply(c)
    BY <2>1, <2>2, GotoType DEF TypeOK, Receive, NothingToPersist, Persist, Reply
  <2>3. CASE PersistFails(c)
    BY <2>1, <2>3, GotoType, FailuresAssumption DEF TypeOK, PersistFails
  <2>4. CASE WatcherReceives(c)
    BY <2>1, <2>4, GotoType DEF TypeOK, WatcherReceives
  <2>5. CASE Unlock(c)
    BY <2>1, <2>5, GotoType DEF TypeOK, Unlock
  <2> QED BY <1>4, <2>2, <2>3, <2>4, <2>5 DEF Connection
<1>5. ASSUME NEW t \in Tasks, Lock(t) PROVE TypeOK'
  BY <1>5, GotoType DEF TypeOK, Lock
<1>6. CASE FsmReturns \/ WorkerWakes \/ WorkerStops
  <2>1. Worker \in Tasks
    BY DEF Tasks
  <2> QED BY <1>6, <2>1, GotoType DEF TypeOK, FsmReturns, WorkerWakes, WorkerStops
<1>7. CASE SignalArrives \/ Rotate \/ HaltListeners \/ HaltTasks \/ CloseDb
  BY <1>7 DEF TypeOK, SignalArrives, Rotate, HaltListeners, HaltTasks, CloseDb
<1>8. CASE Halted
  BY <1>8, PanicType DEF TypeOK, Halted
<1>9. ASSUME NEW l \in Listeners, OpenListener(l) PROVE TypeOK'
  BY <1>9, PanicType DEF TypeOK, OpenListener
<1>10. CASE RotateFails
  <2>1. failures' \in 0 .. MaxFailures
    BY <1>10, FailuresAssumption DEF TypeOK, RotateFails
  <2> QED BY <1>10, <2>1, PanicType DEF TypeOK, RotateFails
<1>11. CASE UNCHANGED vars
  BY <1>11 DEF TypeOK, vars
<1> QED
  BY <1>1, <1>2, <1>3, <1>4, <1>5, <1>6, <1>7, <1>8, <1>9, <1>10, <1>11 DEF Next, Shutdown

-----------------------------------------------------------------------------
(* A task that goes on had not ended, so halt() still waits for it.        *)
LEMMA TaskGoesOn ==
  ASSUME LifecycleInv, NEW t \in Tasks, task[t] \notin {"none", "done"},
         NEW place \in {"locking", "locked", "sending", "stored", "replying", "select", "done"},
         Goto(t, place), UNCHANGED <<listeners, halt, db>>
  PROVE  AcceptedByListening' /\ HaltOrder'
<1>1. halt \notin {"closing", "halted", "panicked"}
  BY DEF LifecycleInv, HaltOrder, Ended
<1> QED
  BY <1>1 DEF LifecycleInv, AcceptedByListening, HaltOrder, listeners

(* A panic after the store was closed leaves the order as it is.           *)
LEMMA PanicOrder == ~db /\ Panic => AcceptedByListening' /\ HaltOrder'
BY DEF Panic, AcceptedByListening, HaltOrder, Ended

(* Every step keeps the order of the shutdown.                             *)
LEMMA LifecycleStep == LifecycleInv /\ [Next]_vars => LifecycleInv'
<1> SUFFICES ASSUME LifecycleInv, [Next]_vars PROVE AcceptedByListening' /\ HaltOrder'
  BY LifecycleTypeStep DEF LifecycleInv
<1> USE DEF LifecycleInv, listeners, shutdown
<1>1. ASSUME NEW l \in Listeners, NEW c \in Connections, Accept(l, c)
      PROVE AcceptedByListening' /\ HaltOrder'
  BY <1>1 DEF Accept, TypeOK, AcceptedByListening, HaltOrder, Ended
<1>2. ASSUME NEW l \in Listeners, StartConnection(l)
      PROVE AcceptedByListening' /\ HaltOrder'
  <2>1. l \in listening
    BY <1>2 DEF StartConnection, AcceptedByListening
  <2>2. halt \notin {"closing", "halted", "panicked"}
    BY <2>1 DEF HaltOrder
  <2> QED BY <1>2, <2>2 DEF StartConnection, TypeOK, AcceptedByListening, HaltOrder
<1>3. ASSUME NEW l \in Listeners, ListenerStops(l)
      PROVE AcceptedByListening' /\ HaltOrder'
  BY <1>3 DEF ListenerStops, AcceptedByListening, HaltOrder, Ended
<1>4. ASSUME NEW c \in Connections, Connection(c)
      PROVE AcceptedByListening' /\ HaltOrder'
  <2>1. c \in Tasks
    BY DEF Tasks
  <2> QED
    BY <1>4, <2>1, TaskGoesOn
       DEF Connection, Receive, NothingToPersist, Persist, PersistFails, WatcherReceives,
           Unlock, Reply
<1>5. ASSUME NEW t \in Tasks, Lock(t) PROVE AcceptedByListening' /\ HaltOrder'
  BY <1>5, TaskGoesOn DEF Lock
<1>6. CASE FsmReturns \/ WorkerWakes \/ WorkerStops
  <2>1. Worker \in Tasks
    BY DEF Tasks
  <2> QED BY <1>6, <2>1, TaskGoesOn DEF FsmReturns, WorkerWakes, WorkerStops
<1>7. CASE SignalArrives \/ Rotate
  BY <1>7 DEF SignalArrives, Rotate, AcceptedByListening, HaltOrder, Ended
<1>8. CASE HaltListeners \/ HaltTasks
  BY <1>8 DEF HaltListeners, HaltTasks, AcceptedByListening, HaltOrder, Ended
<1>9. ASSUME NEW l \in Listeners, OpenListener(l) PROVE AcceptedByListening' /\ HaltOrder'
  <2>1. CASE halt \in {"closing", "halted"}
    BY <1>9, <2>1, PanicOrder DEF OpenListener, HaltOrder
  <2>2. CASE halt = "panicked"
    BY <1>9, <2>2 DEF OpenListener, HaltOrder
  <2>3. CASE halt \notin {"closing", "halted", "panicked"}
    <3>1. /\ listening' = listening \cup {l}
          /\ UNCHANGED <<accepted, task, halt, db>>
      BY <1>9, <2>3 DEF OpenListener
    <3> QED BY <2>3, <3>1 DEF AcceptedByListening, HaltOrder
  <2> QED BY <2>1, <2>2, <2>3
<1>10. CASE CloseDb
  BY <1>10 DEF CloseDb, TasksDone, AcceptedByListening, HaltOrder, Ended
<1>11. CASE Halted
  <2>1. ~db
    BY <1>11 DEF Halted, HaltOrder
  <2> QED BY <1>11, <2>1, PanicOrder DEF Halted, AcceptedByListening, HaltOrder, Ended
<1>12. CASE RotateFails
  <2>1. halt = "halted" => ~db
    BY DEF HaltOrder
  <2> QED BY <1>12, <2>1, PanicOrder DEF RotateFails, AcceptedByListening, HaltOrder, Ended
<1>13. CASE UNCHANGED vars
  BY <1>13 DEF vars, AcceptedByListening, HaltOrder, Ended
<1> QED
  BY <1>1, <1>2, <1>3, <1>4, <1>5, <1>6, <1>7, <1>8, <1>9, <1>10, <1>11, <1>12, <1>13
     DEF Next, Shutdown

(* The types and the order of the shutdown hold in every state.            *)
THEOREM LifecycleInvariant == Spec => []LifecycleInv
BY LifecycleInit, LifecycleStep, PTL DEF Spec

(* Every variable keeps its type.                                          *)
THEOREM LifecycleTypeCorrect == Spec => []TypeOK
<1>1. LifecycleInv => TypeOK
  BY DEF LifecycleInv
<1> QED
  BY <1>1, LifecycleInvariant, PTL

(* No request writes to the store once it is closed.                       *)
THEOREM StoreOutlivesWrites == Spec => []NoWriteAfterClose
<1>1. LifecycleInv => NoWriteAfterClose
  <2> SUFFICES ASSUME LifecycleInv, NEW c \in Connections, task[c] = "locked" PROVE db
    BY DEF NoWriteAfterClose
  <2>1. c \in Tasks /\ ~Ended(c)
    BY DEF Tasks, Ended
  <2> QED BY <2>1 DEF LifecycleInv, HaltOrder
<1> QED
  BY <1>1, LifecycleInvariant, PTL

(* When the shutdown has ended no goroutine runs and no connection that    *)
(* was accepted is left.                                                   *)
THEOREM HaltIsGraceful == Spec => []GracefulHalt
<1>1. LifecycleInv => GracefulHalt
  BY DEF LifecycleInv, HaltOrder, AcceptedByListening, GracefulHalt, Ended
<1> QED
  BY <1>1, LifecycleInvariant, PTL
=============================================================================
