---------------------------- MODULE DeviceManager ----------------------------
(***************************************************************************)
(* The whole manager: DeviceManagerApplication with its tick thread, the   *)
(* DeviceManager behind it and one queue with its worker per device.       *)
(*                                                                         *)
(* DeviceQueue looks into one queue; here a queue is the serial executor   *)
(* it implements, and the subject is start, failed start, stop and restart *)
(* against ticks and submissions.  Locks: lifecycle_mutex_ and mutex_ of   *)
(* the application.  DeviceManager::lifecycle_mutex is only taken by the   *)
(* holder of the former; critical sections of submission_mutex and of the  *)
(* queues' mutexes never wait and are single actions.                      *)
(***************************************************************************)
EXTENDS Integers, Sequences, FiniteSets

CONSTANTS
  Devices,
  Controllers,   \* threads that call the application's start() and stop()
  Faults,        \* where Device::start may throw
  MaxSessions,   \* bound on the start() calls that start something
  MaxFaults,     \* bound on the exceptions thrown by start()
  MaxQueued,     \* bound on the batches waiting in one queue
  Nobody         \* holds a free mutex

\* "handler": set_event_handler throws; "register": register_hook throws before
\* it has handed over a hook; "registered": after; "thread": the worker thread
\* cannot be created.
FaultPlaces == {"handler", "register", "registered", "thread"}

ASSUME ManagerAssumption ==
  /\ Devices # {} /\ Controllers # {}
  /\ Faults \subseteq FaultPlaces
  /\ MaxSessions \in Nat /\ MaxFaults \in Nat /\ MaxQueued \in Nat
  /\ Nobody \notin Controllers

VARIABLES
  lifecycleLock, mutex,   \* holders of lifecycle_mutex_ and mutex_
  pc, todo,               \* where a controller is; devices its loop has left
  appRunning, running,    \* DeviceManagerApplication::running_, Impl::running
  hook, hookRegistered,   \* per device: Device::hook is set, hook_registered
  open, backlog,          \* per device: DeviceQueue::running_, its batches
  worker, hand,           \* per device: the worker thread and its batch
  tick, tickLeft, tickOf, \* the tick thread, the devices its pass has left, its answer
  tickSession,            \* the session in which its pass began
  session, faults         \* history: sessions started, exceptions thrown

controlVars == <<lifecycleLock, mutex, pc, todo, appRunning, running>>
deviceVars == <<hook, hookRegistered>>
queueVars == <<open, backlog, worker, hand>>
tickVars == <<tick, tickLeft, tickOf, tickSession>>
vars == <<controlVars, deviceVars, queueVars, tickVars, session, faults>>

\* A batch is known by who submitted it, and a tick's batch by its session.
Batch(by, of) == [by |-> by, session |-> of]
NoBatch == Batch("nobody", 0)

Init ==
  /\ lifecycleLock = Nobody /\ mutex = Nobody
  /\ pc = [c \in Controllers |-> "out"]
  /\ todo = {}
  /\ appRunning = FALSE /\ running = FALSE
  /\ hook = [d \in Devices |-> FALSE]
  /\ hookRegistered = [d \in Devices |-> FALSE]
  /\ open = [d \in Devices |-> FALSE]
  /\ backlog = [d \in Devices |-> << >>]
  /\ worker = [d \in Devices |-> "none"]
  /\ hand = [d \in Devices |-> NoBatch]
  /\ tick = "none"
  /\ tickLeft = {} /\ tickOf = {} /\ tickSession = 0
  /\ session = 0 /\ faults = 0
------------------------------------------------------------------------------
At(c, place) == pc[c] = place
Goto(c, place) == pc' = [pc EXCEPT ![c] = place]

\* A controller calls start() or stop() and gets lifecycle_mutex_.
Enter(c) ==
  /\ At(c, "out")
  /\ lifecycleLock = Nobody
  /\ lifecycleLock' = c
  /\ \/ session < MaxSessions /\ Goto(c, "start")
     \/ Goto(c, "stop")
  /\ UNCHANGED <<mutex, todo, appRunning, running, deviceVars, queueVars, tickVars,
                 session, faults>>

\* The call returns (or throws) and releases what it holds.
Leave(c) ==
  /\ Goto(c, "out")
  /\ lifecycleLock' = Nobody
  /\ mutex' = IF mutex = c THEN Nobody ELSE mutex

\* DeviceManagerApplication::start holds mutex_ until it returns.
LockForStart(c) ==
  /\ At(c, "start")
  /\ mutex = Nobody
  /\ IF appRunning
     THEN Leave(c) /\ UNCHANGED todo
     ELSE /\ mutex' = c
          /\ todo' = Devices
          /\ Goto(c, "startDevices")
          /\ UNCHANGED lifecycleLock
  /\ UNCHANGED <<appRunning, running, deviceVars, queueVars, tickVars, session, faults>>

\* Device::start: register the hook once (a second one would be refused), start
\* the queue and its worker.
StartDevice(c) ==
  /\ At(c, "startDevices")
  /\ \E d \in todo :
       /\ ~hook[d] \/ hookRegistered[d]
       /\ todo' = todo \ {d}
       /\ hook' = [hook EXCEPT ![d] = TRUE]
       /\ hookRegistered' = [hookRegistered EXCEPT ![d] = TRUE]
       /\ open' = [open EXCEPT ![d] = TRUE]
       /\ worker' = [worker EXCEPT ![d] = "waiting"]
  /\ UNCHANGED <<lifecycleLock, mutex, pc, appRunning, running, backlog, hand, tickVars,
                 session, faults>>

\* Mutant: a registration that throws leaves the hook it handed over.
HookAfterKept(d, place) ==
  hook[d] \/ place = "registered" \/ place = "thread"

\* The hook after Device::start threw: cleared when the registration failed.
HookAfter(d, place) ==
  CASE place = "handler" -> hook[d]
    [] place \in {"register", "registered"} -> FALSE
    [] place = "thread" -> TRUE

\* Mutant: DeviceManager::start lets the exception through and stops nothing.
AbandonStart(c) ==
  /\ UNCHANGED todo
  /\ Leave(c)

\* The catch block of DeviceManager::start goes through all devices.
AbortStart(c) ==
  /\ todo' = Devices
  /\ Goto(c, "abort")
  /\ UNCHANGED <<lifecycleLock, mutex>>

\* Device::start throws.
DeviceThrows(c) ==
  /\ At(c, "startDevices")
  /\ faults < MaxFaults
  /\ faults' = faults + 1
  /\ \E d \in todo, place \in Faults :
       /\ place \in {"register", "registered"} => ~hookRegistered[d]
       /\ hook' = [hook EXCEPT ![d] = HookAfter(d, place)]
       /\ hookRegistered' = [hookRegistered EXCEPT ![d] = @ \/ place = "thread"]
       /\ open' = [open EXCEPT ![d] = place = "thread"]
  /\ AbortStart(c)
  /\ UNCHANGED <<appRunning, running, backlog, worker, hand, tickVars, session>>

\* DeviceManager::start opens the manager for submissions.
OpenManager(c) ==
  /\ At(c, "startDevices")
  /\ todo = {}
  /\ running' = TRUE
  /\ session' = session + 1
  /\ Goto(c, "spawn")
  /\ UNCHANGED <<lifecycleLock, mutex, todo, appRunning, deviceVars, queueVars, tickVars,
                 faults>>

\* The tick thread is created and start() returns.
SpawnTick(c) ==
  /\ At(c, "spawn")
  /\ appRunning' = TRUE
  /\ tick' = "waiting"
  /\ Leave(c)
  /\ UNCHANGED <<todo, running, deviceVars, queueVars, tickLeft, tickOf, tickSession,
                 session, faults>>

\* The tick thread cannot be created: manager_.stop(), still under mutex_.
SpawnThrows(c) ==
  /\ At(c, "spawn")
  /\ faults < MaxFaults
  /\ faults' = faults + 1
  /\ running' = FALSE
  /\ AbortStart(c)
  /\ UNCHANGED <<appRunning, deviceVars, queueVars, tickVars, session>>
------------------------------------------------------------------------------
\* DeviceManagerApplication::stop looks at running_ under mutex_.
LockForStop(c) ==
  /\ At(c, "stop")
  /\ mutex = Nobody
  /\ IF ~appRunning
     THEN Leave(c) /\ UNCHANGED appRunning
     ELSE /\ appRunning' = FALSE
          /\ Goto(c, "closeManager")
          /\ UNCHANGED <<lifecycleLock, mutex>>
  /\ UNCHANGED <<todo, running, deviceVars, queueVars, tickVars, session, faults>>

\* DeviceManager::stop closes the manager, then stops every device.
CloseManager(c) ==
  /\ At(c, "closeManager")
  /\ running' = FALSE
  /\ todo' = Devices
  /\ Goto(c, "stopDevices")
  /\ UNCHANGED <<lifecycleLock, mutex, appRunning, deviceVars, queueVars, tickVars,
                 session, faults>>

\* The loop over the devices sits in the join of this one.
Joining(d) == ~open[d] /\ worker[d] # "none"

\* Mutant: the batches of a stopped queue stay in it.
CloseQueueKeepsBatches(c) ==
  /\ pc[c] \in {"abort", "stopDevices"}
  /\ \A d \in todo : ~Joining(d)
  /\ \E d \in todo : open[d] /\ open' = [open EXCEPT ![d] = FALSE]
  /\ UNCHANGED <<controlVars, deviceVars, backlog, worker, hand, tickVars, session, faults>>

\* DeviceQueue::stop closes the queue and drops what it holds ...
CloseQueue(c) ==
  /\ pc[c] \in {"abort", "stopDevices"}
  /\ \A d \in todo : ~Joining(d)
  /\ \E d \in todo :
       /\ open[d]
       /\ open' = [open EXCEPT ![d] = FALSE]
       /\ backlog' = [backlog EXCEPT ![d] = << >>]
  /\ UNCHANGED <<controlVars, deviceVars, worker, hand, tickVars, session, faults>>

\* ... and joins the worker, if there is one.
JoinWorker(c) ==
  /\ pc[c] \in {"abort", "stopDevices"}
  /\ \E d \in todo :
       /\ ~open[d]
       /\ worker[d] \in {"none", "exited"}
       /\ \A e \in todo : Joining(e) => e = d
       /\ worker' = [worker EXCEPT ![d] = "none"]
       /\ todo' = todo \ {d}
  /\ UNCHANGED <<lifecycleLock, mutex, pc, appRunning, running, hook, hookRegistered,
                 open, backlog, hand, tickVars, session, faults>>

\* A failed start has stopped its devices and throws.
Rethrow(c) ==
  /\ At(c, "abort")
  /\ todo = {}
  /\ Leave(c)
  /\ UNCHANGED <<todo, appRunning, running, deviceVars, queueVars, tickVars, session,
                 faults>>

\* Mutant: stop() returns without waiting for the tick thread.
DetachTick(c) ==
  /\ At(c, "stopDevices")
  /\ todo = {}
  /\ Leave(c)
  /\ UNCHANGED <<todo, appRunning, running, deviceVars, queueVars, tickVars, session,
                 faults>>

\* stop() joins the tick thread and returns.
JoinTick(c) ==
  /\ At(c, "stopDevices")
  /\ todo = {}
  /\ tick = "exited"
  /\ tick' = "none"
  /\ Leave(c)
  /\ UNCHANGED <<todo, appRunning, running, deviceVars, queueVars, tickLeft, tickOf,
                 tickSession, session, faults>>
------------------------------------------------------------------------------
\* Mutant: the loop goes on whatever running_ says.
TickLoopsForever == TRUE

\* while (running_) and the predicate of wait_for.
TickGoesOn == appRunning

\* wait_for returns with mutex_ held: the thread ends, or unlocks and ticks.
TickWakes ==
  /\ tick = "waiting"
  /\ mutex = Nobody
  /\ tick' = IF TickGoesOn THEN "enter" ELSE "exited"
  /\ UNCHANGED <<controlVars, deviceVars, queueVars, tickLeft, tickOf, tickSession,
                 session, faults>>

\* DeviceManager::tick begins its pass over the devices.
TickBegins ==
  /\ tick = "enter"
  /\ tick' = "pass"
  /\ tickLeft' = IF running THEN Devices ELSE {}
  /\ tickSession' = session
  /\ UNCHANGED <<controlVars, deviceVars, queueVars, tickOf, session, faults>>

\* It evaluates a device's hook, which answers a batch or nothing.
TickEvaluates ==
  /\ tick = "pass"
  /\ tickOf = {}
  /\ \E d \in tickLeft :
       /\ tickLeft' = tickLeft \ {d}
       /\ tickOf' \in IF hook[d] THEN { {}, {d} } ELSE { {} }
  /\ UNCHANGED <<controlVars, deviceVars, queueVars, tick, tickSession, session, faults>>

\* DeviceManager::enqueue under submission_mutex, and the queue's own check.
Accepts(d) == running /\ open[d]

Push(d, batch) ==
  /\ Len(backlog[d]) < MaxQueued
  /\ backlog' = [backlog EXCEPT ![d] = Append(@, batch)]

\* It enqueues the answer, or sees it rejected.
TickSubmits ==
  /\ tick = "pass"
  /\ \E d \in tickOf :
       \/ Accepts(d) /\ Push(d, Batch("tick", tickSession))
       \/ ~Accepts(d) /\ UNCHANGED backlog
  /\ tickOf' = {}
  /\ UNCHANGED <<controlVars, deviceVars, open, worker, hand, tick, tickLeft, tickSession,
                 session, faults>>

\* The pass is over and the thread locks mutex_ again; what it sees of running_
\* it sees again in wait_for.
TickEnds ==
  /\ tick = "pass"
  /\ tickLeft = {} /\ tickOf = {}
  /\ mutex = Nobody
  /\ tick' = IF TickGoesOn THEN "waiting" ELSE "exited"
  /\ UNCHANGED <<controlVars, deviceVars, queueVars, tickLeft, tickOf, tickSession,
                 session, faults>>

\* A caller submits a batch through change_state or patch_parameters.
CallerSubmits ==
  /\ \E d \in Devices : Accepts(d) /\ Push(d, Batch("caller", session))
  /\ UNCHANGED <<controlVars, deviceVars, open, worker, hand, tickVars, session, faults>>
------------------------------------------------------------------------------
\* The worker of a device: take a batch, run it to its end, finalize and exit.
TakeBatch(d) ==
  /\ worker[d] = "waiting"
  /\ open[d]
  /\ backlog[d] # << >>
  /\ hand' = [hand EXCEPT ![d] = Head(backlog[d])]
  /\ backlog' = [backlog EXCEPT ![d] = Tail(@)]
  /\ worker' = [worker EXCEPT ![d] = "busy"]
  /\ UNCHANGED <<controlVars, deviceVars, open, tickVars, session, faults>>

FinishBatch(d) ==
  /\ worker[d] = "busy"
  /\ hand' = [hand EXCEPT ![d] = NoBatch]
  /\ worker' = [worker EXCEPT ![d] = "waiting"]
  /\ UNCHANGED <<controlVars, deviceVars, open, backlog, tickVars, session, faults>>

FinalizeDevice(d) ==
  /\ worker[d] = "waiting"
  /\ ~open[d]
  /\ worker' = [worker EXCEPT ![d] = "exited"]
  /\ UNCHANGED <<controlVars, deviceVars, open, backlog, hand, tickVars, session, faults>>
------------------------------------------------------------------------------
\* What a controller does once it is inside a call.
Control(c) ==
  \/ LockForStart(c) \/ StartDevice(c) \/ DeviceThrows(c) \/ OpenManager(c)
  \/ SpawnTick(c) \/ SpawnThrows(c)
  \/ LockForStop(c) \/ CloseManager(c) \/ CloseQueue(c) \/ JoinWorker(c)
  \/ Rethrow(c) \/ JoinTick(c)

Ticker == TickWakes \/ TickBegins \/ TickEvaluates \/ TickSubmits \/ TickEnds

WorkerOf(d) == TakeBatch(d) \/ FinishBatch(d) \/ FinalizeDevice(d)

Next ==
  \/ \E c \in Controllers : Enter(c) \/ Control(c)
  \/ Ticker
  \/ CallerSubmits
  \/ \E d \in Devices : WorkerOf(d)

Spec == Init /\ [][Next]_vars

\* Every thread is scheduled and every hook and runtime call returns; nobody
\* has to call start(), stop() or submit.
FairSpec ==
  /\ Spec
  /\ \A c \in Controllers : WF_vars(Control(c))
  /\ WF_vars(Ticker)
  /\ \A d \in Devices : WF_vars(WorkerOf(d))
------------------------------------------------------------------------------
\* Between two calls a stopped application has no thread and no batch left,
\* also after a start() that threw halfway.
StoppedMeansStopped ==
  (lifecycleLock = Nobody /\ ~appRunning) =>
    /\ ~running
    /\ tick = "none"
    /\ \A d \in Devices :
         /\ worker[d] = "none" /\ ~open[d]
         /\ backlog[d] = << >> /\ hand[d] = NoBatch

\* What a tick found out in one session is never executed in a later one.
NoStaleTick ==
  \A d \in Devices :
    \A batch \in {hand[d]} \cup { backlog[d][i] : i \in DOMAIN backlog[d] } :
      batch.by = "tick" => batch.session = session

\* Between two calls the hook slot and hook_registered agree, so that a start()
\* that is tried again never registers a second hook or goes without one.
HookKeptOnce ==
  lifecycleLock = Nobody => hook = hookRegistered

\* start() and stop() return: nobody waits for a lock or a thread forever.
CallsReturn == \A c \in Controllers : (pc[c] # "out") ~> (pc[c] = "out")
==============================================================================
