--------------------------- MODULE DeviceManager_proofs ---------------------------
(***************************************************************************)
(* The promises of the whole manager, proved for every number of devices   *)
(* and controlling threads: between two calls a stopped application is     *)
(* stopped, no tick's batch crosses a restart, the hook slot and its       *)
(* registration agree, and every device is a serial executor throughout.   *)
(***************************************************************************)
EXTENDS DeviceExecutor, TLAPS

Places == {"out", "start", "startDevices", "abort", "spawn", "stop", "closeManager",
           "stopDevices"}
BatchType == [by : {"tick", "caller", "nobody"}, session : Nat]

TypeInv ==
  /\ lifecycleLock \in Controllers \cup {Nobody}
  /\ mutex \in Controllers \cup {Nobody}
  /\ pc \in [Controllers -> Places]
  /\ todo \in SUBSET Devices
  /\ appRunning \in BOOLEAN /\ running \in BOOLEAN
  /\ hook \in [Devices -> BOOLEAN] /\ hookRegistered \in [Devices -> BOOLEAN]
  /\ open \in [Devices -> BOOLEAN]
  /\ backlog \in [Devices -> Seq(BatchType)]
  /\ worker \in [Devices -> {"none", "waiting", "busy", "exited"}]
  /\ hand \in [Devices -> BatchType]
  /\ tick \in {"none", "waiting", "enter", "pass", "exited"}
  /\ tickLeft \in SUBSET Devices /\ tickOf \in SUBSET Devices
  /\ tickSession \in Nat /\ session \in Nat /\ faults \in Nat

\* One controller at a time is inside a call; it holds mutex_ while it starts.
LockInv ==
  \A c \in Controllers :
    /\ pc[c] # "out" <=> lifecycleLock = c
    /\ pc[c] \in {"startDevices", "spawn", "abort"} <=> mutex = c

\* How far the call in progress is.
Place == IF lifecycleLock = Nobody THEN "out" ELSE pc[lifecycleLock]
Outside == {"out", "start", "stop"}

Started(d) == open[d] /\ worker[d] \in {"waiting", "busy"}
Stopped(d) == ~open[d] /\ worker[d] = "none"

\* What a device's queue and worker agree on, whoever is at work.
DeviceInv ==
  \A d \in Devices :
    /\ ~open[d] \/ worker[d] = "none" => backlog[d] = << >>
    /\ worker[d] # "busy" => hand[d] = NoBatch
    /\ worker[d] = "exited" => ~open[d]

\* The devices, place by place.
ControlInv ==
  /\ appRunning => Place \in Outside
  /\ Place \in Outside => running = appRunning
  /\ Place \in {"startDevices", "abort", "stopDevices"} => ~running
  /\ Place \in {"spawn", "closeManager"} => running
  /\ running => \A d \in Devices : Started(d)
  /\ Place \in Outside /\ ~appRunning => \A d \in Devices : Stopped(d)
  /\ Place \in {"abort", "stopDevices"} => \A d \in Devices \ todo : Stopped(d)
  /\ Place = "startDevices" =>
       \A d \in Devices : /\ IF d \in todo THEN Stopped(d) ELSE Started(d)
                          /\ backlog[d] = << >> /\ hand[d] = NoBatch

\* The tick thread lives from the end of start() to the end of stop().
TickInv ==
  /\ appRunning => tick \notin {"none", "exited"}
  /\ ~appRunning /\ Place \notin {"closeManager", "stopDevices"} => tick = "none"
  /\ tick = "pass" => tickSession = session

ManagerInv ==
  /\ TypeInv /\ LockInv /\ DeviceInv /\ ControlInv /\ TickInv /\ NoStaleTick
  /\ hook = hookRegistered
------------------------------------------------------------------------------
LEMMA ManagerInit == Init => ManagerInv
  <1>. SUFFICES ASSUME Init
                PROVE  ManagerInv
    OBVIOUS
  <1>. USE ManagerAssumption DEF Init
  <1>1. NoBatch \in BatchType /\ NoBatch.by = "nobody"
    BY DEF NoBatch, Batch, BatchType
  <1>2. TypeInv
    <2>1. << >> \in Seq(BatchType)
      OBVIOUS
    <2>. QED  BY <1>1, <2>1 DEF TypeInv, Places
  <1>3. LockInv
    BY DEF LockInv
  <1>4. Place = "out"
    BY DEF Place
  <1>5. DeviceInv /\ ControlInv /\ TickInv
    BY <1>4 DEF DeviceInv, ControlInv, TickInv, Stopped, Started, Outside
  <1>6. NoStaleTick
    BY <1>1 DEF NoStaleTick
  <1>. QED  BY <1>2, <1>3, <1>5, <1>6 DEF ManagerInv

\* A controller at a place is the one whose call is in progress.
LEMMA PlaceOf ==
  ASSUME TypeInv, LockInv, NEW c \in Controllers, pc[c] # "out"
  PROVE  Place = pc[c] /\ lifecycleLock = c /\ c # Nobody
  BY ManagerAssumption DEF Place, LockInv

\* Where its step takes it, and what that does to the locks.
LEMMA Moved ==
  ASSUME TypeInv, LockInv, NEW c \in Controllers, pc[c] # "out",
         NEW place \in Places \ {"out"}, Goto(c, place), UNCHANGED lifecycleLock,
         \/ /\ UNCHANGED mutex
            /\ place \in {"startDevices", "spawn", "abort"}
                 <=> pc[c] \in {"startDevices", "spawn", "abort"}
         \/ /\ mutex = Nobody /\ mutex' = c
            /\ place \in {"startDevices", "spawn", "abort"}
  PROVE  Place' = place /\ LockInv' /\ pc' \in [Controllers -> Places]
  <1>1. lifecycleLock = c /\ c # Nobody /\ pc' = [pc EXCEPT ![c] = place]
        /\ pc \in [Controllers -> Places]
    BY PlaceOf DEF Goto, TypeInv
  <1>2. pc'[c] = place /\ \A b \in Controllers \ {c} : pc'[b] = pc[b] /\ pc[b] = "out"
    BY <1>1 DEF LockInv
  <1>3. Place' = place
    BY <1>1, <1>2 DEF Place
  <1>4. LockInv'
    <2>. SUFFICES ASSUME NEW b \in Controllers
                  PROVE  /\ pc'[b] # "out" <=> lifecycleLock' = b
                         /\ pc'[b] \in {"startDevices", "spawn", "abort"} <=> mutex' = b
      BY DEF LockInv
    <2>1. CASE b = c
      BY <1>1, <1>2, <2>1 DEF LockInv
    <2>2. CASE b # c
      BY <1>1, <1>2, <2>2, ManagerAssumption DEF LockInv
    <2>. QED  BY <2>1, <2>2
  <1>. QED  BY <1>1, <1>3, <1>4

LEMMA Left ==
  ASSUME TypeInv, LockInv, NEW c \in Controllers, pc[c] # "out", Leave(c)
  PROVE  /\ Place' = "out" /\ LockInv'
         /\ lifecycleLock' = Nobody /\ mutex' \in Controllers \cup {Nobody}
         /\ pc' \in [Controllers -> Places]
  <1>1. /\ lifecycleLock = c /\ c # Nobody /\ lifecycleLock' = Nobody
        /\ pc' = [pc EXCEPT ![c] = "out"] /\ pc \in [Controllers -> Places]
        /\ mutex' = IF mutex = c THEN Nobody ELSE mutex
        /\ mutex \in Controllers \cup {Nobody}
    BY PlaceOf DEF Leave, Goto, TypeInv
  <1>2. \A b \in Controllers : pc'[b] = "out" /\ (b # c => pc[b] = "out")
    BY <1>1 DEF LockInv
  <1>3. mutex' = Nobody
    BY <1>1, <1>2, ManagerAssumption DEF LockInv
  <1>4. LockInv'
    BY <1>1, <1>2, <1>3, ManagerAssumption DEF LockInv
  <1>. QED  BY <1>1, <1>3, <1>4 DEF Place, Places

LEMMA Entered ==
  ASSUME TypeInv, LockInv, NEW c \in Controllers, Enter(c)
  PROVE  /\ Place = "out" /\ Place' \in {"start", "stop"} /\ LockInv'
         /\ lifecycleLock' = c /\ pc' \in [Controllers -> Places]
  <1>1. PICK place \in {"start", "stop"} : Goto(c, place)
    BY DEF Enter
  <1>2. /\ lifecycleLock = Nobody /\ lifecycleLock' = c /\ mutex' = mutex /\ c # Nobody
        /\ pc' = [pc EXCEPT ![c] = place] /\ pc \in [Controllers -> Places] /\ pc[c] = "out"
    BY <1>1, ManagerAssumption DEF Enter, Goto, At, TypeInv
  <1>3. pc'[c] = place /\ \A b \in Controllers : pc[b] = "out" /\ (b # c => pc'[b] = "out")
    BY <1>2, ManagerAssumption DEF LockInv
  <1>4. LockInv'
    <2>. SUFFICES ASSUME NEW b \in Controllers
                  PROVE  /\ pc'[b] # "out" <=> lifecycleLock' = b
                         /\ pc'[b] \in {"startDevices", "spawn", "abort"} <=> mutex' = b
      BY DEF LockInv
    <2>1. mutex # b
      BY <1>3 DEF LockInv
    <2>2. CASE b = c
      BY <1>2, <1>3, <2>1, <2>2
    <2>3. CASE b # c
      BY <1>2, <1>3, <2>1, <2>3
    <2>. QED  BY <2>2, <2>3
  <1>5. Place = "out" /\ Place' = place
    BY <1>2, <1>3 DEF Place
  <1>6. pc' \in [Controllers -> Places]
    BY <1>2 DEF Places
  <1>. QED  BY <1>2, <1>4, <1>5, <1>6
\* The places of every step.
LEMMA Steps ==
  ASSUME TypeInv, LockInv, NEW c \in Controllers
  PROVE  /\ Enter(c) => Place = "out" /\ Place' \in {"start", "stop"}
         /\ LockForStart(c) =>
              Place = "start" /\ Place' = IF appRunning THEN "out" ELSE "startDevices"
         /\ StartDevice(c) => Place = "startDevices" /\ Place' = "startDevices"
         /\ DeviceThrows(c) => Place = "startDevices" /\ Place' = "abort"
         /\ OpenManager(c) => Place = "startDevices" /\ Place' = "spawn"
         /\ SpawnTick(c) => Place = "spawn" /\ Place' = "out"
         /\ SpawnThrows(c) => Place = "spawn" /\ Place' = "abort"
         /\ LockForStop(c) =>
              Place = "stop" /\ Place' = IF appRunning THEN "closeManager" ELSE "out"
         /\ CloseManager(c) => Place = "closeManager" /\ Place' = "stopDevices"
         /\ CloseQueue(c) \/ JoinWorker(c) =>
              Place \in {"abort", "stopDevices"} /\ Place' = Place
         /\ Rethrow(c) => Place = "abort" /\ Place' = "out"
         /\ JoinTick(c) => Place = "stopDevices" /\ Place' = "out"
         /\ Enter(c) \/ Control(c) =>
              /\ LockInv'
              /\ lifecycleLock' \in Controllers \cup {Nobody}
              /\ mutex' \in Controllers \cup {Nobody}
              /\ pc' \in [Controllers -> Places]
  <1>. DEFINE LocksOK == /\ LockInv'
                         /\ lifecycleLock' \in Controllers \cup {Nobody}
                         /\ mutex' \in Controllers \cup {Nobody}
                         /\ pc' \in [Controllers -> Places]
  <1>0. /\ lifecycleLock \in Controllers \cup {Nobody} /\ mutex \in Controllers \cup {Nobody}
        /\ pc \in [Controllers -> Places]
    BY DEF TypeInv
  <1>1. Enter(c) => Place = "out" /\ Place' \in {"start", "stop"} /\ LocksOK
    BY <1>0, Entered DEF Enter
  <1>2. ASSUME LockForStart(c)
        PROVE  /\ Place = "start" /\ Place' = IF appRunning THEN "out" ELSE "startDevices"
               /\ LocksOK
    <2>1. pc[c] = "start" /\ mutex = Nobody
      BY <1>2 DEF LockForStart, At
    <2>2. CASE appRunning
      BY <1>2, <2>1, <2>2, PlaceOf, Left DEF LockForStart
    <2>3. CASE ~appRunning
      BY <1>0, <1>2, <2>1, <2>3, PlaceOf, Moved DEF LockForStart, Places
    <2>. QED  BY <2>2, <2>3
  <1>3. ASSUME StartDevice(c) \/ CloseQueue(c) \/ JoinWorker(c)
        PROVE  /\ StartDevice(c) => Place = "startDevices"
               /\ CloseQueue(c) \/ JoinWorker(c) => Place \in {"abort", "stopDevices"}
               /\ Place' = Place /\ LocksOK
    <2>1. /\ pc[c] # "out" /\ UNCHANGED <<lifecycleLock, mutex, pc>>
          /\ StartDevice(c) => pc[c] = "startDevices"
          /\ CloseQueue(c) \/ JoinWorker(c) => pc[c] \in {"abort", "stopDevices"}
      BY <1>3 DEF StartDevice, CloseQueue, JoinWorker, At, controlVars
    <2>2. LockInv' /\ Place' = Place
      BY <2>1 DEF LockInv, Place
    <2>. QED  BY <1>0, <2>1, <2>2, PlaceOf
  <1>4. ASSUME DeviceThrows(c)
        PROVE  Place = "startDevices" /\ Place' = "abort" /\ LocksOK
    <2>1. pc[c] = "startDevices" /\ Goto(c, "abort") /\ UNCHANGED <<lifecycleLock, mutex>>
      BY <1>4 DEF DeviceThrows, AbortStart, At
    <2>. QED  BY <1>0, <2>1, PlaceOf, Moved DEF Places
  <1>5. ASSUME OpenManager(c)
        PROVE  Place = "startDevices" /\ Place' = "spawn" /\ LocksOK
    <2>1. pc[c] = "startDevices" /\ Goto(c, "spawn") /\ UNCHANGED <<lifecycleLock, mutex>>
      BY <1>5 DEF OpenManager, At
    <2>. QED  BY <1>0, <2>1, PlaceOf, Moved DEF Places
  <1>6. ASSUME SpawnTick(c)
        PROVE  Place = "spawn" /\ Place' = "out" /\ LocksOK
    <2>1. pc[c] = "spawn" /\ Leave(c)
      BY <1>6 DEF SpawnTick, At
    <2>. QED  BY <2>1, PlaceOf, Left
  <1>7. ASSUME SpawnThrows(c)
        PROVE  Place = "spawn" /\ Place' = "abort" /\ LocksOK
    <2>1. pc[c] = "spawn" /\ Goto(c, "abort") /\ UNCHANGED <<lifecycleLock, mutex>>
      BY <1>7 DEF SpawnThrows, AbortStart, At
    <2>. QED  BY <1>0, <2>1, PlaceOf, Moved DEF Places
  <1>8. ASSUME LockForStop(c)
        PROVE  /\ Place = "stop" /\ Place' = IF appRunning THEN "closeManager" ELSE "out"
               /\ LocksOK
    <2>1. pc[c] = "stop"
      BY <1>8 DEF LockForStop, At
    <2>2. CASE ~appRunning
      BY <1>8, <2>1, <2>2, PlaceOf, Left DEF LockForStop
    <2>3. CASE appRunning
      BY <1>0, <1>8, <2>1, <2>3, PlaceOf, Moved DEF LockForStop, Places
    <2>. QED  BY <2>2, <2>3
  <1>9. ASSUME CloseManager(c)
        PROVE  Place = "closeManager" /\ Place' = "stopDevices" /\ LocksOK
    <2>1. pc[c] = "closeManager" /\ Goto(c, "stopDevices") /\ UNCHANGED <<lifecycleLock, mutex>>
      BY <1>9 DEF CloseManager, At
    <2>. QED  BY <1>0, <2>1, PlaceOf, Moved DEF Places
  <1>10. ASSUME Rethrow(c) \/ JoinTick(c)
         PROVE  /\ Rethrow(c) => Place = "abort"
                /\ JoinTick(c) => Place = "stopDevices"
                /\ Place' = "out" /\ LocksOK
    <2>1. /\ pc[c] # "out" /\ Leave(c)
          /\ Rethrow(c) => pc[c] = "abort"
          /\ JoinTick(c) => pc[c] = "stopDevices"
      BY <1>10 DEF Rethrow, JoinTick, At
    <2>. QED  BY <2>1, PlaceOf, Left
  <1>. HIDE DEF LocksOK
  <1>11. Enter(c) \/ Control(c) => LocksOK
    BY <1>1, <1>2, <1>3, <1>4, <1>5, <1>6, <1>7, <1>8, <1>9, <1>10 DEF Control
  <1>. QED  BY <1>1, <1>2, <1>3, <1>4, <1>5, <1>6, <1>7, <1>8, <1>9, <1>10, <1>11 DEF LocksOK

\* The other threads leave the controllers where they are.
LEMMA Others ==
  ASSUME LockInv, UNCHANGED controlVars
  PROVE  LockInv' /\ Place' = Place
  BY DEF LockInv, Place, controlVars
------------------------------------------------------------------------------
(***************************************************************************)
(* Every step preserves the invariant, part by part.                       *)
(***************************************************************************)
LEMMA TypeNext == ManagerInv /\ [Next]_vars => TypeInv'
  <1>. SUFFICES ASSUME ManagerInv, [Next]_vars
                PROVE  TypeInv'
    OBVIOUS
  <1>. USE DEF deviceVars, queueVars, tickVars
  <1>0. TypeInv /\ LockInv
    BY DEF ManagerInv
  <1>00. /\ NoBatch \in BatchType
         /\ \A by \in {"tick", "caller"}, of \in Nat : Batch(by, of) \in BatchType
    BY DEF NoBatch, Batch, BatchType
  <1>1. ASSUME NEW c \in Controllers, Enter(c) \/ Control(c)
        PROVE  TypeInv'
    <2>0. /\ lifecycleLock' \in Controllers \cup {Nobody}
          /\ mutex' \in Controllers \cup {Nobody}
          /\ pc' \in [Controllers -> Places]
      BY <1>0, <1>1, Steps
    <2>1. CASE Enter(c)
      BY <1>0, <2>0, <2>1 DEF TypeInv, Enter
    <2>2. CASE LockForStart(c)
      BY <1>0, <2>0, <2>2 DEF TypeInv, LockForStart
    <2>3. CASE StartDevice(c)
      BY <1>0, <2>0, <2>3 DEF TypeInv, StartDevice
    <2>4. CASE DeviceThrows(c)
      <3>1. PICK d \in todo, place \in Faults :
              /\ hook' = [hook EXCEPT ![d] = HookAfter(d, place)]
              /\ hookRegistered' = [hookRegistered EXCEPT ![d] = @ \/ place = "thread"]
              /\ open' = [open EXCEPT ![d] = place = "thread"]
        BY <2>4 DEF DeviceThrows
      <3>2. HookAfter(d, place) \in BOOLEAN
        BY <1>0, ManagerAssumption DEF HookAfter, TypeInv, FaultPlaces
      <3>3. /\ hook' \in [Devices -> BOOLEAN] /\ hookRegistered' \in [Devices -> BOOLEAN]
            /\ open' \in [Devices -> BOOLEAN]
        BY <1>0, <3>1, <3>2 DEF TypeInv
      <3>. QED  BY <1>0, <2>0, <2>4, <3>3 DEF TypeInv, DeviceThrows, AbortStart
    <2>5. CASE OpenManager(c)
      BY <1>0, <2>0, <2>5 DEF TypeInv, OpenManager
    <2>6. CASE SpawnTick(c)
      BY <1>0, <2>0, <2>6 DEF TypeInv, SpawnTick
    <2>7. CASE SpawnThrows(c)
      <3>1. /\ todo' = Devices /\ running' = FALSE /\ faults' = faults + 1
            /\ appRunning' = appRunning /\ session' = session
        BY <2>7 DEF SpawnThrows, AbortStart
      <3>2. UNCHANGED <<deviceVars, queueVars, tickVars>>
        BY <2>7 DEF SpawnThrows
      <3>3. todo' \in SUBSET Devices /\ faults' \in Nat /\ session' \in Nat
        BY <1>0, <3>1 DEF TypeInv
      <3>4. running' \in BOOLEAN /\ appRunning' \in BOOLEAN
        BY <1>0, <3>1 DEF TypeInv
      <3>. QED  BY <1>0, <2>0, <3>2, <3>3, <3>4 DEF TypeInv
    <2>8. CASE LockForStop(c)
      BY <1>0, <2>0, <2>8 DEF TypeInv, LockForStop
    <2>9. CASE CloseManager(c)
      BY <1>0, <2>0, <2>9 DEF TypeInv, CloseManager
    <2>10. CASE CloseQueue(c)
      BY <1>0, <2>0, <2>10 DEF TypeInv, CloseQueue, controlVars
    <2>11. CASE JoinWorker(c)
      BY <1>0, <2>0, <2>11 DEF TypeInv, JoinWorker
    <2>12. CASE Rethrow(c) \/ JoinTick(c)
      BY <1>0, <2>0, <2>12 DEF TypeInv, Rethrow, JoinTick
    <2>. QED  BY <1>1, <2>1, <2>2, <2>3, <2>4, <2>5, <2>6, <2>7, <2>8, <2>9, <2>10,
                 <2>11, <2>12 DEF Control
  <1>. USE DEF controlVars
  <1>2. CASE TickWakes \/ TickEnds
    BY <1>0, <1>2 DEF TypeInv, TickWakes, TickEnds
  <1>3. CASE TickBegins
    BY <1>0, <1>3 DEF TypeInv, TickBegins
  <1>4. CASE TickEvaluates
    BY <1>0, <1>4 DEF TypeInv, TickEvaluates
  <1>5. CASE TickSubmits
    <2>1. PICK d \in tickOf : \/ Accepts(d) /\ Push(d, Batch("tick", tickSession))
                              \/ ~Accepts(d) /\ UNCHANGED backlog
      BY <1>5 DEF TickSubmits
    <2>2. d \in Devices /\ Batch("tick", tickSession) \in BatchType
      BY <1>0, <1>00 DEF TypeInv
    <2>3. backlog' \in [Devices -> Seq(BatchType)]
      <3>1. backlog \in [Devices -> Seq(BatchType)]
        BY <1>0 DEF TypeInv
      <3>2. CASE Push(d, Batch("tick", tickSession))
        <4>1. Append(backlog[d], Batch("tick", tickSession)) \in Seq(BatchType)
          BY <2>2, <3>1
        <4>. QED  BY <2>2, <3>1, <3>2, <4>1 DEF Push
      <3>. QED  BY <2>1, <3>1, <3>2
    <2>. QED  BY <1>0, <1>5, <2>3 DEF TypeInv, TickSubmits
  <1>6. CASE CallerSubmits
    <2>1. PICK d \in Devices : Push(d, Batch("caller", session))
      BY <1>6 DEF CallerSubmits
    <2>2. Batch("caller", session) \in BatchType
      BY <1>0, <1>00 DEF TypeInv
    <2>3. backlog' \in [Devices -> Seq(BatchType)]
      <3>1. backlog \in [Devices -> Seq(BatchType)]
        BY <1>0 DEF TypeInv
      <3>2. Append(backlog[d], Batch("caller", session)) \in Seq(BatchType)
        BY <2>2, <3>1
      <3>. QED  BY <2>1, <3>1, <3>2 DEF Push
    <2>. QED  BY <1>0, <1>6, <2>3 DEF TypeInv, CallerSubmits
  <1>7. ASSUME NEW d \in Devices, TakeBatch(d)
        PROVE  TypeInv'
    <2>1. Head(backlog[d]) \in BatchType /\ Tail(backlog[d]) \in Seq(BatchType)
      BY <1>0, <1>7 DEF TypeInv, TakeBatch
    <2>. QED  BY <1>0, <1>7, <2>1 DEF TypeInv, TakeBatch
  <1>8. ASSUME NEW d \in Devices, FinishBatch(d) \/ FinalizeDevice(d)
        PROVE  TypeInv'
    <2>1. CASE FinishBatch(d)
      BY <1>0, <1>00, <2>1 DEF TypeInv, FinishBatch
    <2>2. CASE FinalizeDevice(d)
      BY <1>0, <2>2 DEF TypeInv, FinalizeDevice
    <2>. QED  BY <1>8, <2>1, <2>2
  <1>9. CASE UNCHANGED vars
    BY <1>0, <1>9 DEF TypeInv, vars
  <1>. QED  BY <1>1, <1>2, <1>3, <1>4, <1>5, <1>6, <1>7, <1>8, <1>9 DEF Next, Ticker, WorkerOf

LEMMA LockNext == ManagerInv /\ [Next]_vars => LockInv'
  <1>. SUFFICES ASSUME ManagerInv, [Next]_vars
                PROVE  LockInv'
    OBVIOUS
  <1>0. TypeInv /\ LockInv
    BY DEF ManagerInv
  <1>1. CASE \E c \in Controllers : Enter(c) \/ Control(c)
    BY <1>0, <1>1, Steps
  <1>2. CASE Ticker \/ CallerSubmits \/ (\E d \in Devices : WorkerOf(d)) \/ UNCHANGED vars
    <2>1. UNCHANGED controlVars
      BY <1>2 DEF Ticker, TickWakes, TickBegins, TickEvaluates, TickSubmits, TickEnds,
         CallerSubmits, WorkerOf, TakeBatch, FinishBatch, FinalizeDevice, vars
    <2>. QED  BY <1>0, <2>1, Others
  <1>. QED  BY <1>1, <1>2 DEF Next

\* The hook slot and hook_registered change together, exception or not.
LEMMA HookNext == ManagerInv /\ [Next]_vars => hook' = hookRegistered'
  <1>. SUFFICES ASSUME ManagerInv, [Next]_vars
                PROVE  hook' = hookRegistered'
    OBVIOUS
  <1>0. TypeInv /\ hook = hookRegistered
    BY DEF ManagerInv
  <1>1. ASSUME NEW c \in Controllers, StartDevice(c)
        PROVE  hook' = hookRegistered'
    BY <1>0, <1>1 DEF StartDevice
  <1>2. ASSUME NEW c \in Controllers, DeviceThrows(c)
        PROVE  hook' = hookRegistered'
    <2>1. PICK d \in todo, place \in Faults :
            /\ place \in {"register", "registered"} => ~hookRegistered[d]
            /\ hook' = [hook EXCEPT ![d] = HookAfter(d, place)]
            /\ hookRegistered' = [hookRegistered EXCEPT ![d] = @ \/ place = "thread"]
      BY <1>2 DEF DeviceThrows
    <2>2. hookRegistered[d] \in BOOLEAN /\ hook[d] = hookRegistered[d]
      BY <1>0 DEF TypeInv
    <2>3. HookAfter(d, place) = (hookRegistered[d] \/ place = "thread")
      <3>1. CASE place = "handler"
        BY <2>2, <3>1 DEF HookAfter
      <3>2. CASE place \in {"register", "registered"}
        BY <2>1, <2>2, <3>2 DEF HookAfter
      <3>3. CASE place = "thread"
        BY <3>3 DEF HookAfter
      <3>. QED  BY <3>1, <3>2, <3>3, ManagerAssumption DEF FaultPlaces
    <2>. QED  BY <1>0, <2>1, <2>3
  <1>3. ASSUME NEW c \in Controllers, Enter(c) \/ Control(c),
               ~StartDevice(c), ~DeviceThrows(c)
        PROVE  UNCHANGED deviceVars
    BY <1>3 DEF deviceVars, Enter, Control, LockForStart, OpenManager, SpawnTick, SpawnThrows,
       LockForStop, CloseManager, CloseQueue, JoinWorker, Rethrow, JoinTick
  <1>4. CASE Ticker \/ CallerSubmits \/ (\E d \in Devices : WorkerOf(d)) \/ UNCHANGED vars
    BY <1>0, <1>4 DEF deviceVars, Ticker, TickWakes, TickBegins, TickEvaluates, TickSubmits,
       TickEnds, CallerSubmits, WorkerOf, TakeBatch, FinishBatch, FinalizeDevice, vars
  <1>. QED  BY <1>0, <1>1, <1>2, <1>3, <1>4 DEF Next, deviceVars

\* A device's queue and worker agree, whatever becomes of the manager.
LEMMA DeviceNext == ManagerInv /\ TypeInv' /\ [Next]_vars => DeviceInv'
  <1>. SUFFICES ASSUME ManagerInv, TypeInv', [Next]_vars, NEW d \in Devices
                PROVE  /\ ~open'[d] \/ worker'[d] = "none" => backlog'[d] = << >>
                       /\ worker'[d] # "busy" => hand'[d] = NoBatch
                       /\ worker'[d] = "exited" => ~open'[d]
    BY DEF DeviceInv
  <1>. DEFINE Agree == /\ ~open'[d] \/ worker'[d] = "none" => backlog'[d] = << >>
                       /\ worker'[d] # "busy" => hand'[d] = NoBatch
                       /\ worker'[d] = "exited" => ~open'[d]
  <1>0. /\ TypeInv /\ LockInv /\ ControlInv
        /\ ~open[d] \/ worker[d] = "none" => backlog[d] = << >>
        /\ worker[d] # "busy" => hand[d] = NoBatch
        /\ worker[d] = "exited" => ~open[d]
    BY DEF ManagerInv, DeviceInv
  <1>1. /\ open \in [Devices -> BOOLEAN] /\ worker \in [Devices -> {"none", "waiting", "busy", "exited"}]
        /\ backlog \in [Devices -> Seq(BatchType)] /\ hand \in [Devices -> BatchType]
    BY <1>0 DEF TypeInv
  <1>2. ASSUME UNCHANGED queueVars PROVE Agree
    BY <1>0, <1>2 DEF queueVars
  <1>3. ASSUME NEW c \in Controllers, StartDevice(c) PROVE Agree
    <2>1. PICK e \in todo : /\ open' = [open EXCEPT ![e] = TRUE]
                            /\ worker' = [worker EXCEPT ![e] = "waiting"]
      BY <1>3 DEF StartDevice
    <2>2. backlog' = backlog /\ hand' = hand
      BY <1>3 DEF StartDevice
    <2>3. Place = "startDevices" /\ e \in Devices
      BY <1>0, <1>3, Steps DEF TypeInv
    <2>4. Stopped(e)
      BY <1>0, <2>3 DEF ControlInv
    <2>5. CASE d = e
      BY <1>0, <1>1, <2>1, <2>2, <2>4, <2>5 DEF Stopped
    <2>6. CASE d # e
      BY <1>0, <1>1, <2>1, <2>2, <2>6
    <2>. QED  BY <2>5, <2>6
  <1>4. ASSUME NEW c \in Controllers, DeviceThrows(c) PROVE Agree
    <2>1. PICK e \in todo, place \in Faults : open' = [open EXCEPT ![e] = (place = "thread")]
      BY <1>4 DEF DeviceThrows
    <2>2. backlog' = backlog /\ hand' = hand /\ worker' = worker
      BY <1>4 DEF DeviceThrows
    <2>3. Place = "startDevices" /\ e \in Devices
      BY <1>0, <1>4, Steps DEF TypeInv
    <2>4. Stopped(e)
      BY <1>0, <2>3 DEF ControlInv
    <2>5. CASE d = e
      BY <1>0, <1>1, <2>1, <2>2, <2>4, <2>5 DEF Stopped
    <2>6. CASE d # e
      BY <1>0, <1>1, <2>1, <2>2, <2>6
    <2>. QED  BY <2>5, <2>6
  <1>5. ASSUME NEW c \in Controllers, CloseQueue(c) PROVE Agree
    <2>1. PICK e \in todo : /\ open' = [open EXCEPT ![e] = FALSE]
                            /\ backlog' = [backlog EXCEPT ![e] = << >>]
      BY <1>5 DEF CloseQueue
    <2>2. hand' = hand /\ worker' = worker
      BY <1>5 DEF CloseQueue
    <2>. QED  BY <1>0, <1>1, <2>1, <2>2
  <1>6. ASSUME NEW c \in Controllers, JoinWorker(c) PROVE Agree
    <2>1. PICK e \in todo : /\ ~open[e] /\ worker[e] \in {"none", "exited"}
                            /\ worker' = [worker EXCEPT ![e] = "none"]
      BY <1>6 DEF JoinWorker
    <2>2. open' = open /\ backlog' = backlog /\ hand' = hand
      BY <1>6 DEF JoinWorker
    <2>. QED  BY <1>0, <1>1, <2>1, <2>2
  <1>7. ASSUME NEW e \in Devices, NEW batch, Accepts(e), Push(e, batch),
               UNCHANGED <<open, worker, hand>>
        PROVE  Agree
    <2>1. running
      BY <1>7 DEF Accepts
    <2>2. Started(e)
      BY <1>0, <2>1 DEF ControlInv
    <2>3. CASE d = e
      BY <1>0, <1>7, <2>2, <2>3 DEF Started
    <2>4. CASE d # e
      BY <1>0, <1>1, <1>7, <2>4 DEF Push
    <2>. QED  BY <2>3, <2>4
  <1>8. CASE TickSubmits
    <2>1. UNCHANGED <<open, worker, hand>>
      BY <1>8 DEF TickSubmits
    <2>2. PICK e \in tickOf : \/ Accepts(e) /\ Push(e, Batch("tick", tickSession))
                              \/ ~Accepts(e) /\ UNCHANGED backlog
      BY <1>8 DEF TickSubmits
    <2>3. e \in Devices
      BY <1>0 DEF TypeInv
    <2>4. CASE UNCHANGED backlog
      BY <1>2, <2>1, <2>4 DEF queueVars
    <2>. QED  BY <1>7, <2>1, <2>2, <2>3, <2>4
  <1>9. CASE CallerSubmits
    BY <1>7, <1>9 DEF CallerSubmits
  <1>10. ASSUME NEW e \in Devices, TakeBatch(e) PROVE Agree
    <2>1. /\ worker[e] = "waiting" /\ open[e]
          /\ hand' = [hand EXCEPT ![e] = Head(backlog[e])]
          /\ backlog' = [backlog EXCEPT ![e] = Tail(@)]
          /\ worker' = [worker EXCEPT ![e] = "busy"]
          /\ open' = open
      BY <1>10 DEF TakeBatch
    <2>. QED  BY <1>0, <1>1, <2>1
  <1>11. ASSUME NEW e \in Devices, FinishBatch(e) PROVE Agree
    BY <1>0, <1>1, <1>11 DEF FinishBatch
  <1>12. ASSUME NEW e \in Devices, FinalizeDevice(e) PROVE Agree
    BY <1>0, <1>1, <1>12 DEF FinalizeDevice
  <1>13. ASSUME NEW c \in Controllers, Enter(c) \/ Control(c),
                ~StartDevice(c), ~DeviceThrows(c), ~CloseQueue(c), ~JoinWorker(c)
         PROVE  UNCHANGED queueVars
    BY <1>13 DEF Enter, Control, LockForStart, OpenManager, SpawnTick, SpawnThrows,
       LockForStop, CloseManager, Rethrow, JoinTick
  <1>14. TickWakes \/ TickBegins \/ TickEvaluates \/ TickEnds \/ UNCHANGED vars
           => UNCHANGED queueVars
    BY DEF TickWakes, TickBegins, TickEvaluates, TickEnds, vars
  <1>. QED  BY <1>2, <1>3, <1>4, <1>5, <1>6, <1>8, <1>9, <1>10, <1>11, <1>12, <1>13, <1>14
            DEF Next, Ticker, WorkerOf

\* What start() and stop() have done so far to the devices.
LEMMA ControlNext == ManagerInv /\ TypeInv' /\ DeviceInv' /\ [Next]_vars => ControlInv'
  <1>. SUFFICES ASSUME ManagerInv, TypeInv', DeviceInv', [Next]_vars
                PROVE  ControlInv'
    OBVIOUS
  <1>0. TypeInv /\ LockInv /\ ControlInv /\ DeviceInv
    BY DEF ManagerInv
  <1>1. /\ appRunning \in BOOLEAN /\ running \in BOOLEAN /\ todo \in SUBSET Devices
        /\ open \in [Devices -> BOOLEAN]
        /\ worker \in [Devices -> {"none", "waiting", "busy", "exited"}]
    BY <1>0 DEF TypeInv
  <1>2. ASSUME UNCHANGED <<open, worker>>
        PROVE  \A d \in Devices : (Started(d) <=> Started(d)') /\ (Stopped(d) <=> Stopped(d)')
    BY <1>2 DEF Started, Stopped
  <1>3. ASSUME NEW c \in Controllers, Enter(c) PROVE ControlInv'
    <2>1. UNCHANGED <<open, worker>> /\ appRunning' = appRunning /\ running' = running
      BY <1>3 DEF Enter, queueVars
    <2>2. Place = "out" /\ Place' \in {"start", "stop"}
      BY <1>0, <1>3, Steps
    <2>. QED  BY <1>0, <1>2, <2>1, <2>2 DEF ControlInv, Outside
  <1>4. ASSUME NEW c \in Controllers, LockForStart(c) PROVE ControlInv'
    <2>1. /\ UNCHANGED <<open, worker, backlog, hand>>
          /\ appRunning' = appRunning /\ running' = running
      BY <1>4 DEF LockForStart, queueVars
    <2>2. Place = "start" /\ Place' = IF appRunning THEN "out" ELSE "startDevices"
      BY <1>0, <1>4, Steps
    <2>3. CASE appRunning
      BY <1>0, <1>2, <2>1, <2>2, <2>3 DEF ControlInv, Outside
    <2>4. CASE ~appRunning
      <3>1. todo' = Devices
        BY <1>4, <2>4 DEF LockForStart
      <3>2. ~running /\ \A d \in Devices : Stopped(d)
        BY <1>0, <2>2, <2>4 DEF ControlInv, Outside
      <3>3. \A d \in Devices : backlog[d] = << >> /\ hand[d] = NoBatch
        BY <1>0, <3>2 DEF DeviceInv, Stopped
      <3>. QED  BY <1>2, <2>1, <2>2, <2>4, <3>1, <3>2, <3>3 DEF ControlInv, Outside
    <2>. QED  BY <2>3, <2>4
  <1>5. ASSUME NEW c \in Controllers, StartDevice(c) PROVE ControlInv'
    <2>1. Place = "startDevices" /\ Place' = "startDevices"
      BY <1>0, <1>5, Steps
    <2>2. PICK e \in todo : /\ todo' = todo \ {e}
                            /\ open' = [open EXCEPT ![e] = TRUE]
                            /\ worker' = [worker EXCEPT ![e] = "waiting"]
      BY <1>5 DEF StartDevice
    <2>3. /\ backlog' = backlog /\ hand' = hand
          /\ appRunning' = appRunning /\ running' = running
      BY <1>5 DEF StartDevice
    <2>4. /\ ~running /\ ~appRunning
          /\ \A d \in Devices : /\ IF d \in todo THEN Stopped(d) ELSE Started(d)
                                /\ backlog[d] = << >> /\ hand[d] = NoBatch
      BY <1>0, <2>1 DEF ControlInv, Outside
    <2>5. ASSUME NEW d \in Devices
          PROVE  /\ IF d \in todo' THEN Stopped(d)' ELSE Started(d)'
                 /\ backlog'[d] = << >> /\ hand'[d] = NoBatch
      <3>1. CASE d = e
        BY <1>1, <2>2, <2>3, <2>4, <3>1 DEF Started
      <3>2. CASE d # e
        BY <1>1, <2>2, <2>3, <2>4, <3>2 DEF Started, Stopped
      <3>. QED  BY <3>1, <3>2
    <2>. QED  BY <2>1, <2>3, <2>4, <2>5 DEF ControlInv, Outside
  <1>6. ASSUME NEW c \in Controllers, DeviceThrows(c) PROVE ControlInv'
    <2>1. Place = "startDevices" /\ Place' = "abort"
      BY <1>0, <1>6, Steps
    <2>2. todo' = Devices /\ appRunning' = appRunning /\ running' = running
      BY <1>6 DEF DeviceThrows, AbortStart
    <2>3. ~running /\ ~appRunning
      BY <1>0, <2>1 DEF ControlInv, Outside
    <2>. QED  BY <2>1, <2>2, <2>3 DEF ControlInv, Outside
  <1>7. ASSUME NEW c \in Controllers, OpenManager(c) PROVE ControlInv'
    <2>1. Place = "startDevices" /\ Place' = "spawn"
      BY <1>0, <1>7, Steps
    <2>2. /\ todo = {} /\ running' = TRUE /\ appRunning' = appRunning
          /\ UNCHANGED <<open, worker>>
      BY <1>7 DEF OpenManager, queueVars
    <2>3. ~appRunning /\ \A d \in Devices : Started(d)
      BY <1>0, <2>1, <2>2 DEF ControlInv, Outside
    <2>. QED  BY <1>2, <2>1, <2>2, <2>3 DEF ControlInv, Outside
  <1>8. ASSUME NEW c \in Controllers, SpawnTick(c) PROVE ControlInv'
    <2>1. Place = "spawn" /\ Place' = "out"
      BY <1>0, <1>8, Steps
    <2>2. running' = running /\ appRunning' = TRUE /\ UNCHANGED <<open, worker>>
      BY <1>8 DEF SpawnTick, queueVars
    <2>3. running /\ \A d \in Devices : Started(d)
      BY <1>0, <2>1 DEF ControlInv, Outside
    <2>. QED  BY <1>2, <2>1, <2>2, <2>3 DEF ControlInv, Outside
  <1>9. ASSUME NEW c \in Controllers, SpawnThrows(c) PROVE ControlInv'
    <2>1. Place = "spawn" /\ Place' = "abort"
      BY <1>0, <1>9, Steps
    <2>2. todo' = Devices /\ appRunning' = appRunning /\ running' = FALSE
      BY <1>9 DEF SpawnThrows, AbortStart
    <2>3. ~appRunning
      BY <1>0, <2>1 DEF ControlInv, Outside
    <2>. QED  BY <2>1, <2>2, <2>3 DEF ControlInv, Outside
  <1>10. ASSUME NEW c \in Controllers, LockForStop(c) PROVE ControlInv'
    <2>1. Place = "stop" /\ Place' = IF appRunning THEN "closeManager" ELSE "out"
      BY <1>0, <1>10, Steps
    <2>2. appRunning' = FALSE /\ running' = running /\ UNCHANGED <<open, worker>>
      BY <1>1, <1>10 DEF LockForStop, queueVars
    <2>3. running = appRunning
      BY <1>0, <2>1 DEF ControlInv, Outside
    <2>4. CASE appRunning
      BY <1>0, <1>2, <2>1, <2>2, <2>3, <2>4 DEF ControlInv, Outside
    <2>5. CASE ~appRunning
      <3>1. \A d \in Devices : Stopped(d)
        BY <1>0, <2>1, <2>5 DEF ControlInv, Outside
      <3>. QED  BY <1>1, <1>2, <2>1, <2>2, <2>3, <2>5, <3>1 DEF ControlInv, Outside
    <2>. QED  BY <2>4, <2>5
  <1>11. ASSUME NEW c \in Controllers, CloseManager(c) PROVE ControlInv'
    <2>1. Place = "closeManager" /\ Place' = "stopDevices"
      BY <1>0, <1>11, Steps
    <2>2. running' = FALSE /\ todo' = Devices /\ appRunning' = appRunning
      BY <1>11 DEF CloseManager
    <2>3. ~appRunning
      BY <1>0, <2>1 DEF ControlInv, Outside
    <2>. QED  BY <2>1, <2>2, <2>3 DEF ControlInv, Outside
  <1>12. ASSUME NEW c \in Controllers, CloseQueue(c) PROVE ControlInv'
    <2>1. Place \in {"abort", "stopDevices"} /\ Place' = Place
      BY <1>0, <1>12, Steps
    <2>2. PICK e \in todo : open' = [open EXCEPT ![e] = FALSE]
      BY <1>12 DEF CloseQueue
    <2>3. todo' = todo /\ appRunning' = appRunning /\ running' = running /\ worker' = worker
      BY <1>12 DEF CloseQueue, controlVars
    <2>4. ~running /\ ~appRunning /\ \A d \in Devices \ todo : Stopped(d)
      BY <1>0, <2>1 DEF ControlInv, Outside
    <2>5. \A d \in Devices \ todo' : Stopped(d)'
      BY <1>1, <2>2, <2>3, <2>4 DEF Stopped
    <2>. QED  BY <2>1, <2>3, <2>4, <2>5 DEF ControlInv, Outside
  <1>13. ASSUME NEW c \in Controllers, JoinWorker(c) PROVE ControlInv'
    <2>1. Place \in {"abort", "stopDevices"} /\ Place' = Place
      BY <1>0, <1>13, Steps
    <2>2. PICK e \in todo : ~open[e] /\ worker' = [worker EXCEPT ![e] = "none"] /\ todo' = todo \ {e}
      BY <1>13 DEF JoinWorker
    <2>3. appRunning' = appRunning /\ running' = running /\ open' = open
      BY <1>13 DEF JoinWorker
    <2>4. ~running /\ ~appRunning /\ \A d \in Devices \ todo : Stopped(d)
      BY <1>0, <2>1 DEF ControlInv, Outside
    <2>5. \A d \in Devices \ todo' : Stopped(d)'
      BY <1>1, <2>2, <2>3, <2>4 DEF Stopped
    <2>. QED  BY <2>1, <2>3, <2>4, <2>5 DEF ControlInv, Outside
  <1>14. ASSUME NEW c \in Controllers, Rethrow(c) \/ JoinTick(c) PROVE ControlInv'
    <2>1. Place \in {"abort", "stopDevices"} /\ Place' = "out"
      BY <1>0, <1>14, Steps
    <2>2. /\ todo = {} /\ appRunning' = appRunning /\ running' = running
          /\ UNCHANGED <<open, worker>>
      BY <1>14 DEF Rethrow, JoinTick, queueVars
    <2>3. ~running /\ ~appRunning /\ \A d \in Devices : Stopped(d)
      BY <1>0, <2>1, <2>2 DEF ControlInv, Outside
    <2>4. running' = FALSE /\ appRunning' = FALSE /\ \A d \in Devices : Stopped(d)'
      BY <1>1, <1>2, <2>2, <2>3
    <2>. QED  BY <2>1, <2>4 DEF ControlInv, Outside
  <1>15. ASSUME UNCHANGED controlVars, UNCHANGED <<open, worker>>,
                running \/ UNCHANGED <<backlog, hand>>
         PROVE  ControlInv'
    <2>1. Place' = Place /\ appRunning' = appRunning /\ running' = running /\ todo' = todo
      BY <1>0, <1>15, Others DEF controlVars
    <2>2. CASE running
      <3>1. Place # "startDevices"
        BY <1>0, <2>2 DEF ControlInv
      <3>. QED  BY <1>0, <1>2, <1>15, <2>1, <2>2, <3>1 DEF ControlInv
    <2>3. CASE UNCHANGED <<backlog, hand>>
      BY <1>0, <1>2, <1>15, <2>1, <2>3 DEF ControlInv
    <2>. QED  BY <1>15, <2>2, <2>3
  <1>16. CASE TickWakes \/ TickBegins \/ TickEvaluates \/ TickEnds \/ UNCHANGED vars
    BY <1>15, <1>16 DEF TickWakes, TickBegins, TickEvaluates, TickEnds, queueVars, vars
  <1>17. CASE TickSubmits \/ CallerSubmits
    <2>1. UNCHANGED controlVars /\ UNCHANGED <<open, worker, hand>>
      BY <1>17 DEF TickSubmits, CallerSubmits
    <2>2. running \/ UNCHANGED backlog
      BY <1>17 DEF TickSubmits, CallerSubmits, Accepts
    <2>. QED  BY <1>15, <2>1, <2>2
  <1>18. ASSUME NEW e \in Devices, WorkerOf(e) PROVE ControlInv'
    <2>1. UNCHANGED controlVars /\ UNCHANGED open
      BY <1>18 DEF WorkerOf, TakeBatch, FinishBatch, FinalizeDevice
    <2>2. Place' = Place /\ appRunning' = appRunning /\ running' = running /\ todo' = todo
      BY <1>0, <2>1, Others DEF controlVars
    <2>3. /\ worker[e] # "none" /\ worker'[e] # "none"
          /\ worker[e] \in {"waiting", "busy"}
          /\ worker'[e] \in {"waiting", "busy"} \/ ~open[e]
          /\ \A d \in Devices \ {e} : worker'[d] = worker[d]
      BY <1>1, <1>18 DEF WorkerOf, TakeBatch, FinishBatch, FinalizeDevice
    <2>4. \A d \in Devices : (Started(d) <=> Started(d)') /\ (Stopped(d) <=> Stopped(d)')
      BY <2>1, <2>3 DEF Started, Stopped
    <2>5. ASSUME Place = "startDevices", NEW d \in Devices
          PROVE  backlog'[d] = << >> /\ hand'[d] = NoBatch
      <3>1. \A b \in Devices : backlog[b] = << >> /\ hand[b] = NoBatch
        BY <1>0, <2>5 DEF ControlInv
      <3>2. backlog' = backlog /\ (hand' = hand \/ hand' = [hand EXCEPT ![e] = NoBatch])
        BY <1>18, <3>1 DEF WorkerOf, TakeBatch, FinishBatch, FinalizeDevice
      <3>3. hand \in [Devices -> BatchType]
        BY <1>0 DEF TypeInv
      <3>. QED  BY <3>1, <3>2, <3>3
    <2>. QED  BY <1>0, <2>2, <2>4, <2>5 DEF ControlInv
  <1>. QED  BY <1>3, <1>4, <1>5, <1>6, <1>7, <1>8, <1>9, <1>10, <1>11, <1>12, <1>13, <1>14,
               <1>16, <1>17, <1>18 DEF Next, Control, Ticker

LEMMA TickNext == ManagerInv /\ ControlInv' /\ [Next]_vars => TickInv'
  <1>. SUFFICES ASSUME ManagerInv, ControlInv', [Next]_vars
                PROVE  TickInv'
    OBVIOUS
  <1>0. TypeInv /\ LockInv /\ ControlInv /\ TickInv /\ appRunning \in BOOLEAN
    BY DEF ManagerInv, TypeInv
  <1>1. ASSUME NEW c \in Controllers, SpawnTick(c) PROVE TickInv'
    <2>1. appRunning' = TRUE /\ tick' = "waiting"
      BY <1>1 DEF SpawnTick
    <2>. QED  BY <2>1 DEF TickInv
  <1>2. ASSUME NEW c \in Controllers, JoinTick(c) PROVE TickInv'
    <2>1. Place = "stopDevices" /\ tick' = "none" /\ appRunning' = appRunning
      BY <1>0, <1>2, Steps DEF JoinTick
    <2>2. ~appRunning
      BY <1>0, <2>1 DEF ControlInv, Outside
    <2>. QED  BY <2>1, <2>2 DEF TickInv
  <1>3. ASSUME NEW c \in Controllers, OpenManager(c) PROVE TickInv'
    <2>1. Place = "startDevices" /\ tick' = tick /\ appRunning' = appRunning
      BY <1>0, <1>3, Steps DEF OpenManager, tickVars
    <2>2. ~appRunning
      BY <1>0, <2>1 DEF ControlInv, Outside
    <2>3. tick = "none"
      BY <1>0, <2>1, <2>2 DEF TickInv
    <2>. QED  BY <2>1, <2>2, <2>3 DEF TickInv
  <1>4. ASSUME NEW c \in Controllers, LockForStop(c) PROVE TickInv'
    <2>1. Place = "stop" /\ Place' = IF appRunning THEN "closeManager" ELSE "out"
      BY <1>0, <1>4, Steps
    <2>2. /\ tick' = tick /\ tickSession' = tickSession /\ session' = session
          /\ appRunning' = FALSE
      BY <1>0, <1>4 DEF LockForStop, tickVars
    <2>. QED  BY <1>0, <2>1, <2>2 DEF TickInv
  <1>5. ASSUME NEW c \in Controllers, Enter(c) \/ Control(c),
               ~SpawnTick(c), ~JoinTick(c), ~OpenManager(c), ~LockForStop(c)
        PROVE  TickInv'
    <2>1. /\ tick' = tick /\ tickSession' = tickSession /\ session' = session
          /\ appRunning' = appRunning
      BY <1>5 DEF Enter, Control, LockForStart, StartDevice, DeviceThrows, SpawnThrows,
         CloseManager, CloseQueue, JoinWorker, Rethrow, tickVars, controlVars
    <2>2. /\ Place \in {"closeManager", "stopDevices"} => Place' \in {"closeManager", "stopDevices"}
          /\ Place' \in {"closeManager", "stopDevices"} => Place \in {"closeManager", "stopDevices"}
      <3>1. CASE Enter(c) \/ LockForStart(c) \/ StartDevice(c) \/ DeviceThrows(c)
        BY <1>0, <3>1, Steps
      <3>2. CASE SpawnThrows(c) \/ CloseManager(c) \/ CloseQueue(c) \/ JoinWorker(c) \/ Rethrow(c)
        BY <1>0, <3>2, Steps
      <3>. QED  BY <1>5, <3>1, <3>2 DEF Control
    <2>. QED  BY <1>0, <2>1, <2>2 DEF TickInv
  <1>6. ASSUME UNCHANGED controlVars, session' = session PROVE
          Place' = Place /\ appRunning' = appRunning
    BY <1>0, <1>6, Others DEF controlVars
  <1>7. CASE TickWakes
    <2>1. /\ Place' = Place /\ appRunning' = appRunning
          /\ tick = "waiting" /\ tick' = IF appRunning THEN "enter" ELSE "exited"
      BY <1>6, <1>7 DEF TickWakes, TickGoesOn
    <2>. QED  BY <1>0, <2>1 DEF TickInv
  <1>8. CASE TickBegins
    <2>1. /\ Place' = Place /\ appRunning' = appRunning /\ session' = session
          /\ tick = "enter" /\ tick' = "pass" /\ tickSession' = session
      BY <1>6, <1>8 DEF TickBegins
    <2>. QED  BY <1>0, <2>1 DEF TickInv
  <1>9. CASE TickEnds
    <2>1. /\ Place' = Place /\ appRunning' = appRunning
          /\ tick = "pass" /\ tick' = IF appRunning THEN "waiting" ELSE "exited"
      BY <1>6, <1>9 DEF TickEnds, TickGoesOn
    <2>. QED  BY <1>0, <2>1 DEF TickInv
  <1>10. CASE TickEvaluates \/ TickSubmits \/ CallerSubmits \/ (\E d \in Devices : WorkerOf(d))
              \/ UNCHANGED vars
    <2>1. UNCHANGED controlVars /\ tick' = tick /\ tickSession' = tickSession /\ session' = session
      BY <1>10 DEF TickEvaluates, TickSubmits, CallerSubmits, WorkerOf, TakeBatch, FinishBatch,
         FinalizeDevice, tickVars, vars
    <2>2. Place' = Place /\ appRunning' = appRunning
      BY <1>6, <2>1
    <2>. QED  BY <1>0, <2>1, <2>2 DEF TickInv
  <1>. QED  BY <1>1, <1>2, <1>3, <1>4, <1>5, <1>7, <1>8, <1>9, <1>10 DEF Next, Ticker

\* Nothing is waiting when a session begins, and a tick submits only while the
\* session it belongs to is open.
LEMMA StaleNext == ManagerInv /\ [Next]_vars => NoStaleTick'
  <1>. DEFINE Fresh(batch) == batch.by = "tick" => batch.session = session
  <1>. SUFFICES ASSUME ManagerInv, [Next]_vars
                PROVE  NoStaleTick'
    OBVIOUS
  <1>0. /\ TypeInv /\ LockInv /\ ControlInv /\ TickInv
        /\ \A d \in Devices : Fresh(hand[d]) /\ \A i \in 1..Len(backlog[d]) : Fresh(backlog[d][i])
    BY DEF ManagerInv, NoStaleTick, TypeInv
  <1>1. /\ backlog \in [Devices -> Seq(BatchType)] /\ hand \in [Devices -> BatchType]
    BY <1>0 DEF TypeInv
  <1>2. NoBatch.by = "nobody"
    BY DEF NoBatch, Batch
  <1>3. ASSUME session' = session,
               \A d \in Devices : /\ hand'[d] \in {hand[d], NoBatch}
                                  /\ backlog'[d] \in {backlog[d], << >>}
        PROVE  NoStaleTick'
    <2>. SUFFICES ASSUME NEW d \in Devices
                  PROVE  Fresh(hand'[d]) /\ \A i \in DOMAIN backlog'[d] : Fresh(backlog'[d][i])
      BY <1>3 DEF NoStaleTick
    <2>1. backlog[d] \in Seq(BatchType)
      BY <1>1
    <2>2. Fresh(hand'[d])
      BY <1>0, <1>2, <1>3
    <2>3. CASE backlog'[d] = backlog[d]
      BY <1>0, <2>1, <2>2, <2>3
    <2>4. CASE backlog'[d] = << >>
      BY <2>2, <2>4
    <2>. QED  BY <1>3, <2>3, <2>4
  <1>4. ASSUME NEW c \in Controllers, OpenManager(c) PROVE NoStaleTick'
    <2>1. Place = "startDevices" /\ backlog' = backlog /\ hand' = hand
      BY <1>0, <1>4, Steps DEF OpenManager, queueVars
    <2>2. \A d \in Devices : backlog[d] = << >> /\ hand[d] = NoBatch
      BY <1>0, <2>1 DEF ControlInv
    <2>. QED  BY <1>2, <2>1, <2>2 DEF NoStaleTick
  <1>5. ASSUME NEW c \in Controllers, CloseQueue(c) PROVE NoStaleTick'
    <2>1. PICK e \in todo : backlog' = [backlog EXCEPT ![e] = << >>]
      BY <1>5 DEF CloseQueue
    <2>2. hand' = hand /\ session' = session
      BY <1>5 DEF CloseQueue
    <2>. QED  BY <1>1, <1>3, <2>1, <2>2
  <1>6. ASSUME NEW c \in Controllers, Enter(c) \/ Control(c), ~OpenManager(c), ~CloseQueue(c)
        PROVE  NoStaleTick'
    <2>1. session' = session /\ backlog' = backlog /\ hand' = hand
      BY <1>6 DEF Enter, Control, LockForStart, StartDevice, DeviceThrows, SpawnTick, SpawnThrows,
         LockForStop, CloseManager, JoinWorker, Rethrow, JoinTick, queueVars
    <2>. QED  BY <1>3, <2>1
  <1>7. CASE TickWakes \/ TickBegins \/ TickEvaluates \/ TickEnds \/ UNCHANGED vars
    <2>1. session' = session /\ backlog' = backlog /\ hand' = hand
      BY <1>7 DEF TickWakes, TickBegins, TickEvaluates, TickEnds, queueVars, vars
    <2>. QED  BY <1>3, <2>1
  <1>8. ASSUME NEW e \in Devices, NEW batch \in BatchType, Push(e, batch), Fresh(batch),
               hand' = hand, session' = session
        PROVE  NoStaleTick'
    <2>. SUFFICES ASSUME NEW d \in Devices
                  PROVE  Fresh(hand'[d]) /\ \A i \in DOMAIN backlog'[d] : Fresh(backlog'[d][i])
      BY <1>8 DEF NoStaleTick
    <2>1. backlog[d] \in Seq(BatchType) /\ Fresh(hand[d])
          /\ \A i \in 1..Len(backlog[d]) : Fresh(backlog[d][i])
      BY <1>0, <1>1
    <2>. HIDE DEF Fresh
    <2>2. CASE d = e
      <3>1. backlog'[d] = Append(backlog[d], batch)
        BY <1>1, <1>8, <2>2 DEF Push
      <3>. QED  BY <1>8, <2>1, <3>1
    <2>3. CASE d # e
      <3>1. backlog'[d] = backlog[d]
        BY <1>1, <1>8, <2>3 DEF Push
      <3>. QED  BY <1>8, <2>1, <3>1
    <2>. QED  BY <2>2, <2>3
  <1>9. CASE TickSubmits
    <2>1. /\ hand' = hand /\ session' = session /\ tick = "pass"
      BY <1>9 DEF TickSubmits
    <2>2. PICK e \in tickOf : \/ Accepts(e) /\ Push(e, Batch("tick", tickSession))
                              \/ ~Accepts(e) /\ UNCHANGED backlog
      BY <1>9 DEF TickSubmits
    <2>3. e \in Devices /\ Batch("tick", tickSession) \in BatchType
      BY <1>0 DEF TypeInv, Batch, BatchType
    <2>4. Fresh(Batch("tick", tickSession))
      BY <1>0, <2>1 DEF TickInv, Batch
    <2>5. CASE UNCHANGED backlog
      BY <1>3, <2>1, <2>5
    <2>. QED  BY <1>8, <2>1, <2>2, <2>3, <2>4, <2>5
  <1>10. CASE CallerSubmits
    <2>1. PICK e \in Devices : Push(e, Batch("caller", session))
      BY <1>10 DEF CallerSubmits
    <2>2. Batch("caller", session) \in BatchType /\ Fresh(Batch("caller", session))
      BY <1>0 DEF TypeInv, Batch, BatchType
    <2>3. hand' = hand /\ session' = session
      BY <1>10 DEF CallerSubmits
    <2>. QED  BY <1>8, <2>1, <2>2, <2>3
  <1>11. ASSUME NEW e \in Devices, TakeBatch(e) PROVE NoStaleTick'
    <2>. SUFFICES ASSUME NEW d \in Devices
                  PROVE  Fresh(hand'[d]) /\ \A i \in DOMAIN backlog'[d] : Fresh(backlog'[d][i])
      BY <1>11 DEF NoStaleTick, TakeBatch
    <2>1. backlog[d] \in Seq(BatchType) /\ Fresh(hand[d])
          /\ \A i \in 1..Len(backlog[d]) : Fresh(backlog[d][i])
      BY <1>0, <1>1
    <2>2. /\ hand' = [hand EXCEPT ![e] = Head(backlog[e])] /\ backlog[e] # << >>
          /\ backlog' = [backlog EXCEPT ![e] = Tail(backlog[e])]
      BY <1>11 DEF TakeBatch
    <2>. HIDE DEF Fresh
    <2>3. CASE d = e
      BY <1>1, <2>1, <2>2, <2>3
    <2>4. CASE d # e
      <3>1. hand'[d] = hand[d] /\ backlog'[d] = backlog[d]
        BY <1>1, <2>2, <2>4
      <3>. QED  BY <2>1, <3>1
    <2>. QED  BY <2>3, <2>4
  <1>12. ASSUME NEW e \in Devices, FinishBatch(e) \/ FinalizeDevice(e) PROVE NoStaleTick'
    <2>1. /\ session' = session /\ backlog' = backlog
          /\ hand' = hand \/ hand' = [hand EXCEPT ![e] = NoBatch]
      BY <1>12 DEF FinishBatch, FinalizeDevice
    <2>. QED  BY <1>1, <1>3, <2>1
  <1>. QED  BY <1>4, <1>5, <1>6, <1>7, <1>9, <1>10, <1>11, <1>12 DEF Next, Ticker, WorkerOf
------------------------------------------------------------------------------
LEMMA ManagerNext == ManagerInv /\ [Next]_vars => ManagerInv'
  BY TypeNext, LockNext, HookNext, DeviceNext, ControlNext, TickNext, StaleNext DEF ManagerInv

\* Between two calls a stopped application has no thread, no batch and no open
\* queue left, also after a start() that threw halfway, whichever device or
\* thread failed (DeviceManagerApplication::start and stop, DeviceManager::start).
THEOREM StopLeavesNothing == Spec => []StoppedMeansStopped
  <1>1. ManagerInv => StoppedMeansStopped
    <2>. SUFFICES ASSUME ManagerInv, lifecycleLock = Nobody, ~appRunning
                  PROVE  /\ ~running /\ tick = "none"
                         /\ \A d \in Devices : /\ worker[d] = "none" /\ ~open[d]
                                               /\ backlog[d] = << >> /\ hand[d] = NoBatch
      BY DEF StoppedMeansStopped
    <2>1. Place = "out"
      BY DEF Place
    <2>2. ~running /\ \A d \in Devices : Stopped(d)
      BY <2>1 DEF ManagerInv, ControlInv, Outside
    <2>3. tick = "none"
      BY <2>1 DEF ManagerInv, TickInv
    <2>. QED  BY <2>2, <2>3 DEF ManagerInv, DeviceInv, Stopped
  <1>. QED  BY <1>1, ManagerInit, ManagerNext, PTL DEF Spec

\* What a tick found out in one session is never executed in a later one: the
\* tick thread is joined before the next start(), and a stop empties the queues.
THEOREM TicksAreFresh == Spec => []NoStaleTick
  <1>1. ManagerInv => NoStaleTick
    BY DEF ManagerInv
  <1>. QED  BY <1>1, ManagerInit, ManagerNext, PTL DEF Spec

\* The hook slot and hook_registered agree between two calls, whatever start()
\* threw, so that no start() registers a second hook or goes without one.
THEOREM HooksAreRegistered == Spec => []HookKeptOnce
  <1>1. ManagerInv => HookKeptOnce
    BY DEF ManagerInv, HookKeptOnce
  <1>. QED  BY <1>1, ManagerInit, ManagerNext, PTL DEF Spec
------------------------------------------------------------------------------
(***************************************************************************)
(* One device, seen as a serial executor.                                  *)
(***************************************************************************)
EntryType == [batch : BatchType, urgent : BOOLEAN]
WaitingOf(seq) == [i \in DOMAIN seq |-> Entry(seq[i])]

LEMMA WaitingShape ==
  ASSUME NEW seq \in Seq(BatchType)
  PROVE  /\ WaitingOf(seq) \in Seq(EntryType) /\ Len(WaitingOf(seq)) = Len(seq)
         /\ \A i \in 1..Len(seq) : WaitingOf(seq)[i] = Entry(seq[i])
  <1>. DEFINE entry(i) == Entry(seq[i])
  <1>1. Len(seq) \in Nat /\ DOMAIN seq = 1..Len(seq)
    OBVIOUS
  <1>2. \A i \in 1..Len(seq) : entry(i) \in EntryType
    BY DEF Entry, EntryType
  <1>. HIDE DEF entry
  <1>3. /\ [i \in 1..Len(seq) |-> entry(i)] \in Seq(EntryType)
        /\ Len([i \in 1..Len(seq) |-> entry(i)]) = Len(seq)
    BY <1>1, <1>2
  <1>. QED  BY <1>1, <1>3 DEF entry, WaitingOf

LEMMA SameElements ==
  ASSUME NEW S, NEW s \in Seq(S), NEW t \in Seq(S), Len(s) = Len(t),
         \A i \in 1..Len(s) : s[i] = t[i]
  PROVE  s = t
  OBVIOUS

LEMMA TailElements ==
  ASSUME NEW S, NEW s \in Seq(S), s # << >>
  PROVE  /\ Len(s) \in Nat \ {0}
         /\ Tail(s) \in Seq(S) /\ Len(Tail(s)) = Len(s) - 1
         /\ \A i \in 1..(Len(s) - 1) : Tail(s)[i] = s[i + 1]
  OBVIOUS

LEMMA WaitingTail ==
  ASSUME NEW seq \in Seq(BatchType), seq # << >>
  PROVE  WaitingOf(seq) # << >> /\ WaitingOf(Tail(seq)) = Tail(WaitingOf(seq))
  <1>. DEFINE s == WaitingOf(seq)
              t == WaitingOf(Tail(seq))
  <1>1. /\ Len(seq) \in Nat \ {0} /\ Tail(seq) \in Seq(BatchType) /\ Len(Tail(seq)) = Len(seq) - 1
        /\ \A i \in 1..(Len(seq) - 1) : Tail(seq)[i] = seq[i + 1]
    BY TailElements
  <1>2. /\ s \in Seq(EntryType) /\ Len(s) = Len(seq)
        /\ \A i \in 1..Len(seq) : s[i] = Entry(seq[i])
    BY WaitingShape
  <1>3. /\ t \in Seq(EntryType) /\ Len(t) = Len(seq) - 1
        /\ \A i \in 1..(Len(seq) - 1) : t[i] = Entry(Tail(seq)[i])
    BY <1>1, WaitingShape
  <1>. HIDE DEF s, t
  <1>4. s # << >>
    BY <1>1, <1>2
  <1>5. /\ Tail(s) \in Seq(EntryType) /\ Len(Tail(s)) = Len(seq) - 1
        /\ \A i \in 1..(Len(seq) - 1) : Tail(s)[i] = s[i + 1]
    BY <1>2, <1>4, TailElements
  <1>6. \A i \in 1..Len(t) : t[i] = Tail(s)[i]
    BY <1>1, <1>2, <1>3, <1>5
  <1>7. t = Tail(s)
    BY <1>3, <1>5, <1>6, SameElements
  <1>. QED  BY <1>4, <1>7 DEF s, t

\* A submission goes to the end: nothing here is urgent.
LEMMA WaitingAppended ==
  ASSUME NEW seq \in Seq(BatchType), NEW batch \in BatchType,
         NEW s, NEW t, s = WaitingOf(seq), t = WaitingOf(Append(seq, batch))
  PROVE  /\ Len(t) = Len(s) + 1
         /\ \E place \in DOMAIN t :
              /\ Executor!RemoveAt(t, place) = s
              /\ \A i \in DOMAIN t :
                   /\ i > place => t[place].urgent /\ ~t[i].urgent
                   /\ i < place => t[i].urgent \/ ~t[place].urgent
  <1>. DEFINE n == Len(seq)
              front == SubSeq(t, 1, n)
              back == SubSeq(t, n + 2, Len(t))
  <1>1. /\ n \in Nat /\ Append(seq, batch) \in Seq(BatchType) /\ Len(Append(seq, batch)) = n + 1
        /\ \A i \in 1..n : Append(seq, batch)[i] = seq[i]
    OBVIOUS
  <1>2. /\ s \in Seq(EntryType) /\ Len(s) = n
        /\ \A i \in 1..n : s[i] = Entry(seq[i])
    BY WaitingShape
  <1>3. /\ t \in Seq(EntryType) /\ Len(t) = n + 1 /\ DOMAIN t = 1..(n + 1)
        /\ \A i \in 1..(n + 1) : t[i] = Entry(Append(seq, batch)[i])
    <2>1. t \in Seq(EntryType) /\ Len(t) = n + 1
          /\ \A i \in 1..(n + 1) : t[i] = Entry(Append(seq, batch)[i])
      BY <1>1, WaitingShape
    <2>. QED  BY <2>1
  <1>. HIDE DEF n
  <1>4. front \in Seq(EntryType) /\ Len(front) = n /\ \A i \in 1..n : front[i] = t[i]
    BY <1>1, <1>3
  <1>5. back = << >>
    BY <1>1, <1>3
  <1>6. \A i \in 1..Len(front) : front[i] = s[i]
    BY <1>1, <1>2, <1>3, <1>4
  <1>7. front = s
    BY <1>2, <1>4, <1>6, SameElements
  <1>8. front \o back = s
    <2>1. s \o << >> = s
      BY <1>2
    <2>. QED  BY <1>5, <1>7, <2>1
  <1>9. Executor!RemoveAt(t, n + 1) = s
    <2>1. Executor!RemoveAt(t, n + 1) = SubSeq(t, 1, (n + 1) - 1) \o SubSeq(t, (n + 1) + 1, Len(t))
      BY DEF Executor!RemoveAt
    <2>2. (n + 1) - 1 = n /\ (n + 1) + 1 = n + 2
      BY <1>1
    <2>. QED  BY <1>8, <2>1, <2>2
  <1>10. \A i \in 1..(n + 1) : t[i].urgent = FALSE
    BY <1>3 DEF Entry
  <1>11. /\ n + 1 \in DOMAIN t
         /\ \A i \in DOMAIN t : /\ i > n + 1 => t[n + 1].urgent /\ ~t[i].urgent
                                /\ i < n + 1 => t[i].urgent \/ ~t[n + 1].urgent
    BY <1>1, <1>3, <1>10
  <1>. QED  BY <1>1, <1>2, <1>3, <1>9, <1>11

LEMMA WaitingEmpty == WaitingOf(<< >>) = << >>
  BY DEF WaitingOf

PhaseOf(where) ==
  CASE where = "none" -> "closed"
    [] where = "waiting" -> "waiting"
    [] where = "busy" -> "working"
    [] where = "exited" -> "done"

\* A step the device has no part in.
LEMMA DeviceIdle ==
  ASSUME open'[Device] = open[Device], backlog'[Device] = backlog[Device],
         worker'[Device] = worker[Device]
  PROVE  UNCHANGED Executor!vars
  BY DEF Executor!vars, Serving, Waiting, Phase, Entry

LEMMA DeviceStep == ManagerInv /\ ManagerInv' /\ [Next]_vars => [Executor!Next]_(Executor!vars)
  <1>. SUFFICES ASSUME ManagerInv, ManagerInv', [Next]_vars
                PROVE  [Executor!Next]_(Executor!vars)
    OBVIOUS
  <1>0. TypeInv /\ TypeInv' /\ LockInv /\ ControlInv /\ DeviceInv /\ Device \in Devices
    BY DeviceAssumption DEF ManagerInv
  <1>1. /\ open \in [Devices -> BOOLEAN]
        /\ worker \in [Devices -> {"none", "waiting", "busy", "exited"}]
        /\ backlog \in [Devices -> Seq(BatchType)]
        /\ backlog[Device] \in Seq(BatchType)
    BY <1>0 DEF TypeInv
  <1>2. /\ PhaseOf("none") = "closed" /\ PhaseOf("waiting") = "waiting"
        /\ PhaseOf("busy") = "working" /\ PhaseOf("exited") = "done"
        /\ Phase = PhaseOf(worker[Device]) /\ Phase' = PhaseOf(worker'[Device])
    BY DEF Phase, PhaseOf
  <1>3. Waiting = WaitingOf(backlog[Device]) /\ Waiting' = WaitingOf(backlog'[Device])
    BY DEF Waiting, WaitingOf
  <1>4. /\ open[Device] \in BOOLEAN /\ open'[Device] \in BOOLEAN
        /\ worker[Device] \in {"none", "waiting", "busy", "exited"}
        /\ backlog[Device] \in Seq(BatchType)
    BY <1>0 DEF TypeInv
  <1>5. ASSUME UNCHANGED queueVars PROVE UNCHANGED Executor!vars
    BY <1>5, DeviceIdle DEF queueVars
  <1>6. ASSUME NEW c \in Controllers, StartDevice(c)
        PROVE  [Executor!Next]_(Executor!vars)
    <2>1. PICK e \in todo : /\ open' = [open EXCEPT ![e] = TRUE]
                            /\ worker' = [worker EXCEPT ![e] = "waiting"]
      BY <1>6 DEF StartDevice
    <2>2. backlog' = backlog
      BY <1>6 DEF StartDevice
    <2>3. CASE e = Device
      <3>1. Place = "startDevices"
        BY <1>0, <1>6, Steps
      <3>2. Stopped(Device)
        BY <1>0, <2>3, <3>1 DEF ControlInv
      <3>3. /\ ~open[Device] /\ worker[Device] = "none"
            /\ open'[Device] = TRUE /\ worker'[Device] = "waiting"
        BY <1>0, <1>1, <2>1, <2>3, <3>2 DEF Stopped
      <3>4. /\ ~Serving /\ Serving' = TRUE /\ Phase = "closed" /\ Phase' = "waiting"
            /\ Waiting' = Waiting
        BY <1>2, <1>3, <2>2, <3>3 DEF Serving
      <3>. QED  BY <3>4 DEF Executor!Next, Executor!Open
    <2>4. CASE e # Device
      <3>1. open'[Device] = open[Device] /\ worker'[Device] = worker[Device]
        BY <1>0, <1>1, <2>1, <2>4
      <3>. QED  BY <2>2, <3>1, DeviceIdle
    <2>. QED  BY <2>3, <2>4
  <1>7. ASSUME NEW c \in Controllers, DeviceThrows(c)
        PROVE  [Executor!Next]_(Executor!vars)
    <2>1. PICK e \in todo, place \in Faults : open' = [open EXCEPT ![e] = (place = "thread")]
      BY <1>7 DEF DeviceThrows
    <2>2. backlog' = backlog /\ worker' = worker
      BY <1>7 DEF DeviceThrows
    <2>3. CASE e = Device
      <3>1. Place = "startDevices"
        BY <1>0, <1>7, Steps
      <3>2. worker[Device] = "none"
        BY <1>0, <2>3, <3>1 DEF ControlInv, Stopped
      <3>3. Serving = FALSE /\ Serving' = FALSE /\ Phase' = Phase /\ Waiting' = Waiting
        BY <1>2, <1>3, <2>2, <3>2 DEF Serving
      <3>. QED  BY <3>3 DEF Executor!vars
    <2>4. CASE e # Device
      <3>1. open'[Device] = open[Device]
        BY <1>0, <1>1, <2>1, <2>4
      <3>. QED  BY <2>2, <3>1, DeviceIdle
    <2>. QED  BY <2>3, <2>4
  <1>8. ASSUME NEW c \in Controllers, CloseQueue(c)
        PROVE  [Executor!Next]_(Executor!vars)
    <2>1. PICK e \in todo : /\ open[e] /\ open' = [open EXCEPT ![e] = FALSE]
                            /\ backlog' = [backlog EXCEPT ![e] = << >>]
      BY <1>8 DEF CloseQueue
    <2>2. worker' = worker
      BY <1>8 DEF CloseQueue
    <2>3. CASE e = Device
      <3>1. open[Device] /\ open'[Device] = FALSE /\ backlog'[Device] = << >>
        BY <1>0, <1>1, <2>1, <2>3
      <3>2. Serving' = FALSE /\ Waiting' = << >> /\ Phase' = Phase
        BY <1>2, <1>3, <2>2, <3>1, WaitingEmpty DEF Serving
      <3>3. CASE worker[Device] = "none"
        <4>1. backlog[Device] = << >>
          BY <1>0, <3>3 DEF DeviceInv
        <4>2. Serving = FALSE /\ Waiting = << >>
          BY <1>3, <3>3, <4>1, WaitingEmpty DEF Serving
        <4>. QED  BY <3>2, <4>2 DEF Executor!vars
      <3>4. CASE worker[Device] # "none"
        <4>1. Serving
          BY <3>1, <3>4 DEF Serving
        <4>. QED  BY <3>2, <4>1 DEF Executor!Next, Executor!Close
      <3>. QED  BY <3>3, <3>4
    <2>4. CASE e # Device
      <3>1. open'[Device] = open[Device] /\ backlog'[Device] = backlog[Device]
        BY <1>0, <1>1, <2>1, <2>4
      <3>. QED  BY <2>2, <3>1, DeviceIdle
    <2>. QED  BY <2>3, <2>4
  <1>9. ASSUME NEW c \in Controllers, JoinWorker(c)
        PROVE  [Executor!Next]_(Executor!vars)
    <2>1. PICK e \in todo : /\ ~open[e] /\ worker[e] \in {"none", "exited"}
                            /\ worker' = [worker EXCEPT ![e] = "none"]
      BY <1>9 DEF JoinWorker
    <2>2. open' = open /\ backlog' = backlog
      BY <1>9 DEF JoinWorker
    <2>3. CASE e = Device /\ worker[Device] = "exited"
      <3>1. worker'[Device] = "none" /\ ~open[Device]
        BY <1>0, <1>1, <2>1, <2>3
      <3>2. /\ Serving = FALSE /\ Serving' = FALSE /\ Waiting' = Waiting
            /\ Phase = "done" /\ Phase' = "closed"
        BY <1>2, <1>3, <2>2, <2>3, <3>1 DEF Serving
      <3>. QED  BY <3>2 DEF Executor!Next, Executor!Gone
    <2>4. CASE e # Device \/ worker[Device] # "exited"
      <3>1. worker'[Device] = worker[Device]
        BY <1>0, <1>1, <2>1, <2>4
      <3>. QED  BY <2>2, <3>1, DeviceIdle
    <2>. QED  BY <2>3, <2>4
  <1>10. ASSUME NEW e \in Devices, NEW batch \in BatchType, Accepts(e), Push(e, batch),
                UNCHANGED <<open, worker>>
         PROVE  [Executor!Next]_(Executor!vars)
    <2>1. CASE e = Device
      <3>1. Started(Device)
        BY <1>0, <1>10 DEF Accepts, ControlInv
      <3>2. backlog'[Device] = Append(backlog[Device], batch)
        BY <1>0, <1>1, <1>10, <2>1 DEF Push
      <3>3. Serving /\ Serving' = Serving /\ Phase' = Phase
        BY <1>2, <1>10, <3>1 DEF Serving, Started
      <3>4. /\ Len(Waiting') = Len(Waiting) + 1
            /\ \E place \in DOMAIN Waiting' :
                 /\ Executor!RemoveAt(Waiting', place) = Waiting
                 /\ \A i \in DOMAIN Waiting' :
                      /\ i > place => Waiting'[place].urgent /\ ~Waiting'[i].urgent
                      /\ i < place => Waiting'[i].urgent \/ ~Waiting'[place].urgent
        BY <1>3, <1>4, <3>2, WaitingAppended
      <3>. QED  BY <3>3, <3>4 DEF Executor!Next, Executor!Submit
    <2>2. CASE e # Device
      <3>1. backlog'[Device] = backlog[Device]
        BY <1>0, <1>1, <1>10, <2>2 DEF Push
      <3>. QED  BY <1>10, <3>1, DeviceIdle
    <2>. QED  BY <2>1, <2>2
  <1>11. CASE TickSubmits
    <2>1. UNCHANGED <<open, worker>>
      BY <1>11 DEF TickSubmits
    <2>2. PICK e \in tickOf : \/ Accepts(e) /\ Push(e, Batch("tick", tickSession))
                              \/ ~Accepts(e) /\ UNCHANGED backlog
      BY <1>11 DEF TickSubmits
    <2>3. e \in Devices /\ Batch("tick", tickSession) \in BatchType
      BY <1>0 DEF TypeInv, Batch, BatchType
    <2>4. CASE UNCHANGED backlog
      BY <2>1, <2>4, DeviceIdle
    <2>. QED  BY <1>10, <2>1, <2>2, <2>3, <2>4
  <1>12. CASE CallerSubmits
    <2>1. Batch("caller", session) \in BatchType
      BY <1>0 DEF TypeInv, Batch, BatchType
    <2>. QED  BY <1>10, <1>12, <2>1 DEF CallerSubmits
  <1>13. ASSUME NEW e \in Devices, e # Device, WorkerOf(e)
         PROVE  UNCHANGED Executor!vars
    <2>1. /\ open'[Device] = open[Device] /\ worker'[Device] = worker[Device]
          /\ backlog'[Device] = backlog[Device]
      BY <1>0, <1>1, <1>13 DEF WorkerOf, TakeBatch, FinishBatch, FinalizeDevice
    <2>. QED  BY <2>1, DeviceIdle
  <1>14. CASE TakeBatch(Device)
    <2>1. /\ worker[Device] = "waiting" /\ open[Device] /\ backlog[Device] # << >>
          /\ worker'[Device] = "busy" /\ backlog'[Device] = Tail(backlog[Device])
          /\ open' = open
      BY <1>0, <1>1, <1>14 DEF TakeBatch
    <2>2. Waiting # << >> /\ Waiting' = Tail(Waiting)
      BY <1>3, <1>4, <2>1, WaitingTail
    <2>3. Serving /\ Serving' = Serving /\ Phase = "waiting" /\ Phase' = "working"
      BY <1>2, <2>1 DEF Serving
    <2>. QED  BY <2>2, <2>3 DEF Executor!Next, Executor!Take
  <1>15. CASE FinishBatch(Device)
    <2>1. /\ worker[Device] = "busy" /\ worker'[Device] = "waiting"
          /\ open' = open /\ backlog' = backlog
      BY <1>0, <1>1, <1>15 DEF FinishBatch
    <2>2. Serving' = Serving /\ Phase = "working" /\ Phase' = "waiting" /\ Waiting' = Waiting
      BY <1>2, <1>3, <2>1 DEF Serving
    <2>. QED  BY <2>2 DEF Executor!Next, Executor!Rest
  <1>16. CASE FinalizeDevice(Device)
    <2>1. /\ worker[Device] = "waiting" /\ worker'[Device] = "exited" /\ ~open[Device]
          /\ open' = open /\ backlog' = backlog
      BY <1>0, <1>1, <1>16 DEF FinalizeDevice
    <2>2. /\ ~Serving /\ Serving' = Serving /\ Phase = "waiting" /\ Phase' = "done"
          /\ Waiting' = Waiting
      BY <1>2, <1>3, <2>1 DEF Serving
    <2>. QED  BY <2>2 DEF Executor!Next, Executor!WindUp
  <1>17. ASSUME NEW c \in Controllers, Enter(c) \/ Control(c),
                ~StartDevice(c), ~DeviceThrows(c), ~CloseQueue(c), ~JoinWorker(c)
         PROVE  UNCHANGED queueVars
    BY <1>17 DEF Enter, Control, LockForStart, OpenManager, SpawnTick, SpawnThrows,
       LockForStop, CloseManager, Rethrow, JoinTick
  <1>18. TickWakes \/ TickBegins \/ TickEvaluates \/ TickEnds \/ UNCHANGED vars
           => UNCHANGED queueVars
    BY DEF TickWakes, TickBegins, TickEvaluates, TickEnds, vars
  <1>. QED  BY <1>5, <1>6, <1>7, <1>8, <1>9, <1>11, <1>12, <1>13, <1>14, <1>15, <1>16, <1>17,
               <1>18 DEF Next, Ticker, WorkerOf

\* Every device of the manager is served one batch at a time and in order, its
\* queue is opened only when its last worker is gone, and closing it drops what
\* waits, through failed starts, stops and restarts (Device::start, DeviceQueue::stop).
THEOREM DevicesAreExecutors == Spec => DeviceIsExecutor
  <1>1. Init => Executor!Init
    <2>. SUFFICES ASSUME Init
                  PROVE  Executor!Init
      OBVIOUS
    <2>1. /\ open[Device] = FALSE /\ backlog[Device] = << >> /\ worker[Device] = "none"
      BY DeviceAssumption DEF Init
    <2>2. Serving = FALSE /\ Phase = "closed"
      BY <2>1 DEF Serving, Phase
    <2>3. Waiting = WaitingOf(<< >>)
      BY <2>1 DEF Waiting, WaitingOf
    <2>. QED  BY <2>2, <2>3, WaitingEmpty DEF Executor!Init
  <1>. QED  BY <1>1, ManagerInit, ManagerNext, DeviceStep, PTL
            DEF Spec, DeviceIsExecutor, Executor!Spec
==============================================================================
