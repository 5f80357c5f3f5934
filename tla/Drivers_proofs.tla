---------------------------- MODULE Drivers_proofs ----------------------------
(***************************************************************************)
(* Proofs about Drivers.                                                   *)
(***************************************************************************)
EXTENDS Drivers, TLAPS

\* How far an operation may be, and what the state is there.
PlaceInv ==
  /\ op \in Operations \cup {"none"} /\ path \in Seq(Operations)
  /\ op \in {"none", "materialize"} => at = "enter"
  /\ op = "configure" =>
       at \in {"enter", "open", "settle", "opened", "revert", "tell",
              "otp", "window", "reset after failure"}
  /\ op = "activate" => at \in {"enter", "launch", "start"}
  /\ op = "deactivate" => at \in {"enter", "stop", "join"}
  /\ op \in {"cleanup", "dematerialize"} => at \in {"enter", "stop", "join", "close", "closing"}
  /\ at = "enter" => state \in {"finalized", "unconfigured", "inactive", "active"}
  /\ at = "enter" /\ op # "none" => state \in Sources(op)
  /\ at = "launch" => state = "inactive"
  /\ at = "start" => state = "active"
  /\ at = "tell" => state = "unconfigured"
  /\ at \in {"otp", "window", "reset after failure"} => state = "inactive"
  /\ op = "deactivate" /\ at # "enter" => state = "inactive"

\* Where no thread may be left.
Resting ==
  IF at = "enter" THEN state # "active"
                  ELSE op \notin {"deactivate", "dematerialize"} \/ at \in {"close", "closing"}

ThreadInv ==
  /\ running \in BOOLEAN
  /\ Resting => thread = "none" /\ running = FALSE
  /\ at = "join" => running = FALSE

\* Where no device may be open.
Vacant ==
  IF at = "enter" THEN state = "finalized" \/ (state = "unconfigured" /\ kind # "oradar")
                  ELSE op = "configure" /\ \/ kind # "oradar" /\ at \in {"revert", "tell"}
                                           \/ kind \notin {"oradar", "camera"} /\ at = "open"

LinkInv == Vacant => link = "closed"

QuietInv == PlaceInv /\ ThreadInv /\ LinkInv

------------------------------------------------------------------------------
LEMMA SourcesOf ==
  /\ \A s : s \in Sources("materialize") <=> s = "finalized"
  /\ \A s : s \in Sources("configure") <=> s = "unconfigured"
  /\ \A s : s \in Sources("activate") <=> s = "inactive"
  /\ \A s : s \in Sources("deactivate") <=> s = "active"
  /\ \A s : s \in Sources("cleanup") <=> s = "inactive"
  /\ \A s : s \in Sources("dematerialize") <=> s \in {"unconfigured", "inactive", "active"}
BY DEF Sources

LEMMA StartupOf ==
  /\ DOMAIN Startup = {"finalized", "unconfigured", "inactive"}
  /\ Startup["finalized"] = "materialize"
  /\ Startup["unconfigured"] = "configure"
  /\ Startup["inactive"] = "activate"
BY DEF Startup

LEMMA QuietInit == Init => QuietInv
<1> SUFFICES ASSUME Init PROVE QuietInv
  OBVIOUS
<1>1. /\ state = "finalized" /\ op = "none" /\ at = "enter" /\ path = << >>
      /\ thread = "none" /\ running = FALSE /\ link = "closed"
  BY DEF Init, DriverInit
<1>2. << >> \in Seq(Operations)
  BY SMT
<1>3. PlaceInv
  BY <1>1, <1>2, SMT DEF PlaceInv
<1>4. ThreadInv /\ LinkInv
  BY <1>1 DEF ThreadInv, LinkInv
<1> QED BY <1>3, <1>4 DEF QuietInv

\* A step that leaves the worker where it is disturbs nothing it rests on.
LEMMA Around ==
  ASSUME QuietInv,
         op' = op, at' = at, path' = path, state' = state, kind' = kind, running' = running,
         thread' = thread \/ thread # "none",
         link = "closed" /\ thread = "none" => link' = "closed"
  PROVE  QuietInv'
<1>1. PlaceInv'
  <2>1. Sources(op)' = Sources(op)
    BY DEF Sources
  <2> QED BY <2>1 DEF QuietInv, PlaceInv
<1>2. Resting' <=> Resting
  BY DEF Resting
<1>3. ThreadInv'
  BY <1>2 DEF QuietInv, ThreadInv
<1>4. Vacant' <=> Vacant
  BY DEF Vacant
<1>5. Vacant => Resting
  BY SMT DEF Vacant, Resting
<1>6. LinkInv'
  BY <1>4, <1>5 DEF QuietInv, LinkInv, ThreadInv
<1> QED BY <1>1, <1>3, <1>6 DEF QuietInv

LEMMA Beginning ==
  ASSUME QuietInv, at = "enter",
         NEW operation \in Operations, state \in Sources(operation),
         op' = operation, at' = "enter", path' \in Seq(Operations),
         state' = state, kind' = kind, running' = running, thread' = thread, link' = link
  PROVE  QuietInv'
<1>1. PlaceInv'
  BY SourcesOf, SMT DEF QuietInv, PlaceInv, Operations
<1> QED BY <1>1, SMT DEF QuietInv, ThreadInv, LinkInv, Resting, Vacant

LEMMA Choosing == QuietInv /\ (WorkerChooses \/ OperatorAsks) => QuietInv'
<1> SUFFICES ASSUME QuietInv, WorkerChooses \/ OperatorAsks PROVE QuietInv'
  OBVIOUS
<1> USE DEF idle, fixed, linkVars
<1>1. CASE op = "none" /\ path # << >> /\ NextOfBatch
  <2>1. Head(path) \in Operations /\ Tail(path) \in Seq(Operations) /\ at = "enter"
    BY <1>1, SMT DEF QuietInv, PlaceInv
  <2>2. CASE state \in Sources(Head(path))
    BY <1>1, <2>1, <2>2, Beginning DEF NextOfBatch, Begins
  <2>3. CASE state \notin Sources(Head(path))
    <3>1. /\ op' = op /\ at' = at /\ path' = << >> /\ state' = state /\ kind' = kind
          /\ running' = running /\ thread' = thread /\ link' = link
      BY <1>1, <2>3 DEF NextOfBatch
    <3> QED BY <3>1, <1>1, SMT DEF QuietInv, PlaceInv, ThreadInv, LinkInv, Resting, Vacant
  <2> QED BY <2>2, <2>3
<1>2. CASE HookAnswers /\ state \in DOMAIN Startup /\ Begins(Startup[state]) /\ path' = path
  <2>1. at = "enter" /\ path' \in Seq(Operations)
    BY <1>2 DEF HookAnswers, QuietInv, PlaceInv
  <2>2. Startup[state] \in Operations /\ state \in Sources(Startup[state])
    BY <1>2, SourcesOf, StartupOf, SMT DEF Operations
  <2> QED BY <1>2, <2>1, <2>2, Beginning DEF HookAnswers, Begins
<1>3. CASE HookAnswers /\ path' = << "deactivate", "cleanup" >> /\ UNCHANGED <<op, at>>
  <2>1. path' \in Seq(Operations)
    BY <1>3, SMT DEF Operations
  <2>2. /\ op = "none" /\ op' = op /\ at' = at /\ state' = state /\ kind' = kind
        /\ running' = running /\ thread' = thread /\ link' = link
    BY <1>3 DEF HookAnswers
  <2> QED BY <2>1, <2>2, SMT DEF QuietInv, PlaceInv, ThreadInv, LinkInv, Resting, Vacant
<1>4. CASE OperatorAsks
  <2>1. PICK operation \in Operations : state \in Sources(operation) /\ Begins(operation)
    BY <1>4 DEF OperatorAsks
  <2>2. at = "enter" /\ path' \in Seq(Operations)
    BY <1>4 DEF OperatorAsks, QuietInv, PlaceInv
  <2> QED BY <1>4, <2>1, <2>2, Beginning DEF OperatorAsks, Begins
<1> QED BY <1>1, <1>2, <1>3, <1>4 DEF WorkerChooses, NextOfBatch, HookAnswers
------------------------------------------------------------------------------
\* The operations most drivers share.

\* The end of an operation.
LEMMA Returning ==
  ASSUME QuietInv, NEW result, Return(result), kind' = kind,
         state' \in {"finalized", "unconfigured", "inactive", "active"},
         running' \in BOOLEAN,
         state' # "active" => thread' = "none" /\ running' = FALSE,
         state' = "finalized" \/ (state' = "unconfigured" /\ kind # "oradar") => link' = "closed"
  PROVE  QuietInv'
<1>1. op' = "none" /\ at' = "enter"
  BY DEF Return
<1>2. path' \in Seq(Operations)
  <2>1. << >> \in Seq(Operations)
    BY SMT
  <2> QED BY <2>1 DEF Return, QuietInv, PlaceInv
<1>3. PlaceInv'
  BY <1>1, <1>2, SMT DEF PlaceInv
<1>4. ThreadInv'
  BY <1>1 DEF ThreadInv, Resting
<1>5. LinkInv'
  BY <1>1 DEF LinkInv, Vacant
<1> QED BY <1>3, <1>4, <1>5 DEF QuietInv

\* A step within an operation, the thread where it is.
LEMMA Going ==
  ASSUME QuietInv, op \in Operations, NEW place, Goes(place), kind' = kind,
         place # "enter",
         running' \in BOOLEAN, running = FALSE => running' = FALSE,
         place = "join" => running' = FALSE,
         thread = "none" => thread' = "none",
         Resting' => thread' = "none" /\ running' = FALSE,
         Vacant' => link' = "closed",
         op = "configure" =>
           place \in {"open", "settle", "opened", "revert", "tell",
                      "otp", "window", "reset after failure"},
         op = "activate" => place \in {"launch", "start"},
         op = "deactivate" => place \in {"stop", "join"} /\ state' = "inactive",
         op \in {"cleanup", "dematerialize"} => place \in {"stop", "join", "close", "closing"},
         op # "materialize",
         place = "launch" => state' = "inactive",
         place = "start" => state' = "active",
         place = "tell" => state' = "unconfigured",
         place \in {"otp", "window", "reset after failure"} => state' = "inactive"
  PROVE  QuietInv'
<1>1. op' = op /\ at' = place /\ path' = path
  BY DEF Goes
<1>2. "none" \notin Operations
  BY DEF Operations
<1>3. PlaceInv'
  BY <1>1, <1>2 DEF QuietInv, PlaceInv
<1>4. ThreadInv' /\ LinkInv'
  BY <1>1 DEF ThreadInv, LinkInv
<1> QED BY <1>3, <1>4 DEF QuietInv

\* Where the worker is says what the driver's thread and its link are.
LEMMA Entered ==
  ASSUME QuietInv
  PROVE  /\ at = "enter" /\ op \in {"materialize", "configure", "activate", "cleanup"}
              => thread = "none" /\ running = FALSE
         /\ at = "enter" /\ op = "dematerialize" /\ state # "active"
              => thread = "none" /\ running = FALSE
         /\ op \in {"configure", "activate", "cleanup"} => thread = "none" /\ running = FALSE
         /\ at \in {"close", "closing"} => thread = "none" /\ running = FALSE
         /\ at = "enter" /\ op = "materialize" => state = "finalized"
         /\ at = "enter" /\ op = "configure" => state = "unconfigured"
         /\ at = "enter" /\ op \in {"activate", "cleanup"} => state = "inactive"
         /\ at = "enter" /\ op = "deactivate" => state = "active"
         /\ running \in BOOLEAN
<1>1. /\ at = "enter" /\ op \in {"materialize", "configure", "activate", "cleanup"} => state # "active"
      /\ at = "enter" /\ op = "materialize" => state = "finalized"
      /\ at = "enter" /\ op = "configure" => state = "unconfigured"
      /\ at = "enter" /\ op \in {"activate", "cleanup"} => state = "inactive"
      /\ at = "enter" /\ op = "deactivate" => state = "active"
  BY SourcesOf DEF QuietInv, PlaceInv
<1>2. op \in {"configure", "activate", "cleanup"} => Resting
  BY <1>1, SMT DEF Resting
<1>3. at \in {"close", "closing"} => Resting
  BY SMT DEF Resting
<1>4. /\ at = "enter" /\ op \in {"materialize", "configure", "activate", "cleanup"} => Resting
      /\ at = "enter" /\ op = "dematerialize" /\ state # "active" => Resting
  BY <1>1, SMT DEF Resting
<1> QED BY <1>1, <1>2, <1>3, <1>4 DEF QuietInv, ThreadInv

LEMMA Materializing == QuietInv /\ Materialize => QuietInv'
<1> SUFFICES ASSUME QuietInv, Materialize PROVE QuietInv'
  OBVIOUS
<1>1. at = "enter"
  BY DEF Materialize, QuietInv, PlaceInv
<1>2. thread = "none" /\ running = FALSE /\ state = "finalized"
  BY <1>1, Entered DEF Materialize
<1>3. link = "closed"
  BY <1>1, <1>2 DEF QuietInv, LinkInv, Vacant
<1>4. /\ Return("success") /\ kind' = kind /\ state' = "unconfigured"
      /\ running' = running /\ thread' = thread /\ link' = link
  BY DEF Materialize, linkVars, worldVars, fixed
<1> QED BY <1>2, <1>3, <1>4, Returning

LEMMA Telling == QuietInv /\ ConfigureTells => QuietInv'
<1> SUFFICES ASSUME QuietInv, ConfigureTells PROVE QuietInv'
  OBVIOUS
<1>1. /\ op = "configure" /\ at = "tell" /\ Return("error") /\ kind' = kind
      /\ state' = state /\ running' = running /\ thread' = thread /\ link' = link
  BY DEF ConfigureTells, linkVars, worldVars, fixed
<1>2. state = "unconfigured" /\ thread = "none" /\ running = FALSE
  BY <1>1, Entered DEF QuietInv, PlaceInv
<1>3. kind # "oradar" => link = "closed"
  BY <1>1 DEF QuietInv, LinkInv, Vacant
<1> QED BY <1>1, <1>2, <1>3, Returning

\* A configure that is refused.
LEMMA Refusing ==
  ASSUME QuietInv, op = "configure", at = "enter", NEW result, Return(result), kind' = kind,
         state' = state, running' = running, thread' = thread, link' = link
  PROVE  QuietInv'
<1>1. state = "unconfigured" /\ thread = "none" /\ running = FALSE
  BY Entered
<1>2. kind # "oradar" => link = "closed"
  BY <1>1 DEF QuietInv, LinkInv, Vacant
<1> QED BY <1>1, <1>2, Returning

LEMMA Configuring ==
  QuietInv /\ kind \in {"ch020", "pager", "smit"} /\ Configure => QuietInv'
<1> SUFFICES ASSUME QuietInv, kind \in {"ch020", "pager", "smit"}, Configure PROVE QuietInv'
  OBVIOUS
<1>0. "configure" \in Operations
  BY DEF Operations
<1>1. CASE ConfigureBegins
  <2>1. /\ op = "configure" /\ at = "enter" /\ kind' = kind
        /\ running' = running /\ thread' = thread /\ link' = link
    BY <1>1 DEF ConfigureBegins, linkVars, fixed
  <2>2. thread = "none" /\ running = FALSE /\ state = "unconfigured"
    BY <2>1, Entered
  <2>3. link = "closed"
    BY <2>1, <2>2 DEF QuietInv, LinkInv, Vacant
  <2>4. CASE IllTyped
    BY <2>1, <2>4, Refusing DEF IllTyped
  <2>5. CASE Goes("open")
    BY <1>0, <2>1, <2>2, <2>3, <2>5, Going
  <2> QED BY <1>1, <2>4, <2>5 DEF ConfigureBegins
<1>2. CASE ConfigureOpens
  <2>1. /\ op = "configure" /\ at = "open" /\ kind' = kind
        /\ running' = running /\ thread' = thread
    BY <1>2 DEF ConfigureOpens, worldVars, fixed
  <2>2. thread = "none" /\ running = FALSE
    BY <2>1, Entered
  <2>3. link = "closed"
    BY <2>1 DEF QuietInv, LinkInv, Vacant
  <2>4. CASE state' = "inactive" /\ Return("success")
    BY <2>1, <2>2, <2>4, Returning
  <2>5. CASE state' = "unconfigured" /\ Goes("tell") /\ link' = link
    BY <1>0, <2>1, <2>2, <2>3, <2>5, Going
  <2> QED BY <1>2, <2>4, <2>5 DEF ConfigureOpens, linkVars
<1> QED BY <1>1, <1>2, Telling DEF Configure

\* activate(), deactivate(), cleanup() and dematerialize() begin.
LEMMA Entering ==
  ASSUME QuietInv, NEW between, NEW operation, NEW place, Enter(operation, between, place),
         \/ operation = "activate" /\ place = "start" /\ between = "active"
         \/ operation = "deactivate" /\ place = "stop" /\ between = "inactive"
         \/ operation \in {"cleanup", "dematerialize"} /\ place = "stop"
  PROVE  QuietInv'
<1>1. /\ op = operation /\ at = "enter" /\ Goes(place) /\ state' = between /\ kind' = kind
      /\ running' = running /\ thread' = thread /\ link' = link
  BY DEF Enter, linkVars, worldVars, fixed
<1>2. op \in Operations
  BY <1>1 DEF Operations
<1>3. at' = place /\ op' = op
  BY <1>1 DEF Goes
<1>4. ~Vacant'
  BY <1>1, <1>3 DEF Vacant
<1>5. Resting' => op \in {"activate", "cleanup"}
  BY <1>1, <1>3 DEF Resting
<1>6. Resting' => thread = "none" /\ running = FALSE
  BY <1>1, <1>5, Entered
<1>7. running \in BOOLEAN
  BY Entered
<1> QED BY <1>1, <1>2, <1>4, <1>6, <1>7, Going

LEMMA Starting == QuietInv /\ Starts => QuietInv'
<1> SUFFICES ASSUME QuietInv, Starts PROVE QuietInv'
  OBVIOUS
<1>1. /\ at = "start" /\ Return("success") /\ state' = state /\ kind' = kind /\ running' = TRUE
  BY DEF Starts, worldVars, fixed
<1>2. state = "active"
  BY <1>1 DEF QuietInv, PlaceInv
<1> QED BY <1>1, <1>2, Returning

LEMMA Halting == QuietInv /\ (Stops \/ Joins) => QuietInv'
<1> SUFFICES ASSUME QuietInv, Stops \/ Joins PROVE QuietInv'
  OBVIOUS
<1>1. /\ op \in {"deactivate", "cleanup", "dematerialize"}
      /\ at \in {"stop", "join"} /\ op = "deactivate" => state = "inactive"
      /\ op \in Operations
  BY DEF Stops, Joins, QuietInv, PlaceInv, Operations
<1>2. /\ state' = state /\ kind' = kind /\ link' = link
  BY DEF Stops, Joins, linkVars, worldVars, fixed
<1>3. CASE Stops
  <2>1. at = "stop" /\ running' = FALSE /\ Goes("join") /\ thread' = thread
    BY <1>3 DEF Stops
  <2>2. op' = op /\ at' = "join"
    BY <2>1 DEF Goes
  <2>3. ~Vacant' /\ (Resting' => thread = "none")
    BY <1>1, <1>2, <2>1, <2>2, Entered DEF Vacant, Resting
  <2> QED BY <1>1, <1>2, <2>1, <2>3, Going
<1>4. CASE Joins
  <2>1. at = "join" /\ thread' = "none" /\ running' = running /\ running = FALSE
    BY <1>4 DEF Joins, QuietInv, ThreadInv
  <2>2. CASE op = "deactivate"
    BY <1>1, <1>2, <1>4, <2>1, <2>2, Returning DEF Joins
  <2>3. CASE op # "deactivate"
    <3>1. Goes("close") /\ op' = op /\ at' = "close"
      BY <1>4, <2>3 DEF Joins, Goes
    <3>2. ~Vacant'
      BY <1>1, <2>3, <3>1 DEF Vacant
    <3> QED BY <1>1, <1>2, <2>1, <2>3, <3>1, <3>2, Going
  <2> QED BY <2>2, <2>3
<1> QED BY <1>3, <1>4

LEMMA Closing == QuietInv /\ Closes => QuietInv'
<1> SUFFICES ASSUME QuietInv, Closes PROVE QuietInv'
  OBVIOUS
<1>1. /\ at = "close" /\ link' = "closed" /\ state' \in {"unconfigured", "finalized"}
      /\ Return("success") /\ kind' = kind /\ running' = running /\ thread' = thread
  BY DEF Closes, worldVars, fixed
<1>2. thread = "none" /\ running = FALSE
  BY <1>1, Entered
<1> QED BY <1>1, <1>2, Returning

LEMMA Sharing ==
  QuietInv /\ (Materialize \/ Activate \/ Starts \/ Deactivate \/ Cleanup \/ Dematerialize \/ Stopping)
    => QuietInv'
BY Materializing, Entering, Starting, Halting, Closing
   DEF Activate, Deactivate, Cleanup, Dematerialize, Stopping
------------------------------------------------------------------------------
\* What each driver does differently.

LEMMA OradarWorking == QuietInv /\ kind = "oradar" /\ OradarOperations => QuietInv'
<1> SUFFICES ASSUME QuietInv, kind = "oradar", OradarOperations PROVE QuietInv'
  OBVIOUS
<1>0. "configure" \in Operations /\ "activate" \in Operations /\ "cleanup" \in Operations
  BY DEF Operations
<1> USE DEF kept, threadVars, fixed, worldVars, linkVars
<1>1. CASE OradarConfigureBegins
  <2>1. /\ op = "configure" /\ at = "enter" /\ kind' = kind
        /\ running' = running /\ thread' = thread
    BY <1>1 DEF OradarConfigureBegins
  <2>2. thread = "none" /\ running = FALSE
    BY <2>1, Entered
  <2>3. CASE IllTyped /\ link' = link
    BY <2>1, <2>3, Refusing DEF IllTyped
  <2>4. CASE state' = "configuring" /\ Goes("open")
    <3>1. ~Vacant'
      BY <2>1, <2>4 DEF Goes, Vacant
    <3> QED BY <1>0, <2>1, <2>2, <2>4, <3>1, Going
  <2> QED BY <1>1, <2>3, <2>4 DEF OradarConfigureBegins
<1>2. CASE OradarConfigureOpens \/ OradarConfigureReverts
  <2>1. /\ op = "configure" /\ kind' = kind /\ running' = running /\ thread' = thread
        /\ \/ Goes("settle") \/ Goes("revert")
           \/ Goes("tell") /\ state' = "unconfigured"
    BY <1>2 DEF OradarConfigureOpens, OradarConfigureReverts
  <2>2. thread = "none" /\ running = FALSE
    BY <2>1, Entered
  <2>3. ~Vacant'
    BY <2>1 DEF Goes, Vacant
  <2>4. CASE Goes("settle") \/ Goes("revert")
    BY <1>0, <2>1, <2>2, <2>3, <2>4, Going
  <2>5. CASE Goes("tell") /\ state' = "unconfigured"
    BY <1>0, <2>1, <2>2, <2>3, <2>5, Going
  <2> QED BY <2>1, <2>4, <2>5
<1>3. CASE OradarConfigureTells
  BY <1>3, Telling DEF OradarConfigureTells
<1>4. CASE OradarConfigureEnds
  <2>1. /\ op = "configure" /\ kind' = kind /\ running' = running /\ thread' = thread
        /\ state' = "inactive" /\ Return("success")
    BY <1>4 DEF OradarConfigureEnds
  <2>2. thread = "none" /\ running = FALSE
    BY <2>1, Entered
  <2> QED BY <2>1, <2>2, Returning
<1>5. CASE OradarActivate
  <2>1. /\ op = "activate" /\ at = "enter" /\ kind' = kind /\ running' = running
        /\ thread' = thread /\ state' = state /\ link' = link
    BY <1>5 DEF OradarActivate
  <2>2. thread = "none" /\ running = FALSE /\ state = "inactive"
    BY <2>1, Entered
  <2>3. CASE Goes("launch")
    <3>1. ~Vacant'
      BY <2>1, <2>3 DEF Goes, Vacant
    <3> QED BY <1>0, <2>1, <2>2, <2>3, <3>1, Going
  <2>4. CASE Return("error")
    BY <2>1, <2>2, <2>4, Returning
  <2> QED BY <1>5, <2>3, <2>4 DEF OradarActivate
<1>6. CASE OradarStarts
  <2>1. /\ kind' = kind /\ state' = "active" /\ running' = TRUE /\ Return("success")
    BY <1>6 DEF OradarStarts
  <2> QED BY <2>1, Returning
<1>7. CASE OradarDematerialize \/ OradarDeactivate
  BY <1>7, Entering DEF OradarDematerialize, OradarDeactivate, Deactivate
<1>8. CASE OradarCleanup
  <2>1. /\ op = "cleanup" /\ at = "enter" /\ kind' = kind /\ running' = running
        /\ thread' = thread /\ Goes("close")
    BY <1>8 DEF OradarCleanup
  <2>2. thread = "none" /\ running = FALSE
    BY <2>1, Entered
  <2>3. ~Vacant'
    BY <2>1 DEF Goes, Vacant
  <2> QED BY <1>0, <2>1, <2>2, <2>3, Going
<1>9. CASE OradarMaterialize \/ StopReader \/ OradarJoins \/ OradarCloses
  BY <1>9, Materializing, Halting, Closing
     DEF OradarMaterialize, StopReader, OradarJoins, OradarCloses
<1> QED BY <1>1, <1>2, <1>3, <1>4, <1>5, <1>6, <1>7, <1>8, <1>9 DEF OradarOperations

LEMMA TwsWorking == QuietInv /\ kind = "tws" /\ TwsOperations => QuietInv'
<1> SUFFICES ASSUME QuietInv, kind = "tws", TwsOperations PROVE QuietInv'
  OBVIOUS
<1>0. "configure" \in Operations
  BY DEF Operations
<1> USE DEF fixed, worldVars, linkVars
<1>1. CASE TwsConfigures
  <2>1. /\ op = "configure" /\ at = "enter" /\ kind' = kind
        /\ running' = running /\ thread' = thread
    BY <1>1 DEF TwsConfigures
  <2>2. thread = "none" /\ running = FALSE /\ state = "unconfigured"
    BY <2>1, Entered
  <2>3. link = "closed"
    BY <2>1, <2>2 DEF QuietInv, LinkInv, Vacant
  <2>4. CASE IllTyped /\ link' = link
    BY <2>1, <2>4, Refusing DEF IllTyped
  <2>5. CASE state' = "inactive" /\ Return("success")
    BY <2>1, <2>2, <2>5, Returning
  <2>6. CASE Goes("tell") /\ link' = link /\ state' = state
    BY <1>0, <2>1, <2>2, <2>3, <2>6, Going
  <2> QED BY <1>1, <2>4, <2>5, <2>6 DEF TwsConfigures
<1>2. CASE TwsCleanup
  <2>1. /\ op = "cleanup" /\ at = "enter" /\ kind' = kind /\ running' = running
        /\ thread' = thread /\ link' = "closed" /\ state' = "unconfigured" /\ Return("success")
    BY <1>2 DEF TwsCleanup
  <2>2. thread = "none" /\ running = FALSE
    BY <2>1, Entered
  <2> QED BY <2>1, <2>2, Returning
<1>3. CASE TwsConfigureTells
  BY <1>3, Telling DEF TwsConfigureTells
<1> QED
  BY <1>1, <1>2, <1>3, Sharing
     DEF TwsOperations, TwsMaterialize, TwsActivate, TwsStarts, TwsDeactivate,
         TwsDematerialize, TwsStops, TwsJoins, TwsCloses, Stopping

LEMMA CameraWorking == QuietInv /\ kind = "camera" /\ CameraOperations => QuietInv'
<1> SUFFICES ASSUME QuietInv, kind = "camera", CameraOperations PROVE QuietInv'
  OBVIOUS
<1>0. "configure" \in Operations
  BY DEF Operations
<1> USE DEF here, fixed, worldVars, linkVars
<1>1. CASE CameraConfigureBegins
  <2>1. /\ op = "configure" /\ at = "enter" /\ kind' = kind
        /\ running' = running /\ thread' = thread /\ link' = link
    BY <1>1 DEF CameraConfigureBegins
  <2>2. thread = "none" /\ running = FALSE
    BY <2>1, Entered
  <2>3. CASE IllTyped
    BY <2>1, <2>3, Refusing DEF IllTyped
  <2>4. CASE Goes("open")
    <3>1. ~Vacant'
      BY <2>1, <2>4 DEF Goes, Vacant
    <3> QED BY <1>0, <2>1, <2>2, <2>4, <3>1, Going
  <2> QED BY <1>1, <2>3, <2>4 DEF CameraConfigureBegins
<1>2. CASE CameraConfigureOpens
  <2>1. /\ op = "configure" /\ kind' = kind /\ running' = running /\ thread' = thread
        /\ Goes("opened") \/ (Goes("revert") /\ link' = "closed")
    BY <1>2 DEF CameraConfigureOpens, CaptureConfigures
  <2>2. thread = "none" /\ running = FALSE
    BY <2>1, Entered
  <2>3. CASE Goes("opened")
    <3>1. ~Vacant'
      BY <2>1, <2>3 DEF Goes, Vacant
    <3> QED BY <1>0, <2>1, <2>2, <2>3, <3>1, Going
  <2>4. CASE Goes("revert") /\ link' = "closed"
    BY <1>0, <2>1, <2>2, <2>4, Going
  <2> QED BY <2>1, <2>3, <2>4
<1>3. CASE CameraConfigureEnds
  <2>1. /\ op = "configure" /\ kind' = kind /\ running' = running /\ thread' = thread
        /\ link' = link
        /\ \/ at = "opened" /\ state' = "inactive" /\ Goes("otp")
           \/ at = "revert" /\ state' = "unconfigured" /\ Goes("tell")
    BY <1>3 DEF CameraConfigureEnds
  <2>2. thread = "none" /\ running = FALSE
    BY <2>1, Entered
  <2>3. CASE at = "opened" /\ state' = "inactive" /\ Goes("otp")
    <3>1. ~Vacant'
      BY <2>1, <2>3 DEF Goes, Vacant
    <3> QED BY <1>0, <2>1, <2>2, <2>3, <3>1, Going
  <2>4. CASE at = "revert" /\ state' = "unconfigured" /\ Goes("tell")
    <3>1. link = "closed"
      BY <2>1, <2>4 DEF QuietInv, LinkInv, Vacant
    <3> QED BY <1>0, <2>1, <2>2, <2>4, <3>1, Going
  <2> QED BY <2>1, <2>3, <2>4
<1>4. CASE CameraConfigureTells
  <2>1. /\ op = "configure" /\ at = "tell" /\ Return("error") /\ kind' = kind
        /\ state' = state /\ running' = running /\ thread' = thread /\ link' = link
    BY <1>4 DEF CameraConfigureTells
  <2>2. state = "unconfigured" /\ thread = "none" /\ running = FALSE
    BY <2>1, Entered DEF QuietInv, PlaceInv
  <2>3. link = "closed"
    BY <2>1 DEF QuietInv, LinkInv, Vacant
  <2> QED BY <2>1, <2>2, <2>3, Returning
<1>5. CASE ApplyOtpCalibration
  <2>1. /\ op = "configure" /\ at \in {"otp", "window", "reset after failure"}
        /\ kind' = kind /\ running' = running /\ thread' = thread
        /\ state' = state /\ link' = link
        /\ \/ Goes("window") \/ Goes("reset after failure")
           \/ Return("success") \/ UNCHANGED workerVars
    <3> USE DEF otpSteps, workerVars, OtpEnds
    <3>1. CASE OtpSkipped
      BY <3>1 DEF OtpSkipped
    <3>2. CASE OtpInitializes
      BY <3>2 DEF OtpInitializes
    <3>3. CASE OtpInitializeFails
      BY <3>3 DEF OtpInitializeFails
    <3>4. CASE OtpReadsWindow
      BY <3>4 DEF OtpReadsWindow
    <3>5. CASE OtpWindowFails
      BY <3>5 DEF OtpWindowFails
    <3>6. CASE OtpResets
      BY <3>6 DEF OtpResets
    <3> QED BY <1>5, <3>1, <3>2, <3>3, <3>4, <3>5, <3>6 DEF ApplyOtpCalibration
  <2>2. thread = "none" /\ running = FALSE /\ state = "inactive"
    BY <2>1, Entered DEF QuietInv, PlaceInv
  <2>3. CASE Goes("window") \/ Goes("reset after failure")
    <3>1. ~Vacant'
      BY <2>1, <2>3 DEF Goes, Vacant
    <3> QED BY <1>0, <2>1, <2>2, <2>3, <3>1, Going
  <2>4. CASE Return("success")
    BY <2>1, <2>2, <2>4, Returning
  <2>5. CASE UNCHANGED workerVars
    BY <2>1, <2>5, Around DEF workerVars
  <2> QED BY <2>1, <2>3, <2>4, <2>5
<1>6. CASE CameraStarts \/ CameraStops \/ CameraMaterialize
  BY <1>6, Starting, Halting, Materializing DEF CameraStarts, CameraStops, CameraMaterialize
<1>7. CASE CameraActivate \/ CameraDeactivate \/ CameraCleanup \/ CameraDematerialize
  BY <1>7, Entering
     DEF CameraActivate, CameraDeactivate, CameraCleanup, CameraDematerialize, Activate, Deactivate
<1>8. CASE CameraMovesOn
  <2>1. /\ at = "close" /\ Goes("closing") /\ kind' = kind /\ running' = running
        /\ thread' = thread
    BY <1>8 DEF CameraMovesOn
  <2>2. op \in {"cleanup", "dematerialize"} /\ op \in Operations
    BY <2>1 DEF QuietInv, PlaceInv, Operations
  <2>3. thread = "none" /\ running = FALSE
    BY <2>1, Entered
  <2>4. ~Vacant'
    BY <2>1, <2>2 DEF Goes, Vacant
  <2> QED BY <2>1, <2>2, <2>3, <2>4, Going
<1>9. CASE CameraCloses
  <2>1. /\ at = "closing" /\ link' = "closed" /\ state' \in {"unconfigured", "finalized"}
        /\ Return("success") /\ kind' = kind /\ running' = running /\ thread' = thread
    BY <1>9 DEF CameraCloses
  <2>2. thread = "none" /\ running = FALSE
    BY <2>1, Entered
  <2> QED BY <2>1, <2>2, Returning
<1> QED
  BY <1>1, <1>2, <1>3, <1>4, <1>5, <1>6, <1>7, <1>8, <1>9 DEF CameraOperations
------------------------------------------------------------------------------
\* The thread, the writer of the PG100, and the world around.

\* A step of the driver's thread.
LEMMA ThreadLeaves ==
  ThreadStep =>
    /\ thread \notin {"none", "ended"} /\ thread' # "none"
    /\ op' = op /\ at' = at /\ path' = path /\ state' = state /\ kind' = kind
    /\ running' = running
<1> SUFFICES ASSUME ThreadStep
             PROVE  /\ thread \notin {"none", "ended"} /\ thread' # "none"
                    /\ op' = op /\ at' = at /\ path' = path /\ state' = state /\ kind' = kind
                    /\ running' = running
  OBVIOUS
<1> USE DEF Proceeds, workerVars, worldVars, fixed
<1>0. ASSUME Notifies
      PROVE  /\ thread \in {"greet", "mourn"} /\ thread' \in {"read", "loop"}
             /\ op' = op /\ at' = at /\ path' = path /\ state' = state /\ kind' = kind
             /\ running' = running
  BY <1>0 DEF Notifies, Greets, Mourns
<1>1. ASSUME Loops \/ Reopens \/ ReopenFails \/ ReadEnds \/ ReadsFrame \/ ReadsNothing
             \/ ReadFails \/ Stalls \/ Faults
      PROVE  /\ thread \in {"loop", "reopen", "read", "stall", "fault"}
             /\ thread' # "none"
             /\ op' = op /\ at' = at /\ path' = path /\ state' = state /\ kind' = kind
             /\ running' = running
  <2>1. CASE Loops
    BY <2>1 DEF Loops
  <2>2. CASE Reopens \/ ReopenFails
    BY <2>2 DEF Reopens, ReopenFails
  <2>3. CASE ReadEnds \/ ReadsFrame \/ ReadsNothing \/ ReadFails
    BY <2>3 DEF ReadEnds, ReadsFrame, ReadsNothing, ReadFails
  <2>4. CASE Stalls \/ Faults
    BY <2>4 DEF Stalls, Faults
  <2> QED BY <1>1, <2>1, <2>2, <2>3, <2>4
<1>2. CASE Ch020ReadLoop
  BY <1>0, <1>1, <1>2 DEF Ch020ReadLoop
<1>3. CASE PagerReadLoop
  <2>1. CASE PagerReopens \/ PagerMarks \/ PagerReads \/ PagerFaults \/ PagerDrops
    BY <2>1 DEF PagerReopens, PagerMarks, PagerReads, PagerFaults, PagerDrops
  <2>2. CASE PagerLoops \/ PagerReopenFails \/ PagerReadFails \/ PagerNotifies
    BY <1>0, <1>1, <2>2 DEF PagerLoops, PagerReopenFails, PagerReadFails, PagerNotifies
  <2> QED BY <1>3, <2>1, <2>2 DEF PagerReadLoop
<1>4. CASE SmitReadLoop
  <2>1. CASE SmitReadsDamaged
    BY <2>1 DEF SmitReadsDamaged
  <2>2. CASE SmitReadsConfig \/ SmitReadsPoint
    BY <1>1, <2>2 DEF SmitReadsConfig, SmitReadsPoint
  <2>3. CASE SmitLoops \/ SmitReopens \/ SmitReopenFails \/ SmitNotifies
             \/ SmitReadsNothing \/ SmitStalls \/ SmitFaults
    BY <1>0, <1>1, <2>3
       DEF SmitLoops, SmitReopens, SmitReopenFails, SmitNotifies, SmitReadsNothing,
           SmitStalls, SmitFaults
  <2> QED BY <1>4, <2>1, <2>2, <2>3 DEF SmitReadLoop
<1>5. CASE OradarReadLoop
  <2>1. CASE OradarLoops \/ OradarGreets \/ Mourns
    BY <1>0, <1>1, <2>1 DEF OradarLoops, OradarGreets, Notifies
  <2>2. CASE OradarReopens \/ OradarReopenFails \/ OradarReads \/ OradarReadFails
             \/ OradarPublishes
    BY <2>2 DEF OradarReopens, OradarReopenFails, OradarReads, OradarReadFails,
                OradarPublishes, kept
  <2> QED BY <1>5, <2>1, <2>2 DEF OradarReadLoop
<1>6. CASE TwsPollLoop
  <2>1. CASE TwsLoops \/ TwsWaits \/ TwsMourns \/ TwsGreets \/ TwsPublishes
    BY <2>1 DEF TwsLoops, TwsWaits, TwsMourns, TwsGreets, TwsPublishes
  <2>2. CASE TwsPollBegins
    BY <2>2 DEF TwsPollBegins
  <2>3. CASE TwsPollSucceeds
    BY <2>3 DEF TwsPollSucceeds, PollEnds
  <2>4. CASE TwsPollFails
    BY <2>4 DEF TwsPollFails, PollEnds
  <2> QED BY <1>6, <2>1, <2>2, <2>3, <2>4 DEF TwsPollLoop
<1>7. CASE CaptureLoop
  <2>1. CASE CameraLoops \/ CameraReads \/ CameraPublishes \/ CameraFails
    BY <2>1 DEF CameraLoops, CameraReads, CameraPublishes, CameraFails
  <2>2. CASE CameraFrames
    BY <2>2 DEF CameraFrames
  <2>3. CASE CameraCannotConvert
    BY <2>3 DEF CameraCannotConvert
  <2> QED BY <1>7, <2>1, <2>2, <2>3 DEF CaptureLoop
<1> QED BY <1>2, <1>3, <1>4, <1>5, <1>6, <1>7 DEF ThreadStep

\* A step of the world that asks nothing of the worker.
LEMMA WorldLeaves ==
  Unplugs \/ OradarUnplugs \/ TwsUnplugs \/ Mutes \/ ComesBack \/ GoesSilent \/ SendBegins
    \/ WriteEnds \/ MirrorTurns =>
    /\ op' = op /\ at' = at /\ path' = path /\ state' = state /\ kind' = kind
    /\ running' = running /\ thread' = thread /\ (link = "closed" => link' = "closed")
<1> USE DEF dvars, workerVars, worldVars, linkVars, fixed, quiet
<1>1. CASE Unplugs \/ OradarUnplugs \/ TwsUnplugs
  BY <1>1 DEF Unplugs, OradarUnplugs, TwsUnplugs
<1>2. CASE Mutes \/ ComesBack \/ GoesSilent
  BY <1>2 DEF Mutes, ComesBack, GoesSilent
<1>3. CASE SendBegins \/ WriteEnds
  BY <1>3 DEF SendBegins, WriteEnds, SendEnds, SendFails
<1>4. CASE MirrorTurns
  BY <1>4 DEF MirrorTurns
<1> QED BY <1>1, <1>2, <1>3, <1>4

LEMMA QuietNext == QuietInv /\ [Next]_vars => QuietInv'
<1> SUFFICES ASSUME QuietInv, [Next]_vars PROVE QuietInv'
  OBVIOUS
<1>1. CASE UNCHANGED vars
  BY <1>1, Around DEF vars, dvars, workerVars, worldVars, linkVars, fixed
<1>2. CASE WorkerStep
  <2>1. CASE WorkerChooses
    BY <2>1, Choosing
  <2>2. CASE kind = "ch020" /\ Ch020Operations
    BY <2>2, Configuring, Sharing DEF Ch020Operations
  <2>3. CASE kind = "pager" /\ PagerOperations
    BY <2>3, Configuring, Sharing
       DEF PagerOperations, PagerMaterialize, PagerConfigureBegins, PagerConfigureOpens,
           PagerConfigureTells, PagerActivate, PagerStarts, PagerDeactivate, PagerCleanup,
           PagerDematerialize, PagerStops, PagerCloses, Configure, Stopping
  <2>4. CASE kind = "smit" /\ SmitOperations
    BY <2>4, Configuring, Sharing
       DEF SmitOperations, SmitMaterialize, SmitConfigureBegins, SmitConfigureOpens,
           SmitConfigureTells, SmitActivate, SmitStarts, SmitDeactivate, SmitCleanup,
           SmitDematerialize, SmitStops, SmitJoins, SmitCloses, Configure, Stopping
  <2> QED BY <1>2, <2>1, <2>2, <2>3, <2>4, OradarWorking, TwsWorking, CameraWorking
          DEF WorkerStep, IsCh020, IsPager, IsSmit, IsOradar, IsTws, IsCamera,
              PagerWorkerChooses, SmitWorkerChooses, OradarWorkerChooses, TwsWorkerChooses,
              CameraWorkerChooses
<1>3. CASE ThreadStep
  BY <1>3, ThreadLeaves, Around
<1>4. CASE WriteEnds
  BY <1>4, WorldLeaves, Around
<1>5. CASE World
  BY <1>5, WorldLeaves, Around, Choosing DEF World, Surroundings
<1> QED BY <1>1, <1>2, <1>3, <1>4, <1>5 DEF Next
------------------------------------------------------------------------------
LEMMA KindStays == [Next]_vars => kind' = kind
<1> SUFFICES ASSUME [Next]_vars PROVE kind' = kind
  OBVIOUS
<1> USE DEF fixed, worldVars
<1>1. ASSUME WorkerChooses \/ OperatorAsks PROVE kind' = kind
  BY <1>1 DEF WorkerChooses, NextOfBatch, HookAnswers, OperatorAsks
<1>2. ASSUME Materialize \/ Configure \/ Activate \/ Starts \/ Deactivate \/ Cleanup
             \/ Dematerialize \/ Stopping
      PROVE  kind' = kind
  <2>1. CASE Configure
    BY <2>1 DEF Configure, ConfigureBegins, ConfigureOpens, ConfigureTells
  <2>2. CASE Stopping
    BY <2>2 DEF Stopping, Stops, Joins, Closes
  <2>3. CASE Materialize \/ Activate \/ Starts \/ Deactivate \/ Cleanup \/ Dematerialize
    BY <2>3 DEF Materialize, Activate, Starts, Deactivate, Cleanup, Dematerialize, Enter
  <2> QED BY <1>2, <2>1, <2>2, <2>3
<1>3. CASE Ch020Operations
  BY <1>2, <1>3 DEF Ch020Operations
<1>4. CASE PagerOperations
  BY <1>2, <1>4
     DEF PagerOperations, PagerMaterialize, PagerConfigureBegins, PagerConfigureOpens,
         PagerConfigureTells, PagerActivate, PagerStarts, PagerDeactivate, PagerCleanup,
         PagerDematerialize, PagerStops, PagerCloses, Configure, Stopping
<1>5. CASE SmitOperations
  BY <1>2, <1>5
     DEF SmitOperations, SmitMaterialize, SmitConfigureBegins, SmitConfigureOpens,
         SmitConfigureTells, SmitActivate, SmitStarts, SmitDeactivate, SmitCleanup,
         SmitDematerialize, SmitStops, SmitJoins, SmitCloses, Configure, Stopping
<1>6. CASE OradarOperations
  <2>1. CASE OradarConfigureBegins \/ OradarConfigureOpens \/ OradarConfigureReverts
             \/ OradarConfigureEnds \/ OradarActivate \/ OradarStarts \/ OradarCleanup
    BY <2>1 DEF OradarConfigureBegins, OradarConfigureOpens, OradarConfigureReverts,
                OradarConfigureEnds, OradarActivate, OradarStarts, OradarCleanup, kept
  <2>2. CASE OradarDematerialize
    BY <2>2 DEF OradarDematerialize, Enter
  <2> QED BY <1>2, <1>6, <2>1, <2>2
          DEF OradarOperations, OradarMaterialize, OradarConfigureTells, OradarDeactivate,
              StopReader, OradarJoins, OradarCloses, Configure, Stopping
<1>7. CASE TwsOperations
  BY <1>2, <1>7
     DEF TwsOperations, TwsMaterialize, TwsConfigures, TwsConfigureTells, TwsActivate,
         TwsStarts, TwsDeactivate, TwsCleanup, TwsDematerialize, TwsStops, TwsJoins,
         TwsCloses, Configure, Stopping
<1>8. CASE CameraOperations
  <2>1. CASE CameraConfigureBegins \/ CameraConfigureOpens \/ CameraConfigureEnds
             \/ CameraConfigureTells \/ CameraMovesOn \/ CameraCloses
    BY <2>1 DEF CameraConfigureBegins, CameraConfigureOpens, CameraConfigureEnds,
                CameraConfigureTells, CameraMovesOn, CameraCloses, here
  <2>2. CASE ApplyOtpCalibration
    BY <2>2 DEF ApplyOtpCalibration, OtpSkipped, OtpInitializes, OtpInitializeFails,
                OtpReadsWindow, OtpWindowFails, OtpResets, otpSteps, here
  <2>3. CASE CameraCleanup \/ CameraDematerialize
    BY <2>3 DEF CameraCleanup, CameraDematerialize, Enter
  <2> QED BY <1>2, <1>8, <2>1, <2>2, <2>3
          DEF CameraOperations, CameraMaterialize, CameraActivate, CameraStarts,
              CameraDeactivate, CameraStops, Stopping
<1>9. CASE WorkerStep
  BY <1>1, <1>3, <1>4, <1>5, <1>6, <1>7, <1>8, <1>9
     DEF WorkerStep, PagerWorkerChooses, SmitWorkerChooses, OradarWorkerChooses,
         TwsWorkerChooses, CameraWorkerChooses
<1>10. CASE UNCHANGED vars
  BY <1>10 DEF vars, dvars
<1>11. CASE World
  BY <1>1, <1>11, WorldLeaves DEF World, Surroundings
<1> QED BY <1>9, <1>10, <1>11, ThreadLeaves, WorldLeaves DEF Next

\* Only the camera touches its sensor, and only while it reads the OTP memory.
SensorInv ==
  /\ kind # "camera" => sensor = "normal"
  /\ sensor = "otp" => op = "configure" /\ at \in {"window", "reset after failure"}

LEMMA SensorNext == QuietInv /\ SensorInv /\ [Next]_vars => SensorInv'
<1> SUFFICES ASSUME QuietInv, SensorInv, [Next]_vars PROVE SensorInv'
  OBVIOUS
<1>0. kind' = kind
  BY KindStays
<1>1. ASSUME sensor' = sensor, kind # "camera" PROVE SensorInv'
  BY <1>0, <1>1 DEF SensorInv
<1>2. ASSUME sensor' = sensor, op' = op, at' = at PROVE SensorInv'
  BY <1>0, <1>2 DEF SensorInv
<1>3. ASSUME sensor' = sensor, op # "configure" \/ at \notin {"window", "reset after failure"}
      PROVE  SensorInv'
  BY <1>0, <1>3 DEF SensorInv
<1>4. op = "none" => at \notin {"window", "reset after failure"}
  BY DEF QuietInv, PlaceInv
<1>5. ASSUME IsCh020 \/ IsPager \/ IsSmit \/ IsOradar \/ IsTws PROVE SensorInv'
  BY <1>1, <1>5 DEF IsCh020, IsPager, IsSmit, IsOradar, IsTws, cameraVars
<1>6. ASSUME IsCamera, CameraOperations PROVE SensorInv'
  <2>0. kind = "camera"
    BY <1>6 DEF IsCamera
  <2>1. CASE CameraMaterialize \/ CameraStarts \/ CameraStops
    BY <1>3, <2>1 DEF CameraMaterialize, Materialize, CameraStarts, Starts, CameraStops, Stops,
                      Joins, cameraVars, QuietInv, PlaceInv
  <2>2. CASE CameraConfigureBegins \/ CameraConfigureOpens \/ CameraConfigureEnds
             \/ CameraConfigureTells
    BY <1>3, <2>2 DEF CameraConfigureBegins, CameraConfigureOpens, CameraConfigureEnds,
                      CameraConfigureTells, cameraVars
  <2>3. CASE CameraActivate \/ CameraDeactivate \/ CameraCleanup \/ CameraDematerialize
    BY <1>3, <2>3 DEF CameraActivate, CameraDeactivate, CameraCleanup, CameraDematerialize,
                      Activate, Deactivate, Enter, cameraVars
  <2>4. CASE CameraMovesOn \/ CameraCloses
    BY <1>3, <2>4 DEF CameraMovesOn, CameraCloses, cameraVars
  <2>5. CASE OtpSkipped
    BY <1>3, <2>5 DEF OtpSkipped
  <2>6. CASE OtpInitializes
    BY <1>0, <2>0, <2>6 DEF OtpInitializes, Goes, SensorInv, otpSteps, here
  <2>7. CASE OtpInitializeFails
    BY <1>0, <2>0, <2>7 DEF OtpInitializeFails, SensorInv
  <2>8. CASE OtpReadsWindow
    BY <1>2, <2>8 DEF OtpReadsWindow, workerVars
  <2>9. CASE OtpWindowFails
    BY <1>0, <2>9 DEF OtpWindowFails, Goes, SensorInv, otpSteps, here
  <2>10. CASE OtpResets
    BY <1>0, <2>0, <2>10 DEF OtpResets, SensorInv
  <2> QED BY <1>6, <2>1, <2>2, <2>3, <2>4, <2>5, <2>6, <2>7, <2>8, <2>9, <2>10
          DEF CameraOperations, ApplyOtpCalibration
<1>7. CASE IsCamera /\ CameraWorkerChooses
  BY <1>3, <1>4, <1>7 DEF CameraWorkerChooses, WorkerChooses, NextOfBatch, HookAnswers, cameraVars
<1>8. CASE IsCamera /\ CaptureLoop
  <2>1. sensor' = sensor
    BY <1>8 DEF CaptureLoop, CameraLoops, CameraReads, CameraFrames, CameraPublishes,
                CameraCannotConvert, CameraFails, cameraVars
  <2>2. op' = op /\ at' = at
    BY <1>8, ThreadLeaves DEF ThreadStep
  <2> QED BY <1>2, <2>1, <2>2
<1>9. CASE IsCamera /\ (Unplugs \/ Surroundings) /\ UNCHANGED cameraVars
  <2>1. CASE OperatorAsks
    BY <1>3, <1>4, <1>9, <2>1 DEF OperatorAsks, cameraVars
  <2> QED BY <1>2, <1>9, <2>1, WorldLeaves DEF Surroundings, cameraVars
<1>10. CASE UNCHANGED vars
  BY <1>2, <1>10 DEF vars, dvars, workerVars, cameraVars
<1> QED BY <1>5, <1>6, <1>7, <1>8, <1>9, <1>10
        DEF Next, WorkerStep, ThreadStep, WriteEnds, World

\* An operation that is over has left nothing behind: a driver that is not
\* ACTIVE has no thread, one that is not configured no open device, and the
\* camera's sensor is not in the mode of its OTP memory.
THEOREM OperationsCleanUp == Spec => []StoppedIsQuiet
<1> DEFINE I == QuietInv /\ SensorInv
<1>1. Init => I
  BY QuietInit DEF Init, CameraInit, SensorInv
<1>2. I /\ [Next]_vars => I'
  BY QuietNext, SensorNext
<1>3. I => StoppedIsQuiet
  <2> SUFFICES ASSUME I, op = "none" PROVE StoppedIsQuiet
    BY DEF StoppedIsQuiet
  <2>1. at = "enter"
    BY DEF QuietInv, PlaceInv
  <2>2. state # "active" => thread = "none" /\ running = FALSE
    BY <2>1 DEF QuietInv, ThreadInv, Resting
  <2>3. state = "finalized" \/ (state = "unconfigured" /\ kind # "oradar") => link = "closed"
    BY <2>1 DEF QuietInv, LinkInv, Vacant
  <2> QED BY <2>2, <2>3 DEF StoppedIsQuiet, SensorInv
<1> QED BY <1>1, <1>2, <1>3, PTL DEF Spec
------------------------------------------------------------------------------
(***************************************************************************)
(* What a driver has reported.                                             *)
(***************************************************************************)

\* The driver has a device it has configured, or a thread.
Live == thread # "none" \/ state \in {"inactive", "active"}

\* A connection the read loop of a serial driver has lost is reported, or the
\* thread is about to report it.
SerialInv ==
  kind \in {"ch020", "smit"} =>
    /\ Live => connected \/ told = "lost" \/ thread = "mourn"
    /\ thread = "greet" => connected

LEMMA SerialShared ==
  ASSUME QuietInv, SerialInv, kind \in {"ch020", "smit"}, kind' = kind,
         \/ WorkerChooses \/ OperatorAsks \/ Materialize \/ Configure
         \/ Activate \/ Starts \/ Deactivate \/ Cleanup \/ Dematerialize \/ Stopping
         \/ Loops \/ Reopens \/ ReopenFails \/ Notifies
         \/ ReadEnds \/ ReadsFrame \/ ReadsNothing \/ ReadFails \/ Stalls \/ Faults
         \/ Unplugs \/ Mutes \/ ComesBack \/ GoesSilent
  PROVE  SerialInv'
<1> USE DEF linkVars, eventVars, worldVars, workerVars, idle, fixed, Proceeds
<1>1. ASSUME connected' = connected, told' = told,
             \/ thread' = thread
             \/ thread = "ended" /\ thread' = "none"
             \/ thread \notin {"none", "mourn"} /\ thread' # "greet",
             state' \in {"inactive", "active"} => Live
      PROVE  SerialInv'
  BY <1>1 DEF SerialInv, Live
<1>2. CASE WorkerChooses \/ OperatorAsks
  BY <1>1, <1>2 DEF WorkerChooses, NextOfBatch, HookAnswers, OperatorAsks, Live
<1>3. CASE Materialize
  BY <1>1, <1>3 DEF Materialize
<1>4. CASE ConfigureBegins
  BY <1>1, <1>4 DEF ConfigureBegins, IllTyped, Live
<1>5. CASE ConfigureOpens
  <2>1. thread = "none" /\ thread' = thread
    BY <1>5, Entered DEF ConfigureOpens
  <2> QED BY <1>5, <2>1 DEF ConfigureOpens, Opens, SerialInv, Live
<1>6. CASE ConfigureTells
  <2>1. thread = "none" /\ thread' = thread /\ state = "unconfigured" /\ state' = state
    BY <1>6, Entered DEF ConfigureTells, QuietInv, PlaceInv
  <2> QED BY <1>6, <2>1 DEF SerialInv, Live
<1>7. CASE Activate \/ Deactivate \/ Cleanup \/ Dematerialize
  BY <1>1, <1>7, Entered DEF Activate, Deactivate, Cleanup, Dematerialize, Enter, Live
<1>8. CASE Starts
  <2>1. op = "activate" /\ state = "active" /\ thread = "none"
    BY <1>8, Entered DEF Starts, QuietInv, PlaceInv, Operations
  <2> QED BY <1>8, <2>1 DEF Starts, SerialInv, Live
<1>9. CASE Stops
  BY <1>1, <1>9 DEF Stops, Live
<1>10. CASE Joins
  BY <1>1, <1>10 DEF Joins, Live
<1>11. CASE Closes
  <2>1. thread = "none" /\ thread' = thread /\ state' \notin {"inactive", "active"}
    BY <1>11, Entered DEF Closes
  <2> QED BY <2>1 DEF SerialInv, Live
<1>12. CASE Loops \/ ReopenFails \/ ReadEnds \/ ReadsFrame \/ ReadsNothing \/ ReadFails \/ Stalls
  BY <1>1, <1>12
     DEF Loops, ReopenFails, ReadEnds, ReadsFrame, ReadsNothing, ReadFails, Stalls, Live
<1>13. CASE Reopens
  BY <1>13 DEF Reopens, Opens, SerialInv
<1>14. CASE Greets
  BY <1>14 DEF Greets, SerialInv
<1>15. CASE Mourns
  BY <1>15 DEF Mourns, Tell, SerialInv
<1>16. CASE Faults
  BY <1>16 DEF Faults, SerialInv, Live
<1>17. CASE Unplugs \/ Mutes \/ ComesBack \/ GoesSilent
  BY <1>1, <1>17 DEF Unplugs, Mutes, ComesBack, GoesSilent, Live
<1> QED BY <1>2, <1>3, <1>4, <1>5, <1>6, <1>7, <1>8, <1>9, <1>10, <1>11, <1>12, <1>13,
           <1>14, <1>15, <1>16, <1>17
        DEF Configure, Stopping, Notifies

LEMMA SerialNext == QuietInv /\ SerialInv /\ [Next]_vars => SerialInv'
<1> SUFFICES ASSUME QuietInv, SerialInv, [Next]_vars, kind \in {"ch020", "smit"}
             PROVE  SerialInv'
  BY KindStays DEF SerialInv
<1>0. kind' = kind
  BY KindStays
<1>1. CASE UNCHANGED vars
  BY <1>1 DEF vars, dvars, linkVars, eventVars, workerVars, worldVars, fixed, SerialInv, Live
<1>2. CASE IsCh020 /\ Ch020Operations
  BY <1>0, <1>2, SerialShared DEF Ch020Operations
<1>3. CASE IsCh020 /\ Ch020ReadLoop
  BY <1>0, <1>3, SerialShared DEF Ch020ReadLoop
<1>4. CASE IsSmit /\ SmitOperations
  BY <1>0, <1>4, SerialShared
     DEF SmitOperations, SmitMaterialize, SmitConfigureBegins, SmitConfigureOpens,
         SmitConfigureTells, SmitActivate, SmitStarts, SmitDeactivate, SmitCleanup,
         SmitDematerialize, SmitStops, SmitJoins, SmitCloses, Configure, Stopping
<1>5. CASE IsSmit /\ SmitReadLoop
  <2>1. CASE SmitReadsDamaged
    BY <1>0, <2>1 DEF SmitReadsDamaged, SerialInv, Live, eventVars, workerVars
  <2> QED BY <1>0, <1>5, <2>1, SerialShared
          DEF SmitReadLoop, SmitLoops, SmitReopens, SmitReopenFails, SmitNotifies,
              SmitReadsConfig, SmitReadsPoint, SmitReadsNothing, SmitStalls, SmitFaults
<1>6. CASE IsSmit /\ MirrorTurns
  BY <1>0, <1>6 DEF MirrorTurns, dvars, linkVars, eventVars, workerVars, SerialInv, Live
<1>7. CASE (IsCh020 \/ IsSmit) /\ (WorkerChooses \/ Unplugs \/ Surroundings)
  BY <1>0, <1>7, SerialShared DEF Surroundings
<1> QED BY <1>1, <1>2, <1>3, <1>4, <1>5, <1>6, <1>7
        DEF Next, WorkerStep, ThreadStep, WriteEnds, World, SmitWorkerChooses,
            IsCh020, IsPager, IsSmit, IsOradar, IsTws, IsCamera
------------------------------------------------------------------------------
\* The PG100: send() may have closed the port without a report.
PagerInv ==
  kind = "pager" =>
    /\ connected \in BOOLEAN /\ cutBySend \in BOOLEAN
    /\ Live => connected = TRUE \/ told = "lost" \/ cutBySend = TRUE \/ thread = "mourn"
    /\ thread = "greet" => connected = TRUE \/ cutBySend = TRUE

LEMMA PagerNext == QuietInv /\ PagerInv /\ [Next]_vars => PagerInv'
<1> SUFFICES ASSUME QuietInv, PagerInv, [Next]_vars, kind = "pager" PROVE PagerInv'
  BY KindStays DEF PagerInv
<1>0. /\ kind' = kind /\ connected \in BOOLEAN /\ cutBySend \in BOOLEAN
      /\ Live => connected = TRUE \/ told = "lost" \/ cutBySend = TRUE \/ thread = "mourn"
      /\ thread = "greet" => connected = TRUE \/ cutBySend = TRUE
  BY KindStays DEF PagerInv
<1> USE DEF linkVars, eventVars, worldVars, workerVars, idle, fixed, Proceeds, pagerVars, quiet
<1>1. ASSUME connected' = connected, told' = told, cutBySend' = cutBySend,
             \/ thread' = thread
             \/ thread = "ended" /\ thread' = "none"
             \/ thread \notin {"none", "mourn"} /\ thread' # "greet",
             state' \in {"inactive", "active"} => Live
      PROVE  PagerInv'
  BY <1>0, <1>1 DEF PagerInv, Live
<1>2. CASE (WorkerChooses \/ Unplugs \/ Surroundings) /\ UNCHANGED pagerVars
  BY <1>1, <1>2
     DEF WorkerChooses, NextOfBatch, HookAnswers, Surroundings, Unplugs, Mutes, ComesBack,
         GoesSilent, OperatorAsks, Live
<1>3. CASE PagerMaterialize \/ PagerConfigureBegins
  BY <1>1, <1>3
     DEF PagerMaterialize, Materialize, PagerConfigureBegins, ConfigureBegins, IllTyped, Live
<1>4. CASE PagerConfigureOpens
  <2>1. /\ thread = "none" /\ thread' = thread /\ cutBySend' = FALSE
    BY <1>4, Entered DEF PagerConfigureOpens, ConfigureOpens
  <2>2. \/ connected' = TRUE
        \/ connected' = connected /\ state' = "unconfigured"
    BY <1>4 DEF PagerConfigureOpens, ConfigureOpens, Opens
  <2> QED BY <1>0, <2>1, <2>2 DEF PagerInv, Live
<1>5. CASE PagerConfigureTells
  <2>1. thread = "none" /\ thread' = thread /\ state = "unconfigured" /\ state' = state
    BY <1>5, Entered DEF PagerConfigureTells, ConfigureTells, QuietInv, PlaceInv
  <2>2. connected' = connected /\ cutBySend' = cutBySend
    BY <1>5 DEF PagerConfigureTells, ConfigureTells
  <2> QED BY <1>0, <2>1, <2>2 DEF PagerInv, Live
<1>6. CASE PagerActivate \/ PagerDeactivate \/ PagerCleanup \/ PagerDematerialize
  BY <1>1, <1>6, Entered
     DEF PagerActivate, PagerDeactivate, PagerCleanup, PagerDematerialize,
         Activate, Deactivate, Cleanup, Dematerialize, Enter, Live
<1>7. CASE PagerStarts
  <2>1. op = "activate" /\ state = "active" /\ thread = "none"
    BY <1>7, Entered DEF PagerStarts, Starts, QuietInv, PlaceInv, Operations
  <2> QED BY <1>0, <1>7, <2>1 DEF PagerStarts, Starts, PagerInv, Live
<1>8. CASE PagerStops
  BY <1>1, <1>8 DEF PagerStops, Stops, Joins, Live
<1>9. CASE PagerCloses
  <2>1. thread = "none" /\ thread' = thread /\ state' \notin {"inactive", "active"}
        /\ connected' = FALSE /\ cutBySend' = FALSE
    BY <1>9, Entered DEF PagerCloses, Closes
  <2> QED BY <2>1 DEF PagerInv, Live
<1>10. CASE SendBegins \/ SendEnds
  BY <1>1, <1>10 DEF SendBegins, SendEnds, Live
<1>11. CASE SendFails
  <2>1. connected' = FALSE /\ (connected = TRUE \/ cutBySend = TRUE => cutBySend' = TRUE)
        /\ cutBySend' \in BOOLEAN
    BY <1>11 DEF SendFails
  <2>2. thread' = thread /\ told' = told /\ state' = state
    BY <1>11 DEF SendFails
  <2> QED BY <1>0, <2>1, <2>2 DEF PagerInv, Live
<1>12. CASE PagerLoops \/ PagerReopenFails \/ PagerReads \/ PagerReadFails
  BY <1>1, <1>12
     DEF PagerLoops, Loops, PagerReopenFails, ReopenFails, PagerReads, PagerReadFails,
         ReadEnds, ReadFails, Live
<1>13. CASE PagerReopens \/ PagerFaults
  BY <1>1, <1>13 DEF PagerReopens, PagerFaults, Live
<1>14. CASE PagerMarks
  BY <1>0, <1>14 DEF PagerMarks, PagerInv
<1>15. CASE PagerDrops
  BY <1>0, <1>15 DEF PagerDrops, PagerInv, Live
<1>16. CASE PagerNotifies
  <2>1. /\ thread \in {"greet", "mourn"} /\ thread' \in {"read", "loop"}
        /\ connected' = connected
        /\ thread = "mourn" => told' = "lost"
    BY <1>16 DEF PagerNotifies, Notifies, Greets, Mourns, Tell
  <2>2. /\ cutBySend = TRUE /\ connected = FALSE => cutBySend' = TRUE
        /\ cutBySend' \in BOOLEAN
    BY <1>16 DEF PagerNotifies
  <2> QED BY <1>0, <2>1, <2>2 DEF PagerInv
<1>17. CASE UNCHANGED vars
  BY <1>1, <1>17 DEF vars, dvars, Live
<1> QED
  BY <1>2, <1>3, <1>4, <1>5, <1>6, <1>7, <1>8, <1>9, <1>10, <1>11, <1>12, <1>13, <1>14,
     <1>15, <1>16, <1>17
     DEF Next, WorkerStep, ThreadStep, WriteEnds, World, IsCh020, IsPager, IsSmit, IsOradar,
         IsTws, IsCamera, PagerWorkerChooses, PagerOperations, PagerReadLoop

------------------------------------------------------------------------------
\* The Oradar lidar: a loss is the client that is not open.
OradarInv ==
  kind = "oradar" =>
    /\ Live => link # "closed" \/ told = "lost" \/ thread = "mourn"
    /\ thread \in {"frame", "welcome"} \/ (op = "configure" /\ at = "settle") => link # "closed"

LEMMA OradarNext == QuietInv /\ OradarInv /\ [Next]_vars => OradarInv'
<1> SUFFICES ASSUME QuietInv, OradarInv, [Next]_vars, kind = "oradar" PROVE OradarInv'
  BY KindStays DEF OradarInv
<1>0. /\ kind' = kind
      /\ Live => link # "closed" \/ told = "lost" \/ thread = "mourn"
      /\ thread \in {"frame", "welcome"} \/ (op = "configure" /\ at = "settle") => link # "closed"
  BY KindStays DEF OradarInv
<1> USE DEF linkVars, eventVars, worldVars, workerVars, idle, fixed, Proceeds, oradarVars, kept,
            threadVars
<1>1. ASSUME link' = link, told' = told,
             \/ thread' = thread
             \/ thread = "ended" /\ thread' = "none"
             \/ thread \notin {"none", "mourn"} /\ thread' \notin {"frame", "welcome"},
             (op' = op /\ at' = at) \/ at' # "settle",
             state' \in {"inactive", "active"} => Live
      PROVE  OradarInv'
  BY <1>0, <1>1 DEF OradarInv, Live
<1>2. CASE (WorkerChooses \/ Surroundings) /\ UNCHANGED oradarVars
  BY <1>1, <1>2
     DEF WorkerChooses, NextOfBatch, HookAnswers, Begins, Surroundings, Mutes, ComesBack,
         GoesSilent, OperatorAsks, Live
<1>3. CASE OradarUnplugs
  <2>1. link' = link
    BY <1>3 DEF OradarUnplugs, Unplugs, Sockets
  <2> QED BY <1>1, <1>3, <2>1 DEF OradarUnplugs, Unplugs, Live
<1>4. CASE OradarMaterialize
  BY <1>1, <1>4 DEF OradarMaterialize, Materialize, Return, Live
<1>5. CASE OradarConfigureBegins
  <2>1. /\ thread = "none" /\ thread' = thread /\ at' # "settle"
        /\ state' \notin {"inactive", "active"}
    BY <1>5, Entered DEF OradarConfigureBegins, IllTyped, Return, Goes
  <2> QED BY <2>1 DEF OradarInv, Live
<1>6. CASE OradarConfigureOpens
  <2>1. /\ thread = "none" /\ thread' = thread /\ state' = state /\ told' = told
        /\ \/ link' = "open"
           \/ link' = link /\ at' # "settle"
    BY <1>6, Entered DEF OradarConfigureOpens, Connects, ConnectFails, Goes
  <2> QED BY <1>0, <2>1 DEF OradarInv, Live
<1>7. CASE OradarConfigureReverts \/ OradarConfigureTells
  <2>1. /\ thread = "none" /\ thread' = thread /\ at' # "settle"
        /\ state' = "unconfigured"
    BY <1>7, Entered
       DEF OradarConfigureReverts, OradarConfigureTells, ConfigureTells, Goes, Return,
           QuietInv, PlaceInv
  <2> QED BY <2>1 DEF OradarInv, Live
<1>8. CASE OradarConfigureEnds
  <2>1. /\ thread = "none" /\ thread' = thread /\ at' # "settle"
        /\ link' = link /\ link # "closed"
    BY <1>0, <1>8, Entered DEF OradarConfigureEnds, Return
  <2> QED BY <2>1 DEF OradarInv
<1>9. CASE OradarActivate
  <2>1. /\ thread' = thread /\ at' # "settle" /\ link' = link /\ told' = told /\ state' = state
    BY <1>9 DEF OradarActivate, Return, Goes
  <2> QED BY <1>1, <2>1 DEF Live
<1>10. CASE OradarStarts
  <2>1. thread = "none" /\ state = "inactive"
    BY <1>10, Entered DEF OradarStarts, QuietInv, PlaceInv
  <2>2. thread' = "loop" /\ at' # "settle" /\ link' = link /\ told' = told
    BY <1>10 DEF OradarStarts, Return
  <2> QED BY <1>0, <2>1, <2>2 DEF OradarInv, Live
<1>11. CASE OradarDeactivate \/ OradarDematerialize \/ OradarCleanup
  <2>1. at = "enter"
    BY <1>11 DEF OradarDeactivate, Deactivate, OradarDematerialize, OradarCleanup, Enter
  <2>2. op = "deactivate" => state = "active"
    BY <2>1, Entered
  <2> QED BY <1>1, <1>11, <2>2
          DEF OradarDeactivate, Deactivate, OradarDematerialize, OradarCleanup, Enter, Goes, Live
<1>12. CASE StopReader \/ OradarJoins
  BY <1>1, <1>12 DEF StopReader, Stops, OradarJoins, Joins, Goes, Return, Live
<1>13. CASE OradarCloses
  <2>1. /\ thread = "none" /\ thread' = thread /\ state' \notin {"inactive", "active"}
        /\ at' # "settle"
    BY <1>13, Entered DEF OradarCloses, Closes, Return
  <2> QED BY <2>1 DEF OradarInv, Live
<1>14. CASE OradarReadLoop
  <2>0. op # "configure" /\ op' = op /\ at' = at /\ state' = state
    <3>1. op' = op /\ at' = at /\ state' = state /\ thread # "none"
      <4>1. CASE OradarReopens \/ OradarReopenFails \/ OradarReads \/ OradarReadFails
                 \/ OradarPublishes
        BY <4>1 DEF OradarReopens, OradarReopenFails, OradarReads, OradarReadFails,
                    OradarPublishes
      <4>2. CASE OradarLoops \/ OradarGreets \/ Mourns
        BY <4>2 DEF OradarLoops, Loops, OradarGreets, Mourns
      <4> QED BY <1>14, <4>1, <4>2 DEF OradarReadLoop
    <3> QED BY <3>1, Entered
  <2>1. CASE OradarLoops
    BY <1>1, <2>0, <2>1 DEF OradarLoops, Loops, Live
  <2>2. CASE OradarReopens
    BY <2>2 DEF OradarReopens, Connects, OradarInv
  <2>3. CASE OradarReopenFails
    BY <2>0, <2>3 DEF OradarReopenFails, OradarInv
  <2>4. CASE OradarReads
    BY <1>0, <2>0, <2>4 DEF OradarReads, FrameComes, OradarInv
  <2>5. CASE OradarReadFails
    BY <2>0, <2>5 DEF OradarReadFails, OradarInv
  <2>6. CASE OradarPublishes
    BY <1>0, <2>0, <2>6 DEF OradarPublishes, OradarInv
  <2>7. CASE OradarGreets
    BY <1>0, <2>0, <2>7 DEF OradarGreets, OradarInv
  <2>8. CASE Mourns
    BY <1>0, <2>0, <2>8 DEF Mourns, Tell, OradarInv
  <2> QED BY <1>14, <2>1, <2>2, <2>3, <2>4, <2>5, <2>6, <2>7, <2>8 DEF OradarReadLoop
<1>15. CASE UNCHANGED vars
  BY <1>1, <1>15 DEF vars, dvars, Live
<1> QED
  BY <1>2, <1>3, <1>4, <1>5, <1>6, <1>7, <1>8, <1>9, <1>10, <1>11, <1>12, <1>13, <1>14, <1>15
     DEF Next, WorkerStep, ThreadStep, WriteEnds, World, IsCh020, IsPager, IsSmit, IsOradar,
         IsTws, IsCamera, OradarWorkerChooses, OradarOperations
------------------------------------------------------------------------------
\* The battery: what is published, what the tracker holds, and the count.
TwsInv ==
  kind = "tws" =>
    /\ failures \in Nat /\ missed = failures
    /\ everOk \in BOOLEAN /\ shown \in BOOLEAN /\ online \in BOOLEAN
    /\ everOk = TRUE => shown = online
    /\ everOk = TRUE /\ shown = FALSE => told = "failed" \/ thread = "mourn"
    /\ shown = TRUE => online = TRUE
    /\ thread = "greet" => shown = TRUE
    /\ thread = "mourn" => everOk = FALSE \/ missed >= FailuresToOffline

\* A poll that fails: it is a loss only after enough of them.
LEMMA PollFailing ==
  ASSUME TwsInv, kind = "tws", kind' = kind, TwsPollFails
  PROVE  TwsInv'
<1>0. /\ failures \in Nat /\ missed = failures
      /\ everOk \in BOOLEAN /\ shown \in BOOLEAN /\ online \in BOOLEAN
      /\ everOk = TRUE => shown = online
      /\ everOk = TRUE /\ shown = FALSE => told = "failed" \/ thread = "mourn"
      /\ shown = TRUE => online = TRUE
  BY DEF TwsInv
<1> DEFINE count == IF failures < FailuresToOffline THEN failures + 1 ELSE failures
           tolerated == shown = TRUE /\ count < FailuresToOffline
<1>1. /\ failures' = count /\ missed' = count /\ everOk' = everOk /\ told' = told
      /\ thread = "polling"
  BY <1>0 DEF TwsPollFails, PollEnds, eventVars
<1>2. count \in Nat /\ FailuresToOffline \in Nat
  BY <1>0, TwsAssumption
<1>3. CASE tolerated
  <2>1. shown' = TRUE /\ online' = TRUE /\ thread' = "publish"
    BY <1>0, <1>3 DEF TwsPollFails, PollEnds
  <2> QED BY <1>0, <1>1, <1>2, <2>1 DEF TwsInv
<1>4. CASE ~tolerated
  <2>1. shown' = FALSE /\ online' = FALSE
    BY <1>0, <1>4 DEF TwsPollFails
  <2>2. /\ thread' \in {"mourn", "publish"}
        /\ online = TRUE \/ everOk = FALSE => thread' = "mourn"
        /\ thread' = "mourn" => online = TRUE \/ everOk = FALSE
    BY <1>0, <1>4 DEF TwsPollFails, PollEnds
  <2>3. everOk = TRUE /\ online = TRUE => count >= FailuresToOffline
    BY <1>0, <1>2, <1>4
  <2>4. everOk = TRUE => told = "failed" \/ thread' = "mourn"
    BY <1>0, <1>1, <2>2
  <2> HIDE DEF count, tolerated
  <2> QED BY <1>0, <1>1, <1>2, <2>1, <2>2, <2>3, <2>4 DEF TwsInv
<1> QED BY <1>3, <1>4

LEMMA TwsNext == QuietInv /\ TwsInv /\ [Next]_vars => TwsInv'
<1> SUFFICES ASSUME QuietInv, TwsInv, [Next]_vars, kind = "tws" PROVE TwsInv'
  BY KindStays DEF TwsInv
<1>0. kind' = kind
  BY KindStays
<1> USE DEF linkVars, eventVars, worldVars, workerVars, idle, fixed, Proceeds, twsVars, pollVars,
            pollSteps, TwsForgets
<1>1. ASSUME failures' = failures, everOk' = everOk, shown' = shown, online' = online,
             missed' = missed, told' = told,
             \/ thread' = thread
             \/ thread # "mourn" /\ thread' \notin {"greet", "mourn"}
      PROVE  TwsInv'
  BY <1>0, <1>1 DEF TwsInv
\* Nothing is known of the battery any more, and nobody polls.
<1>2. ASSUME TwsForgets, thread = "none", thread' = thread,
             \/ shown' = shown /\ online' = online
             \/ shown' = FALSE /\ online' \in {online, FALSE}
      PROVE  TwsInv'
  BY <1>0, <1>2 DEF TwsInv
<1>3. CASE (TwsWorkerChooses \/ Surroundings) /\ UNCHANGED twsVars
  BY <1>1, <1>3
     DEF TwsWorkerChooses, WorkerChooses, NextOfBatch, HookAnswers, Surroundings, Mutes,
         ComesBack, GoesSilent, OperatorAsks
<1>4. CASE TwsUnplugs
  BY <1>1, <1>4 DEF TwsUnplugs
<1>5. CASE TwsMaterialize
  <2>1. thread = "none" /\ thread' = thread
    BY <1>5, Entered DEF TwsMaterialize, Materialize, QuietInv, PlaceInv
  <2> QED BY <1>2, <1>5, <2>1 DEF TwsMaterialize
<1>6. CASE TwsConfigures
  <2>1. thread = "none" /\ thread' = thread /\ told' = told
    BY <1>6, Entered DEF TwsConfigures
  <2> QED BY <1>1, <1>2, <1>6, <2>1 DEF TwsConfigures
<1>7. CASE TwsConfigureTells
  <2>1. thread = "none" /\ thread' = thread /\ told' = "failed"
    BY <1>7, Entered DEF TwsConfigureTells, ConfigureTells, Tell
  <2> QED BY <1>0, <1>7, <2>1 DEF TwsConfigureTells, TwsInv
<1>8. CASE TwsActivate \/ TwsDeactivate \/ TwsDematerialize
  BY <1>1, <1>8
     DEF TwsActivate, TwsDeactivate, TwsDematerialize, Activate, Deactivate, Dematerialize, Enter
<1>9. CASE TwsStarts
  <2>1. thread = "none"
    BY <1>9, Entered DEF TwsStarts, Starts, QuietInv, PlaceInv, Operations
  <2> QED BY <1>1, <1>9, <2>1 DEF TwsStarts, Starts
<1>10. CASE TwsStops \/ TwsJoins
  BY <1>1, <1>10 DEF TwsStops, Stops, TwsJoins, Joins
<1>11. CASE TwsCleanup \/ TwsCloses
  <2>1. thread = "none" /\ thread' = thread
    BY <1>11, Entered DEF TwsCleanup, TwsCloses, Closes
  <2> QED BY <1>2, <1>11, <2>1 DEF TwsCleanup, TwsCloses
<1>12. CASE TwsLoops \/ TwsWaits \/ TwsPollBegins \/ TwsPublishes
  BY <1>1, <1>12 DEF TwsLoops, TwsWaits, TwsPollBegins, TwsPublishes
<1>13. CASE TwsPollSucceeds
  BY <1>0, <1>13 DEF TwsPollSucceeds, PollEnds, TwsInv
<1>14. CASE TwsPollFails
  BY <1>0, <1>14, PollFailing
<1>15. CASE TwsMourns
  BY <1>0, <1>15 DEF TwsMourns, Tell, TwsInv
<1>16. CASE TwsGreets
  BY <1>0, <1>16 DEF TwsGreets, Tell, TwsInv
<1>17. CASE UNCHANGED vars
  BY <1>1, <1>17 DEF vars, dvars
<1> QED
  BY <1>3, <1>4, <1>5, <1>6, <1>7, <1>8, <1>9, <1>10, <1>11, <1>12, <1>13, <1>14, <1>15,
     <1>16, <1>17
     DEF Next, WorkerStep, ThreadStep, WriteEnds, World, IsCh020, IsPager, IsSmit, IsOradar,
         IsTws, IsCamera, TwsWorkerChooses, TwsOperations, TwsPollLoop
------------------------------------------------------------------------------
\* The camera: what it takes for reported has been.
CameraInv ==
  /\ kind # "camera" => lastConnected = "unknown"
  /\ lastConnected = "no" => told = "failed"

LEMMA CameraNext == CameraInv /\ [Next]_vars => CameraInv'
<1> SUFFICES ASSUME CameraInv, [Next]_vars PROVE CameraInv'
  OBVIOUS
<1>0. kind' = kind
  BY KindStays
<1> USE DEF linkVars, eventVars, worldVars, workerVars, idle, fixed, Proceeds, cameraVars, here,
            otpSteps
<1>1. ASSUME kind # "camera", lastConnected' = lastConnected PROVE CameraInv'
  BY <1>0, <1>1 DEF CameraInv
<1>2. ASSUME kind = "camera", lastConnected' \in {lastConnected, "unknown"}, told' = told
      PROVE  CameraInv'
  BY <1>0, <1>2 DEF CameraInv
<1>3. ASSUME kind = "camera",
             EmitConnection("no", "failed") \/ EmitConnection("yes", "online")
      PROVE  CameraInv'
  BY <1>0, <1>3 DEF EmitConnection, Tell, CameraInv
<1>4. CASE IsCh020 \/ IsPager \/ IsSmit \/ IsOradar \/ IsTws
  BY <1>1, <1>4 DEF IsCh020, IsPager, IsSmit, IsOradar, IsTws
<1>5. CASE IsCamera /\ CameraWorkerChooses
  BY <1>2, <1>5 DEF IsCamera, CameraWorkerChooses, WorkerChooses, NextOfBatch, HookAnswers
<1>6. CASE IsCamera /\ CameraOperations
  <2>0. kind = "camera"
    BY <1>6 DEF IsCamera
  <2>1. CASE CameraMaterialize \/ CameraStarts \/ CameraStops
    BY <1>2, <2>0, <2>1
       DEF CameraMaterialize, Materialize, CameraStarts, Starts, CameraStops, Stops, Joins
  <2>2. CASE CameraConfigureBegins \/ CameraConfigureOpens \/ CameraConfigureEnds
    BY <1>2, <2>0, <2>2 DEF CameraConfigureBegins, CameraConfigureOpens, CameraConfigureEnds
  <2>3. CASE CameraConfigureTells
    BY <1>3, <2>0, <2>3 DEF CameraConfigureTells
  <2>4. CASE CameraActivate \/ CameraDeactivate \/ CameraCleanup \/ CameraDematerialize
    BY <1>2, <2>0, <2>4
       DEF CameraActivate, CameraDeactivate, CameraCleanup, CameraDematerialize,
           Activate, Deactivate, Enter
  <2>5. CASE CameraMovesOn \/ CameraCloses
    BY <1>2, <2>0, <2>5 DEF CameraMovesOn, CameraCloses
  <2>6. CASE ApplyOtpCalibration
    BY <1>2, <2>0, <2>6
       DEF ApplyOtpCalibration, OtpSkipped, OtpInitializes, OtpInitializeFails,
           OtpReadsWindow, OtpWindowFails, OtpResets
  <2> QED BY <1>6, <2>1, <2>2, <2>3, <2>4, <2>5, <2>6 DEF CameraOperations
<1>7. CASE IsCamera /\ CaptureLoop
  <2>0. kind = "camera"
    BY <1>7 DEF IsCamera
  <2>1. CASE CameraLoops \/ CameraReads \/ CameraPublishes
    BY <1>2, <2>0, <2>1 DEF CameraLoops, CameraReads, CameraPublishes
  <2>2. CASE CameraFrames \/ CameraCannotConvert \/ CameraFails
    BY <1>3, <2>0, <2>2 DEF CameraFrames, CameraCannotConvert, CameraFails
  <2> QED BY <1>7, <2>1, <2>2 DEF CaptureLoop
<1>8. CASE IsCamera /\ (Unplugs \/ Surroundings) /\ UNCHANGED cameraVars
  BY <1>2, <1>8
     DEF IsCamera, Unplugs, Surroundings, Mutes, ComesBack, GoesSilent, OperatorAsks
<1>9. CASE UNCHANGED vars
  BY <1>0, <1>9 DEF vars, dvars, CameraInv
<1> QED BY <1>4, <1>5, <1>6, <1>7, <1>8, <1>9 DEF Next, WorkerStep, ThreadStep, WriteEnds, World

------------------------------------------------------------------------------
ReportInv ==
  kind \in DriverKinds /\ SerialInv /\ PagerInv /\ OradarInv /\ TwsInv /\ CameraInv

LEMMA ReportInit == Init => QuietInv /\ ReportInv
<1> SUFFICES ASSUME Init PROVE QuietInv /\ ReportInv
  OBVIOUS
<1>1. QuietInv
  BY QuietInit
<1>2. /\ state = "finalized" /\ thread = "none" /\ at = "enter"
      /\ connected = FALSE /\ cutBySend = FALSE
      /\ failures = 0 /\ missed = 0 /\ everOk = FALSE /\ shown = FALSE /\ online = FALSE
      /\ lastConnected = "unknown" /\ kind \in DriverKinds
  BY DriverAssumption DEF Init, DriverInit, PagerInit, TwsInit, CameraInit
<1> QED BY <1>1, <1>2 DEF ReportInv, SerialInv, PagerInv, OradarInv, TwsInv, CameraInv, Live

LEMMA ReportNext == QuietInv /\ ReportInv /\ [Next]_vars => QuietInv' /\ ReportInv'
BY KindStays, QuietNext, SerialNext, PagerNext, OradarNext, TwsNext, CameraNext DEF ReportInv

\* Whatever a driver has lost by the time it is at the head of its loop, it
\* has reported: for every kind of driver and any number of incidents.
THEOREM LossesAreReported == Spec => []LossReported
<1>1. QuietInv /\ ReportInv => LossReported
  <2> SUFFICES ASSUME ReportInv, thread \in {"loop", "reopen"} PROVE LossReported
    BY DEF LossReported
  <2>1. kind \in {"ch020", "smit"} => (~connected => told = "lost")
    BY DEF ReportInv, SerialInv, Live
  <2>2. kind = "pager" => (~connected => told = "lost" \/ cutBySend)
    BY DEF ReportInv, PagerInv, Live
  <2>3. kind = "oradar" => (link = "closed" => told = "lost")
    BY DEF ReportInv, OradarInv, Live
  <2>4. kind = "tws" => (everOk /\ ~shown => told = "failed")
    BY DEF ReportInv, TwsInv
  <2>5. kind = "camera" => (lastConnected = "no" => told = "failed")
    BY DEF ReportInv, CameraInv
  <2>6. kind \in DriverKinds
    BY DEF ReportInv
  <2>7. CASE kind \in {"ch020", "smit"}
    BY <2>1, <2>7 DEF LossReported
  <2>8. CASE kind = "pager"
    BY <2>2, <2>8 DEF LossReported
  <2>9. CASE kind = "oradar"
    BY <2>3, <2>9 DEF LossReported
  <2>10. CASE kind = "tws"
    BY <2>4, <2>10 DEF LossReported
  <2>11. CASE kind = "camera"
    BY <2>5, <2>11 DEF LossReported
  <2> QED BY <2>6, <2>7, <2>8, <2>9, <2>10, <2>11 DEF DriverKinds
<1> QED BY <1>1, ReportInit, ReportNext, PTL DEF Spec

\* What is known of the battery is forgotten only when nobody polls.
LEMMA LossForgetsNothing ==
  QuietInv /\ [Next]_vars /\ kind = "tws" /\ thread' = "mourn" => everOk' = everOk
<1> SUFFICES ASSUME QuietInv, [Next]_vars, kind = "tws", thread' = "mourn", everOk' # everOk
             PROVE  FALSE
  OBVIOUS
<1> USE DEF twsVars, pollVars, pollSteps
<1>1. CASE TwsOperations
  <2>1. CASE TwsMaterialize \/ TwsConfigures
    <3>1. thread = "none" /\ thread' = thread
      BY <2>1, Entered DEF TwsMaterialize, Materialize, TwsConfigures, QuietInv, PlaceInv
    <3> QED BY <3>1
  <2>2. CASE TwsCleanup \/ TwsCloses
    <3>1. thread = "none" /\ thread' = thread
      BY <2>2, Entered DEF TwsCleanup, TwsCloses, Closes
    <3> QED BY <3>1
  <2> QED BY <1>1, <2>1, <2>2
          DEF TwsOperations, TwsConfigureTells, TwsActivate, TwsStarts, TwsDeactivate,
              TwsDematerialize, TwsStops, TwsJoins
<1>2. CASE TwsPollLoop
  BY <1>2 DEF TwsPollLoop, TwsLoops, TwsWaits, TwsPollBegins, TwsPollSucceeds, TwsPollFails,
              PollEnds, TwsMourns, TwsGreets, TwsPublishes
<1>3. CASE TwsWorkerChooses \/ TwsUnplugs \/ UNCHANGED twsVars
  BY <1>3 DEF TwsWorkerChooses, TwsUnplugs
<1> QED
  BY <1>1, <1>2, <1>3
     DEF vars, Next, WorkerStep, ThreadStep, WriteEnds, World, IsCh020, IsPager, IsSmit, IsOradar,
         IsTws, IsCamera

\* A battery that has answered is not declared lost before it has missed
\* FailuresToOffline polls in a row, however many polls that is.
THEOREM LossesAreCounted == Spec => OfflineNeedsFailures
<1>1. QuietInv /\ ReportInv /\ [Next]_vars
        => [thread' = "mourn" /\ kind = "tws" => ~everOk \/ missed' >= FailuresToOffline]_vars
  <2> SUFFICES ASSUME QuietInv, ReportInv, [Next]_vars, thread' = "mourn", kind = "tws", everOk,
                      vars' # vars
               PROVE  missed' >= FailuresToOffline
    OBVIOUS
  <2>1. TwsInv' /\ kind' = "tws"
    BY ReportNext, KindStays DEF ReportInv
  <2>2. everOk' = everOk
    BY LossForgetsNothing
  <2>3. missed' >= FailuresToOffline \/ everOk' = FALSE
    BY <2>1 DEF TwsInv
  <2> QED BY <2>2, <2>3
<1> QED BY <1>1, ReportInit, ReportNext, PTL DEF Spec, OfflineNeedsFailures
------------------------------------------------------------------------------
(***************************************************************************)
(* A scan of the SMIT lidar holds points of one turn: for a circle of any  *)
(* number of sectors, and for every window that leaves room for a lost     *)
(* point outside it.                                                       *)
(***************************************************************************)
\* With a narrower gap a point lost in it lets the scan run into the next turn.
LeavesRoom(w) ==
  \/ w[2] - w[1] >= Sectors - 1
  \/ IF w[1] <= w[2] % Sectors THEN (w[2] % Sectors) - w[1] <= Sectors - 3
                               ELSE w[1] - (w[2] % Sectors) >= 3

OneTurn(scan) == ~({"this", "earlier"} \subseteq scan)

\* The assembler's variables agree with one another.
ScanInv ==
  /\ sector \in 0..Sectors - 1 /\ window \in Windows
  /\ previous \in 0..Sectors
  /\ points \subseteq {"this", "earlier", "before"}
  /\ ~hasConfig => previous = Sectors
  /\ previous = Sectors => ~collecting
  /\ ~collecting => points = {}

\* The thread reads an open port: nothing passes unseen but a lost point.
Following == thread \notin {"none", "reopen"} /\ link = "open"

\* While the thread follows the mirror, what is collected is of this turn, or
\* from before the start, and the mirror has not left the window since.
Tracks ==
  /\ "earlier" \notin points
  /\ "this" \in points => previous = sector /\ (FullCircle \/ InWindow(sector))

TurnInv ==
  /\ OneTurn(points) /\ OneTurn(published)
  /\ kind = "smit" /\ thread = "reopen" => link = "closed"
  /\ kind = "smit" /\ Following => Tracks

------------------------------------------------------------------------------
\* The circle.

LEMMA Remainder ==
  ASSUME NEW n \in Nat, NEW m \in Nat, m > 0, n < m + m
  PROVE  n % m = IF n < m THEN n ELSE n - m
BY SMTT(60)

LEMMA Sector ==
  ASSUME NEW a \in 0..Sectors - 1, NEW k \in {1, 2}
  PROVE  /\ (a + k) % Sectors = IF a + k < Sectors THEN a + k ELSE a + k - Sectors
         /\ (a + k) % Sectors \in 0..Sectors - 1
<1>1. a + k \in Nat /\ Sectors \in Nat /\ Sectors > 0 /\ a + k < Sectors + Sectors
  BY SmitAssumption
<1>2. (a + k) % Sectors = IF a + k < Sectors THEN a + k ELSE a + k - Sectors
  BY <1>1, Remainder
<1> QED BY <1>1, <1>2, SmitAssumption

LEMMA WindowType ==
  ASSUME window \in Windows
  PROVE  /\ window[1] \in 0..Sectors - 1 /\ window[2] \in 0..Sectors
         /\ window[2] % Sectors \in 0..Sectors - 1
<1>1. window[1] \in 0..Sectors - 1 /\ window[2] \in 0..Sectors
  BY SmitAssumption
<1>2. window[2] \in Nat /\ Sectors \in Nat /\ Sectors > 0 /\ window[2] < Sectors + Sectors
  BY <1>1, SmitAssumption
<1>3. window[2] % Sectors = IF window[2] < Sectors THEN window[2] ELSE window[2] - Sectors
  BY <1>2, Remainder
<1> QED BY <1>1, <1>2, <1>3

\* From inside a window to inside it, the mirror does not pass its start.
LEMMA Staying ==
  ASSUME window \in Windows, LeavesRoom(window), ~FullCircle,
         NEW a \in 0..Sectors - 1, NEW k \in {1, 2},
         InWindow(a), InWindow((a + k) % Sectors)
  PROVE  ~Crossed(a, (a + k) % Sectors, window[1])
<1> DEFINE s == (a + k) % Sectors
           first == window[1]
           last == window[2] % Sectors
<1>1. first \in 0..Sectors - 1 /\ last \in 0..Sectors - 1
  BY WindowType
<1>2. s = IF a + k < Sectors THEN a + k ELSE a + k - Sectors
  BY Sector
<1>3. IF first <= last THEN last - first <= Sectors - 3 ELSE first - last >= 3
  BY <1>1, WindowType, SmitAssumption DEF LeavesRoom, FullCircle
<1>4. /\ IF first <= last THEN a \in first..last ELSE a >= first \/ a <= last
      /\ IF first <= last THEN s \in first..last ELSE s >= first \/ s <= last
  BY DEF InWindow
<1>5. Sectors \in Nat /\ Sectors > 3
  BY SmitAssumption
<1>6. ASSUME NEW x \in Nat, NEW f \in Nat, NEW l \in Nat, NEW m \in Nat, NEW t \in Nat,
             x < m, f < m, l < m, m > 3,
             t = (IF x + k < m THEN x + k ELSE x + k - m),
             IF f <= l THEN l - f <= m - 3 ELSE f - l >= 3,
             IF f <= l THEN f <= x /\ x <= l ELSE x >= f \/ x <= l,
             IF f <= l THEN f <= t /\ t <= l ELSE t >= f \/ t <= l
      PROVE  ~(IF x <= t THEN x < f /\ t >= f ELSE x < f \/ t >= f)
  <2>1. CASE k = 1
    BY <1>6, <2>1
  <2>2. CASE k = 2
    BY <1>6, <2>2
  <2> QED BY <2>1, <2>2
<1>7. s \in Nat /\ first \in Nat /\ last \in Nat /\ a \in Nat
      /\ a < Sectors /\ first < Sectors /\ last < Sectors
  BY <1>1, <1>5, Sector
<1> HIDE DEF s, first, last
<1>8. ~(IF a <= s THEN a < first /\ s >= first ELSE a < first \/ s >= first)
  BY <1>2, <1>3, <1>4, <1>5, <1>6, <1>7
<1> QED BY <1>8 DEF Crossed, s, first

------------------------------------------------------------------------------
\* The points.

LEMMA Ageing ==
  ASSUME OneTurn(points), NEW to
  PROVE  /\ OneTurn(Aged(to))
         /\ points = {} => Aged(to) = {}
         /\ points \subseteq {"this", "earlier", "before"}
              => Aged(to) \subseteq {"this", "earlier", "before"}
         /\ "earlier" \notin points /\ ("this" \in points => ~Crossed(sector, to, window[1]))
              => "earlier" \notin Aged(to)
<1>1. CASE Crossed(sector, to, window[1])
  <2>1. Aged(to) = {IF p = "this" THEN "earlier" ELSE p : p \in points}
    BY <1>1 DEF Aged
  <2>2. "this" \notin Aged(to)
    BY <2>1
  <2> QED BY <1>1, <2>1, <2>2 DEF OneTurn
<1>2. CASE ~Crossed(sector, to, window[1])
  BY <1>2 DEF Aged
<1> QED BY <1>1, <1>2

\* A point is added while the thread follows the mirror.
LEMMA Adding ==
  ASSUME ScanInv, Tracks, OneTurn(points), OneTurn(published), LeavesRoom(window),
         NEW k \in {1, 2}, sector' = (sector + k) % Sectors, AddPoint(sector'),
         window' = window
  PROVE  ScanInv' /\ Tracks' /\ OneTurn(points') /\ OneTurn(published')
<1> DEFINE s == (sector + k) % Sectors
<1>0. s \in 0..Sectors - 1 /\ s # Sectors /\ s \in 0..Sectors
  BY Sector, SmitAssumption DEF ScanInv
<1>1. CASE ~hasConfig
  <2>1. /\ hasConfig' = hasConfig /\ collecting' = collecting /\ previous' = previous
        /\ points' = points /\ published' = published
    BY <1>1 DEF AddPoint, scanVars
  <2>2. points = {}
    BY <1>1 DEF ScanInv
  <2> QED BY <1>0, <1>1, <2>1, <2>2 DEF ScanInv, Tracks
<1>2. CASE hasConfig
  <2>0. previous' = s /\ hasConfig' = hasConfig /\ sector' = s
    BY <1>2 DEF AddPoint
  <2> DEFINE before == Aged(s)
  <2>1. /\ OneTurn(before) /\ before \subseteq {"this", "earlier", "before"}
        /\ points = {} => before = {}
    BY Ageing DEF ScanInv
  <2>2. OneTurn({}) /\ OneTurn({"this"})
    BY DEF OneTurn
  <2>3. ASSUME "earlier" \notin before PROVE OneTurn(before \cup {"this"})
    BY <2>3 DEF OneTurn
  <2>4. FullCircle' <=> FullCircle
    BY DEF FullCircle
  <2>5. InWindow(sector)' <=> InWindow(s)
    BY <2>0 DEF InWindow
  <2>6. CASE FullCircle
    <3> DEFINE begins == HavePrevious /\ Crossed(previous, s, window[1])
               collects == begins \/ collecting
    <3>1. /\ published' = IF begins /\ collecting THEN before ELSE {}
          /\ collecting' = collects
          /\ points' = (IF begins THEN {} ELSE before)
                         \cup (IF collects THEN {"this"} ELSE {})
      BY <1>2, <2>6, <2>0 DEF AddPoint, AddToCircle, EmitScan
    <3>2. ~begins => "earlier" \notin before
      <4> SUFFICES ASSUME ~begins PROVE "earlier" \notin before
        OBVIOUS
      <4>1. "this" \in points => ~Crossed(sector, s, window[1])
        BY DEF Tracks, ScanInv, HavePrevious
      <4> QED BY <4>1, Ageing DEF Tracks
    <3>3. ~collecting => before = {}
      BY <2>1 DEF ScanInv
    <3> HIDE DEF begins, before, s
    <3>4. CASE begins
      <4>1. points' = {"this"} /\ collecting' /\ (published' = before \/ published' = {})
        BY <3>1, <3>4
      <4> QED BY <1>0, <1>2, <2>0, <2>1, <2>2, <2>4, <2>6, <4>1 DEF ScanInv, Tracks
    <3>5. CASE ~begins /\ collecting
      <4>1. points' = before \cup {"this"} /\ collecting' /\ published' = {}
        BY <3>1, <3>5
      <4>2. "earlier" \notin points' /\ OneTurn(points')
        BY <2>3, <3>2, <3>5, <4>1
      <4> QED BY <1>0, <1>2, <2>0, <2>1, <2>2, <2>4, <2>6, <4>1, <4>2 DEF ScanInv, Tracks
    <3>6. CASE ~begins /\ ~collecting
      <4>1. points' = {} /\ ~collecting' /\ published' = {}
        BY <3>1, <3>3, <3>6
      <4> QED BY <1>0, <1>2, <2>0, <2>2, <4>1 DEF ScanInv, Tracks
    <3> QED BY <3>4, <3>5, <3>6
  <2>7. CASE ~FullCircle
    <3> DEFINE begins == ~collecting /\ HavePrevious /\ ~InWindow(previous) /\ InWindow(s)
               ends == collecting /\ ~InWindow(s)
    <3>1. /\ published' = IF ends THEN before ELSE {}
          /\ collecting' = ((collecting \/ begins) /\ ~ends)
          /\ begins => points' = {"this"}
          /\ ends => points' = {}
          /\ ~begins /\ ~ends => points' = IF collecting THEN before \cup {"this"} ELSE before
      BY <1>2, <2>7, <2>0 DEF AddPoint, AddToWindow, EmitScan
    <3>2. ~ends /\ collecting => "earlier" \notin before
      <4> SUFFICES ASSUME InWindow(s), collecting PROVE "earlier" \notin before
        OBVIOUS
      <4>1. "this" \in points => ~Crossed(sector, s, window[1])
        BY <2>7, Staying DEF Tracks, ScanInv
      <4> QED BY <4>1, Ageing DEF Tracks
    <3>3. ~collecting => before = {}
      BY <2>1 DEF ScanInv
    <3>4. begins => InWindow(s) /\ ~collecting
      OBVIOUS
    <3>5. ~ends /\ collecting => InWindow(s)
      OBVIOUS
    <3>6. ends => collecting
      OBVIOUS
    <3> HIDE DEF begins, ends, before, s
    <3>7. CASE begins
      <4>1. points' = {"this"} /\ collecting' /\ published' = {}
        BY <3>1, <3>4, <3>6, <3>7
      <4> QED BY <1>0, <1>2, <2>0, <2>2, <2>5, <3>4, <3>7, <4>1 DEF ScanInv, Tracks
    <3>8. CASE ends
      <4>1. points' = {} /\ ~collecting' /\ published' = before
        BY <3>1, <3>8
      <4> QED BY <1>0, <1>2, <2>0, <2>1, <2>2, <4>1 DEF ScanInv, Tracks
    <3>9. CASE ~begins /\ ~ends /\ collecting
      <4>1. points' = before \cup {"this"} /\ collecting' /\ published' = {}
        BY <3>1, <3>9
      <4>2. "earlier" \notin points' /\ OneTurn(points')
        BY <2>3, <3>2, <3>9, <4>1
      <4> QED BY <1>0, <1>2, <2>0, <2>1, <2>2, <2>5, <3>5, <3>9, <4>1, <4>2 DEF ScanInv, Tracks
    <3>10. CASE ~begins /\ ~ends /\ ~collecting
      <4>1. points' = {} /\ ~collecting' /\ published' = {}
        BY <3>1, <3>3, <3>10
      <4> QED BY <1>0, <1>2, <2>0, <2>2, <4>1 DEF ScanInv, Tracks
    <3> QED BY <3>7, <3>8, <3>9, <3>10
  <2> QED BY <2>6, <2>7
<1> QED BY <1>1, <1>2

------------------------------------------------------------------------------
\* The steps of the driver.

\* Nothing is collected by, and nothing seen of, a step that leaves the
\* assembler alone and does not open the port.
LEMMA Untouched ==
  ASSUME ScanInv, TurnInv, kind' = kind, UNCHANGED smitVars,
         kind = "smit" => /\ Following' => Following
                          /\ thread' = "reopen" => link' = "closed"
  PROVE  ScanInv' /\ TurnInv'
<1>1. /\ sector' = sector /\ window' = window /\ previous' = previous /\ points' = points
      /\ published' = published /\ hasConfig' = hasConfig /\ collecting' = collecting
  BY DEF smitVars, scanVars
<1>2. ScanInv'
  BY <1>1 DEF ScanInv
<1>3. Tracks => Tracks'
  BY <1>1 DEF Tracks, FullCircle, InWindow
<1> QED BY <1>1, <1>2, <1>3 DEF TurnInv

\* Nothing is collected, and the assembler starts from nothing.
LEMMA Empty ==
  ASSUME ScanInv, TurnInv, kind' = kind, sector' = sector, window' \in Windows,
         points' = {}, collecting' = FALSE, previous' = Sectors,
         published' \in {published, {}},
         thread' = "reopen" => link' = "closed"
  PROVE  ScanInv' /\ TurnInv'
<1>1. ScanInv'
  BY SmitAssumption DEF ScanInv
<1> QED BY <1>1 DEF TurnInv, Tracks, OneTurn

LinkType == kind = "smit" => link \in {"closed", "open", "dead"}

LEMMA FramesNeedLink ==
  /\ link = "closed" => "frame" \notin Answers
  /\ link = "dead" => "frame" \notin Answers
<1>1. link = "closed" => Answers = {"error"}
  BY DEF Answers
<1>2. link = "dead" => Answers = {"nothing", "error"}
  BY DEF Answers
<1> QED BY <1>1, <1>2

LEMMA LinkNext == LinkType /\ [Next]_vars => LinkType'
<1> SUFFICES ASSUME LinkType, [Next]_vars, kind = "smit"
             PROVE  link' \in {link, "closed", "open", "dead"}
  BY KindStays DEF LinkType
<1> USE DEF linkVars, idle, dvars
<1>1. CASE SmitWorkerChooses
  BY <1>1 DEF SmitWorkerChooses, WorkerChooses, NextOfBatch, HookAnswers
<1>2. CASE SmitOperations
  <2>1. CASE SmitMaterialize \/ SmitConfigureBegins \/ SmitConfigureOpens \/ SmitConfigureTells
    BY <2>1 DEF SmitMaterialize, Materialize, SmitConfigureBegins, ConfigureBegins,
                SmitConfigureOpens, ConfigureOpens, Opens, SmitConfigureTells, ConfigureTells
  <2>2. CASE SmitActivate \/ SmitDeactivate \/ SmitCleanup \/ SmitDematerialize
    BY <2>2 DEF SmitActivate, SmitDeactivate, SmitCleanup, SmitDematerialize,
                Activate, Deactivate, Cleanup, Dematerialize, Enter
  <2>3. CASE SmitStarts \/ SmitStops \/ SmitJoins \/ SmitCloses
    BY <2>3 DEF SmitStarts, Starts, SmitStops, Stops, SmitJoins, Joins, SmitCloses, Closes
  <2> QED BY <1>2, <2>1, <2>2, <2>3 DEF SmitOperations
<1>3. CASE SmitReadLoop
  <2>1. CASE SmitLoops \/ SmitReopens \/ SmitReopenFails \/ SmitNotifies
    BY <2>1 DEF SmitLoops, Loops, SmitReopens, Reopens, Opens, SmitReopenFails, ReopenFails,
                SmitNotifies, Notifies, Greets, Mourns
  <2>2. CASE SmitReadsConfig \/ SmitReadsPoint \/ SmitReadsDamaged
    BY <2>2 DEF SmitReadsConfig, SmitReadsPoint, ReadsFrame, SmitReadsDamaged
  <2>3. CASE SmitReadsNothing \/ SmitStalls \/ SmitFaults
    BY <2>3 DEF SmitReadsNothing, ReadEnds, ReadsNothing, ReadFails, SmitStalls, Stalls,
                SmitFaults, Faults
  <2> QED BY <1>3, <2>1, <2>2, <2>3 DEF SmitReadLoop
<1>4. CASE Unplugs \/ Surroundings \/ MirrorTurns \/ UNCHANGED vars
  BY <1>4 DEF Unplugs, Surroundings, Mutes, ComesBack, GoesSilent, OperatorAsks, MirrorTurns, vars
<1> QED
  BY <1>1, <1>2, <1>3, <1>4
     DEF Next, WorkerStep, ThreadStep, WriteEnds, World, IsCh020, IsPager, IsSmit, IsOradar,
         IsTws, IsCamera

LEMMA ScanWorker ==
  ASSUME QuietInv, ScanInv, TurnInv, kind = "smit", kind' = kind,
         SmitWorkerChooses \/ SmitOperations
  PROVE  ScanInv' /\ TurnInv'
<1> USE DEF linkVars, eventVars, worldVars, workerVars, idle, fixed
<1>0. thread = "reopen" => link = "closed"
  BY DEF TurnInv
<1>1. CASE SmitWorkerChooses
  BY <1>0, <1>1, Untouched
     DEF SmitWorkerChooses, WorkerChooses, NextOfBatch, HookAnswers, Following
<1>2. CASE SmitMaterialize
  <2>1. thread = "none" /\ thread' = thread
    BY <1>2, Entered DEF SmitMaterialize, Materialize, QuietInv, PlaceInv
  <2> QED BY <1>2, <2>1, Empty DEF SmitMaterialize, ScanInv
<1>3. CASE SmitConfigureBegins \/ SmitConfigureTells
  BY <1>0, <1>3, Untouched
     DEF SmitConfigureBegins, ConfigureBegins, SmitConfigureTells, ConfigureTells, Following
<1>4. CASE SmitConfigureOpens
  <2>1. thread = "none" /\ thread' = thread
    BY <1>4, Entered DEF SmitConfigureOpens, ConfigureOpens
  <2> QED BY <1>4, <2>1, Empty DEF SmitConfigureOpens, ScanReset
<1>5. CASE SmitActivate \/ SmitDeactivate \/ SmitCleanup \/ SmitDematerialize
  BY <1>0, <1>5, Untouched
     DEF SmitActivate, SmitDeactivate, SmitCleanup, SmitDematerialize,
         Activate, Deactivate, Cleanup, Dematerialize, Enter, Following
<1>6. CASE SmitStarts
  <2>1. /\ points' = {"before" : p \in points} /\ thread' = "loop"
        /\ sector' = sector /\ window' = window /\ hasConfig' = hasConfig
        /\ collecting' = collecting /\ previous' = previous /\ published' = published
    BY <1>6 DEF SmitStarts, Starts
  <2>2. /\ points' \subseteq {"before"}
        /\ points = {} => points' = {}
    BY <2>1
  <2>3. ScanInv'
    BY <2>1, <2>2 DEF ScanInv
  <2> QED BY <2>1, <2>2, <2>3 DEF TurnInv, Tracks, OneTurn
<1>7. CASE SmitStops
  BY <1>0, <1>7, Untouched DEF SmitStops, Stops, Following
<1>8. CASE SmitJoins
  BY <1>0, <1>8, Untouched DEF SmitJoins, Joins, Following
<1>9. CASE SmitCloses
  <2>1. link' = "closed"
    BY <1>9 DEF SmitCloses, Closes
  <2> QED BY <1>9, <2>1, Untouched DEF SmitCloses, Following
<1> QED BY <1>1, <1>2, <1>3, <1>4, <1>5, <1>6, <1>7, <1>8, <1>9 DEF SmitOperations

LEMMA ScanThread ==
  ASSUME LinkType, ScanInv, TurnInv, LeavesRoom(window), kind = "smit", kind' = kind, SmitReadLoop
  PROVE  ScanInv' /\ TurnInv'
<1> USE DEF linkVars, eventVars, worldVars, workerVars, fixed, Proceeds
<1>0. thread = "reopen" => link = "closed"
  BY DEF TurnInv
<1>1. CASE SmitLoops
  BY <1>1, Untouched DEF SmitLoops, Loops, Following
<1>2. CASE SmitReopens
  <2>1. /\ thread' = "greet" /\ points' = {} /\ collecting' = FALSE /\ previous' = Sectors
        /\ published' = {} /\ sector' = sector /\ window' = window
    BY <1>2 DEF SmitReopens, Reopens, ScanReset
  <2> QED BY <2>1, Empty DEF ScanInv
<1>3. CASE SmitReopenFails
  BY <1>0, <1>3, Untouched DEF SmitReopenFails, ReopenFails, Following
<1>4. CASE SmitNotifies
  BY <1>4, Untouched DEF SmitNotifies, Notifies, Greets, Mourns, Following
<1>5. CASE SmitReadsConfig
  <2>1. /\ sector' = sector /\ window' = window /\ hasConfig' = TRUE
        /\ collecting' = collecting /\ previous' = previous /\ points' = points
        /\ published' = published
        /\ thread = "read" /\ thread' = "stall" /\ link' = link
    BY <1>5 DEF SmitReadsConfig, ReadsFrame
  <2>2. ScanInv'
    BY <2>1 DEF ScanInv
  <2>3. Tracks => Tracks'
    BY <2>1 DEF Tracks, FullCircle, InWindow
  <2>4. Following' => Following
    BY <2>1 DEF Following
  <2> QED BY <2>1, <2>2, <2>3, <2>4 DEF TurnInv
<1>6. CASE SmitReadsPoint
  <2>1. /\ thread = "read" /\ thread' = "stall" /\ link' = link /\ link = "open"
        /\ window' = window
    <3>1. "frame" \in Answers /\ window' = window
      BY <1>6 DEF SmitReadsPoint, ReadsFrame
    <3>2. thread = "read" /\ thread' = "stall" /\ link' = link
      BY <1>6 DEF SmitReadsPoint, ReadsFrame
    <3> QED BY <3>1, <3>2, FramesNeedLink DEF LinkType
  <2>2. PICK lost \in {0, 1} : sector' = (sector + 1 + lost) % Sectors /\ AddPoint(sector')
    BY <1>6 DEF SmitReadsPoint
  <2>3. Tracks /\ OneTurn(points) /\ OneTurn(published)
    BY <2>1 DEF TurnInv, Following
  <2>4. PICK k \in {1, 2} : sector' = (sector + k) % Sectors
    <3>1. sector \in Nat /\ sector + 1 + lost = sector + (1 + lost) /\ 1 + lost \in {1, 2}
      BY SmitAssumption DEF ScanInv
    <3> QED BY <2>2, <3>1
  <2>5. ScanInv' /\ Tracks' /\ OneTurn(points') /\ OneTurn(published')
    BY <2>1, <2>2, <2>3, <2>4, Adding
  <2> QED BY <2>1, <2>5 DEF TurnInv
<1>7. CASE SmitReadsDamaged
  <2>1. /\ thread = "read" /\ thread' = "stall" /\ link' = link /\ window' = window
        /\ sector' = (sector + 1) % Sectors /\ sector' \in 0..Sectors - 1
    BY <1>7, Sector DEF SmitReadsDamaged, ScanInv
  <2>2. /\ points' = {} /\ OneTurn(published')
        /\ previous' \in 0..Sectors /\ (previous' = Sectors => collecting' = FALSE \/ ~collecting')
        /\ ~hasConfig' => previous' = Sectors
    <3>1. CASE hasConfig
      <4>1. /\ points' = {} /\ collecting' = FALSE /\ previous' = Sectors /\ published' = {}
        BY <1>7, <3>1 DEF SmitReadsDamaged, ScanReset
      <4> QED BY <4>1, SmitAssumption DEF OneTurn
    <3>2. CASE ~hasConfig
      <4>1. /\ points' = points /\ collecting' = collecting /\ previous' = previous
            /\ published' = published /\ hasConfig' = hasConfig
        BY <1>7, <3>2 DEF SmitReadsDamaged, scanVars
      <4> QED BY <3>2, <4>1 DEF ScanInv, TurnInv
    <3> QED BY <3>1, <3>2
  <2>3. ScanInv'
    BY <2>1, <2>2 DEF ScanInv
  <2> QED BY <2>1, <2>2, <2>3 DEF TurnInv, Tracks, OneTurn
<1>8. CASE SmitReadsNothing
  BY <1>8, Untouched DEF SmitReadsNothing, ReadEnds, ReadsNothing, ReadFails, Following
<1>9. CASE SmitStalls
  BY <1>9, Untouched DEF SmitStalls, Stalls, Following
<1>10. CASE SmitFaults
  BY <1>10, Untouched DEF SmitFaults, Faults, Following
<1> QED BY <1>1, <1>2, <1>3, <1>4, <1>5, <1>6, <1>7, <1>8, <1>9, <1>10 DEF SmitReadLoop

LEMMA ScanNext ==
  ASSUME \A w \in Windows : LeavesRoom(w)
  PROVE  QuietInv /\ LinkType /\ ScanInv /\ TurnInv /\ [Next]_vars => ScanInv' /\ TurnInv'
<1> SUFFICES ASSUME QuietInv, LinkType, ScanInv, TurnInv, [Next]_vars PROVE ScanInv' /\ TurnInv'
  OBVIOUS
<1>0. kind' = kind /\ LeavesRoom(window)
  BY KindStays DEF ScanInv
<1>1. CASE UNCHANGED vars
  <2>1. thread' = thread /\ link' = link /\ UNCHANGED smitVars
    BY <1>1 DEF vars, dvars, linkVars
  <2> QED BY <1>0, <2>1, Untouched DEF Following, TurnInv
<1>2. CASE kind # "smit"
  <2>1. UNCHANGED smitVars
    BY <1>2
       DEF vars, Next, WorkerStep, ThreadStep, WriteEnds, World, IsCh020, IsPager, IsSmit, IsOradar,
           IsTws, IsCamera
  <2> QED BY <1>0, <1>2, <2>1, Untouched
<1>3. CASE IsSmit /\ (SmitWorkerChooses \/ SmitOperations)
  BY <1>0, <1>3, ScanWorker DEF IsSmit
<1>4. CASE IsSmit /\ SmitReadLoop
  BY <1>0, <1>4, ScanThread DEF IsSmit
<1>5. CASE IsSmit /\ (Unplugs \/ Surroundings) /\ UNCHANGED smitVars
  <2>1. /\ thread' = thread
        /\ link' = "open" => link = "open"
        /\ link = "closed" => link' = "closed"
    BY <1>5 DEF Surroundings, Unplugs, Mutes, ComesBack, GoesSilent, OperatorAsks, idle, linkVars
  <2> QED BY <1>0, <1>5, <2>1, Untouched DEF Following, TurnInv
<1>6. CASE IsSmit /\ MirrorTurns
  <2>1. /\ sector' = (sector + 1) % Sectors /\ sector' \in 0..Sectors - 1
        /\ points' = Aged(sector')
        /\ window' = window /\ hasConfig' = hasConfig /\ collecting' = collecting
        /\ previous' = previous /\ published' = published
        /\ thread' = thread /\ link' = link
        /\ ~Following
    BY <1>6, Sector DEF MirrorTurns, ScanInv, dvars, linkVars, Following
  <2>2. /\ OneTurn(points') /\ points' \subseteq {"this", "earlier", "before"}
        /\ points = {} => points' = {}
    BY <2>1, Ageing DEF TurnInv, ScanInv
  <2>3. ScanInv'
    BY <2>1, <2>2 DEF ScanInv
  <2> QED BY <1>0, <2>1, <2>2, <2>3 DEF TurnInv, Following
<1> QED
  BY <1>1, <1>2, <1>3, <1>4, <1>5, <1>6
     DEF Next, WorkerStep, ThreadStep, WriteEnds, World, IsCh020, IsPager, IsOradar, IsTws, IsCamera

\* A scan that is handed on mixes no two turns, across lost packets, damaged
\* ones and a port that is opened again, if every window leaves room for a lost
\* point outside it.
THEOREM ScansAreTurns ==
  ASSUME \A w \in Windows : LeavesRoom(w)
  PROVE  Spec => []ScanIsOneTurn
<1> DEFINE I == QuietInv /\ LinkType /\ ScanInv /\ TurnInv
<1>1. Init => I
  <2> SUFFICES ASSUME Init PROVE I
    OBVIOUS
  <2>1. /\ sector = 0 /\ window \in Windows
        /\ hasConfig = FALSE /\ collecting = FALSE /\ previous = Sectors
        /\ points = {} /\ published = {} /\ thread = "none" /\ link = "closed"
    BY DEF Init, SmitInit, DriverInit
  <2>2. ScanInv
    BY <2>1, SmitAssumption DEF ScanInv
  <2> QED BY <2>1, <2>2, QuietInit DEF LinkType, TurnInv, Following, OneTurn
<1>2. I /\ [Next]_vars => I'
  BY QuietNext, LinkNext, ScanNext
<1>3. I => ScanIsOneTurn
  BY DEF TurnInv, OneTurn, ScanIsOneTurn
<1> QED BY <1>1, <1>2, <1>3, PTL DEF Spec
=============================================================================
