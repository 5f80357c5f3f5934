---------------------------- MODULE DeviceExecutor ----------------------------
(***************************************************************************)
(* One device of the manager, as its callers know it: the serial executor  *)
(* that DeviceQueue implements, seen from DeviceManager's side, where the  *)
(* queue is started, closed and joined by start(), stop() and the catch    *)
(* blocks of a start() that threw.                                         *)
(***************************************************************************)
EXTENDS DeviceManager

CONSTANT Device   \* any one of the devices

ASSUME DeviceAssumption == Device \in Devices

\* A queue that was opened for a worker that could not be created never runs.
Serving == open[Device] /\ worker[Device] # "none"

Entry(batch) == [batch |-> batch, urgent |-> FALSE]
Waiting == [i \in DOMAIN backlog[Device] |-> Entry(backlog[Device][i])]

Phase ==
  CASE worker[Device] = "none" -> "closed"
    [] worker[Device] = "waiting" -> "waiting"
    [] worker[Device] = "busy" -> "working"
    [] worker[Device] = "exited" -> "done"

Executor == INSTANCE SerialExecutor
              WITH open <- Serving, backlog <- Waiting, phase <- Phase, last <- FALSE

\* Every device of a manager is the serial executor DeviceQueue implements,
\* through failed starts, stops and restarts.
DeviceIsExecutor == Executor!Spec
==============================================================================
