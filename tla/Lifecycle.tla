------------------------------ MODULE Lifecycle ------------------------------
(***************************************************************************)
(* The vocabulary shared by every module: lifecycle states, transition     *)
(* requests, and the pure path-planning functions of the core.             *)
(***************************************************************************)
EXTENDS Integers, Sequences

\* The primary states of LifecycleState.  The six ROS transition states
\* (kConfiguring .. kErrorProcessing) are only ever observed, so one value,
\* "transitioning", stands for all of them.
PrimaryStates == {"unconfigured", "inactive", "active", "finalized"}
LifecycleState == PrimaryStates \cup {"unknown", "transitioning"}

Request(from, target, parameters) ==
  [from |-> from, target |-> target, parameters |-> parameters]

\* A parameter map is a function on the names it holds.
EmptyMap == [n \in {} |-> n]
Merge(base, patch) ==
  [n \in DOMAIN base \cup DOMAIN patch |->
     IF n \in DOMAIN patch THEN patch[n] ELSE base[n]]

\* Each request of a batch starts where the previous one ends.
IsContiguous(requests) ==
  \A i \in 2..Len(requests) : requests[i - 1].target = requests[i].from

\* Mutant: only an unconfigured runtime can be dematerialized.
FinalizesOnlyUnconfigured(from, target) ==
  <<from, target>> \in { <<"finalized", "unconfigured">>,
                         <<"unconfigured", "inactive">>,
                         <<"inactive", "active">>,
                         <<"active", "inactive">>,
                         <<"inactive", "unconfigured">>,
                         <<"unconfigured", "finalized">> }

\* The edges DeviceRuntimeBase::request_transition dispatches; every other
\* edge is answered FAILURE without touching the runtime.
SupportedEdge(from, target) ==
  \/ <<from, target>> \in { <<"finalized", "unconfigured">>,
                            <<"unconfigured", "inactive">>,
                            <<"inactive", "active">>,
                            <<"active", "inactive">>,
                            <<"inactive", "unconfigured">> }
  \/ /\ from \in PrimaryStates \ {"finalized"}
     /\ target = "finalized"

\* The path that applies a parameter change from the given state: down to
\* UNCONFIGURED, one configure that carries the complete map, and back up to
\* ACTIVE if that is where the device was.
StandardParameterTransitions(state, parameters) ==
  LET Edge(from, target) == Request(from, target, EmptyMap)
      configure == Request("unconfigured", "inactive", parameters)
  IN CASE state = "active" -> << Edge("active", "inactive"), Edge("inactive", "unconfigured"),
                                 configure, Edge("inactive", "active") >>
       [] state = "inactive" -> << Edge("inactive", "unconfigured"), configure >>
       [] state = "finalized" -> << Edge("finalized", "unconfigured"), configure >>
       [] state = "unconfigured" -> << configure >>
       [] OTHER -> << >>
==============================================================================
