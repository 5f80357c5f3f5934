-------------------------- MODULE MCLifecycleDevice --------------------------
\* Small instances of LifecycleDevice.
EXTENDS LifecycleDevice

MCNames == {"rate"}
MCValues == {0, 1}
MCInitialParameters == [n \in MCNames |-> 0]

\* A client asks for an edge the adapter has no transition for.
NoSuchEdge == { << <<"unconfigured", "active">> >> }
NewRate == { [enable |-> "absent", values |-> [n \in {"rate"} |-> 1]] }
NodeFault == { [level |-> "error", target |-> "unconfigured"] }
==============================================================================
