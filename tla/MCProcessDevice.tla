--------------------------- MODULE MCProcessDevice ---------------------------
\* Small instances of ProcessDevice.
EXTENDS ProcessDevice

MCNames == {"device"}
MCValues == {0, 1}
MCInitialParameters == [n \in MCNames |-> 0]

Close == [enable |-> "false", values |-> EmptyMap]
Open == [enable |-> "true", values |-> EmptyMap]
NewValue == [enable |-> "absent", values |-> [n \in MCNames |-> 1]]
Gate == {Close, Open}
MCPatches == {NewValue, Close}

\* A client asks for an edge no runtime supports.
NoSuchEdge == { << <<"finalized", "inactive">> >> }

\* The node reports that it is online, or asks to be configured again.
MCNodeEvents == { [level |-> "ok", target |-> "unknown"],
                  [level |-> "error", target |-> "unconfigured"] }

EveryFault == [exit |-> 1, spawn |-> 0, stop |-> 1, event |-> 1]
SilentNode == [exit |-> 2, spawn |-> 1, stop |-> 0, event |-> 0]
TalkingNode == [exit |-> 1, spawn |-> 0, stop |-> 0, event |-> 1]
==============================================================================
