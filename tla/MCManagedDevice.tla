--------------------------- MODULE MCManagedDevice ---------------------------
\* Small instances of ManagedDevice.
EXTENDS ManagedDevice

MCNames == {"rate", "port"}
MCValues == {0, 1}
MCInitialParameters == [n \in MCNames |-> 0]

Rate(v) == [m \in {"rate"} |-> v]
\* The gate closes, opens with other parameters, and the parameters change back.
AllPatches == { [enable |-> "false", values |-> EmptyMap],
                [enable |-> "true", values |-> Rate(1)],
                [enable |-> "absent", values |-> Rate(0)] }

\* Serial drivers reconnect by themselves; a battery asks to be reconfigured.
Online == [level |-> "ok", target |-> "unknown"]
SerialEvents == { Online, [level |-> "error", target |-> "active"] }
BatteryEvents == { Online, [level |-> "error", target |-> "unconfigured"] }
==============================================================================
