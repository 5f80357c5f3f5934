---------------------------- MODULE MCDeviceQueue ----------------------------
\* Small instances of DeviceQueue.
EXTENDS DeviceQueue

MCNames == {"rate", "port"}
MCValues == {0, 1}
MCInitialParameters == [n \in MCNames |-> 0]

\* What automatic hooks submit at startup, what a fault-recovery hook and an
\* operator add to it, and two submissions the manager must reject.
StartupPaths == { << <<"finalized", "unconfigured">> >>,
                  << <<"unconfigured", "inactive">> >>,
                  << <<"inactive", "active">> >> }
BringUpPath == << <<"finalized", "unconfigured">>, <<"unconfigured", "inactive">>,
                  <<"inactive", "active">> >>
RecoveryPath == << <<"active", "inactive">>, <<"inactive", "unconfigured">> >>
GapPath == << <<"unconfigured", "inactive">>, <<"active", "inactive">> >>
OperatorPaths == { BringUpPath, RecoveryPath, GapPath, << >> }
RecoveryPaths == { RecoveryPath }

Set(n, v) == [m \in {n} |-> v]
Plain(values) == [enable |-> "absent", values |-> values]
Gated(flag, values) == [enable |-> flag, values |-> values]

\* Patches that leave the gate alone, and patches that do not.
GatedPatches == { Plain(Set("rate", 1)), Plain(Set("port", 1)),
                  Gated("false", Set("rate", 0)), Gated("true", EmptyMap),
                  Gated("malformed", Set("port", 0)) }
==============================================================================
