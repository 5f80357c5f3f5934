------------------------------ MODULE MCDrivers ------------------------------
\* Instances of Drivers for TLC.
EXTENDS Drivers

AllKinds == DriverKinds
Bounds == [k \in AllKinds |-> IF k = "smit" THEN 2 ELSE 3]
AllIncidents == IncidentKinds
\* The full circle, and a window with room for a lost point outside it.
SomeWindows == {<<0, Sectors>>, <<1, 2>>}
==============================================================================
