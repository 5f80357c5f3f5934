--------------------------- MODULE MCDeviceManager ---------------------------
\* A small instance of DeviceManager: two devices, two controlling threads.
EXTENDS DeviceExecutor

CONSTANTS d1, d2, c1, c2
MCDevices == {d1, d2}
MCControllers == {c1, c2}
==============================================================================
