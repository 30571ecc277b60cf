--------------------------- MODULE MCDeviceLifecycle ---------------------------
(* DeviceLifecycle for TLC.  Devices, slaves and requests are interchangeable*)
(* and no liveness is checked, so all three are symmetric.                  *)
EXTENDS DeviceLifecycle, TLC

Symmetry == Permutations(Devices) \cup Permutations(Slaves) \cup Permutations(Calls)
=============================================================================
