---------------------------- MODULE MCDeviceHealth ----------------------------
(* Instances of DeviceHealth for TLC. *)
EXTENDS DeviceHealth, TLC

\* REST threads behave alike, and so do application threads.
Symmetry == Permutations(AppThreads) \cup Permutations(RestThreads)
================================================================================
