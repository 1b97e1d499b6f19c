-------------------------- MODULE MCMonitoringCall --------------------------
(* Model checking MonitoringCall: tasks and devices are interchangeable.     *)
EXTENDS MonitoringCall, TLC

Symmetry ==
  Permutations(Commands) \cup Permutations(Devices)
    \cup Permutations(Watchdogs) \cup Permutations(Timers)

=============================================================================
