------------------------ MODULE MCHeartbeatLifecycle ------------------------
(***************************************************************************)
(* HeartbeatLifecycle for TLC: the cfgs give Fatal one or two model values,*)
(* enough for two failing requests to meet the boot task, the monitor and  *)
(* a SIGTERM, and choose whether Redis may fail.                           *)
(***************************************************************************)
EXTENDS HeartbeatLifecycle, TLC

\* CUDA tasks differ in nothing but their names (not used in liveness runs).
FatalSymmetry == Permutations(Fatal)
=============================================================================
