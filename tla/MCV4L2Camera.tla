---------------------------- MODULE MCV4L2Camera ----------------------------
(* Instances of V4L2Camera for TLC: the driver grants the three buffers    *)
(* that are asked for, or fewer.                                           *)
EXTENDS V4L2Camera

MCGranted == 1 .. 3
AllFaults == FaultKinds
RunningFaults == {"select", "ioctl"}
=============================================================================
