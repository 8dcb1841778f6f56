---------------------------- MODULE MCDevToMaxil ----------------------------
(* The bridge with one plain register (0) and one the hardware writes (1). *)
EXTENDS DevToMaxil
MCAddrs == 0 .. 1
MCData == 0 .. 1
MCStatus == {1}
=============================================================================
