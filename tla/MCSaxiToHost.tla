---------------------------- MODULE MCSaxiToHost ----------------------------
(* Bursts of one to three beats with two-bit counters. *)
EXTENDS SaxiToHost
MCRdAddrs == {0}
MCWrAddrs == {4}
MCLens == 0 .. 2
=============================================================================
