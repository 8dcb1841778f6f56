------------------------------ MODULE MCAxisSA ------------------------------
(* The neighbours of AxisSA for TLC.                                       *)
EXTENDS AxisSA

\* One packet at a time, into a sink that may refuse a beat.
Serial(k) == [kmin |-> 1, kmax |-> k, inFlight |-> 1, readies |-> BOOLEAN]
\* Packets back to back, each as long as the array needs to drain the one
\* before it, into a sink that never refuses a beat.
Paced(k) == [kmin |-> k, kmax |-> k, inFlight |-> 3, readies |-> {TRUE}]
\* Short packets back to back, into a sink that may refuse a beat.
Stream(k) == [kmin |-> 1, kmax |-> k, inFlight |-> 3, readies |-> BOOLEAN]

SerialAndPaced == {Serial(3), Paced(R + 2*C - 2)}
StreamOnly == {Stream(2)}
=============================================================================
