------------------------------ MODULE Firmware ------------------------------
(***************************************************************************)
(* The bare-metal firmware driving the accelerator: main() of              *)
(* c/xilinx_example.c calls run() of c/firmware.h over and over.  A call   *)
(* writes the descriptor registers of the four channels, writes START, and *)
(* reads S2MM_DONE until it is set.  Each register access is one step, and *)
(* the hardware of RunPath works in between.                               *)
(***************************************************************************)
EXTENDS RunPath

CONSTANT K     \* beats of a k or x packet (rows of the k matrix)

ASSUME KAssumption == K \in Nat \ {0}

VARIABLE pc    \* what run() does next: a register to write, "poll", or "ret"

vars == <<cfgVars, pathVars, pc>>

Length(c) == IF c \in {"k", "x"} THEN K ELSE C
Following(c) == CASE c = "k" -> "x" [] c = "x" -> "a" [] c = "a" -> "y"
                  [] c = "y" -> "start"

Init == CfgInit /\ PathInit /\ pc = "k"

\* fb_write_reg of the BYTES register of channel c.
Program(c) ==
  /\ pc = c
  /\ WriteBytes(c, Length(c))
  /\ pc' = Following(c)
  /\ UNCHANGED pathVars

\* fb_write_reg(cfg + A_START, 1).
Start ==
  /\ pc = "start"
  /\ WriteStart(TRUE)
  /\ pc' = "poll"
  /\ UNCHANGED pathVars

\* One turn of the polling loop.
Poll ==
  /\ pc = "poll"
  /\ pc' = IF done["y"] THEN "ret" ELSE "poll"
  /\ UNCHANGED <<cfgVars, pathVars>>

\* main() calls run() again.
Again ==
  /\ pc = "ret"
  /\ pc' = "k"
  /\ UNCHANGED <<cfgVars, pathVars>>

FirmwareNext == (\E c \in Channels : Program(c)) \/ Start \/ Poll \/ Again
Hardware == PathNext /\ UNCHANGED pc
Next == FirmwareNext \/ Hardware

Spec == Init /\ [][Next]_vars

\* The processor executes, the clock runs, and the AXI memory answers every
\* request: each engine that can take a step eventually does.
Fairness ==
  /\ WF_vars(FirmwareNext)
  /\ WF_vars(Handshake /\ UNCHANGED pc)
  /\ \A c \in MM2S : WF_vars(RdNext(c) /\ UNCHANGED pc)
  /\ WF_vars(TakeBeat /\ UNCHANGED pc)
  /\ WF_vars(AddBeat /\ UNCHANGED pc)
  /\ WF_vars((WrBeat \/ WrFinish \/ WrDrop) /\ UNCHANGED pc)
  /\ WF_vars((\E e \in Errors : WrResp(e)) /\ UNCHANGED pc)

FairSpec == Spec /\ Fairness

-----------------------------------------------------------------------------
(* Properties.                                                             *)

(***************************************************************************)
(* TypeOK: the types of all registers; in particular no counter of beats   *)
(* runs below zero and the array never owes more than C output beats.      *)
(***************************************************************************)
TypeOK ==
  /\ PathTypeOK
  /\ pc \in Channels \cup {"start", "poll", "ret"}

(***************************************************************************)
(* StartPulse: whenever START is high every channel is ready for its       *)
(* descriptor, so that START falls at the next edge ("stays high for only  *)
(* 1 clock", dma_controller.sv) and no channel takes a descriptor twice or *)
(* without the others.                                                     *)
(***************************************************************************)
StartPulse == start => \A c \in Channels : Ready(c)

(***************************************************************************)
(* DoneMeansQuiet: when S2MM_DONE reads 1 the transfer is over everywhere: *)
(* nothing of the run is left in a reader, a stream, the array or the      *)
(* writer, and the whole output packet is stored.  run() waits for this    *)
(* bit alone before main() overwrites the operands and starts again.       *)
(***************************************************************************)
DoneMeansQuiet == done["y"] => Quiet /\ wlen = C

(***************************************************************************)
(* OnePacketInFlight: no beat of a packet is on its way to the array while *)
(* the results of the packet before are being delivered: the condition     *)
(* under which AxisSA computes the product (InFlight = 1 there).           *)
(***************************************************************************)
OnePacketInFlight == res > 0 => Remaining("k") = 0 /\ Remaining("x") = 0

(***************************************************************************)
(* RunReturns: every call of run() returns.                                *)
(***************************************************************************)
RunReturns == (pc = "poll") ~> (pc = "ret")
=============================================================================
