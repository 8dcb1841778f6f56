--------------------------- MODULE DmaController ---------------------------
(***************************************************************************)
(* The register file and the descriptor handshake of                       *)
(* rtl/sys/dma_controller.sv.  The four DMA channels are named by the      *)
(* stream they feed or drain:                                              *)
(*                                                                         *)
(*    "k" = MM2S_0 (weights)       "x" = MM2S_1 (pixels)                   *)
(*    "a" = MM2S_2 (partial sums)  "y" = S2MM (output)                     *)
(*                                                                         *)
(* Of the sixteen registers the model keeps START (bit 0, the only bit the *)
(* hardware looks at), the four DONE registers and the four BYTES          *)
(* registers, these counted in stream beats.  ADDR and TUSER are carried   *)
(* to the DMA unchanged and are left out.                                  *)
(*                                                                         *)
(* All registers are written in one clocked block, whose later assignments *)
(* win: DONE is set, then cleared by a write of START, then START is       *)
(* cleared when all channels are ready, then the software's write is       *)
(* applied.  An event of the hardware and a write of the software that     *)
(* fall in the same clock therefore act as the event first and the write   *)
(* second, and the operators below are separate steps.                     *)
(***************************************************************************)
EXTENDS Integers

MM2S == {"k", "x", "a"}
Channels == MM2S \cup {"y"}

VARIABLES
  start,   \* bit 0 of cfg[A_START]
  done,    \* the DONE registers
  bytes    \* the BYTES registers, in beats

cfgVars == <<start, done, bytes>>

CfgInit ==
  /\ start = FALSE
  /\ done = [c \in Channels |-> FALSE]
  /\ bytes = [c \in Channels |-> 0]

\* Mutant: the readers do not wait for the writer.
mut_Taken(rdy) ==
  IF ~start THEN {} ELSE (MM2S \cap rdy) \cup {c \in {"y"} \cap rdy : "k" \in rdy}

\* Channels whose descriptor handshake completes at the next clock edge when
\* the channels in rdy show descriptor-ready: the readers are offered their
\* descriptor while the writer is ready, the writer while MM2S_0 is.
Taken(rdy) ==
  IF ~start THEN {}
  ELSE {c \in MM2S \cap rdy : "y" \in rdy} \cup
       {c \in {"y"} \cap rdy : "k" \in rdy}

\* Mutant: START stays high as long as the writer is ready.
mut_DropStart(rdy) == start' = (start /\ "y" \in rdy)

\* START falls at the edge at which all four channels are ready.
DropStart(rdy) == start' = (start /\ rdy # Channels)

\* Mutant: a status overwrites the DONE bits of the other channels.
mut_ReportStatus(c, error) == done' = IF error THEN done ELSE [d \in Channels |-> d = c]

\* A transfer reports its status; DONE is set only when there is no error.
ReportStatus(c, error) == done' = IF error THEN done ELSE [done EXCEPT ![c] = TRUE]

\* Mutant: DONE is not cleared.
mut_WriteStart(v) == start' = v /\ UNCHANGED <<done, bytes>>

\* The software writes START: the DONE registers are cleared with it.
WriteStart(v) ==
  /\ start' = v
  /\ done' = IF v THEN [c \in Channels |-> FALSE] ELSE done
  /\ UNCHANGED bytes

\* The software writes a BYTES register.
WriteBytes(c, n) ==
  /\ bytes' = [bytes EXCEPT ![c] = n]
  /\ UNCHANGED <<start, done>>
=============================================================================
