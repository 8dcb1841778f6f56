----------------------------- MODULE RunPathInv -----------------------------
(***************************************************************************)
(* What the data path of RunPath looks like at every moment of a packet,   *)
(* whoever writes the registers and whenever: the parts of an inductive    *)
(* invariant that Firmware and LinuxDriver share.  They hold when the      *)
(* tlast wires of k and x keep their value (Sticky).                       *)
(***************************************************************************)
EXTENDS RunPath

\* Only the last beat of a packet carries tlast, and it is the last to come.
ReadStream(c) ==
  /\ cmd[c] > 0 => left[c] = 0 /\ fifo[c] = <<>>
  /\ c \in axi => cmd[c] + left[c] > 0
  /\ \A i \in 1 .. Len(fifo[c]) :
       fifo[c][i] <=> (i = Len(fifo[c]) /\ cmd[c] = 0 /\ left[c] = 0)

WriteStream ==
  \A i \in 1 .. Len(fifo["y"]) : fifo["y"][i] <=> (i = Len(fifo["y"]) /\ res = 0)

\* What START hands to the channels: no empty transfer, and no more beats of
\* a than there are results to add them to.
GoodDescriptors == (\A c \in Channels : bytes[c] > 0) /\ bytes["a"] <= C

\* Nothing of a packet is left in front of the write DMA.
Passed ==
  /\ axi = {} /\ res = 0 /\ fifo["y"] = <<>>
  /\ \A c \in MM2S : Remaining(c) = 0

\* The last operand pair is still to come: no result yet.
Coming == res = 0 /\ fifo["y"] = <<>> /\ Remaining("a") <= C

\* All operands are taken, the beat with tlast is not stored yet.
Going ==
  /\ held["k"] /\ held["x"]
  /\ Remaining("k") = 0 /\ Remaining("x") = 0
  /\ Remaining("a") <= res
  /\ res + Len(fifo["y"]) > 0

(***************************************************************************)
(* PathInv: the write DMA is idle, or has only its burst to fill up, when  *)
(* all of the packet has passed; while it stores or drops beats, either no *)
(* result has been made or no operand is left.                             *)
(***************************************************************************)
PathInv ==
  /\ PathTypeOK
  /\ \A c \in MM2S : ReadStream(c)
  /\ WriteStream
  /\ wr \in {"idle", "finish"} => Passed
  /\ wr \in {"write", "drop"} => Coming \/ Going
  /\ wr = "write" => wleft > 0
=============================================================================
