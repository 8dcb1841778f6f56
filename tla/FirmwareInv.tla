---------------------------- MODULE FirmwareInv ----------------------------
(***************************************************************************)
(* The inductive invariant of Firmware: what a run looks like at every     *)
(* moment between the write of START and the last response.  It holds when *)
(* the tlast wires of k and x keep their value (Sticky).                   *)
(***************************************************************************)
EXTENDS Firmware, RunPathInv

\* BYTES registers run() has written by the time it is at p.
Written(p) == CASE p = "k" -> {} [] p = "x" -> {"k"} [] p = "a" -> {"k", "x"}
                [] p = "y" -> MM2S [] OTHER -> Channels

Programmed == \A c \in Written(pc) : bytes[c] = Length(c)

\* Outside the polling loop, and until START is seen, nothing moves.
AtRest ==
  /\ pc # "poll" => ~start /\ Quiet
  /\ start => Quiet /\ ~done["y"]

\* Operand beats still on their way: no result yet.
Loading ==
  /\ res = 0 /\ fifo["y"] = <<>>
  /\ Remaining("a") = C /\ wleft = C

\* All operand beats taken: one a beat and one place of the transfer for
\* each result that is left.
Draining ==
  /\ held["k"] /\ held["x"]
  /\ Remaining("a") = res
  /\ wleft = res + Len(fifo["y"])

Running ==
  /\ Remaining("k") = Remaining("x")
  /\ IF Remaining("k") > 0 THEN Loading ELSE Draining
  /\ wlen = C - wleft
  /\ wr = IF wleft > 0 THEN "write" ELSE "idle"
  /\ resp \in {0, 1}
  /\ wleft > 0 => resp = 0
  /\ done["y"] => wleft = 0 /\ resp = 0

(***************************************************************************)
(* IInv: at every moment the operand streams are in step, each result      *)
(* still owed has its a beat and its place in the write transfer, and      *)
(* tlast marks the last beat of each stream.                               *)
(***************************************************************************)
IInv ==
  /\ TypeOK
  /\ Programmed
  /\ \A c \in MM2S : ReadStream(c)
  /\ WriteStream
  /\ AtRest
  /\ pc = "poll" /\ ~start => Running
  /\ done["y"] => wlen = C
=============================================================================
