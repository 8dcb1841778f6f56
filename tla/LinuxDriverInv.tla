--------------------------- MODULE LinuxDriverInv ---------------------------
(***************************************************************************)
(* The inductive invariants of LinuxDriver: one for any number of          *)
(* processes whose calls overlap and time out, and one for a single        *)
(* process whose calls do not time out.                                    *)
(***************************************************************************)
EXTENDS LinuxDriver, RunPathInv

\* The a transfer has no more beats than the packet has results.
FitsArray == \A run_cfg \in Configs : run_cfg["a"] <= C

\* The y transfer has room for all results.
FitsOutput == \A run_cfg \in Configs : run_cfg["y"] >= C

\* BYTES registers a process at p has written.
Written(p) == CASE p \in {"user", "k"} -> {} [] p = "x" -> {"k"} [] p = "a" -> {"k", "x"}
                [] p = "y" -> MM2S [] OTHER -> Channels

(***************************************************************************)
(* IInv: a register that a process has written stays programmed whatever   *)
(* the others write over it, so START never hands out an empty transfer.   *)
(***************************************************************************)
IInv ==
  /\ TypeOK
  /\ PathInv
  /\ bytes["a"] <= C
  /\ \A p \in Procs : \A c \in Written(pc[p]) : bytes[c] > 0
  /\ start => \A c \in Channels : bytes[c] > 0

\* Each result still owed has its place in the write transfer.
Stored ==
  /\ wr # "drop"
  /\ wr = "idle" => wleft = 0
  /\ wr = "write" => /\ wlen + wleft >= C
                     /\ Coming => wlen = 0
                     /\ Going => wlen + res + Len(fifo["y"]) = C
  /\ wr = "finish" => wlen = C
  /\ wr # "idle" => resp = 0
  /\ resp \in {0, 1}

(***************************************************************************)
(* SingleInv: between the calls of its only process, and until START is    *)
(* seen, everything is at rest; S2MM_DONE is set again only when the run   *)
(* has come to rest.                                                       *)
(***************************************************************************)
SingleInv(p) ==
  /\ IInv
  /\ Stored
  /\ "y" \in Written(pc[p]) => bytes["y"] >= C
  /\ pc[p] # "wait" => ~start /\ Quiet
  /\ start => Quiet /\ ~done["y"]
  /\ pc[p] = "wait" /\ ~start => (wr = "idle" => wlen = C)
  /\ pc[p] = "wait" /\ ~start => (done["y"] => wr = "idle" /\ resp = 0)
  /\ pc[p] = "ok" => wlen = C
  /\ unread[p] # {} => status[p]
  /\ pc[p] = "wait" /\ status[p] /\ "y" \notin unread[p] => done["y"]
=============================================================================
