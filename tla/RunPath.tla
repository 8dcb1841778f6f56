------------------------------ MODULE RunPath ------------------------------
(***************************************************************************)
(* The hardware between the START register and the DONE registers:         *)
(* three read DMAs (rtl/ext/alex_axi_dma_rd.sv), the width adapters, the   *)
(* stream joins around the systolic array and the write DMA                *)
(* (rtl/ext/alex_axi_dma_wr.sv), as rtl/sys/top_axi.v wires them.          *)
(*                                                                         *)
(* Streams carry only what the control depends on: the tlast flag of each  *)
(* beat.  A beat is a word of the array's side of the adapter: R*WX bits   *)
(* of x, C*WK of k, R*WA of a, R*WY of y.  The array itself is reduced to  *)
(* what AxisSA shows of it for packets that do not overlap: it takes k and *)
(* x beats together and, after the last one, yields C output beats.        *)
(***************************************************************************)
EXTENDS DmaController, Sequences

CONSTANTS
  C,        \* columns of the array: output beats of a packet
  Cap,      \* beats a stream's registers, FIFO and adapter hold together
  Sticky,   \* does the k and x adapter's tlast output keep its value after
            \* the last beat is taken?  TRUE where the adapter is a bypass or
            \* an upsizer, FALSE where it ends in a downsizer
  Errors,   \* the values an AXI response's error may take
  MaxActive \* write bursts that may wait for their response (32 in the code)

ASSUME PathAssumption ==
  /\ C \in Nat \ {0} /\ Cap \in Nat \ {0}
  /\ Sticky \in BOOLEAN /\ Errors \subseteq BOOLEAN
  /\ MaxActive \in Nat \ {0}

VARIABLES
  axi,     \* read channels whose AXI side is still issuing bursts
  cmd,     \* beats of the command its AXIS side has not taken yet (0: none)
  left,    \* beats its AXIS side still has to deliver (0: idle)
  fifo,    \* beats under way in a stream, oldest first: their tlast flags
  held,    \* tlast wire of k and x while no beat is valid
  res,     \* output beats the array still has to deliver
  wr,      \* state of the write DMA
  wleft,   \* beats of the write transfer still to be stored
  wlen,    \* beats the write transfer has stored
  resp     \* write transfers whose response is outstanding

pathVars == <<axi, cmd, left, fifo, held, res, wr, wleft, wlen, resp>>

PathInit ==
  /\ axi = {}
  /\ cmd = [c \in MM2S |-> 0] /\ left = [c \in MM2S |-> 0]
  /\ fifo = [c \in Channels |-> <<>>]
  /\ held = [c \in {"k", "x"} |-> FALSE]
  /\ res = 0
  /\ wr = "idle" /\ wleft = 0 /\ wlen = 0 /\ resp = 0

\* Mutant: the writer takes a descriptor while it is writing.
mut_Ready(c) == IF c = "y" THEN resp < MaxActive ELSE c \notin axi /\ cmd[c] = 0

\* desc_ready of each channel.  A reader is ready again as soon as its bursts
\* are issued and its command is taken, long before its data has passed; the
\* writer is ready again after its last beat, before the response arrives,
\* unless too many responses are outstanding.
Ready(c) == IF c = "y" THEN wr = "idle" /\ resp < MaxActive
                       ELSE c \notin axi /\ cmd[c] = 0
ReadyChannels == {c \in Channels : Ready(c)}

Room(c) == Len(fifo[c]) < Cap
Pop(f, c) == [f EXCEPT ![c] = Tail(@)]
Push(f, c, last) == [f EXCEPT ![c] = Append(@, last)]

-----------------------------------------------------------------------------
(* Descriptor handshake.                                                   *)

Handshake ==
  LET taken == Taken(ReadyChannels)
  IN  /\ taken # {}
      /\ DropStart(ReadyChannels)
      /\ axi' = axi \cup (taken \cap MM2S)
      /\ cmd' = [c \in MM2S |-> IF c \in taken THEN bytes[c] ELSE cmd[c]]
      /\ IF "y" \in taken
         THEN wr' = "write" /\ wleft' = bytes["y"] /\ wlen' = 0
         ELSE UNCHANGED <<wr, wleft, wlen>>
      /\ UNCHANGED <<done, bytes, left, fifo, held, res, resp>>

-----------------------------------------------------------------------------
(* Read DMA.                                                               *)

\* The last AR burst of the command is issued.
RdIssued(c) ==
  /\ c \in axi
  /\ axi' = axi \ {c}
  /\ UNCHANGED <<cfgVars, cmd, left, fifo, held, res, wr, wleft, wlen, resp>>

\* The AXIS side takes the command.
RdTake(c) ==
  /\ left[c] = 0 /\ cmd[c] > 0
  /\ left' = [left EXCEPT ![c] = cmd[c]]
  /\ cmd'  = [cmd EXCEPT ![c] = 0]
  /\ UNCHANGED <<cfgVars, axi, fifo, held, res, wr, wleft, wlen, resp>>

\* Mutant: tlast comes one beat early.
mut_RdBeat(c, error) ==
  /\ left[c] > 0 /\ Room(c)
  /\ left[c] = 1 => c \notin axi
  /\ left' = [left EXCEPT ![c] = @ - 1]
  /\ fifo' = Push(fifo, c, left[c] = 2)
  /\ IF left[c] = 1 THEN ReportStatus(c, error) ELSE UNCHANGED done
  /\ UNCHANGED <<start, bytes, axi, cmd, held, res, wr, wleft, wlen, resp>>

\* A beat enters the output FIFO; the last one carries tlast and the status.
\* Its data cannot come back before its burst is issued.
RdBeat(c, error) ==
  /\ left[c] > 0 /\ Room(c)
  /\ left[c] = 1 => c \notin axi
  /\ left' = [left EXCEPT ![c] = @ - 1]
  /\ fifo' = Push(fifo, c, left[c] = 1)
  /\ IF left[c] = 1 THEN ReportStatus(c, error) ELSE UNCHANGED done
  /\ UNCHANGED <<start, bytes, axi, cmd, held, res, wr, wleft, wlen, resp>>

-----------------------------------------------------------------------------
(* Joins and array.                                                        *)

\* Mutant: tlast is low while no beat is valid.
mut_TLast(c) == fifo[c] # <<>> /\ Head(fifo[c])

\* The tlast wire of k or x, whether or not a beat is valid.
TLast(c) == IF fifo[c] # <<>> THEN Head(fifo[c]) ELSE held[c]
s_last == TLast("k") /\ TLast("x")

\* The array takes a k beat and an x beat together.  When a packet ends while
\* the previous one is still being delivered, results are lost (see AxisSA).
TakeBeat ==
  /\ fifo["k"] # <<>> /\ fifo["x"] # <<>>
  /\ fifo' = Pop(Pop(fifo, "k"), "x")
  /\ held' = [c \in {"k", "x"} |-> Sticky /\ Head(fifo[c])]
  /\ IF s_last THEN res' \in (IF res = 0 THEN {C} ELSE 0 .. C) ELSE res' = res
  /\ UNCHANGED <<cfgVars, axi, cmd, left, wr, wleft, wlen, resp>>

\* Mutant: an output beat is made when the array has none.
mut_AddBeat ==
  /\ fifo["a"] # <<>> /\ Room("y")
  /\ fifo' = Push(Pop(fifo, "a"), "y", s_last /\ res = 1)
  /\ res' = res - 1
  /\ UNCHANGED <<cfgVars, axi, cmd, left, held, wr, wleft, wlen, resp>>

\* An output beat of the array is joined with an a beat and handed to the y
\* stream.  Its tlast looks at the tlast wires of k and x in this very cycle.
AddBeat ==
  /\ res > 0 /\ fifo["a"] # <<>> /\ Room("y")
  /\ fifo' = Push(Pop(fifo, "a"), "y", s_last /\ res = 1)
  /\ res' = res - 1
  /\ UNCHANGED <<cfgVars, axi, cmd, left, held, wr, wleft, wlen, resp>>

-----------------------------------------------------------------------------
(* Write DMA.  The transfer ends with tlast or when its length is reached: *)
(* in the first case the burst is filled up with empty words, in the       *)
(* second the rest of the stream's packet is dropped.  The response can    *)
(* arrive once the burst is complete.                                      *)

WrBeat ==
  /\ wr = "write" /\ fifo["y"] # <<>>
  /\ fifo' = Pop(fifo, "y")
  /\ wleft' = wleft - 1 /\ wlen' = wlen + 1
  /\ wr' = IF Head(fifo["y"]) THEN IF wleft = 1 THEN "idle" ELSE "finish"
                             ELSE IF wleft = 1 THEN "drop" ELSE "write"
  /\ resp' = IF wr' \in {"idle", "drop"} THEN resp + 1 ELSE resp
  /\ UNCHANGED <<cfgVars, axi, cmd, left, held, res>>

WrFinish ==
  /\ wr = "finish"
  /\ wr' = "idle" /\ wleft' = 0 /\ resp' = resp + 1
  /\ UNCHANGED <<cfgVars, axi, cmd, left, fifo, held, res, wlen>>

\* Mutant: the end of the dropped packet is missed.
mut_WrDrop ==
  /\ wr = "drop" /\ fifo["y"] # <<>>
  /\ fifo' = Pop(fifo, "y")
  /\ UNCHANGED <<cfgVars, axi, cmd, left, held, res, wr, wleft, wlen, resp>>

WrDrop ==
  /\ wr = "drop" /\ fifo["y"] # <<>>
  /\ fifo' = Pop(fifo, "y")
  /\ wr' = IF Head(fifo["y"]) THEN "idle" ELSE "drop"
  /\ UNCHANGED <<cfgVars, axi, cmd, left, held, res, wleft, wlen, resp>>

\* The response of the transfer's last burst arrives.
WrResp(error) ==
  /\ resp > 0
  /\ resp' = resp - 1
  /\ ReportStatus("y", error)
  /\ UNCHANGED <<start, bytes, axi, cmd, left, fifo, held, res, wr, wleft, wlen>>

-----------------------------------------------------------------------------
RdNext(c) == RdIssued(c) \/ RdTake(c) \/ \E e \in Errors : RdBeat(c, e)
ArrayNext == TakeBeat \/ AddBeat
WrNext    == WrBeat \/ WrFinish \/ WrDrop \/ \E e \in Errors : WrResp(e)
PathNext  == Handshake \/ (\E c \in MM2S : RdNext(c)) \/ ArrayNext \/ WrNext

\* Nothing of a run is left anywhere between the registers and memory.
Remaining(c) == cmd[c] + left[c] + Len(fifo[c])
Quiet ==
  /\ axi = {} /\ res = 0 /\ fifo["y"] = <<>>
  /\ \A c \in MM2S : Remaining(c) = 0
  /\ wr = "idle" /\ wleft = 0 /\ resp = 0

PathTypeOK ==
  /\ start \in BOOLEAN /\ done \in [Channels -> BOOLEAN]
  /\ bytes \in [Channels -> Nat]
  /\ axi \subseteq MM2S
  /\ cmd \in [MM2S -> Nat] /\ left \in [MM2S -> Nat]
  /\ fifo \in [Channels -> Seq(BOOLEAN)] /\ held \in [{"k", "x"} -> BOOLEAN]
  /\ res \in 0 .. C
  /\ wr \in {"idle", "write", "finish", "drop"}
  /\ wleft \in Nat /\ wlen \in Nat /\ resp \in Nat
=============================================================================
