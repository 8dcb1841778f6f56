------------------------------- MODULE AxisSA -------------------------------
(***************************************************************************)
(* The output-stationary systolic array rtl/sa/axis_sa.sv with its         *)
(* processing elements (pe.sv, mac.sv), skew buffers (tri_buffer.sv) and   *)
(* control delay lines (n_delay.sv), clock by clock.  One step of the      *)
(* model is one rising clock edge.                                         *)
(*                                                                         *)
(* Every register the SystemVerilog declares is a variable (or part of     *)
(* one); every wire is an operator.  Only the data is abstract: an input   *)
(* word is named by the packet, the beat and the lane it came on, a        *)
(* product is the pair of its factors, and a sum is the sequence of the    *)
(* products added to it since it was last reset.  Two sums are equal       *)
(* exactly when the same products were added, so a missing, repeated,      *)
(* misaligned or foreign product shows.                                    *)
(*                                                                         *)
(* The two AXI-Stream neighbours are the most general ones the protocol    *)
(* allows (formal/axis_fvip.svh): a source that holds a beat until it is   *)
(* taken, a sink whose ready is arbitrary.  A mode restricts the two: the  *)
(* lengths of the packets, how far the source runs ahead of the sink, the  *)
(* values the sink's ready takes.                                          *)
(***************************************************************************)
EXTENDS Integers, Sequences

CONSTANTS
  R, C,      \* rows and columns of the array
  LM, LA,    \* latency of the multiplier and of the accumulator
  MaxPkts,   \* number of packets the source sends (a bound of the model)
  Modes      \* the modes of the two neighbours: kmin and kmax, the shortest and
             \* longest packet, in beats; inFlight, the packets accepted and not
             \* yet drained, at most; readies, the values m_ready takes

ASSUME SizeAssumption ==
  /\ R \in Nat \ {0} /\ C \in Nat \ {0}
  /\ LM \in Nat \ {0} /\ LA \in Nat \ {0}

ASSUME SourceAssumption ==
  /\ MaxPkts \in Nat
  /\ \A m \in Modes :
       /\ m.kmin \in Nat \ {0} /\ m.kmax \in Nat /\ m.kmin <= m.kmax
       /\ m.inFlight \in Nat \ {0} /\ m.readies \subseteq BOOLEAN

D     == R + C - 1         \* length of the diagonal
Rows  == 0 .. R-1
Cols  == 0 .. C-1
Diags == 0 .. D-1
PEs   == Rows \X Cols
Stages == 1 .. LM+LA+D-1   \* registered taps of the valid and vlast lines

VARIABLES
  mode,                       \* the mode, chosen for good
  valid, vlast,               \* n_delay lines of s_valid and s_valid && s_last
  m_first, a_valid,           \* one bit per diagonal
  r_valid, r_last,            \* one bit per diagonal (r_last[0] is a wire)
  tri_x, tri_k,               \* skew buffers: lane n holds n words
  xo, ko,                     \* operands passed right and down
  mul, acc,                   \* multiplier and accumulator pipelines
  ro,                         \* output shift register of each row
  s, cur, klen,               \* the source: beat offered, beats of this packet
                              \* accepted, lengths of the packets accepted
  m_pkt, m_beat               \* the sink: packets received, beats of this one

ctlVars  == <<valid, vlast, m_first, a_valid, r_valid, r_last>>
dataVars == <<tri_x, tri_k, xo, ko, mul, acc, ro>>
envVars  == <<mode, s, cur, klen, m_pkt, m_beat>>
vars == <<ctlVars, dataVars, envVars>>

-----------------------------------------------------------------------------
(* Words, products and sums.                                               *)

Word(lane) == [pkt |-> Len(klen) + 1, beat |-> cur + 1, lane |-> lane]
Idle       == [pkt |-> 0, beat |-> 0, lane |-> 0]   \* reset value / not valid
NoProduct  == <<Idle, Idle>>
Zero       == <<>>

sx_data(r) == IF s = "none" THEN Idle ELSE Word(r)
sk_data(c) == IF s = "none" THEN Idle ELSE Word(c)

\* Mutant: the columns of K are not reversed.
mut_sk_reversed(c) == sk_data(c)
\* Mutant: the reversal is off by one.
mut_sk_offset(c) == sk_data(C-c)

sk_reversed(c) == sk_data(C-1-c)

-----------------------------------------------------------------------------
(* Wires.  ready stands for m_ready in the current cycle.                  *)

Diag(pe) == pe[1] + pe[2]

m_valid == r_valid[D-1]
RLast(d) == IF d = 0 THEN r_valid[0] ELSE r_last[d]
m_last  == RLast(C-1)
m_data(r) == ro[<<r, C-1>>]

\* Mutant: the output registers shift whether or not the sink is ready.
mut_en_shift(ready) == m_valid

en_shift(ready) == m_valid /\ ready

conflict(d)         == a_valid[d] /\ r_valid[d]
can_copy(d)         == a_valid[d] /\ ~r_valid[d]
m_stall(d, ready)   == d >= C-1 /\ m_valid /\ ~ready
reg_stall(d, ready) == can_copy(d) /\ m_stall(d, ready)
r_copy(d, ready)    == can_copy(d) /\ ~m_stall(d, ready)
r_clear(d, ready)   == en_shift(ready) /\ RLast(d)

en_mac(ready) == \A d \in Diags : ~conflict(d) /\ ~reg_stall(d, ready)
s_ready(ready) == en_mac(ready)

-----------------------------------------------------------------------------
(* Registers.                                                              *)

Shift(line, in) == [n \in DOMAIN line |-> IF n = 1 THEN in ELSE line[n-1]]

DelayLines(ready) ==
  IF en_mac(ready)
  THEN /\ valid' = Shift(valid, s # "none")
       /\ vlast' = Shift(vlast, s = "last")
  ELSE UNCHANGED <<valid, vlast>>

\* m_first is updated whenever the line is valid, whether or not the
\* multiply-accumulate units are enabled in this cycle.
FirstFlags ==
  m_first' = [d \in Diags |-> IF valid[LM+d] THEN vlast[LM+d] ELSE m_first[d]]

AccValid(ready) ==
  a_valid' = [d \in Diags |-> IF en_mac(ready) THEN vlast[LM+LA+d-1]
                                               ELSE a_valid[d]]

\* Mutant: the last flag moves on although no output beat is shifted.
mut_LastFlags(ready) ==
  r_last' = [d \in 1 .. D-1 |->
               IF d >= C-1 /\ en_shift(ready) /\ m_last THEN FALSE ELSE RLast(d-1)]

LastFlags(ready) ==
  r_last' = [d \in 1 .. D-1 |->
               IF ~en_shift(ready) THEN r_last[d]
               ELSE IF d >= C-1 /\ m_last THEN FALSE ELSE RLast(d-1)]

\* Mutant: a register is not freed when its last column leaves.
mut_RegValid(ready) ==
  r_valid' = [d \in Diags |->
                IF d >= C-1 /\ en_shift(ready) /\ m_last
                THEN FALSE ELSE r_valid[d] \/ r_copy(d, ready)]

RegValid(ready) ==
  r_valid' = [d \in Diags |->
                CASE d >= C-1 /\ en_shift(ready) /\ m_last -> FALSE
                  [] ~(d >= C-1 /\ en_shift(ready) /\ m_last)
                       /\ r_copy(d, ready) -> TRUE
                  [] OTHER -> r_valid[d] /\ ~r_clear(d, ready)]

TriBuffer(ready) ==
  IF en_mac(ready)
  THEN /\ tri_x' = [r \in Rows |-> Shift(tri_x[r], sx_data(r))]
       /\ tri_k' = [c \in Cols |-> Shift(tri_k[c], sk_reversed(c))]
  ELSE UNCHANGED <<tri_x, tri_k>>

xi(pe) == CASE pe[2] > 0 -> xo[<<pe[1], pe[2]-1>>]
            [] pe = <<0, 0>> -> sx_data(0)
            [] OTHER -> tri_x[pe[1]][pe[1]]
ki(pe) == CASE pe[1] > 0 -> ko[<<pe[1]-1, pe[2]>>]
            [] pe = <<0, 0>> -> sk_reversed(0)
            [] OTHER -> tri_k[pe[2]][pe[2]]
ri(pe) == IF pe[2] = 0 THEN Zero ELSE ro[<<pe[1], pe[2]-1>>]

Accumulate(pe) ==
  IF valid[LM + Diag(pe)]
  THEN Append(IF m_first[Diag(pe)] THEN Zero ELSE acc[pe][1], mul[pe][LM])
  ELSE acc[pe][1]

Mac(ready) ==
  IF en_mac(ready)
  THEN /\ xo'  = [pe \in PEs |-> xi(pe)]
       /\ ko'  = [pe \in PEs |-> ki(pe)]
       /\ mul' = [pe \in PEs |-> Shift(mul[pe], <<xi(pe), ki(pe)>>)]
       /\ acc' = [pe \in PEs |-> Shift(acc[pe], Accumulate(pe))]
  ELSE UNCHANGED <<xo, ko, mul, acc>>

OutRegs(ready) ==
  ro' = [pe \in PEs |-> CASE r_copy(Diag(pe), ready) -> acc[pe][LA]
                          [] ~r_copy(Diag(pe), ready) /\ en_shift(ready) -> ri(pe)
                          [] OTHER -> ro[pe]]

-----------------------------------------------------------------------------
(* The stream neighbours.  Offers is what the source may drive next, when  *)
(* nothing is pending: no beat, a middle beat or the last beat of a packet.*)

Offers(packets, beats, drained) ==
  {"none"} \cup
  (IF packets < MaxPkts /\ (beats > 0 \/ packets - drained < mode.inFlight)
   THEN (IF beats + 1 < mode.kmax THEN {"mid"} ELSE {})
          \cup (IF beats + 1 >= mode.kmin THEN {"last"} ELSE {})
   ELSE {})

Source(ready) ==
  /\ IF s # "none" /\ s_ready(ready)
     THEN IF s = "last" THEN cur' = 0 /\ klen' = Append(klen, cur + 1)
                        ELSE cur' = cur + 1 /\ UNCHANGED klen
     ELSE UNCHANGED <<cur, klen>>
  /\ IF s # "none" /\ ~s_ready(ready)
     THEN UNCHANGED s
     ELSE s' \in Offers(Len(klen'), cur', m_pkt)

\* The sink counts packets up to MaxPkts and beats up to C, one more than a
\* packet should have.
Sink(ready) ==
  IF m_valid /\ ready
  THEN IF m_last
       THEN m_beat' = 0 /\ m_pkt' = IF m_pkt < MaxPkts THEN m_pkt + 1 ELSE m_pkt
       ELSE m_beat' = (IF m_beat < C THEN m_beat + 1 ELSE C) /\ UNCHANGED m_pkt
  ELSE UNCHANGED <<m_pkt, m_beat>>

-----------------------------------------------------------------------------
Init ==
  /\ mode \in Modes
  /\ valid = [n \in Stages |-> FALSE] /\ vlast = [n \in Stages |-> FALSE]
  /\ m_first = [d \in Diags |-> TRUE]
  /\ a_valid = [d \in Diags |-> FALSE]
  /\ r_valid = [d \in Diags |-> FALSE]
  /\ r_last = [d \in 1 .. D-1 |-> FALSE]
  /\ tri_x = [r \in Rows |-> [n \in 1 .. r |-> Idle]]
  /\ tri_k = [c \in Cols |-> [n \in 1 .. c |-> Idle]]
  /\ xo = [pe \in PEs |-> Idle] /\ ko = [pe \in PEs |-> Idle]
  /\ mul = [pe \in PEs |-> [n \in 1 .. LM |-> NoProduct]]
  /\ acc = [pe \in PEs |-> [n \in 1 .. LA |-> Zero]]
  /\ ro = [pe \in PEs |-> Zero]
  /\ s = "none" /\ cur = 0 /\ klen = <<>>
  /\ m_pkt = 0 /\ m_beat = 0

\* One rising edge of clk.
Clock(ready) ==
  /\ DelayLines(ready) /\ FirstFlags /\ AccValid(ready)
  /\ LastFlags(ready) /\ RegValid(ready)
  /\ TriBuffer(ready) /\ Mac(ready) /\ OutRegs(ready)
  /\ Source(ready) /\ Sink(ready) /\ UNCHANGED mode

Next == \E ready \in mode.readies : Clock(ready)

\* The clock runs, and the sink does not refuse a pending beat for ever
\* (AXI_MAX_STALL_ENV of formal/tb_axis_sa.sv).
Fairness == WF_vars(Next) /\ WF_vars(m_valid /\ Clock(TRUE))

Spec == Init /\ [][Next]_vars
FairSpec == Spec /\ Fairness

-----------------------------------------------------------------------------
(* Properties.                                                             *)

Words(lanes) == [pkt : 0 .. MaxPkts, beat : 0 .. mode.kmax, lane : lanes]

TypeOK ==
  /\ mode \in Modes
  /\ valid \in [Stages -> BOOLEAN] /\ vlast \in [Stages -> BOOLEAN]
  /\ m_first \in [Diags -> BOOLEAN] /\ a_valid \in [Diags -> BOOLEAN]
  /\ r_valid \in [Diags -> BOOLEAN] /\ r_last \in [1 .. D-1 -> BOOLEAN]
  /\ xo \in [PEs -> Words(Rows)] /\ ko \in [PEs -> Words(Cols)]
  /\ s \in {"none", "mid", "last"} /\ cur \in 0 .. mode.kmax-1
  /\ klen \in Seq(1 .. mode.kmax) /\ Len(klen) <= MaxPkts
  /\ m_pkt \in 0 .. MaxPkts /\ m_beat \in 0 .. C

\* The word of beat i of packet p on a lane, and what column c of row r must
\* have accumulated over that packet: one product per beat, in order.
WordOf(p, i, lane) == [pkt |-> p, beat |-> i, lane |-> lane]
DotProduct(p, r, c) ==
  [i \in 1 .. klen[p] |-> <<WordOf(p, i, r), WordOf(p, i, c)>>]

(***************************************************************************)
(* MatMul: every output beat is the matrix product.  Beat c of the n-th    *)
(* output packet carries, on row r, the dot product of row r of X and      *)
(* column c of K over the n-th input packet: a_matmul of                   *)
(* formal/tb_axis_sa.sv and the comparison in tb/axis_sa_tb.sv.            *)
(***************************************************************************)
MatMul ==
  m_valid => /\ m_pkt < Len(klen)
             /\ \A r \in Rows : m_data(r) = DotProduct(m_pkt+1, r, m_beat)

(***************************************************************************)
(* LastBeat: m_last comes with the C-th beat of an output packet and with  *)
(* no other (s_m_beats of formal/tb_axis_sa.sv).                           *)
(***************************************************************************)
LastBeat == m_valid => (m_last <=> m_beat = C-1)

(***************************************************************************)
(* StallStable: while the sink refuses a beat, the beat stays: valid, last *)
(* and every row of the data (a_valid_stall_stable and                     *)
(* a_payload_stall_stable of formal/axis_fvip.svh on the output port).     *)
(***************************************************************************)
StallStable ==
  [][ m_valid /\ m_beat < C /\ m_pkt < MaxPkts /\ UNCHANGED <<m_pkt, m_beat>>
        => m_valid' /\ m_last' = m_last /\ \A r \in Rows : m_data(r)' = m_data(r)
    ]_vars

(***************************************************************************)
(* Drains: every packet accepted in full is delivered in full.             *)
(***************************************************************************)
Drains == \A p \in 1 .. MaxPkts : (Len(klen) >= p) ~> (m_pkt >= p)

(***************************************************************************)
(* Accepts: a beat the source offers is eventually taken: the array never  *)
(* keeps s_ready low for good (a_max_ready_after_valid of                  *)
(* formal/axis_fvip.svh on the input port).                                *)
(***************************************************************************)
Beats == UNION {0 .. m.kmax-1 : m \in Modes}
Accepts == \A b \in Beats : \A p \in 0 .. MaxPkts-1 :
  (s # "none" /\ cur = b /\ Len(klen) = p)
    ~> ~(s # "none" /\ cur = b /\ Len(klen) = p)
=============================================================================
