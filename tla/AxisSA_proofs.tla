---------------------------- MODULE AxisSA_proofs ----------------------------
(***************************************************************************)
(* What axis_sa.sv does for any numbers of rows and columns and any        *)
(* latencies.  Next to any neighbours it keeps its types and, on its       *)
(* output port, the stability that AXI-Stream demands.  Next to neighbours *)
(* that do not hurry it (Unhurried) it never stalls, and what it sends is  *)
(* the matrix product: the invariant for this says what each register      *)
(* holds in terms of when beats and packets were accepted.                 *)
(***************************************************************************)
EXTENDS AxisSA, TLAPS

(***************************************************************************)
(* SourceInv: the beat that the source offers still fits its packet, and   *)
(* its packet the number of packets.                                       *)
(***************************************************************************)
SourceInv ==
  /\ s = "mid" => cur + 1 < mode.kmax
  /\ s # "none" => Len(klen) < MaxPkts

\* The skew buffers hold words of their lanes.
BufferTypes ==
  /\ tri_x = [r \in Rows |-> tri_x[r]] /\ tri_k = [c \in Cols |-> tri_k[c]]
  /\ \A r \in Rows : tri_x[r] \in [1 .. r -> Words(Rows)]
  /\ \A c \in Cols : tri_k[c] \in [1 .. c -> Words(Cols)]

ArrayInv == TypeOK /\ SourceInv /\ BufferTypes
-----------------------------------------------------------------------------
\* The first row, the first column and the ends of the diagonal.
LEMMA Sizes ==
  /\ R \in Nat \ {0} /\ C \in Nat \ {0} /\ LM \in Nat \ {0} /\ LA \in Nat \ {0}
  /\ D \in Nat \ {0} /\ D - 1 \in Diags /\ C - 1 \in Diags /\ D - 1 >= C - 1
  /\ 0 \in Rows /\ 0 \in Cols /\ C - 1 \in Cols /\ 0 \in Diags
BY SizeAssumption DEF D, Diags, Rows, Cols

\* A processing element lies on a diagonal.
LEMMA OnDiagonal == ASSUME NEW pe \in PEs PROVE Diag(pe) \in Diags
BY SizeAssumption DEF PEs, Rows, Cols, Diag, Diags, D

\* The taps of the control lines that a diagonal looks at.
LEMMA Taps ==
  ASSUME NEW d \in Diags
  PROVE  LM + d \in Stages /\ LM + LA + d - 1 \in Stages
BY SizeAssumption DEF Diags, Stages, D

\* The bounds of a mode of the neighbours.
LEMMA ModeBounds ==
  ASSUME mode \in Modes
  PROVE  mode.kmin \in Nat \ {0} /\ mode.kmax \in Nat \ {0} /\ mode.readies \subseteq BOOLEAN
BY SourceAssumption

\* What an idle lane holds is a word of any lane set.
LEMMA IdleWord ==
  ASSUME mode \in Modes
  PROVE  Idle \in Words(Rows) /\ Idle \in Words(Cols)
BY Sizes, ModeBounds, SourceAssumption DEF Idle, Words

\* A beat that is offered is made of words of its packet.
LEMMA OfferedWord ==
  ASSUME TypeOK, SourceInv
  PROVE  /\ \A r \in Rows : sx_data(r) \in Words(Rows)
         /\ \A c \in Cols : sk_reversed(c) \in Words(Cols)
<1>1. mode \in Modes
  BY DEF TypeOK
<1>2. CASE s = "none"
  BY <1>1, <1>2, IdleWord DEF sx_data, sk_data, sk_reversed
<1>3. CASE s # "none"
  <2>. DEFINE n == Len(klen)
  <2>1. n \in Nat /\ n < MaxPkts /\ cur \in 0 .. mode.kmax - 1
    BY <1>3 DEF TypeOK, SourceInv
  <2>2. n + 1 \in 0 .. MaxPkts
    BY <2>1, SourceAssumption
  <2>3. cur + 1 \in 0 .. mode.kmax
    BY <1>1, <2>1, ModeBounds
  <2>4. \A c \in Cols : C - 1 - c \in Cols
    BY SizeAssumption DEF Cols
  <2>5. \A lane \in Rows : Word(lane) \in Words(Rows)
    BY <2>2, <2>3 DEF Word, Words
  <2>6. \A lane \in Cols : Word(lane) \in Words(Cols)
    BY <2>2, <2>3 DEF Word, Words
  <2>. QED
    BY <1>3, <2>4, <2>5, <2>6 DEF sx_data, sk_data, sk_reversed
<1>. QED
  BY <1>2, <1>3

\* A shift register holds what was in it and what comes in.
LEMMA Shifts ==
  ASSUME NEW T, NEW n \in Nat, NEW line \in [1 .. n -> T], NEW in \in T
  PROVE  Shift(line, in) \in [1 .. n -> T]
BY DEF Shift

\* After reset everything is idle.
LEMMA ArrayInit == Init => ArrayInv
<1>. SUFFICES ASSUME Init PROVE ArrayInv
  OBVIOUS
<1>1. mode \in Modes
  BY DEF Init
<1>2. TypeOK
  <2>1. /\ xo \in [PEs -> Words(Rows)] /\ ko \in [PEs -> Words(Cols)]
    BY <1>1, IdleWord DEF Init
  <2>2. klen \in Seq(1 .. mode.kmax) /\ Len(klen) <= MaxPkts
    BY SourceAssumption DEF Init
  <2>3. cur \in 0 .. mode.kmax - 1
    BY <1>1, ModeBounds DEF Init
  <2>4. m_pkt \in 0 .. MaxPkts /\ m_beat \in 0 .. C
    BY SourceAssumption, SizeAssumption DEF Init
  <2>5. /\ valid \in [Stages -> BOOLEAN] /\ vlast \in [Stages -> BOOLEAN]
        /\ m_first \in [Diags -> BOOLEAN] /\ a_valid \in [Diags -> BOOLEAN]
        /\ r_valid \in [Diags -> BOOLEAN] /\ r_last \in [1 .. D-1 -> BOOLEAN]
    BY DEF Init
  <2>6. s \in {"none", "mid", "last"}
    BY DEF Init
  <2>. QED
    BY <1>1, <2>1, <2>2, <2>3, <2>4, <2>5, <2>6 DEF TypeOK
<1>3. SourceInv
  BY DEF Init, SourceInv
<1>4. BufferTypes
  BY <1>1, IdleWord DEF Init, BufferTypes
<1>. QED
  BY <1>2, <1>3, <1>4 DEF ArrayInv

\* The delay lines and the flags of the diagonals stay bits.
LEMMA ControlTypes ==
  ASSUME TypeOK, NEW ready \in BOOLEAN, Clock(ready)
  PROVE  /\ valid' \in [Stages -> BOOLEAN] /\ vlast' \in [Stages -> BOOLEAN]
         /\ m_first' \in [Diags -> BOOLEAN] /\ a_valid' \in [Diags -> BOOLEAN]
         /\ r_valid' \in [Diags -> BOOLEAN] /\ r_last' \in [1 .. D-1 -> BOOLEAN]
<1>1. valid' \in [Stages -> BOOLEAN] /\ vlast' \in [Stages -> BOOLEAN]
  <2>1. LM + LA + D - 1 \in Nat
    BY Sizes
  <2>2. Shift(valid, s # "none") \in [Stages -> BOOLEAN]
    BY <2>1, Shifts DEF TypeOK, Stages
  <2>3. Shift(vlast, s = "last") \in [Stages -> BOOLEAN]
    BY <2>1, Shifts DEF TypeOK, Stages
  <2>. QED
    BY <2>2, <2>3 DEF Clock, DelayLines, TypeOK
<1>2. m_first' \in [Diags -> BOOLEAN]
  BY Taps DEF Clock, FirstFlags, TypeOK
<1>3. a_valid' \in [Diags -> BOOLEAN]
  BY Taps DEF Clock, AccValid, TypeOK
<1>4. r_valid' \in [Diags -> BOOLEAN]
  BY DEF Clock, RegValid, TypeOK
<1>5. r_last' \in [1 .. D-1 -> BOOLEAN]
  <2>1. \A d \in 1 .. D-1 : RLast(d-1) \in BOOLEAN
    BY Sizes DEF RLast, TypeOK, Diags
  <2>. QED
    BY <2>1 DEF Clock, LastFlags, TypeOK
<1>. QED
  BY <1>1, <1>2, <1>3, <1>4, <1>5

\* The skew buffers and the operands stay words of their lanes.
LEMMA OperandTypes ==
  ASSUME ArrayInv, NEW ready \in BOOLEAN, Clock(ready)
  PROVE  /\ xo' \in [PEs -> Words(Rows)] /\ ko' \in [PEs -> Words(Cols)]
         /\ BufferTypes'
<1>. USE DEF ArrayInv
<1>0. mode' = mode
  BY DEF Clock
<1>1. /\ \A r \in Rows : sx_data(r) \in Words(Rows)
      /\ \A c \in Cols : sk_reversed(c) \in Words(Cols)
  BY OfferedWord
<1>2. CASE ~en_mac(ready)
  <2>1. UNCHANGED <<xo, ko, tri_x, tri_k>>
    BY <1>2 DEF Clock, TriBuffer, Mac
  <2>. QED
    BY <1>0, <2>1 DEF TypeOK, BufferTypes, Words
<1>3. CASE en_mac(ready)
  <2>1. tri_x' = [r \in Rows |-> Shift(tri_x[r], sx_data(r))]
    BY <1>3 DEF Clock, TriBuffer
  <2>2. tri_k' = [c \in Cols |-> Shift(tri_k[c], sk_reversed(c))]
    BY <1>3 DEF Clock, TriBuffer
  <2>3. \A r \in Rows : tri_x[r] \in [1 .. r -> Words(Rows)] /\ r \in Nat
    BY DEF BufferTypes, Rows
  <2>4. \A c \in Cols : tri_k[c] \in [1 .. c -> Words(Cols)] /\ c \in Nat
    BY DEF BufferTypes, Cols
  <2>5. \A r \in Rows : Shift(tri_x[r], sx_data(r)) \in [1 .. r -> Words(Rows)]
    BY <1>1, <2>3, Shifts
  <2>6. \A c \in Cols : Shift(tri_k[c], sk_reversed(c)) \in [1 .. c -> Words(Cols)]
    BY <1>1, <2>4, Shifts
  <2>7. Words(Rows)' = Words(Rows) /\ Words(Cols)' = Words(Cols)
    BY <1>0 DEF Words
  <2>8. BufferTypes'
    BY <2>1, <2>2, <2>5, <2>6, <2>7 DEF BufferTypes
  <2>9. ASSUME NEW pe \in PEs PROVE xi(pe) \in Words(Rows) /\ ki(pe) \in Words(Cols)
    <3>1. PICK r \in Rows, c \in Cols : pe = <<r, c>>
      BY DEF PEs
    <3>2. r \in Nat /\ c \in Nat
      BY DEF Rows, Cols
    <3>3. xi(pe) \in Words(Rows)
      <4>1. CASE c > 0
        <5>1. <<r, c-1>> \in PEs
          BY <3>1, <3>2, <4>1, Sizes DEF PEs, Cols
        <5>. QED
          BY <3>1, <4>1, <5>1 DEF xi, TypeOK
      <4>2. CASE c = 0 /\ r = 0
        BY <3>1, <4>2, <1>1, Sizes DEF xi
      <4>3. CASE c = 0 /\ r # 0
        <5>1. tri_x[r][r] \in Words(Rows)
          BY <2>3, <3>2, <4>3
        <5>2. xi(pe) = tri_x[r][r]
          BY <3>1, <3>2, <4>3 DEF xi
        <5>. QED
          BY <5>1, <5>2
      <4>. QED
        BY <3>2, <4>1, <4>2, <4>3
    <3>4. ki(pe) \in Words(Cols)
      <4>1. CASE r > 0
        <5>1. <<r-1, c>> \in PEs
          BY <3>1, <3>2, <4>1, Sizes DEF PEs, Rows
        <5>. QED
          BY <3>1, <4>1, <5>1 DEF ki, TypeOK
      <4>2. CASE c = 0 /\ r = 0
        BY <3>1, <4>2, <1>1, Sizes DEF ki
      <4>3. CASE r = 0 /\ c # 0
        <5>1. tri_k[c][c] \in Words(Cols)
          BY <2>4, <3>2, <4>3
        <5>2. ki(pe) = tri_k[c][c]
          BY <3>1, <3>2, <4>3 DEF ki
        <5>. QED
          BY <5>1, <5>2
      <4>. QED
        BY <3>2, <4>1, <4>2, <4>3
    <3>. QED
      BY <3>3, <3>4
  <2>10. xo' = [pe \in PEs |-> xi(pe)] /\ ko' = [pe \in PEs |-> ki(pe)]
    BY <1>3 DEF Clock, Mac
  <2>. QED
    BY <2>7, <2>8, <2>9, <2>10
<1>. QED
  BY <1>2, <1>3

\* The source sends packets of the lengths of its mode, MaxPkts of them.
LEMMA SourceTypes ==
  ASSUME TypeOK, SourceInv, NEW ready \in BOOLEAN, Clock(ready)
  PROVE  /\ s' \in {"none", "mid", "last"} /\ cur' \in 0 .. mode.kmax-1
         /\ klen' \in Seq(1 .. mode.kmax) /\ Len(klen') <= MaxPkts
         /\ SourceInv'
<1>. DEFINE k == mode.kmax
            n == Len(klen)
            n1 == Len(klen')
<1>0. mode' = mode /\ Source(ready)
  BY DEF Clock
<1>1. k \in Nat \ {0} /\ mode.kmin \in Nat \ {0} /\ MaxPkts \in Nat
  BY ModeBounds, SourceAssumption DEF TypeOK
<1>2. cur \in 0 .. k - 1 /\ klen \in Seq(1 .. k) /\ n \in Nat /\ n <= MaxPkts
  BY DEF TypeOK
<1>3. /\ s \in {"none", "mid", "last"}
      /\ s = "mid" => cur + 1 < k
      /\ s # "none" => n < MaxPkts
  BY DEF TypeOK, SourceInv
<1>4. cur' \in 0 .. k - 1 /\ klen' \in Seq(1 .. k) /\ n1 \in Nat /\ n1 <= MaxPkts
  <2>1. CASE s = "last" /\ s_ready(ready)
    <3>1. cur' = 0 /\ klen' = Append(klen, cur + 1)
      BY <1>0, <2>1 DEF Source
    <3>2. cur + 1 \in 1 .. k
      BY <1>1, <1>2
    <3>3. klen' \in Seq(1 .. k) /\ n1 = n + 1
      BY <1>2, <3>1, <3>2
    <3>. HIDE DEF k, n, n1
    <3>4. n + 1 <= MaxPkts
      BY <1>1, <1>2, <1>3, <2>1
    <3>. QED
      BY <1>1, <1>2, <3>1, <3>3, <3>4
  <2>2. CASE s = "mid" /\ s_ready(ready)
    <3>1. cur' = cur + 1 /\ klen' = klen
      BY <1>0, <2>2 DEF Source
    <3>2. cur + 1 \in 0 .. k - 1
      <4>. HIDE DEF k
      <4>. QED
        BY <1>1, <1>2, <1>3, <2>2
    <3>. QED
      BY <1>2, <3>1, <3>2
  <2>3. CASE ~(s # "none" /\ s_ready(ready))
    BY <1>0, <1>2, <2>3 DEF Source
  <2>. QED
    BY <1>3, <2>1, <2>2, <2>3
<1>5. /\ s' \in {"none", "mid", "last"}
      /\ s' = "mid" => cur' + 1 < k
      /\ s' # "none" => n1 < MaxPkts
  <2>1. CASE s # "none" /\ ~s_ready(ready)
    <3>1. s' = s /\ cur' = cur /\ klen' = klen
      BY <1>0, <2>1 DEF Source
    <3>. QED
      BY <1>3, <3>1
  <2>2. CASE ~(s # "none" /\ ~s_ready(ready))
    BY <1>0, <2>2 DEF Source, Offers
  <2>. QED
    BY <2>1, <2>2
<1>. QED
  BY <1>0, <1>4, <1>5 DEF SourceInv

\* The counts of the sink stay in their bounds.
LEMMA SinkTypes ==
  ASSUME TypeOK, NEW ready \in BOOLEAN, Clock(ready)
  PROVE  m_pkt' \in 0 .. MaxPkts /\ m_beat' \in 0 .. C
BY SourceAssumption, SizeAssumption DEF TypeOK, Clock, Sink

\* A clock edge keeps the types.
LEMMA ArrayStep ==
  ASSUME ArrayInv, NEW ready \in BOOLEAN, Clock(ready)
  PROVE  ArrayInv'
<1>1. mode' = mode
  BY DEF Clock
<1>2. TypeOK'
  BY <1>1, ControlTypes, OperandTypes, SourceTypes, SinkTypes DEF TypeOK, ArrayInv, Words
<1>. QED
  BY <1>2, OperandTypes, SourceTypes DEF ArrayInv

(***************************************************************************)
(* ArrayInvariance: the types of the array and of its neighbours.          *)
(***************************************************************************)
THEOREM ArrayInvariance == Spec => []ArrayInv
<1>1. ArrayInv /\ [Next]_vars => ArrayInv'
  <2>1. ASSUME ArrayInv, Next PROVE ArrayInv'
    <3>1. PICK ready \in mode.readies : Clock(ready)
      BY <2>1 DEF Next
    <3>2. ready \in BOOLEAN
      BY <2>1, ModeBounds DEF ArrayInv, TypeOK
    <3>. QED
      BY <2>1, <3>1, <3>2, ArrayStep
  <2>2. ASSUME ArrayInv, UNCHANGED vars PROVE ArrayInv'
    BY <2>2 DEF ArrayInv, TypeOK, SourceInv, BufferTypes, Words,
      vars, ctlVars, dataVars, envVars
  <2>. QED
    BY <2>1, <2>2
<1>. QED
  BY ArrayInit, <1>1, PTL DEF Spec

(***************************************************************************)
(* TypeCorrect: the registers of axis_sa hold bits and words of the beats  *)
(* that were sent, and the sink receives no packet and no beat beyond its  *)
(* counts (TypeOK).                                                        *)
(***************************************************************************)
THEOREM TypeCorrect == Spec => []TypeOK
<1>1. ArrayInv => TypeOK
  BY DEF ArrayInv
<1>. QED
  BY ArrayInvariance, <1>1, PTL
-----------------------------------------------------------------------------
\* A beat of the output moves the counts of the sink.
LEMMA BeatsCount ==
  ASSUME TypeOK, NEW ready \in BOOLEAN, Sink(ready), m_valid, m_pkt < MaxPkts,
         UNCHANGED <<m_pkt, m_beat>>, m_beat < C
  PROVE  ready = FALSE
<1>1. m_pkt \in Int /\ m_beat \in Int /\ m_pkt + 1 # m_pkt /\ m_beat + 1 # m_beat
  BY DEF TypeOK
<1>. QED
  BY <1>1 DEF Sink

\* What a stalled output register file does: nothing beyond column C-1 moves.
LEMMA StalledStep ==
  ASSUME TypeOK, Clock(FALSE), m_valid
  PROVE  m_valid' /\ m_last' = m_last /\ \A r \in Rows : m_data(r)' = m_data(r)
<1>1. ~en_shift(FALSE)
  BY DEF en_shift
<1>2. \A d \in Diags : d >= C-1 => ~r_copy(d, FALSE)
  BY DEF r_copy, m_stall
<1>3. \A d \in Diags : d >= C-1 => r_valid'[d] = r_valid[d]
  BY <1>1, <1>2 DEF Clock, RegValid, r_clear, TypeOK
<1>4. m_valid'
  BY <1>3, Sizes DEF m_valid
<1>5. m_last' = m_last
  <2>1. CASE C - 1 = 0
    BY <1>3, <2>1, Sizes DEF m_last, RLast
  <2>2. CASE C - 1 # 0
    <3>1. C - 1 \in 1 .. D - 1
      BY <2>2, Sizes
    <3>2. r_last'[C-1] = r_last[C-1]
      BY <1>1, <3>1 DEF Clock, LastFlags
    <3>. QED
      BY <2>2, <3>2 DEF m_last, RLast
  <2>. QED
    BY <2>1, <2>2
<1>6. ASSUME NEW r \in Rows PROVE m_data(r)' = m_data(r)
  <2>1. <<r, C-1>> \in PEs
    BY Sizes DEF PEs
  <2>2. Diag(<<r, C-1>>) >= C - 1 /\ Diag(<<r, C-1>>) \in Diags
    BY <2>1, OnDiagonal, Sizes DEF Diag, Rows
  <2>3. ro'[<<r, C-1>>] = ro[<<r, C-1>>]
    BY <1>1, <1>2, <2>1, <2>2 DEF Clock, OutRegs
  <2>. QED
    BY <2>3 DEF m_data
<1>. QED
  BY <1>4, <1>5, <1>6

(***************************************************************************)
(* OutputStable: an output beat that the sink refuses stays valid with the *)
(* same last flag and the same data, although the accumulators behind the  *)
(* output registers go on (StallStable).                                   *)
(***************************************************************************)
THEOREM OutputStable == Spec => StallStable
<1>. DEFINE Stable == m_valid /\ m_beat < C /\ m_pkt < MaxPkts /\ UNCHANGED <<m_pkt, m_beat>>
                        => m_valid' /\ m_last' = m_last /\ \A r \in Rows : m_data(r)' = m_data(r)
<1>1. TypeOK /\ [Next]_vars => [Stable]_vars
  <2>. SUFFICES ASSUME TypeOK, Next, m_valid, m_beat < C, m_pkt < MaxPkts,
                       UNCHANGED <<m_pkt, m_beat>>
                PROVE  m_valid' /\ m_last' = m_last /\ \A r \in Rows : m_data(r)' = m_data(r)
    OBVIOUS
  <2>1. PICK ready \in mode.readies : Clock(ready)
    BY DEF Next
  <2>2. ready \in BOOLEAN
    BY ModeBounds DEF TypeOK
  <2>3. ready = FALSE
    BY <2>1, <2>2, BeatsCount DEF Clock
  <2>. QED
    BY <2>1, <2>3, StalledStep
<1>. QED
  BY TypeCorrect, <1>1, PTL DEF Spec, StallStable
-----------------------------------------------------------------------------
(***************************************************************************)
(* Neighbours that do not hurry the array.  One packet at a time: the next *)
(* one is sent when the one before it has been received in full (as the    *)
(* DMA uses the array; OnePacketInFlight of Firmware and LinuxDriver is    *)
(* this).  Or packets far apart: a sink that never refuses a beat, and     *)
(* packets so long that the one before has left the output registers when  *)
(* the sum of the next is complete.  The mode never changes.               *)
(***************************************************************************)
OneAtATime == mode.inFlight = 1
FarApart ==
  mode.readies \subseteq {TRUE} /\ mode.kmin >= R + 2*C - 2 /\ mode.kmin > R
Unhurried == OneAtATime \/ FarApart

Depth == LM + LA + D - 1
Past == 0 .. Depth + C

(***************************************************************************)
(* p[n] and b[n] are what Len(klen) and cur were n clocks ago: the packets *)
(* accepted in full and the beats of the next.  The invariant says that    *)
(* there is such a history, and that it determines all that the array      *)
(* holds.  Tap n of a pipeline holds the beat that was accepted n clocks   *)
(* ago, if one was.                                                        *)
(***************************************************************************)
Follows(p, b, n) ==
  \/ p[n-1] = p[n] /\ (b[n-1] = b[n] \/ b[n-1] = b[n] + 1)
  \/ p[n-1] = p[n] + 1 /\ b[n-1] = 0 /\ klen[p[n] + 1] = b[n] + 1

Counts(p, b) ==
  /\ p \in [Past -> Nat] /\ b \in [Past -> Nat]
  /\ p[0] = Len(klen) /\ b[0] = cur
  /\ \A n \in Stages : Follows(p, b, n)
  /\ \A m, n \in Past : m <= n => p[n] <= p[m]

BeatWord(p, b, n, lane) ==
  IF p[n-1] = p[n] /\ b[n-1] = b[n] THEN Idle ELSE WordOf(p[n] + 1, b[n] + 1, lane)

\* The sum over the first q beats of a packet in column c of the array, which
\* is column C-1-c of K, and the one over all of its beats.
Partial(pkt, q, r, c) ==
  [i \in 1 .. q |-> <<WordOf(pkt, i, r), WordOf(pkt, i, C-1-c)>>]
Full(pkt, r, c) == Partial(pkt, klen[pkt], r, c)

\* The packets received have passed the array, and the one that is being
\* received is in the output registers.
Receiving(p) ==
  /\ m_beat \in 0 .. C-1
  /\ p[Depth] >= m_pkt
  /\ m_beat > 0 => p[Depth] > m_pkt

\* One packet at a time.
Alone ==
  OneAtATime => \/ Len(klen) = m_pkt
                \/ Len(klen) = m_pkt + 1 /\ s = "none" /\ cur = 0

\* Packets far apart: between the ends of two packets lie the beats of the
\* second, and the packet being received ended Depth + 1 + m_beat clocks ago.
Spaced(p, b) ==
  FarApart =>
    /\ s = "last" => cur + 1 >= mode.kmin
    /\ \A m, n \in Past : /\ p[m] > p[n] => m + b[m] < n
                          /\ p[m] > p[n] + 1 => m + mode.kmin < n
    /\ p[Depth + 1 + m_beat] = m_pkt

Lines(p, b) ==
  \A n \in Stages :
    /\ valid[n] <=> p[n-1] # p[n] \/ b[n-1] # b[n]
    /\ vlast[n] <=> p[n-1] # p[n]

Flags(p, b) ==
  /\ \A d \in Diags :
       /\ m_first[d] <=> b[LM+d] = 0
       /\ a_valid[d] <=> vlast[LM+LA+d]
       /\ r_valid[d] <=> p[LM+LA+d] > m_pkt /\ d >= m_beat
  /\ \A d \in 1 .. D-1 : r_last[d] <=> d = m_beat

Buffers(p, b) ==
  /\ \A r \in Rows : tri_x[r] = [i \in 1 .. r |-> BeatWord(p, b, i, r)]
  /\ \A c \in Cols : tri_k[c] = [i \in 1 .. c |-> BeatWord(p, b, i, C-1-c)]

Operands(p, b) ==
  \A r \in Rows, c \in Cols :
    /\ xo[<<r, c>>] = BeatWord(p, b, r + c + 1, r)
    /\ ko[<<r, c>>] = BeatWord(p, b, r + c + 1, C-1-c)
    /\ mul[<<r, c>>] = [i \in 1 .. LM |->
         <<BeatWord(p, b, r + c + i, r), BeatWord(p, b, r + c + i, C-1-c)>>]

\* A sum stays as it is from the end of its packet to the first beat of the next.
SumOf(p, b, n, r, c) ==
  IF b[n] > 0 THEN Partial(p[n] + 1, b[n], r, c) ELSE Full(p[n], r, c)

Sums(p, b) ==
  \A r \in Rows, c \in Cols :
    /\ DOMAIN acc[<<r, c>>] = 1 .. LA
    /\ \A i \in 1 .. LA :
         b[LM + r + c + i - 1] > 0 \/ p[LM + r + c + i - 1] > 0
           => acc[<<r, c>>][i] = SumOf(p, b, LM + r + c + i - 1, r, c)

Results(p) ==
  \A r \in Rows, c \in Cols :
    p[LM + LA + r + c] > m_pkt /\ c >= m_beat
      => ro[<<r, c>>] = Partial(m_pkt + 1, klen[m_pkt + 1], r, c - m_beat)

History(p, b) ==
  /\ Counts(p, b) /\ Receiving(p) /\ Alone /\ Spaced(p, b)
  /\ Lines(p, b) /\ Flags(p, b) /\ Buffers(p, b) /\ Operands(p, b) /\ Sums(p, b) /\ Results(p)

HistoryInv == ArrayInv /\ \E p, b \in [Past -> Nat] : History(p, b)
-----------------------------------------------------------------------------
\* The taps that a diagonal looks at, and the past that they stand for.
LEMMA DiagonalTaps ==
  ASSUME NEW d \in Diags
  PROVE  /\ LM + d \in Stages /\ LM + d \in Past /\ LM + d - 1 \in Past
         /\ LM + LA + d \in Stages /\ LM + LA + d \in Past /\ LM + LA + d - 1 \in Past
         /\ LM + LA + d - 1 \in Stages
         /\ LM + LA + d <= Depth /\ LM + LA + d = (LM + LA + d - 1) + 1
BY SizeAssumption DEF Diags, Stages, Past, Depth, D

\* The tap behind the accumulator of a diagonal, by a name of its own.
LEMMA OutTap ==
  ASSUME NEW d \in Diags
  PROVE  \E n \in Stages : n = LM + LA + d /\ n - 1 = LM + LA + d - 1
<1>1. LM + LA + d \in Stages
  BY DiagonalTaps
<1>2. LM \in Nat /\ LA \in Nat /\ d \in Nat
  BY SizeAssumption DEF Diags
<1>. QED
  BY <1>1, <1>2

\* The past is longer than the pipelines, and a tap follows the one before it.
LEMMA PastTaps ==
  /\ Depth \in Nat \ {0} /\ 0 \in Past /\ Depth \in Past /\ Stages = 1 .. Depth
  /\ \A n \in Stages : n \in Past /\ n - 1 \in Past /\ n \in Nat \ {0} /\ n <= Depth
  /\ \A n \in Stages : n # 1 => n - 1 \in Stages
  /\ \A n \in Past : n \in Nat /\ 0 <= n
  /\ \A n \in Past : n # 0 => n - 1 \in Past
  /\ \A k \in 0 .. C-1 : Depth + 1 + k \in Past /\ Depth + k \in Past
  /\ LM + LA \in Past /\ LM + LA <= Depth /\ LM + LA \in Stages /\ LM + LA - 1 \in Past
BY SizeAssumption DEF Stages, Past, Depth, D

\* The taps behind the operands, the products and the sums of an element.
LEMMA ElementTaps ==
  ASSUME NEW r \in Rows, NEW c \in Cols
  PROVE  /\ r \in Nat /\ c \in Nat /\ r + c \in Diags /\ C-1-c \in Cols
         /\ r + c \in Past /\ r + c + 1 \in Stages
         /\ \A i \in 1 .. LM : r + c + i \in Stages
         /\ \A i \in 1 .. LA : LM + r + c + i - 1 \in Stages
         /\ LM + LA + r + c \in Stages
         /\ <<r, c>> \in PEs /\ Diag(<<r, c>>) = r + c
BY SizeAssumption DEF Rows, Cols, Diags, Stages, Past, Depth, D, PEs, Diag

\* After reset nothing has been accepted.
LEMMA HistoryInit ==
  ASSUME Init
  PROVE  History([n \in Past |-> 0], [n \in Past |-> 0])
<1>. DEFINE z == [n \in Past |-> 0]
<1>0. /\ \A n \in Past : z[n] = 0
      /\ z \in [Past -> Nat]
  OBVIOUS
<1>. HIDE DEF z
<1>1. cur = 0 /\ m_pkt = 0 /\ m_beat = 0 /\ Len(klen) = 0 /\ s = "none"
  BY DEF Init
<1>2. Counts(z, z)
  BY <1>0, <1>1, PastTaps DEF Counts, Follows
<1>3. Receiving(z)
  BY <1>0, <1>1, Sizes, PastTaps DEF Receiving
<1>4. Alone /\ Spaced(z, z)
  <2>1. m_beat \in 0 .. C-1
    BY <1>1, Sizes
  <2>2. Depth + 1 + m_beat \in Past
    BY <2>1, PastTaps
  <2>. QED
    BY <1>0, <1>1, <2>2 DEF Alone, Spaced
<1>5. Lines(z, z)
  BY <1>0, PastTaps DEF Lines, Init
<1>6. Flags(z, z)
  <2>1. ASSUME NEW d \in Diags
        PROVE  /\ m_first[d] <=> z[LM+d] = 0
               /\ a_valid[d] <=> vlast[LM+LA+d]
               /\ r_valid[d] <=> z[LM+LA+d] > m_pkt /\ d >= m_beat
    BY <1>0, <1>1, DiagonalTaps DEF Init
  <2>2. ASSUME NEW d \in 1 .. D-1 PROVE r_last[d] <=> d = m_beat
    BY <1>1 DEF Init
  <2>. QED
    BY <2>1, <2>2 DEF Flags
<1>7. \A n \in Stages, lane \in Int : BeatWord(z, z, n, lane) = Idle
  BY <1>0, PastTaps DEF BeatWord
<1>8. Buffers(z, z)
  <2>1. ASSUME NEW r \in Rows PROVE tri_x[r] = [i \in 1 .. r |-> BeatWord(z, z, i, r)]
    <3>1. r \in Int /\ \A i \in 1 .. r : i \in Stages
      BY SizeAssumption DEF Rows, Stages, D
    <3>. QED
      BY <1>7, <3>1 DEF Init
  <2>2. ASSUME NEW c \in Cols PROVE tri_k[c] = [i \in 1 .. c |-> BeatWord(z, z, i, C-1-c)]
    <3>1. c \in Int /\ C-1-c \in Int /\ \A i \in 1 .. c : i \in Stages
      BY SizeAssumption DEF Cols, Stages, D
    <3>. QED
      BY <1>7, <3>1 DEF Init
  <2>. QED
    BY <2>1, <2>2 DEF Buffers
<1>9. Operands(z, z)
  <2>. SUFFICES ASSUME NEW r \in Rows, NEW c \in Cols
                PROVE  /\ xo[<<r, c>>] = BeatWord(z, z, r + c + 1, r)
                       /\ ko[<<r, c>>] = BeatWord(z, z, r + c + 1, C-1-c)
                       /\ mul[<<r, c>>] = [i \in 1 .. LM |->
                            <<BeatWord(z, z, r + c + i, r), BeatWord(z, z, r + c + i, C-1-c)>>]
    BY DEF Operands
  <2>1. r \in Int /\ C-1-c \in Int
    BY SizeAssumption DEF Rows, Cols
  <2>2. \A i \in 1 .. LM : /\ BeatWord(z, z, r + c + i, r) = Idle
                           /\ BeatWord(z, z, r + c + i, C-1-c) = Idle
    BY <1>7, <2>1, ElementTaps
  <2>3. BeatWord(z, z, r + c + 1, r) = Idle /\ BeatWord(z, z, r + c + 1, C-1-c) = Idle
    BY <1>7, <2>1, ElementTaps
  <2>. QED
    BY <2>2, <2>3, ElementTaps DEF Init, NoProduct
<1>10. Sums(z, z)
  <2>1. \A r \in Rows, c \in Cols : DOMAIN acc[<<r, c>>] = 1 .. LA
    BY ElementTaps DEF Init
  <2>2. ASSUME NEW r \in Rows, NEW c \in Cols, NEW i \in 1 .. LA
        PROVE  ~(z[LM + r + c + i - 1] > 0)
    <3>1. LM + r + c + i - 1 \in Past
      BY ElementTaps, PastTaps
    <3>. QED
      BY <1>0, <3>1
  <2>. QED
    BY <2>1, <2>2 DEF Sums
<1>11. Results(z)
  <2>1. \A r \in Rows, c \in Cols : LM + LA + r + c \in Past
    BY ElementTaps, PastTaps
  <2>. QED
    BY <1>0, <1>1, <2>1 DEF Results
<1>12. History(z, z)
  BY <1>2, <1>3, <1>4, <1>5, <1>6, <1>8, <1>9, <1>10, <1>11 DEF History
<1>. QED
  BY <1>12 DEF z

\* What the history counts are numbers, and packets do not become fewer.
LEMMA CountsKnown ==
  ASSUME ArrayInv, NEW p, NEW b, History(p, b)
  PROVE  /\ \A n \in Past : p[n] \in Nat /\ b[n] \in Nat /\ p[n] <= p[0]
         /\ \A m, n \in Past : m <= n => p[n] <= p[m]
         /\ p[0] = Len(klen) /\ b[0] = cur /\ p[0] <= MaxPkts
         /\ m_pkt \in Nat /\ m_beat \in 0 .. C-1 /\ m_beat \in Nat /\ C \in Nat \ {0}
         /\ MaxPkts \in Nat
         /\ Depth + 1 + m_beat \in Past
<1>1. \A n \in Past : n \in Nat /\ 0 \in Past /\ 0 <= n
  BY PastTaps
<1>2. m_beat \in 0 .. C-1 /\ C \in Nat \ {0}
  BY Sizes DEF History, Receiving
<1>3. Depth + 1 + m_beat \in Past
  BY <1>2, PastTaps
<1>4. m_pkt \in Nat /\ MaxPkts \in Nat /\ Len(klen) <= MaxPkts
  BY SourceAssumption DEF ArrayInv, TypeOK
<1>. QED
  BY <1>1, <1>2, <1>3, <1>4 DEF History, Counts

\* A packet ends behind the sums of a diagonal only when the one before it has
\* left: at most one packet is in the output registers.
LEMMA OneInside ==
  ASSUME ArrayInv, Unhurried, NEW p, NEW b, History(p, b)
  PROVE  p[LM+LA] <= m_pkt + 1
<1>0. LM + LA \in Past
  BY PastTaps
<1>1. CASE OneAtATime
  <2>1. p[LM+LA] <= p[0] /\ p[0] = Len(klen) /\ p[LM+LA] \in Nat /\ p[0] \in Nat /\ m_pkt \in Nat
    BY <1>0, CountsKnown, PastTaps
  <2>2. p[0] <= m_pkt + 1
    BY <1>1, <2>1 DEF History, Alone
  <2>. QED
    BY <2>1, <2>2
<1>2. CASE FarApart
  <2>. DEFINE e == Depth + 1 + m_beat
  <2>1. e \in Past /\ m_beat \in 0 .. C-1 /\ p[LM+LA] \in Nat /\ m_pkt \in Nat
    BY <1>0, CountsKnown
  <2>2. p[e] = m_pkt
    BY <1>2 DEF History, Spaced
  <2>3. p[LM+LA] > p[e] + 1 => LM + LA + mode.kmin < e
    BY <1>0, <1>2, <2>1 DEF History, Spaced
  <2>4. ~(LM + LA + mode.kmin < e)
    <3>. DEFINE k == mode.kmin
    <3>1. k \in Nat /\ k >= R + 2*C - 2
      BY <1>2, ModeBounds DEF FarApart, ArrayInv, TypeOK
    <3>. HIDE DEF k
    <3>2. ~(LM + LA + k < Depth + 1 + m_beat)
      BY <2>1, <3>1, SizeAssumption DEF Depth, D
    <3>. QED
      BY <3>2 DEF k
  <2>. QED
    BY <2>1, <2>2, <2>3, <2>4
<1>. QED
  BY <1>1, <1>2 DEF Unhurried

\* Only with packets far apart, and in the clock of the last beat of the one
\* before it, does a packet end right behind the sum of the first element.
LEMMA SecondPacket ==
  ASSUME ArrayInv, Unhurried, NEW p, NEW b, History(p, b),
         NEW n \in Stages, n >= LM + LA, p[n-1] > m_pkt + 1
  PROVE  FarApart /\ n = LM + LA /\ m_beat = C-1 /\ C > 1
<1>1. n \in Past /\ n - 1 \in Past /\ n \in Nat /\ n <= Depth /\ LM + LA \in Past
  BY PastTaps
<1>2. LM \in Nat /\ LA \in Nat /\ m_pkt \in Nat /\ p[n-1] \in Nat /\ p[LM+LA] \in Nat
  BY <1>1, Sizes, CountsKnown
<1>3. n = LM + LA
  <2>1. p[LM+LA] <= m_pkt + 1
    BY OneInside
  <2>2. n # LM + LA => LM + LA <= n - 1
    BY <1>1, <1>2
  <2>3. n # LM + LA => p[n-1] <= p[LM+LA]
    BY <1>1, <2>2, CountsKnown
  <2>. QED
    BY <1>2, <2>1, <2>3
<1>4. FarApart
  <2>1. OneAtATime => p[0] <= m_pkt + 1
    BY CountsKnown DEF History, Alone
  <2>2. p[n-1] <= p[0] /\ p[0] \in Nat
    BY <1>1, CountsKnown, PastTaps
  <2>. QED
    BY <1>2, <2>1, <2>2 DEF Unhurried
<1>5. m_beat = C-1 /\ C > 1
  <2>. DEFINE k == mode.kmin
  <2>1. n - 1 + k < Depth + 1 + m_beat
    <3>1. p[Depth + 1 + m_beat] = m_pkt /\ Depth + 1 + m_beat \in Past
      BY <1>4, CountsKnown DEF History, Spaced
    <3>. QED
      BY <1>1, <1>4, <3>1 DEF History, Spaced
  <2>2. k \in Nat /\ k >= R + 2*C - 2 /\ k > R
    BY <1>4, ModeBounds DEF FarApart, ArrayInv, TypeOK
  <2>3. m_beat \in 0 .. C-1
    BY CountsKnown
  <2>. HIDE DEF k
  <2>. QED
    BY <1>3, <2>1, <2>2, <2>3, SizeAssumption DEF Depth, D
<1>. QED
  BY <1>3, <1>4, <1>5

\* What the flags of a diagonal say about the tap behind its sum.
LEMMA BehindSum ==
  ASSUME ArrayInv, NEW p, NEW b, History(p, b), NEW d \in Diags
  PROVE  \E n \in Stages :
           /\ n = LM + LA + d /\ n - 1 = LM + LA + d - 1 /\ n >= LM + LA
           /\ n \in Past /\ n - 1 \in Past /\ p[n] \in Nat /\ p[n-1] \in Nat
           /\ p[n] <= p[n-1] /\ p[Depth] <= p[n] /\ p[Depth] \in Nat /\ m_pkt <= p[n]
           /\ a_valid[d] <=> p[n-1] # p[n]
           /\ a_valid[d] => p[n-1] = p[n] + 1 /\ b[n-1] = 0
           /\ r_valid[d] <=> p[n] > m_pkt /\ d >= m_beat
<1>1. PICK n \in Stages : n = LM + LA + d /\ n - 1 = LM + LA + d - 1
  BY OutTap
<1>2. n \in Past /\ n - 1 \in Past /\ n \in Nat /\ n - 1 <= n /\ n <= Depth /\ Depth \in Past
  BY PastTaps
<1>3. /\ p[n] \in Nat /\ p[n-1] \in Nat /\ p[n] <= p[n-1]
      /\ p[Depth] <= p[n] /\ p[Depth] \in Nat /\ m_pkt \in Nat
  BY <1>2, CountsKnown
<1>4. m_pkt <= p[n]
  <2>1. p[Depth] >= m_pkt
    BY DEF History, Receiving
  <2>. QED
    BY <1>3, <2>1
<1>5. a_valid[d] <=> p[n-1] # p[n]
  BY <1>1 DEF History, Flags, Lines
<1>6. p[n-1] # p[n] => p[n-1] = p[n] + 1 /\ b[n-1] = 0
  BY DEF History, Counts, Follows
<1>7. r_valid[d] <=> p[n] > m_pkt /\ d >= m_beat
  BY <1>1 DEF History, Flags
<1>8. n >= LM + LA
  BY <1>1, Sizes DEF Diags
<1>. QED
  BY <1>1, <1>2, <1>3, <1>4, <1>5, <1>6, <1>7, <1>8

\* While results leave, the packet that they are of is in all output registers.
LEMMA AllPassed ==
  ASSUME ArrayInv, NEW p, NEW b, History(p, b), m_valid
  PROVE  p[Depth] > m_pkt
<1>1. r_valid[D-1] /\ D - 1 \in Diags
  BY Sizes DEF m_valid
<1>2. LM + LA + (D-1) = Depth
  BY Sizes DEF Depth
<1>. QED
  BY <1>1, <1>2 DEF History, Flags

\* While results leave, no sum is complete: except, with packets far apart, the
\* one of the first element, in the clock of the last beat.
LEMMA CopyMeetsLast ==
  ASSUME ArrayInv, Unhurried, NEW p, NEW b, History(p, b),
         NEW d \in Diags, a_valid[d], m_valid
  PROVE  FarApart /\ d = 0 /\ m_beat = C-1 /\ C > 1
<1>1. PICK n \in Stages :
        /\ n = LM + LA + d /\ n >= LM + LA
        /\ p[n] \in Nat /\ p[n-1] \in Nat /\ p[Depth] <= p[n] /\ p[Depth] \in Nat
        /\ p[n-1] = p[n] + 1
  BY BehindSum
<1>2. p[Depth] > m_pkt /\ m_pkt \in Nat
  BY AllPassed, CountsKnown
<1>3. p[n-1] > m_pkt + 1
  BY <1>1, <1>2
<1>4. FarApart /\ n = LM + LA /\ m_beat = C-1 /\ C > 1
  BY <1>1, <1>3, SecondPacket
<1>5. d = 0
  BY <1>1, <1>4, Sizes DEF Diags
<1>. QED
  BY <1>4, <1>5

\* The array never stalls.
LEMMA Enabled ==
  ASSUME ArrayInv, Unhurried, NEW p, NEW b, History(p, b), NEW ready \in BOOLEAN
  PROVE  en_mac(ready) /\ s_ready(ready)
<1>1. ASSUME NEW d \in Diags PROVE ~conflict(d)
  <2>. SUFFICES ASSUME a_valid[d], r_valid[d] PROVE FALSE
    BY DEF conflict
  <2>1. PICK n \in Stages :
          /\ n = LM + LA + d /\ n >= LM + LA /\ p[n] \in Nat /\ p[n-1] \in Nat
          /\ p[n-1] = p[n] + 1 /\ p[n] > m_pkt /\ d >= m_beat
    BY BehindSum
  <2>2. p[n-1] > m_pkt + 1
    BY <2>1, CountsKnown
  <2>3. n = LM + LA /\ m_beat = C-1 /\ C > 1
    BY <2>1, <2>2, SecondPacket
  <2>. QED
    BY <2>1, <2>3, Sizes DEF Diags
<1>2. ASSUME NEW d \in Diags PROVE ~reg_stall(d, ready)
  <2>. SUFFICES ASSUME a_valid[d], m_valid, d >= C-1 PROVE FALSE
    BY DEF reg_stall, can_copy, m_stall
  <2>1. d = 0 /\ C > 1
    BY CopyMeetsLast
  <2>. QED
    BY <2>1, Sizes
<1>. QED
  BY <1>1, <1>2 DEF en_mac, s_ready

\* The last column of the output registers knows which beat it is.
LEMMA LastKnown ==
  ASSUME ArrayInv, NEW p, NEW b, History(p, b), m_valid
  PROVE  m_last <=> m_beat = C-1
<1>1. CASE C - 1 = 0
  <2>1. PICK n \in Stages : n \in Past /\ n <= Depth /\ p[n] \in Nat /\ (r_valid[0] <=> p[n] > m_pkt /\ 0 >= m_beat)
    BY BehindSum, PastTaps, Sizes
  <2>2. p[Depth] <= p[n] /\ p[Depth] > m_pkt /\ p[Depth] \in Nat /\ m_pkt \in Nat
    BY <2>1, AllPassed, CountsKnown, PastTaps
  <2>3. m_beat = 0
    BY <1>1, CountsKnown
  <2>4. r_valid[0]
    BY <2>1, <2>2, <2>3
  <2>. QED
    BY <1>1, <2>3, <2>4 DEF m_last, RLast
<1>2. CASE C - 1 # 0
  <2>1. C - 1 \in 1 .. D - 1
    BY <1>2, Sizes
  <2>2. r_last[C-1] <=> C - 1 = m_beat
    BY <2>1 DEF History, Flags
  <2>. QED
    BY <1>2, <2>2 DEF m_last, RLast
<1>. QED
  BY <1>1, <1>2

\* The sink takes the beats of the packet one by one, and with the last of
\* them the packet.
LEMMA SinkStep ==
  ASSUME ArrayInv, NEW p, NEW b, History(p, b), NEW ready, Clock(ready)
  PROVE  /\ ~en_shift(ready) => m_pkt' = m_pkt /\ m_beat' = m_beat
         /\ en_shift(ready) => m_valid
         /\ en_shift(ready) /\ m_beat # C-1 =>
              ~m_last /\ m_pkt' = m_pkt /\ m_beat' = m_beat + 1 /\ m_beat' \in 0 .. C-1
         /\ en_shift(ready) /\ m_beat = C-1 => m_last /\ m_pkt' = m_pkt + 1 /\ m_beat' = 0
<1>1. m_beat \in 0 .. C-1 /\ C \in Nat \ {0}
  BY CountsKnown
<1>2. m_valid => m_pkt < MaxPkts
  <2>1. m_valid => p[Depth] > m_pkt
    BY AllPassed
  <2>2. p[Depth] <= p[0] /\ p[0] <= MaxPkts /\ p[Depth] \in Nat /\ p[0] \in Nat
        /\ m_pkt \in Nat /\ MaxPkts \in Nat
    BY CountsKnown, PastTaps
  <2>. QED
    BY <2>1, <2>2
<1>3. m_valid => (m_last <=> m_beat = C-1)
  BY LastKnown
<1>4. Sink(ready)
  BY DEF Clock
<1>5. CASE ~en_shift(ready)
  BY <1>4, <1>5 DEF Sink, en_shift
<1>6. CASE en_shift(ready) /\ m_beat # C-1
  <2>1. m_beat' = (IF m_beat < C THEN m_beat + 1 ELSE C) /\ m_pkt' = m_pkt /\ ~m_last /\ m_valid
    BY <1>3, <1>4, <1>6 DEF Sink, en_shift
  <2>2. m_beat < C /\ m_beat + 1 \in 0 .. C-1
    BY <1>1, <1>6
  <2>. QED
    BY <1>6, <2>1, <2>2
<1>7. CASE en_shift(ready) /\ m_beat = C-1
  <2>1. m_valid /\ m_last /\ m_pkt < MaxPkts
    BY <1>2, <1>3, <1>7 DEF en_shift
  <2>. QED
    BY <1>4, <1>7, <2>1 DEF Sink, en_shift
<1>. QED
  BY <1>5, <1>6, <1>7
-----------------------------------------------------------------------------
\* The sink takes the results at once where packets follow each other.
TakesAtOnce(ready) == FarApart => ready = TRUE

(***************************************************************************)
(* A clock moves the history on by one tap.                                *)
(***************************************************************************)
Moves(p, b, p1, b1, ready) ==
  /\ ArrayInv /\ Unhurried /\ History(p, b)
  /\ ready \in BOOLEAN /\ Clock(ready) /\ TakesAtOnce(ready)
  /\ p1 \in [Past -> Nat] /\ b1 \in [Past -> Nat]
  /\ p1[0] = Len(klen') /\ b1[0] = cur'
  /\ \A n \in Past : n # 0 => p1[n] = p[n-1] /\ b1[n] = b[n-1]

\* What is offered is accepted; the lengths of the packets accepted before stay.
LEMMA SourceStep ==
  ASSUME NEW p, NEW b, NEW p1, NEW b1, NEW ready, Moves(p, b, p1, b1, ready)
  PROVE  /\ s \in {"none", "mid", "last"}
         /\ s = "none" => p1[0] = p[0] /\ b1[0] = b[0]
         /\ s = "mid" => p1[0] = p[0] /\ b1[0] = b[0] + 1
         /\ s = "last" => p1[0] = p[0] + 1 /\ b1[0] = 0 /\ klen'[p[0] + 1] = b[0] + 1
         /\ \A i \in 1 .. p[0] : klen'[i] = klen[i]
         /\ \A lane : Word(lane) = WordOf(p[0] + 1, b[0] + 1, lane)
         /\ p[0] \in Nat /\ b[0] \in Nat
         /\ s' = "last" => b1[0] + 1 >= mode.kmin
         /\ s' # "none" => b1[0] > 0 \/ p1[0] - m_pkt < mode.inFlight
<1>. USE DEF Moves
<1>1. /\ p[0] = Len(klen) /\ b[0] = cur /\ p[0] \in Nat /\ b[0] \in Nat
      /\ p1[0] = Len(klen') /\ b1[0] = cur'
  BY CountsKnown, PastTaps
<1>2. s \in {"none", "mid", "last"} /\ klen \in Seq(1 .. mode.kmax) /\ cur + 1 \in 1 .. mode.kmax
  <2>. DEFINE k == mode.kmax
  <2>1. s \in {"none", "mid", "last"} /\ klen \in Seq(1 .. k) /\ cur \in 0 .. k - 1 /\ k \in Nat
    BY ModeBounds DEF ArrayInv, TypeOK
  <2>. HIDE DEF k
  <2>2. cur + 1 \in 1 .. k
    BY <2>1
  <2>. QED
    BY <2>1, <2>2 DEF k
<1>3. /\ s # "none" =>
           IF s = "last" THEN cur' = 0 /\ klen' = Append(klen, cur + 1)
                         ELSE cur' = cur + 1 /\ klen' = klen
      /\ s = "none" => cur' = cur /\ klen' = klen
      /\ s' \in Offers(Len(klen'), cur', m_pkt)
  BY Enabled DEF Clock, Source
<1>4. s = "last" => /\ Len(klen') = Len(klen) + 1 /\ klen'[Len(klen) + 1] = cur + 1
                    /\ \A i \in 1 .. Len(klen) : klen'[i] = klen[i]
  <2>. DEFINE T == 1 .. mode.kmax
              x == cur + 1
  <2>1. klen \in Seq(T) /\ x \in T /\ (s = "last" => klen' = Append(klen, x))
    BY <1>2, <1>3
  <2>. HIDE DEF T, x
  <2>2. s = "last" => /\ Len(klen') = Len(klen) + 1 /\ klen'[Len(klen) + 1] = x
                      /\ \A i \in 1 .. Len(klen) : klen'[i] = klen[i]
    BY ONLY <2>1
  <2>. QED
    BY <2>2 DEF x
<1>5. \A lane : Word(lane) = WordOf(p[0] + 1, b[0] + 1, lane)
  BY <1>1 DEF Word, WordOf
<1>6. s' = "last" => b1[0] + 1 >= mode.kmin
  BY <1>1, <1>3 DEF Offers
<1>7. s' # "none" => b1[0] > 0 \/ p1[0] - m_pkt < mode.inFlight
  BY <1>1, <1>3 DEF Offers
<1>. QED
  BY <1>1, <1>2, <1>3, <1>4, <1>5, <1>6, <1>7

\* The history stays one: each count follows from the one before it.
LEMMA CountsMove ==
  ASSUME NEW p, NEW b, NEW p1, NEW b1, NEW ready, Moves(p, b, p1, b1, ready)
  PROVE  Counts(p1, b1)'
<1>1. /\ \A n \in Past : n # 0 => p1[n] = p[n-1] /\ b1[n] = b[n-1]
      /\ \A n \in Past : p[n] \in Nat /\ b[n] \in Nat /\ p[n] <= p[0]
      /\ \A m, n \in Past : m <= n => p[n] <= p[m]
      /\ \A n \in Stages : Follows(p, b, n)
      /\ p1 \in [Past -> Nat] /\ b1 \in [Past -> Nat] /\ p1[0] = Len(klen') /\ b1[0] = cur'
  BY CountsKnown DEF Moves, History, Counts
<1>2. p1[0] >= p[0] /\ p1[0] \in Nat /\ p[0] \in Nat
  <2>1. p[0] \in Nat
    BY <1>1, PastTaps
  <2>2. p1[0] = p[0] \/ p1[0] = p[0] + 1
    BY SourceStep
  <2>. QED
    BY <2>1, <2>2
<1>3. ASSUME NEW n \in Stages
      PROVE  \/ p1[n-1] = p1[n] /\ (b1[n-1] = b1[n] \/ b1[n-1] = b1[n] + 1)
             \/ p1[n-1] = p1[n] + 1 /\ b1[n-1] = 0 /\ klen'[p1[n] + 1] = b1[n] + 1
  <2>0. n \in Past /\ n \in Nat \ {0} /\ p1[n] = p[n-1] /\ b1[n] = b[n-1]
    BY <1>1, PastTaps
  <2>1. CASE n = 1
    BY <2>0, <2>1, SourceStep
  <2>2. CASE n # 1
    <3>1. n - 1 \in Stages /\ n - 1 \in Past /\ n - 1 # 0 /\ (n-1) - 1 \in Past
      BY <2>0, <2>2, PastTaps
    <3>2. p1[n-1] = p[(n-1)-1] /\ b1[n-1] = b[(n-1)-1]
      BY <1>1, <3>1
    <3>3. Follows(p, b, n-1)
      BY <1>1, <3>1
    <3>4. p[(n-1)-1] = p[n-1] + 1 => klen'[p[n-1] + 1] = klen[p[n-1] + 1]
      <4>1. p[(n-1)-1] <= p[0] /\ p[(n-1)-1] \in Nat /\ p[n-1] \in Nat /\ p[0] \in Nat
        BY <1>1, <1>2, <3>1
      <4>2. p[(n-1)-1] = p[n-1] + 1 => p[n-1] + 1 \in 1 .. p[0]
        BY <4>1
      <4>. QED
        BY <4>2, SourceStep
    <3>. QED
      BY <2>0, <3>2, <3>3, <3>4 DEF Follows
  <2>. QED
    BY <2>1, <2>2
<1>4. ASSUME NEW m \in Past, NEW n \in Past, m <= n PROVE p1[n] <= p1[m]
  <2>0. m \in Nat /\ n \in Nat /\ p1[m] \in Nat /\ p1[n] \in Nat
    BY <1>1, PastTaps
  <2>1. CASE n = 0
    BY <1>4, <2>0, <2>1
  <2>2. CASE n # 0 /\ m = 0
    <3>1. n - 1 \in Past
      BY <2>2, PastTaps
    <3>2. p1[n] = p[n-1] /\ p[n-1] <= p[0] /\ p[n-1] \in Nat
      BY <1>1, <2>2, <3>1
    <3>. QED
      BY <1>2, <2>2, <3>2
  <2>3. CASE n # 0 /\ m # 0
    <3>1. n - 1 \in Past /\ m - 1 \in Past /\ m - 1 <= n - 1
      BY <1>4, <2>0, <2>3, PastTaps
    <3>. QED
      BY <1>1, <2>3, <3>1
  <2>. QED
    BY <2>1, <2>2, <2>3
<1>. QED
  BY <1>1, <1>3, <1>4 DEF Counts, Follows

\* A packet is received when it is in the output registers.
LEMMA ReceivingMoves ==
  ASSUME NEW p, NEW b, NEW p1, NEW b1, NEW ready, Moves(p, b, p1, b1, ready)
  PROVE  Receiving(p1)'
<1>. USE DEF Moves
<1>1. /\ m_beat \in 0 .. C-1 /\ m_beat \in Nat /\ m_pkt \in Nat /\ C \in Nat \ {0}
      /\ p[Depth] \in Nat /\ p[Depth-1] \in Nat /\ p[Depth] <= p[Depth-1] /\ p1[Depth] = p[Depth-1]
      /\ p[Depth] >= m_pkt /\ (m_beat > 0 => p[Depth] > m_pkt)
  <2>1. Depth \in Past /\ Depth - 1 \in Past /\ Depth # 0 /\ Depth - 1 <= Depth
    BY PastTaps
  <2>. QED
    BY <2>1, CountsKnown DEF History, Receiving
<1>2. m_valid => p[Depth] > m_pkt
  BY AllPassed
<1>3. CASE ~en_shift(ready)
  <2>1. m_pkt' = m_pkt /\ m_beat' = m_beat
    BY <1>3, SinkStep
  <2>. QED
    BY <1>1, <2>1 DEF Receiving
<1>4. CASE en_shift(ready) /\ m_beat # C-1
  <2>1. m_pkt' = m_pkt /\ m_beat' = m_beat + 1 /\ m_beat' \in 0 .. C-1 /\ m_valid
    BY <1>4, SinkStep
  <2>. QED
    BY <1>1, <1>2, <2>1 DEF Receiving
<1>5. CASE en_shift(ready) /\ m_beat = C-1
  <2>1. m_pkt' = m_pkt + 1 /\ m_beat' = 0 /\ m_valid
    BY <1>5, SinkStep
  <2>. QED
    BY <1>1, <1>2, <2>1 DEF Receiving
<1>. QED
  BY <1>3, <1>4, <1>5

\* One packet at a time: the source waits for the sink.
LEMMA AloneMoves ==
  ASSUME NEW p, NEW b, NEW p1, NEW b1, NEW ready, Moves(p, b, p1, b1, ready)
  PROVE  Alone'
<1>. USE DEF Moves
<1>0. mode' = mode
  BY DEF Clock
<1>. SUFFICES ASSUME OneAtATime
              PROVE  \/ Len(klen') = m_pkt'
                     \/ Len(klen') = m_pkt' + 1 /\ s' = "none" /\ cur' = 0
  BY <1>0 DEF Alone, OneAtATime
<1>1. /\ p[0] = Len(klen) /\ b[0] = cur /\ p1[0] = Len(klen') /\ b1[0] = cur'
      /\ p[0] \in Nat /\ b[0] \in Nat /\ m_pkt \in Nat /\ p[Depth] \in Nat /\ p[Depth] <= p[0]
  BY CountsKnown, PastTaps
<1>2. p[0] = m_pkt \/ (p[0] = m_pkt + 1 /\ s = "none" /\ b[0] = 0)
  BY <1>1 DEF History, Alone
<1>3. m_pkt' = m_pkt \/ (m_pkt' = m_pkt + 1 /\ p[0] = m_pkt + 1)
  <2>1. m_pkt' = m_pkt \/ (m_pkt' = m_pkt + 1 /\ m_valid)
    BY SinkStep
  <2>2. m_valid => p[Depth] > m_pkt
    BY AllPassed
  <2>. QED
    BY <1>1, <1>2, <2>1, <2>2
<1>4. p1[0] = m_pkt + 1 /\ b1[0] = 0 => s' = "none"
  <2>1. mode.inFlight = 1
    BY DEF OneAtATime
  <2>2. s' # "none" => b1[0] > 0 \/ p1[0] - m_pkt < 1
    BY <2>1, SourceStep
  <2>. QED
    BY <1>1, <2>2
<1>5. CASE p[0] = m_pkt + 1
  <2>1. p1[0] = p[0] /\ b1[0] = 0
    BY <1>1, <1>2, <1>5, SourceStep
  <2>. QED
    BY <1>1, <1>3, <1>4, <1>5, <2>1
<1>6. CASE p[0] = m_pkt
  <2>1. m_pkt' = m_pkt
    BY <1>1, <1>3, <1>6
  <2>2. p1[0] = p[0] \/ (p1[0] = p[0] + 1 /\ b1[0] = 0)
    BY SourceStep
  <2>. QED
    BY <1>1, <1>4, <1>6, <2>1, <2>2
<1>. QED
  BY <1>2, <1>5, <1>6

\* What is complete behind all sums is in the output registers, in front of the
\* sink.
LEMMA SinkSees ==
  ASSUME ArrayInv, NEW p, NEW b, History(p, b)
  PROVE  m_valid <=> p[Depth] > m_pkt
<1>1. LM + LA + (D-1) = Depth /\ D - 1 \in Diags /\ D - 1 >= m_beat
  <2>1. m_beat \in 0 .. C-1
    BY CountsKnown
  <2>. QED
    BY <2>1, Sizes DEF Depth
<1>. QED
  BY <1>1 DEF m_valid, History, Flags

\* Packets far apart: the new packet, if one ends, is as long as the distance
\* asks for, and the sink takes a beat with each clock.
LEMMA SpacedMoves ==
  ASSUME NEW p, NEW b, NEW p1, NEW b1, NEW ready, Moves(p, b, p1, b1, ready)
  PROVE  Spaced(p1, b1)'
<1>. USE DEF Moves
<1>. DEFINE k == mode.kmin
<1>0. mode' = mode
  BY DEF Clock
<1>. SUFFICES ASSUME FarApart
              PROVE  /\ s' = "last" => cur' + 1 >= k
                     /\ \A m, n \in Past : /\ p1[m] > p1[n] => m + b1[m] < n
                                           /\ p1[m] > p1[n] + 1 => m + k < n
                     /\ p1[Depth + 1 + m_beat'] = m_pkt'
  BY <1>0 DEF Spaced, FarApart
<1>1. /\ \A n \in Past : n # 0 => p1[n] = p[n-1] /\ b1[n] = b[n-1]
      /\ \A n \in Past : n \in Nat /\ (n # 0 => n - 1 \in Past)
      /\ \A n \in Past : p[n] \in Nat /\ b[n] \in Nat /\ p[n] <= p[0]
      /\ \A n \in Past : p1[n] \in Nat /\ b1[n] \in Nat /\ p1[n] <= p1[0]
      /\ k \in Nat \ {0} /\ 0 \in Past
  <2>1. Counts(p1, b1)'
    BY CountsMove
  <2>2. ASSUME NEW n \in Past PROVE p1[n] \in Nat /\ b1[n] \in Nat /\ p1[n] <= p1[0]
    BY <2>1, PastTaps DEF Counts
  <2>3. k \in Nat \ {0}
    BY ModeBounds DEF ArrayInv, TypeOK
  <2>. HIDE DEF k
  <2>. QED
    BY <2>2, <2>3, PastTaps, CountsKnown
<1>2. /\ s = "last" => b[0] + 1 >= k
      /\ \A m, n \in Past : /\ p[m] > p[n] => m + b[m] < n
                            /\ p[m] > p[n] + 1 => m + k < n
      /\ p[Depth + 1 + m_beat] = m_pkt
  BY CountsKnown DEF History, Spaced
<1>3. s' = "last" => cur' + 1 >= k
  BY SourceStep
<1>4. /\ s \in {"none", "mid", "last"}
      /\ s = "none" => p1[0] = p[0] /\ b1[0] = b[0]
      /\ s = "mid" => p1[0] = p[0] /\ b1[0] = b[0] + 1
      /\ s = "last" => p1[0] = p[0] + 1 /\ b1[0] = 0
  BY SourceStep
<1>. HIDE DEF k
<1>5. ASSUME NEW m \in Past, NEW n \in Past
      PROVE  /\ p1[m] > p1[n] => m + b1[m] < n
             /\ p1[m] > p1[n] + 1 => m + k < n
  <2>1. CASE n = 0
    <3>1. ~(p1[m] > p1[n])
      BY <1>1, <2>1
    <3>. QED
      BY <1>1, <3>1
  <2>2. CASE n # 0 /\ m # 0
    <3>1. /\ p[m-1] > p[n-1] => (m-1) + b[m-1] < n - 1
          /\ p[m-1] > p[n-1] + 1 => (m-1) + k < n - 1
      BY <1>1, <1>2, <2>2
    <3>2. m \in Nat /\ n \in Nat /\ b[m-1] \in Nat /\ p1[m] = p[m-1] /\ p1[n] = p[n-1] /\ b1[m] = b[m-1]
      BY <1>1, <2>2
    <3>. QED
      BY <1>1, <3>1, <3>2
  <2>3. CASE n # 0 /\ m = 0
    <3>1. /\ p[0] > p[n-1] => 0 + b[0] < n - 1
          /\ p[0] > p[n-1] + 1 => 0 + k < n - 1
      BY <1>1, <1>2, <2>3
    <3>2. n \in Nat \ {0} /\ p1[n] = p[n-1] /\ p[n-1] \in Nat /\ p[0] \in Nat /\ b[0] \in Nat
          /\ p[n-1] <= p[0]
      BY <1>1, <2>3
    <3>4. p1[0] > p1[n] => b1[0] < n
      <4>1. p[0] > p[n-1] => b[0] + 1 < n
        BY <3>1, <3>2
      <4>2. s = "last" => b1[0] < n
        BY <1>4, <3>2
      <4>3. s # "last" => p1[0] = p[0] /\ b1[0] <= b[0] + 1 /\ b1[0] \in Nat
        BY <1>1, <1>4, <3>2
      <4>. QED
        BY ONLY <3>2, <4>1, <4>2, <4>3
    <3>5. p1[0] > p1[n] + 1 => k < n
      <4>1. s = "last" => p1[0] = p[0] + 1 /\ k <= b[0] + 1
        BY <1>2, <1>4, <1>1, <3>2
      <4>2. s # "last" => p1[0] = p[0]
        BY <1>4
      <4>3. p[0] > p[n-1] => b[0] + 1 < n
        BY <3>1, <3>2
      <4>4. p[0] > p[n-1] + 1 => k < n
        BY <1>1, <3>1, <3>2
      <4>5. k \in Nat
        BY <1>1
      <4>. QED
        BY ONLY <3>2, <4>1, <4>2, <4>3, <4>4, <4>5
    <3>. QED
      BY <1>1, <2>3, <3>4, <3>5
  <2>. QED
    BY <2>1, <2>2, <2>3
<1>6. p1[Depth + 1 + m_beat'] = m_pkt'
  <2>0. /\ m_beat \in 0 .. C-1 /\ m_beat \in Nat /\ m_pkt \in Nat /\ Depth \in Nat /\ C \in Nat \ {0}
        /\ Depth \in Past /\ p[Depth] \in Nat /\ Depth + 1 \in Past /\ p1[Depth + 1] = p[Depth]
    <3>0. 0 \in 0 .. C-1
      BY Sizes
    <3>1. Depth + 1 + 0 \in Past /\ Depth \in Nat
      BY <3>0, PastTaps
    <3>2. Depth + 1 \in Past /\ Depth + 1 # 0 /\ (Depth + 1) - 1 = Depth
      BY <3>1
    <3>. QED
      BY <1>1, <3>2, CountsKnown, PastTaps
  <2>1. en_shift(ready) <=> p[Depth] > m_pkt
    BY SinkSees DEF en_shift, TakesAtOnce
  <2>2. CASE ~en_shift(ready)
    <3>1. m_pkt' = m_pkt /\ m_beat' = m_beat
      BY <2>2, SinkStep
    <3>2. m_beat = 0 /\ p[Depth] = m_pkt
      BY <2>0, <2>1, <2>2 DEF History, Receiving
    <3>. QED
      BY <2>0, <3>1, <3>2
  <2>3. CASE en_shift(ready) /\ m_beat # C-1
    <3>1. m_pkt' = m_pkt /\ m_beat' = m_beat + 1 /\ m_beat' \in 0 .. C-1
      BY <2>3, SinkStep
    <3>. DEFINE e == Depth + 1 + m_beat'
    <3>2. e \in Past /\ e # 0 /\ e - 1 = Depth + 1 + m_beat
      <4>. DEFINE x == m_beat'
      <4>1. x \in 0 .. C-1 /\ x = m_beat + 1
        BY <3>1
      <4>. HIDE DEF x
      <4>2. Depth + 1 + x \in Past
        BY <4>1, PastTaps
      <4>3. Depth + 1 + x # 0 /\ (Depth + 1 + x) - 1 = Depth + 1 + m_beat
        BY <2>0, <4>1
      <4>. QED
        BY <4>2, <4>3 DEF x
    <3>. QED
      BY <1>1, <1>2, <3>1, <3>2
  <2>4. CASE en_shift(ready) /\ m_beat = C-1
    <3>1. m_pkt' = m_pkt + 1 /\ m_beat' = 0
      BY <2>4, SinkStep
    <3>2. p[Depth] <= p[LM+LA] /\ p[LM+LA] <= m_pkt + 1 /\ p[LM+LA] \in Nat
      BY OneInside, CountsKnown, PastTaps
    <3>3. p[Depth] = m_pkt + 1
      BY <2>0, <2>1, <2>4, <3>2
    <3>. QED
      BY <2>0, <3>1, <3>3
  <2>. QED
    BY <2>2, <2>3, <2>4
<1>. QED
  BY <1>3, <1>5, <1>6 DEF k

\* What enters the first tap is the beat on offer; every other tap takes the
\* word of the one before it.
LEMMA WordsMove ==
  ASSUME NEW p, NEW b, NEW p1, NEW b1, NEW ready, Moves(p, b, p1, b1, ready), NEW lane
  PROVE  /\ BeatWord(p1, b1, 1, lane) = (IF s = "none" THEN Idle ELSE Word(lane))
         /\ \A n \in Stages : n # 1 => BeatWord(p1, b1, n, lane) = BeatWord(p, b, n-1, lane)
<1>1. \A n \in Past : n # 0 => p1[n] = p[n-1] /\ b1[n] = b[n-1]
  BY DEF Moves
<1>2. BeatWord(p1, b1, 1, lane) = (IF s = "none" THEN Idle ELSE Word(lane))
  <2>1. p1[1] = p[0] /\ b1[1] = b[0]
    <3>1. 1 \in Past
      BY PastTaps
    <3>. QED
      BY <1>1, <3>1
  <2>2. s = "none" <=> p1[0] = p1[1] /\ b1[0] = b1[1]
    BY <2>1, SourceStep
  <2>3. Word(lane) = WordOf(p[0] + 1, b[0] + 1, lane)
    BY SourceStep
  <2>. QED
    BY <2>1, <2>2, <2>3 DEF BeatWord
<1>3. ASSUME NEW n \in Stages, n # 1 PROVE BeatWord(p1, b1, n, lane) = BeatWord(p, b, n-1, lane)
  <2>1. n \in Past /\ n # 0 /\ n - 1 \in Past /\ n - 1 # 0
    BY <1>3, PastTaps
  <2>2. p1[n] = p[n-1] /\ b1[n] = b[n-1] /\ p1[n-1] = p[(n-1)-1] /\ b1[n-1] = b[(n-1)-1]
    BY <1>1, <2>1
  <2>. QED
    BY <2>2 DEF BeatWord
<1>. QED
  BY <1>2, <1>3

\* The lines of valid and last follow the history.
LEMMA LinesMove ==
  ASSUME NEW p, NEW b, NEW p1, NEW b1, NEW ready, Moves(p, b, p1, b1, ready)
  PROVE  Lines(p1, b1)'
<1>1. /\ valid' = Shift(valid, s # "none") /\ vlast' = Shift(vlast, s = "last")
      /\ valid \in [Stages -> BOOLEAN] /\ vlast \in [Stages -> BOOLEAN]
  BY Enabled DEF Moves, Clock, DelayLines, ArrayInv, TypeOK
<1>2. \A n \in Past : n # 0 => p1[n] = p[n-1] /\ b1[n] = b[n-1]
  BY DEF Moves
<1>3. \A n \in Stages :
        /\ valid'[n] <=> IF n = 1 THEN s # "none" ELSE valid[n-1]
        /\ vlast'[n] <=> IF n = 1 THEN s = "last" ELSE vlast[n-1]
  BY <1>1 DEF Shift
<1>4. ASSUME NEW n \in Stages
      PROVE  /\ valid'[n] <=> p1[n-1] # p1[n] \/ b1[n-1] # b1[n]
             /\ vlast'[n] <=> p1[n-1] # p1[n]
  <2>0. n \in Past /\ n # 0 /\ p1[n] = p[n-1] /\ b1[n] = b[n-1]
    BY <1>2, PastTaps
  <2>1. CASE n = 1
    <3>1. /\ valid'[n] <=> s # "none"
          /\ vlast'[n] <=> s = "last"
      BY <1>3, <2>1
    <3>. QED
      BY <2>0, <2>1, <3>1, SourceStep
  <2>2. CASE n # 1
    <3>1. n - 1 \in Stages /\ n - 1 \in Past /\ n - 1 # 0
      BY <2>2, PastTaps
    <3>2. p1[n-1] = p[(n-1)-1] /\ b1[n-1] = b[(n-1)-1]
      BY <1>2, <3>1
    <3>3. /\ valid[n-1] <=> p[(n-1)-1] # p[n-1] \/ b[(n-1)-1] # b[n-1]
          /\ vlast[n-1] <=> p[(n-1)-1] # p[n-1]
      BY <3>1 DEF Moves, History, Lines
    <3>. QED
      BY <1>3, <2>0, <2>2, <3>2, <3>3
  <2>. QED
    BY <2>1, <2>2
<1>. QED
  BY <1>4 DEF Lines

\* A sum that is complete is copied: it is the one of the packet that the sink
\* gets next, or of the one after it if the sink takes the last beat now.
LEMMA SumReady ==
  ASSUME NEW p, NEW b, NEW p1, NEW b1, NEW ready, Moves(p, b, p1, b1, ready), NEW d \in Diags
  PROVE  \E n \in Stages :
           /\ n = LM + LA + d /\ n - 1 = LM + LA + d - 1
           /\ p1[n] = p[n-1] /\ p[n] \in Nat /\ p[n-1] \in Nat /\ p[n] <= p[LM+LA]
           /\ r_copy(d, ready) <=> a_valid[d]
           /\ a_valid[d] => /\ p[n-1] = m_pkt' + 1 /\ b[n-1] = 0 /\ m_beat' = 0
                            /\ ~(d >= C-1 /\ en_shift(ready))
           /\ ~a_valid[d] => p[n-1] = p[n]
           /\ r_valid[d] <=> p[n] > m_pkt /\ d >= m_beat
<1>. USE DEF Moves
<1>1. PICK n \in Stages :
        /\ n = LM + LA + d /\ n - 1 = LM + LA + d - 1 /\ n >= LM + LA
        /\ n \in Past /\ n - 1 \in Past /\ p[n] \in Nat /\ p[n-1] \in Nat
        /\ p[n] <= p[n-1] /\ p[Depth] <= p[n] /\ p[Depth] \in Nat /\ m_pkt <= p[n]
        /\ a_valid[d] <=> p[n-1] # p[n]
        /\ a_valid[d] => p[n-1] = p[n] + 1 /\ b[n-1] = 0
        /\ r_valid[d] <=> p[n] > m_pkt /\ d >= m_beat
  BY BehindSum
<1>2. p1[n] = p[n-1]
  BY PastTaps
<1>3. r_copy(d, ready) <=> a_valid[d]
  <2>1. ~conflict(d) /\ ~reg_stall(d, ready)
    BY Enabled DEF en_mac
  <2>. QED
    BY <2>1 DEF conflict, reg_stall, can_copy, r_copy
<1>4. p[n] <= p[LM+LA] /\ p[LM+LA] <= m_pkt + 1 /\ p[LM+LA] \in Nat /\ m_pkt \in Nat
  <2>1. LM + LA \in Past
    BY PastTaps
  <2>. QED
    BY <1>1, <2>1, OneInside, CountsKnown
<1>5. ASSUME a_valid[d]
      PROVE  p[n-1] = m_pkt' + 1 /\ m_beat' = 0 /\ ~(d >= C-1 /\ en_shift(ready))
  <2>1. CASE m_valid
    <3>1. FarApart /\ d = 0 /\ m_beat = C-1 /\ C > 1
      BY <1>5, <2>1, CopyMeetsLast
    <3>2. en_shift(ready)
      BY <2>1, <3>1 DEF en_shift, TakesAtOnce
    <3>3. m_pkt' = m_pkt + 1 /\ m_beat' = 0
      BY <3>1, <3>2, SinkStep
    <3>4. p[Depth] > m_pkt
      BY <2>1, AllPassed
    <3>5. p[n-1] = m_pkt + 2
      BY <1>1, <1>4, <1>5, <3>4
    <3>6. ~(d >= C-1)
      BY <3>1, Sizes
    <3>. QED
      BY <1>4, <3>3, <3>5, <3>6
  <2>2. CASE ~m_valid
    <3>1. ~en_shift(ready) /\ m_pkt' = m_pkt /\ m_beat' = m_beat
      BY <2>2, SinkStep DEF en_shift
    <3>2. m_beat = 0
      <4>1. ~(p[Depth] > m_pkt)
        BY <2>2, SinkSees
      <4>2. m_beat \in Nat
        BY CountsKnown
      <4>. QED
        BY <4>1, <4>2 DEF History, Receiving
    <3>3. ~(p[n-1] > m_pkt + 1)
      <4>1. p[n-1] > m_pkt + 1 => m_beat = C-1 /\ C > 1
        BY <1>1, SecondPacket
      <4>. QED
        BY <3>2, <4>1, Sizes
    <3>. QED
      BY <1>1, <1>4, <1>5, <3>1, <3>2, <3>3
  <2>. QED
    BY <2>1, <2>2
<1>. QED
  BY <1>1, <1>2, <1>3, <1>4, <1>5

\* While results leave, the flag of the last register marks the column that
\* the next beat of zeros has reached.
LEMMA LastFlag ==
  ASSUME ArrayInv, NEW p, NEW b, History(p, b), m_valid, NEW d \in Diags
  PROVE  RLast(d) <=> d = m_beat
<1>1. CASE d = 0
  <2>1. PICK n \in Stages : /\ p[Depth] <= p[n] /\ p[Depth] \in Nat /\ p[n] \in Nat
                            /\ r_valid[0] <=> p[n] > m_pkt /\ 0 >= m_beat
    BY BehindSum, Sizes
  <2>2. p[Depth] > m_pkt /\ m_pkt \in Nat /\ m_beat \in Nat
    BY AllPassed, CountsKnown
  <2>3. r_valid[0] <=> 0 = m_beat
    BY <2>1, <2>2
  <2>. QED
    BY <1>1, <2>3 DEF RLast
<1>2. CASE d # 0
  <2>1. d \in 1 .. D - 1
    BY <1>2, Sizes DEF Diags
  <2>. QED
    BY <1>2, <2>1 DEF RLast, History, Flags
<1>. QED
  BY <1>1, <1>2

\* The accumulators know where a packet begins.
LEMMA FirstMoves ==
  ASSUME NEW p, NEW b, NEW p1, NEW b1, NEW ready, Moves(p, b, p1, b1, ready), NEW d \in Diags
  PROVE  m_first'[d] <=> b1[LM+d] = 0
<1>. USE DEF Moves
<1>1. PICK n \in Stages : n = LM + d
  BY DiagonalTaps
<1>2. m_first'[d] <=> IF valid[n] THEN vlast[n] ELSE m_first[d]
  BY <1>1 DEF Clock, FirstFlags
<1>3. /\ valid[n] <=> p[n-1] # p[n] \/ b[n-1] # b[n]
      /\ vlast[n] <=> p[n-1] # p[n]
  BY DEF History, Lines
<1>4. m_first[d] <=> b[n] = 0
  BY <1>1 DEF History, Flags
<1>5. Follows(p, b, n) /\ b[n] \in Nat /\ b[n-1] \in Nat /\ p[n] \in Nat /\ b1[n] = b[n-1]
  <2>1. n \in Past /\ n - 1 \in Past /\ n # 0
    BY PastTaps
  <2>. QED
    BY <2>1, CountsKnown DEF History, Counts
<1>6. m_first'[d] <=> b[n-1] = 0
  BY <1>2, <1>3, <1>4, <1>5 DEF Follows
<1>. QED
  BY <1>1, <1>5, <1>6

\* The output registers fill up with the copies and are emptied together.
LEMMA RegistersMove ==
  ASSUME NEW p, NEW b, NEW p1, NEW b1, NEW ready, Moves(p, b, p1, b1, ready), NEW d \in Diags
  PROVE  r_valid'[d] <=> p1[LM+LA+d] > m_pkt' /\ d >= m_beat'
<1>. USE DEF Moves
<1>1. PICK n \in Stages :
        /\ n = LM + LA + d /\ p1[n] = p[n-1] /\ p[n] \in Nat /\ p[n-1] \in Nat
        /\ p[n] <= p[LM+LA]
        /\ r_copy(d, ready) <=> a_valid[d]
        /\ a_valid[d] => /\ p[n-1] = m_pkt' + 1 /\ m_beat' = 0
                         /\ ~(d >= C-1 /\ en_shift(ready))
        /\ ~a_valid[d] => p[n-1] = p[n]
        /\ r_valid[d] <=> p[n] > m_pkt /\ d >= m_beat
  BY SumReady
<1>2. RegValid(ready) /\ r_valid \in [Diags -> BOOLEAN]
  BY DEF Clock, ArrayInv, TypeOK
<1>3. d \in Nat /\ m_beat \in Nat /\ m_beat \in 0 .. C-1 /\ m_pkt \in Nat /\ C \in Nat \ {0}
  BY CountsKnown DEF Diags
<1>4. CASE a_valid[d]
  <2>1. r_valid'[d]
    BY <1>1, <1>2, <1>4 DEF RegValid
  <2>2. m_pkt' + 1 > m_pkt' /\ d >= m_beat'
    <3>1. m_pkt' = m_pkt \/ m_pkt' = m_pkt + 1
      BY SinkStep
    <3>. QED
      BY <1>1, <1>3, <1>4, <3>1
  <2>. QED
    BY <1>1, <1>4, <2>1, <2>2
<1>5. CASE ~a_valid[d] /\ ~en_shift(ready)
  <2>1. m_pkt' = m_pkt /\ m_beat' = m_beat
    BY <1>5, SinkStep
  <2>2. r_valid'[d] <=> r_valid[d]
    BY <1>1, <1>2, <1>5 DEF RegValid, r_clear
  <2>. QED
    BY <1>1, <1>5, <2>1, <2>2
<1>6. CASE ~a_valid[d] /\ en_shift(ready) /\ m_beat # C-1
  <2>1. m_pkt' = m_pkt /\ m_beat' = m_beat + 1 /\ ~m_last /\ m_valid
    BY <1>6, SinkStep
  <2>2. r_valid'[d] <=> r_valid[d] /\ ~RLast(d)
    BY <1>1, <1>2, <1>6, <2>1 DEF RegValid, r_clear
  <2>3. RLast(d) <=> d = m_beat
    BY <2>1, LastFlag
  <2>4. d >= m_beat /\ d # m_beat <=> d >= m_beat + 1
    BY <1>3
  <2>. QED
    BY <1>1, <1>6, <2>1, <2>2, <2>3, <2>4
<1>7. CASE ~a_valid[d] /\ en_shift(ready) /\ m_beat = C-1
  <2>1. m_pkt' = m_pkt + 1 /\ m_beat' = 0 /\ m_last
    BY <1>7, SinkStep
  <2>2. ~r_valid'[d]
    <3>1. CASE d >= C-1
      BY <1>2, <1>7, <2>1, <3>1 DEF RegValid
    <3>2. CASE ~(d >= C-1)
      <4>1. ~r_valid[d]
        BY <1>1, <1>7, <3>2
      <4>. QED
        BY <1>1, <1>2, <1>7, <3>2, <4>1 DEF RegValid
    <3>. QED
      BY <3>1, <3>2
  <2>3. ~(p[n] > m_pkt + 1)
    <3>1. p[LM+LA] <= m_pkt + 1 /\ p[LM+LA] \in Nat
      BY OneInside, CountsKnown, PastTaps
    <3>. QED
      BY <1>1, <1>3, <3>1
  <2>. QED
    BY <1>1, <1>7, <2>1, <2>2, <2>3
<1>. QED
  BY <1>4, <1>5, <1>6, <1>7

\* The last flag moves along with the results.
LEMMA LastMoves ==
  ASSUME NEW p, NEW b, NEW p1, NEW b1, NEW ready, Moves(p, b, p1, b1, ready), NEW d \in 1 .. D-1
  PROVE  r_last'[d] <=> d = m_beat'
<1>. USE DEF Moves
<1>1. d - 1 \in Diags /\ d \in Nat \ {0} /\ m_beat \in Nat /\ C \in Nat \ {0}
  BY Sizes, CountsKnown DEF Diags
<1>2. CASE ~en_shift(ready)
  <2>1. r_last'[d] = r_last[d] /\ m_beat' = m_beat
    BY <1>2, SinkStep DEF Clock, LastFlags
  <2>. QED
    BY <2>1 DEF History, Flags
<1>3. CASE en_shift(ready)
  <2>1. m_valid /\ (RLast(d-1) <=> d - 1 = m_beat)
    BY <1>1, <1>3, SinkStep, LastFlag
  <2>2. r_last'[d] = IF d >= C-1 /\ m_last THEN FALSE ELSE RLast(d-1)
    BY <1>3 DEF Clock, LastFlags
  <2>3. CASE m_beat # C-1
    <3>1. ~m_last /\ m_beat' = m_beat + 1
      BY <1>3, <2>3, SinkStep
    <3>2. d - 1 = m_beat <=> d = m_beat + 1
      BY <1>1
    <3>. QED
      BY <2>1, <2>2, <3>1, <3>2
  <2>4. CASE m_beat = C-1
    <3>1. m_last /\ m_beat' = 0
      BY <1>3, <2>4, SinkStep
    <3>2. ~r_last'[d]
      BY <1>1, <2>1, <2>2, <2>4, <3>1
    <3>. QED
      BY <1>1, <3>1, <3>2
  <2>. QED
    BY <2>3, <2>4
<1>. QED
  BY <1>2, <1>3

\* The flags of the diagonals follow the lines.
LEMMA FlagsMove ==
  ASSUME NEW p, NEW b, NEW p1, NEW b1, NEW ready, Moves(p, b, p1, b1, ready)
  PROVE  Flags(p1, b1)'
<1>1. ASSUME NEW d \in Diags PROVE a_valid'[d] <=> vlast'[LM+LA+d]
  <2>0. en_mac(ready) /\ Clock(ready) /\ vlast \in [Stages -> BOOLEAN]
    BY Enabled DEF Moves, ArrayInv, TypeOK
  <2>1. PICK n \in Stages : n = LM + LA + d /\ n - 1 = LM + LA + d - 1
    BY OutTap
  <2>2. vlast'[LM+LA+d] = vlast[LM+LA+d-1]
    <3>1. n # 1
      BY <2>1, Sizes DEF Diags
    <3>2. vlast' = Shift(vlast, s = "last") /\ vlast \in [Stages -> BOOLEAN]
      BY <2>0 DEF Clock, DelayLines
    <3>3. vlast'[n] = vlast[n-1]
      BY <3>1, <3>2 DEF Shift
    <3>. QED
      BY <2>1, <3>3
  <2>3. a_valid'[d] = vlast[LM+LA+d-1]
    BY <2>0 DEF Clock, AccValid
  <2>. QED
    BY <2>2, <2>3
<1>. QED
  BY <1>1, FirstMoves, RegistersMove, LastMoves DEF Flags

\* The skew buffers: lane n is n taps deep.
LEMMA BuffersMove ==
  ASSUME NEW p, NEW b, NEW p1, NEW b1, NEW ready, Moves(p, b, p1, b1, ready)
  PROVE  Buffers(p1, b1)'
<1>1. /\ tri_x' = [r \in Rows |-> Shift(tri_x[r], sx_data(r))]
      /\ tri_k' = [c \in Cols |-> Shift(tri_k[c], sk_reversed(c))]
  BY Enabled DEF Moves, Clock, TriBuffer
<1>2. ASSUME NEW r \in Rows PROVE tri_x'[r] = [i \in 1 .. r |-> BeatWord(p1, b1, i, r)]
  <2>1. tri_x[r] = [i \in 1 .. r |-> BeatWord(p, b, i, r)]
    BY DEF Moves, History, Buffers
  <2>2. tri_x'[r] = [i \in 1 .. r |-> IF i = 1 THEN sx_data(r) ELSE tri_x[r][i-1]]
    BY <1>1, <2>1 DEF Shift
  <2>3. ASSUME NEW i \in 1 .. r
        PROVE  (IF i = 1 THEN sx_data(r) ELSE tri_x[r][i-1]) = BeatWord(p1, b1, i, r)
    <3>1. i \in Stages
      BY SizeAssumption DEF Rows, Stages, D
    <3>2. CASE i = 1
      BY <3>2, WordsMove DEF sx_data
    <3>3. CASE i # 1
      <4>1. i - 1 \in 1 .. r
        BY <3>3 DEF Rows
      <4>2. tri_x[r][i-1] = BeatWord(p, b, i-1, r)
        BY <2>1, <4>1
      <4>3. BeatWord(p1, b1, i, r) = BeatWord(p, b, i-1, r)
        BY <3>1, <3>3, WordsMove
      <4>. QED
        BY <3>3, <4>2, <4>3
    <3>. QED
      BY <3>2, <3>3
  <2>. QED
    BY <2>2, <2>3
<1>3. ASSUME NEW c \in Cols PROVE tri_k'[c] = [i \in 1 .. c |-> BeatWord(p1, b1, i, C-1-c)]
  <2>1. tri_k[c] = [i \in 1 .. c |-> BeatWord(p, b, i, C-1-c)]
    BY DEF Moves, History, Buffers
  <2>2. tri_k'[c] = [i \in 1 .. c |-> IF i = 1 THEN sk_reversed(c) ELSE tri_k[c][i-1]]
    BY <1>1, <2>1 DEF Shift
  <2>3. ASSUME NEW i \in 1 .. c
        PROVE  (IF i = 1 THEN sk_reversed(c) ELSE tri_k[c][i-1]) = BeatWord(p1, b1, i, C-1-c)
    <3>1. i \in Stages
      BY SizeAssumption DEF Cols, Stages, D
    <3>2. CASE i = 1
      BY <3>2, WordsMove DEF sk_reversed, sk_data
    <3>3. CASE i # 1
      <4>1. i - 1 \in 1 .. c
        BY <3>3 DEF Cols
      <4>2. tri_k[c][i-1] = BeatWord(p, b, i-1, C-1-c)
        BY <2>1, <4>1
      <4>3. BeatWord(p1, b1, i, C-1-c) = BeatWord(p, b, i-1, C-1-c)
        BY <3>1, <3>3, WordsMove
      <4>. QED
        BY <3>3, <4>2, <4>3
    <3>. QED
      BY <3>2, <3>3
  <2>. QED
    BY <2>2, <2>3
<1>. QED
  BY <1>2, <1>3 DEF Buffers

\* The operands of an element: the x of its row and the k of its column that
\* were accepted in the same clock, r+c clocks ago.
LEMMA OperandsHeld ==
  ASSUME NEW p, NEW b, History(p, b), NEW r \in Rows, NEW c \in Cols, r # 0 \/ c # 0
  PROVE  /\ xi(<<r, c>>) = BeatWord(p, b, r + c, r)
         /\ ki(<<r, c>>) = BeatWord(p, b, r + c, C-1-c)
<1>0. r \in Nat /\ c \in Nat
  BY ElementTaps
<1>1. xi(<<r, c>>) = BeatWord(p, b, r + c, r)
  <2>1. CASE c > 0
    <3>1. c - 1 \in Cols /\ r + (c-1) + 1 = r + c
      BY <1>0, <2>1, Sizes DEF Cols
    <3>2. xo[<<r, c-1>>] = BeatWord(p, b, r + (c-1) + 1, r)
      BY <3>1 DEF History, Operands
    <3>3. xi(<<r, c>>) = xo[<<r, c-1>>]
      BY <2>1 DEF xi
    <3>. QED
      BY <3>1, <3>2, <3>3
  <2>2. CASE c = 0
    <3>1. r # 0 /\ r \in 1 .. r /\ r + c = r
      BY <1>0, <2>2
    <3>2. xi(<<r, c>>) = tri_x[r][r]
      BY <2>2, <3>1 DEF xi
    <3>3. tri_x[r] = [i \in 1 .. r |-> BeatWord(p, b, i, r)]
      BY DEF History, Buffers
    <3>. QED
      BY <3>1, <3>2, <3>3
  <2>. QED
    BY <1>0, <2>1, <2>2
<1>2. ki(<<r, c>>) = BeatWord(p, b, r + c, C-1-c)
  <2>1. CASE r > 0
    <3>1. r - 1 \in Rows /\ (r-1) + c + 1 = r + c
      BY <1>0, <2>1, Sizes DEF Rows
    <3>2. ko[<<r-1, c>>] = BeatWord(p, b, (r-1) + c + 1, C-1-c)
      BY <3>1 DEF History, Operands
    <3>3. ki(<<r, c>>) = ko[<<r-1, c>>]
      BY <2>1 DEF ki
    <3>. QED
      BY <3>1, <3>2, <3>3
  <2>2. CASE r = 0
    <3>1. c # 0 /\ c \in 1 .. c /\ r + c = c
      BY <1>0, <2>2
    <3>2. ki(<<r, c>>) = tri_k[c][c]
      BY <2>2, <3>1 DEF ki
    <3>3. tri_k[c] = [i \in 1 .. c |-> BeatWord(p, b, i, C-1-c)]
      BY DEF History, Buffers
    <3>. QED
      BY <3>1, <3>2, <3>3
  <2>. QED
    BY <1>0, <2>1, <2>2
<1>. QED
  BY <1>1, <1>2

\* In the next clock they are one tap further.
LEMMA OperandsMeet ==
  ASSUME NEW p, NEW b, NEW p1, NEW b1, NEW ready, Moves(p, b, p1, b1, ready),
         NEW r \in Rows, NEW c \in Cols
  PROVE  /\ xi(<<r, c>>) = BeatWord(p1, b1, r + c + 1, r)
         /\ ki(<<r, c>>) = BeatWord(p1, b1, r + c + 1, C-1-c)
<1>0. r \in Nat /\ c \in Nat /\ r + c + 1 \in Stages
  BY ElementTaps
<1>1. CASE r = 0 /\ c = 0
  <2>1. xi(<<r, c>>) = sx_data(0) /\ ki(<<r, c>>) = sk_reversed(0)
    BY <1>1 DEF xi, ki
  <2>. QED
    BY <1>1, <2>1, WordsMove DEF sx_data, sk_reversed, sk_data
<1>2. ASSUME r # 0 \/ c # 0
      PROVE  \A lane : BeatWord(p1, b1, r + c + 1, lane) = BeatWord(p, b, r + c, lane)
  <2>2. PICK n \in Stages : n = r + c + 1
    BY <1>0
  <2>3. n # 1 /\ n - 1 = r + c
    BY <1>0, <1>2, <2>2
  <2>4. \A lane : BeatWord(p1, b1, n, lane) = BeatWord(p, b, n-1, lane)
    BY <2>3, WordsMove
  <2>. QED
    BY <2>2, <2>3, <2>4
<1>3. ASSUME r # 0 \/ c # 0
      PROVE  /\ xi(<<r, c>>) = BeatWord(p, b, r + c, r)
             /\ ki(<<r, c>>) = BeatWord(p, b, r + c, C-1-c)
  BY <1>3, OperandsHeld DEF Moves
<1>. QED
  BY <1>1, <1>2, <1>3

\* The operands are passed on and multiplied.
LEMMA OperandsMove ==
  ASSUME NEW p, NEW b, NEW p1, NEW b1, NEW ready, Moves(p, b, p1, b1, ready)
  PROVE  Operands(p1, b1)'
<1>. SUFFICES ASSUME NEW r \in Rows, NEW c \in Cols
              PROVE  /\ xo'[<<r, c>>] = BeatWord(p1, b1, r + c + 1, r)
                     /\ ko'[<<r, c>>] = BeatWord(p1, b1, r + c + 1, C-1-c)
                     /\ mul'[<<r, c>>] = [i \in 1 .. LM |->
                          <<BeatWord(p1, b1, r + c + i, r), BeatWord(p1, b1, r + c + i, C-1-c)>>]
  BY DEF Operands
<1>0. <<r, c>> \in PEs /\ r \in Nat /\ c \in Nat /\ LM \in Nat
  BY ElementTaps, Sizes
<1>1. /\ xo'[<<r, c>>] = xi(<<r, c>>) /\ ko'[<<r, c>>] = ki(<<r, c>>)
      /\ mul'[<<r, c>>] = Shift(mul[<<r, c>>], <<xi(<<r, c>>), ki(<<r, c>>)>>)
  BY <1>0, Enabled DEF Moves, Clock, Mac
<1>2. mul[<<r, c>>] = [i \in 1 .. LM |->
        <<BeatWord(p, b, r + c + i, r), BeatWord(p, b, r + c + i, C-1-c)>>]
  BY DEF Moves, History, Operands
<1>3. mul'[<<r, c>>] =
        [i \in 1 .. LM |-> IF i = 1 THEN <<xi(<<r, c>>), ki(<<r, c>>)>> ELSE mul[<<r, c>>][i-1]]
  BY <1>1, <1>2 DEF Shift
<1>4. ASSUME NEW i \in 1 .. LM
      PROVE  (IF i = 1 THEN <<xi(<<r, c>>), ki(<<r, c>>)>> ELSE mul[<<r, c>>][i-1])
               = <<BeatWord(p1, b1, r + c + i, r), BeatWord(p1, b1, r + c + i, C-1-c)>>
  <2>1. CASE i = 1
    BY <2>1, OperandsMeet
  <2>2. CASE i # 1
    <3>1. i - 1 \in 1 .. LM /\ r + c + (i-1) = (r + c + i) - 1 /\ r + c + i # 1
      BY <1>0, <2>2
    <3>2. mul[<<r, c>>][i-1] =
            <<BeatWord(p, b, r + c + (i-1), r), BeatWord(p, b, r + c + (i-1), C-1-c)>>
      BY <1>2, <3>1
    <3>3. r + c + i \in Stages
      BY ElementTaps
    <3>4. \A lane : BeatWord(p1, b1, r + c + i, lane) = BeatWord(p, b, (r + c + i) - 1, lane)
      BY <3>1, <3>3, WordsMove
    <3>. QED
      BY <2>2, <3>1, <3>2, <3>4
  <2>. QED
    BY <2>1, <2>2
<1>5. mul'[<<r, c>>] = [i \in 1 .. LM |->
        <<BeatWord(p1, b1, r + c + i, r), BeatWord(p1, b1, r + c + i, C-1-c)>>]
  BY <1>3, <1>4
<1>. QED
  BY <1>1, <1>5, OperandsMeet

\* One more product makes the sum of one more beat.
LEMMA PartialGrows ==
  ASSUME NEW pkt, NEW q \in Nat, NEW r, NEW c
  PROVE  Append(IF q = 0 THEN Zero ELSE Partial(pkt, q, r, c),
                <<WordOf(pkt, q + 1, r), WordOf(pkt, q + 1, C-1-c)>>)
           = Partial(pkt, q + 1, r, c)
<1>. DEFINE P(i) == <<WordOf(pkt, i, r), WordOf(pkt, i, C-1-c)>>
            T == {P(i) : i \in Nat}
            old == [i \in 1 .. q |-> P(i)]
            new == [i \in 1 .. q + 1 |-> P(i)]
<1>1. Partial(pkt, q, r, c) = old /\ Partial(pkt, q + 1, r, c) = new
  BY DEF Partial
<1>2. (IF q = 0 THEN Zero ELSE Partial(pkt, q, r, c)) = old
  <2>1. q = 0 => old = <<>>
    OBVIOUS
  <2>. QED
    BY <1>1, <2>1 DEF Zero
<1>3. old \in Seq(T) /\ Len(old) = q /\ P(q + 1) \in T
  <2>1. \A i \in 1 .. q : P(i) \in T
    OBVIOUS
  <2>2. P(q + 1) \in T
    OBVIOUS
  <2>. HIDE DEF P, T
  <2>. QED
    BY <2>1, <2>2
<1>4. Append(old, P(q + 1)) = new
  <2>. HIDE DEF P, T
  <2>1. Append(old, P(q + 1)) \in Seq(T) /\ Len(Append(old, P(q + 1))) = q + 1
    BY <1>3
  <2>2. \A i \in 1 .. q + 1 : Append(old, P(q + 1))[i] = P(i)
    BY <1>3
  <2>. QED
    BY <2>1, <2>2
<1>. QED
  BY <1>1, <1>2, <1>4

\* An accumulator adds the product of the beat that leaves the multiplier, and
\* begins anew with the first beat of a packet.
LEMMA Accumulates ==
  ASSUME ArrayInv, NEW p, NEW b, History(p, b), NEW r \in Rows, NEW c \in Cols,
         b[LM + (r + c) - 1] > 0 \/ p[LM + (r + c) - 1] > 0
  PROVE  Accumulate(<<r, c>>) = SumOf(p, b, LM + (r + c) - 1, r, c)
<1>1. r + c \in Diags /\ Diag(<<r, c>>) = r + c /\ r \in Nat /\ c \in Nat /\ LM \in Nat \ {0}
  BY ElementTaps, Sizes
<1>2. PICK n \in Stages : n = LM + (r + c) /\ n - 1 = LM + (r + c) - 1
  <2>1. LM + (r + c) \in Stages
    BY <1>1, DiagonalTaps
  <2>. QED
    BY <1>1, <2>1
<1>3. /\ p[n] \in Nat /\ p[n-1] \in Nat /\ b[n] \in Nat /\ b[n-1] \in Nat
      /\ Follows(p, b, n)
      /\ valid[n] <=> p[n-1] # p[n] \/ b[n-1] # b[n]
      /\ m_first[r + c] <=> b[n] = 0
  <2>1. n \in Past /\ n - 1 \in Past
    BY PastTaps
  <2>. QED
    BY <1>1, <1>2, <2>1, CountsKnown DEF History, Counts, Lines, Flags
<1>4. Accumulate(<<r, c>>) =
        IF valid[n]
        THEN Append(IF m_first[r + c] THEN Zero ELSE acc[<<r, c>>][1], mul[<<r, c>>][LM])
        ELSE acc[<<r, c>>][1]
  BY <1>1, <1>2 DEF Accumulate
<1>5. b[n] > 0 \/ p[n] > 0 => acc[<<r, c>>][1] = SumOf(p, b, n, r, c)
  <2>1. 1 \in 1 .. LA /\ LM + r + c + 1 - 1 = n
    BY <1>1, <1>2, Sizes
  <2>. QED
    BY <2>1 DEF History, Sums
<1>6. CASE ~valid[n]
  <2>1. p[n-1] = p[n] /\ b[n-1] = b[n]
    BY <1>3, <1>6
  <2>2. Accumulate(<<r, c>>) = SumOf(p, b, n, r, c)
    BY <1>2, <1>4, <1>5, <1>6, <2>1
  <2>3. SumOf(p, b, n, r, c) = SumOf(p, b, n-1, r, c)
    BY <2>1 DEF SumOf
  <2>. QED
    BY <1>2, <2>2, <2>3
<1>7. CASE valid[n]
  <2>1. mul[<<r, c>>][LM] =
          <<WordOf(p[n] + 1, b[n] + 1, r), WordOf(p[n] + 1, b[n] + 1, C-1-c)>>
    <3>1. LM \in 1 .. LM /\ r + c + LM = n
      BY <1>1, <1>2
    <3>4. mul[<<r, c>>] = [i \in 1 .. LM |->
            <<BeatWord(p, b, r + c + i, r), BeatWord(p, b, r + c + i, C-1-c)>>]
      BY DEF History, Operands
    <3>2. mul[<<r, c>>][LM] = <<BeatWord(p, b, n, r), BeatWord(p, b, n, C-1-c)>>
      BY <3>1, <3>4
    <3>3. \A lane : BeatWord(p, b, n, lane) = WordOf(p[n] + 1, b[n] + 1, lane)
      BY <1>3, <1>7 DEF BeatWord
    <3>. QED
      BY <3>2, <3>3
  <2>2. (IF m_first[r + c] THEN Zero ELSE acc[<<r, c>>][1])
          = IF b[n] = 0 THEN Zero ELSE Partial(p[n] + 1, b[n], r, c)
    BY <1>3, <1>5 DEF SumOf
  <2>3. Accumulate(<<r, c>>) = Partial(p[n] + 1, b[n] + 1, r, c)
    <3>. DEFINE old == IF b[n] = 0 THEN Zero ELSE Partial(p[n] + 1, b[n], r, c)
                new == <<WordOf(p[n] + 1, b[n] + 1, r), WordOf(p[n] + 1, b[n] + 1, C-1-c)>>
    <3>1. Append(old, new) = Partial(p[n] + 1, b[n] + 1, r, c)
      <4>1. PICK q \in Nat : q = b[n]
        BY <1>3
      <4>2. PICK k : k = p[n] + 1
        OBVIOUS
      <4>3. Append(IF q = 0 THEN Zero ELSE Partial(k, q, r, c),
                   <<WordOf(k, q + 1, r), WordOf(k, q + 1, C-1-c)>>)
              = Partial(k, q + 1, r, c)
        BY PartialGrows
      <4>. QED
        BY <4>1, <4>2, <4>3
    <3>2. (IF m_first[r + c] THEN Zero ELSE acc[<<r, c>>][1]) = old
      BY <2>2
    <3>3. mul[<<r, c>>][LM] = new
      BY <2>1
    <3>. HIDE DEF old, new
    <3>4. Accumulate(<<r, c>>) = Append(old, new)
      BY <1>4, <1>7, <3>2, <3>3
    <3>. QED
      BY <3>1, <3>4
  <2>4. CASE p[n-1] = p[n]
    <3>1. b[n-1] = b[n] + 1 /\ b[n-1] > 0
      BY <1>3, <1>7, <2>4 DEF Follows
    <3>2. SumOf(p, b, n-1, r, c) = Partial(p[n] + 1, b[n] + 1, r, c)
      BY <2>4, <3>1 DEF SumOf
    <3>. QED
      BY <1>2, <2>3, <3>2
  <2>5. CASE p[n-1] # p[n]
    <3>1. p[n-1] = p[n] + 1 /\ b[n-1] = 0 /\ klen[p[n] + 1] = b[n] + 1
      BY <1>3, <2>5 DEF Follows
    <3>2. SumOf(p, b, n-1, r, c) = Partial(p[n] + 1, b[n] + 1, r, c)
      BY <3>1 DEF SumOf, Full
    <3>. QED
      BY <1>2, <2>3, <3>2
  <2>. QED
    BY <2>4, <2>5
<1>. QED
  BY <1>6, <1>7

\* The sum of a packet stays that of its beats when the next ones come.
LEMMA SumKept ==
  ASSUME NEW p, NEW b, NEW p1, NEW b1, NEW ready, Moves(p, b, p1, b1, ready),
         NEW n \in Stages, p1[n] > 0 \/ b1[n] > 0, NEW r, NEW c
  PROVE  SumOf(p1, b1, n, r, c)' = SumOf(p, b, n-1, r, c)
<1>1. /\ p1[n] = p[n-1] /\ b1[n] = b[n-1] /\ p[n-1] \in Nat /\ b[n-1] \in Nat
      /\ p[n-1] <= p[0] /\ p[0] \in Nat
  <2>1. n \in Past /\ n # 0 /\ n - 1 \in Past
    BY PastTaps
  <2>. QED
    BY <2>1, CountsKnown, PastTaps DEF Moves
<1>2. CASE b[n-1] > 0
  BY <1>1, <1>2 DEF SumOf
<1>3. CASE ~(b[n-1] > 0)
  <2>1. p[n-1] \in 1 .. p[0]
    BY <1>1, <1>3
  <2>2. klen'[p[n-1]] = klen[p[n-1]]
    BY <2>1, SourceStep
  <2>. QED
    BY <1>1, <1>3, <2>2 DEF SumOf, Full
<1>. QED
  BY <1>2, <1>3

\* Stage i of an accumulator holds the sum of i-1 clocks ago.
LEMMA SumsMove ==
  ASSUME NEW p, NEW b, NEW p1, NEW b1, NEW ready, Moves(p, b, p1, b1, ready)
  PROVE  Sums(p1, b1)'
<1>. SUFFICES ASSUME NEW r \in Rows, NEW c \in Cols
              PROVE  /\ DOMAIN acc'[<<r, c>>] = 1 .. LA
                     /\ \A i \in 1 .. LA :
                          b1[LM + r + c + i - 1] > 0 \/ p1[LM + r + c + i - 1] > 0
                            => acc'[<<r, c>>][i] = SumOf(p1, b1, LM + r + c + i - 1, r, c)'
  BY DEF Sums
<1>0. <<r, c>> \in PEs /\ r \in Nat /\ c \in Nat /\ LM \in Nat /\ LA \in Nat
  BY ElementTaps, Sizes
<1>1. acc'[<<r, c>>] = Shift(acc[<<r, c>>], Accumulate(<<r, c>>))
  BY <1>0, Enabled DEF Moves, Clock, Mac
<1>2. DOMAIN acc[<<r, c>>] = 1 .. LA
  BY DEF Moves, History, Sums
<1>3. acc'[<<r, c>>] =
        [i \in 1 .. LA |-> IF i = 1 THEN Accumulate(<<r, c>>) ELSE acc[<<r, c>>][i-1]]
  BY <1>1, <1>2 DEF Shift
<1>4. ASSUME NEW i \in 1 .. LA, b1[LM + r + c + i - 1] > 0 \/ p1[LM + r + c + i - 1] > 0
      PROVE  acc'[<<r, c>>][i] = SumOf(p1, b1, LM + r + c + i - 1, r, c)'
  <2>1. PICK n \in Stages : n = LM + r + c + i - 1
    BY ElementTaps
  <2>2. p1[n] = p[n-1] /\ b1[n] = b[n-1] /\ (b[n-1] > 0 \/ p[n-1] > 0)
    BY <1>4, <2>1, PastTaps DEF Moves
  <2>3. SumOf(p1, b1, n, r, c)' = SumOf(p, b, n-1, r, c)
    BY <1>4, <2>1, SumKept
  <2>4. acc'[<<r, c>>][i] = SumOf(p, b, n-1, r, c)
    <3>1. CASE i = 1
      <4>1. n - 1 = LM + (r + c) - 1
        BY <1>0, <2>1, <3>1
      <4>2. Accumulate(<<r, c>>) = SumOf(p, b, n-1, r, c)
        BY <2>2, <4>1, Accumulates DEF Moves
      <4>. QED
        BY <1>3, <3>1, <4>2
    <3>2. CASE i # 1
      <4>1. i - 1 \in 1 .. LA /\ LM + r + c + (i-1) - 1 = n - 1
        BY <1>0, <2>1, <3>2
      <4>2. acc[<<r, c>>][i-1] = SumOf(p, b, n-1, r, c)
        BY <2>2, <4>1 DEF Moves, History, Sums
      <4>. QED
        BY <1>3, <3>2, <4>2
    <3>. QED
      BY <3>1, <3>2
  <2>5. SumOf(p1, b1, LM + r + c + i - 1, r, c)' = SumOf(p1, b1, n, r, c)'
    BY <2>1
  <2>. QED
    BY <2>3, <2>4, <2>5
<1>. QED
  BY <1>3, <1>4

\* The output registers take a sum that is complete, and hand the sums of their
\* row on to the sink, column by column.
LEMMA ResultsMove ==
  ASSUME NEW p, NEW b, NEW p1, NEW b1, NEW ready, Moves(p, b, p1, b1, ready)
  PROVE  Results(p1)'
<1>. SUFFICES ASSUME NEW r \in Rows, NEW c \in Cols,
                     p1[LM + LA + r + c] > m_pkt', c >= m_beat'
              PROVE  ro'[<<r, c>>] = Partial(m_pkt' + 1, klen'[m_pkt' + 1], r, c - m_beat')
  BY DEF Results
<1>0. /\ r \in Nat /\ c \in Nat /\ r + c \in Diags /\ <<r, c>> \in PEs /\ Diag(<<r, c>>) = r + c
      /\ LM \in Nat \ {0} /\ LA \in Nat \ {0}
  BY ElementTaps, Sizes
<1>1. /\ ArrayInv /\ Unhurried /\ History(p, b)
      /\ m_pkt \in Nat /\ m_beat \in Nat /\ m_beat \in 0 .. C-1
      /\ \A n \in Past : p[n] \in Nat /\ p[n] <= p[0]
  BY CountsKnown DEF Moves
<1>2. PICK n \in Stages :
        /\ n = LM + LA + (r + c) /\ n - 1 = LM + LA + (r + c) - 1
        /\ p1[n] = p[n-1] /\ p[n] \in Nat /\ p[n-1] \in Nat /\ p[n] <= p[LM+LA]
        /\ r_copy(r + c, ready) <=> a_valid[r + c]
        /\ a_valid[r + c] => /\ p[n-1] = m_pkt' + 1 /\ b[n-1] = 0 /\ m_beat' = 0
                             /\ ~(r + c >= C-1 /\ en_shift(ready))
        /\ ~a_valid[r + c] => p[n-1] = p[n]
  BY <1>0, SumReady
<1>3. n = LM + LA + r + c /\ p[n-1] > m_pkt' /\ n - 1 \in Past
  BY <1>0, <1>2, PastTaps
<1>4. ro'[<<r, c>>] = CASE r_copy(r + c, ready) -> acc[<<r, c>>][LA]
                        [] ~r_copy(r + c, ready) /\ en_shift(ready) -> ri(<<r, c>>)
                        [] OTHER -> ro[<<r, c>>]
  BY <1>0 DEF Moves, Clock, OutRegs
<1>5. CASE a_valid[r + c]
  <2>1. ro'[<<r, c>>] = acc[<<r, c>>][LA]
    BY <1>2, <1>4, <1>5
  <2>2. acc[<<r, c>>][LA] = SumOf(p, b, n-1, r, c)
    <3>1. LA \in 1 .. LA /\ LM + r + c + LA - 1 = n - 1 /\ p[n-1] > 0
      <4>1. m_pkt' \in Nat
        BY <1>1, SinkStep DEF Moves
      <4>. QED
        BY <1>0, <1>2, <1>5, <4>1
    <3>. QED
      BY <1>1, <3>1 DEF History, Sums
  <2>3. SumOf(p, b, n-1, r, c) = Partial(p[n-1], klen[p[n-1]], r, c)
    BY <1>2, <1>5 DEF SumOf, Full
  <2>4. klen'[p[n-1]] = klen[p[n-1]]
    <3>1. m_pkt' \in Nat
      BY <1>1, SinkStep DEF Moves
    <3>2. p[n-1] \in Nat /\ p[n-1] > 0
      BY ONLY <1>2, <1>3, <3>1
    <3>3. p[n-1] <= p[0] /\ p[0] \in Nat
      BY <1>1, <1>3, PastTaps
    <3>4. p[n-1] \in 1 .. p[0]
      BY ONLY <3>2, <3>3
    <3>. QED
      BY <3>3, <3>4, SourceStep
  <2>5. c - m_beat' = c
    BY <1>0, <1>2, <1>5
  <2>. QED
    BY <1>2, <1>5, <2>1, <2>2, <2>3, <2>4, <2>5
<1>6. ASSUME ~a_valid[r + c], m_pkt' = m_pkt
      PROVE  p[n] > m_pkt /\ p[n-1] > m_pkt /\ klen'[m_pkt + 1] = klen[m_pkt + 1]
  <2>1. p[n] > m_pkt /\ p[n-1] > m_pkt
    BY <1>2, <1>3, <1>6
  <2>2. m_pkt + 1 \in 1 .. p[0]
    <3>1. p[n-1] <= p[0] /\ p[0] \in Nat
      BY <1>1, <1>3, PastTaps
    <3>. QED
      BY <1>1, <1>2, <2>1, <3>1
  <2>. QED
    BY <2>1, <2>2, SourceStep
<1>7. CASE ~a_valid[r + c] /\ ~en_shift(ready)
  <2>1. ro'[<<r, c>>] = ro[<<r, c>>]
    BY <1>2, <1>4, <1>7
  <2>2. m_pkt' = m_pkt /\ m_beat' = m_beat
    BY <1>1, <1>7, SinkStep DEF Moves
  <2>3. ro[<<r, c>>] = Partial(m_pkt + 1, klen[m_pkt + 1], r, c - m_beat)
    <3>1. p[LM + LA + r + c] > m_pkt /\ c >= m_beat
      BY <1>3, <1>6, <1>7, <2>2
    <3>. QED
      BY <1>1, <3>1 DEF History, Results
  <2>. QED
    BY <1>6, <1>7, <2>1, <2>2, <2>3
<1>8. CASE ~a_valid[r + c] /\ en_shift(ready) /\ m_beat # C-1
  <2>1. m_pkt' = m_pkt /\ m_beat' = m_beat + 1
    BY <1>1, <1>8, SinkStep DEF Moves
  <2>2. c - 1 \in Cols /\ c - 1 >= m_beat /\ c # 0 /\ (c - 1) - m_beat = c - (m_beat + 1)
    BY <1>0, <1>1, <2>1, Sizes DEF Cols
  <2>3. ro'[<<r, c>>] = ro[<<r, c-1>>]
    BY <1>2, <1>4, <1>8, <2>2 DEF ri
  <2>4. ro[<<r, c-1>>] = Partial(m_pkt + 1, klen[m_pkt + 1], r, (c - 1) - m_beat)
    <3>1. p[LM + LA + r + (c - 1)] > m_pkt
      <4>1. LM + LA + r + (c - 1) = n - 1
        BY <1>0, <1>3
      <4>. QED
        BY <1>6, <1>8, <2>1, <4>1
    <3>. QED
      BY <1>1, <2>2, <3>1 DEF History, Results
  <2>. QED
    BY <1>6, <1>8, <2>1, <2>2, <2>3, <2>4
<1>9. ~(~a_valid[r + c] /\ en_shift(ready) /\ m_beat = C-1)
  <2>. SUFFICES ASSUME ~a_valid[r + c], en_shift(ready), m_beat = C-1 PROVE FALSE
    OBVIOUS
  <2>1. m_pkt' = m_pkt + 1
    BY <1>1, SinkStep DEF Moves
  <2>2. p[LM+LA] <= m_pkt + 1 /\ p[LM+LA] \in Nat
    BY <1>1, OneInside, PastTaps
  <2>. QED
    BY <1>1, <1>2, <1>3, <2>1, <2>2
<1>. QED
  BY <1>5, <1>7, <1>8, <1>9

\* All that the history says stays true.
LEMMA AllMove ==
  ASSUME NEW p, NEW b, NEW p1, NEW b1, NEW ready, Moves(p, b, p1, b1, ready)
  PROVE  History(p1, b1)'
BY CountsMove, ReceivingMoves, AloneMoves, SpacedMoves, LinesMove, FlagsMove, BuffersMove,
   OperandsMove, SumsMove, ResultsMove DEF History

\* Every history has a next one.
LEMMA HistoryStep ==
  ASSUME ArrayInv, Unhurried, NEW p \in [Past -> Nat], NEW b \in [Past -> Nat], History(p, b),
         Next
  PROVE  \E p1, b1 \in [Past -> Nat] : History(p1, b1)'
<1>1. PICK ready \in mode.readies : Clock(ready)
  BY DEF Next
<1>2. ready \in BOOLEAN /\ TakesAtOnce(ready)
  BY ModeBounds DEF ArrayInv, TypeOK, FarApart, TakesAtOnce
<1>3. Len(klen') \in Nat /\ cur' \in Nat
  <2>1. ArrayInv'
    BY <1>1, <1>2, ArrayStep
  <2>2. Len(klen') \in Nat
    BY <2>1 DEF ArrayInv, TypeOK
  <2>3. cur' \in Nat
    BY <2>1, ModeBounds DEF ArrayInv, TypeOK
  <2>. QED
    BY <2>2, <2>3
<1>4. PICK k \in Nat, q \in Nat : k = Len(klen') /\ q = cur'
  BY <1>3
<1>. DEFINE p1 == [n \in Past |-> IF n = 0 THEN k ELSE p[n-1]]
            b1 == [n \in Past |-> IF n = 0 THEN q ELSE b[n-1]]
<1>5. /\ p1 \in [Past -> Nat] /\ b1 \in [Past -> Nat] /\ p1[0] = k /\ b1[0] = q
      /\ \A n \in Past : n # 0 => p1[n] = p[n-1] /\ b1[n] = b[n-1]
  BY PastTaps
<1>. HIDE DEF p1, b1
<1>6. Moves(p, b, p1, b1, ready)
  BY <1>1, <1>2, <1>4, <1>5 DEF Moves
<1>. QED
  BY <1>5, <1>6, AllMove

(***************************************************************************)
(* HistoryInvariance: with neighbours that do not hurry the array, all     *)
(* that it holds is determined by when beats and packets were accepted.    *)
(***************************************************************************)
THEOREM HistoryInvariance == Spec => [](Unhurried => HistoryInv)
<1>1. Init => HistoryInv
  <2>. SUFFICES ASSUME Init PROVE HistoryInv
    OBVIOUS
  <2>1. [n \in Past |-> 0] \in [Past -> Nat]
    OBVIOUS
  <2>. QED
    BY <2>1, ArrayInit, HistoryInit DEF HistoryInv
<1>2. (Unhurried => HistoryInv) /\ [Next]_vars => (Unhurried' => HistoryInv')
  <2>0. [Next]_vars /\ Unhurried' => Unhurried
    <3>1. [Next]_vars => mode' = mode
      BY DEF Next, Clock, vars, envVars
    <3>. QED
      BY <3>1 DEF Unhurried, OneAtATime, FarApart
  <2>. SUFFICES ASSUME Unhurried, HistoryInv, [Next]_vars PROVE HistoryInv'
    BY <2>0
  <2>1. PICK p \in [Past -> Nat], b \in [Past -> Nat] : History(p, b)
    BY DEF HistoryInv
  <2>2. CASE Next
    <3>1. ArrayInv'
      <4>1. PICK ready \in mode.readies : Clock(ready)
        BY <2>2 DEF Next
      <4>2. ready \in BOOLEAN
        BY ModeBounds DEF HistoryInv, ArrayInv, TypeOK
      <4>. QED
        BY <4>1, <4>2, ArrayStep DEF HistoryInv
    <3>2. PICK p1 \in [Past -> Nat], b1 \in [Past -> Nat] : History(p1, b1)'
      BY <2>1, <2>2, HistoryStep DEF HistoryInv
    <3>. QED
      BY <3>1, <3>2 DEF HistoryInv
  <2>3. CASE UNCHANGED vars
    <3>. USE <2>3 DEF vars, ctlVars, dataVars, envVars
    <3>1. ArrayInv'
      BY DEF HistoryInv, ArrayInv, TypeOK, SourceInv, BufferTypes, Words
    <3>2. Counts(p, b)' /\ Receiving(p)' /\ Alone' /\ Spaced(p, b)'
      BY <2>1 DEF History, Counts, Follows, Receiving, Alone, OneAtATime, Spaced, FarApart
    <3>3. Lines(p, b)' /\ Flags(p, b)'
      BY <2>1 DEF History, Lines, Flags
    <3>4. Buffers(p, b)'
      BY <2>1 DEF History, Buffers
    <3>5. Operands(p, b)'
      BY <2>1 DEF History, Operands
    <3>6. Sums(p, b)' /\ Results(p)'
      BY <2>1 DEF History, Sums, SumOf, Full, Results
    <3>. QED
      BY <3>1, <3>2, <3>3, <3>4, <3>5, <3>6 DEF HistoryInv, History
  <2>. QED
    BY <2>2, <2>3
<1>. QED
  BY <1>1, <1>2, PTL DEF Spec

(***************************************************************************)
(* NoStall: when the neighbours do not hurry it, the array takes every     *)
(* beat in the clock it is offered: s_ready of axis_sa.sv is never low.    *)
(***************************************************************************)
THEOREM NoStall ==
  Spec => [](Unhurried => \A ready \in BOOLEAN : s_ready(ready))
<1>1. Unhurried /\ HistoryInv => \A ready \in BOOLEAN : s_ready(ready)
  BY Enabled DEF HistoryInv
<1>. QED
  BY HistoryInvariance, <1>1, PTL

(***************************************************************************)
(* LastBeats: when the neighbours do not hurry the array, m_last comes     *)
(* with the C-th beat of an output packet and with no other.               *)
(***************************************************************************)
THEOREM LastBeats == Spec => [](Unhurried => LastBeat)
<1>1. HistoryInv => LastBeat
  BY LastKnown DEF HistoryInv, LastBeat
<1>. QED
  BY HistoryInvariance, <1>1, PTL

(***************************************************************************)
(* ProductCorrect: when the neighbours do not hurry the array, every       *)
(* output beat is the column of the matrix product it stands for, for all  *)
(* sizes, latencies, packet lengths and gaps in the input.                 *)
(***************************************************************************)
THEOREM ProductCorrect == Spec => [](Unhurried => MatMul)
<1>1. ASSUME HistoryInv, m_valid
      PROVE  m_pkt < Len(klen) /\ \A r \in Rows : m_data(r) = DotProduct(m_pkt+1, r, m_beat)
  <2>1. PICK p \in [Past -> Nat], b \in [Past -> Nat] : History(p, b)
    BY <1>1 DEF HistoryInv
  <2>2. /\ p[Depth] > m_pkt /\ p[Depth] \in Nat /\ m_pkt \in Nat /\ p[Depth] <= p[0]
        /\ p[0] = Len(klen) /\ m_beat \in 0 .. C-1
        /\ \A n \in Past : n <= Depth => p[Depth] <= p[n] /\ p[n] \in Nat
    BY <1>1, <2>1, AllPassed, CountsKnown, PastTaps DEF HistoryInv
  <2>3. m_pkt < Len(klen)
    <3>1. p[0] \in Nat
      BY <2>1, PastTaps
    <3>. QED
      BY <2>2, <3>1
  <2>4. C \in Nat \ {0} /\ C - 1 \in Cols /\ C - 1 >= m_beat
    BY <2>2, Sizes DEF Cols
  <2>5. ASSUME NEW r \in Rows PROVE m_data(r) = DotProduct(m_pkt+1, r, m_beat)
    <3>1. PICK n \in Stages : n = LM + LA + r + (C-1)
      BY <2>4, ElementTaps
    <3>2. p[n] > m_pkt
      <4>1. p[Depth] <= p[n] /\ p[n] \in Nat
        BY <2>2, PastTaps
      <4>. QED
        BY <2>2, <4>1
    <3>3. ro[<<r, C-1>>] = Partial(m_pkt + 1, klen[m_pkt + 1], r, (C-1) - m_beat)
      BY <2>1, <2>4, <3>1, <3>2 DEF History, Results
    <3>4. C-1-((C-1) - m_beat) = m_beat
      BY <2>2, <2>4
    <3>. QED
      BY <3>3, <3>4 DEF m_data, Partial, DotProduct
  <2>. QED
    BY <2>3, <2>5
<1>2. HistoryInv => MatMul
  BY <1>1 DEF MatMul
<1>. QED
  BY HistoryInvariance, <1>2, PTL
=============================================================================
