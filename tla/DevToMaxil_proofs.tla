-------------------------- MODULE DevToMaxil_proofs --------------------------
(***************************************************************************)
(* The path of a register access implements RegPort, keeps its types and   *)
(* the gap between reads, for any registers, values and POLL_GAP.          *)
(***************************************************************************)
EXTENDS DevToMaxil, TLAPS, WellFoundedInduction

\* The path is quiet and idle after reset.
LEMMA PathInit == Init => PathInv
<1>. SUFFICES ASSUME Init PROVE PathInv
  OBVIOUS
<1>1. PathTypes
  <2>1. PICK a \in Addrs : Init!(a)
    BY DEF Init
  <2>2. cpu \in Accesses /\ req \in Accesses
    BY <2>1, DevToMaxilAssumption DEF Accesses
  <2>3. wr \in WrTypes /\ rd \in RdTypes
    BY <2>1, DevToMaxilAssumption DEF WrTypes, RdTypes
  <2>4. regs \in [Addrs -> Data]
    BY <2>1, DevToMaxilAssumption
  <2>. QED
    BY <2>1, <2>2, <2>3, <2>4 DEF PathTypes, States
<1>2. state = "S_IDLE" /\ WrQuiet /\ RdQuiet
  BY DEF Init, WrQuiet, RdQuiet
<1>. QED
  BY <1>1, <1>2 DEF PathInv, WStates, RStates

\* The registers change only as the hardware may, or by a software write.
LEMMA RegTypes ==
  ASSUME PathTypes, RegFile
  PROVE  regs' \in [Addrs -> Data]
  BY DEF PathTypes, RegFile, Refreshed, WrTypes

\* Each part of the path keeps values of its width in each clock.
LEMMA TypesKept ==
  ASSUME PathTypes, Clock
  PROVE  PathTypes'
<1>1. cpu' \in Accesses
  BY DEF PathTypes, Clock, Core
<1>2. state' \in States
  BY DEF PathTypes, Clock, Bridge, NState, States, WStates, RStates
<1>3. req_valid' \in BOOLEAN /\ req' \in Accesses
  BY DEF PathTypes, Clock, Bridge, Latch
<1>4. wr' \in WrTypes
  BY DEF PathTypes, Clock, WrPort, WrTypes, Accesses
<1>5. rd' \in RdTypes
  BY DEF PathTypes, Clock, RdPort, RdTypes, Accesses
<1>6. regs' \in [Addrs -> Data]
  BY RegTypes DEF Clock
<1>. QED
  BY <1>1, <1>2, <1>3, <1>4, <1>5, <1>6 DEF PathTypes

\* Every clock moves the bridge and the slave together.
LEMMA PathStep ==
  ASSUME PathInv, Clock
  PROVE  PathInv'
<1>0. PathTypes'
  BY TypesKept DEF PathInv
<1>. USE <1>0 DEF PathInv, PathTypes, WrTypes, RdTypes, Accesses
<1>1. CASE state = "S_IDLE"
  BY <1>1 DEF Clock, Bridge, NState, Latch, CanGrant, WrPort, RdPort, WrQuiet, RdQuiet,
    WStates, RStates, aw_hs, w_hs, b_hs, ar_hs, r_hs
<1>2. CASE state = "S_RESP"
  BY <1>2 DEF Clock, Bridge, NState, Latch, CanGrant, WrPort, RdPort, WrQuiet, RdQuiet,
    WStates, RStates, aw_hs, w_hs, b_hs, ar_hs, r_hs
<1>3. CASE state = "S_W_AW"
  BY <1>3 DEF Clock, Bridge, NState, Latch, CanGrant, WrPort, RdPort, WrQuiet, RdQuiet,
    WStates, RStates, aw_hs, w_hs, b_hs, ar_hs, r_hs
<1>4. CASE state = "S_W_W"
  BY <1>4 DEF Clock, Bridge, NState, Latch, CanGrant, WrPort, RdPort, WrBusy, RdQuiet,
    WStates, RStates, aw_hs, w_hs, b_hs, ar_hs, r_hs
<1>5. CASE state = "S_W_B"
  BY <1>5 DEF Clock, Bridge, NState, Latch, CanGrant, WrPort, RdPort, WrBusy, WrQuiet, RdQuiet,
    WStates, RStates, aw_hs, w_hs, b_hs, ar_hs, r_hs
<1>6. CASE state = "S_R_AR"
  BY <1>6 DEF Clock, Bridge, NState, Latch, CanGrant, WrPort, RdPort, WrQuiet, RdQuiet,
    WStates, RStates, aw_hs, w_hs, b_hs, ar_hs, r_hs
<1>7. CASE state = "S_R_WAIT"
  BY <1>7 DEF Clock, Bridge, NState, Latch, CanGrant, WrPort, RdPort, WrQuiet, RdQuiet,
    WStates, RStates, aw_hs, w_hs, b_hs, ar_hs, r_hs
<1>8. CASE state = "S_R_R"
  BY <1>8 DEF Clock, Bridge, NState, Latch, CanGrant, WrPort, RdPort, WrQuiet, RdQuiet,
    WStates, RStates, aw_hs, w_hs, b_hs, ar_hs, r_hs
<1>. QED
  BY <1>1, <1>2, <1>3, <1>4, <1>5, <1>6, <1>7, <1>8 DEF States, WStates, RStates

(***************************************************************************)
(* PathInvariance: the bridge and the slave always agree on how far the    *)
(* access has got (PathInv).                                               *)
(***************************************************************************)
THEOREM PathInvariance == Spec => []PathInv
<1>1. PathInv /\ [Next]_vars => PathInv'
  <2>1. ASSUME PathInv, Clock PROVE PathInv'
    BY <2>1, PathStep
  <2>2. ASSUME PathInv, UNCHANGED vars PROVE PathInv'
    BY <2>2 DEF PathInv, PathTypes, vars, WrQuiet, RdQuiet, WrBusy
  <2>. QED
    BY <2>1, <2>2 DEF Next
<1>. QED
  BY PathInit, <1>1, PTL DEF Spec
-----------------------------------------------------------------------------
\* A clock in which the software writes no register.
LEMMA Untouched ==
  ASSUME RegFile, ~wr.en
  PROVE  regs' \in Port!Refreshed(regs)
  BY DEF RegFile, Refreshed, Port!Refreshed

\* Every clock of the path is a step of the access or leaves it where it is.
LEMMA ClockRefines ==
  ASSUME PathInv, Clock
  PROVE  Port!Next
<1>. USE DEF PathInv, Clock, PathTypes
<1>1. CASE state = "S_IDLE" /\ ~req_valid
  <2>1. ~wr.en /\ regs' \in Port!Refreshed(regs)
    BY <1>1, Untouched DEF WrQuiet
  <2>2. op = [st |-> "idle"]
    BY <1>1 DEF op
  <2>3. state' = "S_IDLE" /\ ~wr.bvalid' /\ ~rd.rvalid'
    BY <1>1 DEF Bridge, NState, WrPort, RdPort, WrQuiet, RdQuiet, aw_hs, w_hs, b_hs, ar_hs, r_hs
  <2>4. CASE CanGrant
    <3>1. op' = [st |-> "pending", acc |-> cpu]
      BY <2>3, <2>4 DEF op, Performed, Bridge, Latch
    <3>. QED
      BY <2>1, <2>2, <3>1 DEF Port!Next, Port!Issue, Port!Accesses, Port!Idle, Accesses
  <2>5. CASE ~CanGrant
    <3>1. op' = op
      BY <1>1, <2>2, <2>5 DEF op, Bridge, Latch
    <3>. QED
      BY <2>1, <3>1 DEF Port!Next, Port!HardwareOnly
  <2>. QED
    BY <2>4, <2>5
<1>2. CASE state \in {"S_W_AW", "S_R_AR", "S_W_W"} \/ (state = "S_IDLE" /\ req_valid)
  <2>1. ~wr.en /\ regs' \in Port!Refreshed(regs)
    BY <1>2, Untouched DEF WrQuiet
  <2>2. req_valid /\ req_valid' /\ req' = req
    BY <1>2 DEF Bridge, Latch, CanGrant
  <2>3. ~Performed
    BY <1>2 DEF Performed, WrQuiet, RdQuiet, WStates
  <2>4. ~Performed'
    BY <1>2 DEF Performed, Bridge, NState, WrPort, RdPort, WrQuiet, RdQuiet, WStates,
                aw_hs, w_hs, b_hs, ar_hs, r_hs
  <2>5. op' = op
    BY <2>2, <2>3, <2>4 DEF op
  <2>. QED
    BY <2>1, <2>5 DEF Port!Next, Port!HardwareOnly
<1>3. CASE state = "S_W_B" /\ wr.en
  <2>1. req_valid /\ req_valid' /\ req' = req /\ req.we
    BY <1>3 DEF Bridge, Latch, CanGrant, WStates
  <2>2. ~Performed /\ Performed'
    BY <1>3 DEF Performed, WrPort, WrBusy, RdQuiet, WStates, WrTypes
  <2>3. op = [st |-> "pending", acc |-> req] /\ op' = [st |-> "done", acc |-> req]
    BY <2>1, <2>2 DEF op
  <2>4. \E after \in Port!Refreshed(regs) : regs' = [after EXCEPT ![req.addr] = req.data]
    BY <1>3 DEF RegFile, Refreshed, Port!Refreshed, WrBusy
  <2>. QED
    BY <2>1, <2>3, <2>4 DEF Port!Next, Port!Perform
<1>4. CASE state = "S_W_B" /\ ~wr.en
  <2>1. regs' \in Port!Refreshed(regs)
    BY <1>4, Untouched
  <2>2. req_valid /\ req_valid' /\ req' = req /\ req.we
    BY <1>4 DEF Bridge, Latch, CanGrant, WStates
  <2>3. Performed /\ Performed'
    <3>1. wr.bvalid
      BY <1>4 DEF WrBusy
    <3>2. state' = "S_RESP"
      BY <1>4, <3>1 DEF Bridge, NState, b_hs, w_hs, aw_hs, ar_hs, r_hs
    <3>. QED
      BY <3>1, <3>2 DEF Performed
  <2>4. op' = op
    BY <2>2, <2>3 DEF op
  <2>. QED
    BY <2>1, <2>4 DEF Port!Next, Port!HardwareOnly
<1>5. CASE state = "S_R_WAIT"
  <2>1. ~wr.en /\ regs' \in Port!Refreshed(regs)
    BY <1>5, Untouched DEF WrQuiet, RStates
  <2>2. req_valid /\ req_valid' /\ req' = req /\ ~req.we
    BY <1>5 DEF Bridge, Latch, CanGrant, RStates
  <2>3. state' = "S_R_R" /\ rd.en /\ rd'.rvalid /\ rd'.rdata = regs[req.addr]
    BY <1>5 DEF Bridge, NState, RdPort, aw_hs, w_hs, b_hs, ar_hs, r_hs
  <2>4. ~Performed /\ Performed' /\ Result' = regs[req.addr]
    BY <1>5, <2>3 DEF Performed, Result, WrQuiet, RStates
  <2>5. op = [st |-> "pending", acc |-> req]
    BY <2>2, <2>4 DEF op
  <2>6. op' = [st |-> "done", acc |-> [req EXCEPT !.data = regs[req.addr]]]
    BY <2>2, <2>4 DEF op
  <2>. QED
    BY <2>1, <2>2, <2>5, <2>6 DEF Port!Next, Port!Perform
<1>6. CASE state = "S_R_R"
  <2>1. ~wr.en /\ regs' \in Port!Refreshed(regs)
    BY <1>6, Untouched DEF WrQuiet, RStates
  <2>2. req_valid /\ req_valid' /\ req' = req /\ ~req.we
    BY <1>6 DEF Bridge, Latch, CanGrant, RStates
  <2>3. state' = "S_RESP" /\ resp_rdata' = rd.rdata
    BY <1>6 DEF Bridge, NState, aw_hs, w_hs, b_hs, ar_hs, r_hs
  <2>4. Performed /\ Performed' /\ Result' = Result
    BY <1>6, <2>3 DEF Performed, Result
  <2>5. op' = op
    BY <2>2, <2>4 DEF op
  <2>. QED
    BY <2>1, <2>5 DEF Port!Next, Port!HardwareOnly
<1>7. CASE state = "S_RESP"
  <2>1. ~wr.en /\ regs' \in Port!Refreshed(regs)
    BY <1>7, Untouched DEF WrQuiet
  <2>2. op.st = "done"
    BY <1>7 DEF op, Performed
  <2>3. op' = [st |-> "idle"]
    BY <1>7 DEF op, Bridge, Latch, CanGrant
  <2>. QED
    BY <2>1, <2>2, <2>3 DEF Port!Next, Port!Reply, Port!Idle
<1>. QED
  BY <1>1, <1>2, <1>3, <1>4, <1>5, <1>6, <1>7 DEF States, WStates, RStates

(***************************************************************************)
(* Atomic: the bridge with the AXI-Lite slave implements RegPort: a        *)
(* register access takes effect exactly once, at one instant between its   *)
(* grant and its answer (AtomicAccess).                                    *)
(***************************************************************************)
THEOREM Atomic == Spec => AtomicAccess
<1>1. Init => Port!Init
  BY DEF Init, Port!Init, Port!Idle, op
<1>2. PathInv /\ [Next]_vars => [Port!Next]_<<regs, op>>
  <2>1. ASSUME PathInv, Clock PROVE Port!Next
    BY <2>1, ClockRefines
  <2>2. ASSUME UNCHANGED vars PROVE UNCHANGED <<regs, op>>
    BY <2>2 DEF vars, op, Performed, Result
  <2>. QED
    BY <2>1, <2>2 DEF Next
<1>. QED
  BY PathInvariance, <1>1, <1>2, PTL DEF Spec, AtomicAccess, Port!Spec
-----------------------------------------------------------------------------
\* A set of naturals has a least element.
LEMMA LeastElement ==
  ASSUME NEW S \in SUBSET Nat, S # {}
  PROVE  \E m \in S : \A k \in S : m <= k
<1>1. PICK m \in S : \A k \in S : <<k, m>> \notin OpToRel(<, Nat)
  BY NatLessThanWellFounded, WFMin
<1>2. ASSUME NEW k \in S PROVE m <= k
  <2>1. k \in Nat /\ m \in Nat
    OBVIOUS
  <2>2. k < m => <<k, m>> \in OpToRel(<, Nat)
    BY <2>1 DEF OpToRel
  <2>3. ~(k < m)
    BY <1>1, <2>2
  <2>. QED
    BY <2>1, <2>3
<1>. QED
  BY <1>2

\* A number of POLL_GAP fits POLL_GAP bits and more.
LEMMA BitsSuffice == \A w \in 0 .. POLL_GAP : w + 1 <= 2 ^ w
<1>. DEFINE Bad == {w \in 0 .. POLL_GAP : ~(w + 1 <= 2 ^ w)}
<1>1. SUFFICES ASSUME Bad # {} PROVE FALSE
  OBVIOUS
<1>2. PICK m \in Bad : \A k \in Bad : m <= k
  <2>1. Bad \in SUBSET Nat
    BY DevToMaxilAssumption
  <2>. HIDE DEF Bad
  <2>. QED
    BY <1>1, <2>1, LeastElement
<1>3. m \in 0 .. POLL_GAP /\ POLL_GAP \in Nat /\ ~(m + 1 <= 2 ^ m)
  BY DevToMaxilAssumption
<1>4. m # 0
  <2>1. m = 0 => 2 ^ m = 1
    BY PowersOfTwo
  <2>2. 0 + 1 <= 1
    OBVIOUS
  <2>. QED
    BY <1>3, <2>1, <2>2
<1>5. m - 1 \in 0 .. POLL_GAP /\ (m - 1) + 1 = m /\ m - 1 < m
  BY <1>3, <1>4
<1>6. m - 1 \notin Bad
  BY <1>2, <1>3, <1>5
<1>7. m <= 2 ^ (m - 1)
  BY <1>5, <1>6
<1>8. 2 ^ (m - 1) \in Nat /\ 2 ^ m = 2 * 2 ^ (m - 1)
  BY <1>5, PowersOfTwo
<1>. QED
  <2>. DEFINE half == 2 ^ (m - 1) whole == 2 ^ m
  <2>1. half \in Nat /\ whole = 2 * half /\ m <= half /\ ~(m + 1 <= whole)
    BY <1>3, <1>7, <1>8
  <2>2. m \in Nat /\ m >= 1
    BY <1>3, <1>4
  <2>. HIDE DEF half, whole
  <2>. QED
    BY <2>1, <2>2

\* The counter is as wide as POLL_GAP needs: CW bits hold POLL_GAP - 1.
LEMMA CounterWidth ==
  ASSUME POLL_GAP > 1
  PROVE  2 ^ CW \in Nat /\ POLL_GAP <= 2 ^ CW
<1>. DEFINE Wide == {w \in 0 .. POLL_GAP : POLL_GAP <= 2 ^ w}
<1>1. POLL_GAP \in Nat
  BY DevToMaxilAssumption
<1>2. POLL_GAP \in Wide
  <2>1. POLL_GAP \in 0 .. POLL_GAP
    BY <1>1
  <2>2. POLL_GAP + 1 <= 2 ^ POLL_GAP /\ 2 ^ POLL_GAP \in Nat
    BY <2>1, BitsSuffice, PowersOfTwo
  <2>3. POLL_GAP <= 2 ^ POLL_GAP
    <3>. DEFINE pow == 2 ^ POLL_GAP
    <3>1. pow \in Nat /\ POLL_GAP + 1 <= pow
      BY <2>2
    <3>. HIDE DEF pow
    <3>2. POLL_GAP <= pow
      BY <1>1, <3>1
    <3>. QED
      BY <3>2 DEF pow
  <2>. QED
    BY <2>1, <2>3
<1>3. PICK m \in Wide : \A k \in Wide : m <= k
  <2>1. Wide \in SUBSET Nat
    BY <1>1
  <2>. HIDE DEF Wide
  <2>. QED
    BY <1>2, <2>1, LeastElement
<1>4. m \in 0 .. POLL_GAP /\ POLL_GAP <= 2 ^ m
  OBVIOUS
<1>5. m # 0
  <2>1. m = 0 => 2 ^ m = 1
    BY PowersOfTwo
  <2>2. ~(POLL_GAP <= 1)
    BY <1>1
  <2>. QED
    BY <1>4, <2>1, <2>2
<1>6. m \in 1 .. POLL_GAP /\ m - 1 \in 0 .. POLL_GAP /\ m - 1 < m
  BY <1>1, <1>4, <1>5
<1>7. 2 ^ (m - 1) < POLL_GAP
  <2>1. m - 1 \notin Wide
    BY <1>3, <1>4, <1>6
  <2>2. ~(POLL_GAP <= 2 ^ (m - 1)) /\ 2 ^ (m - 1) \in Nat
    BY <1>6, <2>1, PowersOfTwo
  <2>. DEFINE pow == 2 ^ (m - 1)
  <2>3. ~(POLL_GAP <= pow) /\ pow \in Nat
    BY <2>2
  <2>. HIDE DEF pow
  <2>4. pow < POLL_GAP
    BY <1>1, <2>3
  <2>. QED
    BY <2>4 DEF pow
<1>. DEFINE Fits(w) == 2 ^ (w - 1) < POLL_GAP /\ POLL_GAP <= 2 ^ w
<1>8. CW = CHOOSE w \in 1 .. POLL_GAP : Fits(w)
  BY <1>1 DEF CW
<1>9. \E w \in 1 .. POLL_GAP : Fits(w)
  BY <1>4, <1>6, <1>7
<1>10. CW \in 1 .. POLL_GAP /\ Fits(CW)
  <2>. HIDE DEF Fits
  <2>. QED
    BY <1>8, <1>9
<1>. QED
  BY <1>1, <1>10, PowersOfTwo

\* The value loaded is POLL_GAP - 1 also when POLL_GAP is a power of two and
\* its low CW bits are zero.
LEMMA CooldownLoads ==
  ASSUME POLL_GAP > 1
  PROVE  /\ CooldownLoad = POLL_GAP - 1
         /\ POLL_GAP - 1 \in 0 .. 2 ^ CW - 1
<1>. DEFINE Full == 2 ^ CW
<1>1. Full \in Nat /\ POLL_GAP <= Full /\ POLL_GAP \in Nat /\ POLL_GAP > 1
  BY CounterWidth, DevToMaxilAssumption
<1>2. CooldownLoad = ((POLL_GAP % Full) - 1) % Full
  BY DEF CooldownLoad
<1>3. Full = 2 ^ CW
  OBVIOUS
<1>. HIDE DEF Full
<1>4. CASE POLL_GAP = Full
  <2>1. POLL_GAP % Full = 0
    BY <1>1, <1>4
  <2>2. (0 - 1) % Full = Full - 1
    BY <1>1
  <2>. QED
    BY <1>1, <1>2, <1>3, <1>4, <2>1, <2>2
<1>5. CASE POLL_GAP # Full
  <2>1. POLL_GAP % Full = POLL_GAP
    BY <1>1, <1>5
  <2>2. (POLL_GAP - 1) % Full = POLL_GAP - 1
    BY <1>1
  <2>. QED
    BY <1>1, <1>2, <1>3, <2>1, <2>2
<1>. QED
  BY <1>4, <1>5

(***************************************************************************)
(* GapInv: what the throttle has still to count and what has passed since  *)
(* the last granted read make up the gap; a clock that grants a write      *)
(* stops the count, so that the sum may exceed it.                         *)
(***************************************************************************)
GapInv ==
  /\ TypeOK
  /\ POLL_GAP > 1 => rd_cooldown + since >= POLL_GAP - 1
  /\ POLL_GAP <= 1 => rd_cooldown = 0

\* TypeOK holds what PathTypes does, and the rest.
LEMMA TypesSplit ==
  TypeOK <=> /\ PathTypes
             /\ data_req \in BOOLEAN /\ resp_rdata \in Data
             /\ rd_cooldown \in 0 .. 2 ^ CW - 1
             /\ since \in 0 .. POLL_GAP
BY DEF TypeOK, PathTypes

\* The counter has at least one bit.
LEMMA CounterRange == 2 ^ CW \in Nat \ {0}
<1>1. CASE POLL_GAP > 1
  <2>. DEFINE Full == 2 ^ CW
  <2>1. Full \in Nat /\ POLL_GAP <= Full
    BY <1>1, CounterWidth
  <2>. HIDE DEF Full
  <2>2. Full \in Nat \ {0}
    BY <1>1, <2>1, DevToMaxilAssumption
  <2>. QED
    BY <2>2 DEF Full
<1>2. CASE ~(POLL_GAP > 1)
  <2>1. CW = 1
    BY <1>2, DevToMaxilAssumption DEF CW
  <2>2. 2 ^ 0 = 1 /\ 2 ^ (0 + 1) = 2 * 2 ^ 0
    BY PowersOfTwo, DevToMaxilAssumption
  <2>3. 2 ^ 1 = 2
    BY <2>2
  <2>. QED
    BY <2>1, <2>3
<1>. QED
  BY <1>1, <1>2

\* After reset the throttle is open.
LEMMA GapInit == Init => GapInv
<1>. SUFFICES ASSUME Init PROVE GapInv
  OBVIOUS
<1>1. PathTypes
  BY PathInit DEF PathInv
<1>2. data_req = FALSE /\ resp_rdata = 0 /\ rd_cooldown = 0 /\ since = POLL_GAP
  BY DEF Init
<1>3. 0 \in 0 .. 2 ^ CW - 1
  <2>. DEFINE Full == 2 ^ CW
  <2>1. Full \in Nat \ {0}
    BY CounterRange
  <2>. HIDE DEF Full
  <2>2. 0 \in 0 .. Full - 1
    BY <2>1
  <2>. QED
    BY <2>2 DEF Full
<1>4. POLL_GAP \in Nat /\ 0 \in Data
  BY DevToMaxilAssumption
<1>5. TypeOK
  <2>1. data_req \in BOOLEAN /\ resp_rdata \in Data
    BY <1>2, <1>4
  <2>2. since \in 0 .. POLL_GAP
    BY <1>2, <1>4
  <2>3. rd_cooldown \in 0 .. 2 ^ CW - 1
    BY <1>2, <1>3
  <2>. QED
    BY <1>1, <2>1, <2>2, <2>3, TypesSplit
<1>. QED
  BY <1>2, <1>4, <1>5 DEF GapInv

\* A counter that counts down by at most one while another counts up to the
\* gap keeps their sum at the gap.
LEMMA SumKept ==
  ASSUME NEW g \in Nat, NEW c \in Nat, NEW c1 \in Nat, NEW s \in 0 .. g, NEW s1 \in 0 .. g,
         c1 = c \/ c1 = c - 1, c + s >= g - 1,
         s1 = IF s < g THEN s + 1 ELSE s
  PROVE  c1 + s1 >= g - 1
OBVIOUS

\* One clock of the throttle: loaded, counted down, or left, with the clocks
\* since the last read counted beside it.
LEMMA ThrottleStep ==
  ASSUME GapInv, Clock
  PROVE  /\ rd_cooldown' \in 0 .. 2 ^ CW - 1
         /\ since' \in 0 .. POLL_GAP
         /\ POLL_GAP > 1 => rd_cooldown' + since' >= POLL_GAP - 1
         /\ POLL_GAP <= 1 => rd_cooldown' = 0
<1>. DEFINE Full == 2 ^ CW
            load == CooldownLoad
<1>1. Full \in Nat \ {0} /\ POLL_GAP \in Nat
  BY CounterRange, DevToMaxilAssumption
<1>2. rd_cooldown \in 0 .. Full - 1 /\ since \in 0 .. POLL_GAP
  BY DEF GapInv, TypeOK
<1>3. POLL_GAP > 1 => load = POLL_GAP - 1 /\ POLL_GAP - 1 \in 0 .. Full - 1
  BY CooldownLoads
<1>4. rd_cooldown' = IF CanGrant /\ ~cpu.we /\ POLL_GAP > 1 THEN load
                     ELSE IF ~CanGrant /\ POLL_GAP > 1 /\ rd_cooldown > 0 THEN rd_cooldown - 1
                     ELSE rd_cooldown
  BY DEF Clock, Bridge, Cooldown
<1>5. since' = IF CanGrant /\ ~cpu.we THEN 0
               ELSE IF since < POLL_GAP THEN since + 1 ELSE since
  BY DEF Clock
<1>6. /\ POLL_GAP > 1 => rd_cooldown + since >= POLL_GAP - 1
      /\ POLL_GAP <= 1 => rd_cooldown = 0
  BY DEF GapInv
<1>7. Full = 2 ^ CW
  OBVIOUS
<1>. HIDE DEF Full, load
<1>8. CASE POLL_GAP > 1 /\ CanGrant /\ ~cpu.we
  <2>1. rd_cooldown' = POLL_GAP - 1 /\ since' = 0
    BY <1>3, <1>4, <1>5, <1>8
  <2>. QED
    BY <1>1, <1>3, <1>7, <1>8, <2>1
<1>9. CASE POLL_GAP > 1 /\ ~(CanGrant /\ ~cpu.we)
  <2>1. rd_cooldown' \in {rd_cooldown, rd_cooldown - 1} /\ (rd_cooldown' # rd_cooldown => rd_cooldown > 0)
    BY <1>4, <1>9
  <2>2. since' = IF since < POLL_GAP THEN since + 1 ELSE since
    BY <1>5, <1>9
  <2>3. rd_cooldown' \in 0 .. Full - 1 /\ since' \in 0 .. POLL_GAP
    BY <1>1, <1>2, <2>1, <2>2
  <2>4. rd_cooldown' + since' >= POLL_GAP - 1
    <3>1. rd_cooldown \in Nat /\ rd_cooldown' \in Nat
      BY <1>1, <1>2, <2>3
    <3>2. rd_cooldown + since >= POLL_GAP - 1
      BY <1>6, <1>9
    <3>. QED
      BY <1>1, <1>2, <2>1, <2>2, <2>3, <3>1, <3>2, SumKept
  <2>5. ~(POLL_GAP <= 1)
    BY <1>1, <1>9
  <2>. QED
    BY <1>7, <2>3, <2>4, <2>5
<1>10. CASE ~(POLL_GAP > 1)
  <2>1. rd_cooldown' = rd_cooldown /\ rd_cooldown = 0
    BY <1>1, <1>4, <1>6, <1>10
  <2>2. since' \in 0 .. POLL_GAP
    BY <1>1, <1>2, <1>5
  <2>. QED
    BY <1>2, <1>7, <1>10, <2>1, <2>2
<1>. QED
  BY <1>8, <1>9, <1>10

\* Every clock keeps the throttle ahead of the history.
LEMMA GapStep ==
  ASSUME GapInv, Clock
  PROVE  GapInv'
<1>1. PathTypes'
  BY TypesKept, TypesSplit DEF GapInv
<1>2. data_req' \in BOOLEAN
  BY DEF Clock, Core, GapInv, TypeOK
<1>3. resp_rdata' \in Data
  BY DEF Clock, Bridge, GapInv, TypeOK, RdTypes
<1>4. TypeOK'
  BY <1>1, <1>2, <1>3, ThrottleStep DEF TypeOK, PathTypes
<1>. QED
  BY <1>4, ThrottleStep DEF GapInv

(***************************************************************************)
(* GapInvariance: the types of the path and the balance of the throttle    *)
(* (GapInv) hold in every state of dev_to_maxil and its slave.             *)
(***************************************************************************)
THEOREM GapInvariance == Spec => []GapInv
<1>1. GapInv /\ [Next]_vars => GapInv'
  <2>1. ASSUME GapInv, Clock PROVE GapInv'
    BY <2>1, GapStep
  <2>2. ASSUME GapInv, UNCHANGED vars PROVE GapInv'
    BY <2>2 DEF GapInv, TypeOK, vars
  <2>. QED
    BY <2>1, <2>2 DEF Next
<1>. QED
  BY GapInit, <1>1, PTL DEF Spec

(***************************************************************************)
(* TypeCorrect: all registers of the path, the cooldown counter among      *)
(* them, hold values of their width (TypeOK).                              *)
(***************************************************************************)
THEOREM TypeCorrect == Spec => []TypeOK
<1>1. GapInv => TypeOK
  BY DEF GapInv
<1>. QED
  BY GapInvariance, <1>1, PTL

(***************************************************************************)
(* ReadsKeepGap: dev_to_maxil grants a read POLL_GAP clocks after the one  *)
(* before it or later (PollGap), for every POLL_GAP: also the powers of    *)
(* two, whose low CW bits are zero.                                        *)
(***************************************************************************)
THEOREM ReadsKeepGap == Spec => []PollGap
<1>1. GapInv => PollGap
  <2>. SUFFICES ASSUME GapInv, CanGrant, ~cpu.we PROVE since + 1 >= POLL_GAP
    BY DEF PollGap
  <2>1. rd_cooldown = 0
    BY DEF CanGrant
  <2>2. since \in 0 .. POLL_GAP /\ POLL_GAP \in Nat
    BY DevToMaxilAssumption DEF GapInv, TypeOK
  <2>3. POLL_GAP > 1 => rd_cooldown + since >= POLL_GAP - 1
    BY DEF GapInv
  <2>. QED
    BY <2>1, <2>2, <2>3
<1>. QED
  BY GapInvariance, <1>1, PTL
=============================================================================
