----------------------------- MODULE DevToMaxil -----------------------------
(***************************************************************************)
(* The path of a register access in the Ibex system, clock by clock:       *)
(* the bridge rtl/sys/dev_to_maxil.sv, which turns a request of the core   *)
(* into an AXI-Lite transaction, and the two halves of the AXI-Lite slave  *)
(* (rtl/ext/alex_axilite_wr.sv, alex_axilite_rd.sv) in front of the        *)
(* registers, as wired by rtl/sys/sa_for_ibex.v and rtl/sys/top_axi_int.v  *)
(* (reg_wr_ack = reg_rd_ack = 1, no wait).  Addresses are word indexes,    *)
(* byte strobes are not used by the registers, the answer is always OKAY,  *)
(* and with the acknowledge tied high the slave's timeout counter decides  *)
(* nothing: these are left out.                                            *)
(***************************************************************************)
EXTENDS Integers

CONSTANTS Addrs, Data, Status, POLL_GAP

ASSUME DevToMaxilAssumption ==
  Status \subseteq Addrs /\ 0 \in Data /\ Addrs # {} /\ POLL_GAP \in Nat

\* What exponentiation is, as far as the width of the counter needs it: the
\* provers know no more of it.
ASSUME PowersOfTwo ==
  2 ^ 0 = 1 /\ \A w \in 0 .. POLL_GAP : 2 ^ w \in Nat /\ 2 ^ (w + 1) = 2 * 2 ^ w

VARIABLES
  data_req,     \* the core requests ...
  cpu,          \* ... this access
  state,        \* the bridge's state
  req_valid,    \* it holds a request ...
  req,          \* ... this one
  resp_rdata,   \* data captured for the answer
  rd_cooldown,  \* clocks until the next read may be granted
  wr,           \* write half of the slave: latched AW and W, B, reg_wr_en
  rd,           \* read half of the slave: latched AR, R, reg_rd_en
  regs,         \* the register file
  since         \* history: clocks after that of the last read grant, up to POLL_GAP

vars == <<data_req, cpu, state, req_valid, req, resp_rdata, rd_cooldown, wr, rd, regs, since>>

Accesses == [we : BOOLEAN, addr : Addrs, data : Data]

WStates == {"S_W_AW", "S_W_W", "S_W_B"}
RStates == {"S_R_AR", "S_R_WAIT", "S_R_R"}
States == WStates \cup RStates \cup {"S_IDLE", "S_RESP"}

Refreshed == {after \in [Addrs -> Data] : \A a \in Addrs \ Status : after[a] = regs[a]}

Init ==
  \E a \in Addrs :
    LET acc == [we |-> FALSE, addr |-> a, data |-> 0] IN
    /\ data_req = FALSE /\ cpu = acc
    /\ state = "S_IDLE" /\ req_valid = FALSE /\ req = acc
    /\ resp_rdata = 0 /\ rd_cooldown = 0
    /\ wr = [awvalid |-> FALSE, awaddr |-> a, wvalid |-> FALSE, wdata |-> 0,
             bvalid |-> FALSE, en |-> FALSE]
    /\ rd = [arvalid |-> FALSE, araddr |-> a, rdata |-> 0, rvalid |-> FALSE, en |-> FALSE]
    /\ regs = [b \in Addrs |-> 0]
    /\ since = POLL_GAP
-----------------------------------------------------------------------------
\* data_gnt_o: a request is taken when none is held, a read not too early.
CanGrant == data_req /\ state = "S_IDLE" /\ ~req_valid /\ (cpu.we \/ rd_cooldown = 0)

\* The core holds its request until it is granted.
Core ==
  IF data_req /\ ~CanGrant
  THEN UNCHANGED <<data_req, cpu>>
  ELSE /\ data_req' \in BOOLEAN
       /\ cpu' \in IF data_req' THEN Accesses ELSE {cpu}

\* Bits of the cooldown counter.
CW == IF POLL_GAP <= 1 THEN 1
      ELSE CHOOSE w \in 1 .. POLL_GAP : 2 ^ (w - 1) < POLL_GAP /\ POLL_GAP <= 2 ^ w

\* Mutant: the subtraction is not cut to the counter's width.
mut_CooldownLoad == (POLL_GAP % (2 ^ CW)) - 1

\* POLL_GAP[CW-1:0] - 1 in CW bits; a power of two wraps to the right value.
CooldownLoad == ((POLL_GAP % (2 ^ CW)) - 1) % (2 ^ CW)

\* Mutant: it is the write that starts the counter.
mut_Cooldown ==
  rd_cooldown' = IF CanGrant /\ cpu.we /\ POLL_GAP > 1 THEN CooldownLoad
                 ELSE IF ~CanGrant /\ POLL_GAP > 1 /\ rd_cooldown > 0 THEN rd_cooldown - 1
                 ELSE rd_cooldown

\* A granted read starts the counter; a clock that grants nothing counts.
Cooldown ==
  rd_cooldown' = IF CanGrant /\ ~cpu.we /\ POLL_GAP > 1 THEN CooldownLoad
                 ELSE IF ~CanGrant /\ POLL_GAP > 1 /\ rd_cooldown > 0 THEN rd_cooldown - 1
                 ELSE rd_cooldown

\* Mutant: the request is kept after its answer.
mut_Latch ==
  IF CanGrant THEN req_valid' = TRUE /\ req' = cpu ELSE UNCHANGED <<req_valid, req>>

\* One request is latched when granted and dropped when answered.
Latch ==
  IF CanGrant THEN req_valid' = TRUE /\ req' = cpu
  ELSE req_valid' = (req_valid /\ state # "S_RESP") /\ req' = req

\* Handshakes as seen by the bridge.
aw_hs == state = "S_W_AW" /\ ~wr.awvalid
w_hs  == state = "S_W_W" /\ ~wr.wvalid
b_hs  == state = "S_W_B" /\ wr.bvalid
ar_hs == state = "S_R_AR" /\ ~rd.arvalid
r_hs  == state = "S_R_R" /\ rd.rvalid

\* A write goes through AW, W and B one after the other; a read leaves one
\* clock between AR and R.
NState ==
  CASE state = "S_IDLE" /\ req_valid -> IF req.we THEN "S_W_AW" ELSE "S_R_AR"
    [] aw_hs -> "S_W_W"
    [] w_hs -> "S_W_B"
    [] b_hs -> "S_RESP"
    [] ar_hs -> "S_R_WAIT"
    [] state = "S_R_WAIT" -> "S_R_R"
    [] r_hs -> "S_RESP"
    [] state = "S_RESP" -> "S_IDLE"
    [] OTHER -> state

Bridge ==
  /\ state' = NState
  /\ Latch
  /\ Cooldown
  /\ resp_rdata' = IF r_hs THEN rd.rdata ELSE resp_rdata
-----------------------------------------------------------------------------
\* Mutant: the enable is not taken back by the pending response.
mut_WrPort ==
  LET aw == IF wr.awvalid THEN ~b_hs ELSE state = "S_W_AW"
      w  == IF wr.wvalid THEN ~b_hs ELSE state = "S_W_W"
      b  == wr.en \/ (wr.bvalid /\ state # "S_W_B")
  IN  wr' = [awvalid |-> aw, awaddr |-> IF wr.awvalid THEN wr.awaddr ELSE req.addr,
             wvalid |-> w, wdata |-> IF wr.wvalid THEN wr.wdata ELSE req.data,
             bvalid |-> b, en |-> aw /\ w]

\* The write half: AW and W are latched apart, reg_wr_en is raised when both
\* are there and no response is, and with it both are released.
WrPort ==
  LET aw == IF wr.awvalid THEN ~wr.en ELSE state = "S_W_AW"
      w  == IF wr.wvalid THEN ~wr.en ELSE state = "S_W_W"
      b  == wr.en \/ (wr.bvalid /\ state # "S_W_B")
  IN  wr' = [awvalid |-> aw, awaddr |-> IF wr.awvalid THEN wr.awaddr ELSE req.addr,
             wvalid |-> w, wdata |-> IF wr.wvalid THEN wr.wdata ELSE req.data,
             bvalid |-> b, en |-> aw /\ w /\ ~b]

\* The read half: AR is latched, then reg_rd_en takes the register's value.
RdPort ==
  LET ar == IF rd.arvalid THEN ~rd.en ELSE state = "S_R_AR"
      r  == rd.en \/ (rd.rvalid /\ state # "S_R_R")
  IN  rd' = [arvalid |-> ar, araddr |-> IF rd.arvalid THEN rd.araddr ELSE req.addr,
             rdata |-> IF rd.en THEN regs[rd.araddr] ELSE rd.rdata,
             rvalid |-> r, en |-> ar /\ ~r]

\* The register file: the hardware's writes, then the software's.
RegFile ==
  \E after \in Refreshed :
    regs' = IF wr.en THEN [after EXCEPT ![wr.awaddr] = wr.wdata] ELSE after

Clock ==
  /\ Core
  /\ Bridge
  /\ WrPort
  /\ RdPort
  /\ RegFile
  /\ since' = IF CanGrant /\ ~cpu.we THEN 0
              ELSE IF since < POLL_GAP THEN since + 1 ELSE since

Next == Clock

Spec == Init /\ [][Next]_vars

\* The clock keeps ticking.
FairSpec == Spec /\ WF_vars(Clock)
-----------------------------------------------------------------------------
WrTypes == [awvalid : BOOLEAN, awaddr : Addrs, wvalid : BOOLEAN, wdata : Data,
            bvalid : BOOLEAN, en : BOOLEAN]
RdTypes == [arvalid : BOOLEAN, araddr : Addrs, rdata : Data, rvalid : BOOLEAN, en : BOOLEAN]

(***************************************************************************)
(* TypeOK: all registers hold values of their width; in particular the     *)
(* cooldown counter fits its CW bits.                                      *)
(***************************************************************************)
TypeOK ==
  /\ data_req \in BOOLEAN /\ cpu \in Accesses
  /\ state \in States /\ req_valid \in BOOLEAN /\ req \in Accesses
  /\ resp_rdata \in Data
  /\ rd_cooldown \in 0 .. 2 ^ CW - 1
  /\ wr \in WrTypes /\ rd \in RdTypes
  /\ regs \in [Addrs -> Data]
  /\ since \in 0 .. POLL_GAP

(***************************************************************************)
(* PollGap: a read is granted at the earliest POLL_GAP clocks after the    *)
(* read granted before it (`minimum gap (in cycles) between accepted READ  *)
(* requests', dev_to_maxil.sv:6).                                          *)
(***************************************************************************)
PollGap == CanGrant /\ ~cpu.we => since + 1 >= POLL_GAP

(***************************************************************************)
(* Answered: a request of the core is granted and then answered: throttle, *)
(* bridge and slave never wait for each other.                             *)
(***************************************************************************)
Answered ==
  /\ data_req /\ cpu.we ~> state = "S_W_B"
  /\ data_req /\ ~cpu.we ~> state = "S_R_R"
  /\ req_valid ~> state = "S_RESP"
-----------------------------------------------------------------------------
(***************************************************************************)
(* The abstract access: pending once latched, done once the slave has a    *)
(* response for it, and what the core is answered is resp_rdata.           *)
(***************************************************************************)
Performed == wr.bvalid \/ rd.rvalid \/ state = "S_RESP"

Result == IF state = "S_RESP" THEN resp_rdata ELSE rd.rdata

op ==
  IF ~req_valid THEN [st |-> "idle"]
  ELSE IF ~Performed THEN [st |-> "pending", acc |-> req]
  ELSE [st |-> "done", acc |-> IF req.we THEN req ELSE [req EXCEPT !.data = Result]]

Port == INSTANCE RegPort WITH regs <- regs, op <- op

(***************************************************************************)
(* AtomicAccess: the path implements RegPort: every write reaches its      *)
(* register exactly once, every read returns the value of its register at  *)
(* one instant between grant and answer, and accesses do not overlap.      *)
(***************************************************************************)
AtomicAccess == Port!Spec
-----------------------------------------------------------------------------
\* What the path holds, apart from the throttle.
PathTypes ==
  /\ cpu \in Accesses
  /\ state \in States /\ req_valid \in BOOLEAN /\ req \in Accesses
  /\ wr \in WrTypes /\ rd \in RdTypes
  /\ regs \in [Addrs -> Data]

WrQuiet == ~wr.awvalid /\ ~wr.wvalid /\ ~wr.bvalid /\ ~wr.en
RdQuiet == ~rd.arvalid /\ ~rd.rvalid /\ ~rd.en

\* The write half while the bridge waits for its response: about to write
\* the register, or answering.
WrBusy ==
  \/ /\ wr.awvalid /\ wr.wvalid /\ wr.en /\ ~wr.bvalid
     /\ wr.awaddr = req.addr /\ wr.wdata = req.data
  \/ ~wr.awvalid /\ ~wr.wvalid /\ ~wr.en /\ wr.bvalid

(***************************************************************************)
(* PathInv: in each state of the bridge the slave holds exactly the part   *)
(* of the request it has been given, and in between it is quiet.           *)
(***************************************************************************)
PathInv ==
  /\ PathTypes
  /\ state # "S_IDLE" => req_valid
  /\ state \in WStates => req.we
  /\ state \in RStates => ~req.we
  /\ state \in {"S_IDLE", "S_RESP", "S_W_AW", "S_R_AR"} => WrQuiet /\ RdQuiet
  /\ state \in RStates => WrQuiet
  /\ state \in WStates => RdQuiet
  /\ state = "S_W_W" => /\ wr.awvalid /\ wr.awaddr = req.addr
                        /\ ~wr.wvalid /\ ~wr.bvalid /\ ~wr.en
  /\ state = "S_W_B" => WrBusy
  /\ state = "S_R_WAIT" => rd.arvalid /\ rd.en /\ rd.araddr = req.addr /\ ~rd.rvalid
  /\ state = "S_R_R" => ~rd.arvalid /\ ~rd.en /\ rd.rvalid
=============================================================================
