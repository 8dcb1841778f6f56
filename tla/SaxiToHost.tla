----------------------------- MODULE SaxiToHost -----------------------------
(***************************************************************************)
(* rtl/sys/saxi_to_host.sv, clock by clock: an AXI4 slave that performs    *)
(* the bursts of the accelerator's DMAs one word at a time on the request/ *)
(* grant/response port of an Ibex bus.  Addresses count words.  The master *)
(* sends aligned INCR bursts of full words only (other addresses are not   *)
(* accepted by the code and not sent by the DMAs); ids and strobes travel  *)
(* with their burst or beat and are left out.  rd_cmd_valid equals rd_busy *)
(* and r_hold_valid equals s_axi_rvalid at all times; each pair is one     *)
(* variable.  have_grant is written but never read.                        *)
(***************************************************************************)
EXTENDS Integers

CONSTANTS
  RdAddrs, WrAddrs,  \* start addresses of read and write bursts
  Lens,              \* AxLEN of the bursts (beats - 1)
  W                  \* width of the beat counters (8 in the code)

\* A burst of 2^W beats would make its counter wrap to 0 and never end; the
\* DMAs are built with AXI_MAX_BURST_LEN = 1 (top_axi_int.v:93).
ASSUME SaxiToHostAssumption ==
  /\ RdAddrs \subseteq Nat /\ WrAddrs \subseteq Nat
  /\ W \in Nat \ {0} /\ 2 ^ W \in Nat \ {0}  \* so for every W; the provers do not know ^
  /\ Lens \subseteq 0 .. 2 ^ W - 2

VARIABLES
  ar, aw,         \* the master's address channels: valid, addr, len
  eng,            \* eng_state
  cur_is_write, error_seen,
  rd, wr,         \* commands: busy, next address, beats remaining
  wd,             \* write data buffer: valid, and which beat of the burst it is
  r, b,           \* the R and B channels
  bus,            \* the access granted on the host port, until its response
  rburst, wburst  \* history: the burst last accepted, accesses granted, beats
                  \* or data handed over, whether any access failed

vars == <<ar, aw, eng, cur_is_write, error_seen, rd, wr, wd, r, b, bus, rburst, wburst>>

Beats == 0 .. 2 ^ W - 1
NoBurst == [start |-> 0, len |-> 0, granted |-> 0, passed |-> 0, err |-> FALSE]

Init ==
  /\ ar = [valid |-> FALSE, addr |-> 0, len |-> 0] /\ aw = ar
  /\ eng = "IDLE" /\ cur_is_write = FALSE /\ error_seen = FALSE
  /\ rd = [busy |-> FALSE, addr |-> 0, len |-> 0] /\ wr = rd
  /\ wd = [valid |-> FALSE, beat |-> 0]
  /\ r = [valid |-> FALSE, data |-> 0, err |-> FALSE, last |-> FALSE]
  /\ b = [valid |-> FALSE, err |-> FALSE]
  /\ bus = [owed |-> FALSE, addr |-> 0]
  /\ rburst = NoBurst /\ wburst = NoBurst
-----------------------------------------------------------------------------
(* Inputs of one clock.  A signal that nothing looks at is not varied.     *)
If(cond) == IF cond THEN BOOLEAN ELSE {FALSE}

Inputs ==
  [rready : If(r.valid), bready : If(b.valid), gnt : If(eng = "ISSUE"),
   rsp : IF bus.owed THEN {"none", "okay", "error"} ELSE {"none"},
   wvalid : If(eng = "W_ACTIVE" /\ wburst.passed <= wburst.len)]

r_taken(in) == r.valid /\ in.rready
b_taken(in) == b.valid /\ in.bready
answered(in) == in.rsp # "none"
failed(in) == in.rsp = "error"

ar_ok == ar.valid /\ ~rd.busy /\ ~wr.busy /\ eng = "IDLE" /\ ~r.valid

\* Mutant: a new write is accepted before the response of the last is taken.
mut_aw_ok == aw.valid /\ ~rd.busy /\ ~wr.busy /\ eng = "IDLE"

aw_ok == aw.valid /\ ~rd.busy /\ ~wr.busy /\ eng = "IDLE" /\ ~b.valid

\* The master offers an address and holds it until it is accepted.
Offer(ch, ch2, ok, addrs) ==
  IF ch.valid /\ ~ok THEN ch2 = ch
  ELSE \/ ch2 = [ch EXCEPT !.valid = FALSE]
       \/ \E addr \in addrs, len \in Lens : ch2 = [valid |-> TRUE, addr |-> addr, len |-> len]

Master == Offer(ar, ar', ar_ok, RdAddrs) /\ Offer(aw, aw', aw_ok, WrAddrs)

\* Mutant: AxLEN is taken for the number of beats.
mut_Count(len) == len % 2 ^ W

Count(len) == (len + 1) % 2 ^ W

\* The command of a burst that is accepted.
Accepted(ch) == [busy |-> TRUE, addr |-> ch.addr, len |-> Count(ch.len)]

\* One beat less to do; the counter does not pass 0.
Advance(cmd) == IF cmd.len = 0 THEN cmd ELSE [cmd EXCEPT !.addr = @ + 1, !.len = @ - 1]

\* Mutant: a read beat is counted but the address stays.
mut_RdCmd(in) ==
  rd' = IF ar_ok THEN Accepted(ar)
        ELSE IF ~cur_is_write /\ r_taken(in)
        THEN [rd EXCEPT !.busy = @ /\ rd.len # 1, !.len = IF @ = 0 THEN 0 ELSE @ - 1]
        ELSE rd

\* A read beat is done when the master takes it.
RdCmd(in) ==
  rd' = IF ar_ok THEN Accepted(ar)
        ELSE IF ~cur_is_write /\ r_taken(in)
        THEN LET cmd == IF eng = "WAIT_RSP" THEN Advance(rd) ELSE rd
             IN  [cmd EXCEPT !.busy = @ /\ rd.len # 1]
        ELSE rd

\* A write beat is done when the bus answers.
WrCmd(in) ==
  wr' = IF aw_ok THEN Accepted(aw)
        ELSE IF cur_is_write /\ answered(in)
        THEN LET cmd == IF eng = "WAIT_RSP" THEN Advance(wr) ELSE wr
             IN  [cmd EXCEPT !.busy = @ /\ wr.len # 1]
        ELSE wr

w_taken(in) == eng = "W_ACTIVE" /\ ~wd.valid /\ in.wvalid

\* Mutant: the buffer is not emptied when its beat has been written.
mut_WData(in) ==
  wd' = IF w_taken(in) THEN [valid |-> TRUE, beat |-> wburst.passed] ELSE wd

WData(in) ==
  wd' = IF eng = "WAIT_RSP" /\ cur_is_write /\ answered(in) THEN [wd EXCEPT !.valid = FALSE]
        ELSE IF w_taken(in) THEN [valid |-> TRUE, beat |-> wburst.passed]
        ELSE wd

\* Mutant: last is not lowered with valid.
mut_RChannel(in) ==
  r' = IF ~cur_is_write /\ eng = "WAIT_RSP" /\ ~r.valid /\ answered(in)
       THEN [valid |-> TRUE, data |-> bus.addr, err |-> failed(in) \/ error_seen,
             last |-> rd.len = 1]
       ELSE IF r_taken(in) THEN [r EXCEPT !.valid = FALSE]
       ELSE r

\* The word read is the bus's answer; a word is known by its address.
RChannel(in) ==
  r' = IF ~cur_is_write /\ eng = "WAIT_RSP" /\ ~r.valid /\ answered(in)
       THEN [valid |-> TRUE, data |-> bus.addr, err |-> failed(in) \/ error_seen,
             last |-> rd.len = 1]
       ELSE IF r_taken(in) THEN [r EXCEPT !.valid = FALSE, !.last = FALSE]
       ELSE r

BChannel(in) ==
  b' = IF cur_is_write /\ eng = "WAIT_RSP" /\ answered(in) /\ wr.len = 1
       THEN [valid |-> TRUE, err |-> failed(in) \/ error_seen]
       ELSE IF b_taken(in) THEN [b EXCEPT !.valid = FALSE]
       ELSE b

\* Mutant: the error of a burst is remembered in the next one.
mut_Errors(in) == error_seen' = (error_seen \/ (eng = "WAIT_RSP" /\ failed(in)))

\* An error marks the rest of its burst.
Errors(in) == error_seen' = (eng # "IDLE" /\ (error_seen \/ (eng = "WAIT_RSP" /\ failed(in))))

\* Writes go first; a burst chosen in IDLE runs to its end.
Engine(in) ==
  /\ eng' = CASE eng = "IDLE" -> IF wr.busy THEN "W_ACTIVE" ELSE IF rd.busy THEN "R_ACTIVE" ELSE eng
              [] eng = "W_ACTIVE" -> IF wd.valid THEN "ISSUE" ELSE eng
              [] eng = "R_ACTIVE" -> "ISSUE"
              [] eng = "ISSUE" -> IF in.gnt THEN "WAIT_RSP" ELSE eng
              [] eng = "WAIT_RSP" /\ cur_is_write /\ answered(in) ->
                   IF wr.len = 1 THEN "IDLE" ELSE "W_ACTIVE"
              [] eng = "WAIT_RSP" /\ ~cur_is_write /\ r_taken(in) ->
                   IF rd.len = 1 THEN "IDLE" ELSE "R_ACTIVE"
              [] OTHER -> eng
  /\ cur_is_write' = IF eng = "IDLE" /\ (wr.busy \/ rd.busy) THEN wr.busy ELSE cur_is_write

issue_addr == IF cur_is_write THEN wr.addr ELSE rd.addr

\* The bus answers a granted access once, in a later clock.
Bus(in) == bus' = IF in.gnt THEN [owed |-> TRUE, addr |-> issue_addr]
                  ELSE IF answered(in) THEN [bus EXCEPT !.owed = FALSE] ELSE bus

\* History of the bursts.
Record(burst, granted, passed, failure) ==
  [burst EXCEPT !.granted = IF granted THEN @ + 1 ELSE @,
                !.passed = IF passed THEN @ + 1 ELSE @,
                !.err = @ \/ failure]

History(in) ==
  /\ rburst' = IF ar_ok THEN [NoBurst EXCEPT !.start = ar.addr, !.len = ar.len]
               ELSE Record(rburst, in.gnt /\ ~cur_is_write, r_taken(in),
                           ~cur_is_write /\ failed(in))
  /\ wburst' = IF aw_ok THEN [NoBurst EXCEPT !.start = aw.addr, !.len = aw.len]
               ELSE Record(wburst, in.gnt /\ cur_is_write, w_taken(in),
                           cur_is_write /\ failed(in))

Clock(in) ==
  /\ Master
  /\ RdCmd(in)
  /\ WrCmd(in)
  /\ WData(in)
  /\ RChannel(in)
  /\ BChannel(in)
  /\ Errors(in)
  /\ Engine(in)
  /\ Bus(in)
  /\ History(in)

Next == \E in \in Inputs : Clock(in)

Spec == Init /\ [][Next]_vars

(***************************************************************************)
(* The clock ticks; the bus grants and answers, the master sends its write *)
(* data and takes its beats and responses, each eventually.                *)
(***************************************************************************)
FairSpec ==
  /\ Spec
  /\ WF_vars(Next)
  /\ WF_vars(\E in \in Inputs : in.gnt /\ Clock(in))
  /\ WF_vars(\E in \in Inputs : answered(in) /\ Clock(in))
  /\ WF_vars(\E in \in Inputs : w_taken(in) /\ Clock(in))
  /\ WF_vars(\E in \in Inputs : r_taken(in) /\ Clock(in))
  /\ WF_vars(\E in \in Inputs : b_taken(in) /\ Clock(in))
-----------------------------------------------------------------------------
(***************************************************************************)
(* TypeOK: every register holds a value of its width, and last is never    *)
(* shown without a beat.                                                   *)
(***************************************************************************)
TypeOK ==
  /\ ar.len \in Lens \cup {0} /\ aw.len \in Lens \cup {0}
  /\ eng \in {"IDLE", "R_ACTIVE", "W_ACTIVE", "ISSUE", "WAIT_RSP"}
  /\ cur_is_write \in BOOLEAN /\ error_seen \in BOOLEAN
  /\ rd.len \in Beats /\ wr.len \in Beats
  /\ rd.addr \in Nat /\ wr.addr \in Nat
  /\ r.last => r.valid

(***************************************************************************)
(* ReadBeat: the beats of a read burst carry the words from its start      *)
(* address on, in order; last is on the final one; a beat is marked SLVERR *)
(* from the first access of its own burst that failed.                     *)
(***************************************************************************)
ReadBeat ==
  r.valid => /\ r.data = rburst.start + rburst.passed
             /\ r.last <=> rburst.passed = rburst.len
             /\ r.err <=> rburst.err

(***************************************************************************)
(* ReadAccess: each word of a read burst is asked for once, in order, and  *)
(* only when the master has taken the word before it.                      *)
(***************************************************************************)
ReadAccess ==
  eng = "ISSUE" /\ ~cur_is_write => /\ issue_addr = rburst.start + rburst.granted
                                    /\ rburst.granted = rburst.passed
                                    /\ rburst.granted <= rburst.len

(***************************************************************************)
(* WriteAccess: each word of a write burst is written once, in order, to   *)
(* the next address.                                                       *)
(***************************************************************************)
WriteAccess ==
  eng = "ISSUE" /\ cur_is_write => /\ issue_addr = wburst.start + wburst.granted
                                   /\ wd.valid /\ wd.beat = wburst.granted
                                   /\ wburst.granted <= wburst.len

(***************************************************************************)
(* WriteResponse: the response of a write burst is given when all its      *)
(* words have been written and answered, and tells whether any failed.     *)
(***************************************************************************)
WriteResponse ==
  b.valid => /\ wburst.granted = wburst.len + 1 /\ ~wr.busy
             /\ b.err <=> wburst.err

(***************************************************************************)
(* Served: a burst that is offered is accepted, and one that is accepted   *)
(* ends, whatever bursts of the other direction do.                        *)
(***************************************************************************)
Served ==
  /\ ar.valid ~> rd.busy
  /\ aw.valid ~> wr.busy
  /\ rd.busy ~> ~rd.busy
  /\ wr.busy ~> b.valid
=============================================================================
