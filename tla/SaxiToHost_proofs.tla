-------------------------- MODULE SaxiToHost_proofs --------------------------
(***************************************************************************)
(* For all addresses, all burst lengths and all counter widths that hold   *)
(* them: the safety properties of SaxiToHost hold, whatever the bus        *)
(* answers and however the master delays its handshakes.                   *)
(***************************************************************************)
EXTENDS SaxiToHost, TLAPS

-----------------------------------------------------------------------------
(* The inductive invariant.                                                *)

Address == [valid : BOOLEAN, addr : Nat, len : Nat]
Command == [busy : BOOLEAN, addr : Nat, len : Nat]
Burst == [start : Nat, len : Nat, granted : Nat, passed : Nat, err : BOOLEAN]

\* A burst on an address channel has a length that its counter can hold.
Offered(ch) ==
  /\ ch \in Address /\ ch.len \in Lens \cup {0}
  /\ ch.valid => ch.len \in Lens

Types ==
  /\ Offered(ar) /\ Offered(aw)
  /\ rd \in Command /\ wr \in Command /\ rburst \in Burst /\ wburst \in Burst
  /\ rd.len \in Beats /\ wr.len \in Beats
  /\ wd \in [valid : BOOLEAN, beat : Nat]
  /\ r \in [valid : BOOLEAN, data : Nat, err : BOOLEAN, last : BOOLEAN]
  /\ b \in [valid : BOOLEAN, err : BOOLEAN]
  /\ bus \in [owed : BOOLEAN, addr : Nat]
  /\ cur_is_write \in BOOLEAN /\ error_seen \in BOOLEAN
  /\ r.last => r.valid

\* A command whose burst has been accepted and not yet chosen.
Fresh(cmd, burst) ==
  /\ cmd.addr = burst.start /\ cmd.len = burst.len + 1
  /\ burst.granted = 0 /\ burst.passed = 0 /\ ~burst.err

RdWaits == ~r.valid /\ (rd.busy => Fresh(rd, rburst))
WrWaits == ~wd.valid /\ (wr.busy => Fresh(wr, wburst) /\ ~b.valid)

\* The command and the error of the burst under way, n of its beats done.
Under(cmd, burst, n) ==
  /\ cmd.busy /\ n <= burst.len
  /\ cmd.addr = burst.start + n /\ cmd.len = burst.len + 1 - n
  /\ error_seen = burst.err

\* A read beat is done when the master has taken it.
RdRuns ==
  /\ Under(rd, rburst, rburst.passed)
  /\ IF eng = "WAIT_RSP"
     THEN /\ rburst.granted = rburst.passed + 1
          /\ bus.owed = ~r.valid
          /\ bus.addr = rburst.start + rburst.passed
          /\ r.valid => /\ r.data = bus.addr
                        /\ r.last = (rburst.passed = rburst.len)
                        /\ r.err = rburst.err
     ELSE rburst.granted = rburst.passed /\ ~r.valid /\ ~bus.owed

\* A write beat is done when the bus has answered it.
WrRuns ==
  /\ ~b.valid
  /\ IF eng = "WAIT_RSP"
     THEN /\ wburst.granted > 0 /\ Under(wr, wburst, wburst.granted - 1)
          /\ wburst.passed = wburst.granted
          /\ wd.valid /\ bus.owed
     ELSE /\ Under(wr, wburst, wburst.granted)
          /\ wd.valid => wd.beat = wburst.granted
          /\ wburst.passed = wburst.granted + (IF wd.valid THEN 1 ELSE 0)
          /\ eng = "ISSUE" => wd.valid
          /\ ~bus.owed

Idle == eng = "IDLE" /\ RdWaits /\ WrWaits /\ ~bus.owed
Reads == /\ eng \in {"R_ACTIVE", "ISSUE", "WAIT_RSP"} /\ ~cur_is_write
         /\ RdRuns /\ WrWaits /\ ~wr.busy
Writes == /\ eng \in {"W_ACTIVE", "ISSUE", "WAIT_RSP"} /\ cur_is_write
          /\ WrRuns /\ RdWaits

(***************************************************************************)
(* IInv: the engine is idle, in a read burst or in a write burst; the      *)
(* command register counts what is left of the burst under way; a response *)
(* on B tells of a write burst that is complete.                           *)
(***************************************************************************)
IInv ==
  /\ Types
  /\ Idle \/ Reads \/ Writes
  /\ b.valid => /\ wburst.granted = wburst.len + 1 /\ ~wr.busy
                /\ b.err = wburst.err

-----------------------------------------------------------------------------
(* Facts about the operators.                                              *)

(***************************************************************************)
(* The counter of an accepted burst holds its number of beats.             *)
(***************************************************************************)
LEMMA CountFits ==
  ASSUME NEW len \in Lens
  PROVE  len \in Nat /\ Count(len) = len + 1 /\ Count(len) \in Beats
<1> DEFINE N == 2 ^ W
<1>1. N \in Nat /\ len \in 0 .. N - 2
  BY SaxiToHostAssumption
<1>2. Count(len) = (len + 1) % N /\ Beats = 0 .. N - 1
  BY DEF Count, Beats
<1> HIDE DEF N
<1>3. (len + 1) % N = len + 1 /\ len + 1 \in 0 .. N - 1 /\ len \in Nat
  BY <1>1
<1> QED
  BY <1>2, <1>3

(***************************************************************************)
(* A counter of beats.                                                     *)
(***************************************************************************)
LEMMA BeatsFacts ==
  ASSUME NEW n \in Beats
  PROVE  n \in Nat /\ (n > 0 => n - 1 \in Beats)
<1> DEFINE N == 2 ^ W
<1>1. N \in Nat /\ Beats = 0 .. N - 1
  BY SaxiToHostAssumption DEF Beats
<1> HIDE DEF N
<1> QED
  BY <1>1

(***************************************************************************)
(* What the master offers is a burst its counter can hold.                 *)
(***************************************************************************)
LEMMA OfferKeeps ==
  ASSUME NEW ch, NEW ch2, NEW ok, NEW addrs \in SUBSET Nat,
         Offered(ch), Offer(ch, ch2, ok, addrs)
  PROVE  Offered(ch2)
<1>1. CASE ch2 = ch
  BY <1>1
<1>2. CASE ch2 = [ch EXCEPT !.valid = FALSE]
  BY <1>2 DEF Offered, Address
<1>3. CASE \E addr \in addrs, len \in Lens : ch2 = [valid |-> TRUE, addr |-> addr, len |-> len]
  <2>1. PICK addr \in addrs, len \in Lens : ch2 = [valid |-> TRUE, addr |-> addr, len |-> len]
    BY <1>3
  <2>2. len \in Nat /\ addr \in Nat
    BY CountFits
  <2> QED
    BY <2>1, <2>2 DEF Offered, Address
<1> QED
  BY <1>1, <1>2, <1>3 DEF Offer

(***************************************************************************)
(* An accepted burst starts afresh.                                        *)
(***************************************************************************)
LEMMA AcceptedFresh ==
  ASSUME NEW ch, Offered(ch), ch.valid,
         NEW burst, burst = [NoBurst EXCEPT !.start = ch.addr, !.len = ch.len]
  PROVE  /\ burst \in Burst /\ Accepted(ch) \in Command /\ Accepted(ch).len \in Beats
         /\ Accepted(ch).busy /\ Fresh(Accepted(ch), burst)
<1>1. ch.len \in Lens /\ ch.addr \in Nat
  BY DEF Offered, Address
<1>2. ch.len \in Nat /\ Count(ch.len) = ch.len + 1 /\ Count(ch.len) \in Beats
  BY <1>1, CountFits
<1>3. /\ burst \in Burst /\ burst.start = ch.addr /\ burst.len = ch.len
      /\ burst.granted = 0 /\ burst.passed = 0 /\ ~burst.err
  <2>1. PICK start, len : start = ch.addr /\ len = ch.len
    OBVIOUS
  <2>2. start \in Nat /\ len \in Nat
    BY <1>1, <1>2, <2>1
  <2>3. burst = [start |-> start, len |-> len, granted |-> 0, passed |-> 0, err |-> FALSE]
    BY <2>1 DEF NoBurst
  <2>4. burst \in Burst
    BY ONLY <2>2, <2>3 DEF Burst
  <2>5. burst.start = start /\ burst.len = len /\ burst.granted = 0 /\ burst.passed = 0 /\ ~burst.err
    BY ONLY <2>3
  <2> QED
    BY <2>1, <2>4, <2>5
<1> DEFINE cmd == Accepted(ch)
<1>4. cmd.busy /\ cmd.addr = ch.addr /\ cmd.len = Count(ch.len)
  BY DEF Accepted
<1>5. cmd \in Command
  BY <1>1, <1>2 DEF Accepted, Command, Beats
<1> QED
  BY <1>2, <1>3, <1>4, <1>5 DEF Fresh

(***************************************************************************)
(* What the inputs of a clock may be.                                      *)
(***************************************************************************)
LEMMA InputFacts ==
  ASSUME NEW in \in Inputs, Types
  PROVE  /\ in.gnt \in BOOLEAN /\ in.rready \in BOOLEAN /\ in.bready \in BOOLEAN
         /\ in.wvalid \in BOOLEAN /\ in.rsp \in {"none", "okay", "error"}
         /\ in.gnt => eng = "ISSUE"
         /\ answered(in) => bus.owed
         /\ w_taken(in) => eng = "W_ACTIVE" /\ ~wd.valid /\ wburst.passed <= wburst.len
         /\ r_taken(in) \in BOOLEAN /\ w_taken(in) \in BOOLEAN
         /\ answered(in) \in BOOLEAN /\ failed(in) \in BOOLEAN
         /\ failed(in) => answered(in)
BY DEF Inputs, If, answered, failed, w_taken, r_taken, Types

-----------------------------------------------------------------------------
(* What one clock does to a command and its history.                       *)

(***************************************************************************)
(* An accepted burst replaces the last of its direction.                   *)
(***************************************************************************)
LEMMA NewBursts ==
  ASSUME Types, NEW in \in Inputs, Clock(in)
  PROVE  /\ ar_ok => /\ rburst' \in Burst /\ rd' \in Command /\ rd.len' \in Beats
                     /\ rd.busy' /\ Fresh(rd', rburst')
         /\ aw_ok => /\ wburst' \in Burst /\ wr' \in Command /\ wr.len' \in Beats
                     /\ wr.busy' /\ Fresh(wr', wburst')
<1>1. ASSUME ar_ok
      PROVE  /\ rburst' \in Burst /\ rd' \in Command /\ rd.len' \in Beats
             /\ rd.busy' /\ Fresh(rd', rburst')
  <2>1. rd' = Accepted(ar) /\ rburst' = [NoBurst EXCEPT !.start = ar.addr, !.len = ar.len]
    BY <1>1 DEF Clock, RdCmd, History
  <2>2. Offered(ar) /\ ar.valid
    BY <1>1 DEF Types, ar_ok
  <2>3. /\ rburst' \in Burst /\ Accepted(ar) \in Command /\ Accepted(ar).len \in Beats
        /\ Accepted(ar).busy /\ Fresh(Accepted(ar), rburst')
    BY <2>1, <2>2, AcceptedFresh
  <2> QED
    BY <2>1, <2>3
<1>2. ASSUME aw_ok
      PROVE  /\ wburst' \in Burst /\ wr' \in Command /\ wr.len' \in Beats
             /\ wr.busy' /\ Fresh(wr', wburst')
  <2>1. wr' = Accepted(aw) /\ wburst' = [NoBurst EXCEPT !.start = aw.addr, !.len = aw.len]
    BY <1>2 DEF Clock, WrCmd, History
  <2>2. Offered(aw) /\ aw.valid
    BY <1>2 DEF Types, aw_ok
  <2>3. /\ wburst' \in Burst /\ Accepted(aw) \in Command /\ Accepted(aw).len \in Beats
        /\ Accepted(aw).busy /\ Fresh(Accepted(aw), wburst')
    BY <2>1, <2>2, AcceptedFresh
  <2> QED
    BY <2>1, <2>3
<1> QED
  BY <1>1, <1>2

(***************************************************************************)
(* Otherwise its history counts the grants, the data and the failures.     *)
(***************************************************************************)
LEMMA OldBursts ==
  ASSUME Types, NEW in \in Inputs, Clock(in)
  PROVE  /\ ~ar_ok =>
            /\ rburst' \in Burst /\ rburst.start' = rburst.start /\ rburst.len' = rburst.len
            /\ rburst.granted' = IF in.gnt /\ ~cur_is_write THEN rburst.granted + 1
                                 ELSE rburst.granted
            /\ rburst.passed' = IF r_taken(in) THEN rburst.passed + 1 ELSE rburst.passed
            /\ rburst.err' = (rburst.err \/ (~cur_is_write /\ failed(in)))
         /\ ~aw_ok =>
            /\ wburst' \in Burst /\ wburst.start' = wburst.start /\ wburst.len' = wburst.len
            /\ wburst.granted' = IF in.gnt /\ cur_is_write THEN wburst.granted + 1
                                 ELSE wburst.granted
            /\ wburst.passed' = IF w_taken(in) THEN wburst.passed + 1 ELSE wburst.passed
            /\ wburst.err' = (wburst.err \/ (cur_is_write /\ failed(in)))
<1>1. rburst \in Burst /\ wburst \in Burst
  BY DEF Types
<1>2. ASSUME ~ar_ok
      PROVE  /\ rburst' \in Burst /\ rburst.start' = rburst.start /\ rburst.len' = rburst.len
             /\ rburst.granted' = IF in.gnt /\ ~cur_is_write THEN rburst.granted + 1
                                 ELSE rburst.granted
             /\ rburst.passed' = IF r_taken(in) THEN rburst.passed + 1 ELSE rburst.passed
             /\ rburst.err' = (rburst.err \/ (~cur_is_write /\ failed(in)))
  <2>1. rburst' = Record(rburst, in.gnt /\ ~cur_is_write, r_taken(in), ~cur_is_write /\ failed(in))
    BY <1>2 DEF Clock, History
  <2>2. rburst.start' = rburst.start /\ rburst.len' = rburst.len
    BY <1>1, <2>1 DEF Record, Burst
  <2>3. rburst.granted' = IF in.gnt /\ ~cur_is_write THEN rburst.granted + 1 ELSE rburst.granted
    BY <1>1, <2>1 DEF Record, Burst
  <2>4. rburst.passed' = IF r_taken(in) THEN rburst.passed + 1 ELSE rburst.passed
    BY <1>1, <2>1 DEF Record, Burst
  <2>5. rburst.err' = (rburst.err \/ (~cur_is_write /\ failed(in)))
    BY <1>1, <2>1 DEF Record, Burst
  <2>6. /\ rburst.start' \in Nat /\ rburst.len' \in Nat /\ rburst.granted' \in Nat
        /\ rburst.passed' \in Nat /\ rburst.err' \in BOOLEAN
    BY <1>1, <2>2, <2>3, <2>4, <2>5 DEF Burst
  <2>7. rburst' = [start |-> rburst.start', len |-> rburst.len', granted |-> rburst.granted',
                   passed |-> rburst.passed', err |-> rburst.err']
    BY <1>1, <2>1 DEF Record, Burst
  <2> QED
    BY <2>2, <2>3, <2>4, <2>5, <2>6, <2>7 DEF Burst
<1>3. ASSUME ~aw_ok
      PROVE  /\ wburst' \in Burst /\ wburst.start' = wburst.start /\ wburst.len' = wburst.len
             /\ wburst.granted' = IF in.gnt /\ cur_is_write THEN wburst.granted + 1
                                 ELSE wburst.granted
             /\ wburst.passed' = IF w_taken(in) THEN wburst.passed + 1 ELSE wburst.passed
             /\ wburst.err' = (wburst.err \/ (cur_is_write /\ failed(in)))
  <2>1. wburst' = Record(wburst, in.gnt /\ cur_is_write, w_taken(in), cur_is_write /\ failed(in))
    BY <1>3 DEF Clock, History
  <2>2. wburst.start' = wburst.start /\ wburst.len' = wburst.len
    BY <1>1, <2>1 DEF Record, Burst
  <2>3. wburst.granted' = IF in.gnt /\ cur_is_write THEN wburst.granted + 1 ELSE wburst.granted
    BY <1>1, <2>1 DEF Record, Burst
  <2>4. wburst.passed' = IF w_taken(in) THEN wburst.passed + 1 ELSE wburst.passed
    BY <1>1, <2>1 DEF Record, Burst
  <2>5. wburst.err' = (wburst.err \/ (cur_is_write /\ failed(in)))
    BY <1>1, <2>1 DEF Record, Burst
  <2>6. /\ wburst.start' \in Nat /\ wburst.len' \in Nat /\ wburst.granted' \in Nat
        /\ wburst.passed' \in Nat /\ wburst.err' \in BOOLEAN
    BY <1>1, <2>2, <2>3, <2>4, <2>5 DEF Burst
  <2>7. wburst' = [start |-> wburst.start', len |-> wburst.len', granted |-> wburst.granted',
                   passed |-> wburst.passed', err |-> wburst.err']
    BY <1>1, <2>1 DEF Record, Burst
  <2> QED
    BY <2>2, <2>3, <2>4, <2>5, <2>6, <2>7 DEF Burst
<1> QED
  BY <1>2, <1>3

(***************************************************************************)
(* One beat less to do.                                                    *)
(***************************************************************************)
LEMMA AdvanceFacts ==
  ASSUME NEW cmd \in Command, cmd.len \in Beats, cmd.len > 0,
         NEW new, new = [Advance(cmd) EXCEPT !.busy = @ /\ cmd.len # 1]
  PROVE  /\ new \in Command /\ new.len \in Beats
         /\ new.addr = cmd.addr + 1 /\ new.len = cmd.len - 1
         /\ new.busy = (cmd.busy /\ cmd.len # 1)
<1>1. cmd.len \in Nat /\ cmd.addr \in Nat /\ cmd.busy \in BOOLEAN
  BY DEF Command
<1>2. cmd.len - 1 \in Beats
  BY BeatsFacts
<1>3. Advance(cmd) = [cmd EXCEPT !.addr = cmd.addr + 1, !.len = cmd.len - 1]
  BY <1>1 DEF Advance
<1>4. new.addr = cmd.addr + 1 /\ new.len = cmd.len - 1 /\ new.busy = (cmd.busy /\ cmd.len # 1)
  BY <1>3 DEF Command
<1>5. new = [busy |-> new.busy, addr |-> new.addr, len |-> new.len]
  BY <1>3 DEF Command
<1>6. new.busy \in BOOLEAN /\ new.addr \in Nat /\ new.len \in Nat
  BY <1>1, <1>4
<1>7. new \in Command
  BY <1>5, <1>6 DEF Command
<1> QED
  BY <1>2, <1>4, <1>7

(***************************************************************************)
(* A clock without acceptance, answer or beat leaves a command alone.      *)
(***************************************************************************)
LEMMA CommandsRest ==
  ASSUME NEW in \in Inputs, Clock(in)
  PROVE  /\ ~ar_ok /\ ~(~cur_is_write /\ r_taken(in)) => rd' = rd
         /\ ~aw_ok /\ ~(cur_is_write /\ answered(in)) => wr' = wr
BY DEF Clock, RdCmd, WrCmd

(***************************************************************************)
(* Bursts are accepted in IDLE only.                                       *)
(***************************************************************************)
LEMMA OnlyIdle ==
  ASSUME eng # "IDLE"
  PROVE  ~ar_ok /\ ~aw_ok
BY DEF ar_ok, aw_ok

-----------------------------------------------------------------------------
(* The engine is idle.                                                     *)

\* What a response on B tells.
Responds == b.valid => wburst.granted = wburst.len + 1 /\ ~wr.busy /\ b.err = wburst.err

(***************************************************************************)
(* Nothing is under way in IDLE but acceptance and the taking of a         *)
(* response.                                                               *)
(***************************************************************************)
LEMMA IdleQuiet ==
  ASSUME Types, Idle, NEW in \in Inputs, Clock(in)
  PROVE  /\ ~in.gnt /\ ~answered(in) /\ ~failed(in) /\ ~w_taken(in) /\ ~r_taken(in)
         /\ wd' = wd /\ r' = r /\ bus' = bus /\ error_seen' = FALSE
         /\ b.valid' => b' = b
<1>1. eng = "IDLE" /\ ~bus.owed /\ ~r.valid
  BY DEF Idle, RdWaits
<1>2. ~in.gnt /\ ~answered(in) /\ ~failed(in) /\ ~w_taken(in) /\ ~r_taken(in)
  BY <1>1, InputFacts DEF r_taken
<1>3. wd' = wd /\ r' = r /\ bus' = bus /\ error_seen' = FALSE
  BY <1>1, <1>2 DEF Clock, WData, RChannel, Bus, Errors
<1>4. b.valid' => b' = b
  BY <1>1, <1>2 DEF Clock, BChannel, Types
<1> QED
  BY <1>2, <1>3, <1>4

(***************************************************************************)
(* A command waits in IDLE until it is chosen.                             *)
(***************************************************************************)
LEMMA IdleWaits ==
  ASSUME Types, Idle, Responds, NEW in \in Inputs, Clock(in)
  PROVE  /\ RdWaits' /\ WrWaits' /\ Responds'
         /\ rburst' \in Burst /\ rd' \in Command /\ rd.len' \in Beats
         /\ wburst' \in Burst /\ wr' \in Command /\ wr.len' \in Beats
<1>1. /\ ~in.gnt /\ ~answered(in) /\ ~failed(in) /\ ~w_taken(in) /\ ~r_taken(in)
      /\ wd' = wd /\ r' = r /\ (b.valid' => b' = b)
  BY IdleQuiet
<1>2. ~r.valid /\ ~wd.valid
  BY DEF Idle, RdWaits, WrWaits
<1>3. /\ rburst' \in Burst /\ rd' \in Command /\ rd.len' \in Beats
      /\ rd.busy' => Fresh(rd', rburst')
  <2>1. CASE ar_ok
    BY <2>1, NewBursts
  <2>2. CASE ~ar_ok
    <3>1. rd' = rd /\ rd \in Command /\ rd.len \in Beats
      BY <1>1, <2>2, CommandsRest DEF Types
    <3>2. /\ rburst' \in Burst /\ rburst.start' = rburst.start /\ rburst.len' = rburst.len
          /\ rburst.granted' = rburst.granted /\ rburst.passed' = rburst.passed
          /\ rburst.err' = rburst.err
      BY <1>1, <2>2, OldBursts DEF Types, Burst
    <3>3. rd.busy => Fresh(rd, rburst)
      BY DEF Idle, RdWaits
    <3> QED
      BY <3>1, <3>2, <3>3 DEF Fresh
  <2> QED
    BY <2>1, <2>2
<1>4. /\ wburst' \in Burst /\ wr' \in Command /\ wr.len' \in Beats
      /\ wr.busy' => Fresh(wr', wburst') /\ ~b.valid'
      /\ Responds'
  <2>1. CASE aw_ok
    <3>1. ~b.valid
      BY <2>1 DEF aw_ok
    <3>2. ~b.valid'
      BY <1>1, <3>1
    <3> QED
      BY <2>1, <3>2, NewBursts DEF Responds
  <2>2. CASE ~aw_ok
    <3>1. wr' = wr /\ wr \in Command /\ wr.len \in Beats
      BY <1>1, <2>2, CommandsRest DEF Types
    <3>2. /\ wburst' \in Burst /\ wburst.start' = wburst.start /\ wburst.len' = wburst.len
          /\ wburst.granted' = wburst.granted /\ wburst.passed' = wburst.passed
          /\ wburst.err' = wburst.err
      BY <1>1, <2>2, OldBursts DEF Types, Burst
    <3>3. wr.busy => Fresh(wr, wburst) /\ ~b.valid
      BY DEF Idle, WrWaits
    <3>4. Responds'
      BY <1>1, <3>1, <3>2 DEF Responds
    <3> QED
      BY <1>1, <3>1, <3>2, <3>3, <3>4 DEF Fresh
  <2> QED
    BY <2>1, <2>2
<1> QED
  BY <1>1, <1>2, <1>3, <1>4 DEF RdWaits, WrWaits

(***************************************************************************)
(* The engine chooses a command that waits, a write before a read.         *)
(***************************************************************************)
LEMMA IdleStep ==
  ASSUME Types, Idle, Responds, NEW in \in Inputs, Clock(in)
  PROVE  (Idle \/ Reads \/ Writes)'
<1>1. RdWaits' /\ WrWaits' /\ Responds' /\ rburst' \in Burst /\ wburst' \in Burst
  BY IdleWaits
<1>2. wd' = wd /\ r' = r /\ ~bus.owed' /\ error_seen' = FALSE
  BY IdleQuiet DEF Idle
<1>3. eng = "IDLE" /\ ~wd.valid /\ ~r.valid
  BY DEF Idle, RdWaits, WrWaits
<1>4. CASE wr.busy
  <2>1. eng' = "W_ACTIVE" /\ cur_is_write' = TRUE
    BY <1>3, <1>4 DEF Clock, Engine
  <2>2. wr' = wr
    BY <1>4, CommandsRest, IdleQuiet DEF aw_ok
  <2>3. Fresh(wr', wburst') /\ ~b.valid'
    BY <1>1, <1>4, <2>2 DEF WrWaits
  <2>4. Under(wr, wburst, wburst.granted)'
    <3>1. wburst.granted' = 0 /\ wburst.start' \in Nat /\ wburst.len' \in Nat
      BY <1>1, <2>3 DEF Fresh, Burst
    <3>2. wr.addr' = wburst.start' /\ wr.len' = wburst.len' + 1 /\ wr.busy'
      BY <1>4, <2>2, <2>3 DEF Fresh
    <3>3. wburst.err' \in BOOLEAN /\ ~wburst.err'
      BY <1>1, <2>3 DEF Fresh, Burst
    <3>4. error_seen' = wburst.err'
      BY <1>2, <3>3
    <3> QED
      BY <3>1, <3>2, <3>4 DEF Under
  <2>5. WrRuns'
    BY <1>1, <1>2, <1>3, <2>1, <2>3, <2>4 DEF WrRuns, Fresh
  <2> QED
    BY <1>1, <2>1, <2>5 DEF Writes
<1>5. CASE ~wr.busy /\ rd.busy
  <2>1. eng' = "R_ACTIVE" /\ cur_is_write' = FALSE
    BY <1>3, <1>5 DEF Clock, Engine, Types
  <2>2. rd' = rd /\ wr' = wr
    BY <1>5, CommandsRest, IdleQuiet DEF ar_ok, aw_ok
  <2>3. Fresh(rd', rburst')
    BY <1>1, <1>5, <2>2 DEF RdWaits
  <2>4. Under(rd, rburst, rburst.passed)'
    <3>1. rburst.passed' = 0 /\ rburst.start' \in Nat /\ rburst.len' \in Nat
      BY <1>1, <2>3 DEF Fresh, Burst
    <3>2. rd.addr' = rburst.start' /\ rd.len' = rburst.len' + 1 /\ rd.busy'
      BY <1>5, <2>2, <2>3 DEF Fresh
    <3>3. rburst.err' \in BOOLEAN /\ ~rburst.err'
      BY <1>1, <2>3 DEF Fresh, Burst
    <3>4. error_seen' = rburst.err'
      BY <1>2, <3>3
    <3> QED
      BY <3>1, <3>2, <3>4 DEF Under
  <2>5. RdRuns'
    BY <1>1, <1>2, <1>3, <2>1, <2>3, <2>4 DEF RdRuns, Fresh
  <2> QED
    BY <1>1, <1>5, <2>1, <2>2, <2>5 DEF Reads
<1>6. CASE ~wr.busy /\ ~rd.busy
  <2>1. eng' = "IDLE"
    BY <1>3, <1>6 DEF Clock, Engine
  <2> QED
    BY <1>1, <1>2, <2>1 DEF Idle
<1> QED
  BY <1>4, <1>5, <1>6 DEF Types

-----------------------------------------------------------------------------
(* The engine performs a read burst.                                       *)

(***************************************************************************)
(* Meanwhile no write is accepted; a response may be taken.                *)
(***************************************************************************)
LEMMA ReadsLeave ==
  ASSUME Types, Reads, Responds, NEW in \in Inputs, Clock(in)
  PROVE  /\ ~ar_ok /\ ~aw_ok /\ cur_is_write' = FALSE /\ wr' = wr
         /\ WrWaits' /\ ~wr.busy' /\ Responds' /\ wburst' \in Burst
<1>1. ~ar_ok /\ ~aw_ok
  BY OnlyIdle DEF Reads
<1>2. eng # "IDLE" /\ eng # "W_ACTIVE" /\ cur_is_write = FALSE /\ ~wr.busy /\ ~wd.valid
  BY DEF Reads, WrWaits, Types
<1>3. cur_is_write' = FALSE
  BY <1>2 DEF Clock, Engine
<1>4. wr' = wr
  BY <1>1, <1>2, CommandsRest
<1>5. ~wd.valid'
  BY <1>2, InputFacts DEF Clock, WData
<1>6. ~w_taken(in)
  BY <1>2 DEF w_taken
<1>7. /\ wburst' \in Burst /\ wburst.len' = wburst.len
      /\ wburst.granted' = wburst.granted /\ wburst.err' = wburst.err
  BY <1>1, <1>2, <1>6, OldBursts DEF Types, Burst
<1>8. b.valid' => b' = b
  BY <1>2 DEF Clock, BChannel, Types
<1>9. Responds'
  BY <1>4, <1>7, <1>8 DEF Responds
<1> QED
  BY <1>1, <1>2, <1>3, <1>4, <1>5, <1>7, <1>9 DEF WrWaits

(***************************************************************************)
(* What a clock changes on the read side.                                  *)
(***************************************************************************)
LEMMA ReadsDo ==
  ASSUME Types, Reads, Responds, NEW in \in Inputs, Clock(in)
  PROVE  /\ rburst' \in Burst /\ rburst.start' = rburst.start /\ rburst.len' = rburst.len
         /\ rburst.granted' = IF in.gnt THEN rburst.granted + 1 ELSE rburst.granted
         /\ rburst.passed' = IF r_taken(in) THEN rburst.passed + 1 ELSE rburst.passed
         /\ rburst.err' = (rburst.err \/ failed(in))
         /\ error_seen' = (error_seen \/ failed(in))
         /\ ~r_taken(in) => rd' = rd
<1>1. ~ar_ok /\ ~aw_ok /\ cur_is_write = FALSE /\ eng # "IDLE"
  BY ReadsLeave DEF Reads, Types
<1>2. failed(in) => eng = "WAIT_RSP"
  <2>1. failed(in) => bus.owed
    BY InputFacts
  <2>2. bus.owed => eng = "WAIT_RSP"
    BY DEF Reads, RdRuns
  <2> QED
    BY <2>1, <2>2
<1>3. error_seen' = (error_seen \/ failed(in))
  BY <1>1, <1>2 DEF Clock, Errors
<1>4. ~r_taken(in) => rd' = rd
  BY <1>1, CommandsRest
<1>5. /\ rburst' \in Burst /\ rburst.start' = rburst.start /\ rburst.len' = rburst.len
      /\ rburst.granted' = IF in.gnt THEN rburst.granted + 1 ELSE rburst.granted
      /\ rburst.passed' = IF r_taken(in) THEN rburst.passed + 1 ELSE rburst.passed
  BY <1>1, OldBursts
<1>6. rburst.err' = (rburst.err \/ failed(in))
  BY <1>1, OldBursts
<1> QED
  BY <1>3, <1>4, <1>5, <1>6

(***************************************************************************)
(* The address is issued, and the access granted.                          *)
(***************************************************************************)
LEMMA ReadIssued ==
  ASSUME Types, Reads, Responds, NEW in \in Inputs, Clock(in), eng # "WAIT_RSP"
  PROVE  Reads'
<1>1. /\ cur_is_write' = FALSE /\ WrWaits' /\ ~wr.busy'
  BY ReadsLeave
<1>2. /\ eng \in {"R_ACTIVE", "ISSUE"} /\ cur_is_write = FALSE /\ ~bus.owed /\ ~r.valid
      /\ Under(rd, rburst, rburst.passed) /\ rburst.granted = rburst.passed
  BY DEF Reads, RdRuns, Types
<1>3. ~r_taken(in) /\ ~answered(in) /\ ~failed(in)
  BY <1>2, InputFacts DEF r_taken
<1>4. rd' = rd /\ error_seen' = error_seen
  BY <1>3, ReadsDo DEF Types
<1>5. /\ rburst.start' = rburst.start /\ rburst.len' = rburst.len
      /\ rburst.passed' = rburst.passed /\ rburst.err' = rburst.err
      /\ rburst.granted' = IF in.gnt THEN rburst.granted + 1 ELSE rburst.granted
  BY <1>3, ReadsDo DEF Types, Burst
<1>6. r' = r
  BY <1>2, <1>3 DEF Clock, RChannel
<1>7. Under(rd, rburst, rburst.passed)'
  BY <1>2, <1>4, <1>5 DEF Under
<1>8. CASE in.gnt
  <2>1. eng' = "WAIT_RSP"
    BY <1>8, InputFacts DEF Clock, Engine
  <2>2. bus' = [owed |-> TRUE, addr |-> rd.addr]
    BY <1>2, <1>8 DEF Clock, Bus, issue_addr
  <2>3. bus.addr' = rburst.start' + rburst.passed' /\ bus.owed' = TRUE
    BY <1>2, <1>5, <2>2 DEF Under
  <2>4. rburst.granted' = rburst.passed' + 1
    BY <1>2, <1>5, <1>8
  <2>5. r.valid' = FALSE
    BY <1>2, <1>6 DEF Types
  <2>6. RdRuns'
    BY <1>7, <2>1, <2>3, <2>4, <2>5 DEF RdRuns
  <2> QED
    BY <1>1, <2>1, <2>6 DEF Reads
<1>9. CASE ~in.gnt
  <2>1. eng' = "ISSUE"
    BY <1>2, <1>9 DEF Clock, Engine
  <2>2. bus' = bus
    BY <1>3, <1>9 DEF Clock, Bus
  <2>3. rburst.granted' = rburst.passed'
    BY <1>2, <1>5, <1>9
  <2>4. RdRuns'
    BY <1>2, <1>6, <1>7, <2>1, <2>2, <2>3 DEF RdRuns
  <2> QED
    BY <1>1, <2>1, <2>4 DEF Reads
<1> QED
  BY <1>8, <1>9

(***************************************************************************)
(* The access is answered and its beat taken.                              *)
(***************************************************************************)
LEMMA ReadAnswered ==
  ASSUME Types, Reads, Responds, NEW in \in Inputs, Clock(in), eng = "WAIT_RSP"
  PROVE  /\ (Idle \/ Reads)'
         /\ rd' \in Command /\ rd.len' \in Beats
<1>1. /\ cur_is_write' = FALSE /\ WrWaits' /\ ~wr.busy'
  BY ReadsLeave
<1>2. /\ cur_is_write = FALSE /\ bus.owed = ~r.valid
      /\ bus.addr = rburst.start + rburst.passed
      /\ rburst.granted = rburst.passed + 1
  BY DEF Reads, RdRuns, Types
<1>3. /\ rd.busy /\ rburst.passed <= rburst.len
      /\ rd.addr = rburst.start + rburst.passed /\ rd.len = rburst.len + 1 - rburst.passed
      /\ error_seen = rburst.err
  BY DEF Reads, RdRuns, Under
<1>4. /\ rburst.start \in Nat /\ rburst.len \in Nat /\ rburst.passed \in Nat
      /\ rburst.granted \in Nat
      /\ rd \in Command /\ rd.len \in Beats
  BY DEF Types, Burst
<1>5. ~in.gnt
  BY InputFacts
<1>6. /\ rburst.start' = rburst.start /\ rburst.len' = rburst.len
      /\ rburst.passed' = IF r_taken(in) THEN rburst.passed + 1 ELSE rburst.passed
      /\ rburst.granted' = rburst.granted
      /\ ~r_taken(in) => rd' = rd
  BY <1>5, ReadsDo DEF Types, Burst
<1>7. error_seen' = rburst.err'
  BY <1>3, ReadsDo
<1>8. CASE answered(in)
  <2>1. ~r.valid /\ ~r_taken(in)
    BY <1>2, <1>8, InputFacts DEF r_taken, Types
  <2>2. r' = [valid |-> TRUE, data |-> bus.addr, err |-> failed(in) \/ error_seen,
              last |-> rd.len = 1]
    BY <1>2, <1>8, <2>1 DEF Clock, RChannel
  <2>3. eng' = "WAIT_RSP"
    BY <1>2, <2>1 DEF Clock, Engine
  <2>4. bus.owed' = FALSE /\ bus.addr' = bus.addr
    BY <1>5, <1>8 DEF Clock, Bus, Types
  <2>5. rd' = rd /\ rburst.passed' = rburst.passed
    BY <1>6, <2>1
  <2>6. Under(rd, rburst, rburst.passed)'
    BY <1>3, <1>6, <1>7, <2>5 DEF Under
  <2>7. r.valid' = TRUE /\ r.data' = bus.addr'
    BY <2>2, <2>4
  <2>8. r.last' = (rburst.passed' = rburst.len')
    <3>1. r.last' = (rd.len = 1)
      BY <2>2
    <3>2. (rd.len = 1) <=> (rburst.passed' = rburst.len')
      BY <1>3, <1>4, <1>6, <2>5
    <3> QED
      BY <3>1, <3>2
  <2>9. r.err' = rburst.err'
    <3>1. r.err' = (failed(in) \/ error_seen)
      BY <2>2
    <3>2. error_seen' = (error_seen \/ failed(in))
      BY ReadsDo
    <3> QED
      BY <1>7, <3>1, <3>2
  <2>10. rburst.granted' = rburst.passed' + 1 /\ bus.addr' = rburst.start' + rburst.passed'
    BY <1>2, <1>6, <2>4, <2>5
  <2>11. RdRuns'
    BY <2>3, <2>4, <2>6, <2>7, <2>8, <2>9, <2>10 DEF RdRuns
  <2> QED
    BY <1>1, <1>4, <2>3, <2>5, <2>11 DEF Reads
<1>9. CASE ~answered(in) /\ r_taken(in)
  <2>1. ~bus.owed /\ r.valid
    BY <1>2, <1>9 DEF r_taken, Types
  <2>2. r.valid' = FALSE
    BY <1>9, <2>1 DEF Clock, RChannel, Types
  <2>3. bus' = bus
    BY <1>5, <1>9 DEF Clock, Bus
  <2>4. eng' = IF rd.len = 1 THEN "IDLE" ELSE "R_ACTIVE"
    BY <1>2, <1>9 DEF Clock, Engine
  <2>5. rd.len \in Nat /\ rd.len > 0
    BY <1>3, <1>4
  <2>6. ~ar_ok
    BY OnlyIdle
  <2>7. rd' = [Advance(rd) EXCEPT !.busy = @ /\ rd.len # 1]
    BY <1>2, <1>9, <2>6 DEF Clock, RdCmd
  <2>8. /\ rd' \in Command /\ rd.len' \in Beats
        /\ rd.addr' = rd.addr + 1 /\ rd.len' = rd.len - 1
        /\ rd.busy' = (rd.busy /\ rd.len # 1)
    BY <1>4, <2>5, <2>7, AdvanceFacts
  <2>9. CASE rd.len = 1
    <3>1. RdWaits'
      BY <2>2, <2>8, <2>9 DEF RdWaits
    <3> QED
      BY <1>1, <2>1, <2>3, <2>4, <2>8, <2>9, <3>1 DEF Idle
  <2>10. CASE rd.len # 1
    <3>1. rburst.passed' = rburst.passed + 1
      BY <1>6, <1>9
    <3>2. rburst.passed + 1 <= rburst.len
      BY <1>3, <1>4, <2>10
    <3>3. /\ rd.addr' = rburst.start + (rburst.passed + 1)
          /\ rd.len' = rburst.len + 1 - (rburst.passed + 1)
      BY <1>3, <1>4, <2>8
    <3>4. rd.busy'
      BY <1>3, <2>8, <2>10
    <3>5. Under(rd, rburst, rburst.passed)'
      BY <1>6, <1>7, <3>1, <3>2, <3>3, <3>4 DEF Under
    <3>6. rburst.granted' = rburst.passed'
      BY <1>2, <1>6, <3>1
    <3>7. RdRuns'
      BY <2>1, <2>2, <2>3, <2>4, <2>10, <3>5, <3>6 DEF RdRuns
    <3> QED
      BY <1>1, <2>4, <2>8, <2>10, <3>7 DEF Reads
  <2> QED
    BY <2>9, <2>10
<1>10. CASE ~answered(in) /\ ~r_taken(in)
  <2>1. r' = r /\ bus' = bus
    BY <1>5, <1>10 DEF Clock, RChannel, Bus
  <2>2. eng' = "WAIT_RSP"
    BY <1>2, <1>10 DEF Clock, Engine
  <2>3. rd' = rd /\ rburst.passed' = rburst.passed
    BY <1>6, <1>10
  <2>4. Under(rd, rburst, rburst.passed)'
    BY <1>3, <1>6, <1>7, <2>3 DEF Under
  <2>5. ~failed(in)
    BY <1>10, InputFacts
  <2>6. rburst.err' = rburst.err
    BY <2>5, ReadsDo DEF Types, Burst
  <2>7. r.valid => r.data = bus.addr /\ r.last = (rburst.passed = rburst.len) /\ r.err = rburst.err
    BY DEF Reads, RdRuns
  <2>8. RdRuns'
    BY <1>2, <1>6, <2>1, <2>2, <2>3, <2>4, <2>6, <2>7 DEF RdRuns
  <2> QED
    BY <1>1, <1>4, <2>2, <2>3, <2>8 DEF Reads
<1> QED
  BY <1>8, <1>9, <1>10

-----------------------------------------------------------------------------
(* The engine performs a write burst.                                      *)

(***************************************************************************)
(* Meanwhile no read is accepted.                                          *)
(***************************************************************************)
LEMMA WritesLeave ==
  ASSUME Types, Writes, NEW in \in Inputs, Clock(in)
  PROVE  /\ ~ar_ok /\ ~aw_ok /\ cur_is_write' = TRUE /\ ~r_taken(in)
         /\ rd' = rd /\ rburst' \in Burst /\ r' = r /\ RdWaits'
<1>1. ~ar_ok /\ ~aw_ok
  BY OnlyIdle DEF Writes
<1>2. eng # "IDLE" /\ cur_is_write = TRUE /\ ~r.valid
  BY DEF Writes, RdWaits, Types
<1>3. cur_is_write' = TRUE
  BY <1>2 DEF Clock, Engine
<1>4. ~r_taken(in)
  BY <1>2 DEF r_taken
<1>5. rd' = rd
  BY <1>1, <1>4, CommandsRest
<1>6. r' = r
  BY <1>2, <1>4 DEF Clock, RChannel
<1>7. /\ rburst' \in Burst /\ rburst.len' = rburst.len /\ rburst.start' = rburst.start
      /\ rburst.granted' = rburst.granted /\ rburst.passed' = rburst.passed
      /\ rburst.err' = rburst.err
  BY <1>1, <1>2, <1>4, OldBursts DEF Types, Burst
<1>8. RdWaits'
  <2>1. rd.busy => Fresh(rd, rburst)
    BY DEF Writes, RdWaits
  <2> QED
    BY <1>2, <1>5, <1>6, <1>7, <2>1 DEF RdWaits, Fresh
<1> QED
  BY <1>1, <1>3, <1>4, <1>5, <1>6, <1>7, <1>8

(***************************************************************************)
(* What a clock changes on the write side.                                 *)
(***************************************************************************)
LEMMA WritesDo ==
  ASSUME Types, Writes, NEW in \in Inputs, Clock(in)
  PROVE  /\ wburst' \in Burst /\ wburst.start' = wburst.start /\ wburst.len' = wburst.len
         /\ wburst.granted' = IF in.gnt THEN wburst.granted + 1 ELSE wburst.granted
         /\ wburst.passed' = IF w_taken(in) THEN wburst.passed + 1 ELSE wburst.passed
         /\ wburst.err' = (wburst.err \/ failed(in))
         /\ error_seen' = (error_seen \/ failed(in))
         /\ ~answered(in) => wr' = wr /\ b' = b
<1>1. ~ar_ok /\ ~aw_ok /\ cur_is_write = TRUE /\ eng # "IDLE" /\ ~b.valid
  BY WritesLeave DEF Writes, WrRuns, Types
<1>2. failed(in) => eng = "WAIT_RSP"
  <2>1. failed(in) => bus.owed
    BY InputFacts
  <2>2. bus.owed => eng = "WAIT_RSP"
    BY DEF Writes, WrRuns
  <2> QED
    BY <2>1, <2>2
<1>3. error_seen' = (error_seen \/ failed(in))
  BY <1>1, <1>2 DEF Clock, Errors
<1>4. ~answered(in) => wr' = wr
  BY <1>1, CommandsRest
<1>5. ~answered(in) => b' = b
  BY <1>1 DEF Clock, BChannel, b_taken
<1>6. /\ wburst' \in Burst /\ wburst.start' = wburst.start /\ wburst.len' = wburst.len
      /\ wburst.granted' = IF in.gnt THEN wburst.granted + 1 ELSE wburst.granted
      /\ wburst.passed' = IF w_taken(in) THEN wburst.passed + 1 ELSE wburst.passed
  BY <1>1, OldBursts
<1>7. wburst.err' = (wburst.err \/ failed(in))
  BY <1>1, OldBursts
<1> QED
  BY <1>3, <1>4, <1>5, <1>6, <1>7

(***************************************************************************)
(* The data of a beat is buffered, its address issued, the access granted. *)
(***************************************************************************)
LEMMA WriteIssued ==
  ASSUME Types, Writes, NEW in \in Inputs, Clock(in), eng # "WAIT_RSP"
  PROVE  Writes' /\ wr' = wr /\ b' = b
<1>1. cur_is_write' = TRUE /\ RdWaits'
  BY WritesLeave
<1>2. /\ eng \in {"W_ACTIVE", "ISSUE"} /\ cur_is_write = TRUE /\ ~bus.owed /\ ~b.valid
      /\ Under(wr, wburst, wburst.granted)
      /\ eng = "ISSUE" => wd.valid
  BY DEF Writes, WrRuns, Types
<1>3. /\ wd.valid => wd.beat = wburst.granted
      /\ wburst.passed = wburst.granted + (IF wd.valid THEN 1 ELSE 0)
  BY DEF Writes, WrRuns
<1>4. /\ wburst.start \in Nat /\ wburst.len \in Nat /\ wburst.passed \in Nat
      /\ wburst.granted \in Nat /\ wd.valid \in BOOLEAN
  BY DEF Types, Burst
<1>5. ~answered(in) /\ ~failed(in)
  BY <1>2, InputFacts
<1>6. wr' = wr /\ b' = b /\ error_seen' = error_seen
  BY <1>5, WritesDo DEF Types
<1>7. /\ wburst.start' = wburst.start /\ wburst.len' = wburst.len
      /\ wburst.passed' = IF w_taken(in) THEN wburst.passed + 1 ELSE wburst.passed
      /\ wburst.err' = wburst.err
      /\ wburst.granted' = IF in.gnt THEN wburst.granted + 1 ELSE wburst.granted
  BY <1>5, WritesDo DEF Types, Burst
<1>8. wd' = IF w_taken(in) THEN [valid |-> TRUE, beat |-> wburst.passed] ELSE wd
  BY <1>5 DEF Clock, WData
<1>9. CASE in.gnt
  <2>1. eng = "ISSUE" /\ ~w_taken(in) /\ wd.valid
    BY <1>2, <1>9, InputFacts DEF w_taken
  <2>2. eng' = "WAIT_RSP"
    BY <1>9, <2>1 DEF Clock, Engine
  <2>3. bus' = [owed |-> TRUE, addr |-> wr.addr]
    BY <1>2, <1>9 DEF Clock, Bus, issue_addr
  <2>4. bus.owed' /\ wd.valid'
    BY <1>8, <2>1, <2>3
  <2>5. wburst.granted' = wburst.granted + 1 /\ wburst.passed' = wburst.passed
    BY <1>7, <1>9, <2>1
  <2>6. wburst.granted' > 0 /\ wburst.granted' - 1 = wburst.granted
        /\ wburst.passed' = wburst.granted'
    BY <1>3, <1>4, <2>1, <2>5
  <2>7. Under(wr, wburst, wburst.granted - 1)'
    BY <1>2, <1>6, <1>7, <2>6 DEF Under
  <2>8. WrRuns'
    BY <1>2, <1>6, <2>2, <2>4, <2>6, <2>7 DEF WrRuns
  <2> QED
    BY <1>1, <1>6, <2>2, <2>8 DEF Writes
<1>10. CASE ~in.gnt
  <2>1. eng' = IF wd.valid THEN "ISSUE" ELSE "W_ACTIVE"
    BY <1>2, <1>10 DEF Clock, Engine
  <2>2. bus' = bus
    BY <1>5, <1>10 DEF Clock, Bus
  <2>3. wburst.granted' = wburst.granted
    BY <1>7, <1>10
  <2>4. Under(wr, wburst, wburst.granted)'
    BY <1>2, <1>6, <1>7, <2>3 DEF Under
  <2>5. /\ wd.valid' => wd.beat' = wburst.granted'
        /\ wburst.passed' = wburst.granted' + (IF wd.valid' THEN 1 ELSE 0)
        /\ wd.valid => wd.valid'
    <3>1. CASE w_taken(in)
      <4>1. ~wd.valid
        BY <3>1 DEF w_taken
      <4>2. wburst.passed = wburst.granted
        BY <1>3, <1>4, <4>1
      <4>3. wd.valid' = TRUE /\ wd.beat' = wburst.passed /\ wburst.passed' = wburst.passed + 1
        BY <1>7, <1>8, <3>1
      <4> QED
        BY <2>3, <4>1, <4>2, <4>3
    <3>2. CASE ~w_taken(in)
      BY <1>3, <1>7, <1>8, <2>3, <3>2
    <3> QED
      BY <3>1, <3>2
  <2>6. WrRuns'
    BY <1>2, <1>6, <2>1, <2>2, <2>4, <2>5 DEF WrRuns
  <2> QED
    BY <1>1, <1>6, <2>1, <2>6 DEF Writes
<1> QED
  BY <1>9, <1>10

(***************************************************************************)
(* The access is answered; the last answer of the burst gives its response.*)
(***************************************************************************)
LEMMA WriteAnswered ==
  ASSUME Types, Writes, NEW in \in Inputs, Clock(in), eng = "WAIT_RSP"
  PROVE  /\ (Idle \/ Writes)' /\ Responds'
         /\ wr' \in Command /\ wr.len' \in Beats
<1>1. cur_is_write' = TRUE /\ RdWaits' /\ ~aw_ok
  BY WritesLeave
<1>2. /\ cur_is_write = TRUE /\ bus.owed /\ wd.valid /\ ~b.valid
      /\ wburst.granted > 0 /\ wburst.passed = wburst.granted
  BY DEF Writes, WrRuns, Types
<1>3. /\ wr.busy /\ wburst.granted - 1 <= wburst.len
      /\ wr.addr = wburst.start + (wburst.granted - 1)
      /\ wr.len = wburst.len + 1 - (wburst.granted - 1)
      /\ error_seen = wburst.err
  BY DEF Writes, WrRuns, Under
<1>4. /\ wburst.start \in Nat /\ wburst.len \in Nat /\ wburst.passed \in Nat
      /\ wburst.granted \in Nat
      /\ wr \in Command /\ wr.len \in Beats
  BY DEF Types, Burst
<1>5. ~in.gnt /\ ~w_taken(in)
  BY InputFacts
<1>6. /\ wburst.start' = wburst.start /\ wburst.len' = wburst.len
      /\ wburst.passed' = wburst.passed /\ wburst.granted' = wburst.granted
      /\ ~answered(in) => wr' = wr /\ b' = b
  BY <1>5, WritesDo DEF Types, Burst
<1>7. error_seen' = wburst.err'
  BY <1>3, WritesDo
<1>8. CASE answered(in)
  <2>1. wr' = [Advance(wr) EXCEPT !.busy = @ /\ wr.len # 1]
    BY <1>1, <1>2, <1>8 DEF Clock, WrCmd
  <2>2. wr.len > 0
    BY <1>3, <1>4
  <2>3. /\ wr' \in Command /\ wr.len' \in Beats
        /\ wr.addr' = wr.addr + 1 /\ wr.len' = wr.len - 1
        /\ wr.busy' = (wr.busy /\ wr.len # 1)
    BY <1>4, <2>1, <2>2, AdvanceFacts
  <2>4. wd.valid' = FALSE
    BY <1>2, <1>8 DEF Clock, WData, Types
  <2>5. bus.owed' = FALSE
    BY <1>5, <1>8 DEF Clock, Bus, Types
  <2>6. eng' = IF wr.len = 1 THEN "IDLE" ELSE "W_ACTIVE"
    BY <1>2, <1>8 DEF Clock, Engine
  <2>7. CASE wr.len = 1
    <3>1. ~wr.busy' /\ wburst.granted' = wburst.len' + 1
      <4>1. ~wr.busy'
        BY <2>3, <2>7
      <4>2. wburst.granted = wburst.len + 1
        <5> DEFINE g == wburst.granted
                   l == wburst.len
        <5>1. g \in Nat /\ l \in Nat /\ 1 = l + 1 - (g - 1)
          BY <1>3, <1>4, <2>7
        <5> HIDE DEF g, l
        <5>2. g = l + 1
          BY <5>1
        <5> QED
          BY <5>2 DEF g, l
      <4> QED
        BY <1>6, <4>1, <4>2
    <3>2. b' = [valid |-> TRUE, err |-> failed(in) \/ error_seen]
      BY <1>2, <1>8, <2>7 DEF Clock, BChannel
    <3>3. b.err' = wburst.err'
      <4>1. b.err' = (failed(in) \/ error_seen)
        BY <3>2
      <4>2. error_seen' = (error_seen \/ failed(in))
        BY WritesDo
      <4> QED
        BY <1>7, <4>1, <4>2
    <3>4. Idle'
      BY <1>1, <2>4, <2>5, <2>6, <2>7, <3>1 DEF Idle, WrWaits
    <3> QED
      BY <2>3, <3>1, <3>3, <3>4 DEF Responds
  <2>8. CASE wr.len # 1
    <3>1. wburst.granted <= wburst.len
      BY <1>3, <1>4, <2>8
    <3>2. /\ wr.addr' = wburst.start + wburst.granted
          /\ wr.len' = wburst.len + 1 - wburst.granted
      BY <1>3, <1>4, <2>3
    <3>3. wr.busy'
      BY <1>3, <2>3, <2>8
    <3>4. Under(wr, wburst, wburst.granted)'
      BY <1>6, <1>7, <3>1, <3>2, <3>3 DEF Under
    <3>5. wburst.passed' = wburst.granted' + 0
      BY <1>2, <1>4, <1>6
    <3>6. ~b.valid'
      BY <1>2, <2>8 DEF Clock, BChannel, b_taken
    <3>7. WrRuns'
      BY <2>4, <2>5, <2>6, <2>8, <3>4, <3>5, <3>6 DEF WrRuns
    <3> QED
      BY <1>1, <2>3, <2>6, <2>8, <3>6, <3>7 DEF Writes, Responds
  <2> QED
    BY <2>7, <2>8
<1>9. CASE ~answered(in)
  <2>1. wr' = wr /\ b' = b
    BY <1>6, <1>9
  <2>2. wd' = wd /\ bus' = bus
    BY <1>5, <1>9 DEF Clock, WData, Bus
  <2>3. eng' = "WAIT_RSP"
    BY <1>2, <1>9 DEF Clock, Engine
  <2>4. Under(wr, wburst, wburst.granted - 1)'
    BY <1>3, <1>6, <1>7, <2>1 DEF Under
  <2>5. WrRuns'
    BY <1>2, <1>6, <2>1, <2>2, <2>3, <2>4 DEF WrRuns
  <2> QED
    BY <1>1, <1>2, <1>4, <2>1, <2>3, <2>5 DEF Writes, Responds
<1> QED
  BY <1>8, <1>9

-----------------------------------------------------------------------------
(* The registers keep their types.                                         *)

(***************************************************************************)
(* The channels, the buffer and the flags.                                 *)
(***************************************************************************)
LEMMA TypesKept ==
  ASSUME Types, NEW in \in Inputs, Clock(in)
  PROVE  /\ Offered(ar)' /\ Offered(aw)'
         /\ wd' \in [valid : BOOLEAN, beat : Nat]
         /\ r' \in [valid : BOOLEAN, data : Nat, err : BOOLEAN, last : BOOLEAN]
         /\ b' \in [valid : BOOLEAN, err : BOOLEAN]
         /\ bus' \in [owed : BOOLEAN, addr : Nat]
         /\ cur_is_write' \in BOOLEAN /\ error_seen' \in BOOLEAN
         /\ r.last' => r.valid'
         /\ rburst' \in Burst /\ wburst' \in Burst
<1>1. Offered(ar)' /\ Offered(aw)'
  <2>1. Offered(ar) /\ Offered(aw) /\ RdAddrs \subseteq Nat /\ WrAddrs \subseteq Nat
    BY SaxiToHostAssumption DEF Types
  <2>2. Offer(ar, ar', ar_ok, RdAddrs) /\ Offer(aw, aw', aw_ok, WrAddrs)
    BY DEF Clock, Master
  <2>3. Offered(ar') /\ Offered(aw')
    BY <2>1, <2>2, OfferKeeps
  <2> QED
    BY <2>3 DEF Offered
<1>2. failed(in) \in BOOLEAN /\ answered(in) \in BOOLEAN /\ rd \in Command /\ wr \in Command
  BY InputFacts DEF Types
<1>3. wd' \in [valid : BOOLEAN, beat : Nat]
  <2>1. wburst.passed \in Nat /\ wd \in [valid : BOOLEAN, beat : Nat]
    BY DEF Types, Burst
  <2> QED
    BY <2>1 DEF Clock, WData
<1>4. r' \in [valid : BOOLEAN, data : Nat, err : BOOLEAN, last : BOOLEAN]
      /\ (r.last' => r.valid')
  <2>1. /\ r \in [valid : BOOLEAN, data : Nat, err : BOOLEAN, last : BOOLEAN]
        /\ bus.addr \in Nat /\ error_seen \in BOOLEAN /\ (r.last => r.valid)
    BY DEF Types
  <2>2. CASE r' = [valid |-> TRUE, data |-> bus.addr, err |-> failed(in) \/ error_seen,
                   last |-> rd.len = 1]
    BY <1>2, <2>1, <2>2
  <2>3. CASE r' = [r EXCEPT !.valid = FALSE, !.last = FALSE]
    BY <2>1, <2>3
  <2>4. CASE r' = r
    BY <2>1, <2>4
  <2> QED
    BY <2>2, <2>3, <2>4 DEF Clock, RChannel
<1>5. b' \in [valid : BOOLEAN, err : BOOLEAN]
  <2>1. b \in [valid : BOOLEAN, err : BOOLEAN] /\ error_seen \in BOOLEAN
    BY DEF Types
  <2>2. CASE b' = [valid |-> TRUE, err |-> failed(in) \/ error_seen]
    BY <1>2, <2>1, <2>2
  <2>3. CASE b' = [b EXCEPT !.valid = FALSE]
    BY <2>1, <2>3
  <2>4. CASE b' = b
    BY <2>1, <2>4
  <2> QED
    BY <2>2, <2>3, <2>4 DEF Clock, BChannel
<1>6. bus' \in [owed : BOOLEAN, addr : Nat]
  <2>1. bus \in [owed : BOOLEAN, addr : Nat] /\ rd.addr \in Nat /\ wr.addr \in Nat
    BY <1>2 DEF Types, Command
  <2> QED
    BY <2>1 DEF Clock, Bus, issue_addr
<1>7. cur_is_write' \in BOOLEAN /\ error_seen' \in BOOLEAN
  <2>1. cur_is_write \in BOOLEAN /\ error_seen \in BOOLEAN /\ wr.busy \in BOOLEAN
    BY <1>2 DEF Types, Command
  <2> QED
    BY <1>2, <2>1 DEF Clock, Engine, Errors
<1>8. rburst' \in Burst /\ wburst' \in Burst
  BY NewBursts, OldBursts
<1> QED
  BY <1>1, <1>3, <1>4, <1>5, <1>6, <1>7, <1>8

-----------------------------------------------------------------------------
(* The invariant.                                                          *)

(***************************************************************************)
(* Nothing is offered or under way at reset.                               *)
(***************************************************************************)
LEMMA InitInv == Init => IInv
<1> SUFFICES ASSUME Init PROVE IInv
  OBVIOUS
<1>1. 0 \in Beats
  <2> DEFINE N == 2 ^ W
  <2>1. N \in Nat \ {0} /\ Beats = 0 .. N - 1
    BY SaxiToHostAssumption DEF Beats
  <2> HIDE DEF N
  <2> QED
    BY <2>1
<1>2. Types
  BY <1>1 DEF Init, Types, Offered, Address, Command, Burst, NoBurst
<1>3. Idle
  BY DEF Init, Idle, RdWaits, WrWaits
<1> QED
  BY <1>2, <1>3 DEF Init, IInv

(***************************************************************************)
(* Every clock keeps the invariant.                                        *)
(***************************************************************************)
LEMMA NextInv == IInv /\ [Next]_vars => IInv'
<1> SUFFICES ASSUME IInv, [Next]_vars PROVE IInv'
  OBVIOUS
<1>1. CASE UNCHANGED vars
  BY <1>1 DEF vars, IInv, Types, Offered, Idle, Reads, Writes, RdWaits, WrWaits, RdRuns,
              WrRuns, Under, Fresh
<1>2. CASE Next
  <2>1. PICK in \in Inputs : Clock(in)
    BY <1>2 DEF Next
  <2>2. Types /\ Responds
    BY DEF IInv, Responds
  <2>3. /\ (Idle \/ Reads \/ Writes)' /\ Responds'
        /\ rd' \in Command /\ rd.len' \in Beats /\ wr' \in Command /\ wr.len' \in Beats
    <3>1. CASE Idle
      BY <2>1, <2>2, <3>1, IdleWaits, IdleStep
    <3>2. CASE Reads
      <4>1. Responds' /\ wr' \in Command /\ wr.len' \in Beats
        BY <2>1, <2>2, <3>2, ReadsLeave DEF Types
      <4>2. CASE eng = "WAIT_RSP"
        BY <2>1, <2>2, <3>2, <4>1, <4>2, ReadAnswered
      <4>3. CASE eng # "WAIT_RSP"
        <5>1. ~r.valid
          BY <3>2, <4>3 DEF Reads, RdRuns
        <5>2. rd' = rd
          BY <2>1, <2>2, <3>2, <5>1, ReadsDo DEF r_taken
        <5> QED
          BY <2>1, <2>2, <3>2, <4>1, <4>3, <5>2, ReadIssued DEF Types
      <4> QED
        BY <4>2, <4>3
    <3>3. CASE Writes
      <4>1. rd' \in Command /\ rd.len' \in Beats
        BY <2>1, <2>2, <3>3, WritesLeave DEF Types
      <4>2. CASE eng = "WAIT_RSP"
        BY <2>1, <2>2, <3>3, <4>1, <4>2, WriteAnswered
      <4>3. CASE eng # "WAIT_RSP"
        <5>1. Writes' /\ wr' = wr /\ b' = b
          BY <2>1, <2>2, <3>3, <4>3, WriteIssued
        <5>2. ~b.valid
          BY <3>3 DEF Writes, WrRuns
        <5> QED
          BY <2>2, <4>1, <5>1, <5>2 DEF Types, Responds
      <4> QED
        BY <4>2, <4>3
    <3> QED
      BY <3>1, <3>2, <3>3 DEF IInv
  <2>4. Types'
    BY <2>1, <2>2, <2>3, TypesKept DEF Types
  <2> QED
    BY <2>3, <2>4 DEF IInv, Responds
<1> QED
  BY <1>1, <1>2

(***************************************************************************)
(* The invariant holds in every state of the bridge.                       *)
(***************************************************************************)
THEOREM Invariance == Spec => []IInv
BY InitInv, NextInv, PTL DEF Spec
-----------------------------------------------------------------------------
(* The properties.                                                         *)

(***************************************************************************)
(* Every register holds a value of its width, for all addresses, burst     *)
(* lengths and counter widths (eng_state, the rd_ and wr_ command          *)
(* registers of saxi_to_host.sv).                                          *)
(***************************************************************************)
THEOREM TypeCorrect == Spec => []TypeOK
<1>1. IInv => TypeOK
  BY DEF IInv, TypeOK, Types, Offered, Command, Idle, Reads, Writes
<1> QED
  BY <1>1, Invariance, PTL

(***************************************************************************)
(* A read burst returns its words in order, last on the final one, and     *)
(* marks them from the first failed access on (the R channel of            *)
(* saxi_to_host.sv).                                                       *)
(***************************************************************************)
THEOREM ReadBeats == Spec => []ReadBeat
<1>1. IInv => ReadBeat
  <2> SUFFICES ASSUME IInv, r.valid PROVE ReadBeat
    BY DEF ReadBeat
  <2>1. Reads /\ eng = "WAIT_RSP"
    BY DEF IInv, Idle, Reads, Writes, RdWaits, RdRuns
  <2>2. /\ bus.addr = rburst.start + rburst.passed
        /\ r.data = bus.addr /\ r.last = (rburst.passed = rburst.len)
        /\ r.err = rburst.err
    BY <2>1 DEF Reads, RdRuns
  <2> QED
    BY <2>2 DEF ReadBeat
<1> QED
  BY <1>1, Invariance, PTL

(***************************************************************************)
(* A read burst asks for each word once, in order, after the word before   *)
(* it was taken (ENG_ISSUE and ENG_WAIT_RSP of saxi_to_host.sv).           *)
(***************************************************************************)
THEOREM ReadAccesses == Spec => []ReadAccess
<1>1. IInv => ReadAccess
  <2> SUFFICES ASSUME IInv, eng = "ISSUE", ~cur_is_write PROVE ReadAccess
    BY DEF ReadAccess
  <2>1. Reads
    BY DEF IInv, Idle, Writes
  <2>2. rburst.granted = rburst.passed /\ Under(rd, rburst, rburst.passed)
    BY <2>1 DEF Reads, RdRuns
  <2> QED
    BY <2>2 DEF ReadAccess, Under, issue_addr
<1> QED
  BY <1>1, Invariance, PTL

(***************************************************************************)
(* A write burst writes each of its words once, in order, to the next      *)
(* address (ENG_ISSUE of saxi_to_host.sv).                                 *)
(***************************************************************************)
THEOREM WriteAccesses == Spec => []WriteAccess
<1>1. IInv => WriteAccess
  <2> SUFFICES ASSUME IInv, eng = "ISSUE", cur_is_write PROVE WriteAccess
    BY DEF WriteAccess
  <2>1. Writes
    BY DEF IInv, Idle, Reads
  <2>2. wd.valid /\ wd.beat = wburst.granted /\ Under(wr, wburst, wburst.granted)
    BY <2>1 DEF Writes, WrRuns
  <2> QED
    BY <2>2 DEF WriteAccess, Under, issue_addr
<1> QED
  BY <1>1, Invariance, PTL

(***************************************************************************)
(* The response of a write burst is given after all its accesses, and      *)
(* tells whether one failed (the B channel of saxi_to_host.sv).            *)
(***************************************************************************)
THEOREM WriteResponses == Spec => []WriteResponse
<1>1. IInv => WriteResponse
  BY DEF IInv, WriteResponse
<1> QED
  BY <1>1, Invariance, PTL
=============================================================================
