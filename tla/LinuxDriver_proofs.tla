------------------------- MODULE LinuxDriver_proofs -------------------------
(***************************************************************************)
(* For any number of processes, any run configurations whose a transfer    *)
(* fits the packet, all capacities, any mixture of AXI errors and whether  *)
(* or not waits time out: the safety properties of LinuxDriver hold,       *)
(* provided the tlast wires of k and x keep their value (Sticky).  For a   *)
(* single process whose waits do not time out, a call that returns 0 has   *)
(* seen its run to the end.                                                *)
(***************************************************************************)
EXTENDS LinuxDriverInv, RunPath_proofs

-----------------------------------------------------------------------------
(* Overlapping calls.                                                      *)

(***************************************************************************)
(* The initial states satisfy the invariant.                               *)
(***************************************************************************)
LEMMA InitInv == Init => IInv
<1> SUFFICES ASSUME Init PROVE IInv
  OBVIOUS
<1>1. PathInv
  BY PathInitial DEF Init
<1>2. TypeOK
  BY <1>1 DEF Init, TypeOK, PathInv, Outside
<1>3. bytes["a"] <= C /\ start = FALSE
  BY PathAssumption DEF Init, CfgInit, Channels, MM2S
<1>4. \A p \in Procs : Written(pc[p]) = {}
  BY DEF Init, Written
<1> QED
  BY <1>1, <1>2, <1>3, <1>4 DEF IInv

(***************************************************************************)
(* A new call: none of its registers is written yet.                       *)
(***************************************************************************)
LEMMA RunInv ==
  ASSUME IInv, NEW p \in Procs, NEW run_cfg \in Configs, Run(p, run_cfg)
  PROVE  IInv'
<1>1. UNCHANGED pathVars /\ UNCHANGED cfgVars
  BY DEF Run
<1>2. PathInv'
  BY <1>1, PathUnchanged DEF IInv, PathInv, PathTypeOK, cfgVars
<1>3. TypeOK'
  BY <1>2 DEF Run, IInv, TypeOK, PathInv, Channels, MM2S
<1>4. \A q \in Procs : Written(pc'[q]) \subseteq Written(pc[q])
  BY DEF Run, IInv, TypeOK, Written
<1> QED
  BY <1>1, <1>2, <1>3, <1>4 DEF IInv, cfgVars

(***************************************************************************)
(* A register is overwritten with another positive length, so the ones     *)
(* that other processes have written stay programmed.                      *)
(***************************************************************************)
LEMMA ProgramInv ==
  ASSUME IInv, FitsArray, NEW p \in Procs, NEW c \in Channels, Program(p, c)
  PROVE  IInv'
<1>1. /\ cfg[p] \in Configs /\ cfg[p][c] \in Nat /\ cfg[p][c] > 0
      /\ c = "a" => cfg[p][c] <= C
  BY DriverAssumption DEF IInv, TypeOK, FitsArray
<1>2. /\ bytes' = [bytes EXCEPT ![c] = cfg[p][c]]
      /\ bytes \in [Channels -> Nat] /\ bytes' \in [Channels -> Nat]
      /\ UNCHANGED <<start, done, pathVars>>
  BY <1>1 DEF Program, WriteBytes, IInv, TypeOK, PathTypeOK
<1>3. PathInv'
  BY <1>2, PathUnchanged DEF IInv, PathInv, PathTypeOK
<1>4. TypeOK'
  BY <1>3 DEF Program, Following, IInv, TypeOK, PathInv, Outside, Channels, MM2S
<1>5. \A d \in Channels : bytes'[d] > 0 <=> d = c \/ bytes[d] > 0
  BY <1>1, <1>2
<1>6. bytes'["a"] <= C
  BY <1>1, <1>2 DEF IInv, Channels, MM2S
<1>7. /\ pc[p] = c /\ pc'[p] = Following(c)
      /\ \A q \in Procs \ {p} : pc'[q] = pc[q]
  BY DEF Program, IInv, TypeOK
<1>8. Written(Following(c)) \subseteq Written(c) \cup {c}
  BY DEF Written, Following, Channels, MM2S
<1>9. \A q \in Procs : \A d \in Written(pc'[q]) : bytes'[d] > 0
  <2> SUFFICES ASSUME NEW q \in Procs, NEW d \in Written(pc'[q]) PROVE bytes'[d] > 0
    OBVIOUS
  <2>1. d \in Channels
    BY DEF Written, Channels, MM2S
  <2>2. d = c \/ d \in Written(pc[q])
    BY <1>7, <1>8
  <2> QED
    BY <1>5, <2>1, <2>2 DEF IInv
<1> QED
  BY <1>2, <1>3, <1>4, <1>5, <1>6, <1>9 DEF IInv

(***************************************************************************)
(* START is written by a process that has written all four registers.      *)
(***************************************************************************)
LEMMA HwStartInv ==
  ASSUME IInv, NEW p \in Procs, HwStart(p)
  PROVE  IInv'
<1>1. /\ start' = TRUE /\ done' = [c \in Channels |-> FALSE]
      /\ UNCHANGED bytes /\ UNCHANGED pathVars
  BY DEF HwStart, WriteStart
<1>2. PathInv'
  BY <1>1, PathUnchanged DEF IInv, PathInv, PathTypeOK
<1>3. TypeOK'
  BY <1>2 DEF HwStart, IInv, TypeOK, PathInv
<1>4. Written(pc[p]) = Channels /\ Written("wait") = Channels
  BY DEF HwStart, Written
<1>5. \A q \in Procs : Written(pc'[q]) = Written(pc[q])
  BY <1>4 DEF HwStart, IInv, TypeOK
<1>6. \A c \in Channels : bytes[c] > 0
  BY <1>4 DEF IInv
<1> QED
  BY <1>1, <1>2, <1>3, <1>5, <1>6 DEF IInv

(***************************************************************************)
(* A look at the DONE registers changes nothing outside the call.          *)
(***************************************************************************)
LEMMA LookInv ==
  ASSUME IInv, NEW p \in Procs, (\E c \in Channels : ReadDone(p, c)) \/ Looked(p)
  PROVE  IInv'
<1>1. UNCHANGED <<cfgVars, pathVars>>
  BY DEF ReadDone, Looked
<1>2. PathInv'
  BY <1>1, PathUnchanged DEF IInv, PathInv, PathTypeOK, cfgVars
<1>3. TypeOK'
  <2>1. CASE \E c \in Channels : ReadDone(p, c)
    <3>1. PICK c \in Channels : ReadDone(p, c)
      BY <2>1
    <3>2. done[c] \in BOOLEAN /\ unread[p] \in SUBSET Channels
      BY DEF IInv, TypeOK, PathTypeOK
    <3>3. status' \in [Procs -> BOOLEAN] /\ unread' \in [Procs -> SUBSET Channels]
      BY <3>1, <3>2 DEF ReadDone, IInv, TypeOK
    <3> QED
      BY <1>2, <3>1, <3>3 DEF ReadDone, IInv, TypeOK, PathInv
  <2>2. CASE Looked(p)
    BY <1>2, <2>2 DEF Looked, IInv, TypeOK, PathInv, Outside
  <2> QED
    BY <2>1, <2>2
<1>4. \A q \in Procs : Written(pc'[q]) \subseteq Written(pc[q])
  <2>1. CASE \E c \in Channels : ReadDone(p, c)
    BY <2>1 DEF ReadDone
  <2>2. CASE Looked(p)
    BY <2>2 DEF Looked, IInv, TypeOK, Written
  <2> QED
    BY <2>1, <2>2
<1> QED
  BY <1>1, <1>2, <1>3, <1>4 DEF IInv, cfgVars

(***************************************************************************)
(* The hardware writes no BYTES register and only lowers START.            *)
(***************************************************************************)
LEMMA PathRegisters ==
  ASSUME PathNext
  PROVE  bytes' = bytes /\ (start' => start)
<1>1. CASE Handshake
  BY <1>1 DEF Handshake, DropStart
<1>2. CASE \E c \in MM2S : RdNext(c)
  BY <1>2 DEF RdNext, RdIssued, RdTake, RdBeat, cfgVars
<1>3. CASE ArrayNext
  <2>1. UNCHANGED cfgVars
    BY <1>3 DEF ArrayNext, TakeBeat, AddBeat
  <2> QED
    BY <2>1 DEF cfgVars
<1>4. CASE WrNext
  <2>1. UNCHANGED <<start, bytes>>
    BY <1>4 DEF WrNext, WrBeat, WrFinish, WrDrop, WrResp, cfgVars
  <2> QED
    BY <2>1
<1> QED
  BY <1>1, <1>2, <1>3, <1>4 DEF PathNext

(***************************************************************************)
(* START finds good descriptors, so the data path keeps its invariant.     *)
(***************************************************************************)
LEMMA HardwareInv ==
  ASSUME Sticky = TRUE, IInv, Hardware
  PROVE  IInv'
<1>1. PathNext /\ UNCHANGED procVars
  BY DEF Hardware
<1>2. PathInv'
  BY <1>1, PathStep DEF IInv, GoodDescriptors
<1>3. TypeOK'
  BY <1>1, <1>2 DEF IInv, TypeOK, PathInv, procVars
<1> QED
  BY <1>1, <1>2, <1>3, PathRegisters DEF IInv, procVars

(***************************************************************************)
(* Every step keeps the invariant.                                         *)
(***************************************************************************)
LEMMA NextInv ==
  ASSUME Sticky = TRUE, FitsArray, IInv, [Next]_vars
  PROVE  IInv'
<1>1. CASE \E p \in Procs : Process(p)
  BY <1>1, RunInv, ProgramInv, HwStartInv, LookInv DEF Process, InCall
<1>2. CASE Hardware
  BY <1>2, HardwareInv
<1>3. CASE UNCHANGED vars
  <2>1. UNCHANGED cfgVars /\ UNCHANGED pathVars /\ UNCHANGED procVars
    BY <1>3 DEF vars
  <2>2. PathInv'
    BY <2>1, PathUnchanged DEF IInv, PathInv, PathTypeOK, cfgVars
  <2>3. TypeOK'
    BY <2>1, <2>2 DEF IInv, TypeOK, PathInv, procVars
  <2> QED
    BY <2>1, <2>2, <2>3 DEF IInv, cfgVars, procVars
<1> QED
  BY <1>1, <1>2, <1>3 DEF Next

(***************************************************************************)
(* The invariant holds in every reachable state.                           *)
(***************************************************************************)
THEOREM Invariance ==
  ASSUME Sticky = TRUE, FitsArray
  PROVE  Spec => []IInv
BY InitInv, NextInv, PTL DEF Spec

(***************************************************************************)
(* Type correctness.                                                       *)
(***************************************************************************)
THEOREM TypeCorrect ==
  ASSUME Sticky = TRUE, FitsArray
  PROVE  Spec => []TypeOK
<1>1. IInv => TypeOK
  BY DEF IInv
<1> QED
  BY <1>1, Invariance, PTL

(***************************************************************************)
(* However calls overlap and time out, a descriptor handshake is of all    *)
(* four channels.                                                          *)
(***************************************************************************)
THEOREM DescriptorsTogether ==
  ASSUME Sticky = TRUE, FitsArray
  PROVE  Spec => []TakenTogether
<1>1. IInv => TakenTogether
  BY TakenAll DEF IInv, TakenTogether
<1> QED
  BY <1>1, Invariance, PTL

(***************************************************************************)
(* However calls overlap and time out, the results of a run leave the      *)
(* array before an operand of the next one is on its way.                  *)
(***************************************************************************)
THEOREM OneInFlight ==
  ASSUME Sticky = TRUE, FitsArray
  PROVE  Spec => []OnePacketInFlight
<1>1. IInv => OnePacketInFlight
  <2> SUFFICES ASSUME IInv, res > 0 PROVE Remaining("k") = 0 /\ Remaining("x") = 0
    BY DEF OnePacketInFlight
  <2>1. ~Passed /\ ~Coming
    BY DEF Passed, Coming
  <2> QED
    BY <2>1, Busy DEF IInv, Going
<1> QED
  BY <1>1, Invariance, PTL

-----------------------------------------------------------------------------
(* A single process whose waits do not time out.                           *)

(***************************************************************************)
(* Something is under way only while the process waits, after START.       *)
(***************************************************************************)
LEMMA BusyMeansWaiting ==
  ASSUME NEW p \in Procs, SingleInv(p), ~Quiet
  PROVE  /\ pc[p] = "wait" /\ ~start
         /\ wr # "idle" \/ resp > 0 => ~done["y"]
BY DEF SingleInv, IInv, TypeOK, PathTypeOK

(***************************************************************************)
(* A packet is not both coming and going.                                  *)
(***************************************************************************)
LEMMA NotBoth == (Coming => ~Going) /\ (Coming' => ~Going')
BY DEF Coming, Going

(***************************************************************************)
(* A writer that is idle and owes no response is at rest with all else.    *)
(***************************************************************************)
LEMMA IdleQuiet ==
  ASSUME IInv, Stored, wr = "idle", resp = 0
  PROVE  Quiet
BY DEF IInv, PathInv, Stored, Quiet, Passed

(***************************************************************************)
(* The initial states satisfy the invariant.                               *)
(***************************************************************************)
LEMMA SingleInit ==
  ASSUME NEW p \in Procs, Init
  PROVE  SingleInv(p)
<1>1. IInv
  BY InitInv
<1>2. pc[p] = "user" /\ start = FALSE /\ unread[p] = {} /\ status[p] = TRUE
  BY DEF Init, CfgInit
<1>3. Stored
  BY DEF Init, PathInit, Stored
<1>4. Quiet
  BY <1>1, <1>3, IdleQuiet DEF Init, PathInit
<1>5. Written(pc[p]) = {}
  BY <1>2 DEF Written
<1> QED
  BY <1>1, <1>2, <1>3, <1>4, <1>5 DEF SingleInv

(***************************************************************************)
(* Steps that leave the data path alone leave what it stores alone.        *)
(***************************************************************************)
LEMMA StoredUnchanged ==
  ASSUME UNCHANGED pathVars
  PROVE  (Stored' <=> Stored) /\ (Quiet' <=> Quiet)
BY DEF pathVars, Stored, Quiet, Coming, Going, Remaining

(***************************************************************************)
(* The call and its register writes happen at rest; START clears DONE.     *)
(***************************************************************************)
LEMMA SingleProgram ==
  ASSUME NEW p \in Procs, SingleInv(p), IInv', FitsOutput,
         \/ \E run_cfg \in Configs : Run(p, run_cfg)
         \/ \E c \in Channels : Program(p, c)
         \/ HwStart(p)
  PROVE  SingleInv(p)'
<1>1. UNCHANGED pathVars /\ pc \in [Procs -> Outside \cup Channels \cup {"start", "wait"}]
  BY DEF Run, Program, HwStart, SingleInv, IInv, TypeOK
<1>2. Stored' /\ (Quiet' <=> Quiet)
  BY <1>1, StoredUnchanged DEF SingleInv
<1>3. pc[p] # "wait" /\ ~start /\ Quiet
  BY DEF Run, Program, HwStart, SingleInv, Outside, Channels, MM2S
<1>4. CASE \E run_cfg \in Configs : Run(p, run_cfg)
  <2>1. pc'[p] = "k" /\ UNCHANGED <<cfgVars, unread, status>>
    BY <1>1, <1>4 DEF Run
  <2>2. Written(pc'[p]) = {}
    BY <2>1 DEF Written
  <2> QED
    BY <1>2, <1>3, <2>1, <2>2 DEF SingleInv, cfgVars
<1>5. CASE \E c \in Channels : Program(p, c)
  <2>1. PICK c \in Channels : Program(p, c)
    BY <1>5
  <2>2. /\ pc'[p] = Following(c) /\ bytes' = [bytes EXCEPT ![c] = cfg[p][c]]
        /\ UNCHANGED <<start, done, unread, status>>
    BY <1>1, <2>1 DEF Program, WriteBytes
  <2>3. pc'[p] \notin {"wait", "ok"}
    BY <2>2 DEF Following, Channels, MM2S
  <2>4. "y" \in Written(pc'[p]) => c = "y"
    BY <2>2 DEF Written, Following, Channels, MM2S
  <2>5. bytes \in [Channels -> Nat] /\ cfg[p] \in Configs
    BY DEF SingleInv, IInv, TypeOK, PathTypeOK
  <2>6. "y" \in Written(pc'[p]) => bytes'["y"] >= C
    BY <2>2, <2>4, <2>5 DEF FitsOutput
  <2> QED
    BY <1>2, <1>3, <2>2, <2>3, <2>6 DEF SingleInv
<1>6. CASE HwStart(p)
  <2>1. /\ pc[p] = "start" /\ pc'[p] = "wait" /\ unread'[p] = Channels /\ status'[p] = TRUE
        /\ start' = TRUE /\ done' = [c \in Channels |-> FALSE] /\ bytes' = bytes
    BY <1>1, <1>6 DEF HwStart, WriteStart, SingleInv, IInv, TypeOK
  <2>2. "y" \in Written(pc[p]) /\ "y" \in Channels
    BY <2>1 DEF Written, Channels
  <2>3. bytes'["y"] >= C
    BY <2>1, <2>2 DEF SingleInv
  <2> QED
    BY <1>2, <1>3, <2>1, <2>2, <2>3 DEF SingleInv
<1> QED
  BY <1>4, <1>5, <1>6

(***************************************************************************)
(* The call returns 0 only after a look that found S2MM_DONE, and with it  *)
(* everything at rest.                                                     *)
(***************************************************************************)
LEMMA SingleLook ==
  ASSUME NEW p \in Procs, SingleInv(p), IInv', Timeouts = FALSE,
         (\E c \in Channels : ReadDone(p, c)) \/ Looked(p)
  PROVE  SingleInv(p)'
<1>1. /\ UNCHANGED <<cfgVars, pathVars>> /\ pc[p] = "wait"
      /\ pc \in [Procs -> Outside \cup Channels \cup {"start", "wait"}]
      /\ unread \in [Procs -> SUBSET Channels] /\ status \in [Procs -> BOOLEAN]
      /\ done \in [Channels -> BOOLEAN]
  BY DEF ReadDone, Looked, SingleInv, IInv, TypeOK, PathTypeOK
<1>2. Stored' /\ (Quiet' <=> Quiet) /\ UNCHANGED <<start, done, bytes, wr, resp, wlen>>
  BY <1>1, StoredUnchanged DEF SingleInv, cfgVars, pathVars
<1>3. CASE \E c \in Channels : ReadDone(p, c)
  <2>1. PICK c \in Channels : ReadDone(p, c)
    BY <1>3
  <2>2. /\ pc' = pc /\ c \in unread[p] /\ status[p]
        /\ unread'[p] = IF done[c] THEN unread[p] \ {c} ELSE {}
        /\ status'[p] = done[c]
    BY <1>1, <2>1 DEF ReadDone, SingleInv
  <2>3. unread'[p] # {} => status'[p]
    BY <2>2
  <2>4. status'[p] /\ "y" \notin unread'[p] => done["y"]
    BY <1>1, <2>2 DEF SingleInv
  <2> QED
    BY <1>2, <2>2, <2>3, <2>4 DEF SingleInv
<1>4. CASE Looked(p) /\ status[p]
  <2>1. pc'[p] = "ok" /\ UNCHANGED <<unread, status>> /\ unread[p] = {}
    BY <1>1, <1>4 DEF Looked
  <2>2. done["y"]
    BY <1>1, <1>4, <2>1 DEF SingleInv
  <2>3. ~start
    BY <2>2 DEF SingleInv
  <2>4. wr = "idle" /\ resp = 0 /\ wlen = C
    BY <1>1, <2>2, <2>3 DEF SingleInv
  <2>5. Quiet
    BY <2>4, IdleQuiet DEF SingleInv
  <2>6. Written(pc'[p]) = Written(pc[p])
    BY <1>1, <2>1 DEF Written
  <2> QED
    BY <1>2, <2>1, <2>3, <2>4, <2>5, <2>6 DEF SingleInv
<1>5. CASE Looked(p) /\ ~status[p]
  <2>1. pc' = pc /\ unread'[p] = Channels /\ status'[p] = TRUE
    BY <1>1, <1>5 DEF Looked
  <2>2. "y" \in Channels
    BY DEF Channels
  <2> QED
    BY <1>2, <2>1, <2>2 DEF SingleInv
<1> QED
  BY <1>3, <1>4, <1>5

(***************************************************************************)
(* A step of the hardware after START: what the process knows is kept if   *)
(* S2MM_DONE comes with the end of the run.                                *)
(***************************************************************************)
LEMMA SingleHardware ==
  ASSUME NEW p \in Procs, SingleInv(p), IInv', Stored', UNCHANGED procVars,
         pc[p] = "wait", ~start', bytes' = bytes,
         done["y"] => done'["y"],
         wr' = "idle" => wlen' = C,
         done'["y"] => wr' = "idle" /\ resp' = 0
  PROVE  SingleInv(p)'
BY DEF SingleInv, procVars

(***************************************************************************)
(* START finds everything at rest.                                         *)
(***************************************************************************)
LEMMA SingleHandshake ==
  ASSUME NEW p \in Procs, SingleInv(p), IInv', Handshake, UNCHANGED procVars
  PROVE  SingleInv(p)'
<1>1. /\ start /\ ~start' /\ wr' = "write" /\ wleft' = bytes["y"] /\ wlen' = 0
      /\ Coming' /\ UNCHANGED <<done, bytes, resp>>
  BY HandshakeStep DEF SingleInv, IInv, GoodDescriptors
<1>2. pc[p] = "wait" /\ Quiet /\ ~done["y"]
  BY <1>1 DEF SingleInv
<1>3. resp = 0 /\ bytes["y"] >= C /\ bytes["y"] \in Nat
  BY <1>2 DEF Quiet, SingleInv, Written, Channels, IInv, TypeOK, PathTypeOK
<1>4. ~Going'
  BY <1>1, NotBoth
<1>5. Stored'
  BY <1>1, <1>3, <1>4, PathAssumption DEF Stored
<1> QED
  BY <1>1, <1>2, <1>5, SingleHardware

(***************************************************************************)
(* The readers and the array move beats of the run on.                     *)
(***************************************************************************)
LEMMA SingleStreams ==
  ASSUME NEW p \in Procs, SingleInv(p), IInv', Sticky = TRUE, UNCHANGED procVars,
         (\E c \in MM2S : RdNext(c)) \/ ArrayNext
  PROVE  SingleInv(p)'
<1>i. PathInv /\ Stored
  BY DEF SingleInv, IInv
<1>1. /\ ~Passed
      /\ UNCHANGED <<start, bytes, wr, wleft, wlen, resp>> /\ done'["y"] = done["y"]
  <2>1. CASE \E c \in MM2S : RdNext(c)
    BY <1>i, <2>1, ReadPath, ReadStep DEF PathInv, Streams
  <2>2. CASE ArrayNext
    BY <1>i, <2>2, TakePath, AddPath DEF ArrayNext, cfgVars
  <2> QED
    BY <2>1, <2>2
<1>2. wr = "write" /\ ~Quiet
  BY <1>1, <1>i, Busy DEF Stored, Quiet, Passed
<1>3. pc[p] = "wait" /\ ~start /\ ~done["y"]
  BY <1>2, BusyMeansWaiting
<1>4. (Coming' => wlen = 0) /\ (Going' => wlen + res' + Len(fifo'["y"]) = C)
  <2>1. CASE \E c \in MM2S : RdNext(c)
    <3>1. PICK c \in MM2S : RdNext(c)
      BY <2>1
    <3>2. (Coming' <=> Coming) /\ (Going' <=> Going)
      BY <1>i, <3>1, ReadPath
    <3>3. res' = res /\ fifo'["y"] = fifo["y"]
      BY <1>i, <3>1, ReadStep DEF PathInv, Streams
    <3> QED
      BY <1>2, <1>i, <3>2, <3>3 DEF Stored
  <2>2. CASE TakeBeat
    <3>1. Coming /\ (Coming' \/ (Going' /\ res' = C)) /\ fifo'["y"] = fifo["y"]
      BY <1>i, <2>2, TakePath
    <3>2. wlen = 0 /\ Len(fifo'["y"]) = 0
      BY <1>2, <1>i, <3>1 DEF Stored, Coming
    <3>3. Going' => res' = C
      BY <3>1, NotBoth
    <3> QED
      BY <3>2, <3>3, PathAssumption
  <2>3. CASE AddBeat
    <3>1. Going /\ Going' /\ res' + Len(fifo'["y"]) = res + Len(fifo["y"])
      BY <1>i, <2>3, AddPath
    <3>2. ~Coming'
      BY <3>1, NotBoth
    <3>3. wlen + res + Len(fifo["y"]) = C
      BY <1>2, <1>i, <3>1 DEF Stored
    <3>4. /\ wlen \in Nat /\ res \in Nat /\ Len(fifo["y"]) \in Nat
          /\ res' \in Nat /\ Len(fifo'["y"]) \in Nat
      BY <1>i, PathFacts DEF PathInv, IInv, PathTypeOK
    <3>5. C \in Nat
      BY PathAssumption
    <3> DEFINE q == Len(fifo["y"])
               r == Len(fifo'["y"])
               o == res'
    <3>6. /\ wlen \in Nat /\ res \in Nat /\ q \in Nat /\ o \in Nat /\ r \in Nat
          /\ o + r = res + q /\ wlen + res + q = C
      BY <3>1, <3>3, <3>4
    <3> HIDE DEF q, r, o
    <3>7. wlen + o + r = C
      BY <3>5, <3>6
    <3> USE DEF o
    <3> USE DEF r
    <3> QED
      BY <3>2, <3>7
  <2> QED
    BY <2>1, <2>2, <2>3 DEF ArrayNext
<1>5. Stored'
  BY <1>1, <1>2, <1>4, <1>i DEF Stored
<1> QED
  BY <1>1, <1>2, <1>3, <1>5, SingleHardware

(***************************************************************************)
(* The writer stores the results; the transfer is never shorter than the   *)
(* packet, so none is dropped.                                             *)
(***************************************************************************)
LEMMA SingleWrite ==
  ASSUME NEW p \in Procs, SingleInv(p), IInv', UNCHANGED procVars, WrNext
  PROVE  SingleInv(p)'
<1>i. PathInv /\ Stored /\ PathTypeOK
  BY DEF SingleInv, IInv, PathInv
<1>t. /\ wlen \in Nat /\ wleft \in Nat /\ res \in Nat /\ C \in Nat
      /\ Len(fifo["y"]) \in Nat /\ resp \in Nat
  BY <1>i, PathFacts
<1>1. CASE WrBeat
  <2>1. wr = "write" /\ ~Quiet /\ wleft' = wleft - 1 /\ wlen' = wlen + 1 /\ wleft > 0
    BY <1>1, <1>i DEF WrBeat, Quiet, PathInv
  <2>2. pc[p] = "wait" /\ ~start /\ ~done["y"]
    BY <2>1, BusyMeansWaiting
  <2>3. /\ Going
        /\ Head(fifo["y"]) => res = 0 /\ Len(fifo["y"]) = 1
        /\ ~Head(fifo["y"]) => Going'
        /\ Len(fifo["y"]) > 0 /\ Len(fifo'["y"]) = Len(fifo["y"]) - 1
        /\ UNCHANGED cfgVars /\ res' = res
    BY <1>1, <1>i, WrTakePath
  <2>4. resp = 0 /\ wlen + res + Len(fifo["y"]) = C /\ wlen + wleft >= C
    BY <1>i, <2>1, <2>3 DEF Stored
  <2>5. /\ wr' = IF Head(fifo["y"]) THEN IF wleft = 1 THEN "idle" ELSE "finish"
                               ELSE IF wleft = 1 THEN "drop" ELSE "write"
        /\ resp' = IF wr' \in {"idle", "drop"} THEN resp + 1 ELSE resp
    BY <1>1 DEF WrBeat
  <2>6. CASE Head(fifo["y"])
    <3>1. wlen' = C
      <4> DEFINE q == Len(fifo["y"])
      <4>1. wlen \in Nat /\ res = 0 /\ q = 1 /\ wlen + res + q = C /\ wlen' = wlen + 1
        BY <1>t, <2>1, <2>3, <2>4, <2>6
      <4> HIDE DEF q
      <4> QED
        BY <4>1
    <3>2. wr' \in {"idle", "finish"} /\ (wr' = "idle" => wleft' = 0)
      <4>1. wr' = IF wleft = 1 THEN "idle" ELSE "finish"
        BY <2>5, <2>6
      <4> QED
        BY <2>1, <4>1
    <3>3. resp' \in {0, 1} /\ (wr' # "idle" => resp' = 0)
      <4>1. resp = 0 /\ resp' = IF wr' \in {"idle", "drop"} THEN resp + 1 ELSE resp
        BY <2>4, <2>5
      <4> QED
        BY <3>2, <4>1
    <3>4. Stored'
      BY <3>1, <3>2, <3>3 DEF Stored
    <3> QED
      BY <2>2, <2>3, <3>1, <3>4, SingleHardware DEF cfgVars
  <2>7. CASE ~Head(fifo["y"])
    <3>1. Going' /\ ~Coming'
      BY <2>3, <2>7, NotBoth
    <3>2. /\ res' = res /\ wlen' = wlen + 1 /\ wleft' = wleft - 1
          /\ Len(fifo'["y"]) = Len(fifo["y"]) - 1
      BY <2>1, <2>3
    <3>3. Len(fifo["y"]) > 0 /\ res + (Len(fifo["y"]) - 1) > 0
      BY <2>3, <3>1, <3>2 DEF Going
    <3> DEFINE q == Len(fifo["y"])
               r == Len(fifo'["y"])
    <3>4. /\ wlen \in Nat /\ res \in Nat /\ q \in Nat /\ wleft \in Nat /\ C \in Nat
          /\ q > 0 /\ res + (q - 1) > 0 /\ r = q - 1
          /\ wlen + res + q = C /\ wlen + wleft >= C
      BY <1>t, <2>4, <3>2, <3>3
    <3> HIDE DEF q, r
    <3>5. wlen' + res' + r = C /\ wlen' + wleft' >= C /\ wleft # 1
      BY <3>2, <3>4
    <3> USE DEF r
    <3>6. wr' = "write" /\ resp' = 0
      BY <2>4, <2>5, <2>7, <3>5
    <3>7. Stored'
      BY <3>1, <3>5, <3>6 DEF Stored
    <3> QED
      BY <2>2, <2>3, <3>6, <3>7, SingleHardware DEF cfgVars
  <2> QED
    BY <2>6, <2>7
<1>2. CASE WrFinish
  <2>1. /\ wr = "finish" /\ wr' = "idle" /\ wleft' = 0 /\ resp' = resp + 1 /\ ~Quiet
        /\ UNCHANGED cfgVars /\ UNCHANGED wlen
    BY <1>2 DEF WrFinish, Quiet
  <2>2. pc[p] = "wait" /\ ~start /\ ~done["y"]
    BY <2>1, BusyMeansWaiting
  <2>3. resp = 0 /\ wlen = C
    BY <1>i, <2>1 DEF Stored
  <2>4. Stored'
    BY <2>1, <2>3 DEF Stored
  <2> QED
    BY <2>1, <2>2, <2>3, <2>4, SingleHardware DEF cfgVars
<1>3. ~WrDrop
  BY <1>i DEF Stored, WrDrop
<1>4. CASE \E e \in Errors : WrResp(e)
  <2>1. /\ resp > 0 /\ resp' = resp - 1 /\ ~Quiet
        /\ UNCHANGED <<start, bytes, wr, wleft, wlen>>
    BY <1>4, <1>t DEF WrResp, Quiet
  <2>2. pc[p] = "wait" /\ ~start /\ ~done["y"]
    BY <2>1, BusyMeansWaiting
  <2>3. wr = "idle" /\ resp' = 0 /\ wleft = 0
    BY <1>i, <1>t, <2>1 DEF Stored
  <2>4. wlen = C
    BY <2>2, <2>3 DEF SingleInv
  <2>5. Stored'
    BY <2>1, <2>3 DEF Stored
  <2> QED
    BY <2>1, <2>2, <2>3, <2>4, <2>5, SingleHardware
<1> QED
  BY <1>1, <1>2, <1>3, <1>4 DEF WrNext

(***************************************************************************)
(* Every step of a single process and the hardware keeps the invariant.    *)
(***************************************************************************)
LEMMA SingleNext ==
  ASSUME NEW p, Procs = {p}, Sticky = TRUE, Timeouts = FALSE, FitsArray, FitsOutput,
         SingleInv(p), [Next]_vars
  PROVE  SingleInv(p)'
<1>1. IInv' /\ p \in Procs
  BY NextInv DEF SingleInv
<1>2. CASE \E q \in Procs : Process(q)
  <2>1. Process(p)
    BY <1>2
  <2> QED
    BY <1>1, <2>1, SingleProgram, SingleLook DEF Process, InCall
<1>3. CASE Hardware
  BY <1>1, <1>3, SingleHandshake, SingleStreams, SingleWrite DEF Hardware, PathNext
<1>4. CASE UNCHANGED vars
  <2>1. UNCHANGED cfgVars /\ UNCHANGED pathVars /\ UNCHANGED procVars
    BY <1>4 DEF vars
  <2>2. Stored' /\ (Quiet' <=> Quiet)
    BY <2>1, StoredUnchanged DEF SingleInv
  <2> QED
    BY <1>1, <2>1, <2>2 DEF SingleInv, cfgVars, pathVars, procVars
<1> QED
  BY <1>2, <1>3, <1>4 DEF Next

(***************************************************************************)
(* Without timeouts and without a second process, SA_IOC_RUN returns 0     *)
(* only when its transfer is over and the whole output is stored.          *)
(***************************************************************************)
THEOREM RunIsDone ==
  ASSUME NEW p, Procs = {p}, Sticky = TRUE, Timeouts = FALSE, FitsArray, FitsOutput
  PROVE  Spec => []RunMeansDone
<1>1. Init => SingleInv(p)
  BY SingleInit
<1>2. SingleInv(p) /\ [Next]_vars => SingleInv(p)'
  BY SingleNext
<1>3. SingleInv(p) => RunMeansDone
  BY DEF SingleInv, RunMeansDone
<1> QED
  BY <1>1, <1>2, <1>3, PTL DEF Spec
=============================================================================
