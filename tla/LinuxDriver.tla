---------------------------- MODULE LinuxDriver ----------------------------
(***************************************************************************)
(* The Linux driver (linux_driver/) in front of the hardware of RunPath:   *)
(* processes that call the ioctl SA_IOC_RUN on /dev/systolic_array.  The   *)
(* driver keeps no lock and no state of its own between calls, so the      *)
(* register accesses of concurrent calls interleave; a call that timed out *)
(* leaves the hardware running.                                            *)
(*                                                                         *)
(* Each register access is a step.  The contents of the DMA buffers and    *)
(* the raw register ioctls are left out.  The countdown of the timeout is  *)
(* abstract: after any unsuccessful look at the DONE registers the call    *)
(* may give up, if Timeouts is set.                                        *)
(***************************************************************************)
EXTENDS RunPath

CONSTANTS
  Procs,     \* processes that have the device open
  Configs,   \* byte counts (in beats) a caller may put in sa_run_config
  BufSize,   \* SA_DMA_BUF_SIZE, in beats
  Timeouts   \* may a wait run out of time?

ASSUME DriverAssumption ==
  /\ Configs \subseteq [Channels -> Nat \ {0}]
  /\ BufSize \in Nat /\ Timeouts \in BOOLEAN

VARIABLES
  pc,      \* where each process is in sa_ioctl
  cfg,     \* its sa_run_config
  unread,  \* DONE registers it still has to read in this look
  status   \* the AND of those it has read

procVars == <<pc, cfg, unread, status>>
vars == <<cfgVars, pathVars, procVars>>

Outside == {"user", "ok"}   \* not in a call; "ok": the last one returned 0

Init ==
  /\ CfgInit /\ PathInit
  /\ pc = [p \in Procs |-> "user"]
  /\ cfg \in [Procs -> Configs]
  /\ unread = [p \in Procs |-> {}]
  /\ status = [p \in Procs |-> TRUE]

-----------------------------------------------------------------------------
(* SA_IOC_RUN                                                              *)

\* sa_check_run_size; a call that fails it returns -EINVAL and changes nothing.
CheckRunSize(run_cfg) == \A c \in Channels : run_cfg[c] <= BufSize

Run(p, run_cfg) ==
  /\ pc[p] \in Outside
  /\ CheckRunSize(run_cfg)
  /\ cfg' = [cfg EXCEPT ![p] = run_cfg]
  /\ pc' = [pc EXCEPT ![p] = "k"]
  /\ UNCHANGED <<cfgVars, pathVars, unread, status>>

\* sa_program_dma_registers, one BYTES register.
Following(c) == CASE c = "k" -> "x" [] c = "x" -> "a" [] c = "a" -> "y"
                  [] c = "y" -> "start"
Program(p, c) ==
  /\ pc[p] = c
  /\ WriteBytes(c, cfg[p][c])
  /\ pc' = [pc EXCEPT ![p] = Following(c)]
  /\ UNCHANGED <<pathVars, cfg, unread, status>>

\* sa_hw_start, and on to the first look.
HwStart(p) ==
  /\ pc[p] = "start"
  /\ WriteStart(TRUE)
  /\ pc' = [pc EXCEPT ![p] = "wait"]
  /\ unread' = [unread EXCEPT ![p] = Channels]
  /\ status' = [status EXCEPT ![p] = TRUE]
  /\ UNCHANGED <<pathVars, cfg>>

\* sa_hw_done_status: four reads, in the order the compiler chose.  After one
\* that returns 0 the others are still made but cannot matter any more.
ReadDone(p, c) ==
  /\ pc[p] = "wait" /\ c \in unread[p]
  /\ unread' = [unread EXCEPT ![p] = IF done[c] THEN @ \ {c} ELSE {}]
  /\ status' = [status EXCEPT ![p] = done[c]]
  /\ UNCHANGED <<cfgVars, pathVars, pc, cfg>>

\* sa_hw_wait_done: the end of a look.
Looked(p) ==
  /\ pc[p] = "wait" /\ unread[p] = {}
  /\ \/ /\ status[p]
        /\ pc' = [pc EXCEPT ![p] = "ok"]
        /\ UNCHANGED <<unread, status>>
     \/ /\ ~status[p]
        /\ unread' = [unread EXCEPT ![p] = Channels]
        /\ status' = [status EXCEPT ![p] = TRUE]
        /\ UNCHANGED pc
     \/ /\ ~status[p] /\ Timeouts
        /\ pc' = [pc EXCEPT ![p] = "user"]
        /\ status' = [status EXCEPT ![p] = TRUE]
        /\ UNCHANGED unread
  /\ UNCHANGED <<cfgVars, pathVars, cfg>>

InCall(p) ==
  (\E c \in Channels : Program(p, c) \/ ReadDone(p, c)) \/ HwStart(p) \/ Looked(p)
Process(p) == (\E run_cfg \in Configs : Run(p, run_cfg)) \/ InCall(p)
Hardware == PathNext /\ UNCHANGED procVars
Next == (\E p \in Procs : Process(p)) \/ Hardware

Spec == Init /\ [][Next]_vars

\* A process in a call runs on, the clock runs, and the memory answers.  No
\* process has to call at all.
Fairness ==
  /\ \A p \in Procs : WF_vars(InCall(p))
  /\ WF_vars(Handshake /\ UNCHANGED procVars)
  /\ \A c \in MM2S : WF_vars(RdNext(c) /\ UNCHANGED procVars)
  /\ WF_vars(TakeBeat /\ UNCHANGED procVars)
  /\ WF_vars(AddBeat /\ UNCHANGED procVars)
  /\ WF_vars((WrBeat \/ WrFinish \/ WrDrop) /\ UNCHANGED procVars)
  /\ WF_vars((\E e \in Errors : WrResp(e)) /\ UNCHANGED procVars)

FairSpec == Spec /\ Fairness

-----------------------------------------------------------------------------
(* Properties.                                                             *)

(***************************************************************************)
(* TypeOK: the types of the registers, the data path and the processes.    *)
(***************************************************************************)
TypeOK ==
  /\ PathTypeOK
  /\ pc \in [Procs -> Outside \cup Channels \cup {"start", "wait"}]
  /\ cfg \in [Procs -> Configs]
  /\ unread \in [Procs -> SUBSET Channels] /\ status \in [Procs -> BOOLEAN]

(***************************************************************************)
(* TakenTogether: however the calls interleave and time out, a START finds *)
(* the four channels ready together or the writer not ready at all: a      *)
(* descriptor handshake is always of all four, never of some channels for  *)
(* one run and of the others for the next.                                 *)
(***************************************************************************)
TakenTogether == start => Taken(ReadyChannels) \in {{}, Channels}

(***************************************************************************)
(* OnePacketInFlight: the results of a run have all left the array before  *)
(* an operand of the next one is on its way to it, also when calls overlap.*)
(***************************************************************************)
OnePacketInFlight == res > 0 => Remaining("k") = 0 /\ Remaining("x") = 0

(***************************************************************************)
(* RunMeansDone: when SA_IOC_RUN returns 0, the transfer it started is     *)
(* over and the accelerator is at rest, with the whole output stored.      *)
(***************************************************************************)
RunMeansDone ==
  \A p \in Procs : pc[p] = "ok" => ~start /\ Quiet /\ wlen = C

(***************************************************************************)
(* StartFalls: every START is eventually picked up, whatever other calls   *)
(* did before it.                                                          *)
(***************************************************************************)
StartFalls == start ~> ~start

(***************************************************************************)
(* RunReturns: every SA_IOC_RUN returns.                                   *)
(***************************************************************************)
RunReturns == \A p \in Procs : (pc[p] = "wait") ~> (pc[p] = "ok")
=============================================================================
