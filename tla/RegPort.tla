------------------------------ MODULE RegPort ------------------------------
(***************************************************************************)
(* What a register access promises to the software: one access at a time,  *)
(* performed in a single instant between its issue and its answer, exactly *)
(* once.  The hardware may change the Status registers at any time.  This  *)
(* is the register interface the modules Firmware and LinuxDriver assume.  *)
(***************************************************************************)
CONSTANTS
  Addrs,   \* the registers, by word index
  Data,    \* the values a register holds
  Status   \* the registers the hardware writes too: START and the DONE bits

VARIABLES
  regs,    \* the register file
  op       \* the access under way

Accesses == [we : BOOLEAN, addr : Addrs, data : Data]

Idle == [st |-> "idle"]

\* The register file after a clock in which only the hardware wrote.
Refreshed(file) ==
  {after \in [Addrs -> Data] : \A a \in Addrs \ Status : after[a] = file[a]}

Init == regs = [a \in Addrs |-> 0] /\ op = Idle

Issue(acc) ==
  /\ op = Idle
  /\ op' = [st |-> "pending", acc |-> acc]
  /\ regs' \in Refreshed(regs)

\* A write takes precedence over the hardware; a read sees the value before.
Perform ==
  /\ op.st = "pending"
  /\ IF op.acc.we
     THEN /\ op' = [st |-> "done", acc |-> op.acc]
          /\ \E after \in Refreshed(regs) :
               regs' = [after EXCEPT ![op.acc.addr] = op.acc.data]
     ELSE /\ op' = [st |-> "done", acc |-> [op.acc EXCEPT !.data = regs[op.acc.addr]]]
          /\ regs' \in Refreshed(regs)

Reply ==
  /\ op.st = "done"
  /\ op' = Idle
  /\ regs' \in Refreshed(regs)

HardwareOnly == op' = op /\ regs' \in Refreshed(regs)

Next == (\E acc \in Accesses : Issue(acc)) \/ Perform \/ Reply \/ HardwareOnly

Spec == Init /\ [][Next]_<<regs, op>>
=============================================================================
