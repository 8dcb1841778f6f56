------------------------------ MODULE TestLogs ------------------------------
(***************************************************************************)
(* How the log of one simulation becomes a verdict                         *)
(* (riscv_dv_extension/ibex_log_to_trace_csv.py, scripts/check_logs.py,    *)
(* the summary of scripts/collect_results.py).                             *)
(*                                                                         *)
(* A UVM log is a sequence of line kinds:                                  *)
(*   "text"    nothing of interest,                                        *)
(*   "error"   UVM_ERROR, UVM_FATAL or Error,                              *)
(*   "timeout" an error line with "Test failed due to wall-clock timeout.",*)
(*   "passed", "failed"  the test result.                                  *)
(* A trace is a sequence of line kinds "instr", "ecall" and "other".       *)
(***************************************************************************)
EXTENDS Integers, Sequences, FiniteSets, FiniteSetsExt

LineKinds == {"text", "error", "timeout", "passed", "failed"}
Results == {"passed", "failed"}

\* Failure_Modes, with None for a field nobody has set yet.
FailureModes == {"None", "NONE", "TIMEOUT", "FILE_ERROR", "LOG_ERROR"}

\* The fields of a TestRunResult that the verdict is read from.
TestRunResult == [passed : {"None", "True", "False"}, failure_mode : FailureModes]

Lines(log, kinds) == {i \in DOMAIN log : log[i] \in kinds}

-----------------------------------------------------------------------------
(* check_ibex_uvm_log                                                      *)

\* The loop stops at the first FAILED; error lines count until a result.
UvmRead(log) ==
  LET fails == Lines(log, {"failed"})
  IN  IF fails = {} THEN log ELSE SubSeq(log, 1, Min(fails))

mut_ErrorLines(log) == Lines(log, {"error", "timeout"})
ErrorLines(log) ==
  {i \in Lines(log, {"error", "timeout"}) :
     \A j \in Lines(log, Results) : i < j}

UvmFailed(log) == ErrorLines(log) # {} \/ Lines(log, {"failed"}) # {}
UvmPassed(log) == Lines(UvmRead(log), {"passed"}) # {} /\ ~UvmFailed(log)

\* `in error_line' on a test that failed without an error line: error_line
\* is None and the script dies of a TypeError.
UvmRaises(log) == UvmFailed(log) /\ ErrorLines(log) = {}

mut_UvmMode(log) == IF ~UvmFailed(log) THEN "NONE" ELSE log[Max(ErrorLines(log))]
UvmMode(log) ==
  IF ~UvmFailed(log) THEN "NONE"
  ELSE IF log[Max(ErrorLines(log))] = "timeout" THEN "TIMEOUT" ELSE "LOG_ERROR"

-----------------------------------------------------------------------------
(* process_ibex_sim_log                                                    *)

\* _process_ibex_sim_log_fd: the instructions before the first ecall.
InstrCount(trace) ==
  LET ecalls == Lines(trace, {"ecall"})
  IN  Cardinality({i \in Lines(trace, {"instr"}) : \A j \in ecalls : i < j})

\* A missing trace file counts as one without instructions.
TraceRaises(trace) == InstrCount(trace) = 0

-----------------------------------------------------------------------------
(* compare_test_run, on the files a simulation left behind                 *)

Failed(trr, mode) == [trr EXCEPT !.passed = "False", !.failure_mode = mode]

\* A log that was never written cannot be opened.
NoLogs == [open |-> FALSE, uvm |-> <<>>, trace |-> <<>>]
FileError(logs) == TraceRaises(logs.trace) \/ ~logs.open
Killed_in_run_rtl(trr) == trr.failure_mode = "TIMEOUT"

mut_CompareTestRun(trr, logs) ==
  CASE Killed_in_run_rtl(trr) -> [trr EXCEPT !.passed = "False"]
    [] ~Killed_in_run_rtl(trr) /\ FileError(logs) -> Failed(trr, "FILE_ERROR")
    [] OTHER -> [trr EXCEPT !.passed = "True"]
CompareTestRun(trr, logs) ==
  CASE Killed_in_run_rtl(trr) -> [trr EXCEPT !.passed = "False"]
    [] ~Killed_in_run_rtl(trr) /\ FileError(logs) -> Failed(trr, "FILE_ERROR")
    [] ~Killed_in_run_rtl(trr) /\ ~FileError(logs) /\ ~UvmPassed(logs.uvm)
         -> [trr EXCEPT !.failure_mode = UvmMode(logs.uvm)]
    [] OTHER -> [trr EXCEPT !.passed = "True"]

CompareRaises(trr, logs) ==
  ~Killed_in_run_rtl(trr) /\ ~FileError(logs) /\ UvmRaises(logs.uvm)

\* collect_results: the line of a test in regr.log.
Summary(trr) ==
  CASE trr.passed = "True" -> "PASS"
    [] trr.passed # "True" /\ trr.failure_mode = "TIMEOUT" -> "FAILED {T}"
    [] OTHER -> "FAILED"
=============================================================================
