----------------------------- MODULE Regression -----------------------------
(***************************************************************************)
(* One output directory of the Ibex UVM regression                         *)
(* (dv/uvm/core_ibex): make walks the files of wrapper.mk, riscvdv.mk and  *)
(* ibex_sim.mk in parallel and runs one script per file that is out of     *)
(* date; the scripts share metadata.pickle (MetadataStore) and, per test,  *)
(* a TestRunResult pickle.  make may be interrupted at any moment and      *)
(* started again, and a source file may be edited between two runs.        *)
(*                                                                         *)
(* Of the modification times only what make asks is kept: for a file and   *)
(* one of its prerequisites, which of the two is newer.  Coverage is on    *)
(* (COV=1), so that the report waits for the merged coverage.              *)
(***************************************************************************)
EXTENDS MetadataStore, TestLogs, TLC

CONSTANTS
  RiscvDv,    \* tests of the riscv-dv testlist
  Directed,   \* tests of the directed testlist
  Outcomes,   \* log files a simulation can leave
  Jobs,       \* make -j
  MaxMakes,   \* bound: how often make is started
  MaxEvents,  \* bound: edits of a source file and interruptions of make
  All         \* stands where a file does not belong to one test

ASSUME RegressionAssumption ==
  /\ Scripts = {"cfg", "gen", "tb", "fcov", "merge", "regr"}
  /\ RiscvDv \cap Directed = {} /\ All \notin RiscvDv \cup Directed
  /\ RiscvDv \cup Directed # {}    \* "No matching tests found" otherwise
  /\ Jobs \in Nat \ {0}
  /\ Outcomes \subseteq [open : {TRUE}, uvm : Seq(LineKinds),
                         trace : Seq({"instr", "ecall", "other"})]

Tests == RiscvDv \cup Directed

VARIABLES
  make,     \* "off", "create" or "run"
  result,   \* how the last make ended
  exists,   \* files on disk
  newer,    \* <<p, f>>: prerequisite p is newer than f
  absent,   \* files make did not find when it started
  dirty,    \* <<p, f>>: p is newer than f was when make started
  status,   \* what make knows of a file: "todo", "run", "done" or "failed"
  step,     \* how far the script that makes the file has come
  trr,      \* TestRunResult pickle of each test
  logs,     \* rtl_sim.log and the trace of each test
  report,   \* regr.log
  count     \* how often make was started, sources edited, make interrupted

makeVars == <<make, result, exists, newer, absent, dirty, status, step>>
vars == <<storeVars, makeVars, trr, logs, report, count>>

-----------------------------------------------------------------------------
(* The files and their rules.                                              *)

Stamp(s) == <<s, All>>
Src == <<"src", All>>      \* RTL and testbench sources; no rule makes them
OfTest(t) ==
  {<<k, t>> : k \in IF t \in RiscvDv THEN {"asm", "bin", "log", "trr"}
                                     ELSE {"bin", "log", "trr"}}
\* The generator is only built for riscv-dv tests.
Stamps == {Stamp(s) : s \in IF RiscvDv = {} THEN Scripts \ {"cfg", "gen"} ELSE Scripts}
Files == Stamps \cup UNION {OfTest(t) : t \in Tests}

TrrFiles == {<<"trr", t>> : t \in Tests}

StampDeps(s) ==
  CASE s = "cfg" -> {}
    [] s = "gen" -> {Stamp("cfg")}
    [] s = "tb" -> {Src}
    [] s = "fcov" -> TrrFiles
    [] s = "merge" -> {Stamp("fcov")}
    [] s = "regr" -> TrrFiles \cup {Stamp("merge")}
mut_TestDeps(k, t) ==
  CASE k = "asm" -> {Stamp("gen")}
    [] k = "bin" -> IF t \in RiscvDv THEN {<<"asm", t>>} ELSE {}
    [] k = "log" -> {Stamp("tb"), <<"bin", t>>}
    [] k = "trr" -> {<<"bin", t>>}
TestDeps(k, t) ==
  CASE k = "asm" -> {Stamp("gen")}
    [] k = "bin" -> IF t \in RiscvDv THEN {<<"asm", t>>} ELSE {}
    [] k = "log" -> {Stamp("tb"), <<"bin", t>>}
    [] k = "trr" -> {<<"log", t>>}
Deps(f) == IF f[2] \in Tests THEN TestDeps(f[1], f[2]) ELSE StampDeps(f[1])

Edges == UNION {{<<p, f>> : p \in Deps(f)} : f \in Files}

\* Files fs are written now.
Write(fs) ==
  /\ exists' = exists \cup fs
  /\ newer' = {e \in newer : e[2] \notin fs}
                \cup {e \in Edges : e[1] \in fs /\ e[2] \notin fs}
  /\ dirty' = dirty \cup {e \in Edges : e[1] \in fs}
WriteNothing == UNCHANGED <<exists, newer, dirty>>

\* make is not running and remembers nothing.
Off(how) ==
  /\ make' = "off" /\ result' = how
  /\ absent' = {} /\ dirty' = {}
  /\ status' = [f \in Files |-> "todo"]
  /\ step' = [f \in Files |-> "none"]

NoResult == [passed |-> "None", failure_mode |-> "None"]
TornResult == [passed |-> "torn", failure_mode |-> "None"]   \* an empty pickle

-----------------------------------------------------------------------------
Init ==
  /\ StoreInit
  /\ make = "off" /\ result = "none"
  /\ exists = {Src} /\ newer = {} /\ absent = {} /\ dirty = {}
  /\ status = [f \in Files |-> "todo"] /\ step = [f \in Files |-> "none"]
  /\ trr = [t \in Tests |-> NoResult]
  /\ logs = [t \in Tests |-> NoLogs]
  /\ report = [t \in Tests |-> "none"]
  /\ count = [makes |-> 0, edits |-> 0, kills |-> 0]

\* make run: metadata.py --op create_metadata writes a TestRunResult and its
\* trr.yaml for each test, and then the metadata; if metadata.pickle is there
\* already, whatever is in it, nothing is created.
Started ==
  /\ make' = "run" /\ result' = "none"
  /\ absent' = Files \ exists /\ dirty' = newer
  /\ UNCHANGED <<exists, newer, status, step>>

StartMake ==
  /\ make = "off" /\ count.makes < MaxMakes
  /\ count' = [count EXCEPT !.makes = @ + 1]
  /\ \/ /\ Create
        /\ make' = "create" /\ result' = "none"
        /\ Write(TrrFiles)
        /\ trr' = [t \in Tests |-> NoResult]
        /\ UNCHANGED <<absent, status, step>>
     \/ Readable /\ Started /\ UNCHANGED <<storeVars, trr>>
     \/ /\ file = Torn    \* get-meta prints nothing: there is no regression
        /\ Off("failed")
        /\ UNCHANGED <<storeVars, exists, newer, trr>>
  /\ UNCHANGED <<logs, report>>

CreateMetadata ==
  /\ make = "create"
  /\ Created /\ Started
  /\ UNCHANGED <<trr, logs, report, count>>

-----------------------------------------------------------------------------
(* make                                                                    *)

Running == {f \in Files : status[f] = "run"}
SomeFailed == \E f \in Files : status[f] = "failed"

Considered(f) == status[f] = "todo" /\ \A p \in Deps(f) \ {Src} : status[p] = "done"
MustMake(f) ==
  \/ f \in absent
  \/ \E p \in Deps(f) : p \notin exists \/ <<p, f>> \in dirty

UpToDate(f) == Considered(f) /\ ~MustMake(f)

\* A file that is up to date is passed over, before another script is started.
Skip(f) ==
  /\ make = "run" /\ ~SomeFailed
  /\ UpToDate(f)
  /\ status' = [status EXCEPT ![f] = "done"]
  /\ UNCHANGED <<storeVars, make, result, exists, newer, absent, dirty, step,
                 trr, logs, report, count>>

Start(f) ==
  /\ make = "run" /\ ~SomeFailed
  /\ Considered(f) /\ MustMake(f) /\ ~\E g \in Files : UpToDate(g)
  /\ Cardinality(Running) < Jobs
  /\ status' = [status EXCEPT ![f] = "run"]
  /\ step' = [step EXCEPT ![f] = "open"]
  /\ UNCHANGED <<storeVars, make, result, exists, newer, absent, dirty,
                 trr, logs, report, count>>

\* make ends with the goal made, or with no script left running after one of
\* them failed.
Goal == Stamp("regr")
StopMake ==
  /\ make = "run" /\ Running = {}
  /\ \/ status[Goal] = "done" /\ Off("ok")
     \/ SomeFailed /\ Off("failed")
  /\ UNCHANGED <<storeVars, exists, newer, trr, logs, report, count>>

mut_Ends(f, ok) ==
  /\ status' = [status EXCEPT ![f] = IF ok THEN "done" ELSE "todo"]
  /\ step' = [step EXCEPT ![f] = "none"]
Ends(f, ok) ==
  /\ status' = [status EXCEPT ![f] = IF ok THEN "done" ELSE "failed"]
  /\ step' = [step EXCEPT ![f] = "none"]

-----------------------------------------------------------------------------
(* The scripts that lock the metadata: render_config_template, compile_tb, *)
(* build_instr_gen, get_fcov, merge_cov and collect_results.  "open": not  *)
(* yet in the with-block; "body": in it; "exec": past it.                  *)

OpenStore(s) ==
  /\ step[Stamp(s)] = "open" /\ Enter(s)
  /\ UNCHANGED <<makeVars, trr, logs, report, count>>

LockStore(s) ==
  /\ Lock(s)
  /\ step' = [step EXCEPT ![Stamp(s)] = "body"]
  /\ UNCHANGED <<make, result, exists, newer, absent, dirty, status,
                 trr, logs, report, count>>

LockStoreFails(s) ==
  /\ LockFails(s)
  /\ Ends(Stamp(s), FALSE)
  /\ UNCHANGED <<make, result, exists, newer, absent, dirty,
                 trr, logs, report, count>>

\* The with-block; one that raises is left through __exit__ all the same.
Collect == [t \in Tests |-> Summary(trr[t])]
NoneTorn == \A t \in Tests : trr[t] # TornResult
Body(s) ==
  /\ step[Stamp(s)] = "body" /\ at[s] = "in"
  /\ Truncate(s)
  /\ \/ /\ s = "regr" => NoneTorn
        /\ step' = [step EXCEPT ![Stamp(s)] = "exec"]
        /\ report' = IF s = "regr" THEN Collect ELSE report
     \/ /\ s = "tb" \/ (s = "regr" /\ ~NoneTorn)   \* pkg-config fails; an
                                                    \* empty pickle is read
        /\ step' = [step EXCEPT ![Stamp(s)] = "raise"]
        /\ UNCHANGED report
  /\ UNCHANGED <<make, result, exists, newer, absent, dirty, status,
                 trr, logs, count>>

CloseStore(s) ==
  /\ Unlock(s)
  /\ UNCHANGED <<makeVars, trr, logs, report, count>>

\* The commands are run, and make touches the stamp if they all succeed;
\* collect_results succeeds if no test failed.
StampSucceeds(s) == s = "regr" => \A t \in Tests : report[t] = "PASS"
RunsCommands == {"tb", "gen", "fcov", "merge"}   \* their commands may fail
Execute(s) ==
  /\ step[Stamp(s)] \in {"exec", "raise"} /\ at[s] = "out"
  /\ \/ /\ step[Stamp(s)] = "exec" /\ StampSucceeds(s)
        /\ Ends(Stamp(s), TRUE)
        /\ Write({Stamp(s)})
     \/ /\ step[Stamp(s)] = "raise" \/ s \in RunsCommands \/ ~StampSucceeds(s)
        /\ Ends(Stamp(s), FALSE)
        /\ WriteNothing
  /\ UNCHANGED <<storeVars, make, result, absent, trr, logs, report, count>>

-----------------------------------------------------------------------------
(* The scripts of one test.  They unpickle the metadata without the lock.  *)

ReadsMetadata == {"asm", "bin", "log"}

\* The two pickles are read; a script that finds one of them empty dies.
ReadPickles(f) ==
  /\ f[2] \in Tests /\ step[f] = "open"
  /\ IF (f[1] \in ReadsMetadata => Readable) /\ trr[f[2]] # TornResult
     THEN step' = [step EXCEPT ![f] = "exec"] /\ UNCHANGED status
     ELSE Ends(f, FALSE)
  /\ UNCHANGED <<storeVars, make, result, exists, newer, absent, dirty,
                 trr, logs, report, count>>

\* Before it has exported anything a script may find no commands to run:
\* riscv-dv fails, or an environment variable of the simulator is not set.
Dies(f) ==
  /\ step[f] = "exec"
  /\ f[1] \in {"asm", "log"} \/ (f[1] = "bin" /\ f[2] \in RiscvDv)
  /\ Ends(f, FALSE)
  /\ UNCHANGED <<storeVars, make, result, exists, newer, absent, dirty,
                 trr, logs, report, count>>

\* run_instr_gen: a run that fails leaves no new test.S and is no error.
Generate(f) ==
  /\ f[1] = "asm" /\ step[f] = "exec"
  /\ Write({f}) \/ WriteNothing
  /\ step' = [step EXCEPT ![f] = "export"]
  /\ UNCHANGED <<storeVars, make, result, absent, status, trr, logs, report, count>>

\* compile_test, after its export: without a test.S the compiler fails.
Compile(f) ==
  /\ f[1] = "bin" /\ step[f] = "run"
  /\ \/ Deps(f) \subseteq exists /\ Ends(f, TRUE) /\ Write({f})
     \/ Ends(f, FALSE) /\ WriteNothing
  /\ UNCHANGED <<storeVars, make, result, absent, trr, logs, report, count>>

CutShort(o) == [o EXCEPT !.uvm = <<>>]

\* run_rtl, after its first export: the simulation ends and leaves its logs, is killed after its
\* time and leaves what it had written, or does not start at all; none of
\* these is an error.  A verdict of an earlier simulation is not reset.
Simulate(f) ==
  /\ f[1] = "log" /\ step[f] = "run"
  /\ \/ \E o \in Outcomes :
          /\ logs' = [logs EXCEPT ![f[2]] = o]
          /\ Write({f})
          /\ UNCHANGED trr
     \/ \E o \in Outcomes :
          /\ logs' = [logs EXCEPT ![f[2]] = CutShort(o)]
          /\ trr' = [trr EXCEPT ![f[2]].failure_mode = "TIMEOUT"]
          /\ Write({f})
     \/ WriteNothing /\ UNCHANGED <<trr, logs>>
  /\ step' = [step EXCEPT ![f] = "export"]
  /\ UNCHANGED <<storeVars, make, result, absent, status, report, count>>

\* check_logs
Check(f) ==
  /\ f[1] = "trr" /\ step[f] = "exec"
  /\ IF CompareRaises(trr[f[2]], logs[f[2]])
     THEN Ends(f, FALSE) /\ UNCHANGED trr
     ELSE /\ trr' = [trr EXCEPT ![f[2]] = CompareTestRun(@, logs[f[2]])]
          /\ step' = [step EXCEPT ![f] = "export"]
          /\ UNCHANGED status
  /\ UNCHANGED <<storeVars, make, result, exists, newer, absent, dirty,
                 logs, report, count>>

\* export(write_yaml=True) of the TestRunResult.  It is the last thing a script
\* does, and make then takes the file for made; compile_test exports before it
\* runs its commands instead, and run_rtl before and after.
ExportFirst(f) ==
  /\ f[1] \in {"bin", "log"} /\ step[f] = "exec"
  /\ Write({<<"trr", f[2]>>})
  /\ step' = [step EXCEPT ![f] = "run"]
  /\ UNCHANGED <<storeVars, make, result, absent, status, trr, logs, report, count>>

Export(f) ==
  /\ f[2] \in Tests /\ step[f] = "export"
  /\ Write({<<"trr", f[2]>>})
  /\ Ends(f, TRUE)
  /\ UNCHANGED <<storeVars, make, result, absent, trr, logs, report, count>>

-----------------------------------------------------------------------------
(* Interruptions and edits.                                                *)

\* make is interrupted (it deletes the targets its running scripts have just
\* written) or killed (it does not); its scripts die with it.  One in the
\* middle of an export leaves an empty pickle, a simulation perhaps the first
\* part of its log.
JustWritten ==
  {f \in Running : /\ f[1] \in {"asm", "log"} /\ step[f] = "export" /\ f \in exists
                   /\ \A p \in Deps(f) : <<p, f>> \notin newer}
Exporting ==
  {f[2] : f \in {g \in Running : step[g] = "export" \/ (g[1] \in {"bin", "log"} /\ step[g] = "exec")}}
Simulating == {f \in Running : f[1] = "log" /\ step[f] = "run"}

Interrupt ==
  /\ make # "off" /\ count.edits + count.kills < MaxEvents
  /\ count' = [count EXCEPT !.kills = @ + 1]
  /\ IF make = "create" THEN CreateKilled ELSE Killed(Scripts)
  /\ \/ \E gone \in SUBSET JustWritten :
          /\ exists' = exists \ gone
          /\ logs' = [t \in Tests |-> [logs[t] EXCEPT !.open = @ /\ <<"log", t>> \notin gone]]
          /\ UNCHANGED newer
     \/ \E begun \in (SUBSET Simulating) \ {{}}, o \in Outcomes :
          /\ exists' = exists \cup begun
          /\ newer' = {e \in newer : e[2] \notin begun} \cup {e \in Edges : e[1] \in begun}
          /\ logs' = [t \in Tests |-> IF <<"log", t>> \in begun THEN CutShort(o) ELSE logs[t]]
  /\ \E torn \in SUBSET Exporting :
       trr' = [t \in Tests |-> IF t \in torn THEN TornResult ELSE trr[t]]
  /\ Off("killed")
  /\ UNCHANGED report

Edit ==
  /\ make = "off" /\ count.edits + count.kills < MaxEvents
  /\ count' = [count EXCEPT !.edits = @ + 1]
  /\ Write({Src})
  /\ UNCHANGED <<storeVars, make, result, absent, status, step, trr, logs, report>>

-----------------------------------------------------------------------------
Work ==
  \/ CreateMetadata \/ StopMake
  \/ \E f \in Files :
       \/ Skip(f) \/ Start(f)
       \/ ReadPickles(f) \/ Dies(f) \/ ExportFirst(f) \/ Generate(f) \/ Compile(f)
       \/ Simulate(f) \/ Check(f) \/ Export(f)
  \/ \E s \in {f[1] : f \in Stamps} :
       OpenStore(s) \/ LockStore(s) \/ LockStoreFails(s) \/ Body(s) \/ CloseStore(s) \/ Execute(s)

Next == Work \/ StartMake \/ Interrupt \/ Edit

Spec == Init /\ [][Next]_vars

\* A make that runs goes on: its scripts run and the lock is granted.
FairSpec == Spec /\ WF_vars(Work)

-----------------------------------------------------------------------------
(* Properties.                                                             *)

(***************************************************************************)
(* TypeOK: the types of the shared files, of what make remembers and of    *)
(* the results.                                                            *)
(***************************************************************************)
TypeOK ==
  /\ StoreTypeOK
  /\ make \in {"off", "create", "run"}
  /\ result \in {"none", "ok", "failed", "killed"}
  /\ exists \subseteq Files \cup {Src} /\ absent \subseteq Files
  /\ newer \subseteq Edges /\ dirty \subseteq Edges
  /\ status \in [Files -> {"todo", "run", "done", "failed"}]
  /\ step \in [Files -> {"none", "open", "body", "raise", "exec", "run", "export"}]
  /\ trr \in [Tests -> TestRunResult \cup {TornResult}]
  /\ logs \in [Tests -> [open : BOOLEAN, uvm : {<<>>} \cup {o.uvm : o \in Outcomes},
                        trace : {<<>>} \cup {o.trace : o \in Outcomes}]]
  /\ report \in [Tests -> {"none", "PASS", "FAILED", "FAILED {T}"}]

\* The log says that the test passed, nothing bad before that and no failure
\* after it, and the core executed something.
Judged(t) ==
  LET log == logs[t].uvm IN
  /\ \E i \in DOMAIN log :
       log[i] = "passed" /\ \A j \in 1..i - 1 : log[j] \notin {"error", "timeout"}
  /\ \A i \in DOMAIN log : log[i] # "failed"
  /\ InstrCount(logs[t].trace) > 0

(***************************************************************************)
(* RerunPassIsReal: a test that regr.log reports as PASS did pass in its   *)
(* latest simulation when the results were collected, and make run         *)
(* succeeds only if all tests passed in theirs.                            *)
(***************************************************************************)
Collected == step[Goal] = "exec"
RerunPassIsReal ==
  /\ Collected => \A t \in Tests : report[t] = "PASS" => Judged(t)
  /\ result = "ok" => \A t \in Tests : Judged(t)

(***************************************************************************)
(* PassIsReal: so it is, whatever is interrupted, as long as no source has *)
(* changed and so no test that has a verdict is simulated again.           *)
(***************************************************************************)
PassIsReal == count.edits = 0 => RerunPassIsReal

(***************************************************************************)
(* CollectedLast: while the results are collected no script is running     *)
(* that could still change one, and no log is newer than its verdict.      *)
(***************************************************************************)
CollectedLast ==
  step[Goal] # "none" =>
    Running = {Goal} /\ \A t \in Tests : <<<<"log", t>>, <<"trr", t>>>> \notin newer

(***************************************************************************)
(* NothingForgotten: if the first make gets as far as the report, a test   *)
(* whose log says that it passed is reported as PASS, unless the           *)
(* simulation was killed after its time.                                   *)
(***************************************************************************)
NothingForgotten ==
  count.makes = 1 /\ Collected =>
    \A t \in Tests : Judged(t) => report[t] = "PASS" \/ trr[t].failure_mode = "TIMEOUT"

(***************************************************************************)
(* MakeEnds: a make that was started ends, however its scripts fail, wait  *)
(* for each other's lock or are interrupted.                               *)
(***************************************************************************)
MakeEnds == (make # "off") ~> (make = "off")
=============================================================================
