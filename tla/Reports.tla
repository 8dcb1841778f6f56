------------------------------ MODULE Reports ------------------------------
(***************************************************************************)
(* The reports of a regression (scripts/collect_results.py, report_lib/):  *)
(* from the TestRunResults, in the order of md.tests_pickle_files, and the *)
(* coverage reports of xcelium to regr.log, the two JUnit files, and       *)
(* report.json, which are written one after the other.                     *)
(*                                                                         *)
(* Percentages are in thousandths.                                         *)
(***************************************************************************)
EXTENDS Integers, FiniteSets, FiniteSetsExt

-----------------------------------------------------------------------------
(* The loop of collect_results: the lists of passing and failing tests, by  *)
(* the numbers of the results.  No report depends on their order.          *)

Passing(trrs) == {i \in DOMAIN trrs : trrs[i].passed = "True"}
Failing(trrs) == {i \in DOMAIN trrs : trrs[i].passed # "True"}
Named(trrs, name) == {i \in DOMAIN trrs : trrs[i].testname = name}
Names(trrs) == {trrs[i].testname : i \in DOMAIN trrs}

\* text.py: gen_summary_line divides by the number of tests.
SummaryLine(passing, failing) ==
  [passed |-> Cardinality(passing), failed |-> Cardinality(failing),
   pass_pct |-> (Cardinality(passing) * 1000) \div (Cardinality(passing) + Cardinality(failing))]

\* junit_xml.py: a suite per name, a case per run; in the merged file one case
\* per name, whose failure text is empty unless a run failed.
Junit(trrs) ==
  [name \in Names(trrs) |->
     {[seed |-> trrs[i].seed, failed |-> i \in Failing(trrs)] : i \in Named(trrs, name)}]
JunitMerged(trrs) ==
  [name \in Names(trrs) |->
     [runs |-> Cardinality(Named(trrs, name)),
      failed |-> \E i \in Failing(trrs) : trrs[i].testname = name]]

\* util.py: create_test_summary_dict
mut_TestSummary(trrs) ==
  [name \in Names(trrs) |->
     [passing |-> Cardinality(Named(trrs, name) \cap Passing(trrs)),
      failing |-> Cardinality({i \in Named(trrs, name) : trrs[i].passed = "False"})]]
TestSummary(trrs) ==
  [name \in Names(trrs) |->
     [passing |-> Cardinality(Named(trrs, name) \cap Passing(trrs)),
      failing |-> Cardinality(Named(trrs, name) \cap Failing(trrs))]]

-----------------------------------------------------------------------------
(* Coverage: [top, groups].  top gives covered and total of each metric of *)
(* ibex_top, groups the average of each covergroup module.                 *)

CovergroupIgnore == {"push_pull_agent_pkg"}
Counted(groups) == {m \in DOMAIN groups : m \notin CovergroupIgnore}

\* add_cov_to_summary divides by the total, calc_cg_average is None without
\* any covergroup.
AddCov(metric) == (metric.covered * 1000) \div metric.total
CgAverage(groups) ==
  IF Counted(groups) = {} THEN -1
  ELSE FoldSet(LAMBDA m, sum : sum + groups[m], 0, Counted(groups))
         \div Cardinality(Counted(groups))

CovRaises(cov) == \E metric \in DOMAIN cov.top : cov.top[metric].total = 0
CovSummary(cov) ==
  [metric \in DOMAIN cov.top \cup {"covergroup"} |->
     IF metric = "covergroup" THEN CgAverage(cov.groups) ELSE AddCov(cov.top[metric])]

-----------------------------------------------------------------------------
(* dvsim_json.py: None times 100 raises.                                   *)

DvsimRaises(summary) == \E metric \in DOMAIN summary : summary[metric] = -1
Dvsim(test_summary, summary) ==
  [tests |-> [name \in DOMAIN test_summary |->
                [passing_runs |-> test_summary[name].passing,
                 total_runs |-> test_summary[name].passing + test_summary[name].failing]],
   coverage |-> summary]

-----------------------------------------------------------------------------
(* main: what is on disk when the script ends, and its exit status.  "xlm" *)
(* alone has coverage; without a coverage report there is no summary.      *)

Unwritten == [written |-> FALSE]
Written(contents) == [written |-> TRUE, contents |-> contents]

CollectResults(trrs, simulator, cov) ==
  LET with_cov == simulator = "xlm" /\ cov.exists
      summary == IF with_cov THEN CovSummary(cov) ELSE <<>>
      text == [regr_log |-> Written(SummaryLine(Passing(trrs), Failing(trrs))),
               junit |-> Written(Junit(trrs)), merged |-> Written(JunitMerged(trrs)),
               json |-> Unwritten, ret |-> 1]
  IN  IF with_cov /\ (CovRaises(cov) \/ DvsimRaises(summary)) THEN text
      ELSE [text EXCEPT !.json = Written(Dvsim(TestSummary(trrs), summary)),
                        !.ret = IF Failing(trrs) = {} THEN 0 ELSE 1]
=============================================================================
