---------------------------- MODULE MCFlowTools ----------------------------
(***************************************************************************)
(* Inputs for FlowTools.                                                   *)
(***************************************************************************)
EXTENDS FlowTools

\* The words of make: TEST, SEED and ITERATIONS, with an empty and a repeated
\* argument.
Words == {{"all_riscvdv", "all_directed"}, {"all"}, {"rand", "pmp_disable"},
          {"csr", "sw-basic"}, {"ddm"}, {"nothing"}}
Seeds == {<<>>, <<<<"SEED", 0>>>>, <<<<"SEED", 9>>, <<"SEED", 4>>>>,
          <<<<"SEED", Empty>>>>, <<<<"SEED", -1>>>>}
Iterations == {<<>>, <<<<"ITERATIONS", 3>>>>, <<<<"ITERATIONS", Empty>>>>,
               <<<<"ITERATIONS", 0>>>>, <<<<"ITERATIONS", Text>>>>}
MCArgLists == {<<<<"TEST", w>>>> \o s \o i : w \in Words, s \in Seeds, i \in Iterations}

Rand == [test |-> "rand", iterations |-> 2, sim_opts |-> <<<<"+enable_debug_seq", 1>>>>]
Csr == [test |-> "csr", iterations |-> 1, rtl_params |-> <<<<"RegFile", {1}>>>>]
Off == [test |-> "off", iterations |-> 0]
Ddm(value) == [Csr EXCEPT !.test = "ddm", !.rtl_params = <<<<"RegFile", {0, 1}>>, <<"PMPEnable", {1}>>>>]
                @@ [sim_opts |-> <<<<"+discrete_debug_module", value>>>>]
Flag == [Rand EXCEPT !.test = "flag", !.sim_opts = <<<<"+verbose">>>>]
MCTestlists == {<<Rand, Csr, Off>>, <<Csr>>, <<Rand, Rand>>, <<Rand, Ddm(1)>>, <<Csr, Ddm(Text)>>,
                <<Rand, Flag>>}

\* The test whose generator is a script, and another one.
MCDvTests == {CsrTest, "riscv_rand_test"}

\* Directed testlists: the one with all suites, the one without any, one written
\* by hand, one without its config and one of no iterations.  Of the suites, the
\* last may not have been generated; "epmp_tests" is misspelt.
MCHandwritten == {"empty", "pmp_disable"}
MCAsked == {{"all"}, {"riscv-tests", "epmp-tests"}, {"epmp_tests"}}
Found(pmp) ==
  "riscv-tests" :> {"sw-basic", "lw-basic"} @@ "riscv-arch-tests" :> {"add-01"} @@ "epmp-tests" :> pmp
MCSuiteFiles == {Found({"pmp-ok"}), Found({})}
Generated(asked) == GenTestlist(asked, MCHandwritten, Found({"pmp-ok"})).list
Ext == [config |-> "ext", rtl_test |-> "core_ibex_base_test", timeout_s |-> 60,
        rtl_params |-> <<<<"PMPEnable", {0}>>, <<"RegFile", {0}>>>>]
Ours == [test |-> "sw-basic", test_srcs |-> "sw-basic", iterations |-> 2, config |-> "ext",
         sim_opts |-> "+enable_debug"]
MCYamls == {Generated({"all"}), Generated({}), <<Ext, Ours>>,
            <<Ext, [Ours EXCEPT !.config = "none"]>>, <<Ext, [Ours EXCEPT !.iterations = 0]>>}
MCParamSets == {("PMPEnable" :> pmp) @@ ("RegFile" :> rf) : pmp \in {0, 1}, rf \in {0, 1}}

\* The 17 fields of a configuration, one too few, and a number for a truth.
Fine ==
  [f \in KnownFields |-> CASE f \in Fields("bool") -> <<"bool", 1>>
                           [] f \in Fields("str") -> <<"str", 0>>
                           [] f \in Fields("int") -> <<"int", 4>>]
Short == [f \in KnownFields \ {"PMPEnable"} |-> Fine[f]]
Two == [Fine EXCEPT !["PMPEnable"] = <<"int", 2>>]
One == [Fine EXCEPT !["PMPEnable"] = <<"int", 1>>]
MCConfigs == {"chosen" :> Fine, ("chosen" :> Fine) @@ ("other" :> Short), "other" :> Fine,
              "chosen" :> One, "chosen" :> Two}
AllEnv == UNION {EnvVars(s) : s \in {"vcs", "xlm", "riviera", "dsim"}} \cup {"PRJ_DIR", "LOWRISC_IP_DIR"}
MCEnvs == {AllEnv, AllEnv \ {"EXTRA_COSIM_CFLAGS"}, AllEnv \ {"PRJ_DIR"}, AllEnv \ {"ALDEC_PATH"}}

Vcs(year, month, sp, patch) == V("vcs", <<year, month, sp, patch>>)
Verilator == [min_version |-> V("dotted", <<4, 210>>)]
Verible == [min_version |-> V("verible", <<0, 0, 1213>>), as_needed |-> TRUE]
VcsReq(v) == [min_version |-> v, as_needed |-> TRUE]
MCRequirements ==
  {("verilator" :> Verilator) @@ ("verible" :> Verible) @@ ("vcs" :> VcsReq(v)) :
     v \in {Vcs(2020, 3, 0, 0), Vcs(2020, 3, 2, 0), Vcs(2020, 3, 2, 7), Vcs(2021, 9, 1, 0)}}
  \cup {"verilator" :> Verilator, "verilator" :> [version |-> V("dotted", <<4>>)],
        ("verilator" :> Verilator) @@ ("edalize" :> [min_version |-> V("dotted", <<0, 2, 0>>)]),
        ("verilator" :> Verilator) @@ ("vcs" :> VcsReq(V("vcs_cruft", <<2020, 3, 0, 0>>)))}
MCNamedTools == {{}, {"verible"}, {"vcs"}, {"verilator", "vcs"}, {"nosuch"}}
MCInstalls ==
  {("verilator" :> x) @@ ("verible" :> y) @@ ("vcs" :> z) @@ ("edalize" :> e) :
     x \in {Absent_tool, Runs(NoVersion), Runs(V("dotted", <<4, 108>>)), Runs(V("dotted", <<4, 210, 1>>))},
     y \in {Runs(V("verible", <<0, 0, 808>>)), Runs(V("verible", <<0, 0, 1213>>)), Runs(NoVersion)},
     z \in {Absent_tool, Runs(Vcs(2020, 12, 0, 0)), Runs(Vcs(2020, 3, 2, 0)),
            Runs(V("vcs_cruft", <<2020, 3, 2, 7>>)), Runs(Vcs(2022, 6, 0, 0))},
     e \in {Absent_tool, Runs(V("dotted", <<0, 2, 5>>))}}

\* Up to three results of two tests; "None" is the result of a test whose log
\* was never checked.
Result(name, seed, passed) == [testname |-> name, seed |-> seed, passed |-> passed]
MCResults ==
  {[i \in DOMAIN ps |-> Result(IF i = 3 THEN "csr" ELSE "rand", i, ps[i])] :
     ps \in UNION {[1..n -> {"True", "False", "None"}] : n \in 1..3}}
Block(c, t) == "block" :> [covered |-> c, total |-> t]
MCCovReports ==
  {[exists |-> FALSE]}
  \cup {[exists |-> TRUE, top |-> b, groups |-> g] :
          b \in {Block(1, 3), Block(0, 0)},
          g \in {"uarch_cov_if" :> 780 @@ "push_pull_agent_pkg" :> 0, "push_pull_agent_pkg" :> 0}}
=============================================================================
