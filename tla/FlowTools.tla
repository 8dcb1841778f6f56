----------------------------- MODULE FlowTools -----------------------------
(***************************************************************************)
(* The sequential tools of the regression flow (dv/uvm/core_ibex/scripts,  *)
(* util), each checked against what it is for.  One call of one tool is    *)
(* one behaviour: call is the tool with what it was given, answer what it  *)
(* left behind.  Building a test takes two tools, one after the other.     *)
(***************************************************************************)
EXTENDS TestSelect, TestBuild, SimCommands, ToolVersions, Reports

CONSTANTS
  ArgLists,      \* argument lists of create_metadata
  Testlists,     \* riscv-dv testlists
  DvTests,       \* names of the riscv-dv tests
  Yamls,         \* directed testlists
  ParamSets,     \* parameters of the named configuration
  Asked,         \* test suites gen_testlist is asked for
  Handwritten,   \* names of the directed tests written by hand
  SuiteFiles,    \* what is found in the directories of each test suite
  Configs,       \* files of named configurations, each with "chosen" in it or not
  Envs,          \* the environment variables that are set
  Requirements,  \* the contents of tool_requirements.py
  NamedTools,    \* tools named on the command line
  Installs,      \* what is installed
  Results,       \* sequences of TestRunResults
  CovReports     \* coverage reports

\* Requirements and installed tools have versions.
ASSUME VersionAssumption ==
  /\ \A raw \in Requirements : \A t \in DOMAIN raw :
       "min_version" \in DOMAIN raw[t] => IsVersion(raw[t].min_version)
  /\ \A installed \in Installs : \A t \in DOMAIN installed : IsVersion(installed[t].said)
  /\ \A raw \in Requirements, installed \in Installs : DOMAIN raw \subseteq DOMAIN installed

\* There is a result, and one of each test and seed: the pickle files that
\* create_metadata lists.
ASSUME ResultsAssumption ==
  \A trrs \in Results :
    /\ trrs \in Seq(Range(trrs)) /\ trrs # <<>>
    /\ \A i, j \in DOMAIN trrs :
         trrs[i].testname = trrs[j].testname /\ trrs[i].seed = trrs[j].seed => i = j

\* Where an entry of a testlist has parameters, it has at least one: a test with
\* an empty list of them would never be selected (filter_tests_by_config).
ASSUME TestlistAssumption ==
  \A list \in Testlists \cup Yamls : \A entry \in Range(list) :
    Has(entry, "rtl_params") => entry.rtl_params # <<>>

VARIABLES call, answer

flow == <<call, answer>>

Idle == [tool |-> "none"]
Init == call = Idle /\ answer = Idle

-----------------------------------------------------------------------------
(* The tools.                                                              *)

\* scripts/metadata.py --op create_metadata
CreateMetadata ==
  /\ call = Idle
  /\ \E args \in ArgLists, testlist \in Testlists, yaml \in Yamls, params \in ParamSets :
       /\ call' = [tool |-> "create_metadata", args |-> args, testlist |-> testlist,
                   yaml |-> yaml, params |-> params]
       /\ answer' = TestsAndCounts(KvDict(args), testlist, yaml, params)

\* directed_tests/gen_testlist.py
ListTests ==
  /\ call = Idle
  /\ \E asked \in Asked, found \in SuiteFiles :
       /\ call' = [tool |-> "gen_testlist", asked |-> asked, found |-> found]
       /\ answer' = GenTestlist(asked, Handwritten, found)

\* scripts/run_instr_gen.py
Generate ==
  /\ call = Idle
  /\ \E simulator \in Simulators, t \in DvTests, ok \in BOOLEAN :
       /\ call' = [tool |-> "run_instr_gen", simulator |-> simulator, test |-> t, ok |-> ok]
       /\ answer' = RunInstrGen(simulator, t, ok)

\* scripts/compile_test.py, after the generator or for a directed test; at most
\* one of its commands fails.  The directory was empty before.
Compile ==
  \E ddm \in BOOLEAN, failing \in 0..6 :
    \/ /\ call.tool = "run_instr_gen"
       /\ call' = [tool |-> "compile_test", test |-> call.test, ok |-> call.ok,
                   testtype |-> "RISCVDV", ddm |-> ddm, failing |-> failing]
       /\ answer' = RunCompile(CompileCmds(call.test, "RISCVDV", ddm),
                               {File(call.test, f) : f \in answer.new}, failing)
    \/ /\ call = Idle
       /\ \E t \in Handwritten :
            /\ call' = [tool |-> "compile_test", test |-> t, ok |-> TRUE,
                        testtype |-> "DIRECTED", ddm |-> ddm, failing |-> failing]
            /\ answer' = RunCompile(CompileCmds(t, "DIRECTED", ddm), {DirectedSource(t)}, failing)

\* scripts/compile_tb.py and run_rtl.py with the options of ibex_config.py
Simulate ==
  /\ call = Idle
  /\ \E simulator \in {"vcs", "xlm", "questa", "riviera", "dsim"},
        cov \in BOOLEAN, waves \in BOOLEAN, configs \in Configs, env \in Envs :
       LET Cannot(stage) == \/ ParseRaises("chosen", configs)
                            \/ CommandRaises(simulator, stage, cov, waves, env)
           Outcome(stage) == IF Cannot(stage) THEN Unwritten
                             ELSE Written(Command(simulator, stage, cov, waves))
       IN  /\ call' = [tool |-> "simulate", simulator |-> simulator, cov |-> cov,
                       waves |-> waves, configs |-> configs, env |-> env]
           /\ answer' = [compile |-> Outcome("compile"), sim |-> Outcome("sim")]

\* util/check_tool_requirements.py
CheckTools ==
  /\ call = Idle
  /\ \E raw \in Requirements, named \in NamedTools, installed \in Installs :
       /\ call' = [tool |-> "check_tool_requirements", raw |-> raw, named |-> named,
                   installed |-> installed]
       /\ answer' = [ret |-> Main(raw, named, installed)]

\* scripts/collect_results.py
CollectReports ==
  /\ call = Idle
  /\ \E trrs \in Results, simulator \in {"vcs", "xlm"}, cov \in CovReports :
       /\ call' = [tool |-> "collect_results", trrs |-> trrs, simulator |-> simulator,
                   cov |-> cov]
       /\ answer' = CollectResults(trrs, simulator, cov)

Next ==
  CreateMetadata \/ ListTests \/ Generate \/ Compile \/ Simulate \/ CheckTools \/ CollectReports

FlowSpec == Init /\ [][Next]_flow

-----------------------------------------------------------------------------
(* What the tools are for.                                                 *)

\* Nothing in two testlists makes create_metadata stop: the parameters that the
\* tests need are known, and the options of the riscv-dv tests can be read.
CanBeRead(testlist, directed, params) ==
  /\ \A t \in Range(testlist \o directed) : Has(t, "rtl_params") =>
       \A i \in DOMAIN t.rtl_params : t.rtl_params[i][1] \in DOMAIN params
  /\ \A t \in Range(testlist) : ~SimOptsRaise(t)

\* The names of the tests are distinct and no test needs more than one parameter.
Plain(tests) ==
  /\ \A i, j \in DOMAIN tests : tests[i].test = tests[j].test => i = j
  /\ \A t \in Range(tests) : Has(t, "rtl_params") => Len(t.rtl_params) = 1

Chosen(tests, params, words, override, seed) ==
  UNION {
    {<<t.test, s>> : s \in seed..seed + (IF override # Empty THEN override ELSE t.iterations) - 1} :
    t \in {u \in Range(tests) :
             /\ u.test \in words \/ "every" \in words
             /\ u.iterations > 0
             /\ Has(u, "rtl_params") =>
                  \A i \in DOMAIN u.rtl_params :
                    /\ u.rtl_params[i][1] \in DOMAIN params
                    /\ params[u.rtl_params[i][1]] \in u.rtl_params[i][2]}}
EveryIf(words, all) == IF words \cap all # {} THEN words \cup {"every"} ELSE words

\* Among the TEST.SEED words that make gets are those of every test which was
\* named and which the configuration can run, with as many consecutive seeds as
\* were asked for, and each word has its pickle; if there are no words, nothing
\* was chosen or something could not be read.  (metadata.py, ibex_cmd.py: a word
\* too few is a test that silently does not run.)  If the tests have names of
\* their own and need at most one parameter, there are no other words and none
\* is there twice.  Whether TEST=all asks for the directed tests too is left
\* open: the documentation says so, process_directed_testlist does not know the
\* word.  And gen_testlist, which begins by emptying the list, leaves one that
\* can be read, with the tests written by hand and those of every suite that was
\* asked for in it, each once: a name that two suites share would make two tests
\* that write to the same directories.
TestsSelected ==
  /\ call.tool = "gen_testlist" =>
       LET names == Handwritten \cup UNION {call.found[suite] : suite \in SuitesAsked(call.asked)}
       IN  /\ ~ImportRaises(answer.list)
           /\ {t.test : t \in Range(ImportModel(answer.list))} = names
           /\ Len(ImportModel(answer.list)) = Cardinality(names)
  /\ call.tool = "create_metadata" =>
    LET kv == KvDict(call.args)
        chosen(tests, all) ==
          Chosen(tests, call.params, EveryIf(kv["TEST"], all), IterationsOf(kv), SeedOf(kv))
        riscvdv == chosen(call.testlist, {"all", "all_riscvdv"})
        directed == chosen(ImportModel(call.yaml), {"all_directed"})
        directedAtMost == chosen(ImportModel(call.yaml), {"all_directed", "all"})
        tds == Tds(answer, "RISCVDV") \o Tds(answer, "DIRECTED")
    IN  /\ answer.bad =>
             \/ ArgsRaise(kv) \/ ImportRaises(call.yaml)
             \/ ~CanBeRead(call.testlist, ImportModel(call.yaml), call.params)
             \/ riscvdv \cup directed = {}
        /\ ~answer.bad =>
             /\ riscvdv \subseteq Range(Tds(answer, "RISCVDV"))
             /\ directed \subseteq Range(Tds(answer, "DIRECTED"))
             /\ Pickles(answer) = Range(tds) /\ tds # <<>>
        /\ ~answer.bad /\ Plain(call.testlist \o ImportModel(call.yaml)) =>
             /\ Range(Tds(answer, "RISCVDV")) = riscvdv
             /\ Range(Tds(answer, "DIRECTED")) \subseteq directedAtMost
             /\ Len(tds) = Cardinality(Range(tds))

\* A generator that works leaves a new test.S and one that fails leaves none,
\* although the script says 0 either way; and compile_test says 0 exactly when
\* every file that run_rtl will tell the simulator to load has been made.
BinaryArrives ==
  /\ call.tool = "run_instr_gen" =>
       answer.ret = 0 /\ ("test.S" \in answer.new <=> call.ok)
  /\ call.tool = "compile_test" =>
       (answer.ret = 0 <=> Loaded(call.test, call.testtype, call.ddm) \subseteq answer.made)

\* The ISA string of the testbench, tests/core_ibex_base_test.sv: "keep them in
\* sync!"
IsaString(rv32e, rv32m, rv32b) ==
  {IF rv32e THEN "e" ELSE "i"} \cup {x \in {"m"} : rv32m # "None"} \cup {"c"}
    \cup CASE rv32b = "None" -> {}
           [] rv32b = "Balanced" -> {"Zba", "Zbb", "Zbs", "XZbf", "XZbt"}
           [] OTHER -> {"Zba", "Zbb", "Zbc", "Zbs", "XZbf", "XZbp", "XZbr", "XZbt"}
                         \cup {x \in {"XZbe"} : rv32b = "Full"}

Times(word, command) == Cardinality({i \in DOMAIN command : command[i] = word})

\* The number of stages at which a simulator can be asked for coverage or waves.
Stages(what, simulator) ==
  CASE simulator \in {"vcs", "xlm"} -> 2
    [] simulator \in {"questa", "riviera"} -> IF what = "cov" THEN 1 ELSE 0
    [] simulator = "dsim" -> IF what = "wave" THEN 1 ELSE 0

\* The environment variables that occur in the commands of a simulator.
UsedEnv(simulator) ==
  LET Words(stage) == Range(Template(simulator, stage))
        \cup UNION {Range(CmdOpts(simulator, stage)[o]) : o \in DOMAIN CmdOpts(simulator, stage)}
  IN  {v \in EnvVars(simulator) : Param(v) \in Words("compile") \cup Words("sim")}

\* Whatever the simulator, each of the 17 parameters of the configuration is
\* given to it exactly once over its two stages, the strings when it compiles;
\* coverage and waves are asked for exactly if they were switched on, where the
\* simulator has them.  There are no commands if a configuration is wrong or a
\* variable is not set that they use, and there are if the configurations are
\* right and all the variables of the simulator are set.  Left open, because the
\* documentation and the code disagree: a variable that is listed, not used and
\* not set (xlm: dv_root, DUT_TOP; riviera: ALDEC_PATH); and whether there are
\* commands for dsim, which is listed as supported.  The instruction set
\* simulator runs the ISA of the testbench.
ConfigArrives ==
  call.tool = "simulate" =>
    LET both == answer.compile.written /\ answer.sim.written
        words == answer.compile.contents \o answer.sim.contents
        right == /\ "chosen" \in DOMAIN call.configs
                 /\ \A n \in DOMAIN call.configs : ~ConfigRaises(call.configs[n])
        own == {"PRJ_DIR", "LOWRISC_IP_DIR"}
    IN  /\ right /\ EnvVars(call.simulator) \cup own \subseteq call.env
             => both \/ call.simulator = "dsim"
        /\ both => right /\ UsedEnv(call.simulator) \cup own \subseteq call.env
        /\ both =>
             /\ \A f \in KnownFields : Times(Passes(f), words) = 1
             /\ \A f \in Fields("str") : Times(Passes(f), answer.compile.contents) = 1
             /\ Times(Mark("cov"), words) = (IF call.cov THEN Stages("cov", call.simulator) ELSE 0)
             /\ Times(Mark("wave"), words) = (IF call.waves THEN Stages("wave", call.simulator) ELSE 0)
        /\ \A e \in BOOLEAN, m \in {"None", "Fast"}, b \in {"None", "Balanced", "OTEarlGrey", "Full"} :
             IsasForConfig(e, m, b).iss = IsaString(e, m, b)

\* The order of releases; that of VCS is year, month, service pack, patch.
Older(v, w) ==
  \E i \in DOMAIN v \cup DOMAIN w :
    Num(v, i) < Num(w, i) /\ \A j \in 1..i - 1 : Num(v, j) = Num(w, j)
Format(tool) ==
  IF tool \in {"vcs", "verible"} THEN tool ELSE "dotted"

\* The check passes exactly if every tool that is required or was named is
\* installed and at least as new as its requirement.  The versions of VCS are
\* ordered only within a month and between years (the digits of the service
\* pack are put behind those of the month).
ToolsChecked ==
  call.tool = "check_tool_requirements" =>
    LET needed == {t \in DOMAIN call.raw : ~AsNeeded(call.raw[t])} \cup call.named
        Demand(t) == call.raw[t].min_version
        Present(t) == call.installed[t].said
        Recent(t) ==
          /\ Demand(t).form = Format(t) /\ call.installed[t].ran
          /\ Present(t).form = Format(t) \/ (t = "vcs" /\ Present(t).form = "vcs_cruft")
          /\ ~Older(Present(t).nums, Demand(t).nums)
        Ordered(t) == t = "vcs" /\ Len(Present(t).nums) = 4 =>
                        \/ Present(t).nums[1] # Demand(t).nums[1]
                        \/ Present(t).nums[2] = Demand(t).nums[2]
    IN  ~ReqErr(call.raw) /\ (\A t \in needed \cap DOMAIN call.raw : Ordered(t))
        => (answer.ret = 0 <=> needed \subseteq DOMAIN call.raw /\ \A t \in needed : Recent(t))

\* All reports tell the same story: a run that did not pass is a failure in
\* each of them and makes the exit status 1.  If the coverage report cannot be
\* summarised, the reports of the results are complete nevertheless, and the
\* exit status does not say that all is well.
ReportsAgree ==
  call.tool = "collect_results" =>
    LET Failed(name) ==
          {i \in DOMAIN call.trrs : call.trrs[i].testname = name /\ call.trrs[i].passed # "True"}
        Of(name) == {i \in DOMAIN call.trrs : call.trrs[i].testname = name}
        failed == UNION {Failed(name) : name \in Names(call.trrs)}
    IN  /\ answer.regr_log.contents.failed = Cardinality(failed)
        /\ answer.regr_log.contents.passed = Len(call.trrs) - Cardinality(failed)
        /\ \A name \in Names(call.trrs) :
             /\ Cardinality({c \in answer.junit.contents[name] : c.failed}) = Cardinality(Failed(name))
             /\ answer.merged.contents[name].failed <=> Failed(name) # {}
             /\ answer.json.written =>
                  LET runs == answer.json.contents.tests[name]
                  IN  /\ runs.total_runs = Cardinality(Of(name))
                      /\ runs.passing_runs = runs.total_runs - Cardinality(Failed(name))
        /\ answer.ret = 0 <=> failed = {} /\ answer.json.written
=============================================================================
