----------------------------- MODULE TestSelect -----------------------------
(***************************************************************************)
(* Which tests a regression runs: from the arguments of make and the two   *)
(* testlists to the TEST.SEED words that make turns into files             *)
(* (scripts/metadata.py, ibex_cmd.py, directed_test_schema.py and          *)
(* directed_tests/gen_testlist.py of dv/uvm/core_ibex).                    *)
(*                                                                         *)
(* An entry of a YAML list is a function from its keys to their values.  A *)
(* value of an argument is its integer, Empty or Text.                     *)
(***************************************************************************)
EXTENDS Integers, Sequences, FiniteSets, SequencesExt, TLC

Empty == -100   \* ITERATIONS=
Text == -101    \* not a number
Bad == [bad |-> TRUE]      \* an exception: make has no tests

Has(entry, key) == key \in DOMAIN entry

-----------------------------------------------------------------------------
(* The arguments.                                                          *)

\* arg_list_initializer: the last of several pairs with one key counts; int()
\* raises on text and, but for an Optional, on the empty word.
KvDict(args) ==
  [key \in {args[i][1] : i \in DOMAIN args} |->
     args[Max({i \in DOMAIN args : args[i][1] = key})][2]]
SeedOf(kv) == IF Has(kv, "SEED") THEN kv["SEED"] ELSE 1
IterationsOf(kv) == IF Has(kv, "ITERATIONS") THEN kv["ITERATIONS"] ELSE Empty
CastRaises(kv) == SeedOf(kv) \in {Empty, Text} \/ IterationsOf(kv) = Text

\* _get_ibex_metadata
ArgsRaise(kv) ==
  \/ CastRaises(kv)
  \/ IterationsOf(kv) # Empty /\ IterationsOf(kv) <= 0
  \/ SeedOf(kv) < 0

-----------------------------------------------------------------------------
(* The riscv-dv testlist.                                                  *)

\* process_regression_list, called with 0 for no iterations; an imported
\* list is read in the place of the entry that names it.
RiscvdvMatched(testlist, words, iterations) ==
  LET all == words \cap {"all", "all_riscvdv"} # {}
      Count(e) == IF iterations # Empty /\ e.iterations > 0 THEN iterations ELSE e.iterations
      matched == SelectSeq(testlist, LAMBDA e : (e.test \in words \/ all) /\ e.iterations > 0)
  IN  [i \in DOMAIN matched |-> [matched[i] EXCEPT !.iterations = Count(matched[i])]]

-----------------------------------------------------------------------------
(* The directed testlist.                                                  *)

DConfigKeys == {"config", "rtl_test", "rtl_params", "timeout_s"}
DTestKeys == DConfigKeys \cup {"test", "test_srcs", "iterations"}

\* import_model: each test is joined with the first config of its name; its
\* own keys win.
ConfigsIn(yaml) == SelectSeq(yaml, LAMBDA e : ~Has(e, "test"))
ConfigOf(yaml, t) == SelectSeq(ConfigsIn(yaml), LAMBDA c : c.config = t.config)
Join(yaml, t) == t @@ Head(ConfigOf(yaml, t))

\* What the pydantic model demands of the joined entries; keys it does not
\* know are dropped.
Valid(entry, keys) ==
  /\ keys \subseteq DOMAIN entry
  /\ entry.timeout_s > 0 /\ ("iterations" \in keys => entry.iterations > 0)
Known(entry) == [key \in DOMAIN entry \cap DTestKeys |-> entry[key]]

ImportRaises(yaml) ==
  LET tests == {e \in Range(yaml) : Has(e, "test")}
  IN  \/ \E t \in tests : ConfigOf(yaml, t) = <<>>
      \/ \E t \in tests : ~Valid(Join(yaml, t), DTestKeys)
      \/ \E c \in Range(ConfigsIn(yaml)) : ~Valid(c, DConfigKeys)
ImportModel(yaml) ==
  LET tests == SelectSeq(yaml, LAMBDA e : Has(e, "test"))
  IN  [i \in DOMAIN tests |-> Known(Join(yaml, tests[i]))]

\* process_directed_testlist: "all" is not a word for directed tests.
DirectedMatched(yaml, words, iterations) ==
  LET Count(e) == IF iterations # Empty THEN iterations ELSE e.iterations
      matched == SelectSeq(ImportModel(yaml), LAMBDA e : words \cap {"all_directed", e.test} # {})
  IN  [i \in DOMAIN matched |-> [matched[i] EXCEPT !.iterations = Count(matched[i])]]

\* gen_testlist.py empties the list, writes the three configs and the tests
\* written by hand, and then one test for each file that ls and egrep find in the
\* directories of each suite that was asked for.  A suite whose directory is not
\* there and one whose name is misspelt add nothing, and the script says 0.
Suites == {"riscv-tests", "riscv-arch-tests", "epmp-tests"}
SuitesAsked(asked) == IF asked = {"all"} THEN Suites ELSE Suites \cap asked
Header(suite) ==
  [config |-> suite, rtl_test |-> "core_ibex_base_test", timeout_s |-> 300,
   rtl_params |-> <<<<"PMPEnable", {1}>>>>]
ListedTest(name, suite) ==
  [test |-> name, test_srcs |-> name, iterations |-> 1, config |-> suite]
add_configs_and_handwritten_directed_tests(handwritten) ==
  SetToSeq({Header(suite) : suite \in Suites})
    \o SetToSeq({ListedTest(name, "riscv-tests") : name \in handwritten})
append_directed_testlist(suite, found) ==
  SetToSeq({ListedTest(name, suite) : name \in found})
GenTestlist(asked, handwritten, found) ==
  [ret |-> 0,
   list |-> add_configs_and_handwritten_directed_tests(handwritten)
              \o FlattenSeq(SetToSeq(
                   {append_directed_testlist(suite, found[suite]) : suite \in SuitesAsked(asked)}))]

-----------------------------------------------------------------------------
(* filter_tests_by_config; rtl_params is a sequence of <<name, values>>.    *)

FilterRaises(params, tests) ==
  \E t \in Range(tests) : Has(t, "rtl_params") /\
    \E i \in DOMAIN t.rtl_params :
      /\ t.rtl_params[i][1] \notin DOMAIN params
      /\ \A j \in 1..i - 1 : params[t.rtl_params[j][1]] \in t.rtl_params[j][2]

\* A test is appended once for each parameter in front of the first that does
\* not match, and kept whole although a later one does not match.
Matching(params, required) ==
  LET wrong == {i \in DOMAIN required : params[required[i][1]] \notin required[i][2]}
  IN  IF wrong = {} THEN Len(required) ELSE Min(wrong) - 1
mut_Copies(params, t) == 1
Copies(params, t) == IF Has(t, "rtl_params") THEN Matching(params, t.rtl_params) ELSE 1
FilterTests(params, tests) ==
  FlattenSeq([i \in DOMAIN tests |-> [c \in 1..Copies(params, tests[i]) |-> tests[i]]])

-----------------------------------------------------------------------------
(* get_tests_and_counts and --op create_metadata.                          *)

\* The words of a riscv-dv test's sim_opts are sequences of what stands between
\* their "=": two pieces, and a number behind +discrete_debug_module.
SimOptsRaise(t) ==
  Has(t, "sim_opts") /\
    \E word \in Range(t.sim_opts) :
      \/ Len(word) # 2
      \/ word[1] = "+discrete_debug_module" /\ word[2] \in {Empty, Text}

Tctt(tests, testtype) ==
  [i \in DOMAIN tests |->
     [test |-> tests[i].test, count |-> tests[i].iterations, testtype |-> testtype]]

\* If the options of a test cannot be read, pickles of the tests before it may
\* have been written, but metadata.pickle, which make asks for the tests, is not.
TestsAndCounts(kv, testlist, yaml, params) ==
  LET riscvdv == RiscvdvMatched(testlist, kv["TEST"], IterationsOf(kv))
      directed == DirectedMatched(yaml, kv["TEST"], IterationsOf(kv))
  IN  CASE ArgsRaise(kv) -> Bad
        [] ~ArgsRaise(kv) /\ ImportRaises(yaml) -> Bad
        [] OTHER ->
             IF \/ riscvdv \o directed = <<>>
                \/ FilterRaises(params, riscvdv) \/ FilterRaises(params, directed)
                \/ FilterTests(params, riscvdv) \o FilterTests(params, directed) = <<>>
                \/ \E t \in Range(FilterTests(params, riscvdv)) : SimOptsRaise(t)
             THEN Bad
             ELSE [bad |-> FALSE, seed |-> SeedOf(kv),
                   list |-> Tctt(FilterTests(params, riscvdv), "RISCVDV")
                              \o Tctt(FilterTests(params, directed), "DIRECTED")]

\* The pickles that create_metadata writes; a later one of the same name
\* replaces an earlier one.
Pickles(md) ==
  UNION {{<<md.list[i].test, md.seed + n>> : n \in 0..md.list[i].count - 1} :
           i \in DOMAIN md.list}

\* --op print_field: what make gets for riscvdv_tds and directed_tds.
Tds(md, testtype) ==
  LET mine == SelectSeq(md.list, LAMBDA x : x.testtype = testtype)
  IN  FlattenSeq([i \in DOMAIN mine |->
        [n \in 1..mine[i].count |-> <<mine[i].test, md.seed + n - 1>>]])
=============================================================================
