---------------------------- MODULE SimCommands ----------------------------
(***************************************************************************)
(* How a named Ibex configuration reaches the simulator                    *)
(* (util/ibex_config.py, scripts/ibex_cmd.py): the YAML is checked, turned *)
(* into options for one of two stages, "compile" and "sim", and the        *)
(* options take their place in the command templates of                    *)
(* yaml/rtl_simulation.yaml (scripts/riscvdv_interface.py, scripts_lib.py, *)
(* as called by compile_tb.py and run_rtl.py).                             *)
(*                                                                         *)
(* A command is a sequence of words.  A word that stands in a template as  *)
(* <name> is Param(name); what an option passes is Passes(field); anything *)
(* else is left out but for a mark of where it comes from, Mark(name).     *)
(***************************************************************************)
EXTENDS Integers, Sequences, FiniteSets, SequencesExt, TLC

Param(n) == <<"param", n>>
Passes(f) == <<"field", f>>
Mark(n) == <<"mark", n>>

-----------------------------------------------------------------------------
(* util/ibex_config.py                                                     *)

Fields(typ) ==
  CASE typ = "bool" -> {"RV32E", "BranchTargetALU", "WritebackStage", "ICache",
         "ICacheECC", "ICacheScramble", "BranchPredictor", "DbgTriggerEn",
         "SecureIbex", "PMPEnable"}
    [] typ = "str" -> {"RV32M", "RV32B", "RegFile"}
    [] typ = "int" -> {"PMPGranularity", "PMPNumRegions", "MHPMCounterNum",
         "MHPMCounterWidth"}
KnownFields == Fields("bool") \cup Fields("str") \cup Fields("int")

\* A value of a field in the YAML is a pair of its type and its integer.
\* read_bool, read_int, read_str: True is an integer in Python, and an
\* integer is a boolean if it is 0 or 1.
Reads(typ, val) ==
  CASE typ = "bool" -> val[1] = "bool" \/ (val[1] = "int" /\ val[2] \in {0, 1})
    [] typ = "int" -> val[1] \in {"int", "bool"}
    [] typ = "str" -> val[1] = "str"

\* Config.__init__
ConfigRaises(yml) ==
  \/ DOMAIN yml # KnownFields
  \/ \E typ \in {"bool", "int", "str"} : \E f \in Fields(typ) : ~Reads(typ, yml[f])

\* parse_config: a mistake in any configuration of the file spoils them all.
ParseRaises(name, ymls) ==
  name \notin DOMAIN ymls \/ \E n \in DOMAIN ymls : ConfigRaises(ymls[n])

\* The outputters of main: where a parameter and where a define is an option.
\* The functions of the others are empty.
Outputters == {"vcs_opts", "riviera_sim_opts", "riviera_compile_opts",
               "questa_sim_opts", "questa_compile_opts", "xlm_opts", "dsim_compile_opts"}
SetsParams(cmd_name) == cmd_name \notin {"riviera_compile_opts", "questa_compile_opts"}
SetsDefines(cmd_name) ==
  cmd_name \notin {"riviera_sim_opts", "questa_sim_opts", "dsim_compile_opts"}

\* SimOpts.output; the order of the options does not matter.
SimOpts(cmd_name) ==
  FoldSet(LAMBDA f, opts : Append(opts, Passes(f)), <<>>,
          (IF SetsDefines(cmd_name) THEN Fields("str") ELSE {})
            \cup (IF SetsParams(cmd_name) THEN Fields("bool") \cup Fields("int") ELSE {}))

-----------------------------------------------------------------------------
(* scripts/ibex_cmd.py                                                     *)

SimCfgs(simulator) ==
  IF simulator \in {"riviera", "questa"} THEN {"compile", "sim"} ELSE {"compile"}

\* _get_x_opts: the outputter is named after its stage only if both stages
\* need options.
OutputType(simulator, stage) ==
  IF SimCfgs(simulator) = {"compile", "sim"}
  THEN CASE simulator = "riviera" /\ stage = "compile" -> "riviera_compile_opts"
         [] simulator = "riviera" /\ stage = "sim" -> "riviera_sim_opts"
         [] simulator = "questa" /\ stage = "compile" -> "questa_compile_opts"
         [] simulator = "questa" /\ stage = "sim" -> "questa_sim_opts"
  ELSE CASE simulator = "vcs" -> "vcs_opts"
         [] simulator = "xlm" -> "xlm_opts"
         [] simulator = "dsim" -> "dsim_opts"
mut_NeedsOpts(simulator, stage) == TRUE
NeedsOpts(simulator, stage) == stage \in SimCfgs(simulator)
XOptsRaises(simulator, stage) ==
  NeedsOpts(simulator, stage) /\ OutputType(simulator, stage) \notin Outputters
XOpts(simulator, stage) ==
  IF NeedsOpts(simulator, stage) THEN SimOpts(OutputType(simulator, stage)) ELSE <<>>

\* get_isas_for_config: the letters and the bit manipulation extensions of the
\* toolchain's and the instruction set simulator's ISA.
Bitmanip(rv32b) ==
  CASE rv32b = "None" -> {}
    [] rv32b = "Balanced" -> {"Zba", "Zbb", "Zbs", "XZbf", "XZbt"}
    [] rv32b = "OTEarlGrey" -> {"Zba", "Zbb", "Zbc", "Zbs", "XZbf", "XZbp", "XZbr", "XZbt"}
    [] rv32b = "Full" -> {"Zba", "Zbb", "Zbc", "Zbs", "XZbe", "XZbf", "XZbp", "XZbr", "XZbt"}
IsasForConfig(rv32e, rv32m, rv32b) ==
  LET base == {IF rv32e THEN "e" ELSE "i", "c"} \cup IF rv32m # "None" THEN {"m"} ELSE {}
  IN  [toolchain |-> base \cup IF rv32b # "None" THEN {"b"} ELSE {},
       iss |-> base \cup Bitmanip(rv32b)]

-----------------------------------------------------------------------------
(* yaml/rtl_simulation.yaml: the parameters of the commands, and of the    *)
(* options that may be switched on.                                        *)

Params(ns) == [i \in DOMAIN ns |-> Param(ns[i])]
SimParams == <<"tb_dir", "seed", "rtl_test", "binary", "rtl_trace", "rtl_sim_log">>
TbParams == <<"core_ibex", "tb_dir", "tb_build_log", "cmp_opts">>
UnclosedQuote == Mark("unclosed quote")

Template(simulator, stage) ==
  CASE simulator = "vcs" /\ stage = "compile" ->
         Params(TbParams \o <<"wave_opts", "cov_opts", "cosim_opts">>)
    [] simulator = "vcs" /\ stage = "sim" ->
         Params(SimParams \o <<"test_dir", "iss_cosim_trace", "sim_opts", "wave_opts", "cov_opts">>)
    [] simulator = "xlm" /\ stage = "compile" ->
         Params(TbParams \o <<"cov_opts", "wave_opts", "cosim_opts">>)
    [] simulator = "xlm" /\ stage = "sim" ->
         Params(SimParams \o <<"iss_cosim_trace", "cov_opts", "wave_opts", "sim_opts">>)
    [] simulator = "questa" /\ stage = "compile" -> Params(TbParams)
    [] simulator = "riviera" /\ stage = "compile" ->
         Params(<<"core_ibex", "tb_dir", "cmp_opts">>)
    [] simulator \in {"questa", "riviera"} /\ stage = "sim" ->
         Params(SimParams \o <<"sim_opts", "cov_opts">>)
    [] simulator = "dsim" /\ stage = "compile" ->
         Params(<<"DSIM", "tb_dir", "core_ibex", "tb_build_log">>) \o <<UnclosedQuote>>
    [] simulator = "dsim" /\ stage = "sim" ->
         Params(SimParams \o <<"DSIM", "DSIM_LIB_PATH", "sim_opts", "wave_opts">>)

Cosim == <<"IBEX_ROOT", "ISS_LIBS", "ISS_CFLAGS", "EXTRA_COSIM_CFLAGS", "ISS_LDFLAGS">>
CmdOpts(simulator, stage) ==
  CASE simulator = "vcs" /\ stage = "compile" ->
         "cov_opts" :> <<Mark("cov"), Param("dir_shared_cov")>>
           @@ "wave_opts" :> <<Mark("wave")>>
           @@ "cosim_opts" :> <<Param("core_ibex")>> \o Params(Cosim)
    [] simulator = "vcs" /\ stage = "sim" ->
         "cov_opts" :> <<Mark("cov")>> \o Params(<<"dir_shared_cov", "test_name", "seed">>)
           @@ "wave_opts" :> <<Mark("wave"), Param("core_ibex")>>
    [] simulator = "xlm" /\ stage = "compile" ->
         "cov_opts" :> <<Mark("cov"), Param("xlm_cov_cfg_file")>>
           @@ "wave_opts" :> <<Mark("wave")>>
           @@ "cosim_opts" :> Params(Cosim)
    [] simulator = "xlm" /\ stage = "sim" ->
         "cov_opts" :> <<Mark("cov")>> \o Params(<<"test_dir", "test_name", "seed">>)
           @@ "wave_opts" :> <<Mark("wave"), Param("test_dir")>>
    [] simulator \in {"questa", "riviera"} /\ stage = "sim" ->
         "cov_opts" :> <<Mark("cov"), Param("tb_dir")>>
    [] simulator = "dsim" /\ stage = "sim" -> "wave_opts" :> <<Mark("wave")>>
    [] OTHER -> <<>>
EnvVars(simulator) ==
  CASE simulator = "vcs" -> {"IBEX_ROOT", "EXTRA_COSIM_CFLAGS"}
    [] simulator = "xlm" -> {"dv_root", "DUT_TOP", "IBEX_ROOT", "EXTRA_COSIM_CFLAGS"}
    [] simulator = "riviera" -> {"ALDEC_PATH"}
    [] simulator = "questa" -> {}
    [] simulator = "dsim" -> {"DSIM", "DSIM_LIB_PATH"}

-----------------------------------------------------------------------------
(* scripts/riscvdv_interface.py                                            *)

\* subst_opt: every <name> in the command becomes its value.
SubstOpt(cmd, name, value) ==
  FlattenSeq([i \in DOMAIN cmd |-> IF cmd[i] = Param(name) THEN value ELSE <<cmd[i]>>])

\* subst_dict, one key after the other.
SubstDict(cmd, dict) ==
  FoldSet(LAMBDA name, c : SubstOpt(c, name, dict[name]), cmd, DOMAIN dict)

\* get_tool_cmds: the options of the template first, switched off ones as
\* nothing; then the caller's; then the environment variables, all of which
\* must be set whether or not they are used.  Words that are still parameters
\* and, for shlex, an open quote are errors.
ToolCmd(simulator, stage, enables, subst) ==
  LET opts == CmdOpts(simulator, stage)
      enabled == [name \in DOMAIN opts |-> IF name \in enables THEN opts[name] ELSE <<>>]
      environ == [name \in EnvVars(simulator) |-> <<Mark(name)>>]
  IN  SubstDict(SubstDict(SubstDict(Template(simulator, stage), enabled), subst), environ)
ToolCmdRaises(simulator, stage, enables, subst, env) ==
  \/ ~(EnvVars(simulator) \subseteq env)
  \/ \E word \in Range(ToolCmd(simulator, stage, enables, subst)) :
       word[1] = "param" \/ word = UnclosedQuote

-----------------------------------------------------------------------------
(* compile_tb.py and run_rtl.py                                            *)

Given(names) == [name \in names |-> <<Mark(name)>>]
Enables(stage, cov, waves) ==
  (IF cov THEN {"cov_opts"} ELSE {}) \cup (IF waves THEN {"wave_opts"} ELSE {})
    \cup IF stage = "compile" THEN {"cosim_opts"} ELSE {}

\* dir_shared_cov is empty without coverage when the testbench is compiled.
Subst(simulator, stage) ==
  IF stage = "compile"
  THEN "cmp_opts" :> XOpts(simulator, "compile")
         @@ Given({"core_ibex", "tb_dir", "tb_build_log", "dir_shared_cov",
                   "xlm_cov_cfg_file", "dut_cov_rtl_path",
                   "ISS_CFLAGS", "ISS_LDFLAGS", "ISS_LIBS"})
  ELSE "sim_opts" :> XOpts(simulator, "sim")
         @@ Given({"cwd", "test_name", "rtl_test", "seed", "binary", "test_dir", "tb_dir",
                   "dir_shared_cov", "rtl_sim_log", "rtl_trace", "iss_cosim_trace", "core_ibex"})

\* compile_tb needs two environment variables of its own.
CommandRaises(simulator, stage, cov, waves, env) ==
  \/ stage = "compile" /\ ~({"PRJ_DIR", "LOWRISC_IP_DIR"} \subseteq env)
  \/ XOptsRaises(simulator, stage)
  \/ ToolCmdRaises(simulator, stage, Enables(stage, cov, waves), Subst(simulator, stage), env)
Command(simulator, stage, cov, waves) ==
  ToolCmd(simulator, stage, Enables(stage, cov, waves), Subst(simulator, stage))
=============================================================================
