----------------------------- MODULE TestBuild -----------------------------
(***************************************************************************)
(* The files of one test on their way from the generator to the simulator  *)
(* (scripts/run_instr_gen.py, compile_test.py, run_rtl.py).  riscv-dv is   *)
(* asked for its commands with a placeholder for its output directory; the *)
(* scripts put the real paths in the placeholder's place, run the commands *)
(* and keep the files.                                                     *)
(*                                                                         *)
(* A path is a sequence of names; a name is a pair of strings, standing    *)
(* for their concatenation.  A word of a command is a path with what       *)
(* stands in front of it.                                                  *)
(***************************************************************************)
EXTENDS Integers, Sequences, FiniteSets, SequencesExt

Name(x) == <<x, "">>
Placeholder == <<Name("@@PLACEHOLDER@@")>>
Scratch == <<Name("scratch")>>
Generator == <<Name("build"), Name("instr_gen")>>
AsmTest == Placeholder \o <<Name("asm_test")>>
DirTest(t) == <<Name("run"), Name("tests"), Name(t)>>

Simulators == {"vcs", "xlm"}     \* riscvdv_interface has relocations for
CsrTest == "riscv_csr_test"
InPlaceholder(path) == Placeholder[1] \in Range(path)

-----------------------------------------------------------------------------
(* run_instr_gen: relocations.                                             *)

SimRelocs(simulator) ==
  CASE simulator = "vcs" ->
         <<<<Placeholder \o <<Name("vcs_simv")>>, Generator \o <<Name("vcs_simv")>>>>>>
    [] simulator = "xlm" -> <<<<Placeholder, Generator>>>>
mut_AlwaysRelocs(t) ==
  <<<<Append(AsmTest, Name(t)), Append(Scratch, Name(t))>>,
    <<AsmTest, Scratch>>,
    <<Append(Placeholder, <<"sim", t>>), Append(Scratch, Name("gen.log"))>>>>
AlwaysRelocs(t) ==
  <<<<Append(AsmTest, Name(t)), Append(Scratch, Name("test"))>>,
    <<AsmTest, Scratch>>,
    <<Append(Placeholder, <<"sim", t>>), Append(Scratch, Name("gen.log"))>>>>

\* reloc_word: the first relocation whose path is the word's.
RelocPath(simulator, t, path) ==
  LET relocs == SimRelocs(simulator) \o AlwaysRelocs(t)
      fit == {i \in DOMAIN relocs : relocs[i][1] = path}
  IN  IF fit = {} THEN path ELSE relocs[Min(fit)][2]

\* reloc_commands
RelocRaises(simulator, t, cmds) ==
  \E i \in DOMAIN cmds : \E w \in Range(cmds[i]) :
    InPlaceholder(RelocPath(simulator, t, w.path))
RelocCommands(simulator, t, cmds) ==
  [i \in DOMAIN cmds |->
     [j \in DOMAIN cmds[i] |->
        [cmds[i][j] EXCEPT !.path = RelocPath(simulator, t, cmds[i][j].path)]]]

\* riscv-dv's commands (run.py): the generator of riscv_csr_test is a script
\* with an output directory; the others get a file name to which they append
\* the number of the test.
Word(pre, path) == [pre |-> pre, path |-> path]
DvCommands(simulator, t) ==
  IF t = CsrTest
  THEN <<<<Word("--out", AsmTest)>>>>
  ELSE <<<<IF simulator = "vcs" THEN Word("", Append(Placeholder, Name("vcs_simv")))
                                ELSE Word("-xmlibdirpath", Placeholder),
           Word("+asm_file_name=", Append(AsmTest, Name(t))),
           Word("-l", Append(Placeholder, <<"sim", t>>))>>>>

\* The files a command leaves if it succeeds; one that fails leaves its log.
Leaves(cmd, ok) ==
  {w.path : w \in {x \in Range(cmd) : x.pre = "-l"}}
    \cup IF ~ok THEN {}
         ELSE {Append(Front(w.path), <<Last(w.path)[1], "_0.S">>) :
                 w \in {x \in Range(cmd) : x.pre = "+asm_file_name="}}
              \cup {Append(w.path, <<CsrTest, "_0.S">>) :
                      w \in {x \in Range(cmd) : x.pre = "--out"}}

-----------------------------------------------------------------------------
(* run_instr_gen: what is copied from the scratch directory.               *)

CopyRules(t) ==
  IF t = CsrTest
  THEN {[src |-> <<CsrTest, "_0.S">>, dst |-> "test.S", on_fail |-> FALSE]}
  ELSE {[src |-> Name("gen.log"), dst |-> "gen.log", on_fail |-> TRUE],
        [src |-> <<"test", "_0.S">>, dst |-> "test.S", on_fail |-> FALSE]}

\* do_file_copies
Copied(t, left, failed) ==
  {r.dst : r \in {x \in CopyRules(t) : (failed => x.on_fail)
                                         /\ Append(Scratch, x.src) \in left}}
CopyRaises(t, left, failed) ==
  ~failed /\ \E r \in CopyRules(t) : Append(Scratch, r.src) \notin left

\* _main, with a generator that succeeds or not: what the script makes new in
\* the test's directory, and its exit status.
RunInstrGen(simulator, t, ok) ==
  LET orig == DvCommands(simulator, t)
      cmds == RelocCommands(simulator, t, orig)
      left == UNION {Leaves(cmds[i], ok) : i \in DOMAIN cmds}
  IN  IF RelocRaises(simulator, t, orig) \/ CopyRaises(t, left, ~ok)
      THEN [ret |-> 1, new |-> {}]
      ELSE [ret |-> 0, new |-> Copied(t, left, ~ok)]

-----------------------------------------------------------------------------
(* compile_test: a command is the files it reads and the files it writes,  *)
(* and its linker script.                                                  *)

Cmd(reads, writes, ld) == [reads |-> reads, writes |-> writes, ld |-> ld]
File(t, x) == Append(DirTest(t), Name(x))
DvFile(t, x) == Append(AsmTest, <<t, x>>)

\* riscv-dv: gcc, then objcopy.
DvCompile(t) ==
  <<Cmd({DvFile(t, "_0.S")}, {DvFile(t, "_0.o")}, "riscv-dv"),
    Cmd({DvFile(t, "_0.o")}, {DvFile(t, "_0.bin")}, "none")>>

Rewrite(t, path) ==
  CASE path = DvFile(t, "_0.S") -> File(t, "test.S")
    [] path = DvFile(t, "_0.o") -> File(t, "test.o")
    [] path = DvFile(t, "_0.bin") -> File(t, "test.bin")
    [] OTHER -> path
Rewritten(t, cmd) ==
  [cmd EXCEPT !.reads = {Rewrite(t, p) : p \in @}, !.writes = {Rewrite(t, p) : p \in @}]

\* Discrete debug module: the one binary is not made, the linker script is
\* another one, and four files are made of two regions.
Regions == <<"test.dm.vmem", "test.main.vmem", "test.dm.bin", "test.main.bin">>
DebugModule(t, cmds) ==
  [i \in DOMAIN Front(cmds) |->
     IF cmds[i].ld = "none" THEN cmds[i] ELSE [cmds[i] EXCEPT !.ld = "ddm_link"]]
    \o [i \in DOMAIN Regions |-> Cmd({File(t, "test.o")}, {File(t, Regions[i])}, "none")]

\* get_riscvdv_compile_cmds
RiscvdvCompile(t, ddm) ==
  LET cmds == [i \in DOMAIN DvCompile(t) |-> Rewritten(t, DvCompile(t)[i])]
  IN  IF ddm THEN DebugModule(t, cmds) ELSE cmds

\* get_directed_compile_cmds: the assembly is the source in the repository.
DirectedSource(t) == <<Name("directed_tests"), Name(t)>>
DirectedCompile(t) ==
  <<Cmd({DirectedSource(t)}, {File(t, "test.o")}, "config"),
    Cmd({File(t, "test.o")}, {File(t, "test.bin")}, "none")>>

CompileCmds(t, testtype, ddm) ==
  IF testtype = "RISCVDV" THEN RiscvdvCompile(t, ddm) ELSE DirectedCompile(t)

\* _main: the commands run in order until one fails, because its input is not
\* there or because it is the failing one.
RunCompile(cmds, present, failing) ==
  LET Stuck == {i \in DOMAIN cmds :
                  \/ i = failing
                  \/ ~(cmds[i].reads \subseteq
                         present \cup UNION {cmds[j].writes : j \in 1..i - 1})}
      ran == IF Stuck = {} THEN Len(cmds) ELSE Min(Stuck) - 1
  IN  [ret |-> IF Stuck = {} THEN 0 ELSE 1,
       made |-> UNION {cmds[i].writes : i \in 1..ran}]

\* run_rtl: the files the simulation is told to load.
Loaded(t, testtype, ddm) ==
  IF testtype = "RISCVDV" /\ ddm THEN {File(t, Regions[i]) : i \in DOMAIN Regions}
                                 ELSE {File(t, "test.bin")}
=============================================================================
