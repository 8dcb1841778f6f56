---------------------------- MODULE RegressionInv ----------------------------
(***************************************************************************)
(* The inductive invariant of Regression, in parts: what the position of a *)
(* script in LockedMetadata says of its make recipe (Positions), how far   *)
(* make and its scripts have come (Progress, Steps), what make remembers   *)
(* of the files (Memory), that a script that goes on has read its pickle   *)
(* whole (Unpickled), what a log on disk is for make (LogFiles), that      *)
(* without edits a file of a simulation that exists is never made again    *)
(* (Stable), what the verdicts say of the logs (Verdicts), what a report   *)
(* that was reached says of the tests (Reached), and what only the first   *)
(* make can rely on (FirstMake).                                           *)
(***************************************************************************)
EXTENDS Regression

Done(f) == status[f] = "done"

\* A script is in LockedMetadata only while make runs its recipe.
Positions ==
  \A s \in Scripts :
    /\ at[s] # "out" => Stamp(s) \in Files
    /\ at[s] = "wait" => step[Stamp(s)] = "open"
    /\ at[s] = "in" => step[Stamp(s)] = "body"
    /\ at[s] = "dump" => step[Stamp(s)] \in {"exec", "raise"}

\* The scripts that are in a step are the files being made, each after all
\* that it is made from.
Progress ==
  /\ \A f \in Files :
       /\ step[f] = "none" <=> status[f] # "run"
       /\ status[f] # "todo" => \A p \in Deps(f) \ {Src} : Done(p)
       /\ make # "run" => status[f] = "todo"
  /\ file = Absent => exists = {Src} /\ make = "off"
  /\ result = "ok" => make = "off"

\* What a script can be doing with its file.
StepKinds(f) ==
  IF f[2] = All THEN {"none", "open", "body", "raise", "exec"}
  ELSE {"none", "open", "exec"} \cup (IF f[1] \in {"bin", "log"} THEN {"run"} ELSE {})
                                \cup (IF f[1] # "bin" THEN {"export"} ELSE {})
Steps == \A f \in Files : step[f] \in StepKinds(f)

\* make remembers what was out of date and learns of what is written.
Memory ==
  /\ Src \in exists
  /\ count \in [makes : Nat, edits : Nat, kills : Nat]
  /\ file # Absent => TrrFiles \subseteq exists
  /\ result = "ok" => Goal \in exists
  /\ make = "run" =>
       /\ newer \subseteq dirty
       /\ Files \ absent \subseteq exists
       /\ \A f \in Files : Done(f) /\ (f[2] = All \/ f[1] = "bin") => f \in exists
       /\ \A t \in Tests : Done(<<"trr", t>>) => <<<<"log", t>>, <<"trr", t>>>> \notin newer

\* A script that goes on has found the result of its test whole.
Unpickled ==
  \A f \in Files : f[2] \in Tests /\ step[f] \notin {"none", "open"} => trr[f[2]] # TornResult

\* A log that can be opened is there for make too.
LogFiles == \A t \in Tests : logs[t].open => <<"log", t>> \in exists

\* What a simulation is made from, and its log.
SimKinds == {"cfg", "gen", "tb", "asm", "bin", "log"}
Sim == {f \in Files : f[1] \in SimKinds}

\* Without edits such a file, once it is there, is up to date for good.
UpToDateForGood(f) ==
  /\ \A p \in Deps(f) : p \in exists /\ <<p, f>> \notin newer
  /\ \A p \in Deps(f) \ {Src} : status[p] # "run"
  /\ make = "run" => \/ Done(f)
                     \/ status[f] = "todo" /\ ~MustMake(f)
                     \/ status[f] = "run" /\ step[f] = "export"
Stable == count.edits = 0 => \A f \in Sim \cap exists : UpToDateForGood(f)

\* A verdict is about the log that is there; the report is about the verdicts.
Verdicts ==
  /\ count.edits = 0 =>
       \A t \in Tests : trr[t].passed = "True" =>
         Judged(t) /\ <<"log", t>> \in exists /\ status[<<"log", t>>] # "run"
  /\ step[Goal] = "exec" => report = Collect

\* Once make has made its goal without edits, every test has passed for good.
Reached ==
  count.edits = 0 /\ Goal \in exists =>
    \A t \in Tests :
      /\ trr[t].passed = "True"
      /\ <<<<"log", t>>, <<"trr", t>>>> \notin newer
      /\ make = "run" => \/ Done(<<"trr", t>>)
                         \/ status[<<"trr", t>>] = "todo" /\ ~MustMake(<<"trr", t>>)

\* The verdict of a test that passed.
Noticed(t) == Judged(t) => trr[t].passed = "True" \/ trr[t].failure_mode = "TIMEOUT"

FirstMake ==
  /\ count.makes = 0 => make = "off" /\ file = Absent
  /\ count.makes = 0 \/ (count.makes = 1 /\ make # "off") =>
       \A t \in Tests : logs[t].open \/ logs[t].uvm = <<>>
  /\ count.makes = 1 /\ make = "create" => \A t \in Tests : <<"log", t>> \notin exists
  /\ count.makes = 1 /\ make = "run" =>
       \A t \in Tests :
         /\ <<"log", t>> \in absent
         /\ <<"log", t>> \in exists => <<<<"log", t>>, <<"trr", t>>>> \in dirty
         /\ Done(<<"trr", t>>) \/ step[<<"trr", t>>] = "export" => Noticed(t)

FlowInv == TypeOK /\ Positions /\ Progress /\ Steps /\ Memory /\ Unpickled /\ LogFiles
           /\ Stable /\ Verdicts /\ Reached /\ FirstMake
=============================================================================
