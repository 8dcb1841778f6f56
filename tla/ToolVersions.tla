---------------------------- MODULE ToolVersions ----------------------------
(***************************************************************************)
(* util/check_tool_requirements.py: are the installed tools recent enough? *)
(*                                                                         *)
(* A version is read as [form, nums]: "dotted" numbers, Verible's          *)
(* v0.0-808-g1e17daa as its three numbers, VCS' 2020.03-SP2-1 as year,     *)
(* month, service pack and patch, "vcs_cruft" if more follows; "text" is   *)
(* anything else.                                                          *)
(***************************************************************************)
EXTENDS Integers, Sequences, FiniteSets, SequencesExt

V(form, nums) == [form |-> form, nums |-> nums]
NoVersion == V("text", <<>>)

\* The service pack and the patch of VCS have at most two digits, as the
\* comment in to_semver presumes of the patch.
IsVersion(version) ==
  /\ version.nums \in Seq(Nat)
  /\ version.form \in {"vcs", "vcs_cruft"} =>
       Len(version.nums) = 4 /\ version.nums[3] < 100 /\ version.nums[4] < 100

-----------------------------------------------------------------------------
(* packaging.version.Version: missing numbers are zeros.                   *)

Num(v, i) == IF i \in DOMAIN v THEN v[i] ELSE 0
Less(v, w) ==
  \E i \in 1..Max({Len(v), Len(w)}) :
    Num(v, i) < Num(w, i) /\ \A j \in 1..i - 1 : Num(v, j) = Num(w, j)

-----------------------------------------------------------------------------
(* to_semver of the classes of requirements.                               *)

\* VCS: the digits of 100 times the service pack plus the patch are put
\* directly behind those of the month.
Comb(nums) == nums[3] * 100 + nums[4]
Behind(n, m) == n * (IF m < 10 THEN 10 ELSE IF m < 100 THEN 100
                     ELSE IF m < 1000 THEN 1000 ELSE 10000) + m

Semver(tool, version, from_req) ==
  CASE tool = "vcs" ->
         IF version.form = "vcs" \/ (version.form = "vcs_cruft" /\ ~from_req)
         THEN V("dotted", <<version.nums[1], Behind(version.nums[2], Comb(version.nums))>>)
         ELSE NoVersion
    [] tool = "verible" ->
         IF version.form = "verible" THEN V("dotted", version.nums) ELSE NoVersion
    [] OTHER -> version
Valid_semver(tool, version, from_req) == Semver(tool, version, from_req).form = "dotted"

-----------------------------------------------------------------------------
(* check                                                                   *)

\* get_version: what running the tool gives, [ran, said].  A Python module
\* that is missing, and a verilator that says one word, are exceptions that
\* nobody catches.
Absent_tool == [ran |-> FALSE, said |-> NoVersion]
Runs(version) == [ran |-> TRUE, said |-> version]
CheckRaises(tool, min_version, installed) ==
  /\ Valid_semver(tool, min_version, TRUE)
  /\ \/ tool = "edalize" /\ ~installed.ran
     \/ tool = "verilator" /\ installed.ran /\ installed.said = NoVersion

Good(tool, min_version, installed) ==
  /\ Valid_semver(tool, min_version, TRUE)
  /\ installed.ran
  /\ Valid_semver(tool, installed.said, FALSE)
  /\ ~Less(Semver(tool, installed.said, FALSE).nums, Semver(tool, min_version, TRUE).nums)

-----------------------------------------------------------------------------
(* read_tool_requirements: a requirement is a version, or a dictionary     *)
(* with min_version and perhaps as_needed; other keys are errors.          *)

ReqErr(raw) ==
  \E tool \in DOMAIN raw :
    \/ "min_version" \notin DOMAIN raw[tool]
    \/ ~(DOMAIN raw[tool] \subseteq {"min_version", "as_needed"})
AsNeeded(req) == "as_needed" \in DOMAIN req /\ req.as_needed

\* main: 0 if all is good.
mut_Considered_tools(raw, named) == {tool \in DOMAIN raw : ~AsNeeded(raw[tool])}
Considered_tools(raw, named) == {tool \in DOMAIN raw : AsNeeded(raw[tool]) => tool \in named}
Main(raw, named, installed) ==
  LET considered == Considered_tools(raw, named)
  IN  IF ReqErr(raw) THEN 1
      ELSE IF \E tool \in considered :
                CheckRaises(tool, raw[tool].min_version, installed[tool])
           THEN 1
           ELSE IF /\ \A tool \in considered :
                        Good(tool, raw[tool].min_version, installed[tool])
                   /\ named \subseteq considered
                THEN 0 ELSE 1
=============================================================================
