-------------------------- MODULE FlowTools_proofs --------------------------
(***************************************************************************)
(* What the tools of the regression flow give for any requirements, any    *)
(* installed tools, any results and any names of tests.                    *)
(***************************************************************************)
EXTENDS FlowTools, TLAPS, FiniteSetTheorems, SequenceTheorems, WellFoundedInduction

\* What a call of the tool check leaves behind.
Checked ==
  call.tool = "check_tool_requirements" =>
    /\ call.raw \in Requirements /\ call.installed \in Installs
    /\ answer.ret = Main(call.raw, call.named, call.installed)

\* What a call of collect_results leaves behind.
Collected ==
  call.tool = "collect_results" =>
    /\ call.trrs \in Results
    /\ answer = CollectResults(call.trrs, call.simulator, call.cov)

-----------------------------------------------------------------------------
\* The length of the longer one of two versions.
LEMMA Longer ==
  ASSUME NEW m \in Nat, NEW n \in Nat
  PROVE  Max({m, n}) \in Nat /\ 1..Max({m, n}) = 1..m \cup 1..n
<1>. DEFINE x == Max({m, n})
<1>1. \E k \in {m, n} : \A y \in {m, n} : k >= y
  OBVIOUS
<1>2. x \in {m, n} /\ \A y \in {m, n} : x >= y
  BY <1>1 DEF Max
<1>. HIDE DEF x
<1>3. x \in Nat /\ 1..x = 1..m \cup 1..n
  BY <1>2
<1>. QED
  BY <1>3 DEF x

\* packaging.version.Version compares number by number.
LEMMA SameOrder ==
  ASSUME NEW v \in Seq(Nat), NEW w \in Seq(Nat)
  PROVE  Less(v, w) <=> Older(v, w)
<1>1. DOMAIN v = 1..Len(v) /\ DOMAIN w = 1..Len(w) /\ Len(v) \in Nat /\ Len(w) \in Nat
  OBVIOUS
<1>2. 1..Max({Len(v), Len(w)}) = DOMAIN v \cup DOMAIN w
  BY <1>1, Longer
<1>. QED
  BY <1>2 DEF Less, Older

\* Within a month, the digits that are put behind those of the month keep the
\* order of the service packs and patches.
LEMMA BehindGrows ==
  ASSUME NEW n \in Nat, NEW x \in Nat, NEW y \in Nat, x < y
  PROVE  Behind(n, x) < Behind(n, y)
BY DEF Behind

\* Digits put behind a number give a number.
LEMMA BehindIsNumber ==
  ASSUME NEW n \in Nat, NEW x \in Nat
  PROVE  Behind(n, x) \in Nat
BY DEF Behind

\* A version of VCS has four numbers.
LEMMA FourNumbers ==
  ASSUME NEW u \in Seq(Nat), Len(u) = 4
  PROVE  u[1] \in Nat /\ u[2] \in Nat /\ u[3] \in Nat /\ u[4] \in Nat /\ DOMAIN u = 1..4
<1>1. DOMAIN u = 1..4
  OBVIOUS
<1>2. \A i \in 1..4 : u[i] \in Nat
  BY ElementOfSeq
<1>. QED
  BY <1>1, <1>2

\* A hundred steps are one of the next place.
LEMMA Places ==
  ASSUME NEW i \in Nat, NEW j \in Nat, NEW k \in Nat, NEW l \in Nat, j < 100, l < 100
  PROVE  /\ i * 100 + j \in Nat
         /\ i * 100 + j < k * 100 + l <=> i < k \/ (i = k /\ j < l)
         /\ i * 100 + j = k * 100 + l <=> i = k /\ j = l
OBVIOUS

\* The order of the releases of VCS, within a month and between years.
LEMMA VcsOrder ==
  ASSUME NEW v \in Seq(Nat), NEW w \in Seq(Nat), Len(v) = 4, Len(w) = 4,
         v[3] < 100, v[4] < 100, w[3] < 100, w[4] < 100,
         v[1] # w[1] \/ v[2] = w[2]
  PROVE  Less(<<v[1], Behind(v[2], Comb(v))>>, <<w[1], Behind(w[2], Comb(w))>>) <=> Older(v, w)
<1>1. /\ v[1] \in Nat /\ v[2] \in Nat /\ v[3] \in Nat /\ v[4] \in Nat
      /\ w[1] \in Nat /\ w[2] \in Nat /\ w[3] \in Nat /\ w[4] \in Nat
      /\ DOMAIN v = 1..4 /\ DOMAIN w = 1..4
  BY FourNumbers
<1>2. \A i \in 1..4 : Num(v, i) = v[i] /\ Num(w, i) = w[i]
  BY <1>1 DEF Num
<1>3. Older(v, w) <=>
        \/ v[1] < w[1]
        \/ v[1] = w[1] /\ v[2] < w[2]
        \/ v[1] = w[1] /\ v[2] = w[2] /\ v[3] < w[3]
        \/ v[1] = w[1] /\ v[2] = w[2] /\ v[3] = w[3] /\ v[4] < w[4]
  BY <1>1, <1>2 DEF Older
<1>. DEFINE x == Comb(v)
            y == Comb(w)
            bx == Behind(v[2], x)
            by == Behind(w[2], y)
            a == <<v[1], bx>>
            b == <<w[1], by>>
<1>4. /\ x \in Nat /\ y \in Nat
      /\ x < y <=> v[3] < w[3] \/ (v[3] = w[3] /\ v[4] < w[4])
      /\ x = y <=> v[3] = w[3] /\ v[4] = w[4]
  <2>1. x = v[3] * 100 + v[4] /\ y = w[3] * 100 + w[4]
    BY DEF Comb
  <2>. HIDE DEF x, y
  <2>2. PICK i \in Nat, j \in Nat, k \in Nat, l \in Nat : v[3] = i /\ v[4] = j /\ w[3] = k /\ w[4] = l
    BY <1>1
  <2>3. /\ i * 100 + j \in Nat /\ k * 100 + l \in Nat
        /\ i * 100 + j < k * 100 + l <=> i < k \/ (i = k /\ j < l)
        /\ i * 100 + j = k * 100 + l <=> i = k /\ j = l
    BY <2>2, Places
  <2>. QED
    BY <2>1, <2>2, <2>3
<1>. HIDE DEF x, y
<1>5. bx \in Nat /\ by \in Nat
  BY <1>1, <1>4, BehindIsNumber
<1>6. v[2] = w[2] => (bx < by <=> x < y)
  BY <1>1, <1>4, <1>5, BehindGrows
<1>. HIDE DEF bx, by
<1>7. Less(a, b) <=> v[1] < w[1] \/ (v[1] = w[1] /\ bx < by)
  <2>1. /\ a \in Seq(Nat) /\ b \in Seq(Nat) /\ Len(a) = 2 /\ Len(b) = 2
        /\ DOMAIN a = 1..2 /\ DOMAIN b = 1..2
        /\ a[1] = v[1] /\ a[2] = bx /\ b[1] = w[1] /\ b[2] = by
    BY <1>1, <1>5
  <2>. HIDE DEF a, b
  <2>2. \A i \in 1..2 : Num(a, i) = a[i] /\ Num(b, i) = b[i]
    BY <2>1 DEF Num
  <2>3. Older(a, b) <=> a[1] < b[1] \/ (a[1] = b[1] /\ a[2] < b[2])
    BY <1>1, <1>5, <2>1, <2>2 DEF Older
  <2>. QED
    BY <2>1, <2>3, SameOrder
<1>8. Less(a, b) <=> Older(v, w)
  BY <1>1, <1>3, <1>4, <1>6, <1>7
<1>. QED
  BY <1>8 DEF a, b, bx, by, x, y

(***************************************************************************)
(* An installed tool is recent: its version and the one that is required   *)
(* can be read, and it is no older.                                        *)
(***************************************************************************)
Recent(tool, min_version, installed) ==
  /\ min_version.form = Format(tool) /\ installed.ran
  /\ installed.said.form = Format(tool) \/ (tool = "vcs" /\ installed.said.form = "vcs_cruft")
  /\ ~Older(installed.said.nums, min_version.nums)

\* The releases of VCS that can be compared: of one month or of different years.
Comparable(tool, min_version, installed) ==
  tool = "vcs" /\ Len(installed.said.nums) = 4 =>
    \/ installed.said.nums[1] # min_version.nums[1]
    \/ installed.said.nums[2] = min_version.nums[2]

\* A requirement can be read if it has the form of its tool.
LEMMA Readable ==
  ASSUME NEW tool, NEW version
  PROVE  /\ Valid_semver(tool, version, TRUE) <=> version.form = Format(tool)
         /\ Valid_semver(tool, version, FALSE) <=>
              version.form = Format(tool) \/ (tool = "vcs" /\ version.form = "vcs_cruft")
<1>1. CASE tool = "vcs"
  BY <1>1 DEF Valid_semver, Semver, Format, V, NoVersion
<1>2. CASE tool = "verible"
  BY <1>2 DEF Valid_semver, Semver, Format, V, NoVersion
<1>3. CASE tool \notin {"vcs", "verible"}
  BY <1>3 DEF Valid_semver, Semver, Format
<1>. QED
  BY <1>1, <1>2, <1>3

\* The check of one tool accepts it exactly if it is recent.
LEMMA GoodIsRecent ==
  ASSUME NEW tool, NEW min_version, NEW installed,
         IsVersion(min_version), IsVersion(installed.said),
         Comparable(tool, min_version, installed)
  PROVE  Good(tool, min_version, installed) <=> Recent(tool, min_version, installed)
<1>. DEFINE has == installed.said
            mine == Semver(tool, has, FALSE).nums
            theirs == Semver(tool, min_version, TRUE).nums
<1>1. ASSUME Valid_semver(tool, min_version, TRUE), Valid_semver(tool, has, FALSE)
      PROVE  Less(mine, theirs) <=> Older(has.nums, min_version.nums)
  <2>1. CASE tool = "vcs"
    <3>1. min_version.form = "vcs" /\ has.form \in {"vcs", "vcs_cruft"}
      BY <1>1, <2>1, Readable DEF Format
    <3>2. /\ has.nums \in Seq(Nat) /\ min_version.nums \in Seq(Nat)
          /\ Len(has.nums) = 4 /\ has.nums[3] < 100 /\ has.nums[4] < 100
          /\ Len(min_version.nums) = 4 /\ min_version.nums[3] < 100 /\ min_version.nums[4] < 100
      BY <3>1 DEF IsVersion
    <3>3. has.nums[1] # min_version.nums[1] \/ has.nums[2] = min_version.nums[2]
      BY <2>1, <3>2 DEF Comparable
    <3>4. /\ mine = <<has.nums[1], Behind(has.nums[2], Comb(has.nums))>>
          /\ theirs = <<min_version.nums[1], Behind(min_version.nums[2], Comb(min_version.nums))>>
      BY <2>1, <3>1 DEF Semver, V
    <3>. HIDE DEF has
    <3>. QED
      BY <3>2, <3>3, <3>4, VcsOrder
  <2>2. CASE tool # "vcs"
    <3>1. mine = has.nums /\ theirs = min_version.nums
      <4>1. CASE tool = "verible"
        BY <1>1, <4>1, Readable DEF Semver, V, Format
      <4>2. CASE tool # "verible"
        BY <2>2, <4>2 DEF Semver
      <4>. QED
        BY <4>1, <4>2
    <3>. QED
      BY <3>1, SameOrder DEF IsVersion
  <2>. QED
    BY <2>1, <2>2
<1>. HIDE DEF mine, theirs
<1>2. Good(tool, min_version, installed) <=>
        /\ Valid_semver(tool, min_version, TRUE) /\ installed.ran
        /\ Valid_semver(tool, has, FALSE) /\ ~Less(mine, theirs)
  BY DEF Good, mine, theirs
<1>. QED
  BY <1>1, <1>2, Readable DEF Recent

\* A check that ends in an exception is one of a tool that is not recent.
LEMMA RaisesIsNotRecent ==
  ASSUME NEW tool, NEW min_version, NEW installed, CheckRaises(tool, min_version, installed)
  PROVE  ~Recent(tool, min_version, installed)
<1>1. CASE tool = "edalize" /\ ~installed.ran
  BY <1>1 DEF Recent
<1>2. CASE tool = "verilator" /\ installed.said = NoVersion
  BY <1>2 DEF Recent, NoVersion, V, Format
<1>. QED
  BY <1>1, <1>2 DEF CheckRaises

(***************************************************************************)
(* The exit status of check_tool_requirements.py: zero exactly if every    *)
(* tool that is required or was named is known and recent.                 *)
(***************************************************************************)
LEMMA MainChecks ==
  ASSUME NEW raw, NEW named, NEW installed, ~ReqErr(raw),
         NEW needed, needed = {t \in DOMAIN raw : ~AsNeeded(raw[t])} \cup named,
         \A t \in needed \cap DOMAIN raw :
           /\ IsVersion(raw[t].min_version) /\ IsVersion(installed[t].said)
           /\ Comparable(t, raw[t].min_version, installed[t])
  PROVE  Main(raw, named, installed) = 0 <=>
           /\ needed \subseteq DOMAIN raw
           /\ \A t \in needed : Recent(t, raw[t].min_version, installed[t])
<1>. DEFINE considered == Considered_tools(raw, named)
            Raises(t) == CheckRaises(t, raw[t].min_version, installed[t])
            Fine(t) == Good(t, raw[t].min_version, installed[t])
<1>1. considered = needed \cap DOMAIN raw
  BY DEF Considered_tools
<1>2. named \subseteq considered <=> needed \subseteq DOMAIN raw
  BY <1>1
<1>3. \A t \in considered : /\ Fine(t) <=> Recent(t, raw[t].min_version, installed[t])
                            /\ Raises(t) => ~Recent(t, raw[t].min_version, installed[t])
  BY <1>1, GoodIsRecent, RaisesIsNotRecent
<1>4. Main(raw, named, installed) = 0 <=>
        ~(\E t \in considered : Raises(t)) /\ (\A t \in considered : Fine(t)) /\ named \subseteq considered
  BY DEF Main
<1>. HIDE DEF considered, Raises, Fine
<1>. QED
  BY <1>1, <1>2, <1>3, <1>4

-----------------------------------------------------------------------------
\* Each action calls the tool of its name.
LEMMA OneTool ==
  ASSUME Next
  PROVE  \/ CheckTools /\ call.tool' = "check_tool_requirements"
         \/ CollectReports /\ call.tool' = "collect_results"
         \/ call.tool' \notin {"check_tool_requirements", "collect_results"}
<1>1. CASE CheckTools
  BY <1>1 DEF CheckTools
<1>2. CASE CollectReports
  BY <1>2 DEF CollectReports
<1>3. CASE CreateMetadata \/ ListTests
  BY <1>3 DEF CreateMetadata, ListTests
<1>4. CASE Generate
  BY <1>4 DEF Generate
<1>5. CASE Compile
  <2>1. \E t, o, y, ddm, failing :
          call' = [tool |-> "compile_test", test |-> t, ok |-> o, testtype |-> y,
                   ddm |-> ddm, failing |-> failing]
    BY <1>5, Zenon DEF Compile
  <2>. QED
    BY <2>1
<1>6. CASE Simulate
  BY <1>6 DEF Simulate
<1>. QED
  BY <1>1, <1>2, <1>3, <1>4, <1>5, <1>6 DEF Next

(***************************************************************************)
(* CheckedAlways: the answer of the tool check is what main returns.       *)
(***************************************************************************)
THEOREM CheckedAlways == FlowSpec => []Checked
<1>1. Init => Checked
  BY DEF Init, Idle, Checked
<1>2. Checked /\ [Next]_flow => Checked'
  <2>1. ASSUME CheckTools PROVE Checked'
    BY <2>1 DEF CheckTools, Checked
  <2>2. ASSUME Checked, UNCHANGED flow PROVE Checked'
    BY <2>2 DEF flow, Checked
  <2>. QED
    BY <2>1, <2>2, OneTool DEF Checked
<1>. QED
  BY <1>1, <1>2, PTL DEF FlowSpec

(***************************************************************************)
(* CollectedAlways: what collect_results leaves is the reports of a list   *)
(* of results.                                                             *)
(***************************************************************************)
THEOREM CollectedAlways == FlowSpec => []Collected
<1>1. Init => Collected
  BY DEF Init, Idle, Collected
<1>2. Collected /\ [Next]_flow => Collected'
  <2>1. ASSUME CollectReports PROVE Collected'
    BY <2>1 DEF CollectReports, Collected
  <2>2. ASSUME Collected, UNCHANGED flow PROVE Collected'
    BY <2>2 DEF flow, Collected
  <2>. QED
    BY <2>1, <2>2, OneTool DEF Collected
<1>. QED
  BY <1>1, <1>2, PTL DEF FlowSpec

(***************************************************************************)
(* ToolCheckCorrect: for any requirements, tools named on the command line *)
(* and installed tools, the check says 0 exactly if each tool it should    *)
(* look at is there and recent (ToolsChecked).                             *)
(***************************************************************************)
THEOREM ToolCheckCorrect == FlowSpec => []ToolsChecked
<1>1. Checked => ToolsChecked
  <2>. SUFFICES ASSUME Checked, call.tool = "check_tool_requirements" PROVE ToolsChecked
    BY DEF ToolsChecked
  <2>. DEFINE raw == call.raw
              installed == call.installed
              needed == {t \in DOMAIN raw : ~AsNeeded(raw[t])} \cup call.named
  <2>1. /\ raw \in Requirements /\ installed \in Installs
        /\ answer.ret = Main(raw, call.named, installed)
    BY DEF Checked
  <2>2. ASSUME ~ReqErr(raw), NEW t \in DOMAIN raw
        PROVE  IsVersion(raw[t].min_version) /\ IsVersion(installed[t].said)
    <3>1. "min_version" \in DOMAIN raw[t] /\ t \in DOMAIN installed
      BY <2>1, <2>2, VersionAssumption DEF ReqErr
    <3>. QED
      BY <2>1, <3>1, VersionAssumption
  <2>3. ASSUME ~ReqErr(raw),
               \A t \in needed \cap DOMAIN raw : Comparable(t, raw[t].min_version, installed[t])
        PROVE  answer.ret = 0 <=>
                 /\ needed \subseteq DOMAIN raw
                 /\ \A t \in needed : Recent(t, raw[t].min_version, installed[t])
    <3>1. \A t \in needed \cap DOMAIN raw :
            /\ IsVersion(raw[t].min_version) /\ IsVersion(installed[t].said)
            /\ Comparable(t, raw[t].min_version, installed[t])
      BY <2>2, <2>3
    <3>. HIDE DEF raw, installed
    <3>2. PICK set : set = needed
      OBVIOUS
    <3>3. Main(raw, call.named, installed) = 0 <=>
            /\ set \subseteq DOMAIN raw
            /\ \A t \in set : Recent(t, raw[t].min_version, installed[t])
      BY <2>3, <3>1, <3>2, MainChecks
    <3>. QED
      BY <2>1, <3>2, <3>3
  <2>. QED
    BY <2>3 DEF ToolsChecked, Comparable, Recent
<1>. QED
  BY CheckedAlways, <1>1, PTL

-----------------------------------------------------------------------------
\* The numbers of the results of a list are finitely many.
LEMMA ResultsCount ==
  ASSUME NEW trrs \in Results
  PROVE  /\ Len(trrs) \in Nat /\ DOMAIN trrs = 1..Len(trrs)
         /\ IsFiniteSet(DOMAIN trrs) /\ Cardinality(DOMAIN trrs) = Len(trrs)
<1>1. Len(trrs) \in Nat /\ DOMAIN trrs = 1..Len(trrs)
  BY ResultsAssumption
<1>2. \A n \in Nat : IsFiniteSet(1..n) /\ Cardinality(1..n) = n
  <2>. TAKE n \in Nat
  <2>1. IsFiniteSet(1..n) /\ Cardinality(1..n) = IF 1 > n THEN 0 ELSE n-1+1
    BY FS_Interval
  <2>. QED
    BY <2>1
<1>. QED
  BY <1>1, <1>2

\* A result passes or fails.
LEMMA PassOrFail ==
  ASSUME NEW trrs \in Results, NEW S \in SUBSET DOMAIN trrs
  PROVE  /\ IsFiniteSet(S) /\ IsFiniteSet(S \cap Failing(trrs))
         /\ Cardinality(S) \in Nat /\ Cardinality(S \cap Failing(trrs)) \in Nat
         /\ Cardinality(S \cap Passing(trrs)) = Cardinality(S) - Cardinality(S \cap Failing(trrs))
<1>1. IsFiniteSet(S)
  BY ResultsCount, FS_Subset
<1>2. S \cap Passing(trrs) = S \ Failing(trrs)
  BY DEF Passing, Failing
<1>3. IsFiniteSet(S \cap Failing(trrs))
  BY <1>1, FS_Intersection
<1>4. Cardinality(S \ Failing(trrs)) = Cardinality(S) - Cardinality(S \cap Failing(trrs))
  BY <1>1, FS_Difference
<1>5. Cardinality(S) \in Nat /\ Cardinality(S \cap Failing(trrs)) \in Nat
  BY <1>1, <1>3, FS_CardinalityType
<1>. QED
  BY <1>1, <1>2, <1>3, <1>4, <1>5

\* The failed cases of a suite are as many as the failed runs of its test.
LEMMA FailedCases ==
  ASSUME NEW trrs \in Results, NEW name \in Names(trrs)
  PROVE  Cardinality({c \in Junit(trrs)[name] : c.failed})
           = Cardinality(Named(trrs, name) \cap Failing(trrs))
<1>. DEFINE S == Named(trrs, name) \cap Failing(trrs)
            Case(i) == [seed |-> trrs[i].seed, failed |-> i \in Failing(trrs)]
            T == {c \in Junit(trrs)[name] : c.failed}
            f == [i \in S |-> Case(i)]
<1>1. Junit(trrs)[name] = {Case(i) : i \in Named(trrs, name)}
  BY DEF Junit
<1>2. f \in Surjection(S, T)
  <2>1. \A i \in S : f[i] \in T
    BY <1>1
  <2>2. ASSUME NEW c \in T PROVE \E i \in S : f[i] = c
    <3>1. PICK i \in Named(trrs, name) : c = Case(i)
      BY <1>1
    <3>2. i \in Failing(trrs)
      BY <3>1
    <3>. QED
      BY <3>1, <3>2
  <2>. HIDE DEF S, T, f
  <2>3. f \in [S -> T]
    BY <2>1 DEF f
  <2>. QED
    BY <2>2, <2>3 DEF Surjection
<1>3. f \in Injection(S, T)
  <2>1. ASSUME NEW i \in S, NEW j \in S, f[i] = f[j] PROVE i = j
    <3>1. trrs[i].seed = trrs[j].seed
      BY <2>1
    <3>2. trrs[i].testname = trrs[j].testname /\ i \in DOMAIN trrs /\ j \in DOMAIN trrs
      BY DEF Named
    <3>. QED
      BY <3>1, <3>2, ResultsAssumption
  <2>. HIDE DEF S, T, f
  <2>2. f \in [S -> T]
    BY <1>2 DEF Surjection
  <2>. QED
    BY <2>1, <2>2 DEF Injection, IsInjective
<1>4. IsFiniteSet(S)
  <2>1. Named(trrs, name) \in SUBSET DOMAIN trrs
    BY DEF Named
  <2>. QED
    BY <2>1, PassOrFail
<1>. HIDE DEF S, T, f
<1>5. Cardinality(T) = Cardinality(S)
  BY <1>2, <1>3, <1>4, FS_Surjection
<1>. QED
  BY <1>5 DEF S, T

\* The reports, one by one.
LEMMA ReportsWritten ==
  ASSUME NEW trrs, NEW simulator, NEW cov,
         NEW reports, reports = CollectResults(trrs, simulator, cov)
  PROVE  /\ reports.regr_log.contents = SummaryLine(Passing(trrs), Failing(trrs))
         /\ reports.junit.contents = Junit(trrs)
         /\ reports.merged.contents = JunitMerged(trrs)
         /\ reports.json.written =>
              \A name \in Names(trrs) :
                LET runs == TestSummary(trrs)[name]
                IN  reports.json.contents.tests[name] =
                      [passing_runs |-> runs.passing, total_runs |-> runs.passing + runs.failing]
         /\ reports.ret = 0 <=> Failing(trrs) = {} /\ reports.json.written
<1>. DEFINE line == SummaryLine(Passing(trrs), Failing(trrs))
            junit == Junit(trrs)
            merged == JunitMerged(trrs)
            tests == TestSummary(trrs)
            failing == Failing(trrs)
            text == [regr_log |-> Written(line), junit |-> Written(junit),
                     merged |-> Written(merged), json |-> Unwritten, ret |-> 1]
<1>1. \/ reports = text
      \/ \E summary :
           reports = [text EXCEPT !.json = Written(Dvsim(tests, summary)),
                                  !.ret = IF failing = {} THEN 0 ELSE 1]
  BY DEF CollectResults
<1>2. \A summary : \A name \in Names(trrs) :
        Dvsim(tests, summary).tests[name] =
          [passing_runs |-> tests[name].passing,
           total_runs |-> tests[name].passing + tests[name].failing]
  BY DEF Dvsim, TestSummary
<1>. HIDE DEF line, junit, merged, tests, failing
<1>3. ASSUME reports = text
      PROVE  /\ reports.regr_log.contents = line /\ reports.junit.contents = junit
             /\ reports.merged.contents = merged
             /\ ~reports.json.written /\ reports.ret # 0
  <2>1. /\ reports.regr_log = Written(line) /\ reports.junit = Written(junit)
        /\ reports.merged = Written(merged)
        /\ reports.json = Unwritten /\ reports.ret = 1
    BY <1>3
  <2>. QED
    BY <2>1 DEF Written, Unwritten
<1>4. ASSUME NEW summary,
             reports = [text EXCEPT !.json = Written(Dvsim(tests, summary)),
                                    !.ret = IF failing = {} THEN 0 ELSE 1]
      PROVE  /\ reports.regr_log = Written(line) /\ reports.junit = Written(junit)
             /\ reports.merged = Written(merged)
             /\ reports.json = Written(Dvsim(tests, summary))
             /\ reports.ret = IF failing = {} THEN 0 ELSE 1
  BY <1>4
<1>5. ASSUME NEW summary,
             reports = [text EXCEPT !.json = Written(Dvsim(tests, summary)),
                                    !.ret = IF failing = {} THEN 0 ELSE 1]
      PROVE  /\ reports.regr_log.contents = line /\ reports.junit.contents = junit
             /\ reports.merged.contents = merged
             /\ reports.json.written /\ reports.json.contents = Dvsim(tests, summary)
             /\ reports.ret = 0 <=> failing = {}
  <2>1. /\ reports.regr_log = Written(line) /\ reports.junit = Written(junit)
        /\ reports.merged = Written(merged)
        /\ reports.json = Written(Dvsim(tests, summary))
        /\ reports.ret = IF failing = {} THEN 0 ELSE 1
    BY <1>4, <1>5
  <2>. HIDE DEF text
  <2>. QED
    BY ONLY <2>1 DEF Written
<1>6. CASE reports # text
  <2>1. PICK summary : reports = [text EXCEPT !.json = Written(Dvsim(tests, summary)),
                                              !.ret = IF failing = {} THEN 0 ELSE 1]
    BY <1>1, <1>6
  <2>2. /\ reports.regr_log.contents = line /\ reports.junit.contents = junit
        /\ reports.merged.contents = merged
        /\ reports.json.written /\ reports.json.contents = Dvsim(tests, summary)
        /\ reports.ret = 0 <=> failing = {}
    BY <1>5, <2>1
  <2>. HIDE DEF text
  <2>. QED
    BY <1>2, <2>2 DEF line, junit, merged, tests, failing
<1>. QED
  BY <1>3, <1>6 DEF line, junit, merged, tests, failing

(***************************************************************************)
(* ReportsCorrect: for any results and any coverage report, the reports    *)
(* tell of the same failed runs, and the exit status is 0 only if there    *)
(* are none and all of the reports are there (ReportsAgree).               *)
(***************************************************************************)
THEOREM ReportsCorrect == FlowSpec => []ReportsAgree
<1>1. Collected => ReportsAgree
  <2>. SUFFICES ASSUME Collected, call.tool = "collect_results" PROVE ReportsAgree
    BY DEF ReportsAgree
  <2>. DEFINE trrs == call.trrs
              Failed(name) == {i \in DOMAIN trrs : trrs[i].testname = name /\ trrs[i].passed # "True"}
              Of(name) == {i \in DOMAIN trrs : trrs[i].testname = name}
              failed == UNION {Failed(name) : name \in Names(trrs)}
  <2>1. trrs \in Results /\ answer = CollectResults(trrs, call.simulator, call.cov)
    BY DEF Collected
  <2>2. failed = Failing(trrs) /\ \A name : Failed(name) = Of(name) \cap Failing(trrs)
    BY DEF Failing, Names
  <2>3. \A name : Of(name) = Named(trrs, name) /\ Of(name) \in SUBSET DOMAIN trrs
    BY DEF Named
  <2>. HIDE DEF trrs, Failed, Of, failed
  <2>4. /\ answer.regr_log.contents.failed = Cardinality(failed)
        /\ answer.regr_log.contents.passed = Len(trrs) - Cardinality(failed)
    <3>1. answer.regr_log.contents = SummaryLine(Passing(trrs), Failing(trrs))
      BY <2>1, ReportsWritten
    <3>2. DOMAIN trrs \cap Failing(trrs) = Failing(trrs) /\ DOMAIN trrs \cap Passing(trrs) = Passing(trrs)
      BY DEF Failing, Passing
    <3>3. Cardinality(Passing(trrs)) = Len(trrs) - Cardinality(Failing(trrs))
      <4>1. DOMAIN trrs \in SUBSET DOMAIN trrs
        OBVIOUS
      <4>. QED
        BY <2>1, <3>2, <4>1, PassOrFail, ResultsCount
    <3>. QED
      BY <2>2, <3>1, <3>3 DEF SummaryLine
  <2>5. ASSUME NEW name \in Names(trrs)
        PROVE  /\ Cardinality({c \in answer.junit.contents[name] : c.failed}) = Cardinality(Failed(name))
               /\ answer.merged.contents[name].failed <=> Failed(name) # {}
               /\ answer.json.written =>
                    /\ answer.json.contents.tests[name].total_runs = Cardinality(Of(name))
                    /\ answer.json.contents.tests[name].passing_runs
                         = answer.json.contents.tests[name].total_runs - Cardinality(Failed(name))
    <3>1. Cardinality({c \in answer.junit.contents[name] : c.failed}) = Cardinality(Failed(name))
      <4>1. answer.junit.contents = Junit(trrs)
        BY <2>1, ReportsWritten
      <4>. QED
        BY <2>1, <2>2, <2>3, <4>1, FailedCases
    <3>2. answer.merged.contents[name].failed <=> Failed(name) # {}
      <4>1. answer.merged.contents = JunitMerged(trrs)
        BY <2>1, ReportsWritten
      <4>2. JunitMerged(trrs)[name].failed <=> \E i \in Failing(trrs) : trrs[i].testname = name
        BY DEF JunitMerged
      <4>. QED
        BY <2>2, <4>1, <4>2 DEF Failed, Failing
    <3>3. ASSUME answer.json.written
          PROVE  /\ answer.json.contents.tests[name].total_runs = Cardinality(Of(name))
                 /\ answer.json.contents.tests[name].passing_runs
                      = answer.json.contents.tests[name].total_runs - Cardinality(Failed(name))
      <4>1. answer.json.contents.tests[name] =
              [passing_runs |-> TestSummary(trrs)[name].passing,
               total_runs |-> TestSummary(trrs)[name].passing + TestSummary(trrs)[name].failing]
        BY <2>1, <2>5, <3>3, ReportsWritten
      <4>2. /\ TestSummary(trrs)[name].passing = Cardinality(Of(name) \cap Passing(trrs))
            /\ TestSummary(trrs)[name].failing = Cardinality(Failed(name))
        BY <2>2, <2>3 DEF TestSummary
      <4>3. /\ Cardinality(Of(name)) \in Nat /\ Cardinality(Failed(name)) \in Nat
            /\ Cardinality(Of(name) \cap Passing(trrs)) = Cardinality(Of(name)) - Cardinality(Failed(name))
        BY <2>1, <2>2, <2>3, PassOrFail
      <4>. QED
        BY <4>1, <4>2, <4>3
    <3>. QED
      BY <3>1, <3>2, <3>3
  <2>6. answer.ret = 0 <=> failed = {} /\ answer.json.written
    BY <2>1, <2>2, ReportsWritten
  <2>. QED
    BY <2>4, <2>5, <2>6 DEF ReportsAgree, trrs, Failed, Of, failed
<1>. QED
  BY CollectedAlways, <1>1, PTL

-----------------------------------------------------------------------------
(* The files of one test.                                                  *)

\* A sequence is the tuple of its elements.
LEMMA Elements ==
  ASSUME NEW S, NEW s \in Seq(S)
  PROVE  /\ Len(s) = 1 => s = <<s[1]>>
         /\ Len(s) = 2 => s = <<s[1], s[2]>>
         /\ Len(s) = 3 => s = <<s[1], s[2], s[3]>>
         /\ Len(s) = 4 => s = <<s[1], s[2], s[3], s[4]>>
<1>2. ASSUME Len(s) = 1 PROVE s = <<s[1]>>
  BY <1>2
<1>3. ASSUME Len(s) = 2 PROVE s = <<s[1], s[2]>>
  BY <1>3
<1>4. ASSUME Len(s) = 3 PROVE s = <<s[1], s[2], s[3]>>
  BY <1>4
<1>5. ASSUME Len(s) = 4 PROVE s = <<s[1], s[2], s[3], s[4]>>
  BY <1>5
<1>. QED
  BY <1>2, <1>3, <1>4, <1>5

\* Short sequences, put together.
LEMMA OneAndOne ==
  ASSUME NEW a, NEW b
  PROVE  Append(<<a>>, b) = <<a, b>> /\ <<a>> \o <<b>> = <<a, b>>
<1>. DEFINE S == {a, b}
<1>1. /\ <<a>> \in Seq(S) /\ <<b>> \in Seq(S)
  OBVIOUS
<1>2. Append(<<a>>, b) = <<a, b>>
  <2>1. Append(<<a>>, b) \in Seq(S) /\ Len(Append(<<a>>, b)) = 2
    BY <1>1, AppendProperties
  <2>2. Append(<<a>>, b)[1] = a /\ Append(<<a>>, b)[2] = b
    BY <1>1, AppendProperties
  <2>. QED
    BY <2>1, <2>2, Elements
<1>3. <<a>> \o <<b>> = <<a, b>>
  <2>1. <<a>> \o <<b>> \in Seq(S) /\ Len(<<a>> \o <<b>>) = 2
    BY <1>1, ConcatProperties
  <2>2. (<<a>> \o <<b>>)[1] = a /\ (<<a>> \o <<b>>)[2] = b
    BY <1>1, ConcatProperties
  <2>. QED
    BY <2>1, <2>2, Elements
<1>. QED
  BY <1>2, <1>3

\* Two elements and one more.
LEMMA TwoAndOne ==
  ASSUME NEW a, NEW b, NEW c
  PROVE  Append(<<a, b>>, c) = <<a, b, c>> /\ <<a, b>> \o <<c>> = <<a, b, c>>
<1>. DEFINE S == {a, b, c}
<1>1. /\ <<a, b>> \in Seq(S) /\ <<c>> \in Seq(S)
  OBVIOUS
<1>2. Append(<<a, b>>, c) = <<a, b, c>>
  <2>1. Append(<<a, b>>, c) \in Seq(S) /\ Len(Append(<<a, b>>, c)) = 3
    BY <1>1, AppendProperties
  <2>2. Append(<<a, b>>, c)[1] = a /\ Append(<<a, b>>, c)[2] = b /\ Append(<<a, b>>, c)[3] = c
    BY <1>1, AppendProperties
  <2>. QED
    BY <2>1, <2>2, Elements
<1>3. <<a, b>> \o <<c>> = <<a, b, c>>
  <2>. DEFINE s == <<a, b>> \o <<c>>
  <2>1. /\ s \in Seq(S) /\ Len(s) = 3
        /\ \A i \in 1..3 : s[i] = IF i <= 2 THEN <<a, b>>[i] ELSE <<c>>[i - 2]
    BY <1>1, ConcatProperties
  <2>2. s[1] = a /\ s[2] = b /\ s[3] = c
    BY <2>1
  <2>. QED
    BY <2>1, <2>2, Elements
<1>. QED
  BY <1>2, <1>3

\* One element and three more.
LEMMA OneAndThree ==
  ASSUME NEW a, NEW b, NEW c, NEW d
  PROVE  <<a>> \o <<b, c, d>> = <<a, b, c, d>>
<1>. DEFINE S == {a, b, c, d}
            s == <<a>> \o <<b, c, d>>
<1>1. <<a>> \in Seq(S) /\ <<b, c, d>> \in Seq(S)
  OBVIOUS
<1>2. /\ s \in Seq(S) /\ Len(s) = 4
      /\ \A i \in 1..4 : s[i] = IF i <= 1 THEN <<a>>[i] ELSE <<b, c, d>>[i - 1]
  BY <1>1, ConcatProperties
<1>3. s[1] = a /\ s[2] = b /\ s[3] = c /\ s[4] = d
  BY <1>2
<1>. QED
  BY <1>2, <1>3, Elements

\* A pair and its parts.
LEMMA FrontAndLast ==
  ASSUME NEW a, NEW b
  PROVE  Front(<<a, b>>) = <<a>> /\ Last(<<a, b>>) = b
<1>1. /\ SubSeq(<<a, b>>, 1, 1) \in Seq({a, b}) /\ Len(SubSeq(<<a, b>>, 1, 1)) = 1
      /\ SubSeq(<<a, b>>, 1, 1)[1] = a
  BY SubSeqProperties
<1>2. SubSeq(<<a, b>>, 1, 1) = <<a>>
  BY <1>1, Elements
<1>. QED
  BY <1>2 DEF Front, Last

\* The paths of the generator.
LEMMA Paths ==
  ASSUME NEW x
  PROVE  /\ AsmTest = <<Placeholder[1], Name("asm_test")>>
         /\ Append(AsmTest, x) = <<Placeholder[1], Name("asm_test"), x>>
         /\ Append(Placeholder, x) = <<Placeholder[1], x>>
         /\ Placeholder \o <<x>> = <<Placeholder[1], x>>
         /\ Append(Scratch, x) = <<Scratch[1], x>>
         /\ Generator \o <<x>> = <<Name("build"), Name("instr_gen"), x>>
<1>1. AsmTest = <<Placeholder[1], Name("asm_test")>>
  BY OneAndOne DEF AsmTest, Placeholder
<1>2. Generator \o <<x>> = <<Name("build"), Name("instr_gen"), x>>
  BY TwoAndOne DEF Generator
<1>. QED
  BY <1>1, <1>2, OneAndOne, TwoAndOne DEF Placeholder, Scratch

\* Words of different lengths are different paths.
LEMMA Lengths ==
  ASSUME NEW a, NEW b, NEW c, NEW d, NEW e, NEW f
  PROVE  <<a>> # <<b, c>> /\ <<a>> # <<d, e, f>> /\ <<b, c>> # <<d, e, f>>
<1>1. Len(<<a>>) = 1 /\ Len(<<b, c>>) = 2 /\ Len(<<d, e, f>>) = 3
  OBVIOUS
<1>. QED
  BY <1>1

\* Where the paths of the generator's commands end up.
LEMMA Relocations ==
  ASSUME NEW simulator \in Simulators, NEW t
  PROVE  /\ RelocPath(simulator, t, AsmTest) = Scratch
         /\ RelocPath(simulator, t, Append(AsmTest, Name(t))) = Append(Scratch, Name("test"))
         /\ RelocPath(simulator, t, Append(Placeholder, <<"sim", t>>)) = Append(Scratch, Name("gen.log"))
         /\ simulator = "vcs" =>
              RelocPath(simulator, t, Append(Placeholder, Name("vcs_simv"))) = Append(Generator, Name("vcs_simv"))
         /\ simulator = "xlm" => RelocPath(simulator, t, Placeholder) = Generator
<1>. DEFINE relocs == SimRelocs(simulator) \o AlwaysRelocs(t)
            p == Placeholder[1]
            own == SimRelocs(simulator)[1]
            test == <<Append(AsmTest, Name(t)), Append(Scratch, Name("test"))>>
            dir == <<AsmTest, Scratch>>
            log == <<Append(Placeholder, <<"sim", t>>), Append(Scratch, Name("gen.log"))>>
<1>1. relocs = <<own, test, dir, log>>
  <2>1. SimRelocs(simulator) = <<own>>
    BY DEF SimRelocs, Simulators
  <2>2. AlwaysRelocs(t) = <<test, dir, log>>
    BY DEF AlwaysRelocs
  <2>. HIDE DEF own, test, dir, log
  <2>3. <<own>> \o <<test, dir, log>> = <<own, test, dir, log>>
    BY OneAndThree
  <2>. QED
    BY <2>1, <2>2, <2>3
<1>2. /\ test[1] = <<p, Name("asm_test"), Name(t)>> /\ dir[1] = <<p, Name("asm_test")>>
      /\ log[1] = <<p, <<"sim", t>>>>
  BY Paths
<1>3. /\ simulator = "vcs" => own = <<<<p, Name("vcs_simv")>>, Append(Generator, Name("vcs_simv"))>>
      /\ simulator = "xlm" => own = <<<<p>>, Generator>>
  <2>1. Generator \o <<Name("vcs_simv")>> = Append(Generator, Name("vcs_simv"))
    BY Paths, TwoAndOne DEF Generator
  <2>. QED
    BY <2>1, Paths DEF SimRelocs, Placeholder
<1>4. /\ DOMAIN relocs = 1..4
      /\ relocs[1] = own /\ relocs[2] = test /\ relocs[3] = dir /\ relocs[4] = log
  <2>. HIDE DEF own, test, dir, log, relocs
  <2>. QED
    BY <1>1
<1>5. /\ test[2] = Append(Scratch, Name("test")) /\ dir[2] = Scratch
      /\ log[2] = Append(Scratch, Name("gen.log"))
  OBVIOUS
<1>6. /\ p # Name("asm_test") /\ Name("asm_test") # Name("vcs_simv")
      /\ <<"sim", t>> # Name("vcs_simv") /\ <<"sim", t>> # Name("asm_test")
  BY DEF Name, Placeholder
<1>. DEFINE Fits(path, k) == \A i \in 1..4 : relocs[i][1] = path <=> i = k
<1>7. ASSUME NEW path, NEW k \in 1..4, Fits(path, k)
      PROVE  RelocPath(simulator, t, path) = relocs[k][2]
  <2>1. RelocPath(simulator, t, path) =
          LET fit == {i \in DOMAIN relocs : relocs[i][1] = path}
          IN  IF fit = {} THEN path ELSE relocs[Min(fit)][2]
    BY DEF RelocPath
  <2>. HIDE DEF relocs, p, own, test, dir, log
  <2>2. {i \in DOMAIN relocs : relocs[i][1] = path} = {k}
    BY <1>4, <1>7
  <2>3. Min({k}) = k
    BY DEF Min
  <2>. QED
    BY <2>1, <2>2, <2>3
<1>8. /\ Append(AsmTest, Name(t)) = test[1] /\ AsmTest = dir[1]
      /\ Append(Placeholder, <<"sim", t>>) = log[1]
  OBVIOUS
<1>. HIDE DEF relocs, p, own, test, dir, log
<1>9. ASSUME Fits(own[1], 1) /\ Fits(test[1], 2) /\ Fits(dir[1], 3) /\ Fits(log[1], 4)
      PROVE  /\ RelocPath(simulator, t, own[1]) = own[2]
             /\ RelocPath(simulator, t, test[1]) = Append(Scratch, Name("test"))
             /\ RelocPath(simulator, t, dir[1]) = Scratch
             /\ RelocPath(simulator, t, log[1]) = Append(Scratch, Name("gen.log"))
  <2>. HIDE DEF Fits
  <2>1. /\ RelocPath(simulator, t, own[1]) = relocs[1][2]
        /\ RelocPath(simulator, t, test[1]) = relocs[2][2]
        /\ RelocPath(simulator, t, dir[1]) = relocs[3][2]
        /\ RelocPath(simulator, t, log[1]) = relocs[4][2]
    BY <1>7, <1>9
  <2>. QED
    BY <1>4, <1>5, <2>1
<1>10. CASE simulator = "vcs"
  <2>1. own[1] = <<p, Name("vcs_simv")>> /\ own[2] = Append(Generator, Name("vcs_simv"))
    BY <1>3, <1>10
  <2>2. Fits(own[1], 1) /\ Fits(test[1], 2) /\ Fits(dir[1], 3) /\ Fits(log[1], 4)
    <3>1. own[1] # test[1] /\ test[1] # dir[1] /\ test[1] # log[1]
      BY <1>2, <2>1, Lengths
    <3>2. own[1] # dir[1] /\ own[1] # log[1] /\ dir[1] # log[1]
      BY <1>2, <1>6, <2>1
    <3>. QED
      BY <1>4, <3>1, <3>2
  <2>3. Append(Placeholder, Name("vcs_simv")) = own[1]
    BY <2>1, Paths DEF p
  <2>. HIDE DEF Fits
  <2>. QED
    BY <1>8, <1>9, <1>10, <2>1, <2>2, <2>3
<1>11. CASE simulator = "xlm"
  <2>1. own[1] = <<p>> /\ own[2] = Generator
    BY <1>3, <1>11
  <2>2. Fits(own[1], 1) /\ Fits(test[1], 2) /\ Fits(dir[1], 3) /\ Fits(log[1], 4)
    <3>1. /\ own[1] # test[1] /\ own[1] # dir[1] /\ own[1] # log[1]
          /\ test[1] # dir[1] /\ test[1] # log[1]
      BY <1>2, <2>1, Lengths
    <3>2. dir[1] # log[1]
      BY <1>2, <1>6
    <3>. QED
      BY <1>4, <3>1, <3>2
  <2>3. Placeholder = own[1]
    BY <2>1 DEF p, Placeholder
  <2>. HIDE DEF Fits
  <2>. QED
    BY <1>8, <1>9, <1>11, <2>1, <2>2, <2>3
<1>. QED
  BY <1>10, <1>11 DEF Simulators

\* One command, put in its place.
LEMMA OneCommand ==
  ASSUME NEW simulator, NEW t, NEW ok, NEW cmd,
         DvCommands(simulator, t) = <<cmd>>,
         NEW new, new = [j \in DOMAIN cmd |-> [cmd[j] EXCEPT !.path = RelocPath(simulator, t, @)]],
         \A j \in DOMAIN cmd : ~InPlaceholder(RelocPath(simulator, t, cmd[j].path))
  PROVE  RunInstrGen(simulator, t, ok) =
           IF CopyRaises(t, Leaves(new, ok), ~ok)
           THEN [ret |-> 1, new |-> {}]
           ELSE [ret |-> 0, new |-> Copied(t, Leaves(new, ok), ~ok)]
<1>. DEFINE orig == DvCommands(simulator, t)
            cmds == RelocCommands(simulator, t, orig)
            left == UNION {Leaves(cmds[i], ok) : i \in DOMAIN cmds}
<1>1. DOMAIN orig = {1} /\ orig[1] = cmd
  OBVIOUS
<1>2. DOMAIN cmds = {1} /\ cmds[1] = new
  BY <1>1 DEF RelocCommands
<1>3. ~RelocRaises(simulator, t, orig)
  <2>1. \A w \in Range(orig[1]) : \E j \in DOMAIN cmd : w = cmd[j]
    BY <1>1 DEF Range
  <2>. QED
    BY <1>1, <2>1 DEF RelocRaises
<1>4. left = Leaves(new, ok)
  <2>. HIDE DEF cmds
  <2>. QED
    BY <1>2
<1>5. RunInstrGen(simulator, t, ok) =
        IF RelocRaises(simulator, t, orig) \/ CopyRaises(t, left, ~ok)
        THEN [ret |-> 1, new |-> {}]
        ELSE [ret |-> 0, new |-> Copied(t, left, ~ok)]
  BY DEF RunInstrGen
<1>. HIDE DEF left, orig
<1>. QED
  BY <1>3, <1>4, <1>5

\* No relocated path has the placeholder in it.
LEMMA NoPlaceholder ==
  ASSUME NEW x \in {Name("test"), Name("gen.log")}
  PROVE  /\ ~InPlaceholder(Scratch) /\ ~InPlaceholder(Append(Scratch, x))
         /\ ~InPlaceholder(Generator) /\ ~InPlaceholder(Append(Generator, Name("vcs_simv")))
<1>1. /\ Placeholder[1] # Name("scratch") /\ Placeholder[1] # Name("test")
      /\ Placeholder[1] # Name("gen.log") /\ Placeholder[1] # Name("build")
      /\ Placeholder[1] # Name("instr_gen") /\ Placeholder[1] # Name("vcs_simv")
  BY DEF Placeholder, Name
<1>2. Append(Scratch, x) = <<Name("scratch"), x>>
  BY OneAndOne DEF Scratch
<1>3. Append(Generator, Name("vcs_simv")) = <<Name("build"), Name("instr_gen"), Name("vcs_simv")>>
  BY TwoAndOne DEF Generator
<1>4. Placeholder[1] \notin Range(<<Name("scratch"), x>>)
  BY <1>1 DEF Range
<1>5. Placeholder[1] \notin Range(<<Name("build"), Name("instr_gen"), Name("vcs_simv")>>)
  BY <1>1 DEF Range
<1>6. Placeholder[1] \notin Range(Scratch)
  BY <1>1 DEF Range, Scratch
<1>7. Placeholder[1] \notin Range(Generator)
  BY <1>1 DEF Range, Generator
<1>. QED
  BY <1>2, <1>3, <1>4, <1>5, <1>6, <1>7 DEF InPlaceholder

\* riscv_csr_test: a script with an output directory.
LEMMA CsrGenerated ==
  ASSUME NEW simulator \in Simulators, NEW ok \in BOOLEAN
  PROVE  /\ RunInstrGen(simulator, CsrTest, ok).ret = 0
         /\ "test.S" \in RunInstrGen(simulator, CsrTest, ok).new <=> ok
<1>. DEFINE t == CsrTest
            cmd == <<Word("--out", AsmTest)>>
            new == [j \in DOMAIN cmd |-> [cmd[j] EXCEPT !.path = RelocPath(simulator, t, @)]]
            file == Append(Scratch, <<CsrTest, "_0.S">>)
            left == Leaves(new, ok)
<1>1. DvCommands(simulator, t) = <<cmd>>
  BY DEF DvCommands
<1>2. DOMAIN new = {1} /\ new[1] = Word("--out", Scratch)
  <2>1. cmd[1].path = AsmTest /\ cmd[1] = [pre |-> "--out", path |-> AsmTest]
    BY DEF Word
  <2>2. RelocPath(simulator, t, cmd[1].path) = Scratch
    BY <2>1, Relocations
  <2>. QED
    BY <2>1, <2>2 DEF Word
<1>3. left = IF ok THEN {file} ELSE {}
  <2>. HIDE DEF new
  <2>1. Range(new) = {Word("--out", Scratch)}
    BY <1>2 DEF Range
  <2>2. {w.path : w \in {x \in Range(new) : x.pre = "-l"}} = {}
    BY <2>1 DEF Word
  <2>3. {Append(Front(w.path), <<Last(w.path)[1], "_0.S">>) :
                 w \in {x \in Range(new) : x.pre = "+asm_file_name="}} = {}
    BY <2>1 DEF Word
  <2>4. {x \in Range(new) : x.pre = "--out"} = {Word("--out", Scratch)}
    BY <2>1 DEF Word
  <2>5. Word("--out", Scratch).path = Scratch
    BY DEF Word
  <2>6. {Append(w.path, <<CsrTest, "_0.S">>) : w \in {x \in Range(new) : x.pre = "--out"}} = {file}
    BY <2>4, <2>5
  <2>. QED
    BY <2>2, <2>3, <2>6 DEF Leaves
<1>4. \A j \in DOMAIN cmd : ~InPlaceholder(RelocPath(simulator, t, cmd[j].path))
  <2>1. DOMAIN cmd = {1} /\ cmd[1].path = AsmTest
    BY DEF Word
  <2>. QED
    BY <2>1, Relocations, NoPlaceholder
<1>5. CopyRules(t) = {[src |-> <<CsrTest, "_0.S">>, dst |-> "test.S", on_fail |-> FALSE]}
  BY DEF CopyRules
<1>. HIDE DEF left, new, cmd, t
<1>6. ~CopyRaises(t, left, ~ok)
  <2>1. \A r \in CopyRules(t) : Append(Scratch, r.src) = file
    BY <1>5
  <2>. HIDE DEF file
  <2>. QED
    BY <1>3, <2>1 DEF CopyRaises
<1>7. "test.S" \in Copied(t, left, ~ok) <=> ok
  BY <1>3, <1>5 DEF Copied
<1>8. RunInstrGen(simulator, t, ok) =
        IF CopyRaises(t, left, ~ok)
        THEN [ret |-> 1, new |-> {}]
        ELSE [ret |-> 0, new |-> Copied(t, left, ~ok)]
  BY <1>1, <1>4, OneCommand DEF left, new
<1>. QED
  BY <1>6, <1>7, <1>8 DEF t

\* The other tests: a simulation with the name of a file, and a log.
LEMMA OtherGenerated ==
  ASSUME NEW simulator \in Simulators, NEW t, t # CsrTest, NEW ok \in BOOLEAN
  PROVE  /\ RunInstrGen(simulator, t, ok).ret = 0
         /\ "test.S" \in RunInstrGen(simulator, t, ok).new <=> ok
<1>. DEFINE own == IF simulator = "vcs" THEN Word("", Append(Placeholder, Name("vcs_simv")))
                   ELSE Word("-xmlibdirpath", Placeholder)
            cmd == <<own, Word("+asm_file_name=", Append(AsmTest, Name(t))),
                     Word("-l", Append(Placeholder, <<"sim", t>>))>>
            new == [j \in DOMAIN cmd |-> [cmd[j] EXCEPT !.path = RelocPath(simulator, t, @)]]
            test == Append(Scratch, Name("test"))
            log == Append(Scratch, Name("gen.log"))
            file == Append(Scratch, <<"test", "_0.S">>)
            left == Leaves(new, ok)
<1>1. DvCommands(simulator, t) = <<cmd>>
  BY DEF DvCommands
<1>2. /\ own = [pre |-> own.pre, path |-> own.path]
      /\ own.pre \in {"", "-xmlibdirpath"} /\ ~InPlaceholder(RelocPath(simulator, t, own.path))
  <2>1. CASE simulator = "vcs"
    <3>1. own = Word("", Append(Placeholder, Name("vcs_simv")))
      BY <2>1
    <3>. HIDE DEF own
    <3>2. own.pre = "" /\ own.path = Append(Placeholder, Name("vcs_simv"))
      BY <3>1 DEF Word
    <3>3. ~InPlaceholder(RelocPath(simulator, t, own.path))
      BY <2>1, <3>2, Relocations, NoPlaceholder
    <3>. QED
      BY <3>1, <3>2, <3>3 DEF Word
  <2>2. CASE simulator = "xlm"
    <3>1. own = Word("-xmlibdirpath", Placeholder)
      BY <2>2
    <3>. HIDE DEF own
    <3>2. own.pre = "-xmlibdirpath" /\ own.path = Placeholder
      BY <3>1 DEF Word
    <3>3. ~InPlaceholder(RelocPath(simulator, t, own.path))
      BY <2>2, <3>2, Relocations, NoPlaceholder
    <3>. QED
      BY <3>1, <3>2, <3>3 DEF Word
  <2>. HIDE DEF own
  <2>. QED
    BY <2>1, <2>2 DEF Simulators
<1>3. DOMAIN cmd = 1..3 /\ cmd[1] = own
  OBVIOUS
<1>4. /\ cmd[2] = [pre |-> "+asm_file_name=", path |-> Append(AsmTest, Name(t))]
      /\ cmd[3] = [pre |-> "-l", path |-> Append(Placeholder, <<"sim", t>>)]
  BY DEF Word
<1>. HIDE DEF cmd, own
<1>5. /\ RelocPath(simulator, t, cmd[2].path) = test /\ RelocPath(simulator, t, cmd[3].path) = log
  BY <1>4, Relocations
<1>. HIDE DEF test, log
<1>6. /\ DOMAIN new = 1..3
      /\ new[1] = [pre |-> own.pre, path |-> RelocPath(simulator, t, own.path)]
      /\ new[2] = [pre |-> "+asm_file_name=", path |-> test]
      /\ new[3] = [pre |-> "-l", path |-> log]
  <2>1. new[1] = [own EXCEPT !.path = RelocPath(simulator, t, own.path)]
    BY <1>3
  <2>2. new[2] = [cmd[2] EXCEPT !.path = test] /\ new[3] = [cmd[3] EXCEPT !.path = log]
    BY <1>3, <1>5
  <2>. HIDE DEF new
  <2>3. new[1] = [pre |-> own.pre, path |-> RelocPath(simulator, t, own.path)]
    BY ONLY <1>2, <2>1
  <2>4. new[2] = [pre |-> "+asm_file_name=", path |-> test] /\ new[3] = [pre |-> "-l", path |-> log]
    BY <1>4, <2>2
  <2>. QED
    BY <1>3, <2>3, <2>4 DEF new
<1>7. left = {log} \cup IF ok THEN {file} ELSE {}
  <2>. HIDE DEF new, file
  <2>1. Range(new) = {new[1], new[2], new[3]}
    BY <1>6 DEF Range
  <2>2. new[1].pre \in {"", "-xmlibdirpath"} /\ new[2].pre = "+asm_file_name=" /\ new[3].pre = "-l"
    <3>1. new[1].pre = own.pre
      BY ONLY <1>6
    <3>2. new[2].pre = "+asm_file_name="
      BY ONLY <1>6
    <3>3. new[3].pre = "-l"
      BY ONLY <1>6
    <3>. QED
      BY ONLY <1>2, <3>1, <3>2, <3>3
  <2>3. /\ {x \in Range(new) : x.pre = "-l"} = {new[3]}
        /\ {x \in Range(new) : x.pre = "+asm_file_name="} = {new[2]}
        /\ {x \in Range(new) : x.pre = "--out"} = {}
    BY <2>1, <2>2
  <2>4. new[3].path = log /\ new[2].path = test
    BY <1>6
  <2>5. Append(Front(test), <<Last(test)[1], "_0.S">>) = file
    <3>1. test = <<Scratch[1], Name("test")>> /\ Scratch = <<Scratch[1]>>
      BY OneAndOne DEF test, Scratch
    <3>2. Front(test) = Scratch /\ Last(test) = Name("test")
      BY <3>1, FrontAndLast
    <3>3. Name("test")[1] = "test"
      BY DEF Name
    <3>. QED
      BY <3>2, <3>3 DEF file
  <2>6. /\ {w.path : w \in {x \in Range(new) : x.pre = "-l"}} = {log}
        /\ {Append(Front(w.path), <<Last(w.path)[1], "_0.S">>) :
              w \in {x \in Range(new) : x.pre = "+asm_file_name="}} = {file}
        /\ {Append(w.path, <<CsrTest, "_0.S">>) : w \in {x \in Range(new) : x.pre = "--out"}} = {}
    <3>1. {w.path : w \in {x \in Range(new) : x.pre = "-l"}} = {log}
      BY ONLY <2>3, <2>4
    <3>2. {Append(Front(w.path), <<Last(w.path)[1], "_0.S">>) :
             w \in {x \in Range(new) : x.pre = "+asm_file_name="}} = {file}
      BY ONLY <2>3, <2>4, <2>5
    <3>3. {Append(w.path, <<CsrTest, "_0.S">>) : w \in {x \in Range(new) : x.pre = "--out"}} = {}
      BY ONLY <2>3
    <3>. QED
      BY ONLY <3>1, <3>2, <3>3
  <2>7. left = {log} \cup IF ~ok THEN {} ELSE {file} \cup {}
    BY ONLY <2>6 DEF Leaves, left
  <2>. HIDE DEF left
  <2>. QED
    BY ONLY <2>7
<1>8. \A j \in DOMAIN cmd : ~InPlaceholder(RelocPath(simulator, t, cmd[j].path))
  <2>1. ~InPlaceholder(test) /\ ~InPlaceholder(log)
    BY NoPlaceholder DEF test, log
  <2>. HIDE DEF new, file, left
  <2>2. ~InPlaceholder(RelocPath(simulator, t, cmd[1].path))
    BY <1>2, <1>3
  <2>3. /\ ~InPlaceholder(RelocPath(simulator, t, cmd[2].path))
        /\ ~InPlaceholder(RelocPath(simulator, t, cmd[3].path))
    BY <1>5, <2>1
  <2>. QED
    BY <1>3, <2>2, <2>3
<1>9. CopyRules(t) = {[src |-> Name("gen.log"), dst |-> "gen.log", on_fail |-> TRUE],
                      [src |-> <<"test", "_0.S">>, dst |-> "test.S", on_fail |-> FALSE]}
  BY DEF CopyRules
<1>10. file # log
  <2>1. file = <<Scratch[1], <<"test", "_0.S">>>> /\ log = <<Scratch[1], Name("gen.log")>>
    BY Paths DEF log
  <2>2. <<"test", "_0.S">> # Name("gen.log")
    BY DEF Name
  <2>. HIDE DEF file
  <2>. QED
    BY <2>1, <2>2
<1>. HIDE DEF left, new
<1>11. ~CopyRaises(t, left, ~ok)
  <2>1. \A r \in CopyRules(t) : Append(Scratch, r.src) \in {file, log}
    BY <1>9 DEF log
  <2>. HIDE DEF file
  <2>. QED
    BY <1>7, <2>1 DEF CopyRaises
<1>12. "test.S" \in Copied(t, left, ~ok) <=> ok
  <2>1. \A r \in CopyRules(t) : r.dst = "test.S" <=> ~r.on_fail
    BY <1>9
  <2>2. \A r \in CopyRules(t) : r.dst = "test.S" => Append(Scratch, r.src) = file
    BY <1>9
  <2>3. \E r \in CopyRules(t) : r.dst = "test.S"
    BY <1>9
  <2>. HIDE DEF file
  <2>. QED
    BY <1>7, <2>1, <2>2, <2>3 DEF Copied
<1>13. RunInstrGen(simulator, t, ok) =
        IF CopyRaises(t, left, ~ok)
        THEN [ret |-> 1, new |-> {}]
        ELSE [ret |-> 0, new |-> Copied(t, left, ~ok)]
  BY <1>1, <1>8, OneCommand DEF left, new
<1>. QED
  BY <1>11, <1>12, <1>13

\* The first command that cannot be run.
LEMMA FirstStuck ==
  ASSUME NEW S \in SUBSET Nat, S # {}
  PROVE  Min(S) \in S
<1>1. PICK m \in S : \A k \in S : <<k, m>> \notin OpToRel(<, Nat)
  BY NatLessThanWellFounded, WFMin
<1>2. \A k \in S : m <= k
  <2>. SUFFICES ASSUME NEW k \in S, k < m PROVE FALSE
    OBVIOUS
  <2>1. <<k, m>> \in OpToRel(<, Nat)
    BY DEF OpToRel
  <2>. QED
    BY <1>1, <2>1
<1>3. \E x \in S : \A y \in S : x <= y
  BY <1>2
<1>. QED
  BY <1>3 DEF Min

\* If the last command makes a file that is wanted and that no other one makes,
\* and nothing is wanted that none makes, then all that is wanted is made
\* exactly if no command fails.
LEMMA LastMakes ==
  ASSUME NEW cmds, NEW n \in Nat \ {0}, DOMAIN cmds = 1..n, Len(cmds) = n,
         NEW present, NEW failing, NEW wanted, NEW file \in wanted,
         \A i \in 1..n - 1 : file \notin cmds[i].writes,
         wanted \subseteq UNION {cmds[i].writes : i \in 1..n}
  PROVE  RunCompile(cmds, present, failing).ret = 0
           <=> wanted \subseteq RunCompile(cmds, present, failing).made
<1>. DEFINE Stuck == {i \in DOMAIN cmds :
                        \/ i = failing
                        \/ ~(cmds[i].reads \subseteq
                               present \cup UNION {cmds[j].writes : j \in 1..i - 1})}
            ran == IF Stuck = {} THEN Len(cmds) ELSE Min(Stuck) - 1
            made == UNION {cmds[i].writes : i \in 1..ran}
<1>1. /\ RunCompile(cmds, present, failing).ret = IF Stuck = {} THEN 0 ELSE 1
      /\ RunCompile(cmds, present, failing).made = made
  BY DEF RunCompile
<1>2. Stuck \in SUBSET (1..n)
  OBVIOUS
<1>. HIDE DEF Stuck
<1>3. CASE Stuck = {}
  BY <1>1, <1>3
<1>4. CASE Stuck # {}
  <2>0. Stuck \in SUBSET Nat
    BY <1>2
  <2>1. PICK m \in 1..n : m = Min(Stuck)
    BY <1>2, <1>4, <2>0, FirstStuck
  <2>2. \A i \in 1..ran : i \in 1..n - 1
    <3>1. ran = m - 1
      BY <1>4, <2>1
    <3>. HIDE DEF ran
    <3>. QED
      BY <3>1
  <2>3. file \notin made
    BY <2>2
  <2>. QED
    BY <1>1, <1>4, <2>3
<1>. QED
  BY <1>3, <1>4

\* The files of a test are told apart by their names.
LEMMA OwnFiles ==
  ASSUME NEW t, NEW x, NEW y, x # y
  PROVE  File(t, x) # File(t, y)
<1>. DEFINE S == {Name("run"), Name("tests"), Name(t), Name(x), Name(y)}
<1>1. /\ DirTest(t) \in Seq(S) /\ Len(DirTest(t)) = 3
      /\ Name(x) \in S /\ Name(y) \in S
  BY DEF DirTest
<1>. HIDE DEF S
<1>2. ASSUME NEW u, u \in Seq(S), Len(u) = 3, NEW a \in S
      PROVE  Append(u, a)[4] = a
  <2>1. PICK f : f = Append(u, a)
    OBVIOUS
  <2>2. f[Len(u) + 1] = a
    BY <1>2, <2>1, AppendProperties
  <2>3. f[4] = a
    BY <1>2, <2>2
  <2>. QED
    BY <2>1, <2>3
<1>3. Name(x) # Name(y)
  BY DEF Name
<1>4. Append(DirTest(t), Name(x))[4] = Name(x) /\ Append(DirTest(t), Name(y))[4] = Name(y)
  BY <1>1, <1>2
<1>. QED
  BY <1>3, <1>4 DEF File

\* The files that riscv-dv's own commands write, put in their place.
LEMMA Rewrites ==
  ASSUME NEW t
  PROVE  /\ Rewrite(t, DvFile(t, "_0.o")) = File(t, "test.o")
         /\ Rewrite(t, DvFile(t, "_0.bin")) = File(t, "test.bin")
<1>1. PICK p, a : AsmTest = <<p, a>>
  BY OneAndOne DEF AsmTest, Placeholder
<1>2. \A x : DvFile(t, x) = <<p, a, <<t, x>>>>
  BY <1>1, TwoAndOne DEF DvFile
<1>3. /\ DvFile(t, "_0.o") # DvFile(t, "_0.S") /\ DvFile(t, "_0.bin") # DvFile(t, "_0.S")
      /\ DvFile(t, "_0.bin") # DvFile(t, "_0.o")
  BY <1>2
<1>. QED
  BY <1>3 DEF Rewrite

\* The compiler, then objcopy: for a directed test and for one of riscv-dv.
LEMMA TwoCommands ==
  ASSUME NEW t, NEW ddm, NEW testtype, testtype = "RISCVDV" => ~ddm,
         NEW cmds, cmds = CompileCmds(t, testtype, ddm)
  PROVE  /\ DOMAIN cmds = 1..2 /\ Len(cmds) = 2
         /\ cmds[1].writes = {File(t, "test.o")} /\ cmds[2].writes = {File(t, "test.bin")}
<1>1. CASE testtype # "RISCVDV"
  <2>1. cmds = <<Cmd({DirectedSource(t)}, {File(t, "test.o")}, "config"),
                 Cmd({File(t, "test.o")}, {File(t, "test.bin")}, "none")>>
    BY <1>1 DEF CompileCmds, DirectedCompile
  <2>. QED
    BY <2>1 DEF Cmd
<1>2. CASE testtype = "RISCVDV"
  <2>1. cmds = [i \in DOMAIN DvCompile(t) |-> Rewritten(t, DvCompile(t)[i])]
    BY <1>2 DEF CompileCmds, RiscvdvCompile
  <2>2. /\ DOMAIN DvCompile(t) = 1..2
        /\ DvCompile(t)[1] = Cmd({DvFile(t, "_0.S")}, {DvFile(t, "_0.o")}, "riscv-dv")
        /\ DvCompile(t)[2] = Cmd({DvFile(t, "_0.o")}, {DvFile(t, "_0.bin")}, "none")
    BY DEF DvCompile
  <2>3. \A r, w, l : Rewritten(t, Cmd(r, {w}, l)).writes = {Rewrite(t, w)}
    BY DEF Rewritten, Cmd
  <2>4. cmds[1].writes = {File(t, "test.o")} /\ cmds[2].writes = {File(t, "test.bin")}
    <3>1. /\ cmds[1] = Rewritten(t, Cmd({DvFile(t, "_0.S")}, {DvFile(t, "_0.o")}, "riscv-dv"))
          /\ cmds[2] = Rewritten(t, Cmd({DvFile(t, "_0.o")}, {DvFile(t, "_0.bin")}, "none"))
      BY <2>1, <2>2
    <3>2. /\ cmds[1].writes = {Rewrite(t, DvFile(t, "_0.o"))}
          /\ cmds[2].writes = {Rewrite(t, DvFile(t, "_0.bin"))}
      BY <2>3, <3>1
    <3>. QED
      BY <3>2, Rewrites
  <2>5. cmds \in Seq({cmds[1], cmds[2]}) /\ DOMAIN cmds = 1..2 /\ Len(cmds) = 2
    BY <2>1, <2>2
  <2>. QED
    BY <2>4, <2>5
<1>. QED
  BY <1>1, <1>2

\* Two sequences, one behind the other.
LEMMA Joined ==
  ASSUME NEW S, NEW m \in Nat, NEW n \in Nat, NEW f \in [1..m -> S], NEW g \in [1..n -> S]
  PROVE  /\ Len(f \o g) = m + n /\ DOMAIN (f \o g) = 1..m + n
         /\ \A i \in 1..m : (f \o g)[i] = f[i]
         /\ \A i \in 1..n : (f \o g)[i + m] = g[i]
<1>. DEFINE h == f \o g
<1>1. f \in Seq(S) /\ Len(f) = m /\ g \in Seq(S) /\ Len(g) = n
  OBVIOUS
<1>2. /\ h \in Seq(S) /\ Len(h) = m + n
      /\ \A i \in 1..m + n : h[i] = IF i <= m THEN f[i] ELSE g[i - m]
  BY <1>1, ConcatProperties
<1>. HIDE DEF h
<1>3. ASSUME NEW i \in 1..n PROVE h[i + m] = g[i]
  <2>1. i + m \in 1..m + n /\ ~(i + m <= m) /\ (i + m) - m = i
    OBVIOUS
  <2>. QED
    BY <1>2, <2>1
<1>. QED
  BY <1>2, <1>3 DEF h

\* The discrete debug module: the compiler, then a command for each region.
LEMMA FiveCommands ==
  ASSUME NEW t, NEW cmds, cmds = CompileCmds(t, "RISCVDV", TRUE)
  PROVE  /\ DOMAIN cmds = 1..5 /\ Len(cmds) = 5
         /\ cmds[1].writes = {File(t, "test.o")}
         /\ \A i \in DOMAIN Regions : cmds[i + 1].writes = {File(t, Regions[i])}
<1>. DEFINE own == CompileCmds(t, "RISCVDV", FALSE)
            gcc == [i \in DOMAIN Front(own) |->
                      IF own[i].ld = "none" THEN own[i] ELSE [own[i] EXCEPT !.ld = "ddm_link"]]
            regions == [i \in DOMAIN Regions |-> Cmd({File(t, "test.o")}, {File(t, Regions[i])}, "none")]
<1>1. cmds = gcc \o regions
  BY DEF CompileCmds, RiscvdvCompile, DebugModule
<1>2. DOMAIN own = 1..2 /\ Len(own) = 2 /\ own[1].writes = {File(t, "test.o")}
  <2>1. own = CompileCmds(t, "RISCVDV", FALSE)
    OBVIOUS
  <2>. HIDE DEF own
  <2>2. "RISCVDV" = "RISCVDV" => ~FALSE
    OBVIOUS
  <2>. QED
    BY ONLY <2>1, <2>2, TwoCommands
<1>. HIDE DEF own
<1>3. DOMAIN Front(own) = 1..1
  <2>1. Front(own) = SubSeq(own, 1, 1)
    BY <1>2 DEF Front
  <2>2. SubSeq(own, 1, 1) \in Seq({own[1]}) /\ Len(SubSeq(own, 1, 1)) = 1
    BY <1>2, SubSeqProperties
  <2>. QED
    BY <2>1, <2>2
<1>4. gcc[1].writes = {File(t, "test.o")} /\ DOMAIN gcc = 1..1
  <2>1. gcc[1] = own[1] \/ gcc[1] = [own[1] EXCEPT !.ld = "ddm_link"]
    BY <1>3
  <2>2. [own[1] EXCEPT !.ld = "ddm_link"].writes = own[1].writes
    OBVIOUS
  <2>. QED
    BY <1>2, <1>3, <2>1, <2>2
<1>5. DOMAIN Regions = 1..4
  BY DEF Regions
<1>6. DOMAIN regions = 1..4 /\ \A i \in 1..4 : regions[i].writes = {File(t, Regions[i])}
  BY <1>5 DEF Cmd
<1>. DEFINE S == {gcc[1]} \cup {regions[i] : i \in 1..4}
<1>7. gcc \in [1..1 -> S]
  <2>1. \A i \in 1..1 : gcc[i] \in S
    OBVIOUS
  <2>2. gcc = [i \in 1..1 |-> gcc[i]]
    BY <1>3
  <2>. HIDE DEF gcc, S
  <2>. QED
    BY <2>1, <2>2
<1>8. regions \in [1..4 -> S]
  <2>1. \A i \in 1..4 : regions[i] \in S
    OBVIOUS
  <2>2. regions = [i \in 1..4 |-> regions[i]]
    BY <1>5
  <2>. HIDE DEF regions, S
  <2>. QED
    BY <2>1, <2>2
<1>. HIDE DEF gcc, regions, S
<1>9. PICK m \in Nat, n \in Nat : m = 1 /\ n = 4
  OBVIOUS
<1>10. /\ Len(cmds) = m + n /\ DOMAIN cmds = 1..m + n
       /\ \A i \in 1..m : cmds[i] = gcc[i]
       /\ \A i \in 1..n : cmds[i + m] = regions[i]
  <2>1. gcc \in [1..m -> S] /\ regions \in [1..n -> S]
    BY <1>7, <1>8, <1>9
  <2>2. /\ Len(gcc \o regions) = m + n /\ DOMAIN (gcc \o regions) = 1..m + n
        /\ \A i \in 1..m : (gcc \o regions)[i] = gcc[i]
        /\ \A i \in 1..n : (gcc \o regions)[i + m] = regions[i]
    BY <2>1, Joined
  <2>. QED
    BY <1>1, <2>2
<1>11. /\ Len(cmds) = 5 /\ DOMAIN cmds = 1..5
       /\ cmds[1] = gcc[1] /\ \A i \in 1..4 : cmds[i + 1] = regions[i]
  <2>1. m + n = 5
    BY <1>9
  <2>2. cmds[1] = gcc[1]
    <3>1. 1 \in 1..m
      BY <1>9
    <3>2. \A i \in 1..m : cmds[i] = gcc[i]
      BY ONLY <1>10
    <3>. QED
      BY ONLY <3>1, <3>2
  <2>3. \A i \in 1..4 : cmds[i + 1] = regions[i]
    BY <1>9, <1>10
  <2>. QED
    BY <1>10, <2>1, <2>2, <2>3
<1>12. \A i \in 1..4 : cmds[i + 1].writes = {File(t, Regions[i])}
  BY <1>6, <1>11
<1>. QED
  BY <1>4, <1>5, <1>11, <1>12

\* compile_test, for a test of either kind and with and without the module.
LEMMA CompileArrives ==
  ASSUME NEW t, NEW testtype, NEW ddm \in BOOLEAN, NEW present, NEW failing,
         NEW cmds, cmds = CompileCmds(t, testtype, ddm)
  PROVE  RunCompile(cmds, present, failing).ret = 0
           <=> Loaded(t, testtype, ddm) \subseteq RunCompile(cmds, present, failing).made
<1>1. CASE testtype = "RISCVDV" /\ ddm
  <2>1. cmds = CompileCmds(t, "RISCVDV", TRUE)
    BY <1>1
  <2>2. /\ DOMAIN cmds = 1..5 /\ Len(cmds) = 5
        /\ cmds[1].writes = {File(t, "test.o")}
        /\ \A i \in DOMAIN Regions : cmds[i + 1].writes = {File(t, Regions[i])}
    BY <2>1, FiveCommands
  <2>3. /\ DOMAIN Regions = 1..4
        /\ Regions[1] = "test.dm.vmem" /\ Regions[2] = "test.main.vmem"
        /\ Regions[3] = "test.dm.bin" /\ Regions[4] = "test.main.bin"
    BY DEF Regions
  <2>4. /\ cmds[2].writes = {File(t, Regions[1])} /\ cmds[3].writes = {File(t, Regions[2])}
        /\ cmds[4].writes = {File(t, Regions[3])} /\ cmds[5].writes = {File(t, Regions[4])}
    BY <2>2, <2>3
  <2>5. Loaded(t, testtype, ddm) =
          {File(t, Regions[1]), File(t, Regions[2]), File(t, Regions[3]), File(t, Regions[4])}
    BY <1>1, <2>3 DEF Loaded
  <2>. DEFINE file == File(t, Regions[4])
  <2>6. /\ file # File(t, "test.o") /\ file # File(t, Regions[1])
        /\ file # File(t, Regions[2]) /\ file # File(t, Regions[3])
    BY <2>3, OwnFiles
  <2>. HIDE DEF file
  <2>7. \A i \in 1..5 - 1 : file \notin cmds[i].writes
    BY <2>2, <2>4, <2>6
  <2>8. file \in Loaded(t, testtype, ddm)
    BY <2>5 DEF file
  <2>9. Loaded(t, testtype, ddm) \subseteq UNION {cmds[i].writes : i \in 1..5}
    BY <2>4, <2>5
  <2>10. PICK n \in Nat \ {0} : n = 5
    OBVIOUS
  <2>11. /\ DOMAIN cmds = 1..n /\ Len(cmds) = n /\ \A i \in 1..n - 1 : file \notin cmds[i].writes
         /\ Loaded(t, testtype, ddm) \subseteq UNION {cmds[i].writes : i \in 1..n}
    BY <2>2, <2>7, <2>9, <2>10
  <2>. QED
    BY <2>8, <2>11, LastMakes
<1>2. CASE ~(testtype = "RISCVDV" /\ ddm)
  <2>1. /\ DOMAIN cmds = 1..2 /\ Len(cmds) = 2
        /\ cmds[1].writes = {File(t, "test.o")} /\ cmds[2].writes = {File(t, "test.bin")}
    BY <1>2, TwoCommands
  <2>2. Loaded(t, testtype, ddm) = {File(t, "test.bin")}
    BY <1>2 DEF Loaded
  <2>. DEFINE file == File(t, "test.bin")
  <2>3. file # File(t, "test.o")
    BY OwnFiles
  <2>. HIDE DEF file
  <2>4. \A i \in 1..2 - 1 : file \notin cmds[i].writes
    BY <2>1, <2>3
  <2>5. file \in Loaded(t, testtype, ddm)
    BY <2>2 DEF file
  <2>6. Loaded(t, testtype, ddm) \subseteq UNION {cmds[i].writes : i \in 1..2}
    BY <2>1, <2>2
  <2>7. PICK n \in Nat \ {0} : n = 2
    OBVIOUS
  <2>8. /\ DOMAIN cmds = 1..n /\ Len(cmds) = n /\ \A i \in 1..n - 1 : file \notin cmds[i].writes
        /\ Loaded(t, testtype, ddm) \subseteq UNION {cmds[i].writes : i \in 1..n}
    BY <2>1, <2>4, <2>6, <2>7
  <2>. QED
    BY <2>5, <2>8, LastMakes
<1>. QED
  BY <1>1, <1>2

\* What the two tools that build a test leave behind.
Built ==
  /\ call.tool = "run_instr_gen" =>
       /\ call.simulator \in Simulators /\ call.ok \in BOOLEAN
       /\ answer = RunInstrGen(call.simulator, call.test, call.ok)
  /\ call.tool = "compile_test" =>
       /\ call.ddm \in BOOLEAN
       /\ \E present :
            answer = RunCompile(CompileCmds(call.test, call.testtype, call.ddm), present, call.failing)

\* Each action calls the tool of its name: those that build a test.
LEMMA BuildTools ==
  ASSUME Next
  PROVE  \/ Generate \/ Compile
         \/ call.tool' \notin {"run_instr_gen", "compile_test"}
<1>1. CASE CheckTools
  BY <1>1 DEF CheckTools
<1>2. CASE CollectReports
  BY <1>2 DEF CollectReports
<1>3. CASE CreateMetadata \/ ListTests
  BY <1>3 DEF CreateMetadata, ListTests
<1>4. CASE Simulate
  BY <1>4 DEF Simulate
<1>. QED
  BY <1>1, <1>2, <1>3, <1>4 DEF Next

(***************************************************************************)
(* BinaryCorrect: for any names of tests, the generator leaves an assembly *)
(* file exactly if it works, and compile_test says 0 exactly if it made    *)
(* all that the simulation will load (BinaryArrives).                      *)
(***************************************************************************)
THEOREM BinaryCorrect == FlowSpec => []BinaryArrives
<1>1. Init => Built
  BY DEF Init, Idle, Built
<1>2. Built /\ [Next]_flow => Built'
  <2>1. ASSUME Generate PROVE Built'
    BY <2>1 DEF Generate, Built
  <2>2. ASSUME Compile PROVE Built'
    <3>. DEFINE Compiles(test, ok, testtype, ddm, failing, present) ==
                  /\ call' = [tool |-> "compile_test", test |-> test, ok |-> ok, testtype |-> testtype,
                              ddm |-> ddm, failing |-> failing]
                  /\ answer' = RunCompile(CompileCmds(test, testtype, ddm), present, failing)
    <3>1. PICK ddm \in BOOLEAN, failing \in 0..6 :
            \/ Compiles(call.test, call.ok, "RISCVDV", ddm, failing, {File(call.test, f) : f \in answer.new})
            \/ \E t \in Handwritten : Compiles(t, TRUE, "DIRECTED", ddm, failing, {DirectedSource(t)})
      BY <2>2, Zenon DEF Compile
    <3>2. ASSUME NEW test, NEW ok, NEW testtype, NEW present,
                 Compiles(test, ok, testtype, ddm, failing, present)
          PROVE  Built'
      <4>1. /\ call'.tool = "compile_test" /\ call'.test = test /\ call'.testtype = testtype
            /\ call'.ddm = ddm /\ call'.failing = failing
            /\ answer' = RunCompile(CompileCmds(test, testtype, ddm), present, failing)
        BY <3>2
      <4>. QED
        BY <4>1 DEF Built
    <3>. HIDE DEF Compiles
    <3>. QED
      BY <3>1, <3>2, Zenon
  <2>3. ASSUME Built, UNCHANGED flow PROVE Built'
    BY <2>3 DEF flow, Built
  <2>. QED
    BY <2>1, <2>2, <2>3, BuildTools DEF Built
<1>3. Built => BinaryArrives
  <2>1. ASSUME Built, call.tool = "run_instr_gen"
        PROVE  answer.ret = 0 /\ ("test.S" \in answer.new <=> call.ok)
    BY <2>1, CsrGenerated, OtherGenerated DEF Built
  <2>2. ASSUME Built, call.tool = "compile_test"
        PROVE  answer.ret = 0 <=> Loaded(call.test, call.testtype, call.ddm) \subseteq answer.made
    BY <2>2, CompileArrives DEF Built
  <2>. QED
    BY <2>1, <2>2 DEF BinaryArrives
<1>. QED
  BY <1>1, <1>2, <1>3, PTL DEF FlowSpec
=============================================================================
