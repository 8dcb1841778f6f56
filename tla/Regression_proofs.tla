-------------------------- MODULE Regression_proofs --------------------------
(***************************************************************************)
(* For any tests, any logs that a simulation may leave, any number of      *)
(* jobs, makes, edits and interruptions: the regression uses the metadata  *)
(* as MetadataStore says, so that its theorems hold of it, and the results *)
(* that make reports are those of the simulations.                         *)
(***************************************************************************)
EXTENDS RegressionInv, TLAPS, FiniteSetTheorems, WellFoundedInduction

-----------------------------------------------------------------------------
(* The lock of metadata.pickle, for any set of scripts: StoreTypeOK and    *)
(* OneWriter are invariants, and the file implements MetadataRegister.     *)
(* OneWriter alone is not inductive: that the file on disk is whole while  *)
(* the holder has not begun to write, and torn while it has, is needed to  *)
(* see that a step of another script leaves it alone.                      *)

\* What the holder of the lock finds on disk.
HolderFile ==
  /\ lock # Nobody => at[lock] = "in" \/ (at[lock] = "dump" /\ file = Torn)
  /\ lock # Nobody => file # New /\ file # Absent

\* The inductive invariant of the store.
StoreInv == StoreTypeOK /\ OneWriter /\ HolderFile

\* The four states of the file are told apart by their state field.
LEMMA FileStates ==
  /\ Absent # New /\ Absent # Torn /\ New # Torn
  /\ \A fs : Whole(fs) # Absent /\ Whole(fs) # New /\ Whole(fs) # Torn
BY DEF Absent, New, Torn, Whole

\* The store starts without a file and with its lock free.
LEMMA StoreInitInv == StoreInit => StoreInv
BY StoreAssumption DEF StoreInit, StoreInv, StoreTypeOK, OneWriter, HolderFile, Absent

\* Each step of the store keeps the types.
LEMMA StoreNextType == StoreTypeOK /\ [StoreNext]_storeVars => StoreTypeOK'
<1> SUFFICES ASSUME StoreTypeOK, [StoreNext]_storeVars PROVE StoreTypeOK'
  OBVIOUS
<1> USE DEF StoreTypeOK, Absent, New, Torn, Whole, Readable
<1>1. CASE Create \/ Created \/ CreateKilled
  BY <1>1 DEF Create, Created, CreateKilled
<1>2. ASSUME NEW s \in Scripts,
             Enter(s) \/ Lock(s) \/ LockFails(s) \/ Truncate(s) \/ Unlock(s)
      PROVE  StoreTypeOK'
  BY <1>2 DEF Enter, Lock, LockFails, Truncate, Unlock
<1>3. ASSUME NEW ss \in SUBSET Scripts, Killed(ss)
      PROVE  StoreTypeOK'
  BY <1>3 DEF Killed
<1>4. CASE UNCHANGED storeVars
  BY <1>4 DEF storeVars
<1>5. QED BY <1>1, <1>2, <1>3, <1>4 DEF StoreNext

\* Each step keeps the inductive invariant: only the holder of the lock writes.
LEMMA StoreNextInv == StoreInv /\ [StoreNext]_storeVars => StoreInv'
<1> SUFFICES ASSUME StoreInv, [StoreNext]_storeVars PROVE StoreInv'
  OBVIOUS
<1>0. StoreTypeOK'
  BY StoreNextType DEF StoreInv
<1> USE StoreAssumption, FileStates, <1>0 DEF StoreInv, StoreTypeOK, OneWriter, HolderFile
<1>1. CASE Create \/ Created \/ CreateKilled
  BY <1>1 DEF Create, Created, CreateKilled
<1>2. ASSUME NEW s \in Scripts, Enter(s) PROVE StoreInv'
  BY <1>2 DEF Enter
<1>3. ASSUME NEW s \in Scripts, Lock(s) PROVE StoreInv'
  <2>1. file = Whole(file.fields)
    BY <1>3 DEF Lock, Readable, Whole
  <2>2. QED BY <1>3, <2>1 DEF Lock
<1>4. ASSUME NEW s \in Scripts, LockFails(s) PROVE StoreInv'
  BY <1>4 DEF LockFails
<1>5. ASSUME NEW s \in Scripts, Truncate(s) PROVE StoreInv'
  BY <1>5 DEF Truncate
<1>6. ASSUME NEW s \in Scripts, Unlock(s) PROVE StoreInv'
  BY <1>6 DEF Unlock
<1>7. ASSUME NEW ss \in SUBSET Scripts, Killed(ss) PROVE StoreInv'
  BY <1>7 DEF Killed
<1>8. CASE UNCHANGED storeVars
  BY <1>8 DEF storeVars
<1>9. QED BY <1>1, <1>2, <1>3, <1>4, <1>5, <1>6, <1>7, <1>8 DEF StoreNext

\* Type correctness and the inductive invariant of the locked file.
LEMMA StoreInvariant == StoreSpec => []StoreInv
<1>1. QED BY StoreInitInv, StoreNextInv, PTL DEF StoreSpec

\* The file, the lock, the copies and the positions keep their types.
THEOREM StoreTypeCorrect == StoreSpec => []StoreTypeOK
<1>1. StoreInv => StoreTypeOK BY DEF StoreInv
<1>2. QED BY <1>1, StoreInvariant, PTL

\* OneWriter: one script at a time is inside LockedMetadata, and nothing was
\* committed behind its back since it unpickled the file.
THEOREM StoreOneWriter == StoreSpec => []OneWriter
<1>1. StoreInv => OneWriter BY DEF StoreInv
<1>2. QED BY <1>1, StoreInvariant, PTL

\* At first the register knows no addition and has lost none.
LEMMA StoreRefinesInit == StoreInit => Register!Init
BY StoreAssumption, FileStates DEF StoreInit, Register!Init, Known, Lost, Absent

\* Each step of the scripts is a step of the register or leaves it alone.
LEMMA StoreRefinesStep ==
  StoreInv /\ StoreInv' /\ [StoreNext]_storeVars => [Register!Next]_<<Known, Lost>>
<1> SUFFICES ASSUME StoreInv, StoreInv', [StoreNext]_storeVars
             PROVE  [Register!Next]_<<Known, Lost>>
  OBVIOUS
<1> USE StoreAssumption, FileStates
    DEF StoreInv, StoreTypeOK, OneWriter, HolderFile, Known, Lost
<1>1. CASE Create
  BY <1>1 DEF Create, Absent, New
<1>2. CASE Created
  BY <1>2 DEF Created, New, Whole
<1>3. CASE CreateKilled
  BY <1>3 DEF CreateKilled, New, Torn, Register!Next, Register!Lose
<1>4. ASSUME NEW s \in Scripts, Enter(s) \/ LockFails(s)
      PROVE  UNCHANGED <<Known, Lost>>
  BY <1>4 DEF Enter, LockFails
<1>5. ASSUME NEW s \in Scripts, Lock(s)
      PROVE  UNCHANGED <<Known, Lost>>
  BY <1>5 DEF Lock, Readable, Torn
<1>6. ASSUME NEW s \in Scripts, Truncate(s)
      PROVE  UNCHANGED <<Known, Lost>>
  BY <1>6 DEF Truncate
<1>7. ASSUME NEW s \in Scripts, Unlock(s)
      PROVE  Register!Next
  <2>1. lock = s /\ lock' = Nobody /\ s # Nobody
    BY <1>7 DEF Unlock
  <2>2. Known' = Known \cup {s} /\ ~Lost /\ ~Lost'
    BY <1>7, <2>1 DEF Unlock, Whole
  <2>3. QED BY <2>2 DEF Register!Next, Register!Add
<1>8. ASSUME NEW ss \in SUBSET Scripts, Killed(ss)
      PROVE  [Register!Next]_<<Known, Lost>>
  <2>1. CASE lock \notin ss
    BY <1>8, <2>1 DEF Killed
  <2>2. CASE lock \in ss /\ at[lock] = "in"
    BY <1>8, <2>2 DEF Killed, Whole
  <2>3. CASE lock \in ss /\ at[lock] = "dump"
    BY <1>8, <2>3 DEF Killed, Torn, Register!Next, Register!Lose
  <2>4. QED BY <2>1, <2>2, <2>3
<1>9. CASE UNCHANGED storeVars
  BY <1>9 DEF storeVars
<1>10. QED
  BY <1>1, <1>2, <1>3, <1>4, <1>5, <1>6, <1>7, <1>8, <1>9 DEF StoreNext

\* Refines: whatever the scripts do and whenever they are killed, the file is
\* a register that loses an addition only by losing everything.
THEOREM StoreRefines == StoreSpec => Refines
<1>1. QED
  BY StoreRefinesInit, StoreRefinesStep, StoreInvariant, PTL
  DEF StoreSpec, Refines, Register!Spec

-----------------------------------------------------------------------------
(* The metadata store in the regression.                                   *)

(***************************************************************************)
(* The stamps are made by scripts that use the store.                      *)
(***************************************************************************)
LEMMA StampNames == {f[1] : f \in Stamps} \subseteq Scripts
BY DEF Stamps, Stamp

(***************************************************************************)
(* Every step of the regression is one of the store or leaves it alone.    *)
(***************************************************************************)
LEMMA StoreStep == [Next]_vars => [StoreNext]_storeVars
<1> SUFFICES ASSUME [Next]_vars PROVE [StoreNext]_storeVars
  OBVIOUS
<1>1. CASE CreateMetadata
  BY <1>1 DEF CreateMetadata, StoreNext
<1>2. CASE StopMake
  BY <1>2 DEF StopMake
<1>3. ASSUME NEW f \in Files,
             \/ Skip(f) \/ Start(f) \/ ReadPickles(f) \/ Dies(f) \/ ExportFirst(f)
             \/ Generate(f) \/ Compile(f) \/ Simulate(f) \/ Check(f) \/ Export(f)
      PROVE  UNCHANGED storeVars
  BY <1>3 DEF Skip, Start, ReadPickles, Dies, ExportFirst, Generate, Compile, Simulate, Check,
              Export
<1>4. ASSUME NEW s \in {f[1] : f \in Stamps},
             \/ OpenStore(s) \/ LockStore(s) \/ LockStoreFails(s) \/ Body(s) \/ CloseStore(s)
             \/ Execute(s)
      PROVE  [StoreNext]_storeVars
  <2>1. s \in Scripts
    BY StampNames
  <2> QED
    BY <1>4, <2>1 DEF OpenStore, LockStore, LockStoreFails, Body, CloseStore, Execute, StoreNext
<1>5. CASE StartMake
  BY <1>5 DEF StartMake, StoreNext
<1>6. CASE Interrupt
  <2>1. CreateKilled \/ Killed(Scripts)
    BY <1>6 DEF Interrupt
  <2> QED
    BY <2>1 DEF StoreNext
<1>7. CASE Edit
  BY <1>7 DEF Edit
<1>8. CASE UNCHANGED vars
  BY <1>8 DEF vars
<1> QED
  BY <1>1, <1>2, <1>3, <1>4, <1>5, <1>6, <1>7, <1>8 DEF Next, Work

(***************************************************************************)
(* The regression is an implementation of MetadataStore.                   *)
(***************************************************************************)
THEOREM UsesStore == Spec => StoreSpec
<1>1. Init => StoreInit
  BY DEF Init
<1> QED
  BY <1>1, StoreStep, PTL DEF Spec, StoreSpec

(***************************************************************************)
(* Refines: in a regression too the metadata is a register that loses an   *)
(* addition only by losing everything, whatever make does with the scripts *)
(* (LockedMetadata of metadata.py under the rules of wrapper.mk).          *)
(***************************************************************************)
THEOREM RegressionRefines == Spec => Refines
BY UsesStore, StoreRefines

-----------------------------------------------------------------------------
(* The files and their rules.                                              *)

(***************************************************************************)
(* A file is a stamp or belongs to a test.                                 *)
(***************************************************************************)
LEMMA FileFacts ==
  /\ \A f \in Files :
       \/ f[2] = All /\ f = Stamp(f[1]) /\ f[1] \in Scripts /\ f \in Stamps
       \/ /\ f[2] \in Tests /\ f[2] # All /\ f = <<f[1], f[2]>>
          /\ f[1] \in {"asm", "bin", "log", "trr"} /\ (f[1] = "asm" => f[2] \in RiscvDv)
  /\ \A t \in Tests : {<<"bin", t>>, <<"log", t>>, <<"trr", t>>} \subseteq Files /\ t # All
  /\ \A t \in RiscvDv : t \in Tests /\ <<"asm", t>> \in Files
  /\ {Stamp("tb"), Stamp("fcov"), Stamp("merge"), Stamp("regr")} \subseteq Files
  /\ RiscvDv # {} => {Stamp("cfg"), Stamp("gen")} \subseteq Files
  /\ Stamp("gen") \in Files => Stamp("cfg") \in Files
  /\ Src \notin Files
  /\ Stamps = {Stamp(f[1]) : f \in Stamps} /\ Stamps \subseteq Files
<1>1. Scripts = {"cfg", "gen", "tb", "fcov", "merge", "regr"} /\ All \notin Tests
  BY RegressionAssumption DEF Tests
<1>2. \A t \in Tests : t # All /\ OfTest(t) \subseteq Files
  BY <1>1 DEF Files
<1>3. \A t \in Tests : {<<"bin", t>>, <<"log", t>>, <<"trr", t>>} \subseteq OfTest(t)
  BY DEF OfTest
<1>4. \A t \in RiscvDv : t \in Tests /\ <<"asm", t>> \in OfTest(t)
  BY DEF OfTest, Tests
<1>5. ASSUME NEW f \in Stamps
      PROVE  f[2] = All /\ f = Stamp(f[1]) /\ f[1] \in Scripts
  BY <1>1 DEF Stamps, Stamp
<1>6. ASSUME NEW t \in Tests, NEW f \in OfTest(t)
      PROVE  /\ f[2] \in Tests /\ f = <<f[1], f[2]>>
             /\ f[1] \in {"asm", "bin", "log", "trr"} /\ (f[1] = "asm" => f[2] \in RiscvDv)
  BY <1>6 DEF OfTest
<1>7. \A f \in Files : f \in Stamps \/ \E t \in Tests : f \in OfTest(t)
  BY DEF Files
<1>8. /\ {Stamp("tb"), Stamp("fcov"), Stamp("merge"), Stamp("regr")} \subseteq Stamps
      /\ RiscvDv # {} => {Stamp("cfg"), Stamp("gen")} \subseteq Stamps
  BY <1>1 DEF Stamps
<1>9. Stamp("gen") \in Files => RiscvDv # {}
  <2>1. SUFFICES ASSUME Stamp("gen") \in Files, RiscvDv = {} PROVE FALSE
    OBVIOUS
  <2>2. Stamp("gen") \in Stamps
    BY <1>1, <1>2, <1>6, <1>7, <2>1 DEF Stamp
  <2> QED
    BY <2>1, <2>2 DEF Stamps, Stamp
<1>10. Src \notin Files
  <2>1. Src \notin Stamps
    BY <1>1 DEF Stamps, Stamp, Src
  <2>2. \A t \in Tests : Src \notin OfTest(t)
    BY DEF OfTest, Src
  <2> QED
    BY <1>7, <2>1, <2>2
<1>11. Stamps \subseteq Files
  BY DEF Files
<1>12. Stamps = {Stamp(f[1]) : f \in Stamps}
  BY <1>5
<1>13. \A f \in Files :
       \/ f[2] = All /\ f = Stamp(f[1]) /\ f[1] \in Scripts /\ f \in Stamps
       \/ /\ f[2] \in Tests /\ f[2] # All /\ f = <<f[1], f[2]>>
          /\ f[1] \in {"asm", "bin", "log", "trr"} /\ (f[1] = "asm" => f[2] \in RiscvDv)
  BY <1>2, <1>5, <1>6, <1>7
<1> QED
  BY <1>2, <1>3, <1>4, <1>8, <1>9, <1>10, <1>11, <1>12, <1>13

(***************************************************************************)
(* What each file is made from.                                            *)
(***************************************************************************)
LEMMA RuleFacts ==
  /\ Deps(Stamp("cfg")) = {} /\ Deps(Stamp("gen")) = {Stamp("cfg")}
  /\ Deps(Stamp("tb")) = {Src} /\ Deps(Stamp("fcov")) = TrrFiles
  /\ Deps(Stamp("merge")) = {Stamp("fcov")}
  /\ Deps(Stamp("regr")) = TrrFiles \cup {Stamp("merge")}
  /\ \A t \in Tests :
       /\ Deps(<<"bin", t>>) = IF t \in RiscvDv THEN {<<"asm", t>>} ELSE {}
       /\ Deps(<<"log", t>>) = {Stamp("tb"), <<"bin", t>>}
       /\ Deps(<<"trr", t>>) = {<<"log", t>>}
       /\ Deps(<<"asm", t>>) = {Stamp("gen")}
<1>1. All \notin Tests
  BY RegressionAssumption DEF Tests
<1>2. \A s \in {"cfg", "gen", "tb", "fcov", "merge", "regr"} : Deps(Stamp(s)) = StampDeps(s)
  BY <1>1 DEF Deps, Stamp
<1>3. \A t \in Tests, k \in {"asm", "bin", "log", "trr"} : Deps(<<k, t>>) = TestDeps(k, t)
  BY DEF Deps
<1>4. /\ StampDeps("cfg") = {} /\ StampDeps("gen") = {Stamp("cfg")}
      /\ StampDeps("tb") = {Src} /\ StampDeps("fcov") = TrrFiles
      /\ StampDeps("merge") = {Stamp("fcov")}
      /\ StampDeps("regr") = TrrFiles \cup {Stamp("merge")}
  BY DEF StampDeps
<1>5. \A t \in Tests :
       /\ TestDeps("bin", t) = IF t \in RiscvDv THEN {<<"asm", t>>} ELSE {}
       /\ TestDeps("log", t) = {Stamp("tb"), <<"bin", t>>}
       /\ TestDeps("trr", t) = {<<"log", t>>}
       /\ TestDeps("asm", t) = {Stamp("gen")}
  BY DEF TestDeps
<1>6. /\ Deps(Stamp("cfg")) = {} /\ Deps(Stamp("gen")) = {Stamp("cfg")}
      /\ Deps(Stamp("tb")) = {Src} /\ Deps(Stamp("fcov")) = TrrFiles
      /\ Deps(Stamp("merge")) = {Stamp("fcov")}
      /\ Deps(Stamp("regr")) = TrrFiles \cup {Stamp("merge")}
  BY <1>2, <1>4
<1>7. ASSUME NEW t \in Tests
      PROVE  /\ Deps(<<"bin", t>>) = IF t \in RiscvDv THEN {<<"asm", t>>} ELSE {}
             /\ Deps(<<"log", t>>) = {Stamp("tb"), <<"bin", t>>}
             /\ Deps(<<"trr", t>>) = {<<"log", t>>}
             /\ Deps(<<"asm", t>>) = {Stamp("gen")}
  BY <1>3, <1>5
<1> QED
  BY <1>6, <1>7

(***************************************************************************)
(* The files by name.                                                      *)
(***************************************************************************)
LEMMA FileNames ==
  ASSUME NEW f \in Files
  PROVE  \/ f \in {Stamp("cfg"), Stamp("gen"), Stamp("tb"), Stamp("fcov"), Stamp("merge"),
                   Stamp("regr")}
         \/ \E t \in RiscvDv : f = <<"asm", t>>
         \/ \E t \in Tests : f \in {<<"bin", t>>, <<"log", t>>, <<"trr", t>>}
<1>1. CASE f = Stamp(f[1]) /\ f[1] \in Scripts
  <2>1. Scripts = {"cfg", "gen", "tb", "fcov", "merge", "regr"}
    BY RegressionAssumption
  <2> QED
    BY <1>1, <2>1
<1>2. ASSUME f[2] \in Tests, f = <<f[1], f[2]>>, f[1] \in {"asm", "bin", "log", "trr"},
             f[1] = "asm" => f[2] \in RiscvDv
      PROVE  \/ \E t \in RiscvDv : f = <<"asm", t>>
             \/ \E t \in Tests : f \in {<<"bin", t>>, <<"log", t>>, <<"trr", t>>}
  BY <1>2
<1> QED
  BY <1>1, <1>2, FileFacts

(***************************************************************************)
(* A file is made from other files, and a file of a simulation from files  *)
(* of simulations and the sources.                                         *)
(***************************************************************************)
LEMMA DepsFacts ==
  ASSUME NEW f \in Files, NEW p \in Deps(f)
  PROVE  /\ p \in Files \cup {Src} /\ p # f
         /\ f \in Sim => p \in Sim \cup {Src} /\ p[1] # "trr"
         /\ f \in Sim /\ f[1] # "bin" /\ p # Src => p[2] = All \/ p[1] = "bin"
<1> DEFINE Good == /\ p \in Files \cup {Src} /\ p # f
                   /\ f \in Sim => p \in Sim \cup {Src} /\ p[1] # "trr"
                   /\ f \in Sim /\ f[1] # "bin" /\ p # Src => p[2] = All \/ p[1] = "bin"
<1>1. /\ {Stamp("tb"), Stamp("fcov"), Stamp("merge"), Stamp("regr")} \subseteq Files
      /\ RiscvDv # {} => {Stamp("cfg"), Stamp("gen")} \subseteq Files
      /\ Stamp("gen") \in Files => Stamp("cfg") \in Files
      /\ \A t \in Tests : {<<"bin", t>>, <<"log", t>>, <<"trr", t>>} \subseteq Files
      /\ \A t \in RiscvDv : t \in Tests /\ <<"asm", t>> \in Files
  BY FileFacts
<1>2. CASE f = Stamp("cfg")
  BY <1>2, RuleFacts
<1>3. CASE f = Stamp("gen")
  <2>1. p = Stamp("cfg")
    BY <1>3, RuleFacts
  <2> QED
    BY <1>1, <1>3, <2>1 DEF Sim, SimKinds, Stamp
<1>4. CASE f = Stamp("tb")
  <2>1. p = Src
    BY <1>4, RuleFacts
  <2> QED
    BY <1>4, <2>1 DEF Stamp, Src
<1>5. CASE f \in {Stamp("fcov"), Stamp("merge"), Stamp("regr")}
  <2>1. f \notin Sim
    BY <1>5 DEF Sim, SimKinds, Stamp
  <2>2. p \in TrrFiles \/ (p = Stamp("fcov") /\ f = Stamp("merge"))
        \/ (p = Stamp("merge") /\ f = Stamp("regr"))
    BY <1>5, RuleFacts
  <2>3. CASE p \in TrrFiles
    <3>1. PICK t \in Tests : p = <<"trr", t>>
      BY <2>3 DEF TrrFiles
    <3>2. p \in Files
      BY <1>1, <3>1
    <3>3. p # f
      BY <1>5, <3>1 DEF Stamp
    <3> QED
      BY <2>1, <3>2, <3>3
  <2>4. CASE p \notin TrrFiles
    BY <1>1, <2>1, <2>2, <2>4 DEF Stamp
  <2> QED
    BY <2>3, <2>4
<1>6. ASSUME NEW t \in RiscvDv, f = <<"asm", t>>
      PROVE  Good
  <2>1. Deps(f) = {Stamp("gen")}
    <3>1. t \in Tests
      BY ONLY <1>1, <1>6
    <3> QED
      BY ONLY <1>6, <3>1, RuleFacts
  <2>2. p = Stamp("gen")
    BY ONLY p \in Deps(f), <2>1
  <2>3. p \in Files
    <3>1. RiscvDv # {}
      BY <1>6
    <3> QED
      BY ONLY <1>1, <2>2, <3>1
  <2> QED
    BY <1>6, <2>2, <2>3 DEF Sim, SimKinds, Stamp
<1>7. ASSUME NEW t \in Tests, f = <<"bin", t>>
      PROVE  Good
  <2>1. p = <<"asm", t>> /\ t \in RiscvDv
    BY <1>7, RuleFacts
  <2> QED
    BY <1>1, <1>7, <2>1 DEF Sim, SimKinds
<1>8. ASSUME NEW t \in Tests, f = <<"log", t>>
      PROVE  Good
  <2>1. p \in {Stamp("tb"), <<"bin", t>>} /\ p \in Files
    BY <1>1, <1>8, RuleFacts
  <2> QED
    BY <1>8, <2>1 DEF Sim, SimKinds, Stamp
<1>9. ASSUME NEW t \in Tests, f = <<"trr", t>>
      PROVE  Good
  <2>1. p = <<"log", t>>
    BY <1>9, RuleFacts
  <2> QED
    BY <1>1, <1>9, <2>1 DEF Sim, SimKinds
<1> QED
  BY <1>2, <1>3, <1>4, <1>5, <1>6, <1>7, <1>8, <1>9, FileNames

(***************************************************************************)
(* What writing files does to the times make compares.                     *)
(***************************************************************************)
LEMMA WriteFacts ==
  ASSUME NEW fs \in SUBSET (Files \cup {Src}), Write(fs)
  PROVE  /\ exists' = exists \cup fs
         /\ \A p, f : <<p, f>> \in newer' =>
              f \notin fs /\ (<<p, f>> \in newer \/ (p \in fs /\ f \in Files /\ p \in Deps(f)))
         /\ \A p, f : <<p, f>> \in dirty' =>
              <<p, f>> \in dirty \/ (p \in fs /\ f \in Files /\ p \in Deps(f))
         /\ dirty \subseteq dirty'
         /\ \A f \in Files : \A p \in Deps(f) : p \in fs => <<p, f>> \in dirty'
         /\ newer \subseteq dirty => newer' \subseteq dirty'
         /\ newer \subseteq Edges => newer' \subseteq Edges
         /\ dirty \subseteq Edges => dirty' \subseteq Edges
<1>1. \A p, f : <<p, f>> \in Edges <=> f \in Files /\ p \in Deps(f)
  BY DEF Edges
<1>2. \A e \in Edges : e = <<e[1], e[2]>>
  BY DEF Edges
<1>3. /\ exists' = exists \cup fs
      /\ newer' = {e \in newer : e[2] \notin fs} \cup {e \in Edges : e[1] \in fs /\ e[2] \notin fs}
      /\ dirty' = dirty \cup {e \in Edges : e[1] \in fs}
  BY DEF Write
<1>4. \A p, f : <<p, f>>[1] = p /\ <<p, f>>[2] = f
  OBVIOUS
<1>5. \A p, f : <<p, f>> \in newer' =>
        f \notin fs /\ (<<p, f>> \in newer \/ (p \in fs /\ f \in Files /\ p \in Deps(f)))
  BY <1>1, <1>3, <1>4
<1>6. \A p, f : <<p, f>> \in dirty' =>
        <<p, f>> \in dirty \/ (p \in fs /\ f \in Files /\ p \in Deps(f))
  BY <1>1, <1>3, <1>4
<1>7. \A f \in Files : \A p \in Deps(f) : p \in fs => <<p, f>> \in dirty'
  BY <1>1, <1>3, <1>4
<1> QED
  BY <1>3, <1>5, <1>6, <1>7

-----------------------------------------------------------------------------
(* What a step of a recipe does to the files and to what make knows.       *)

Rests == UNCHANGED <<status, step>> /\ WriteNothing

Skips(f) ==
  /\ Considered(f) /\ ~MustMake(f)
  /\ status' = [status EXCEPT ![f] = "done"]
  /\ UNCHANGED step /\ WriteNothing

Starts(f) ==
  /\ Considered(f) /\ MustMake(f)
  /\ status' = [status EXCEPT ![f] = "run"]
  /\ step' = [step EXCEPT ![f] = "open"]
  /\ WriteNothing

Goes(f) ==
  /\ status[f] = "run" /\ step[f] # "export"
  /\ UNCHANGED status
  /\ \E sp \in StepKinds(f) \ {"none"} : step' = [step EXCEPT ![f] = sp]

Fails(f) ==
  /\ status[f] = "run" /\ step[f] # "export"
  /\ Ends(f, FALSE) /\ WriteNothing

\* The file itself is written: by its simulation or generator, ...
WritesOwn(f) ==
  /\ Goes(f) /\ f[2] \in Tests /\ f[1] \in {"asm", "log"}
  /\ step'[f] = "export" /\ Write({f})

\* ... or as the last thing done.
Makes(f) ==
  /\ status[f] = "run" /\ step[f] # "export" /\ Ends(f, TRUE)
  /\ f[2] = All \/ (f[2] \in Tests /\ f[1] = "bin" /\ Deps(f) \subseteq exists)
  /\ Write({f})

\* The result of its test is written: early, ...
ExportsEarly(f) ==
  /\ Goes(f) /\ f[2] \in Tests /\ f[1] \in {"bin", "log"}
  /\ Write({<<"trr", f[2]>>})

\* ... or as the last thing done.
Exports(f) ==
  /\ status[f] = "run" /\ step[f] = "export" /\ Ends(f, TRUE)
  /\ f[2] \in Tests /\ f[1] \in {"asm", "log", "trr"}
  /\ Write({<<"trr", f[2]>>})

Effect(f) ==
  \/ Skips(f) \/ Starts(f) \/ (Goes(f) /\ WriteNothing) \/ Fails(f)
  \/ WritesOwn(f) \/ Makes(f) \/ ExportsEarly(f) \/ Exports(f)

OfFile(f) ==
  \/ Skip(f) \/ Start(f) \/ ReadPickles(f) \/ Dies(f) \/ ExportFirst(f)
  \/ Generate(f) \/ Compile(f) \/ Simulate(f) \/ Check(f) \/ Export(f)
OfScript(s) ==
  \/ OpenStore(s) \/ LockStore(s) \/ LockStoreFails(s) \/ Body(s) \/ CloseStore(s) \/ Execute(s)

\* The other variables make keeps.
Keeps == make = "run" /\ UNCHANGED <<make, result, absent, count>>

(***************************************************************************)
(* A step of the recipe of a file has one of these effects on it.          *)
(***************************************************************************)
LEMMA FileEffect ==
  ASSUME TypeOK, Progress, Steps, NEW f \in Files, OfFile(f)
  PROVE  Keeps /\ Effect(f)
<1>1. step[f] # "none" => status[f] = "run" /\ make = "run"
  BY DEF Progress, TypeOK
<1>2. \/ f[2] = All
      \/ f[2] \in Tests /\ f[1] \in {"asm", "bin", "log", "trr"} /\ f[2] # All
  BY FileFacts
<1>3. step[f] \in StepKinds(f)
  BY DEF Steps
<1>4. /\ f[2] = All => StepKinds(f) = {"none", "open", "body", "raise", "exec"}
      /\ f[2] # All =>
           /\ {"none", "open", "exec"} \subseteq StepKinds(f)
           /\ f[1] \in {"bin", "log"} => "run" \in StepKinds(f)
           /\ "export" \in StepKinds(f) <=> f[1] # "bin"
  BY DEF StepKinds
<1>5. f[2] \in Tests => f[2] # All
  BY <1>2, RegressionAssumption DEF Tests
<1>6. step \in [Files -> {"none", "open", "body", "raise", "exec", "run", "export"}]
  BY DEF TypeOK
<1>7. CASE Skip(f)
  BY <1>7 DEF Skip, Keeps, Effect, Skips, UpToDate, WriteNothing
<1>8. CASE Start(f)
  BY <1>8 DEF Start, Keeps, Effect, Starts, WriteNothing
<1>9. CASE ReadPickles(f)
  <2>1. status[f] = "run" /\ make = "run" /\ step[f] = "open"
    BY <1>1, <1>9 DEF ReadPickles
  <2>2. CASE step' = [step EXCEPT ![f] = "exec"] /\ UNCHANGED status
    <3>1. "exec" \in StepKinds(f) \ {"none"}
      BY <1>2, <1>4
    <3>2. Goes(f) /\ WriteNothing
      BY <1>9, <2>1, <2>2, <3>1 DEF Goes, ReadPickles, WriteNothing
    <3> QED
      BY <1>9, <2>1, <3>2 DEF ReadPickles, Keeps, Effect
  <2>3. CASE Ends(f, FALSE)
    BY <1>9, <2>1, <2>3 DEF ReadPickles, Keeps, Effect, Fails, WriteNothing
  <2> QED
    BY <1>9, <2>2, <2>3 DEF ReadPickles
<1>10. CASE Dies(f)
  BY <1>1, <1>10 DEF Dies, Keeps, Effect, Fails, WriteNothing
<1>11. CASE ExportFirst(f)
  <2>1. status[f] = "run" /\ make = "run" /\ step[f] = "exec" /\ f[1] \in {"bin", "log"}
    BY <1>1, <1>11 DEF ExportFirst
  <2>2. f[2] \in Tests
    BY <1>2, <2>1, FileFacts, RegressionAssumption DEF Stamp
  <2>3. "run" \in StepKinds(f) \ {"none"}
    BY <1>4, <1>5, <2>1, <2>2
  <2>4. Goes(f)
    BY <1>11, <2>1, <2>3 DEF ExportFirst, Goes
  <2> QED
    BY <1>11, <2>1, <2>2, <2>4 DEF ExportFirst, Keeps, Effect, ExportsEarly
<1>12. CASE Generate(f)
  <2>1. status[f] = "run" /\ make = "run" /\ step[f] = "exec" /\ f[1] = "asm"
    BY <1>1, <1>12 DEF Generate
  <2>2. f[2] \in Tests
    BY <1>2, <2>1, FileFacts, RegressionAssumption DEF Stamp
  <2>3. "export" \in StepKinds(f) \ {"none"}
    BY <1>4, <1>5, <2>1, <2>2
  <2>4. Goes(f) /\ step'[f] = "export"
    BY <1>6, <1>12, <2>1, <2>3 DEF Generate, Goes
  <2> QED
    BY <1>12, <2>1, <2>2, <2>4 DEF Generate, Keeps, Effect, WritesOwn
<1>13. CASE Compile(f)
  <2>1. status[f] = "run" /\ make = "run" /\ step[f] = "run" /\ f[1] = "bin"
    BY <1>1, <1>13 DEF Compile
  <2>2. f[2] \in Tests
    BY <1>2, <2>1, FileFacts, RegressionAssumption DEF Stamp
  <2> QED
    BY <1>13, <2>1, <2>2 DEF Compile, Keeps, Effect, Makes, Fails
<1>14. CASE Simulate(f)
  <2>1. status[f] = "run" /\ make = "run" /\ step[f] = "run" /\ f[1] = "log"
    BY <1>1, <1>14 DEF Simulate
  <2>2. f[2] \in Tests
    BY <1>2, <2>1, FileFacts, RegressionAssumption DEF Stamp
  <2>3. "export" \in StepKinds(f) \ {"none"}
    BY <1>4, <1>5, <2>1, <2>2
  <2>4. Goes(f) /\ step'[f] = "export"
    BY <1>6, <1>14, <2>1, <2>3 DEF Simulate, Goes
  <2> QED
    BY <1>14, <2>1, <2>2, <2>4 DEF Simulate, Keeps, Effect, WritesOwn
<1>15. CASE Check(f)
  <2>1. status[f] = "run" /\ make = "run" /\ step[f] = "exec" /\ f[1] = "trr"
    BY <1>1, <1>15 DEF Check
  <2>2. f[2] \in Tests
    BY <1>2, <2>1, FileFacts, RegressionAssumption DEF Stamp
  <2>3. "export" \in StepKinds(f) \ {"none"}
    BY <1>4, <1>5, <2>1, <2>2
  <2>4. WriteNothing /\ Keeps
    BY <1>15, <2>1 DEF Check, WriteNothing, Keeps
  <2>5. CASE Ends(f, FALSE)
    BY <2>1, <2>4, <2>5 DEF Effect, Fails
  <2>6. CASE step' = [step EXCEPT ![f] = "export"] /\ UNCHANGED status
    BY <2>1, <2>3, <2>4, <2>6 DEF Effect, Goes
  <2> QED
    BY <1>15, <2>5, <2>6, <2>4 DEF Check
<1>16. CASE Export(f)
  <2>1. status[f] = "run" /\ make = "run" /\ step[f] = "export" /\ f[2] \in Tests
    BY <1>1, <1>16 DEF Export
  <2>2. f[1] \in {"asm", "log", "trr"}
    BY <1>2, <1>3, <1>4, <1>5, <2>1
  <2> QED
    BY <1>16, <2>1, <2>2 DEF Export, Keeps, Effect, Exports
<1> QED
  BY <1>7, <1>8, <1>9, <1>10, <1>11, <1>12, <1>13, <1>14, <1>15, <1>16 DEF OfFile

(***************************************************************************)
(* A step of a script that uses the store has one of these effects on its  *)
(* stamp.                                                                  *)
(***************************************************************************)
LEMMA ScriptEffect ==
  ASSUME TypeOK, Positions, Progress, Steps, NEW s \in {f[1] : f \in Stamps}, OfScript(s)
  PROVE  Keeps /\ Stamp(s) \in Files /\ (Rests \/ Effect(Stamp(s)))
<1> DEFINE f == Stamp(s)
<1>1. s \in Scripts
  BY StampNames
<1>2. f \in Files
  BY FileFacts
<1>3. f[2] = All
  BY DEF Stamp
<1>4. StepKinds(f) = {"none", "open", "body", "raise", "exec"}
  BY <1>3 DEF StepKinds
<1>5. step[f] \in StepKinds(f)
  BY <1>2 DEF Steps
<1>6. step[f] # "none" => status[f] = "run" /\ make = "run"
  BY <1>2 DEF Progress, TypeOK
<1>7. /\ at[s] = "wait" => step[f] = "open"
      /\ at[s] = "in" => step[f] = "body"
      /\ at[s] = "dump" => step[f] \in {"exec", "raise"}
  BY <1>1 DEF Positions
<1>8. step[f] # "export"
  BY <1>4, <1>5
<1> HIDE DEF f
<1>9. CASE OpenStore(s)
  <2>1. step[f] = "open" /\ UNCHANGED makeVars /\ UNCHANGED count
    BY <1>9 DEF OpenStore, f
  <2> QED
    BY <1>2, <1>6, <2>1 DEF makeVars, Keeps, Rests, WriteNothing, f
<1>10. CASE LockStore(s)
  <2>1. step[f] = "open" /\ UNCHANGED <<make, result, absent, count>> /\ WriteNothing
        /\ UNCHANGED status /\ step' = [step EXCEPT ![f] = "body"]
    BY <1>7, <1>10 DEF LockStore, Lock, WriteNothing, f
  <2>2. "body" \in StepKinds(f) \ {"none"}
    BY <1>4
  <2>3. Goes(f)
    BY <1>6, <2>1, <2>2 DEF Goes
  <2> QED
    BY <1>2, <1>6, <2>1, <2>3 DEF Keeps, Effect, f
<1>11. CASE LockStoreFails(s)
  <2>1. step[f] = "open" /\ UNCHANGED <<make, result, absent, count>> /\ WriteNothing
        /\ Ends(f, FALSE)
    BY <1>7, <1>11 DEF LockStoreFails, LockFails, WriteNothing, f
  <2> QED
    BY <1>2, <1>6, <2>1 DEF Keeps, Effect, Fails, f
<1>12. CASE Body(s)
  <2>1. /\ step[f] = "body" /\ UNCHANGED <<make, result, absent, count>> /\ WriteNothing
        /\ UNCHANGED status
        /\ step' = [step EXCEPT ![f] = "exec"] \/ step' = [step EXCEPT ![f] = "raise"]
    BY <1>12 DEF Body, WriteNothing, f
  <2>2. {"exec", "raise"} \subseteq StepKinds(f) \ {"none"}
    BY <1>4
  <2>3. Goes(f)
    BY <1>6, <2>1, <2>2 DEF Goes
  <2> QED
    BY <1>2, <1>6, <2>1, <2>3 DEF Keeps, Effect, f
<1>13. CASE CloseStore(s)
  <2>1. at[s] = "dump" /\ UNCHANGED makeVars /\ UNCHANGED count
    BY <1>13 DEF CloseStore, Unlock
  <2> QED
    BY <1>2, <1>6, <1>7, <2>1 DEF makeVars, Keeps, Rests, WriteNothing, f
<1>14. CASE Execute(s)
  <2>1. /\ step[f] \in {"exec", "raise"} /\ UNCHANGED <<make, result, absent, count>>
        /\ (Ends(f, TRUE) /\ Write({f})) \/ (Ends(f, FALSE) /\ WriteNothing)
    BY <1>14 DEF Execute, f
  <2> QED
    BY <1>2, <1>3, <1>6, <1>8, <2>1 DEF Keeps, Effect, Fails, Makes, f
<1> QED
  BY <1>9, <1>10, <1>11, <1>12, <1>13, <1>14 DEF OfScript

(***************************************************************************)
(* What make knows of the files after such an effect.                      *)
(***************************************************************************)
LEMMA EffectFacts ==
  ASSUME TypeOK, NEW f \in Files, Effect(f)
  PROVE  /\ status' \in [Files -> {"todo", "run", "done", "failed"}]
         /\ step' \in [Files -> {"none", "open", "body", "raise", "exec", "run", "export"}]
         /\ status[f] \in {"todo", "run"} /\ status'[f] # "todo"
         /\ \A g \in Files \ {f} : status'[g] = status[g] /\ step'[g] = step[g]
         /\ status[f] = "todo" => Considered(f)
         /\ Steps /\ Progress => Steps' /\ (step'[f] = "none" <=> status'[f] # "run")
<1>1. /\ status \in [Files -> {"todo", "run", "done", "failed"}]
      /\ step \in [Files -> {"none", "open", "body", "raise", "exec", "run", "export"}]
  BY DEF TypeOK
<1>2. StepKinds(f) \subseteq {"none", "open", "body", "raise", "exec", "run", "export"}
      /\ "open" \in StepKinds(f) /\ "none" \in StepKinds(f)
  BY DEF StepKinds
<1>3. \/ status[f] = "todo" /\ status'[f] = "done" /\ step' = step
      \/ \E sp \in StepKinds(f) :
           step' = [step EXCEPT ![f] = sp] /\ (sp = "none" <=> status'[f] # "run")
  <2>1. CASE Skips(f)
    BY <1>1, <2>1 DEF Skips, Considered
  <2>2. CASE Starts(f)
    BY <1>1, <1>2, <2>2 DEF Starts
  <2>3. CASE Goes(f)
    BY <2>3 DEF Goes
  <2>4. ASSUME NEW ok \in BOOLEAN, Ends(f, ok)
        PROVE  step' = [step EXCEPT ![f] = "none"] /\ status'[f] # "run"
    BY <1>1, <2>4 DEF Ends
  <2>5. CASE Ends(f, TRUE) \/ Ends(f, FALSE)
    BY <1>2, <2>4, <2>5
  <2> QED
    BY <2>1, <2>2, <2>3, <2>5 DEF Effect, Fails, WritesOwn, Makes, ExportsEarly, Exports
<1>4. /\ \E st \in {"todo", "run", "done", "failed"} : status' = [status EXCEPT ![f] = st]
      /\ status[f] \in {"todo", "run"} /\ status'[f] # "todo"
      /\ status[f] = "todo" => Considered(f)
  BY <1>1 DEF Effect, Skips, Starts, Goes, Fails, WritesOwn, Makes, ExportsEarly, Exports, Ends,
              Considered
<1>5. step' \in [Files -> {"none", "open", "body", "raise", "exec", "run", "export"}]
  BY <1>1, <1>2, <1>3
<1>6. \A g \in Files \ {f} : status'[g] = status[g] /\ step'[g] = step[g]
  BY <1>1, <1>3, <1>4
<1>7. ASSUME Steps, Progress
      PROVE  Steps' /\ (step'[f] = "none" <=> status'[f] # "run")
  <2>1. Steps'
    BY <1>1, <1>3, <1>7 DEF Steps, StepKinds
  <2>2. step[f] = "none" <=> status[f] # "run"
    BY <1>7 DEF Progress
  <2> QED
    BY <1>1, <1>3, <2>1, <2>2
<1> QED
  BY <1>1, <1>4, <1>5, <1>6, <1>7

(***************************************************************************)
(* Such an effect writes nothing, its file or the result of its test.      *)
(***************************************************************************)
LEMMA EffectWrites ==
  ASSUME NEW f \in Files, Effect(f)
  PROVE  \/ WriteNothing
         \/ (WritesOwn(f) \/ Makes(f)) /\ Write({f})
         \/ /\ f[2] \in Tests /\ <<"trr", f[2]>> \in Files
            /\ ExportsEarly(f) \/ Exports(f)
            /\ Write({<<"trr", f[2]>>})
<1>1. \A t \in Tests : <<"trr", t>> \in Files
  BY FileFacts
<1> QED
  BY <1>1 DEF Effect, Skips, Starts, Fails, WritesOwn, Makes, ExportsEarly, Exports

(***************************************************************************)
(* A file that is up to date is only passed over, and one that is being    *)
(* exported is only made.                                                  *)
(***************************************************************************)
LEMMA EffectKinds ==
  ASSUME NEW f \in Files, Effect(f)
  PROVE  /\ status[f] = "todo" => Skips(f) \/ (Starts(f) /\ MustMake(f))
         /\ status[f] = "run" /\ step[f] = "export" => Exports(f)
         /\ status[f] \in {"todo", "run"}
<1>1. Goes(f) \/ Fails(f) \/ Makes(f) => status[f] = "run" /\ step[f] # "export"
  BY DEF Goes, Fails, Makes
<1>2. WritesOwn(f) \/ ExportsEarly(f) => Goes(f)
  BY DEF WritesOwn, ExportsEarly
<1>3. Exports(f) => status[f] = "run"
  BY DEF Exports
<1>4. Skips(f) => status[f] = "todo"
  BY DEF Skips, Considered
<1>5. Starts(f) => status[f] = "todo" /\ MustMake(f)
  BY DEF Starts, Considered
<1> QED
  BY <1>1, <1>2, <1>3, <1>4, <1>5 DEF Effect

(***************************************************************************)
(* Progress is kept: a file that is done stays done.                       *)
(***************************************************************************)
LEMMA ProgressKept ==
  ASSUME TypeOK, Progress, Steps, NEW f \in Files, Keeps, Rests \/ Effect(f), file' # Absent
  PROVE  Progress' /\ Steps'
<1>1. /\ make = "run" /\ make' = "run" /\ result' = result
      /\ result = "ok" => make = "off"
  BY DEF Keeps, Progress
<1>2. CASE Rests
  BY <1>1, <1>2 DEF Rests, Progress, Steps, Done
<1>3. CASE Effect(f)
  <2>1. /\ \A g \in Files \ {f} : status'[g] = status[g] /\ step'[g] = step[g]
        /\ status[f] \in {"todo", "run"} /\ status'[f] # "todo"
        /\ status[f] = "todo" => Considered(f)
        /\ Steps' /\ (step'[f] = "none" <=> status'[f] # "run")
    BY <1>3, EffectFacts
  <2>2. ASSUME NEW g \in Files
        PROVE  step'[g] = "none" <=> status'[g] # "run"
    BY <2>1 DEF Progress
  <2>3. ASSUME NEW g \in Files, status'[g] # "todo", NEW p \in Deps(g) \ {Src}
        PROVE  status'[p] = "done"
    <3>1. p \in Files
      BY DepsFacts
    <3>2. status[p] = "done"
      BY <2>1, <2>3 DEF Progress, Done, Considered
    <3> QED
      BY <2>1, <3>1, <3>2
  <2> QED
    BY <1>1, <2>1, <2>2, <2>3 DEF Progress, Done
<1> QED
  BY <1>2, <1>3

(***************************************************************************)
(* Memory is kept: what is newer than its product is known to be, and what *)
(* is done is there.                                                       *)
(***************************************************************************)
LEMMA MemoryKept ==
  ASSUME TypeOK, Progress, Memory, NEW f \in Files, Keeps, Rests \/ Effect(f)
  PROVE  Memory'
<1>1. /\ make = "run" /\ make' = "run" /\ absent' = absent /\ count' = count
  BY DEF Keeps
<1>2. /\ Src \in exists /\ count \in [makes : Nat, edits : Nat, kills : Nat]
      /\ newer \subseteq dirty /\ Files \ absent \subseteq exists /\ TrrFiles \subseteq exists
      /\ \A g \in Files : Done(g) /\ (g[2] = All \/ g[1] = "bin") => g \in exists
      /\ \A t \in Tests : Done(<<"trr", t>>) => <<<<"log", t>>, <<"trr", t>>>> \notin newer
  <2>1. file # Absent
    BY <1>1 DEF Progress
  <2> QED
    BY <1>1, <2>1 DEF Memory
<1>0. result' # "ok"
  BY <1>1 DEF Keeps, Progress
<1>3. CASE Rests
  BY <1>0, <1>1, <1>2, <1>3 DEF Rests, WriteNothing, Memory, Done
<1>4. CASE Effect(f)
  <2>1. /\ \A g \in Files \ {f} : status'[g] = status[g]
        /\ status[f] \in {"todo", "run"}
    BY <1>4, EffectFacts
  <2>2. /\ exists \subseteq exists' /\ newer' \subseteq dirty'
        /\ \A p, g : <<p, g>> \in newer' => <<p, g>> \in newer \/ p = f \/ p[1] = "trr"
    <3>1. CASE WriteNothing
      BY <1>2, <3>1 DEF WriteNothing
    <3>2. CASE Write({f})
      BY <1>2, <3>2, WriteFacts
    <3>3. ASSUME <<"trr", f[2]>> \in Files, Write({<<"trr", f[2]>>})
          PROVE  /\ exists \subseteq exists' /\ newer' \subseteq dirty'
                 /\ \A p, g : <<p, g>> \in newer' => <<p, g>> \in newer \/ p = f \/ p[1] = "trr"
      BY <1>2, <3>3, WriteFacts
    <3> QED
      BY <1>4, <3>1, <3>2, <3>3, EffectWrites
  <2>3. ASSUME NEW g \in Files, status'[g] = "done", g[2] = All \/ g[1] = "bin"
        PROVE  g \in exists'
    <3>1. CASE g # f
      BY <1>2, <2>1, <2>2, <2>3, <3>1 DEF Done
    <3>2. CASE g = f
      <4>1. CASE Skips(f)
        BY <1>2, <2>2, <3>2, <4>1 DEF Skips, MustMake
      <4>2. CASE Makes(f)
        BY <3>2, <4>2, WriteFacts DEF Makes
      <4>3. CASE Starts(f) \/ Goes(f) \/ Ends(f, FALSE)
        BY <2>3, <3>2, <4>3 DEF Starts, Goes, Ends, TypeOK
      <4>4. CASE Exports(f)
        BY <2>3, <3>2, <4>4, FileFacts DEF Exports
      <4> QED
        BY <1>4, <4>1, <4>2, <4>3, <4>4 DEF Effect, Fails, WritesOwn, ExportsEarly
    <3> QED
      BY <3>1, <3>2
  <2>4. ASSUME NEW t \in Tests, status'[<<"trr", t>>] = "done"
        PROVE  <<<<"log", t>>, <<"trr", t>>>> \notin newer'
    <3> DEFINE g == <<"trr", t>>
               l == <<"log", t>>
    <3>1. g \in Files /\ l \in Files /\ Deps(g) = {l} /\ l # Src /\ l[1] # "trr" /\ g[1] = "trr"
          /\ g[2] = t /\ t # All
      BY FileFacts, RuleFacts DEF Src
    <3> HIDE DEF g, l
    <3>2. CASE g # f
      <4>1. Done(g)
        BY <2>1, <2>4, <3>1, <3>2 DEF Done, g
      <4>2. Done(l)
        BY <3>1, <4>1 DEF Progress, Done
      <4>3. l # f
        BY <2>1, <4>2 DEF Done
      <4>4. <<l, g>> \notin newer
        BY <1>2, <4>1 DEF g, l
      <4> QED
        BY <2>2, <3>1, <4>3, <4>4 DEF g, l
    <3>3. CASE g = f
      <4>1. CASE Skips(f)
        BY <1>2, <3>1, <3>3, <4>1 DEF Skips, MustMake, WriteNothing, g, l
      <4>2. CASE Exports(f)
        <5>1. Write({g})
          BY <3>1, <3>3, <4>2 DEF Exports, g
        <5>2. <<l, g>> \notin newer'
          BY <3>1, <5>1, WriteFacts
        <5> QED
          BY <5>2 DEF g, l
      <4>3. CASE Starts(f) \/ Goes(f) \/ Ends(f, FALSE)
        BY <2>4, <3>1, <3>3, <4>3 DEF Starts, Goes, Ends, TypeOK, g
      <4>4. CASE Makes(f)
        BY <3>1, <3>3, <4>4 DEF Makes
      <4> QED
        BY <1>4, <4>1, <4>2, <4>3, <4>4 DEF Effect, Fails, WritesOwn, ExportsEarly
    <3> QED
      BY <3>2, <3>3
  <2> QED
    BY <1>0, <1>1, <1>2, <2>2, <2>3, <2>4 DEF Memory, Done
<1> QED
  BY <1>3, <1>4

(***************************************************************************)
(* What is up to date for good stays so while nothing it is made from is   *)
(* touched.                                                                *)
(***************************************************************************)
LEMMA Untouched ==
  ASSUME NEW g \in Files, UpToDateForGood(g), make = "run", Keeps,
         exists \subseteq exists',
         \A p \in Deps(g) : <<p, g>> \in newer' => <<p, g>> \in newer,
         \A p \in Deps(g) : <<p, g>> \in dirty' => <<p, g>> \in dirty,
         \A p \in Deps(g) \ {Src} : status'[p] # "run",
         \/ status'[g] = status[g] /\ step'[g] = step[g]
         \/ status'[g] = "done"
  PROVE  UpToDateForGood(g)'
BY DEF UpToDateForGood, Done, MustMake, Keeps

(***************************************************************************)
(* Stable is kept: without edits a file that is there is not made again,   *)
(* and a file that is made is made after all it is made from.              *)
(***************************************************************************)
LEMMA StableKept ==
  ASSUME TypeOK, Progress, Steps, Memory, Stable, NEW f \in Files, Keeps, Rests \/ Effect(f)
  PROVE  Stable'
<1> SUFFICES ASSUME count.edits = 0, NEW g \in Sim, g \in exists'
             PROVE  UpToDateForGood(g)'
  BY DEF Stable, Keeps
<1>1. make = "run" /\ g \in Files
  BY DEF Keeps, Sim
<1>2. \A h \in Sim \cap exists : UpToDateForGood(h)
  BY DEF Stable
<1>3. CASE Rests
  BY <1>1, <1>2, <1>3 DEF Rests, WriteNothing, UpToDateForGood, Done, MustMake, Keeps
<1>4. CASE Effect(f)
  <2>1. /\ \A h \in Files \ {f} : status'[h] = status[h] /\ step'[h] = step[h]
        /\ status[f] \in {"todo", "run"}
    BY <1>4, EffectFacts
  <2>2. \A p \in Deps(g) : /\ p \in Files \cup {Src} /\ p # g /\ p \in Sim \cup {Src}
                           /\ p[1] # "trr"
    BY <1>1, DepsFacts
  <2>3. CASE g \in exists
    <3>1. UpToDateForGood(g)
      BY <1>2, <2>3
    <3>2. f \in Deps(g) => f \in Sim \cap exists /\ status[f] # "run" /\ UpToDateForGood(f)
      <4>1. f # Src
        BY FileFacts
      <4> QED
        BY <1>2, <2>2, <3>1, <4>1 DEF UpToDateForGood
    <3>3. CASE Skips(f)
      <4>1. \A p \in Deps(g) \ {Src} : status'[p] # "run"
        BY <2>1, <2>2, <3>1, <3>3 DEF UpToDateForGood, Skips, TypeOK
      <4>2. (status'[g] = status[g] /\ step'[g] = step[g]) \/ status'[g] = "done"
        BY <1>1, <2>1, <3>3 DEF Skips, TypeOK
      <4> QED
        BY <1>1, <3>1, <3>3, <4>1, <4>2, Untouched DEF Skips, WriteNothing
    <3>4. CASE ~Skips(f)
      <4>1. f \notin Deps(g)
        <5>1. SUFFICES ASSUME f \in Deps(g) PROVE FALSE
          OBVIOUS
        <5>2. status[f] = "todo" /\ ~MustMake(f)
          BY <1>1, <2>1, <3>2, <5>1 DEF UpToDateForGood, Done
        <5> QED
          BY <1>4, <3>4, <5>2, EffectKinds
      <4>2. f = g => Exports(f)
        <5>1. SUFFICES ASSUME f = g, ~Exports(f) PROVE FALSE
          OBVIOUS
        <5>2. \/ status[f] = "todo" /\ ~MustMake(f)
              \/ status[f] = "run" /\ step[f] = "export"
          BY <1>1, <2>1, <3>1, <5>1 DEF UpToDateForGood, Done
        <5> QED
          BY <1>4, <3>4, <5>1, <5>2, EffectKinds
      <4>3. \A p \in Deps(g) \ {Src} : status'[p] # "run"
        BY <2>1, <2>2, <3>1, <4>1 DEF UpToDateForGood
      <4>4. (status'[g] = status[g] /\ step'[g] = step[g]) \/ status'[g] = "done"
        <5>1. CASE f # g
          BY <1>1, <2>1, <5>1
        <5>2. CASE f = g
          BY <1>1, <4>2, <5>2 DEF Exports, Ends, TypeOK
        <5> QED
          BY <5>1, <5>2
      <4>5. /\ exists \subseteq exists'
            /\ \A p \in Deps(g) : /\ <<p, g>> \in newer' => <<p, g>> \in newer
                                  /\ <<p, g>> \in dirty' => <<p, g>> \in dirty
        <5>1. CASE WriteNothing
          BY <5>1 DEF WriteNothing
        <5>2. CASE Write({f})
          BY <4>1, <5>2, WriteFacts
        <5>3. ASSUME <<"trr", f[2]>> \in Files, Write({<<"trr", f[2]>>})
              PROVE  /\ exists \subseteq exists'
                     /\ \A p \in Deps(g) : /\ <<p, g>> \in newer' => <<p, g>> \in newer
                                           /\ <<p, g>> \in dirty' => <<p, g>> \in dirty
          <6>1. <<"trr", f[2]>> \notin Deps(g)
            BY <2>2
          <6> QED
            BY <5>3, <6>1, WriteFacts
        <5> QED
          BY <1>4, <5>1, <5>2, <5>3, EffectWrites
      <4> QED
        BY <1>1, <3>1, <4>3, <4>4, <4>5, Untouched
    <3> QED
      BY <3>3, <3>4
  <2>4. CASE g \notin exists
    <3>1. (WritesOwn(f) \/ Makes(f)) /\ Write({f}) /\ g = f
      <4>1. ~WriteNothing
        BY <2>4 DEF WriteNothing
      <4>2. g[1] # "trr"
        BY DEF Sim, SimKinds
      <4>3. ASSUME <<"trr", f[2]>> \in Files, Write({<<"trr", f[2]>>}) PROVE FALSE
        BY <2>4, <4>2, <4>3, WriteFacts
      <4>4. ASSUME Write({f}) PROVE g = f
        BY <2>4, <4>4, WriteFacts
      <4> QED
        BY <1>4, <4>1, <4>3, <4>4, EffectWrites
    <3>2. /\ exists' = exists \cup {f} /\ \A p, h : <<p, h>> \in newer' => h # f
      BY <3>1, WriteFacts
    <3>3. status[f] = "run"
      BY <3>1 DEF WritesOwn, Makes, Goes
    <3>4. \A p \in Deps(f) \ {Src} : Done(p)
      BY <3>3 DEF Progress
    <3>5. \A p \in Deps(f) : p \in exists
      <4>1. CASE f[1] = "bin" /\ f[2] # All
        BY <3>1, <4>1 DEF Makes, WritesOwn
      <4>2. CASE f[1] # "bin"
        <5>1. ASSUME NEW p \in Deps(f), p # Src PROVE p \in exists
          <6>1. p[2] = All \/ p[1] = "bin"
            BY <1>1, <3>1, <4>2, <5>1, DepsFacts
          <6>2. p \in Files /\ Done(p)
            BY <2>2, <3>1, <3>4, <5>1
          <6> QED
            BY <1>1, <6>1, <6>2 DEF Memory
        <5>2. Src \in exists
          BY DEF Memory
        <5> QED
          BY <5>1, <5>2
      <4>3. f[2] = All => f[1] # "bin"
        BY FileFacts, RegressionAssumption DEF Stamp
      <4> QED
        BY <4>1, <4>2, <4>3
    <3>6. \A p \in Deps(f) \ {Src} : status'[p] # "run"
      <4>1. \A p \in Deps(f) \ {Src} : p \in Files /\ p # f /\ status[p] = "done"
        BY <2>2, <3>1, <3>4 DEF Done
      <4> QED
        BY <2>1, <4>1
    <3>7. status'[f] = "done" \/ (status'[f] = "run" /\ step'[f] = "export")
      <4>1. CASE WritesOwn(f)
        BY <3>3, <4>1 DEF WritesOwn, Goes
      <4>2. CASE Makes(f)
        BY <4>2 DEF Makes, Ends, TypeOK
      <4> QED
        BY <3>1, <4>1, <4>2
    <3> QED
      BY <3>1, <3>2, <3>5, <3>6, <3>7 DEF UpToDateForGood, Done
  <2> QED
    BY <2>3, <2>4
<1> QED
  BY <1>3, <1>4

-----------------------------------------------------------------------------
(* What a step of a recipe does to the results.                            *)

SameData == UNCHANGED <<trr, logs, report>>

Simulates(f) ==
  /\ f[1] = "log" /\ f[2] \in Tests /\ status[f] = "run" /\ step[f] = "run"
  /\ WritesOwn(f)
  /\ \E o \in Outcomes :
       \/ logs' = [logs EXCEPT ![f[2]] = o] /\ UNCHANGED trr
       \/ /\ logs' = [logs EXCEPT ![f[2]] = CutShort(o)]
          /\ trr' = [trr EXCEPT ![f[2]].failure_mode = "TIMEOUT"]
  /\ UNCHANGED report

Checks(f) ==
  /\ f[1] = "trr" /\ f[2] \in Tests /\ status[f] = "run" /\ step[f] = "exec"
  /\ ~CompareRaises(trr[f[2]], logs[f[2]])
  /\ trr' = [trr EXCEPT ![f[2]] = CompareTestRun(@, logs[f[2]])]
  /\ UNCHANGED <<status, logs, report>> /\ WriteNothing

Collects(f) ==
  /\ f = Goal /\ status[f] = "run" /\ report' = Collect
  /\ UNCHANGED <<status, trr, logs>> /\ WriteNothing

Data(f) == SameData \/ Simulates(f) \/ Checks(f) \/ Collects(f)

\* No verdict is exported that was not reached, none reported that was not
\* collected, and nothing succeeds while a test has failed.
Earned(f) ==
  /\ f[1] = "trr" /\ step'[f] = "export" => step[f] = "export" \/ Checks(f)
  /\ f = Goal /\ step'[f] = "exec" => step[f] = "exec" \/ Collects(f)
  /\ f = Goal /\ status'[f] = "done" =>
       \/ Skips(f)
       \/ step[f] = "exec" /\ SameData /\ \A t \in Tests : report[t] = "PASS"

(***************************************************************************)
(* The goal is a stamp.                                                    *)
(***************************************************************************)
LEMMA GoalFacts ==
  /\ Goal \in Files /\ Goal[1] = "regr" /\ Goal[2] = All /\ All \notin Tests
  /\ Goal = Stamp("regr")
BY FileFacts, RegressionAssumption DEF Goal, Stamp, Tests

(***************************************************************************)
(* The results in a step of the recipe of a file.                          *)
(***************************************************************************)
LEMMA FileData ==
  ASSUME TypeOK, Progress, Steps, NEW f \in Files, OfFile(f)
  PROVE  Data(f) /\ Earned(f)
<1>1. step[f] # "none" => status[f] = "run"
  BY DEF Progress
<1>2. \/ f[2] = All
      \/ f[2] \in Tests /\ f[1] \in {"asm", "bin", "log", "trr"} /\ f[2] # All
  BY FileFacts
<1>3. /\ step \in [Files -> {"none", "open", "body", "raise", "exec", "run", "export"}]
      /\ status \in [Files -> {"todo", "run", "done", "failed"}]
  BY DEF TypeOK
<1>4. f = Goal => f[1] = "regr" /\ f[2] \notin Tests
  BY GoalFacts
<1>5. f[1] = "trr" => f[2] \in Tests
  BY FileFacts, RegressionAssumption
<1>6. CASE Skip(f)
  <2>1. Skips(f) /\ SameData /\ UNCHANGED step
    BY <1>6 DEF Skip, Skips, UpToDate, WriteNothing, SameData
  <2> QED
    BY <2>1 DEF Data, Earned
<1>7. CASE Start(f)
  <2>1. SameData /\ step'[f] = "open" /\ status'[f] = "run"
    BY <1>3, <1>7 DEF Start, SameData
  <2> QED
    BY <2>1 DEF Data, Earned
<1>8. ASSUME f # Goal, step'[f] # "export", SameData
      PROVE  Data(f) /\ Earned(f)
  BY <1>8 DEF Data, Earned
<1>9. CASE ReadPickles(f) \/ Dies(f) \/ ExportFirst(f)
  <2>1. SameData
    BY <1>9 DEF ReadPickles, Dies, ExportFirst, SameData
  <2>2. f # Goal
    BY <1>4, <1>9 DEF ReadPickles, Dies, ExportFirst
  <2>3. step'[f] # "export"
    BY <1>3, <1>9 DEF ReadPickles, Dies, ExportFirst, Ends
  <2> QED
    BY <1>8, <2>1, <2>2, <2>3
<1>10. CASE Generate(f) \/ Compile(f) \/ Export(f)
  <2>1. SameData
    BY <1>10 DEF Generate, Compile, Export, SameData
  <2>2. f # Goal
    BY <1>4, <1>10 DEF Generate, Compile, Export
  <2>3. f[1] = "trr" => step'[f] # "export"
    BY <1>3, <1>10 DEF Generate, Compile, Export, Ends
  <2> QED
    BY <2>1, <2>2, <2>3 DEF Data, Earned
<1>11. CASE Simulate(f)
  <2>1. status[f] = "run" /\ step[f] = "run" /\ f[1] = "log"
    BY <1>1, <1>11 DEF Simulate
  <2>2. f[2] \in Tests /\ f # Goal
    BY <1>2, <1>4, <2>1, FileFacts, RegressionAssumption
  <2>3. "export" \in StepKinds(f) \ {"none"}
    BY <1>2, <2>1, <2>2, RegressionAssumption DEF StepKinds, Tests
  <2>4. Goes(f) /\ step'[f] = "export"
    BY <1>3, <1>11, <2>1, <2>3 DEF Simulate, Goes
  <2>5. Write({f}) => WritesOwn(f)
    BY <2>1, <2>2, <2>4 DEF WritesOwn
  <2>6. SameData \/ Simulates(f)
    BY <1>11, <2>1, <2>2, <2>5 DEF Simulate, Simulates, SameData
  <2> QED
    BY <2>1, <2>2, <2>6 DEF Data, Earned
<1>12. CASE Check(f)
  <2>1. status[f] = "run" /\ step[f] = "exec" /\ f[1] = "trr" /\ f[2] \in Tests /\ f # Goal
    BY <1>1, <1>4, <1>5, <1>12 DEF Check
  <2>2. CASE CompareRaises(trr[f[2]], logs[f[2]])
    <3>1. SameData /\ step'[f] = "none"
      BY <1>3, <1>12, <2>2 DEF Check, Ends, SameData
    <3> QED
      BY <2>1, <3>1 DEF Data, Earned
  <2>3. CASE ~CompareRaises(trr[f[2]], logs[f[2]])
    <3>1. Checks(f)
      BY <1>12, <2>1, <2>3 DEF Check, Checks, WriteNothing
    <3> QED
      BY <2>1, <3>1 DEF Data, Earned
  <2> QED
    BY <2>2, <2>3
<1> QED
  BY <1>6, <1>7, <1>9, <1>10, <1>11, <1>12 DEF OfFile

(***************************************************************************)
(* The results in a step of a script that uses the store.                  *)
(***************************************************************************)
LEMMA ScriptData ==
  ASSUME TypeOK, Positions, Progress, Steps, NEW s \in {f[1] : f \in Stamps}, OfScript(s)
  PROVE  Data(Stamp(s)) /\ Earned(Stamp(s))
<1> DEFINE f == Stamp(s)
<1>1. s \in Scripts
  BY StampNames
<1>2. f \in Files /\ f[1] = s /\ (f = Goal <=> s = "regr") /\ s # "trr"
  BY <1>1, FileFacts, RegressionAssumption DEF Stamp, Goal
<1>3. /\ step \in [Files -> {"none", "open", "body", "raise", "exec", "run", "export"}]
      /\ status \in [Files -> {"todo", "run", "done", "failed"}]
  BY DEF TypeOK
<1>4. /\ step[f] # "none" => status[f] = "run"
      /\ at[s] = "wait" => step[f] = "open"
      /\ at[s] = "in" => step[f] = "body"
      /\ at[s] = "dump" => step[f] \in {"exec", "raise"}
  BY <1>1, <1>2 DEF Progress, Positions
<1> HIDE DEF f
<1>5. ASSUME SameData, step'[f] = "exec" => step[f] = "exec", status'[f] # "done"
      PROVE  Data(f) /\ Earned(f)
  BY <1>2, <1>5 DEF Data, Earned
<1>6. CASE OpenStore(s) \/ CloseStore(s)
  <2>1. SameData /\ step' = step /\ status' = status
    BY <1>6 DEF OpenStore, CloseStore, SameData, makeVars
  <2>2. status[f] = "run"
    BY <1>4, <1>6 DEF OpenStore, CloseStore, Unlock, f
  <2> QED
    BY <1>5, <2>1, <2>2 DEF f
<1>7. CASE LockStore(s)
  <2>1. SameData /\ step'[f] = "body" /\ status' = status
    BY <1>2, <1>3, <1>7 DEF LockStore, SameData, f
  <2>2. status[f] = "run"
    BY <1>4, <1>7 DEF LockStore, Lock
  <2> QED
    BY <1>5, <2>1, <2>2 DEF f
<1>8. CASE LockStoreFails(s)
  <2>1. SameData /\ step'[f] = "none" /\ status'[f] = "failed"
    BY <1>2, <1>3, <1>8 DEF LockStoreFails, SameData, Ends, f
  <2> QED
    BY <1>5, <2>1 DEF f
<1>9. CASE Body(s)
  <2>1. status[f] = "run" /\ status' = status /\ WriteNothing
    BY <1>4, <1>9 DEF Body, WriteNothing, f
  <2>2. CASE step'[f] = "exec" /\ f = Goal
    <3>1. step' = [step EXCEPT ![f] = "exec"] \/ step' = [step EXCEPT ![f] = "raise"]
      BY <1>9 DEF Body, f
    <3>2. report' = Collect /\ UNCHANGED <<trr, logs>>
      BY <1>2, <1>3, <1>9, <2>2 DEF Body, f
    <3>3. Collects(f)
      BY <2>1, <2>2, <3>2 DEF Collects
    <3> QED
      BY <1>2, <2>1, <2>2, <3>3 DEF Data, Earned, f
  <2>3. CASE f # Goal
    <3>1. SameData
      BY <1>2, <1>9, <2>3 DEF Body, SameData
    <3> QED
      BY <1>2, <2>3, <3>1 DEF Data, Earned, f
  <2>4. CASE step'[f] # "exec"
    <3>1. SameData
      BY <1>2, <1>3, <1>9, <2>4 DEF Body, SameData, f
    <3> QED
      BY <1>5, <2>1, <2>4, <3>1 DEF f
  <2> QED
    BY <2>2, <2>3, <2>4
<1>10. CASE Execute(s)
  <2>1. SameData /\ step'[f] = "none"
    BY <1>2, <1>3, <1>10 DEF Execute, SameData, Ends, f
  <2>2. f = Goal /\ status'[f] = "done" =>
          step[f] = "exec" /\ \A t \in Tests : report[t] = "PASS"
    BY <1>2, <1>3, <1>10 DEF Execute, Ends, StampSucceeds, f
  <2> QED
    BY <1>2, <2>1, <2>2 DEF Data, Earned, f
<1> QED
  BY <1>6, <1>7, <1>8, <1>9, <1>10 DEF OfScript, f

-----------------------------------------------------------------------------
(* The verdict on a log.                                                   *)

(***************************************************************************)
(* A set of numbers that is not empty has a least element.                 *)
(***************************************************************************)
LEMMA LeastElement ==
  ASSUME NEW S \in SUBSET Nat, S # {}
  PROVE  \E m \in S : \A k \in S : m <= k
<1>1. IsWellFoundedOn(OpToRel(<, Nat), Nat)
  BY NatLessThanWellFounded
<1>2. \E m \in S : \A k \in S : <<k, m>> \notin OpToRel(<, Nat)
  BY <1>1, WFMin
<1>3. \A k, m \in Nat : k < m => <<k, m>> \in OpToRel(<, Nat)
  BY DEF OpToRel
<1>4. PICK m \in S : \A k \in S : <<k, m>> \notin OpToRel(<, Nat)
  BY <1>2
<1>5. ASSUME NEW k \in S PROVE m <= k
  <2>1. k \in Nat /\ m \in Nat
    OBVIOUS
  <2>2. ~(k < m)
    BY <1>3, <1>4, <2>1
  <2> QED
    BY <2>1, <2>2
<1> QED
  BY <1>5

(***************************************************************************)
(* What is counted in a trace is a number.                                 *)
(***************************************************************************)
LEMMA CountType ==
  ASSUME NEW trace \in Seq({"instr", "ecall", "other"})
  PROVE  InstrCount(trace) \in Nat
<1> DEFINE S == {i \in Lines(trace, {"instr"}) : \A j \in Lines(trace, {"ecall"}) : i < j}
<1>1. IsFiniteSet(1..Len(trace))
  BY FS_Interval
<1>2. S \subseteq 1..Len(trace)
  BY DEF Lines
<1>3. IsFiniteSet(S)
  BY <1>1, <1>2, FS_Subset
<1>4. Cardinality(S) \in Nat
  BY <1>3, FS_CardinalityType
<1> QED
  BY <1>4 DEF InstrCount

(***************************************************************************)
(* check_ibex_uvm_log passes a log exactly if it has a line that says that *)
(* the test passed with nothing bad before it, and none that says that it  *)
(* failed.                                                                 *)
(***************************************************************************)
LEMMA PassedLog ==
  ASSUME NEW log \in Seq(LineKinds)
  PROVE  UvmPassed(log) <=>
           /\ \E i \in DOMAIN log :
                log[i] = "passed" /\ \A j \in 1..i - 1 : log[j] \notin {"error", "timeout"}
           /\ \A i \in DOMAIN log : log[i] # "failed"
<1>1. DOMAIN log = 1..Len(log) /\ Len(log) \in Nat
  OBVIOUS
<1>2. /\ \A i : i \in Lines(log, {"passed"}) <=> i \in 1..Len(log) /\ log[i] = "passed"
      /\ \A i : i \in Lines(log, {"failed"}) <=> i \in 1..Len(log) /\ log[i] = "failed"
      /\ \A i : i \in Lines(log, Results) <=> i \in 1..Len(log) /\ log[i] \in {"passed", "failed"}
      /\ \A i : i \in Lines(log, {"error", "timeout"}) <=>
                  i \in 1..Len(log) /\ log[i] \in {"error", "timeout"}
  BY <1>1 DEF Lines, Results
<1>3. Lines(log, {"failed"}) = {} => UvmRead(log) = log
  BY DEF UvmRead
<1>4. UvmPassed(log) <=> /\ Lines(log, {"passed"}) # {} /\ Lines(log, {"failed"}) = {}
                         /\ ErrorLines(log) = {}
  BY <1>3 DEF UvmPassed, UvmFailed
<1>5. ASSUME NEW i \in Lines(log, {"passed"}), Lines(log, {"failed"}) = {},
             \A j \in 1..i - 1 : log[j] \notin {"error", "timeout"}
      PROVE  ErrorLines(log) = {}
  <2>1. SUFFICES ASSUME NEW e \in ErrorLines(log) PROVE FALSE
    OBVIOUS
  <2>2. e \in Lines(log, {"error", "timeout"}) /\ \A j \in Lines(log, Results) : e < j
    BY DEF ErrorLines
  <2>3. e \in 1..Len(log) /\ i \in 1..Len(log) /\ i \in Lines(log, Results)
        /\ log[e] \in {"error", "timeout"}
    BY <1>2, <1>5, <2>2
  <2>4. e < i
    BY <2>2, <2>3
  <2>5. e \in 1..i - 1
    BY <1>1, <2>3, <2>4
  <2> QED
    BY <1>5, <2>3, <2>5
<1>6. ASSUME Lines(log, {"passed"}) # {}, Lines(log, {"failed"}) = {}, ErrorLines(log) = {}
      PROVE  \E i \in Lines(log, {"passed"}) :
               \A j \in 1..i - 1 : log[j] \notin {"error", "timeout"}
  <2>1. Lines(log, {"passed"}) \in SUBSET Nat
    BY <1>1, <1>2
  <2>2. PICK i \in Lines(log, {"passed"}) : \A k \in Lines(log, {"passed"}) : i <= k
    BY <1>6, <2>1, LeastElement
  <2>3. i \in 1..Len(log)
    BY <1>2
  <2>4. ASSUME NEW j \in 1..i - 1, log[j] \in {"error", "timeout"} PROVE FALSE
    <3>1. j \in 1..Len(log) /\ j < i
      BY <1>1, <2>3
    <3>2. j \in Lines(log, {"error", "timeout"})
      BY <1>2, <2>4, <3>1
    <3>3. PICK k \in Lines(log, Results) : ~(j < k)
      BY <1>6, <3>2 DEF ErrorLines
    <3>4. k \in 1..Len(log) /\ k \in Lines(log, {"passed"})
      BY <1>2, <1>6, <3>3
    <3>5. i <= k
      BY <2>2, <3>4
    <3> QED
      BY <1>1, <2>3, <3>1, <3>3, <3>4, <3>5
  <2> QED
    BY <2>4
<1>7. Lines(log, {"failed"}) = {} <=> \A i \in DOMAIN log : log[i] # "failed"
  BY <1>1, <1>2
<1>8. \A i : i \in Lines(log, {"passed"}) <=> i \in DOMAIN log /\ log[i] = "passed"
  BY <1>1, <1>2
<1> QED
  BY <1>4, <1>5, <1>6, <1>7, <1>8

(***************************************************************************)
(* The logs are sequences of lines.                                        *)
(***************************************************************************)
LEMMA LogTypes ==
  ASSUME TypeOK, NEW t \in Tests
  PROVE  /\ logs[t].uvm \in Seq(LineKinds) /\ logs[t].trace \in Seq({"instr", "ecall", "other"})
         /\ logs[t].open \in BOOLEAN
<1>1. \A o \in Outcomes : o.uvm \in Seq(LineKinds) /\ o.trace \in Seq({"instr", "ecall", "other"})
  BY RegressionAssumption
<1>2. logs[t] \in [open : BOOLEAN, uvm : {<<>>} \cup {o.uvm : o \in Outcomes},
                   trace : {<<>>} \cup {o.trace : o \in Outcomes}]
  BY DEF TypeOK
<1>3. <<>> \in Seq(LineKinds) /\ <<>> \in Seq({"instr", "ecall", "other"})
  OBVIOUS
<1> QED
  BY <1>1, <1>2, <1>3

(***************************************************************************)
(* compare_test_run passes a test exactly if its simulation did.           *)
(***************************************************************************)
LEMMA JudgedFacts ==
  ASSUME TypeOK, NEW t \in Tests
  PROVE  Judged(t) <=> UvmPassed(logs[t].uvm) /\ ~TraceRaises(logs[t].trace)
<1>1. logs[t].uvm \in Seq(LineKinds) /\ logs[t].trace \in Seq({"instr", "ecall", "other"})
  BY LogTypes
<1>2. InstrCount(logs[t].trace) \in Nat
  BY <1>1, CountType
<1>3. InstrCount(logs[t].trace) > 0 <=> ~TraceRaises(logs[t].trace)
  BY <1>2 DEF TraceRaises
<1> QED
  BY <1>1, <1>3, PassedLog DEF Judged

(***************************************************************************)
(* What compare_test_run makes of a result.                                *)
(***************************************************************************)
LEMMA CompareFacts ==
  ASSUME NEW r \in TestRunResult, NEW l
  PROVE  /\ CompareTestRun(r, l) \in TestRunResult
         /\ CompareTestRun(r, l).passed = "True" =>
              r.passed = "True" \/ (UvmPassed(l.uvm) /\ ~FileError(l))
         /\ UvmPassed(l.uvm) /\ ~FileError(l) =>
              \/ CompareTestRun(r, l).passed = "True"
              \/ CompareTestRun(r, l).failure_mode = "TIMEOUT"
<1> DEFINE c == CompareTestRun(r, l)
<1>1. UvmMode(l.uvm) \in {"NONE", "TIMEOUT", "LOG_ERROR"}
  BY DEF UvmMode
<1>2. r.passed \in {"None", "True", "False"} /\ r.failure_mode \in FailureModes
  BY DEF TestRunResult
<1>3. CASE Killed_in_run_rtl(r)
  <2>1. c = [r EXCEPT !.passed = "False"]
    BY <1>3 DEF CompareTestRun
  <2>2. c \in TestRunResult /\ c.passed = "False" /\ c.failure_mode = "TIMEOUT"
    BY <1>3, <2>1 DEF TestRunResult, Killed_in_run_rtl
  <2> QED
    BY <2>2
<1>4. CASE ~Killed_in_run_rtl(r) /\ FileError(l)
  <2>1. c = [r EXCEPT !.passed = "False", !.failure_mode = "FILE_ERROR"]
    BY <1>4 DEF CompareTestRun, Failed
  <2>2. c \in TestRunResult /\ c.passed = "False"
    BY <2>1 DEF TestRunResult, FailureModes
  <2> QED
    BY <1>4, <2>2
<1>5. CASE ~Killed_in_run_rtl(r) /\ ~FileError(l) /\ ~UvmPassed(l.uvm)
  <2>1. c = [r EXCEPT !.failure_mode = UvmMode(l.uvm)]
    BY <1>5 DEF CompareTestRun
  <2>2. c \in TestRunResult /\ c.passed = r.passed
    BY <1>1, <2>1 DEF TestRunResult, FailureModes
  <2> QED
    BY <1>5, <2>2
<1>6. CASE ~Killed_in_run_rtl(r) /\ ~FileError(l) /\ UvmPassed(l.uvm)
  <2>1. c = [r EXCEPT !.passed = "True"]
    BY <1>6 DEF CompareTestRun
  <2>2. c \in TestRunResult /\ c.passed = "True"
    BY <2>1 DEF TestRunResult
  <2> QED
    BY <1>6, <2>2
<1> QED
  BY <1>3, <1>4, <1>5, <1>6

-----------------------------------------------------------------------------
(* The parts of the invariant that are about the results.                  *)

(***************************************************************************)
(* A step changes the result and the log of the test of its file alone.    *)
(***************************************************************************)
LEMMA DataFacts ==
  ASSUME TypeOK, NEW f \in Files, Data(f), NEW t \in Tests
  PROVE  /\ logs'[t] = logs[t] \/ (f = <<"log", t>> /\ Simulates(f))
         /\ \/ trr'[t] = trr[t]
            \/ /\ f = <<"log", t>> /\ Simulates(f)
               /\ trr'[t] = [trr[t] EXCEPT !.failure_mode = "TIMEOUT"]
            \/ /\ f = <<"trr", t>> /\ Checks(f)
               /\ trr'[t] = CompareTestRun(trr[t], logs[t])
<1>1. /\ trr \in [Tests -> TestRunResult \cup {TornResult}]
      /\ DOMAIN logs = Tests
  BY DEF TypeOK
<1>2. f[2] \in Tests => f = <<f[1], f[2]>>
  BY FileFacts, RegressionAssumption DEF Tests
<1>3. CASE SameData \/ Collects(f)
  BY <1>3 DEF SameData, Collects
<1>4. CASE Simulates(f)
  <2>1. f = <<"log", f[2]>> /\ f[2] \in Tests
    BY <1>2, <1>4 DEF Simulates
  <2>2. CASE f[2] = t
    BY <1>1, <1>4, <2>1, <2>2 DEF Simulates
  <2>3. CASE f[2] # t
    BY <1>1, <1>4, <2>3 DEF Simulates
  <2> QED
    BY <2>2, <2>3
<1>5. CASE Checks(f)
  <2>1. f = <<"trr", f[2]>> /\ f[2] \in Tests
    BY <1>2, <1>5 DEF Checks
  <2>2. CASE f[2] = t
    BY <1>1, <1>5, <2>1, <2>2 DEF Checks
  <2>3. CASE f[2] # t
    BY <1>1, <1>5, <2>3 DEF Checks
  <2> QED
    BY <2>2, <2>3
<1> QED
  BY <1>3, <1>4, <1>5 DEF Data

(***************************************************************************)
(* A script that goes on has found its result whole, and leaves it so.     *)
(***************************************************************************)
LEMMA UnpickledResult ==
  ASSUME TypeOK, Unpickled, NEW f \in Files, NEW t \in Tests, f[2] = t,
         step[f] \notin {"none", "open"}
  PROVE  trr[t] \in TestRunResult
BY DEF Unpickled, TypeOK

(***************************************************************************)
(* The logs, the results and the report keep their types.                  *)
(***************************************************************************)
LogUvm == {<<>>} \cup {o.uvm : o \in Outcomes}
LogTrace == {<<>>} \cup {o.trace : o \in Outcomes}
LogType == [open : BOOLEAN, uvm : LogUvm, trace : LogTrace]
ResultTypes ==
  /\ trr \in [Tests -> TestRunResult \cup {TornResult}]
  /\ logs \in [Tests -> LogType]
  /\ report \in [Tests -> {"none", "PASS", "FAILED", "FAILED {T}"}]

\* A log that was cut short has been opened and says nothing of UVM.
LEMMA CutShortFacts ==
  ASSUME NEW o \in Outcomes
  PROVE  /\ o \in LogType /\ CutShort(o) \in LogType
         /\ o.open = TRUE /\ CutShort(o).open = TRUE /\ CutShort(o).uvm = <<>>
<1> DEFINE c == CutShort(o)
<1>1. o \in [open : {TRUE}, uvm : Seq(LineKinds), trace : Seq({"instr", "ecall", "other"})]
  BY RegressionAssumption
<1>2. o.open = TRUE
  BY <1>1
<1>3. o.uvm \in LogUvm /\ <<>> \in LogUvm /\ o.trace \in LogTrace
  BY DEF LogUvm, LogTrace
<1>4. o = [open |-> o.open, uvm |-> o.uvm, trace |-> o.trace]
  BY <1>1
<1>5. o \in LogType
  BY <1>2, <1>3, <1>4 DEF LogType
<1>6. c.open = TRUE
  BY <1>1, <1>2 DEF CutShort
<1>7. c.uvm = <<>>
  BY <1>1 DEF CutShort
<1>8. c.trace = o.trace
  BY <1>1 DEF CutShort
<1>9. c = [open |-> c.open, uvm |-> c.uvm, trace |-> c.trace]
  BY <1>1 DEF CutShort
<1> HIDE DEF c
<1>10. c \in LogType
  BY <1>3, <1>6, <1>7, <1>8, <1>9 DEF LogType
<1> QED
  BY <1>2, <1>5, <1>6, <1>7, <1>10 DEF c

\* collect_results says one of four things of a test.
LEMMA CollectType ==
  Collect \in [Tests -> {"none", "PASS", "FAILED", "FAILED {T}"}]
BY DEF Collect, Summary

\* The jobs keep the types of the results.
LEMMA ResultTypesKept ==
  ASSUME TypeOK, Unpickled, NEW f \in Files, Data(f)
  PROVE  ResultTypes'
<1>1. ResultTypes
  BY DEF TypeOK, ResultTypes, LogType, LogUvm, LogTrace
<1>2. CASE SameData
  BY <1>1, <1>2 DEF SameData, ResultTypes
<1>3. CASE Collects(f)
  BY <1>1, <1>3, CollectType DEF Collects, ResultTypes
<1>4. CASE Simulates(f)
  <2>1. trr[f[2]] \in TestRunResult /\ f[2] \in Tests
    BY <1>4, UnpickledResult DEF Simulates
  <2>2. [trr[f[2]] EXCEPT !.failure_mode = "TIMEOUT"] \in TestRunResult
    BY <2>1 DEF TestRunResult, FailureModes
  <2>3. trr' \in [Tests -> TestRunResult \cup {TornResult}]
    BY <1>1, <1>4, <2>1, <2>2 DEF Simulates, ResultTypes
  <2>4. \E l \in LogType : logs' = [logs EXCEPT ![f[2]] = l]
    BY <1>4, CutShortFacts DEF Simulates
  <2>5. logs' \in [Tests -> LogType]
    BY <1>1, <2>4 DEF ResultTypes
  <2>6. report' = report
    BY <1>4 DEF Simulates
  <2> QED
    BY <1>1, <2>3, <2>5, <2>6 DEF ResultTypes
<1>5. CASE Checks(f)
  <2>1. trr[f[2]] \in TestRunResult /\ f[2] \in Tests
    BY <1>5, UnpickledResult DEF Checks
  <2>2. CompareTestRun(trr[f[2]], logs[f[2]]) \in TestRunResult
    BY <2>1, CompareFacts
  <2> QED
    BY <1>1, <1>5, <2>1, <2>2 DEF Checks, ResultTypes
<1> QED
  BY <1>2, <1>3, <1>4, <1>5 DEF Data

(***************************************************************************)
(* A script that goes on goes on with a result that is whole.  A script of *)
(* a test unpickles it in its first step.                                  *)
(***************************************************************************)
LEMMA UnpickledKept ==
  ASSUME TypeOK, Progress, Unpickled, NEW f \in Files, Effect(f), Data(f),
         f[2] \in Tests /\ step[f] = "open" /\ step'[f] # "none" => trr[f[2]] # TornResult
  PROVE  Unpickled'
<1>1. /\ \A g \in Files \ {f} : step'[g] = step[g]
      /\ status[f] \in {"todo", "run"}
  BY EffectFacts
<1>2. ASSUME NEW t \in Tests, trr[t] # TornResult
      PROVE  trr'[t] # TornResult
  <2>1. trr[t] \in TestRunResult
    BY <1>2 DEF TypeOK
  <2>2. [trr[t] EXCEPT !.failure_mode = "TIMEOUT"] \in TestRunResult
    BY <2>1 DEF TestRunResult, FailureModes
  <2>3. trr'[t] \in TestRunResult
    BY <2>1, <2>2, CompareFacts, DataFacts
  <2>4. TornResult \notin TestRunResult
    BY DEF TornResult, TestRunResult
  <2> QED
    BY <2>3, <2>4
<1>3. ASSUME NEW g \in Files, g[2] \in Tests, step'[g] \notin {"none", "open"}
      PROVE  trr[g[2]] # TornResult
  <2>1. CASE g # f
    BY <1>1, <1>3, <2>1 DEF Unpickled
  <2>2. CASE g = f /\ step[f] \notin {"none", "open"}
    BY <1>3, <2>2 DEF Unpickled
  <2>3. CASE g = f /\ step[f] = "open"
    BY <1>3, <2>3
  <2>4. CASE g = f /\ step[f] = "none"
    <3>1. status[f] = "todo"
      BY <1>1, <2>4 DEF Progress
    <3>2. Skips(f) \/ Starts(f)
      BY <3>1, EffectKinds
    <3>3. step'[f] \in {"none", "open"}
      BY <2>4, <3>2 DEF Skips, Starts, TypeOK
    <3> QED
      BY <1>3, <2>4, <3>3
  <2> QED
    BY <2>1, <2>2, <2>3, <2>4
<1> QED
  BY <1>2, <1>3 DEF Unpickled

(***************************************************************************)
(* A log that can be opened is there for make: what writes it writes it    *)
(* for make too.                                                           *)
(***************************************************************************)
LEMMA LogFilesKept ==
  ASSUME TypeOK, LogFiles, NEW f \in Files, Rests \/ Effect(f), Data(f)
  PROVE  LogFiles'
<1>1. exists \subseteq exists'
  <2>1. CASE Rests
    BY <2>1 DEF Rests, WriteNothing
  <2>2. CASE Effect(f)
    <3>1. CASE WriteNothing
      BY <3>1 DEF WriteNothing
    <3>2. ASSUME NEW g \in Files, Write({g}) PROVE exists \subseteq exists'
      BY <3>2, WriteFacts
    <3> QED
      BY <2>2, <3>1, <3>2, EffectWrites
  <2> QED
    BY <2>1, <2>2
<1>2. ASSUME NEW t \in Tests, logs'[t].open
      PROVE  <<"log", t>> \in exists'
  <2>1. CASE logs'[t] = logs[t]
    BY <1>1, <1>2, <2>1 DEF LogFiles
  <2>2. CASE f = <<"log", t>> /\ Simulates(f)
    BY <2>2, WriteFacts DEF Simulates, WritesOwn
  <2> QED
    BY <2>1, <2>2, DataFacts
<1> QED
  BY <1>2 DEF LogFiles

(***************************************************************************)
(* The log of a test and its result as files.                              *)
(***************************************************************************)
LEMMA TestFiles ==
  ASSUME NEW t \in Tests
  PROVE  /\ {<<"bin", t>>, <<"log", t>>, <<"trr", t>>} \subseteq Files
         /\ {<<"bin", t>>, <<"log", t>>} \subseteq Sim /\ <<"trr", t>> \notin Sim
         /\ t \in RiscvDv => <<"asm", t>> \in Files /\ <<"asm", t>> \in Sim
         /\ Goal \notin {<<"asm", t>>, <<"bin", t>>, <<"log", t>>, <<"trr", t>>}
         /\ Deps(<<"trr", t>>) = {<<"log", t>>} /\ <<"log", t>> # Src
         /\ <<"bin", t>> \in Deps(<<"log", t>>) /\ <<"bin", t>> # Src
         /\ t \in RiscvDv => <<"asm", t>> \in Deps(<<"bin", t>>) /\ <<"asm", t>> # Src
         /\ <<"trr", t>> \in Deps(Goal) /\ <<"trr", t>> # Src
<1>1. /\ {<<"bin", t>>, <<"log", t>>, <<"trr", t>>} \subseteq Files /\ t # All
      /\ t \in RiscvDv => <<"asm", t>> \in Files
  BY FileFacts
<1>2. /\ {<<"bin", t>>, <<"log", t>>} \subseteq Sim /\ <<"trr", t>> \notin Sim
      /\ t \in RiscvDv => <<"asm", t>> \in Sim
  BY <1>1 DEF Sim, SimKinds
<1>3. Goal \notin {<<"asm", t>>, <<"bin", t>>, <<"log", t>>, <<"trr", t>>}
  BY <1>1, GoalFacts
<1>4. /\ Deps(<<"trr", t>>) = {<<"log", t>>} /\ <<"bin", t>> \in Deps(<<"log", t>>)
      /\ t \in RiscvDv => <<"asm", t>> \in Deps(<<"bin", t>>)
  BY RuleFacts
<1>5. <<"trr", t>> \in Deps(Goal)
  <2>1. Deps(Goal) = TrrFiles \cup {Stamp("merge")}
    BY RuleFacts, GoalFacts
  <2> QED
    BY <2>1 DEF TrrFiles
<1>6. Src \notin {<<"asm", t>>, <<"bin", t>>, <<"log", t>>, <<"trr", t>>}
  BY DEF Src
<1> QED
  BY <1>1, <1>2, <1>3, <1>4, <1>5, <1>6

(***************************************************************************)
(* A result is made after its log, and the goal after all results.         *)
(***************************************************************************)
LEMMA MadeBefore ==
  ASSUME Progress, NEW t \in Tests
  PROVE  /\ status[<<"trr", t>>] # "todo" => status[<<"log", t>>] = "done"
         /\ status[Goal] # "todo" =>
              status[<<"trr", t>>] = "done" /\ status[<<"log", t>>] = "done"
<1>1. /\ <<"trr", t>> \in Files /\ <<"log", t>> \in Deps(<<"trr", t>>) \ {Src}
      /\ Goal \in Files /\ <<"trr", t>> \in Deps(Goal) \ {Src}
  BY TestFiles, GoalFacts
<1>2. status[<<"trr", t>>] # "todo" => status[<<"log", t>>] = "done"
  BY <1>1 DEF Progress, Done
<1>3. status[Goal] # "todo" => status[<<"trr", t>>] = "done"
  BY <1>1 DEF Progress, Done
<1> QED
  BY <1>2, <1>3

(***************************************************************************)
(* Without edits a file of a simulation that is there and is not being     *)
(* made can only be passed over.                                           *)
(***************************************************************************)
LEMMA OnlySkipped ==
  ASSUME Stable, count.edits = 0, make = "run", NEW f \in Sim, f \in exists,
         status[f] # "run", Effect(f)
  PROVE  Skips(f)
<1>1. UpToDateForGood(f) /\ f \in Files
  BY DEF Stable, Sim
<1>2. status[f] \in {"todo", "run"} /\ (status[f] = "todo" => Skips(f) \/ MustMake(f))
  BY <1>1, EffectKinds
<1> QED
  BY <1>1, <1>2 DEF UpToDateForGood, Done

(***************************************************************************)
(* A verdict stays a verdict about the log that is there, and the report   *)
(* stays about the verdicts.                                               *)
(***************************************************************************)
LEMMA VerdictsKept ==
  ASSUME TypeOK, Progress, Unpickled, LogFiles, Stable, Verdicts, NEW f \in Files, Keeps,
         Rests \/ Effect(f), Data(f), Earned(f), exists \subseteq exists'
  PROVE  Verdicts'
<1>1. make = "run" /\ count' = count
  BY DEF Keeps
<1>2. /\ \A g \in Files \ {f} : status'[g] = status[g] /\ step'[g] = step[g]
      /\ Effect(f) \/ (Rests /\ status'[f] = status[f] /\ step'[f] = step[f])
  BY EffectFacts DEF Rests
<1>3. ASSUME count.edits = 0, NEW t \in Tests, trr'[t].passed = "True"
      PROVE  Judged(t)' /\ <<"log", t>> \in exists' /\ status'[<<"log", t>>] # "run"
  <2> DEFINE l == <<"log", t>>
  <2>1. l \in Files /\ l \in Sim /\ l # <<"trr", t>> /\ <<"trr", t>> \in Files
        /\ l \in Deps(<<"trr", t>>) /\ l # Src
    BY TestFiles
  <2> HIDE DEF l
  <2>2. CASE trr[t].passed = "True"
    <3>1. Judged(t) /\ l \in exists /\ status[l] # "run"
      BY <1>3, <2>2 DEF Verdicts, l
    <3>2. ~(f = l /\ Simulates(f))
      BY <3>1 DEF Simulates
    <3>3. logs'[t] = logs[t]
      BY <3>2, DataFacts DEF l
    <3>4. status'[l] # "run"
      <4>1. CASE f # l
        BY <1>2, <2>1, <3>1, <4>1
      <4>2. CASE f = l /\ Effect(f)
        BY <1>1, <1>3, <2>1, <3>1, <4>2, OnlySkipped DEF Skips, TypeOK
      <4> QED
        BY <1>2, <3>1, <4>1, <4>2
    <3>5. Judged(t)'
      BY <3>1, <3>3 DEF Judged
    <3> QED
      BY <3>1, <3>4, <3>5 DEF l
  <2>3. CASE trr[t].passed # "True"
    <3>1. f = <<"log", t>> /\ Simulates(f) => trr[t] \in TestRunResult
      BY UnpickledResult DEF Simulates
    <3>2. f = <<"trr", t>> /\ Checks(f) /\ trr'[t] = CompareTestRun(trr[t], logs[t])
      <4>1. trr[t] \in TestRunResult =>
              [trr[t] EXCEPT !.failure_mode = "TIMEOUT"].passed = trr[t].passed
        BY DEF TestRunResult
      <4> QED
        BY <1>3, <2>3, <3>1, <4>1, DataFacts
    <3>3. status[f] = "run" /\ step[f] = "exec" /\ logs' = logs /\ status' = status
      BY <3>2 DEF Checks
    <3>4. trr[t] \in TestRunResult
      BY <3>2, <3>3, UnpickledResult
    <3>5. UvmPassed(logs[t].uvm) /\ ~FileError(logs[t])
      BY <1>3, <2>3, <3>2, <3>4, CompareFacts
    <3>6. Judged(t) /\ logs[t].open
      BY <3>5, JudgedFacts DEF FileError
    <3>7. Judged(t)'
      BY <3>3, <3>6 DEF Judged
    <3>8. status[l] = "done"
      BY <3>2, <3>3, MadeBefore DEF l
    <3>9. l \in exists'
      BY <3>6 DEF LogFiles, l
    <3> QED
      BY <3>3, <3>7, <3>8, <3>9 DEF l
  <2> QED
    BY <2>2, <2>3
<1>4. ASSUME step'[Goal] = "exec"
      PROVE  report' = Collect'
  <2>1. CASE Collects(f)
    BY <2>1 DEF Collects, Collect
  <2>2. CASE ~Collects(f)
    <3>1. step[Goal] = "exec"
      BY <1>2, <1>4, <2>2, GoalFacts DEF Earned
    <3>2. status[Goal] = "run" /\ report = Collect
      BY <3>1, GoalFacts DEF Progress, Verdicts
    <3>3. \A t \in Tests : status[<<"trr", t>>] = "done"
      BY <3>2, MadeBefore
    <3>4. \A t \in Tests : status[<<"log", t>>] = "done"
      BY <3>2, MadeBefore
    <3>5. ~Simulates(f) /\ ~Checks(f)
      <4>1. f[2] \in Tests => f = <<f[1], f[2]>>
        BY FileFacts, RegressionAssumption DEF Tests
      <4> QED
        BY <3>3, <3>4, <4>1 DEF Simulates, Checks
    <3>6. SameData
      BY <2>2, <3>5 DEF Data
    <3> QED
      BY <3>2, <3>6 DEF SameData, Collect
  <2> QED
    BY <2>1, <2>2
<1> QED
  BY <1>1, <1>3, <1>4 DEF Verdicts

(***************************************************************************)
(* A log that is not being made is not written.                            *)
(***************************************************************************)
LEMMA LogUntouched ==
  ASSUME TypeOK, NEW f \in Files, Rests \/ Effect(f), NEW t \in Tests,
         status[<<"log", t>>] # "run"
  PROVE  LET e == <<<<"log", t>>, <<"trr", t>>>>
         IN  (e \in newer' => e \in newer) /\ (e \in dirty' => e \in dirty)
<1> DEFINE l == <<"log", t>>
           e == <<l, <<"trr", t>>>>
<1>1. l \in Files
  BY TestFiles
<1>2. CASE Rests
  BY <1>2 DEF Rests, WriteNothing
<1>3. CASE WriteNothing
  BY <1>3 DEF WriteNothing
<1>4. CASE (WritesOwn(f) \/ Makes(f)) /\ Write({f})
  <2>1. f # l
    BY <1>4 DEF WritesOwn, Makes, Goes
  <2> HIDE DEF l
  <2>2. (e \in newer' => e \in newer) /\ (e \in dirty' => e \in dirty)
    BY <1>4, <2>1, WriteFacts
  <2> QED
    BY <2>2 DEF l
<1>5. CASE <<"trr", f[2]>> \in Files /\ Write({<<"trr", f[2]>>})
  <2>1. <<"trr", f[2]>> # l
    OBVIOUS
  <2> HIDE DEF l
  <2>2. (e \in newer' => e \in newer) /\ (e \in dirty' => e \in dirty)
    BY <1>5, <2>1, WriteFacts
  <2> QED
    BY <2>2 DEF l
<1> QED
  BY <1>2, <1>3, <1>4, <1>5, EffectWrites

(***************************************************************************)
(* Once the goal is made without edits nothing is made any more; and when  *)
(* it is made every test has passed.                                       *)
(***************************************************************************)
LEMMA ReachedKept ==
  ASSUME TypeOK, Progress, Memory, Verdicts, Reached, NEW f \in Files, Keeps,
         Rests \/ Effect(f), Data(f), Earned(f), exists \subseteq exists'
  PROVE  Reached'
<1>1. make = "run" /\ make' = "run" /\ count' = count /\ absent' = absent
  BY DEF Keeps
<1>2. /\ \A g \in Files \ {f} : status'[g] = status[g]
      /\ Effect(f) \/ (Rests /\ status'[f] = status[f])
  BY EffectFacts DEF Rests
<1> SUFFICES ASSUME count.edits = 0, Goal \in exists', NEW t \in Tests
             PROVE  LET r == <<"trr", t>>
                        l == <<"log", t>>
                    IN  /\ trr'[t].passed = "True" /\ <<l, r>> \notin newer'
                        /\ status'[r] = "done" \/ (status'[r] = "todo" /\ ~MustMake(r)')
  BY <1>1 DEF Reached, Done
<1> DEFINE r == <<"trr", t>>
           l == <<"log", t>>
<1>3. r \in Files /\ l \in Files /\ Deps(r) = {l} /\ Goal # r
  BY TestFiles
<1>4. CASE Goal \in exists
  <2>1. /\ trr[t].passed = "True" /\ <<l, r>> \notin newer
        /\ status[r] = "done" \/ (status[r] = "todo" /\ ~MustMake(r))
    BY <1>1, <1>4 DEF Reached, Done
  <2>2. l \in exists /\ status[l] # "run"
    BY <2>1 DEF Verdicts
  <2>3. trr'[t] = trr[t]
    BY <2>1, <2>2, DataFacts DEF Simulates, Checks
  <2>4. (<<l, r>> \in newer' => <<l, r>> \in newer) /\ (<<l, r>> \in dirty' => <<l, r>> \in dirty)
    BY <2>2, LogUntouched
  <2> HIDE DEF l, r
  <2>5. ~MustMake(r) => ~MustMake(r)'
    <3>1. Deps(r)' = Deps(r)
      BY DEF Deps, TestDeps, StampDeps, Stamp, Src, TrrFiles
    <3> QED
      BY <1>1, <1>3, <2>2, <2>4 DEF MustMake
  <2>6. status'[r] = "done" \/ (status'[r] = "todo" /\ ~MustMake(r)')
    <3>1. CASE f # r
      BY <1>2, <1>3, <2>1, <2>5, <3>1
    <3>2. CASE f = r /\ Effect(f)
      BY <1>3, <2>1, <3>2, EffectKinds DEF Skips, TypeOK
    <3>3. CASE f = r /\ status'[f] = status[f]
      BY <2>1, <2>5, <3>3
    <3> QED
      BY <1>2, <3>1, <3>2, <3>3
  <2> QED
    BY <2>1, <2>3, <2>4, <2>6 DEF l, r
<1>5. CASE Goal \notin exists
  <2>1. f = Goal /\ (WritesOwn(f) \/ Makes(f)) /\ Write({f})
    <3>1. ~WriteNothing
      BY <1>5 DEF WriteNothing
    <3>2. ASSUME <<"trr", f[2]>> \in Files, f[2] \in Tests, Write({<<"trr", f[2]>>}) PROVE FALSE
      <4>1. <<"trr", f[2]>> # Goal
        BY <3>2, TestFiles
      <4> QED
        BY <1>5, <3>2, <4>1, WriteFacts
    <3>3. ASSUME Write({f}) PROVE f = Goal
      BY <1>5, <3>3, WriteFacts
    <3> QED
      BY <3>1, <3>2, <3>3, EffectWrites DEF Rests
  <2>2. Makes(f) /\ status[f] = "run" /\ status'[f] = "done"
    BY <2>1, GoalFacts DEF WritesOwn, Makes, Ends, TypeOK
  <2>3. step[f] = "exec" /\ SameData /\ report[t] = "PASS"
    BY <2>1, <2>2 DEF Earned, Skips, Considered
  <2>4. report = Collect
    BY <2>1, <2>3 DEF Verdicts
  <2>5. Summary(trr[t]) = "PASS"
    BY <2>3, <2>4 DEF Collect
  <2>6. trr'[t].passed = "True"
    BY <2>3, <2>5 DEF Summary, SameData
  <2>7. status[r] = "done" /\ status[l] = "done"
    BY <2>1, <2>2, MadeBefore
  <2>8. <<l, r>> \notin newer
    BY <1>1, <2>7 DEF Memory, Done
  <2>9. <<l, r>> \notin newer'
    BY <2>7, <2>8, LogUntouched
  <2> HIDE DEF l, r
  <2>10. status'[r] = "done"
    BY <1>2, <1>3, <2>1, <2>7
  <2> QED
    BY <2>6, <2>9, <2>10 DEF l, r
<1> QED
  BY <1>4, <1>5

(***************************************************************************)
(* In the first make every log is simulated before it is checked, and a    *)
(* check notices a test that passed.                                       *)
(***************************************************************************)
LEMMA FirstMakeKept ==
  ASSUME TypeOK, Progress, Unpickled, LogFiles, FirstMake, NEW f \in Files, Keeps,
         Rests \/ Effect(f), Data(f), Earned(f), exists \subseteq exists', dirty \subseteq dirty'
  PROVE  FirstMake'
<1>1. make = "run" /\ make' = "run" /\ count' = count /\ absent' = absent
  BY DEF Keeps
<1>2. count.makes # 0
  BY <1>1 DEF FirstMake
<1>3. /\ \A g \in Files \ {f} : status'[g] = status[g] /\ step'[g] = step[g]
      /\ Effect(f) \/ (Rests /\ status'[f] = status[f] /\ step'[f] = step[f])
  BY EffectFacts DEF Rests
<1>4. ASSUME count.makes = 1, NEW t \in Tests
      PROVE  logs'[t].open \/ logs'[t].uvm = <<>>
  <2>1. CASE logs'[t] = logs[t]
    BY <1>1, <1>4, <2>1 DEF FirstMake
  <2>2. CASE f = <<"log", t>> /\ Simulates(f)
    <3>1. f[2] = t
      BY <2>2
    <3>2. PICK o \in Outcomes : logs' = [logs EXCEPT ![t] = o] \/ logs' = [logs EXCEPT ![t] = CutShort(o)]
      BY <2>2, <3>1 DEF Simulates
    <3>3. t \in DOMAIN logs
      BY <1>4 DEF TypeOK
    <3>4. logs'[t] = o \/ logs'[t] = CutShort(o)
      BY ONLY <3>2, <3>3
    <3>5. o.open = TRUE /\ CutShort(o).open = TRUE
      BY CutShortFacts
    <3> QED
      BY ONLY <3>4, <3>5
  <2> QED
    BY <2>1, <2>2, DataFacts
<1>5. ASSUME count.makes = 1, NEW t \in Tests
      PROVE  LET r == <<"trr", t>>
                 l == <<"log", t>>
             IN  /\ l \in absent
                 /\ l \in exists' => <<l, r>> \in dirty'
                 /\ status'[r] = "done" \/ step'[r] = "export" => Noticed(t)'
  <2> DEFINE r == <<"trr", t>>
             l == <<"log", t>>
  <2>1. r \in Files /\ l \in Files /\ Deps(r) = {l} /\ r[1] = "trr" /\ l # r
    BY TestFiles
  <2>2. /\ l \in absent /\ (l \in exists => <<l, r>> \in dirty)
        /\ status[r] = "done" \/ step[r] = "export" => Noticed(t)
    BY <1>1, <1>5 DEF FirstMake, Done
  <2>3. l \in exists' => <<l, r>> \in dirty'
    <3>1. CASE l \in exists
      BY <2>2, <3>1
    <3>2. CASE l \notin exists /\ l \in exists'
      <4>1. ASSUME NEW g \in Files, Write({g}) PROVE <<l, r>> \in dirty'
        <5>1. g = l
          BY <3>2, <4>1, WriteFacts
        <5> QED
          BY <2>1, <4>1, <5>1, WriteFacts
      <4>2. ~WriteNothing
        BY <3>2 DEF WriteNothing
      <4> QED
        BY <4>1, <4>2, EffectWrites DEF Rests
    <3> QED
      BY <3>1, <3>2
  <2>4. ASSUME status[r] = "done" \/ step[r] = "export"
        PROVE  Noticed(t)'
    <3>1. status[r] # "todo" /\ step[r] # "exec"
      BY <2>1, <2>4 DEF Progress
    <3>2. status[l] = "done"
      BY <3>1, MadeBefore
    <3>3. trr'[t] = trr[t] /\ logs'[t] = logs[t]
      BY <3>1, <3>2, DataFacts DEF Simulates, Checks
    <3> QED
      BY <2>2, <2>4, <3>3 DEF Noticed, Judged
  <2>5. ASSUME status[r] # "done", step[r] # "export", status'[r] = "done" \/ step'[r] = "export"
        PROVE  Noticed(t)'
    <3>1. f = r /\ Effect(f)
      BY <1>3, <2>1, <2>5
    <3>2. ~Skips(f)
      BY <2>1, <2>2, <3>1 DEF Skips, MustMake
    <3>3. step'[r] = "export"
      <4>1. ~Exports(f) /\ ~Makes(f)
        BY <2>1, <2>5, <3>1, TestFiles, FileFacts, RegressionAssumption DEF Exports, Makes, Tests
      <4>2. status'[r] # "done"
        BY <2>5, <3>1, <3>2, <4>1
        DEF Effect, Starts, Goes, Fails, WritesOwn, ExportsEarly, Ends, TypeOK
      <4> QED
        BY <2>5, <4>2
    <3>4. Checks(f)
      BY <2>1, <2>5, <3>1, <3>3 DEF Earned
    <3>5. logs' = logs /\ trr[t] \in TestRunResult /\ trr'[t] = CompareTestRun(trr[t], logs[t])
      <4>1. logs' = logs /\ step[f] = "exec" /\ f[2] = t
        BY <3>1, <3>4 DEF Checks
      <4>2. trr[t] \in TestRunResult
        BY <4>1, UnpickledResult
      <4> QED
        BY <3>4, <4>1, <4>2 DEF Checks, TypeOK
    <3>6. ASSUME Judged(t)
          PROVE  trr'[t].passed = "True" \/ trr'[t].failure_mode = "TIMEOUT"
      <4>1. UvmPassed(logs[t].uvm) /\ ~TraceRaises(logs[t].trace)
        BY <3>6, JudgedFacts
      <4>2. logs[t].uvm # <<>>
        BY <3>6 DEF Judged
      <4>3. logs[t].open
        BY <1>4, <1>5, <3>5, <4>2
      <4>4. ~FileError(logs[t])
        BY <4>1, <4>3 DEF FileError
      <4> QED
        BY <3>5, <4>1, <4>4, CompareFacts
    <3>7. Judged(t)' => Judged(t)
      BY <3>5 DEF Judged
    <3> QED
      BY <3>6, <3>7 DEF Noticed
  <2> QED
    BY <2>2, <2>3, <2>4, <2>5
<1> QED
  BY <1>1, <1>2, <1>4, <1>5 DEF FirstMake, Done

-----------------------------------------------------------------------------
(* The steps of the recipes.                                               *)

(***************************************************************************)
(* The metadata does not disappear.                                        *)
(***************************************************************************)
LEMMA NeverAbsent == [Next]_vars /\ file # Absent => file' # Absent
<1> SUFFICES ASSUME [StoreNext]_storeVars, file # Absent PROVE file' # Absent
  BY StoreStep
<1>1. CASE Create \/ Created \/ CreateKilled
  BY <1>1, FileStates DEF Create, Created, CreateKilled
<1>2. ASSUME NEW s \in Scripts,
             Enter(s) \/ Lock(s) \/ LockFails(s) \/ Truncate(s) \/ Unlock(s)
      PROVE  file' # Absent
  BY <1>2, FileStates DEF Enter, Lock, LockFails, Truncate, Unlock
<1>3. ASSUME NEW ss \in SUBSET Scripts, Killed(ss)
      PROVE  file' # Absent
  BY <1>3 DEF Killed
<1>4. CASE UNCHANGED storeVars
  BY <1>4 DEF storeVars
<1> QED
  BY <1>1, <1>2, <1>3, <1>4 DEF StoreNext

(***************************************************************************)
(* The store keeps its types in the regression.                            *)
(***************************************************************************)
LEMMA StoreTypesKept == [Next]_vars /\ TypeOK => StoreTypeOK'
BY StoreStep, StoreNextType DEF TypeOK

(***************************************************************************)
(* While make runs files are only written.                                 *)
(***************************************************************************)
LEMMA EffectGrows ==
  ASSUME NEW f \in Files, Rests \/ Effect(f)
  PROVE  exists \subseteq exists' /\ dirty \subseteq dirty'
<1>1. CASE WriteNothing
  BY <1>1 DEF WriteNothing
<1>2. ASSUME NEW g \in Files, Write({g}) PROVE exists \subseteq exists' /\ dirty \subseteq dirty'
  BY <1>2, WriteFacts
<1> QED
  BY <1>1, <1>2, EffectWrites DEF Rests

(***************************************************************************)
(* The steps of make, the scripts and the files keep their types.          *)
(***************************************************************************)
LEMMA TypesKept ==
  ASSUME TypeOK, NEW f \in Files, Keeps, Rests \/ Effect(f), ResultTypes', StoreTypeOK'
  PROVE  TypeOK'
<1>1. /\ make' \in {"off", "create", "run"} /\ result' \in {"none", "ok", "failed", "killed"}
      /\ absent' \subseteq Files
  BY DEF TypeOK, Keeps
<1>2. /\ status' \in [Files -> {"todo", "run", "done", "failed"}]
      /\ step' \in [Files -> {"none", "open", "body", "raise", "exec", "run", "export"}]
  BY EffectFacts DEF Rests, TypeOK
<1>3. exists' \subseteq Files \cup {Src} /\ newer' \subseteq Edges /\ dirty' \subseteq Edges
  <2>1. exists \subseteq Files \cup {Src} /\ newer \subseteq Edges /\ dirty \subseteq Edges
    BY DEF TypeOK
  <2>2. CASE WriteNothing
    BY <2>1, <2>2 DEF WriteNothing
  <2>3. ASSUME NEW g \in Files, Write({g})
        PROVE  exists' \subseteq Files \cup {Src} /\ newer' \subseteq Edges /\ dirty' \subseteq Edges
    BY <2>1, <2>3, WriteFacts
  <2> QED
    BY <2>2, <2>3, EffectWrites DEF Rests
<1>4. /\ trr' \in [Tests -> TestRunResult \cup {TornResult}]
      /\ logs' \in [Tests -> [open : BOOLEAN, uvm : {<<>>} \cup {o.uvm : o \in Outcomes},
                              trace : {<<>>} \cup {o.trace : o \in Outcomes}]]
      /\ report' \in [Tests -> {"none", "PASS", "FAILED", "FAILED {T}"}]
  BY DEF ResultTypes, LogType, LogUvm, LogTrace
<1> QED
  BY <1>1, <1>2, <1>3, <1>4 DEF TypeOK

(***************************************************************************)
(* A step of the recipe of a file keeps the invariant.                     *)
(***************************************************************************)
LEMMA FileInv ==
  ASSUME FlowInv, NEW f \in Files, OfFile(f), [Next]_vars
  PROVE  FlowInv'
<1>1. TypeOK /\ Positions /\ Progress /\ Steps /\ Memory /\ Unpickled /\ LogFiles /\ Stable
      /\ Verdicts /\ Reached /\ FirstMake
  BY DEF FlowInv
<1>2. Keeps /\ Effect(f) /\ Data(f) /\ Earned(f)
  BY <1>1, FileEffect, FileData
<1>3. file' # Absent
  BY <1>1, <1>2, NeverAbsent DEF Keeps, Progress
<1>4. exists \subseteq exists' /\ dirty \subseteq dirty'
  BY <1>2, EffectGrows
<1>5. TypeOK'
  BY <1>1, <1>2, StoreTypesKept, ResultTypesKept, TypesKept
<1>6. Positions'
  <2>1. UNCHANGED storeVars
    BY DEF OfFile, Skip, Start, ReadPickles, Dies, ExportFirst, Generate, Compile, Simulate, Check,
           Export
  <2>2. ASSUME NEW s \in Scripts, at[s] # "out"
        PROVE  step'[Stamp(s)] = step[Stamp(s)]
    <3>1. Stamp(s) \in Files /\ step[Stamp(s)] \in {"open", "body", "exec", "raise"}
      BY <1>1, <2>2 DEF Positions, TypeOK, StoreTypeOK
    <3>2. status[Stamp(s)] = "run"
      BY <1>1, <3>1 DEF Progress
    <3>3. s \notin {"asm", "bin", "log", "trr"} /\ All \notin Tests
      BY RegressionAssumption DEF Tests
    <3>4. f # Stamp(s)
      <4>1. SUFFICES ASSUME f = Stamp(s) PROVE FALSE
        OBVIOUS
      <4>2. f[1] = s /\ f[2] = All
        BY <4>1 DEF Stamp
      <4>3. ~Skip(f) /\ ~Start(f)
        BY <3>2, <4>1 DEF Skip, Start, UpToDate, Considered
      <4>4. ~ReadPickles(f) /\ ~Dies(f) /\ ~ExportFirst(f) /\ ~Generate(f) /\ ~Compile(f)
            /\ ~Simulate(f) /\ ~Check(f) /\ ~Export(f)
        BY <3>3, <4>2 DEF ReadPickles, Dies, ExportFirst, Generate, Compile, Simulate, Check,
                          Export
      <4> QED
        BY <4>3, <4>4 DEF OfFile
    <3> QED
      BY <1>1, <1>2, <3>1, <3>4, EffectFacts
  <2> QED
    BY <1>1, <2>1, <2>2 DEF Positions, storeVars
<1>7. Progress' /\ Steps' /\ Memory' /\ Stable'
  BY <1>1, <1>2, <1>3, ProgressKept, MemoryKept, StableKept
<1>8. Unpickled'
  <2>1. ASSUME f[2] \in Tests, step[f] = "open", step'[f] # "none" PROVE trr[f[2]] # TornResult
    <3>1. status[f] = "run"
      BY <1>1, <2>1 DEF Progress
    <3>2. ReadPickles(f)
      BY <2>1, <3>1 DEF OfFile, Skip, Start, UpToDate, Considered, Dies, ExportFirst, Generate,
                        Compile, Simulate, Check, Export
    <3> QED
      BY <1>1, <2>1, <3>2 DEF ReadPickles, Ends, TypeOK
  <2> QED
    BY <1>1, <1>2, <2>1, UnpickledKept
<1>9. LogFiles' /\ Verdicts' /\ Reached' /\ FirstMake'
  BY <1>1, <1>2, <1>4, LogFilesKept, VerdictsKept, ReachedKept, FirstMakeKept
<1> QED
  BY <1>5, <1>6, <1>7, <1>8, <1>9 DEF FlowInv

(***************************************************************************)
(* A step of a script that uses the store keeps the invariant.             *)
(***************************************************************************)
LEMMA ScriptInv ==
  ASSUME FlowInv, NEW s \in {f[1] : f \in Stamps}, OfScript(s), [Next]_vars
  PROVE  FlowInv'
<1> DEFINE f == Stamp(s)
<1>1. TypeOK /\ Positions /\ Progress /\ Steps /\ Memory /\ Unpickled /\ LogFiles /\ Stable
      /\ Verdicts /\ Reached /\ FirstMake
  BY DEF FlowInv
<1>2. Keeps /\ f \in Files /\ (Rests \/ Effect(f)) /\ Data(f) /\ Earned(f)
  BY <1>1, ScriptEffect, ScriptData
<1>3. file' # Absent
  BY <1>1, <1>2, NeverAbsent DEF Keeps, Progress
<1>4. f[1] = s /\ f[2] = All /\ All \notin Tests /\ s \in Scripts
  BY StampNames, RegressionAssumption DEF Stamp, Tests
<1>5. /\ step \in [Files -> {"none", "open", "body", "raise", "exec", "run", "export"}]
      /\ at \in [Scripts -> {"out", "wait", "in", "dump"}]
  BY <1>1 DEF TypeOK, StoreTypeOK
<1>6. /\ at[s] # "out" => f \in Files
      /\ at[s] = "wait" => step[f] = "open"
      /\ at[s] = "in" => step[f] = "body"
      /\ at[s] = "dump" => step[f] \in {"exec", "raise"}
  BY <1>1, <1>4 DEF Positions
<1> HIDE DEF f
<1>7. exists \subseteq exists' /\ dirty \subseteq dirty'
  BY <1>2, EffectGrows
<1>8. TypeOK'
  BY <1>1, <1>2, StoreTypesKept, ResultTypesKept, TypesKept
<1>9. Positions'
  <2>1. /\ at'[s] # "out" => f \in Files
        /\ at'[s] = "wait" => step'[f] = "open"
        /\ at'[s] = "in" => step'[f] = "body"
        /\ at'[s] = "dump" => step'[f] \in {"exec", "raise"}
    <3>1. CASE OpenStore(s)
      BY <1>2, <1>4, <1>5, <3>1 DEF OpenStore, Enter, makeVars, f
    <3>2. CASE LockStore(s)
      BY <1>2, <1>4, <1>5, <3>2 DEF LockStore, Lock, f
    <3>3. CASE LockStoreFails(s)
      BY <1>2, <1>4, <1>5, <3>3 DEF LockStoreFails, LockFails, f
    <3>4. CASE Body(s)
      BY <1>2, <1>4, <1>5, <3>4 DEF Body, Truncate, f
    <3>5. CASE CloseStore(s)
      BY <1>2, <1>4, <1>5, <3>5 DEF CloseStore, Unlock, makeVars, f
    <3>6. CASE Execute(s)
      BY <1>2, <1>4, <1>5, <3>6 DEF Execute, storeVars, f
    <3> QED
      BY <3>1, <3>2, <3>3, <3>4, <3>5, <3>6 DEF OfScript
  <2>2. ASSUME NEW q \in Scripts, q # s
        PROVE  at'[q] = at[q] /\ (Stamp(q) \in Files => step'[Stamp(q)] = step[Stamp(q)])
    <3>1. Stamp(q) # f
      BY <2>2 DEF Stamp, f
    <3>2. at'[q] = at[q]
      BY <1>5, <2>2 DEF OfScript, OpenStore, LockStore, LockStoreFails, Body, CloseStore, Execute,
                        Enter, Lock, LockFails, Truncate, Unlock, storeVars
    <3>3. Stamp(q) \in Files => step'[Stamp(q)] = step[Stamp(q)]
      BY <1>1, <1>2, <3>1, EffectFacts DEF Rests
    <3> QED
      BY <3>2, <3>3
  <2>3. ASSUME NEW q \in Scripts
        PROVE  /\ at'[q] # "out" => Stamp(q) \in Files
               /\ at'[q] = "wait" => step'[Stamp(q)] = "open"
               /\ at'[q] = "in" => step'[Stamp(q)] = "body"
               /\ at'[q] = "dump" => step'[Stamp(q)] \in {"exec", "raise"}
    <3>1. CASE q = s
      BY <2>1, <3>1 DEF f
    <3>2. CASE q # s
      BY <1>1, <2>2, <3>2 DEF Positions
    <3> QED
      BY <3>1, <3>2
  <2>4. Files' = Files
    BY DEF Files, Stamps, OfTest, Stamp, Tests
  <2>5. \A q : Stamp(q)' = Stamp(q)
    BY DEF Stamp
  <2> QED
    BY <2>3 DEF Positions
<1>10. Progress' /\ Steps' /\ Memory' /\ Stable'
  BY <1>1, <1>2, <1>3, ProgressKept, MemoryKept, StableKept
<1>11. Unpickled'
  <2>1. CASE Effect(f)
    BY <1>1, <1>2, <1>4, <2>1, UnpickledKept
  <2>2. CASE Rests
    <3>1. trr' = trr /\ step' = step
      BY <1>2, <1>4, <2>2 DEF Rests, Data, SameData, Simulates, Checks, Collects
    <3> QED
      BY <1>1, <3>1 DEF Unpickled
  <2> QED
    BY <1>2, <2>1, <2>2
<1>12. LogFiles' /\ Verdicts' /\ Reached' /\ FirstMake'
  BY <1>1, <1>2, <1>7, LogFilesKept, VerdictsKept, ReachedKept, FirstMakeKept
<1> QED
  BY <1>8, <1>9, <1>10, <1>11, <1>12 DEF FlowInv

-----------------------------------------------------------------------------
(* The other steps.                                                        *)

(***************************************************************************)
(* The initial states.                                                     *)
(***************************************************************************)
LEMMA FlowInit == Init => FlowInv
<1> SUFFICES ASSUME Init PROVE FlowInv
  OBVIOUS
<1>1. /\ file = Absent /\ lock = Nobody /\ copy = [s \in Scripts |-> {}]
      /\ at = [s \in Scripts |-> "out"] /\ make = "off" /\ result = "none"
      /\ exists = {Src} /\ newer = {} /\ absent = {} /\ dirty = {}
      /\ status = [f \in Files |-> "todo"] /\ step = [f \in Files |-> "none"]
      /\ trr = [t \in Tests |-> NoResult] /\ logs = [t \in Tests |-> NoLogs]
      /\ report = [t \in Tests |-> "none"]
      /\ count = [makes |-> 0, edits |-> 0, kills |-> 0]
  BY DEF Init, StoreInit
<1>2. TypeOK
  <2>1. StoreTypeOK
    BY <1>1, StoreAssumption DEF StoreTypeOK, Absent
  <2>2. NoResult \in TestRunResult
    BY DEF NoResult, TestRunResult, FailureModes
  <2>3. NoLogs \in LogType
    BY DEF NoLogs, LogType, LogUvm, LogTrace
  <2>4. logs \in [Tests -> LogType]
    BY <1>1, <2>3
  <2> QED
    BY <1>1, <2>1, <2>2, <2>4 DEF TypeOK, LogType, LogUvm, LogTrace
<1>3. Positions
  BY <1>1 DEF Positions
<1>4. Progress /\ Steps
  BY <1>1 DEF Progress, Steps, StepKinds
<1>5. Memory
  BY <1>1 DEF Memory
<1>6. Unpickled /\ LogFiles
  BY <1>1 DEF Unpickled, LogFiles, NoLogs
<1>7. Stable
  BY <1>1, FileFacts DEF Stable, Sim
<1>8. Verdicts
  BY <1>1, GoalFacts DEF Verdicts, NoResult
<1>9. Reached
  BY <1>1, GoalFacts, FileFacts DEF Reached
<1>10. FirstMake
  BY <1>1 DEF FirstMake, NoLogs
<1> QED
  BY <1>2, <1>3, <1>4, <1>5, <1>6, <1>7, <1>8, <1>9, <1>10 DEF FlowInv

(***************************************************************************)
(* When no script runs none is in LockedMetadata.                          *)
(***************************************************************************)
LEMMA Idle ==
  ASSUME TypeOK, Positions, Progress, make # "run" \/ Running = {}
  PROVE  /\ \A f \in Files : step[f] = "none"
         /\ make # "run" => \A f \in Files : status[f] = "todo"
         /\ at = [s \in Scripts |-> "out"]
<1>1. \A f \in Files : status[f] # "run"
  BY DEF Progress, Running
<1>2. \A f \in Files : step[f] = "none"
  BY <1>1 DEF Progress
<1>3. ASSUME NEW s \in Scripts PROVE at[s] = "out"
  <2>1. at[s] \in {"out", "wait", "in", "dump"}
    BY DEF TypeOK, StoreTypeOK
  <2>2. at[s] # "out" => step[Stamp(s)] = "none"
    BY <1>2 DEF Positions
  <2>3. /\ at[s] = "wait" => step[Stamp(s)] = "open"
        /\ at[s] = "in" => step[Stamp(s)] = "body"
        /\ at[s] = "dump" => step[Stamp(s)] \in {"exec", "raise"}
    BY DEF Positions
  <2> QED
    BY ONLY <2>1, <2>2, <2>3
<1>4. at = [s \in Scripts |-> "out"]
  BY <1>3 DEF TypeOK, StoreTypeOK
<1>5. make # "run" => \A f \in Files : status[f] = "todo"
  BY DEF Progress
<1> QED
  BY <1>2, <1>4, <1>5

(***************************************************************************)
(* make starts, knowing of each file whether it is up to date.             *)
(***************************************************************************)
LEMMA StartedInv ==
  ASSUME FlowInv, Started, make # "run", [Next]_vars, file # Absent,
         UNCHANGED <<at, trr, logs, report>>,
         count' \in [makes : Nat, edits : Nat, kills : Nat], count'.edits = count.edits,
         count'.makes # 0, count'.makes = 1 => make = "create" /\ count.makes = 1
  PROVE  FlowInv'
<1>1. TypeOK /\ Positions /\ Progress /\ Steps /\ Memory /\ Unpickled /\ LogFiles /\ Stable
      /\ Verdicts /\ Reached /\ FirstMake
  BY DEF FlowInv
<1>2. /\ make' = "run" /\ result' = "none" /\ absent' = Files \ exists /\ dirty' = newer
      /\ exists' = exists /\ newer' = newer /\ status' = status /\ step' = step
  BY DEF Started
<1>3. file' # Absent
  BY NeverAbsent
<1>4. \A f \in Files : step[f] = "none" /\ status[f] = "todo"
  BY <1>1, Idle
<1>5. TypeOK'
  BY <1>1, <1>2, StoreTypesKept DEF TypeOK
<1>6. Positions'
  BY <1>1, <1>2 DEF Positions
<1>7. Progress'
  BY <1>1, <1>2, <1>3, <1>4 DEF Progress
<1>8. Steps' /\ Unpickled' /\ LogFiles'
  BY <1>1, <1>2 DEF Steps, StepKinds, Unpickled, LogFiles
<1>9. Memory'
  <2>1. \A t \in Tests : <<"trr", t>> \in Files
    BY TestFiles
  <2> QED
    BY <1>1, <1>2, <1>4, <2>1 DEF Memory, Done
<1>10. Stable'
  <2>1. ASSUME NEW f \in Sim, f \in exists, UpToDateForGood(f)
        PROVE  UpToDateForGood(f)'
    <3>1. f \in Files
      BY DEF Sim
    <3> QED
      BY <1>2, <1>4, <2>1, <3>1 DEF UpToDateForGood, MustMake
  <2> QED
    BY <1>1, <1>2, <2>1 DEF Stable
<1>11. Verdicts'
  BY <1>1, <1>2, <1>4, GoalFacts DEF Verdicts, Judged, Collect
<1>12. Reached'
  <2>1. SUFFICES ASSUME count.edits = 0, Goal \in exists, NEW t \in Tests
                 PROVE  LET r == <<"trr", t>>
                            l == <<"log", t>>
                        IN  /\ trr'[t].passed = "True" /\ <<l, r>> \notin newer'
                            /\ status'[r] = "todo" /\ ~MustMake(r)'
    BY <1>2 DEF Reached
  <2> DEFINE r == <<"trr", t>>
             l == <<"log", t>>
  <2>2. trr[t].passed = "True" /\ <<l, r>> \notin newer
    BY <1>1, <2>1 DEF Reached
  <2>3. l \in exists
    BY <1>1, <2>1, <2>2 DEF Verdicts
  <2>4. r \in exists
    BY <1>1 DEF Memory, TrrFiles
  <2>5. r \in Files /\ Deps(r) = {l}
    BY TestFiles
  <2>6. ~MustMake(r)'
    BY <1>2, <2>2, <2>3, <2>4, <2>5 DEF MustMake
  <2> QED
    BY <1>2, <1>4, <2>2, <2>5, <2>6
<1>13. FirstMake'
  <2>1. ASSUME count'.makes = 1, NEW t \in Tests
        PROVE  /\ logs[t].open \/ logs[t].uvm = <<>>
               /\ <<"log", t>> \notin exists /\ <<"log", t>> \in Files
               /\ <<"trr", t>> \in Files
    BY <1>1, <2>1, TestFiles DEF FirstMake
  <2> QED
    BY <1>2, <1>4, <2>1 DEF FirstMake, Done
<1> QED
  BY <1>5, <1>6, <1>7, <1>8, <1>9, <1>10, <1>11, <1>12, <1>13 DEF FlowInv

(***************************************************************************)
(* metadata.pickle is there when create_metadata is done.                  *)
(***************************************************************************)
LEMMA CreateInv == FlowInv /\ CreateMetadata /\ [Next]_vars => FlowInv'
<1> SUFFICES ASSUME FlowInv, CreateMetadata, [Next]_vars PROVE FlowInv'
  OBVIOUS
<1>1. make = "create" /\ Created /\ Started /\ UNCHANGED <<trr, logs, report, count>>
  BY DEF CreateMetadata
<1>2. file # Absent /\ at' = at
  BY <1>1, FileStates DEF Created
<1>3. count \in [makes : Nat, edits : Nat, kills : Nat] /\ count.makes # 0
  BY <1>1 DEF FlowInv, Memory, FirstMake
<1> QED
  BY <1>1, <1>2, <1>3, StartedInv

(***************************************************************************)
(* What is left when make ends.                                            *)
(***************************************************************************)
LEMMA OffFacts ==
  ASSUME NEW how, Off(how), file' # Absent, how = "ok" => Goal \in exists'
  PROVE  /\ Progress' /\ Steps' /\ Unpickled'
         /\ \A f \in Files : status'[f] = "todo" /\ step'[f] = "none"
         /\ make' = "off" /\ result' = how /\ absent' = {} /\ dirty' = {}
<1>1. /\ make' = "off" /\ result' = how /\ absent' = {} /\ dirty' = {}
      /\ \A f \in Files : status'[f] = "todo" /\ step'[f] = "none"
  BY DEF Off
<1>2. Progress'
  BY <1>1 DEF Progress
<1>3. Steps' /\ Unpickled'
  BY <1>1 DEF Steps, StepKinds, Unpickled
<1> QED
  BY <1>1, <1>2, <1>3

(***************************************************************************)
(* make ends, or does not find a metadata file it can read.                *)
(***************************************************************************)
LEMMA EndInv ==
  ASSUME FlowInv, [Next]_vars, NEW how \in {"ok", "failed", "killed"}, Off(how), file # Absent,
         how = "ok" => Goal \in exists, at = [s \in Scripts |-> "out"], UNCHANGED at,
         UNCHANGED <<exists, newer, trr, logs, report>>,
         count' \in [makes : Nat, edits : Nat, kills : Nat], count'.edits = count.edits,
         count'.makes # 0
  PROVE  FlowInv'
<1>1. TypeOK /\ Positions /\ Progress /\ Steps /\ Memory /\ Unpickled /\ LogFiles /\ Stable
      /\ Verdicts /\ Reached /\ FirstMake
  BY DEF FlowInv
<1>2. file' # Absent
  BY NeverAbsent
<1>3. /\ Progress' /\ Steps' /\ Unpickled'
      /\ \A f \in Files : status'[f] = "todo" /\ step'[f] = "none"
      /\ make' = "off" /\ result' = how /\ absent' = {} /\ dirty' = {}
  BY <1>2, OffFacts
<1>4. TypeOK'
  <2>1. status' = [f \in Files |-> "todo"] /\ step' = [f \in Files |-> "none"]
    BY DEF Off
  <2> QED
    BY <1>1, <1>3, <2>1, StoreTypesKept DEF TypeOK
<1>5. Positions'
  BY <1>1, <1>3 DEF Positions
<1>6. Memory' /\ LogFiles'
  BY <1>1, <1>3 DEF Memory, LogFiles
<1>7. Stable'
  <2>1. ASSUME NEW f \in Sim, UpToDateForGood(f) PROVE UpToDateForGood(f)'
    <3>1. \A p \in Deps(f) \ {Src} : p \in Files
      BY DepsFacts DEF Sim
    <3> QED
      BY <1>3, <2>1, <3>1 DEF UpToDateForGood
  <2> QED
    BY <1>1, <2>1 DEF Stable
<1>8. Verdicts'
  <2>1. \A t \in Tests : <<"log", t>> \in Files
    BY TestFiles
  <2> QED
    BY <1>1, <1>3, <2>1, GoalFacts DEF Verdicts, Judged
<1>9. Reached' /\ FirstMake'
  BY <1>1, <1>3 DEF Reached, FirstMake
<1> QED
  BY <1>3, <1>4, <1>5, <1>6, <1>7, <1>8, <1>9 DEF FlowInv

\* A make that ends keeps the invariant of the flow.
LEMMA StopInv == FlowInv /\ StopMake /\ [Next]_vars => FlowInv'
<1> SUFFICES ASSUME FlowInv, StopMake, [Next]_vars PROVE FlowInv'
  OBVIOUS
<1>1. TypeOK /\ Positions /\ Progress /\ Memory /\ FirstMake
  BY DEF FlowInv
<1>2. /\ make = "run" /\ Running = {}
      /\ (status[Goal] = "done" /\ Off("ok")) \/ Off("failed")
      /\ UNCHANGED <<at, exists, newer, trr, logs, report, count>>
  BY DEF StopMake, storeVars
<1>3. file # Absent /\ count.makes # 0 /\ count \in [makes : Nat, edits : Nat, kills : Nat]
  BY <1>1, <1>2 DEF Progress, FirstMake, Memory
<1>4. at = [s \in Scripts |-> "out"]
  BY <1>1, <1>2, Idle
<1>5. status[Goal] = "done" => Goal \in exists
  BY <1>1, <1>2, GoalFacts DEF Memory, Done
<1>6. CASE status[Goal] = "done" /\ Off("ok")
  BY <1>2, <1>3, <1>4, <1>5, <1>6, EndInv
<1>7. CASE Off("failed")
  BY <1>2, <1>3, <1>4, <1>7, EndInv
<1> QED
  BY <1>2, <1>6, <1>7

(***************************************************************************)
(* The first make: there is nothing yet but the sources.                   *)
(***************************************************************************)
LEMMA FirstInv ==
  ASSUME FlowInv, [Next]_vars, make = "off", Create, make' = "create", result' = "none",
         Write(TrrFiles), trr' = [t \in Tests |-> NoResult],
         UNCHANGED <<absent, status, step, logs, report>>,
         count' \in [makes : Nat, edits : Nat, kills : Nat], count'.makes = count.makes + 1
  PROVE  FlowInv'
<1>1. TypeOK /\ Positions /\ Progress /\ Steps /\ Memory /\ Unpickled /\ LogFiles /\ Stable
      /\ Verdicts /\ Reached /\ FirstMake
  BY DEF FlowInv
<1>2. file = Absent /\ file' # Absent /\ at' = at /\ exists = {Src}
  BY <1>1, FileStates DEF Create, Progress
<1>3. \A f \in Files : step[f] = "none" /\ status[f] = "todo"
  BY <1>1, Idle
<1>4. TrrFiles \in SUBSET (Files \cup {Src})
  BY TestFiles DEF TrrFiles
<1>5. /\ exists' = {Src} \cup TrrFiles
      /\ newer \subseteq Edges => newer' \subseteq Edges
      /\ dirty \subseteq Edges => dirty' \subseteq Edges
  BY <1>2, <1>4, WriteFacts
<1>6. TypeOK'
  <2>1. NoResult \in TestRunResult
    BY DEF NoResult, TestRunResult, FailureModes
  <2> QED
    BY <1>1, <1>4, <1>5, <2>1, StoreTypesKept DEF TypeOK
<1>7. Positions'
  BY <1>1, <1>2 DEF Positions
<1>8. Progress' /\ Steps'
  BY <1>1, <1>2, <1>3 DEF Progress, Steps, StepKinds
<1>9. Memory'
  BY <1>1, <1>5 DEF Memory
<1>10. Unpickled'
  BY <1>3 DEF Unpickled
<1>11. LogFiles'
  BY <1>1, <1>2, <1>5 DEF LogFiles
<1>12. Stable'
  <2>1. Sim \cap exists' = {}
    <3>1. Src \notin Sim
      BY FileFacts DEF Sim
    <3>2. \A t \in Tests : <<"trr", t>> \notin Sim
      BY TestFiles
    <3> QED
      BY <1>5, <3>1, <3>2 DEF TrrFiles
  <2> QED
    BY <2>1 DEF Stable
<1>13. Verdicts'
  BY <1>3, GoalFacts DEF Verdicts, NoResult
<1>14. Reached'
  <2>1. Goal \notin exists'
    BY <1>5, TestFiles, FileFacts, GoalFacts DEF TrrFiles
  <2> QED
    BY <2>1 DEF Reached
<1>15. FirstMake'
  <2>1. count.makes \in Nat
    BY <1>1 DEF Memory
  <2>2. count'.makes # 0 /\ (count'.makes = 1 => count.makes = 0)
    BY <2>1
  <2>3. \A t \in Tests : <<"log", t>> \notin exists'
    <3>1. \A t, u \in Tests : <<"log", t>> # <<"trr", u>> /\ <<"log", t>> # Src
      BY DEF Src
    <3> QED
      BY <1>5, <3>1 DEF TrrFiles
  <2> QED
    BY <1>1, <2>2, <2>3 DEF FirstMake
<1> QED
  BY <1>6, <1>7, <1>8, <1>9, <1>10, <1>11, <1>12, <1>13, <1>14, <1>15 DEF FlowInv

\* A make that starts keeps the invariant of the flow.
LEMMA StartInv == FlowInv /\ StartMake /\ [Next]_vars => FlowInv'
<1> SUFFICES ASSUME FlowInv, StartMake, [Next]_vars PROVE FlowInv'
  OBVIOUS
<1>1. TypeOK /\ Positions /\ Progress /\ Memory /\ FirstMake
  BY DEF FlowInv
<1>2. count \in [makes : Nat, edits : Nat, kills : Nat]
  BY <1>1 DEF Memory
<1>3. make = "off" /\ count' = [count EXCEPT !.makes = @ + 1]
      /\ UNCHANGED <<logs, report>>
  BY DEF StartMake
<1>4. /\ count' \in [makes : Nat, edits : Nat, kills : Nat]
      /\ count'.makes = count.makes + 1 /\ count'.edits = count.edits /\ count'.makes # 0
      /\ count'.makes = 1 => file = Absent
  BY <1>1, <1>2, <1>3 DEF FirstMake
<1>5. CASE Create /\ make' = "create" /\ result' = "none" /\ Write(TrrFiles)
           /\ trr' = [t \in Tests |-> NoResult] /\ UNCHANGED <<absent, status, step>>
  BY <1>3, <1>4, <1>5, FirstInv
<1>6. CASE Readable /\ Started /\ UNCHANGED <<storeVars, trr>>
  <2>1. file # Absent
    BY <1>6 DEF Readable, Absent
  <2> QED
    BY <1>3, <1>4, <1>6, <2>1, StartedInv DEF storeVars
<1>7. CASE file = Torn /\ Off("failed") /\ UNCHANGED <<storeVars, exists, newer, trr>>
  <2>1. file # Absent /\ at = [s \in Scripts |-> "out"]
    BY <1>1, <1>3, <1>7, FileStates, Idle
  <2> QED
    BY <1>3, <1>4, <1>7, <2>1, EndInv DEF storeVars
<1> QED
  BY <1>5, <1>6, <1>7 DEF StartMake

(***************************************************************************)
(* A source is edited while make does not run.                             *)
(***************************************************************************)
LEMMA EditInv == FlowInv /\ Edit /\ [Next]_vars => FlowInv'
<1> SUFFICES ASSUME FlowInv, Edit, [Next]_vars PROVE FlowInv'
  OBVIOUS
<1>1. TypeOK /\ Positions /\ Progress /\ Steps /\ Memory /\ Unpickled /\ LogFiles /\ Stable
      /\ Verdicts /\ Reached /\ FirstMake
  BY DEF FlowInv
<1>2. make = "off" /\ Write({Src}) /\ count' = [count EXCEPT !.edits = @ + 1]
      /\ UNCHANGED <<storeVars, make, result, absent, status, step, trr, logs, report>>
  BY DEF Edit
<1>3. count \in [makes : Nat, edits : Nat, kills : Nat]
  BY <1>1 DEF Memory
<1>4. /\ count' \in [makes : Nat, edits : Nat, kills : Nat] /\ count'.makes = count.makes
      /\ count'.edits # 0
  BY <1>2, <1>3
<1>5. exists' = exists /\ (newer \subseteq Edges => newer' \subseteq Edges)
      /\ (dirty \subseteq Edges => dirty' \subseteq Edges)
  <2>1. Src \in exists
    BY <1>1 DEF Memory
  <2>2. {Src} \in SUBSET (Files \cup {Src})
    OBVIOUS
  <2>3. /\ exists' = exists \cup {Src} /\ (newer \subseteq Edges => newer' \subseteq Edges)
        /\ (dirty \subseteq Edges => dirty' \subseteq Edges)
    BY <1>2, <2>2, WriteFacts
  <2> QED
    BY <2>1, <2>3
<1>6. TypeOK'
  BY <1>1, <1>2, <1>5, StoreTypesKept DEF TypeOK
<1>7. Positions' /\ Progress' /\ Steps'
  BY <1>1, <1>2, <1>5 DEF Positions, Progress, Steps, StepKinds, Done, storeVars
<1>8. Memory' /\ Unpickled' /\ LogFiles'
  BY <1>1, <1>2, <1>4, <1>5 DEF Memory, Unpickled, LogFiles, storeVars
<1>9. Stable' /\ Verdicts' /\ Reached'
  BY <1>1, <1>2, <1>4 DEF Stable, Verdicts, Reached, Collect
<1>10. FirstMake'
  BY <1>1, <1>2, <1>4 DEF FirstMake, storeVars
<1> QED
  BY <1>6, <1>7, <1>8, <1>9, <1>10 DEF FlowInv

(***************************************************************************)
(* What an interruption does to the files: of the files that were being    *)
(* made some are gone, or the first part of some logs is there.            *)
(***************************************************************************)
TornOrSame(t) ==
  \/ trr'[t] = trr[t]
  \/ trr'[t] = TornResult /\ \E g \in Files : g[2] = t /\ status[g] = "run"

\* What an interrupted make removes or adds was being made.
LEMMA InterruptFiles ==
  ASSUME TypeOK, LogFiles, Interrupt
  PROVE  /\ \A g : g \in exists /\ g \notin exists' =>
              g \in Files /\ g[1] \in {"asm", "log"} /\ status[g] = "run"
         /\ \A g : g \in exists' /\ g \notin exists =>
              /\ g \in Files /\ g[1] = "log" /\ status[g] = "run"
              /\ \A p : <<p, g>> \notin newer'
         /\ \A p, g : <<p, g>> \in newer' => <<p, g>> \in newer \/ (p \in Files /\ status[p] = "run")
         /\ exists' \subseteq Files \cup {Src} /\ newer' \subseteq Edges
         /\ logs' \in [Tests -> LogType]
         /\ \A t \in Tests : status[<<"log", t>>] # "run" =>
              logs'[t].uvm = logs[t].uvm /\ logs'[t].trace = logs[t].trace
         /\ LogFiles'
         /\ \A t \in Tests : TornOrSame(t)
         /\ trr' \in [Tests -> TestRunResult \cup {TornResult}]
<1>1. /\ exists \subseteq Files \cup {Src} /\ newer \subseteq Edges
      /\ trr \in [Tests -> TestRunResult \cup {TornResult}]
      /\ logs \in [Tests -> LogType]
  BY DEF TypeOK, LogType, LogUvm, LogTrace
<1>2. /\ \A t \in Tests : TornOrSame(t)
      /\ trr' \in [Tests -> TestRunResult \cup {TornResult}]
  <2>1. PICK torn \in SUBSET Exporting :
             trr' = [t \in Tests |-> IF t \in torn THEN TornResult ELSE trr[t]]
    BY DEF Interrupt
  <2>2. trr' \in [Tests -> TestRunResult \cup {TornResult}]
    BY <1>1, <2>1
  <2>3. ASSUME NEW t \in Tests, t \in torn
        PROVE  \E g \in Files : g[2] = t /\ status[g] = "run"
    BY <2>3 DEF Exporting, Running
  <2>4. ASSUME NEW t \in Tests
        PROVE  TornOrSame(t)
    BY <2>1, <2>3 DEF TornOrSame
  <2> QED
    BY <2>2, <2>4
<1> DEFINE FilesLeft ==
      /\ \A g : g \in exists /\ g \notin exists' =>
           g \in Files /\ g[1] \in {"asm", "log"} /\ status[g] = "run"
      /\ \A g : g \in exists' /\ g \notin exists =>
           /\ g \in Files /\ g[1] = "log" /\ status[g] = "run"
           /\ \A p : <<p, g>> \notin newer'
      /\ \A p, g : <<p, g>> \in newer' => <<p, g>> \in newer \/ (p \in Files /\ status[p] = "run")
      /\ exists' \subseteq Files \cup {Src} /\ newer' \subseteq Edges
    LogsLeft ==
      /\ logs' \in [Tests -> LogType]
      /\ \A t \in Tests : status[<<"log", t>>] # "run" =>
           logs'[t].uvm = logs[t].uvm /\ logs'[t].trace = logs[t].trace
      /\ LogFiles'
<1>3. ASSUME NEW gone \in SUBSET JustWritten, exists' = exists \ gone, newer' = newer,
             logs' = [t \in Tests |-> [logs[t] EXCEPT !.open = @ /\ <<"log", t>> \notin gone]]
      PROVE  FilesLeft /\ LogsLeft
  <2>1. \A g \in gone : g \in Files /\ g[1] \in {"asm", "log"} /\ status[g] = "run"
    BY DEF JustWritten, Running
  <2>2. FilesLeft
    BY <1>1, <1>3, <2>1
  <2>3. ASSUME NEW t \in Tests
        PROVE  /\ logs'[t] \in LogType
               /\ logs'[t].uvm = logs[t].uvm /\ logs'[t].trace = logs[t].trace
               /\ logs'[t].open => logs[t].open /\ <<"log", t>> \notin gone
    <3> DEFINE b == logs[t].open /\ <<"log", t>> \notin gone
               x == logs'[t]
    <3>1. b \in BOOLEAN /\ (b => logs[t].open /\ <<"log", t>> \notin gone)
      OBVIOUS
    <3> HIDE DEF b
    <3>2. x = [logs[t] EXCEPT !.open = b]
      BY <1>3 DEF b
    <3>3. /\ logs[t] = [open |-> logs[t].open, uvm |-> logs[t].uvm, trace |-> logs[t].trace]
          /\ logs[t].uvm \in LogUvm /\ logs[t].trace \in LogTrace
      BY <1>1 DEF LogType
    <3> HIDE DEF x
    <3>4. x.uvm = logs[t].uvm
      BY <3>2, <3>3
    <3>5. x.trace = logs[t].trace
      BY <3>2, <3>3
    <3>6. x.open = b
      BY <3>2, <3>3
    <3>7. x = [open |-> x.open, uvm |-> x.uvm, trace |-> x.trace]
      BY <3>2, <3>3
    <3>8. x \in LogType
      BY <3>1, <3>3, <3>4, <3>5, <3>6, <3>7 DEF LogType
    <3> QED
      BY <3>1, <3>4, <3>5, <3>6, <3>8 DEF x
  <2>4. logs' \in [Tests -> LogType]
    BY <1>3, <2>3
  <2>5. LogFiles'
    BY <1>3, <2>3 DEF LogFiles
  <2> QED
    BY <2>2, <2>3, <2>4, <2>5
<1>4. ASSUME NEW begun \in (SUBSET Simulating) \ {{}}, NEW o \in Outcomes,
             exists' = exists \cup begun,
             newer' = {e \in newer : e[2] \notin begun} \cup {e \in Edges : e[1] \in begun},
             logs' = [t \in Tests |-> IF <<"log", t>> \in begun THEN CutShort(o) ELSE logs[t]]
      PROVE  FilesLeft /\ LogsLeft
  <2>1. \A g \in begun : g \in Files /\ g[1] = "log" /\ status[g] = "run"
    BY DEF Simulating, Running
  <2>2. \A p, g : <<p, g>> \in Edges => p \in Deps(g) /\ g \in Files
    BY DEF Edges
  <2>3. \A p, g : <<p, g>> \in newer' => (<<p, g>> \in newer /\ g \notin begun)
                                         \/ (<<p, g>> \in Edges /\ p \in begun)
    BY <1>4
  <2>4. \A p, g : p \in begun /\ g \in begun => <<p, g>> \notin Edges
    <3>1. SUFFICES ASSUME NEW p, NEW g, p \in begun, g \in begun, <<p, g>> \in Edges PROVE FALSE
      OBVIOUS
    <3>2. p \in Deps(g) /\ g \in Files /\ g \in Sim /\ p[1] = "log" /\ g[1] = "log" /\ p \in Files
      BY <2>1, <2>2, <3>1 DEF Sim, SimKinds
    <3>3. p[2] = All
      <4>1. p # Src
        BY <3>2, FileFacts
      <4> QED
        BY <3>2, <4>1, DepsFacts
    <3> QED
      BY <3>2, <3>3, FileFacts, RegressionAssumption DEF Tests
  <2>5. FilesLeft
    <3>1. newer' \subseteq Edges
      BY <1>1, <1>4
    <3> QED
      BY <1>1, <1>4, <2>1, <2>3, <2>4, <3>1
  <2>6. logs' \in [Tests -> LogType]
    BY <1>1, <1>4, CutShortFacts
  <2>7. LogFiles'
    BY <1>4 DEF LogFiles
  <2>8. \A t \in Tests : status[<<"log", t>>] # "run" => logs'[t] = logs[t]
    BY <1>4, <2>1
  <2> QED
    BY <2>5, <2>6, <2>7, <2>8
<1>5. FilesLeft /\ LogsLeft
  BY <1>3, <1>4 DEF Interrupt
<1> QED
  BY <1>2, <1>5

(***************************************************************************)
(* An interruption at any moment keeps the invariant.                      *)
(***************************************************************************)
LEMMA InterruptInv == FlowInv /\ Interrupt /\ [Next]_vars => FlowInv'
<1> SUFFICES ASSUME FlowInv, Interrupt, [Next]_vars PROVE FlowInv'
  OBVIOUS
<1>1. TypeOK /\ Positions /\ Progress /\ Steps /\ Memory /\ Unpickled /\ LogFiles /\ Stable
      /\ Verdicts /\ Reached /\ FirstMake
  BY DEF FlowInv
<1>2. /\ \A g : g \in exists /\ g \notin exists' =>
           g \in Files /\ g[1] \in {"asm", "log"} /\ status[g] = "run"
      /\ \A g : g \in exists' /\ g \notin exists =>
           /\ g \in Files /\ g[1] = "log" /\ status[g] = "run"
           /\ \A p : <<p, g>> \notin newer'
      /\ \A p, g : <<p, g>> \in newer' => <<p, g>> \in newer \/ (p \in Files /\ status[p] = "run")
      /\ exists' \subseteq Files \cup {Src} /\ newer' \subseteq Edges
      /\ logs' \in [Tests -> LogType]
      /\ \A t \in Tests : status[<<"log", t>>] # "run" =>
           logs'[t].uvm = logs[t].uvm /\ logs'[t].trace = logs[t].trace
      /\ LogFiles'
      /\ \A t \in Tests : TornOrSame(t)
      /\ trr' \in [Tests -> TestRunResult \cup {TornResult}]
  BY <1>1, InterruptFiles
<1>3. make # "off" /\ Off("killed") /\ report' = report
      /\ count' = [count EXCEPT !.kills = @ + 1]
  BY DEF Interrupt
<1>4. file # Absent /\ file' # Absent
  BY <1>1, <1>3, NeverAbsent DEF Progress
<1>5. /\ Progress' /\ Steps' /\ Unpickled'
      /\ \A f \in Files : status'[f] = "todo" /\ step'[f] = "none"
      /\ make' = "off" /\ result' = "killed" /\ absent' = {} /\ dirty' = {}
  BY <1>3, <1>4, OffFacts
<1>6. count' \in [makes : Nat, edits : Nat, kills : Nat] /\ count'.makes = count.makes
      /\ count'.edits = count.edits /\ count.makes # 0
  BY <1>1, <1>3 DEF Memory, FirstMake
<1>7. TypeOK'
  <2>1. status' = [f \in Files |-> "todo"] /\ step' = [f \in Files |-> "none"]
    BY <1>3 DEF Off
  <2> QED
    BY <1>1, <1>2, <1>3, <1>5, <2>1, StoreTypesKept DEF TypeOK, LogType, LogUvm, LogTrace
<1>8. Positions'
  <2>1. \A s \in Scripts : at'[s] = "out"
    <3>1. CASE make = "create"
      BY <1>1, <3>1, Idle DEF Interrupt, CreateKilled
    <3>2. CASE make # "create"
      BY <3>2 DEF Interrupt, Killed
    <3> QED
      BY <3>1, <3>2
  <2> QED
    BY <2>1 DEF Positions
<1>9. Memory'
  <2>1. Src \in exists'
    BY <1>1, <1>2, FileFacts DEF Memory
  <2>2. TrrFiles \subseteq exists'
    <3>1. \A p \in TrrFiles : p[1] = "trr"
      BY DEF TrrFiles
    <3> QED
      BY <1>1, <1>2, <1>4, <3>1 DEF Memory
  <2> QED
    BY <1>5, <1>6, <2>1, <2>2 DEF Memory
<1>10. Stable'
  <2>1. SUFFICES ASSUME count.edits = 0, NEW g \in Sim, g \in exists'
                 PROVE  \A p \in Deps(g) : /\ p \in exists' /\ <<p, g>> \notin newer'
                                           /\ p # Src => status'[p] # "run"
    BY <1>5, <1>6 DEF Stable, UpToDateForGood
  <2>2. TAKE p \in Deps(g)
  <2>3. g \in Files /\ p \in Files \cup {Src}
    BY DepsFacts DEF Sim
  <2>4. CASE g \in exists
    <3>1. p \in exists /\ <<p, g>> \notin newer /\ (p # Src => status[p] # "run")
      BY <1>1, <2>1, <2>4 DEF Stable, UpToDateForGood
    <3>2. Src \notin Files /\ Src \notin DOMAIN status
      BY <1>1, FileFacts DEF TypeOK
    <3>3. p \in exists'
      BY <1>2, <3>1, <3>2
    <3>4. <<p, g>> \notin newer'
      <4>1. CASE p # Src
        BY <1>2, <3>1, <4>1
      <4>2. CASE p = Src
        BY <1>2, <3>1, <3>2, <4>2
      <4> QED
        BY <4>1, <4>2
    <3> QED
      BY <1>5, <2>3, <3>3, <3>4
  <2>5. CASE g \notin exists
    <3>1. g[1] = "log" /\ status[g] = "run" /\ <<p, g>> \notin newer'
      BY <1>2, <2>1, <2>5
    <3>2. make = "run"
      BY <1>1, <2>3, <3>1 DEF Progress
    <3>3. CASE p = Src
      <4>1. p \in exists'
        BY <1>1, <1>2, <3>3, FileFacts DEF Memory
      <4> QED
        BY <3>1, <3>3, <4>1
    <3>4. CASE p # Src
      <4>1. p[2] = All \/ p[1] = "bin"
        BY <2>3, <3>1, <3>4, DepsFacts
      <4>2. status[p] = "done" /\ p \in Files
        BY <1>1, <2>3, <3>1, <3>4 DEF Progress, Done
      <4>3. p \in exists'
        BY <1>1, <1>2, <3>2, <4>1, <4>2 DEF Memory, Done
      <4> QED
        BY <1>5, <3>1, <4>2, <4>3
    <3> QED
      BY <3>3, <3>4
  <2> QED
    BY <2>4, <2>5
<1>11. Verdicts'
  <2>1. ASSUME count.edits = 0, NEW t \in Tests, trr'[t].passed = "True"
        PROVE  Judged(t)' /\ <<"log", t>> \in exists' /\ status'[<<"log", t>>] # "run"
    <3>1. trr'[t] = trr[t]
      BY <1>2, <2>1 DEF TornOrSame, TornResult
    <3>2. Judged(t) /\ <<"log", t>> \in exists /\ status[<<"log", t>>] # "run"
      BY <1>1, <2>1, <3>1 DEF Verdicts
    <3>3. Judged(t)'
      BY <1>2, <3>2 DEF Judged
    <3> QED
      BY <1>2, <1>5, <3>2, <3>3, TestFiles
  <2> QED
    BY <1>5, <1>6, <2>1, GoalFacts DEF Verdicts
<1>12. Reached'
  <2>1. SUFFICES ASSUME count.edits = 0, Goal \in exists', NEW t \in Tests
                 PROVE  trr'[t].passed = "True" /\ <<<<"log", t>>, <<"trr", t>>>> \notin newer'
    BY <1>5, <1>6 DEF Reached
  <2>2. Goal \in exists
    BY <1>2, <2>1, GoalFacts
  <2>3. /\ trr[t].passed = "True" /\ <<<<"log", t>>, <<"trr", t>>>> \notin newer
        /\ make = "run" => status[<<"trr", t>>] # "run"
    BY <1>1, <2>1, <2>2 DEF Reached, Done
  <2>4. <<"log", t>> \in exists /\ status[<<"log", t>>] # "run"
    BY <1>1, <2>1, <2>3 DEF Verdicts
  <2>5. <<"bin", t>> \in exists /\ status[<<"bin", t>>] # "run"
    BY <1>1, <2>1, <2>4, TestFiles DEF Stable, UpToDateForGood
  <2>6. t \in RiscvDv => status[<<"asm", t>>] # "run"
    BY <1>1, <2>1, <2>5, TestFiles DEF Stable, UpToDateForGood
  <2>7. ASSUME NEW g \in Files, g[2] = t, status[g] = "run" PROVE FALSE
    <3>1. make = "run"
      BY <1>1, <2>7 DEF Progress
    <3>2. t # All /\ g = <<g[1], t>> /\ g[1] \in {"asm", "bin", "log", "trr"}
          /\ (g[1] = "asm" => t \in RiscvDv)
      BY <2>7, FileFacts
    <3> QED
      BY <2>3, <2>4, <2>5, <2>6, <2>7, <3>1, <3>2
  <2>8. trr'[t] = trr[t]
    BY <1>2, <2>7 DEF TornOrSame
  <2> QED
    BY <1>2, <2>3, <2>4, <2>8
<1>13. FirstMake'
  BY <1>5, <1>6 DEF FirstMake
<1> QED
  BY <1>2, <1>5, <1>7, <1>8, <1>9, <1>10, <1>11, <1>12, <1>13 DEF FlowInv

-----------------------------------------------------------------------------
(* The theorems.                                                           *)

(***************************************************************************)
(* A step that changes nothing.                                            *)
(***************************************************************************)
LEMMA StutterInv == FlowInv /\ UNCHANGED vars => FlowInv'
<1> SUFFICES ASSUME FlowInv, UNCHANGED vars PROVE FlowInv'
  OBVIOUS
<1>1. /\ UNCHANGED <<file, lock, copy, at>>
      /\ UNCHANGED <<make, result, exists, newer, absent, dirty, status, step>>
      /\ UNCHANGED <<trr, logs, report, count>>
  BY DEF vars, storeVars, makeVars
<1>2. TypeOK' /\ Positions' /\ Progress' /\ Steps'
  BY <1>1 DEF FlowInv, TypeOK, StoreTypeOK, Positions, Progress, Steps, StepKinds, Done
<1>3. Memory' /\ Unpickled' /\ LogFiles'
  BY <1>1 DEF FlowInv, Memory, Unpickled, LogFiles, Done
<1>4. \A f : UpToDateForGood(f) => UpToDateForGood(f)'
  BY <1>1 DEF UpToDateForGood, Done, MustMake
<1>5. Stable'
  BY <1>1, <1>4 DEF FlowInv, Stable
<1>6. \A t : Judged(t)' <=> Judged(t)
  BY <1>1 DEF Judged
<1>7. Verdicts'
  BY <1>1, <1>6 DEF FlowInv, Verdicts, Collect
<1>8. \A f : MustMake(f)' <=> MustMake(f)
  BY <1>1 DEF MustMake
<1>9. Reached'
  BY <1>1, <1>8 DEF FlowInv, Reached, Done
<1>10. FirstMake'
  BY <1>1, <1>6 DEF FlowInv, FirstMake, Noticed, Done
<1> QED
  BY <1>2, <1>3, <1>5, <1>7, <1>9, <1>10 DEF FlowInv

(***************************************************************************)
(* Every step keeps the invariant.                                         *)
(***************************************************************************)
LEMMA FlowNext == FlowInv /\ [Next]_vars => FlowInv'
<1> SUFFICES ASSUME FlowInv, [Next]_vars PROVE FlowInv'
  OBVIOUS
<1>1. CASE Next
  <2>1. CASE CreateMetadata
    BY <2>1, CreateInv
  <2>2. CASE StopMake
    BY <2>2, StopInv
  <2>3. ASSUME NEW f \in Files, OfFile(f) PROVE FlowInv'
    BY <2>3, FileInv
  <2>4. ASSUME NEW s \in {f[1] : f \in Stamps}, OfScript(s) PROVE FlowInv'
    BY <2>4, ScriptInv
  <2>5. CASE StartMake
    BY <2>5, StartInv
  <2>6. CASE Interrupt
    BY <2>6, InterruptInv
  <2>7. CASE Edit
    BY <2>7, EditInv
  <2> QED
    BY <1>1, <2>1, <2>2, <2>3, <2>4, <2>5, <2>6, <2>7 DEF Next, Work, OfFile, OfScript
<1>2. CASE UNCHANGED vars
  BY <1>2, StutterInv
<1> QED
  BY <1>1, <1>2

(***************************************************************************)
(* FlowInv is an invariant of the regression, whatever its tests, the      *)
(* outcomes of its simulations, and however often it is started, edited    *)
(* and interrupted.                                                        *)
(***************************************************************************)
THEOREM FlowInvariance == Spec => []FlowInv
BY FlowInit, FlowNext, PTL DEF Spec

(***************************************************************************)
(* TypeOK: metadata.pickle, the TestRunResult pickles, the logs, regr.log  *)
(* and what make remembers keep their types.                               *)
(***************************************************************************)
THEOREM TypeCorrect == Spec => []TypeOK
<1>1. FlowInv => TypeOK
  BY DEF FlowInv
<1> QED
  BY <1>1, FlowInvariance, PTL

(***************************************************************************)
(* When the script of the goal runs all other files are made.              *)
(***************************************************************************)
LEMMA GoalLast ==
  ASSUME Progress, status[Goal] # "todo", NEW f \in Files, f # Goal
  PROVE  status[f] = "done"
<1>1. \A g \in Files : status[g] # "todo" => \A p \in Deps(g) : p # Src => status[p] = "done"
  BY DEF Progress, Done
<1>2. /\ {Stamp("tb"), Stamp("fcov"), Stamp("merge"), Stamp("regr")} \subseteq Files
      /\ RiscvDv # {} => {Stamp("cfg"), Stamp("gen")} \subseteq Files
      /\ Stamp("gen") \in Files => Stamp("cfg") \in Files
      /\ Goal = Stamp("regr")
  BY FileFacts, GoalFacts
<1>3. \A s : Stamp(s) # Src \/ s = "src"
  BY DEF Stamp, Src
<1>4. status[Stamp("merge")] = "done"
  <2>1. Stamp("merge") \in Deps(Goal)
    BY <1>2, RuleFacts
  <2> QED
    BY <1>1, <1>2, <1>3, <2>1
<1>5. status[Stamp("fcov")] = "done"
  <2>1. Stamp("fcov") \in Deps(Stamp("merge"))
    BY RuleFacts
  <2> QED
    BY <1>1, <1>2, <1>3, <1>4, <2>1
<1>6. ASSUME NEW t \in Tests
      PROVE  /\ status[<<"trr", t>>] = "done" /\ status[<<"log", t>>] = "done"
             /\ status[<<"bin", t>>] = "done"
             /\ t \in RiscvDv => status[<<"asm", t>>] = "done"
             /\ status[Stamp("tb")] = "done"
  <2>1. status[<<"trr", t>>] = "done" /\ status[<<"log", t>>] = "done"
    BY MadeBefore
  <2>2. /\ {<<"bin", t>>, <<"log", t>>} \subseteq Files
        /\ <<"bin", t>> \in Deps(<<"log", t>>) /\ <<"bin", t>> # Src
        /\ t \in RiscvDv => <<"asm", t>> \in Deps(<<"bin", t>>) /\ <<"asm", t>> # Src
    BY TestFiles
  <2>3. Stamp("tb") \in Deps(<<"log", t>>)
    BY RuleFacts
  <2>4. status[<<"bin", t>>] = "done" /\ status[Stamp("tb")] = "done"
    BY <1>1, <1>3, <2>1, <2>2, <2>3
  <2>5. t \in RiscvDv => status[<<"asm", t>>] = "done"
    BY <1>1, <2>2, <2>4
  <2> QED
    BY <2>1, <2>4, <2>5
<1>7. status[Stamp("tb")] = "done"
  BY <1>6, RegressionAssumption DEF Tests
<1>8. ASSUME RiscvDv # {}
      PROVE  status[Stamp("gen")] = "done" /\ status[Stamp("cfg")] = "done"
  <2>1. PICK t \in RiscvDv : TRUE
    BY <1>8
  <2>2. t \in Tests /\ <<"asm", t>> \in Files
    BY FileFacts
  <2>3. Stamp("gen") \in Deps(<<"asm", t>>) /\ Stamp("cfg") \in Deps(Stamp("gen"))
    BY <2>2, RuleFacts
  <2>4. status[Stamp("gen")] = "done"
    BY <1>1, <1>3, <1>6, <2>2, <2>3
  <2> QED
    BY <1>1, <1>2, <1>3, <1>8, <2>3, <2>4
<1>9. f \in {Stamp("cfg"), Stamp("gen")} => RiscvDv # {}
  <2>1. ASSUME RiscvDv = {}, f \in {Stamp("cfg"), Stamp("gen")} PROVE FALSE
    <3>1. f \in Stamps
      BY <2>1, FileFacts, RegressionAssumption DEF Stamp, Tests
    <3> QED
      BY <2>1, <3>1 DEF Stamps, Stamp
  <2> QED
    BY <2>1
<1>10. CASE f \in {Stamp("cfg"), Stamp("gen"), Stamp("tb"), Stamp("fcov"), Stamp("merge")}
  BY <1>4, <1>5, <1>7, <1>8, <1>9, <1>10
<1>11. ASSUME NEW t \in Tests, f \in {<<"bin", t>>, <<"log", t>>, <<"trr", t>>}
       PROVE  status[f] = "done"
  BY <1>6, <1>11
<1>12. ASSUME NEW t \in RiscvDv, f = <<"asm", t>>
       PROVE  status[f] = "done"
  BY <1>6, <1>12 DEF Tests
<1> QED
  BY <1>2, <1>10, <1>11, <1>12, FileNames

(***************************************************************************)
(* CollectedLast: while collect_results.py runs no other script does, and  *)
(* no log is newer than the verdict on it.                                 *)
(***************************************************************************)
THEOREM LastCollected == Spec => []CollectedLast
<1>1. FlowInv => CollectedLast
  <2> SUFFICES ASSUME FlowInv, step[Goal] # "none"
               PROVE  Running = {Goal}
                      /\ \A t \in Tests : <<<<"log", t>>, <<"trr", t>>>> \notin newer
    BY DEF CollectedLast
  <2>1. Progress /\ Memory /\ TypeOK
    BY DEF FlowInv
  <2>2. status[Goal] = "run" /\ make = "run" /\ Goal \in Files
    BY <2>1, GoalFacts DEF Progress, TypeOK
  <2>3. \A f \in Files : f # Goal => status[f] = "done"
    BY <2>1, <2>2, GoalLast
  <2>4. Running = {Goal}
    BY <2>2, <2>3 DEF Running
  <2>5. \A t \in Tests : status[<<"trr", t>>] = "done"
    BY <2>1, <2>2, MadeBefore
  <2> QED
    BY <2>1, <2>2, <2>4, <2>5 DEF Memory, Done
<1> QED
  BY <1>1, FlowInvariance, PTL

(***************************************************************************)
(* PassIsReal: as long as no source is edited, a test that                 *)
(* collect_results.py reports as PASS passed in the simulation whose log   *)
(* is there, and make run succeeds only if all tests did, whatever was     *)
(* interrupted before.                                                     *)
(***************************************************************************)
THEOREM PassesAreReal == Spec => []PassIsReal
<1>1. FlowInv => PassIsReal
  <2> SUFFICES ASSUME FlowInv, count.edits = 0 PROVE RerunPassIsReal
    BY DEF PassIsReal
  <2>1. Verdicts /\ Reached /\ Memory
    BY DEF FlowInv
  <2>2. ASSUME Collected, NEW t \in Tests, report[t] = "PASS" PROVE Judged(t)
    <3>1. Summary(trr[t]) = "PASS"
      BY <2>1, <2>2 DEF Collected, Verdicts, Collect
    <3>2. trr[t].passed = "True"
      BY <3>1 DEF Summary
    <3> QED
      BY <2>1, <3>2 DEF Verdicts
  <2>3. ASSUME result = "ok", NEW t \in Tests PROVE Judged(t)
    <3>1. Goal \in exists
      BY <2>1, <2>3 DEF Memory
    <3>2. trr[t].passed = "True"
      BY <2>1, <3>1 DEF Reached
    <3> QED
      BY <2>1, <3>2 DEF Verdicts
  <2> QED
    BY <2>2, <2>3 DEF RerunPassIsReal
<1> QED
  BY <1>1, FlowInvariance, PTL

(***************************************************************************)
(* NothingForgotten: in the first make a test whose log says that it       *)
(* passed is reported as PASS, unless run_rtl.py killed its simulation.    *)
(***************************************************************************)
THEOREM NoneForgotten == Spec => []NothingForgotten
<1>1. FlowInv => NothingForgotten
  <2> SUFFICES ASSUME FlowInv, count.makes = 1, Collected, NEW t \in Tests, Judged(t)
               PROVE  report[t] = "PASS" \/ trr[t].failure_mode = "TIMEOUT"
    BY DEF NothingForgotten
  <2>1. Verdicts /\ FirstMake /\ Progress /\ TypeOK
    BY DEF FlowInv
  <2>2. status[Goal] = "run" /\ make = "run"
    BY <2>1, GoalFacts DEF Collected, Progress, TypeOK
  <2>3. status[<<"trr", t>>] = "done"
    BY <2>1, <2>2, MadeBefore
  <2>4. Noticed(t)
    BY <2>1, <2>2, <2>3 DEF FirstMake, Done
  <2>5. report[t] = Summary(trr[t])
    BY <2>1 DEF Collected, Verdicts, Collect
  <2> QED
    BY <2>4, <2>5 DEF Noticed, Summary
<1> QED
  BY <1>1, FlowInvariance, PTL
=============================================================================
