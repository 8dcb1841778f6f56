-------------------------- MODULE Firmware_proofs --------------------------
(***************************************************************************)
(* For all packet lengths C and K, all stream capacities and any mixture   *)
(* of AXI errors: the safety properties of Firmware hold, provided the     *)
(* tlast wires of k and x keep their value (Sticky).                       *)
(***************************************************************************)
EXTENDS FirmwareInv, RunPath_proofs

(***************************************************************************)
(* The types of the streams and counters, and their tlast marks.           *)
(***************************************************************************)
LEMMA StreamFacts ==
  ASSUME IInv
  PROVE  /\ \A c \in Channels : fifo[c] \in Seq(BOOLEAN) /\ Len(fifo[c]) \in Nat
         /\ \A c \in MM2S : cmd[c] \in Nat /\ left[c] \in Nat
         /\ C \in Nat \ {0} /\ res \in 0 .. C
         /\ wleft \in Nat /\ wlen \in Nat /\ resp \in Nat
         /\ MM2S = {"k", "x", "a"} /\ Channels = {"k", "x", "a", "y"}
         /\ start \in BOOLEAN /\ done \in [Channels -> BOOLEAN]
         /\ Streams /\ PathTypeOK
<1>1. Streams /\ PathTypeOK
  BY DEF IInv, TypeOK, Streams
<1> QED
  BY <1>1, PathFacts

(***************************************************************************)
(* Nothing remains of a transfer when it is nowhere.                       *)
(***************************************************************************)
LEMMA RemainingNone ==
  ASSUME IInv, NEW c \in MM2S
  PROVE  /\ Remaining(c) \in Nat
         /\ Remaining(c) = 0 <=> (cmd[c] = 0 /\ left[c] = 0 /\ fifo[c] = <<>>)
BY NothingLeft DEF IInv, TypeOK

(***************************************************************************)
(* Something is under way only in the polling loop, after START is taken.  *)
(***************************************************************************)
LEMMA BusyMeansRunning ==
  ASSUME IInv, ~Quiet
  PROVE  pc = "poll" /\ start = FALSE /\ Running
BY DEF IInv, AtRest, TypeOK, PathTypeOK

-----------------------------------------------------------------------------
(* The invariant is inductive.                                             *)

(***************************************************************************)
(* The initial states satisfy the invariant.                               *)
(***************************************************************************)
LEMMA InitInv == Init => IInv
<1> SUFFICES ASSUME Init PROVE IInv
  OBVIOUS
<1>1. TypeOK
  <2>1. <<>> \in Seq(BOOLEAN) /\ C \in Nat
    BY PathAssumption
  <2>2. /\ start \in BOOLEAN /\ done \in [Channels -> BOOLEAN]
        /\ bytes \in [Channels -> Nat]
    BY DEF Init, CfgInit
  <2>3. /\ axi \subseteq MM2S
        /\ cmd \in [MM2S -> Nat] /\ left \in [MM2S -> Nat]
        /\ fifo \in [Channels -> Seq(BOOLEAN)] /\ held \in [{"k", "x"} -> BOOLEAN]
    BY <2>1 DEF Init, PathInit
  <2>4. /\ res \in 0 .. C
        /\ wr \in {"idle", "write", "finish", "drop"}
        /\ wleft \in Nat /\ wlen \in Nat /\ resp \in Nat
        /\ pc \in Channels
    BY <2>1 DEF Init, PathInit, Channels, MM2S
  <2> QED
    BY <2>2, <2>3, <2>4 DEF TypeOK, PathTypeOK
<1> USE DEF Init, CfgInit, PathInit, MM2S, Channels
<1>2. Programmed
  BY DEF Programmed, Written
<1>3. (\A c \in MM2S : ReadStream(c)) /\ WriteStream
  BY DEF ReadStream, WriteStream
<1>4. AtRest
  BY DEF AtRest, Quiet, Remaining
<1> QED
  BY <1>1, <1>2, <1>3, <1>4 DEF IInv

(***************************************************************************)
(* The register writes of run() happen at rest and leave the data path     *)
(* alone.                                                                  *)
(***************************************************************************)
LEMMA ProgramInv ==
  ASSUME IInv, NEW c \in Channels, Program(c)
  PROVE  IInv'
<1> USE DEF IInv, Program, WriteBytes, pathVars
<1>1. TypeOK'
  BY PathAssumption, KAssumption
     DEF TypeOK, PathTypeOK, Length, Following, Channels, MM2S
<1>2. Programmed'
  BY DEF TypeOK, PathTypeOK, Programmed, Written, Following, Channels, MM2S
<1>3. (\A d \in MM2S : ReadStream(d)') /\ WriteStream'
  BY DEF ReadStream, WriteStream
<1>4. pc # "poll" /\ pc' # "poll" /\ ~start /\ Quiet /\ Quiet'
  BY DEF AtRest, Following, Channels, MM2S, Quiet, Remaining
<1> QED
  BY <1>1, <1>2, <1>3, <1>4 DEF AtRest

(***************************************************************************)
(* START is written at rest and clears DONE.                               *)
(***************************************************************************)
LEMMA StartInv ==
  ASSUME IInv, Start
  PROVE  IInv'
<1> USE DEF IInv, Start, WriteStart, pathVars
<1>1. TypeOK'
  BY DEF TypeOK, PathTypeOK
<1>2. Programmed'
  BY DEF Programmed, Written
<1>3. (\A d \in MM2S : ReadStream(d)') /\ WriteStream'
  BY DEF ReadStream, WriteStream
<1>4. start' /\ Quiet' /\ ~done'["y"]
  BY DEF AtRest, Quiet, Remaining, Channels
<1> QED
  BY <1>1, <1>2, <1>3, <1>4 DEF AtRest

(***************************************************************************)
(* run() leaves the polling loop only when everything is at rest.          *)
(***************************************************************************)
LEMMA DoneQuiet ==
  ASSUME IInv, done["y"]
  PROVE  Quiet /\ wlen = C /\ ~start
<1>1. wlen = C /\ ~start
  BY DEF IInv, AtRest
<1>2. CASE pc # "poll"
  BY <1>1, <1>2 DEF IInv, AtRest
<1>3. CASE pc = "poll"
  <2>1. Running /\ wleft = 0 /\ resp = 0 /\ wr = "idle"
    BY <1>1, <1>3 DEF IInv, Running
  <2>2. /\ \A c \in MM2S : cmd[c] \in Nat /\ left[c] \in Nat /\ Len(fifo[c]) \in Nat
        /\ fifo["y"] \in Seq(BOOLEAN) /\ res \in Nat /\ axi \subseteq MM2S
        /\ C \in Nat \ {0}
    BY PathAssumption DEF IInv, TypeOK, PathTypeOK, Channels, MM2S
  <2>3. Remaining("k") = 0 /\ Draining
    BY <2>1, <2>2 DEF Running, Loading, Remaining, MM2S
  <2>4. res = 0 /\ Len(fifo["y"]) = 0
    BY <2>1, <2>2, <2>3 DEF Draining
  <2>5. \A c \in MM2S : Remaining(c) = 0
    BY <2>1, <2>3, <2>4 DEF Running, Draining, MM2S
  <2>6. axi = {}
    BY <2>2, <2>5 DEF IInv, ReadStream, Remaining
  <2> QED
    BY <1>1, <2>1, <2>2, <2>4, <2>5, <2>6, EmptyLen DEF Quiet
<1> QED
  BY <1>2, <1>3

(***************************************************************************)
(* A turn of the polling loop, and the next call of run().                 *)
(***************************************************************************)
LEMMA PollInv ==
  ASSUME IInv, Poll \/ Again
  PROVE  IInv'
<1> USE DEF IInv, Poll, Again, cfgVars, pathVars
<1>1. TypeOK'
  BY DEF TypeOK, PathTypeOK, Channels, MM2S
<1>2. Programmed'
  BY DEF Programmed, Written
<1>3. (\A d \in MM2S : ReadStream(d)') /\ WriteStream'
  BY DEF ReadStream, WriteStream
<1>4. AtRest'
  BY DoneQuiet DEF AtRest, Quiet, Remaining
<1>5. (pc = "poll" /\ ~start => Running)'
  BY DEF Running, Loading, Draining, Remaining
<1> QED
  BY <1>1, <1>2, <1>3, <1>4, <1>5

-----------------------------------------------------------------------------
(* Steps of the hardware.                                                  *)

(***************************************************************************)
(* The descriptor handshake: START finds everything at rest, so the four   *)
(* channels take their descriptors together.                               *)
(***************************************************************************)
LEMMA HandshakeInv ==
  ASSUME IInv, Handshake, UNCHANGED pc
  PROVE  IInv'
<1>1. start /\ Quiet /\ ~done["y"]
  BY DEF Handshake, Taken, IInv, AtRest
<1>2. pc = "poll" /\ \A c \in Channels : bytes[c] = Length(c)
  BY <1>1 DEF IInv, AtRest, Programmed, Written
<1>3. \A c \in MM2S : cmd[c] = 0 /\ left[c] = 0 /\ fifo[c] = <<>> /\ c \notin axi
  <2> SUFFICES ASSUME NEW c \in MM2S PROVE cmd[c] = 0 /\ left[c] = 0 /\ fifo[c] = <<>>
    BY <1>1 DEF Quiet
  <2>1. cmd[c] \in Nat /\ left[c] \in Nat /\ fifo[c] \in Seq(BOOLEAN) /\ Len(fifo[c]) \in Nat
    BY DEF IInv, TypeOK, PathTypeOK, Channels, MM2S
  <2>2. cmd[c] = 0 /\ left[c] = 0 /\ Len(fifo[c]) = 0
    BY <1>1, <2>1 DEF Quiet, Remaining
  <2> QED
    BY <2>1, <2>2, EmptyLen
<1>4. ReadyChannels = Channels
  BY <1>1, <1>3, PathAssumption DEF ReadyChannels, Ready, Quiet, Channels, MM2S
<1>5. Taken(ReadyChannels) = Channels
  BY <1>1, <1>4 DEF Taken, Channels, MM2S
<1>6. /\ start' = FALSE
      /\ axi' = MM2S
      /\ cmd' = [c \in MM2S |-> bytes[c]]
      /\ wr' = "write" /\ wleft' = bytes["y"] /\ wlen' = 0
      /\ UNCHANGED <<done, bytes, left, fifo, held, res, resp>>
  <2>1. axi = {} /\ "y" \in Channels /\ MM2S \subseteq Channels
    BY <1>1 DEF Quiet, Channels
  <2>2. start' = FALSE
    BY <1>4 DEF Handshake, DropStart
  <2>3. axi' = MM2S
    BY <1>5, <2>1 DEF Handshake
  <2>4. cmd' = [c \in MM2S |-> bytes[c]]
    BY <1>5, <2>1 DEF Handshake
  <2> QED
    BY <1>5, <2>1, <2>2, <2>3, <2>4 DEF Handshake
<1>7. /\ bytes["k"] = K /\ bytes["x"] = K /\ bytes["a"] = C /\ bytes["y"] = C
      /\ K \in Nat \ {0} /\ C \in Nat \ {0}
      /\ res = 0 /\ fifo["y"] = <<>> /\ resp = 0
  BY <1>1, <1>2, PathAssumption, KAssumption DEF Length, Channels, MM2S, Quiet
<1>8. TypeOK'
  BY <1>6, <1>7 DEF IInv, TypeOK, PathTypeOK, Channels, MM2S
<1>9. Programmed'
  BY <1>6 DEF IInv, Programmed, Written
<1>10. (\A d \in MM2S : ReadStream(d)') /\ WriteStream'
  BY <1>3, <1>6, <1>7 DEF ReadStream, WriteStream, MM2S
<1>11. Running'
  <2>1. Remaining("k")' = K /\ Remaining("x")' = K /\ Remaining("a")' = C
    BY <1>3, <1>6, <1>7 DEF Remaining, MM2S
  <2> QED
    BY <1>1, <1>6, <1>7, <2>1 DEF Running, Loading
<1> QED
  BY <1>1, <1>2, <1>6, <1>8, <1>9, <1>10, <1>11 DEF IInv, AtRest

(***************************************************************************)
(* A read DMA issues its last burst, takes its command or delivers a beat: *)
(* what remains of its transfer changes only its place.                    *)
(***************************************************************************)
LEMMA ReadInv ==
  ASSUME IInv, NEW c \in MM2S, RdNext(c), UNCHANGED pc
  PROVE  IInv'
<1>1. /\ Streams'
      /\ \A d \in MM2S : Remaining(d)' = Remaining(d)
      /\ Remaining(c) > 0
      /\ fifo'["y"] = fifo["y"] /\ done'["y"] = done["y"]
      /\ UNCHANGED <<start, bytes, held, res, wr, wleft, wlen, resp>>
  BY ReadStep, StreamFacts
<1>2. ~Quiet
  BY <1>1 DEF Quiet
<1>3. pc = "poll" /\ start = FALSE /\ Running
  BY <1>2, BusyMeansRunning
<1>4. Running'
  BY <1>1, <1>3 DEF Running, Loading, Draining, MM2S
<1> QED
  BY <1>1, <1>3, <1>4 DEF IInv, TypeOK, Streams, AtRest, Programmed

(***************************************************************************)
(* The array takes a k beat and an x beat.  The two streams are in step,   *)
(* so both carry tlast or neither does, and after the last pair C results  *)
(* and C beats of a are left.                                              *)
(***************************************************************************)
LEMMA TakeBeatInv ==
  ASSUME IInv, Sticky = TRUE, TakeBeat, UNCHANGED pc
  PROVE  IInv'
<1>1. fifo["k"] # <<>> /\ ~Quiet /\ Remaining("k") \in Nat /\ Remaining("k") > 0
  <2>1. "k" \in MM2S /\ fifo["k"] # <<>>
    BY DEF TakeBeat, MM2S
  <2>2. Remaining("k") \in Nat /\ Remaining("k") # 0
    BY <2>1, RemainingNone
  <2> QED
    BY <2>1, <2>2 DEF Quiet
<1>2. pc = "poll" /\ start = FALSE /\ Running
  BY <1>1, BusyMeansRunning
<1>3. Loading /\ Remaining("x") = Remaining("k")
  BY <1>1, <1>2 DEF Running
<1>4. /\ Streams'
      /\ Remaining("k")' = Remaining("k") - 1 /\ Remaining("x")' = Remaining("k") - 1
      /\ Remaining("a")' = Remaining("a") /\ fifo'["y"] = fifo["y"]
      /\ held'["k"] <=> Remaining("k") = 1
      /\ held'["x"] <=> Remaining("k") = 1
      /\ res' = IF Remaining("k") = 1 THEN C ELSE 0
      /\ UNCHANGED <<cfgVars, axi, cmd, left, wr, wleft, wlen, resp>>
  <2>1. fifo["y"] = <<>> /\ res = 0 /\ Streams
    BY <1>3, StreamFacts DEF Loading
  <2> QED
    BY <1>3, <2>1, TakeStep
<1>5. Running'
  <2>1. CASE Remaining("k") = 1
    <3>1. Remaining("k")' = 0 /\ res' = C
      BY <1>4, <2>1
    <3>2. Draining'
      BY <1>3, <1>4, <2>1, <3>1, StreamFacts DEF Draining, Loading
    <3> QED
      BY <1>2, <1>4, <3>1, <3>2 DEF Running, cfgVars
  <2>2. CASE Remaining("k") # 1
    <3>1. Remaining("k")' > 0 /\ res' = 0
      BY <1>1, <1>4, <2>2
    <3>2. Loading'
      BY <1>3, <1>4, <3>1 DEF Loading
    <3> QED
      BY <1>2, <1>4, <3>1, <3>2 DEF Running, cfgVars
  <2> QED
    BY <2>1, <2>2
<1> QED
  BY <1>2, <1>4, <1>5 DEF IInv, TypeOK, Streams, AtRest, Programmed, cfgVars

(***************************************************************************)
(* A result of the array meets its a beat.  Both operand streams are over, *)
(* their tlast wires still high, so the last result carries tlast.         *)
(***************************************************************************)
LEMMA AddBeatInv ==
  ASSUME IInv, AddBeat, UNCHANGED pc
  PROVE  IInv'
<1>1. res > 0 /\ ~Quiet /\ ~Loading
  BY DEF AddBeat, Quiet, Loading
<1>2. pc = "poll" /\ start = FALSE /\ Running
  BY <1>1, BusyMeansRunning
<1>3. Draining /\ Remaining("k") = 0 /\ Remaining("x") = 0
  <2>1. Remaining("k") \in Nat
    BY RemainingNone, StreamFacts
  <2> QED
    BY <1>1, <1>2, <2>1 DEF Running
<1>4. /\ Streams'
      /\ Remaining("k")' = 0 /\ Remaining("x")' = 0
      /\ Remaining("a")' = Remaining("a") - 1
      /\ Len(fifo'["y"]) = Len(fifo["y"]) + 1
      /\ res' = res - 1
      /\ UNCHANGED <<cfgVars, axi, cmd, left, held, wr, wleft, wlen, resp>>
  <2>1. Streams /\ held["k"] /\ held["x"]
    BY <1>3, StreamFacts DEF Draining
  <2> QED
    BY <1>3, <2>1, AddStep
<1>5. Draining'
  BY <1>1, <1>3, <1>4, StreamFacts DEF Draining
<1>6. Running'
  BY <1>2, <1>3, <1>4, <1>5 DEF Running, cfgVars
<1> QED
  BY <1>2, <1>4, <1>6 DEF IInv, TypeOK, Streams, AtRest, Programmed, cfgVars

(***************************************************************************)
(* The write DMA stores a beat: the one with tlast exactly when its        *)
(* transfer ends.                                                          *)
(***************************************************************************)
LEMMA WrBeatInv ==
  ASSUME IInv, WrBeat, UNCHANGED pc
  PROVE  IInv'
<1>1. /\ wr = "write" /\ fifo["y"] # <<>>
      /\ fifo' = Pop(fifo, "y") /\ wleft' = wleft - 1 /\ wlen' = wlen + 1
      /\ UNCHANGED <<cfgVars, axi, cmd, left, held, res>>
  BY DEF WrBeat
<1>2. pc = "poll" /\ start = FALSE /\ Running
  <2>1. ~Quiet
    BY <1>1 DEF Quiet
  <2> QED
    BY <2>1, BusyMeansRunning
<1>3. Streams /\ wleft > 0
  BY <1>1, <1>2, StreamFacts DEF Running
<1>4. /\ Streams'
      /\ \A c \in MM2S : Remaining(c)' = Remaining(c)
      /\ Len(fifo["y"]) \in Nat /\ Len(fifo["y"]) > 0
      /\ Len(fifo'["y"]) = Len(fifo["y"]) - 1
      /\ Head(fifo["y"]) <=> (Len(fifo["y"]) = 1 /\ res = 0)
  BY <1>1, <1>3, WrTakeStep, StreamFacts
<1>5. Draining /\ Remaining("k") = 0 /\ wleft = res + Len(fifo["y"])
  <2>1. ~Loading
    BY <1>1 DEF Loading
  <2>2. Remaining("k") \in Nat
    BY RemainingNone, StreamFacts
  <2> QED
    BY <1>2, <2>1, <2>2 DEF Running, Draining
<1>6. wleft \in Nat /\ res \in Nat /\ wleft > 0 /\ (wleft = 1 <=> res = 0 /\ Len(fifo["y"]) = 1)
  <2>1. res \in Nat /\ wleft = res + Len(fifo["y"])
    BY <1>5, StreamFacts
  <2>2. Len(fifo["y"]) \in Nat /\ Len(fifo["y"]) > 0
    BY <1>4
  <2> QED
    BY <2>1, <2>2, SumTwo
<1>8. wr' = (IF wleft = 1 THEN "idle" ELSE "write")
  <2>1. wr' = IF Head(fifo["y"]) THEN IF wleft = 1 THEN "idle" ELSE "finish"
                               ELSE IF wleft = 1 THEN "drop" ELSE "write"
    BY DEF WrBeat
  <2>2. Head(fifo["y"]) <=> wleft = 1
    BY <1>4, <1>6
  <2> QED
    BY <2>1, <2>2
<1>9. resp = 0 /\ resp' = (IF wleft = 1 THEN 1 ELSE 0)
  <2>1. resp = 0
    BY <1>2, <1>6 DEF Running
  <2>2. resp' = IF wr' \in {"idle", "drop"} THEN resp + 1 ELSE resp
    BY DEF WrBeat
  <2> QED
    BY <1>8, <2>1, <2>2
<1>13. Running'
  <2>1. Draining'
    <3>1. wleft' = res' + Len(fifo'["y"])
      <4>1. /\ wleft' = wleft - 1 /\ res' = res /\ Len(fifo'["y"]) = Len(fifo["y"]) - 1
            /\ wleft = res + Len(fifo["y"])
        BY <1>1, <1>4, <1>5
      <4>2. res \in Nat /\ Len(fifo["y"]) \in Nat
        BY <1>4, <1>6
      <4> QED
        BY <4>1, <4>2
    <3>2. held'["k"] /\ held'["x"] /\ Remaining("a")' = res'
      BY <1>1, <1>4, <1>5, StreamFacts DEF Draining
    <3> QED
      BY <3>1, <3>2 DEF Draining
  <2>2. Remaining("k")' = 0 /\ Remaining("x")' = 0
    BY <1>2, <1>4, <1>5, StreamFacts DEF Running
  <2>3. ~done["y"] /\ wlen = C - wleft
    BY <1>2, <1>6 DEF Running
  <2>4. wlen' = C - wleft'
    BY <1>1, <1>6, <2>3, StreamFacts
  <2>5. /\ wr' = IF wleft' > 0 THEN "write" ELSE "idle"
        /\ resp' \in {0, 1} /\ (wleft' > 0 => resp' = 0)
    BY <1>1, <1>6, <1>8, <1>9
  <2> QED
    BY <1>1, <2>1, <2>2, <2>3, <2>4, <2>5 DEF Running, cfgVars
<1>14. ~done'["y"]
  BY <1>1, <1>2, <1>6 DEF Running, cfgVars
<1> QED
  BY <1>1, <1>2, <1>4, <1>13, <1>14
     DEF IInv, TypeOK, Streams, AtRest, Programmed, Written, cfgVars

(***************************************************************************)
(* The write DMA never has to fill up a burst or to drop a beat: tlast     *)
(* comes with the last beat of its transfer.                               *)
(***************************************************************************)
LEMMA NoDrop ==
  ASSUME IInv
  PROVE  ~WrFinish /\ ~WrDrop
<1>1. wr \notin {"finish", "drop"}
  <2>1. CASE Quiet
    BY <2>1 DEF Quiet
  <2>2. CASE ~Quiet
    BY <2>2, BusyMeansRunning DEF Running
  <2> QED
    BY <2>1, <2>2
<1> QED
  BY <1>1 DEF WrFinish, WrDrop

(***************************************************************************)
(* The response of the write transfer arrives: the last event of a run.    *)
(***************************************************************************)
LEMMA WrRespInv ==
  ASSUME IInv, NEW e \in Errors, WrResp(e), UNCHANGED pc
  PROVE  IInv'
<1>1. /\ resp > 0 /\ resp' = resp - 1
      /\ UNCHANGED <<start, bytes, axi, cmd, left, fifo, held, res, wr, wleft, wlen>>
  BY DEF WrResp
<1>2. pc = "poll" /\ start = FALSE /\ Running
  <2>1. ~Quiet
    BY <1>1 DEF Quiet
  <2> QED
    BY <2>1, BusyMeansRunning
<1>3. wleft = 0 /\ resp = 1 /\ resp' = 0 /\ wlen = C
  BY <1>1, <1>2, StreamFacts DEF Running
<1>4. TypeOK'
  <2>1. done' \in [Channels -> BOOLEAN]
    BY StreamFacts DEF WrResp, ReportStatus
  <2> QED
    BY <1>1, <1>3, <2>1 DEF IInv, TypeOK, PathTypeOK
<1>5. Programmed' /\ (\A c \in MM2S : ReadStream(c)') /\ WriteStream'
  BY <1>1 DEF IInv, Programmed, Written, ReadStream, WriteStream
<1>6. Running'
  BY <1>1, <1>2, <1>3 DEF Running, Loading, Draining, Remaining
<1> QED
  BY <1>1, <1>2, <1>3, <1>4, <1>5, <1>6 DEF IInv, AtRest

(***************************************************************************)
(* Every step keeps the invariant.                                         *)
(***************************************************************************)
LEMMA NextInv ==
  ASSUME Sticky = TRUE, IInv, [Next]_vars
  PROVE  IInv'
<1>1. CASE FirmwareNext
  BY <1>1, ProgramInv, StartInv, PollInv DEF FirmwareNext
<1>2. CASE Hardware
  <2>1. CASE Handshake
    BY <1>2, <2>1, HandshakeInv DEF Hardware
  <2>2. CASE \E c \in MM2S : RdNext(c)
    BY <1>2, <2>2, ReadInv DEF Hardware
  <2>3. CASE ArrayNext
    BY <1>2, <2>3, TakeBeatInv, AddBeatInv DEF Hardware, ArrayNext
  <2>4. CASE WrNext
    BY <1>2, <2>4, WrBeatInv, WrRespInv, NoDrop DEF Hardware, WrNext
  <2> QED
    BY <1>2, <2>1, <2>2, <2>3, <2>4 DEF Hardware, PathNext
<1>3. CASE UNCHANGED vars
  BY <1>3 DEF vars, cfgVars, pathVars, IInv, TypeOK, PathTypeOK, Programmed, Written,
     ReadStream, WriteStream, AtRest, Quiet, Running, Loading, Draining, Remaining
<1> QED
  BY <1>1, <1>2, <1>3 DEF Next

-----------------------------------------------------------------------------
(* The theorems.                                                           *)

(***************************************************************************)
(* The invariant holds in every reachable state.                           *)
(***************************************************************************)
THEOREM Invariance ==
  ASSUME Sticky = TRUE
  PROVE  Spec => []IInv
BY InitInv, NextInv, PTL DEF Spec

(***************************************************************************)
(* Type correctness.                                                       *)
(***************************************************************************)
THEOREM TypeCorrect ==
  ASSUME Sticky = TRUE
  PROVE  Spec => []TypeOK
<1>1. IInv => TypeOK
  BY DEF IInv
<1> QED
  BY <1>1, Invariance, PTL

(***************************************************************************)
(* START is a pulse of one clock: it finds all four channels ready.        *)
(***************************************************************************)
THEOREM StartIsPulse ==
  ASSUME Sticky = TRUE
  PROVE  Spec => []StartPulse
<1>1. IInv => StartPulse
  <2> SUFFICES ASSUME IInv, start, NEW c \in Channels PROVE Ready(c)
    BY DEF StartPulse
  <2>1. Quiet
    BY DEF IInv, AtRest
  <2>2. CASE c = "y"
    BY <2>1, <2>2, PathAssumption DEF Quiet, Ready
  <2>3. CASE c \in MM2S
    BY <2>1, <2>3, RemainingNone, StreamFacts DEF Quiet, Ready
  <2> QED
    BY <2>2, <2>3 DEF Channels
<1> QED
  BY <1>1, Invariance, PTL

(***************************************************************************)
(* S2MM_DONE alone tells run() that the whole accelerator is at rest.      *)
(***************************************************************************)
THEOREM DoneIsQuiet ==
  ASSUME Sticky = TRUE
  PROVE  Spec => []DoneMeansQuiet
<1>1. IInv => DoneMeansQuiet
  BY DoneQuiet DEF DoneMeansQuiet
<1> QED
  BY <1>1, Invariance, PTL

(***************************************************************************)
(* The array never has two packets at once.                                *)
(***************************************************************************)
THEOREM OneInFlight ==
  ASSUME Sticky = TRUE
  PROVE  Spec => []OnePacketInFlight
<1>1. IInv => OnePacketInFlight
  <2> SUFFICES ASSUME IInv, res > 0 PROVE Remaining("k") = 0 /\ Remaining("x") = 0
    BY DEF OnePacketInFlight
  <2>1. ~Quiet /\ ~Loading
    BY DEF Quiet, Loading
  <2>2. Running
    BY <2>1, BusyMeansRunning
  <2>3. Remaining("k") \in Nat
    BY RemainingNone, StreamFacts
  <2> QED
    BY <2>1, <2>2, <2>3 DEF Running
<1> QED
  BY <1>1, Invariance, PTL
=============================================================================
