--------------------------- MODULE RunPath_proofs ---------------------------
(***************************************************************************)
(* The data path keeps PathInv, for all lengths of the transfers, all      *)
(* stream capacities and any mixture of AXI errors, whatever the software  *)
(* does to the registers between two steps, as long as START hands out     *)
(* good descriptors and the tlast wires of k and x keep their value.       *)
(***************************************************************************)
EXTENDS RunPathInv, TLAPS

-----------------------------------------------------------------------------
(* Facts about the streams.                                                *)

(***************************************************************************)
(* What taking the first beat of a stream leaves.                          *)
(***************************************************************************)
LEMMA PopFacts ==
  ASSUME NEW s \in Seq(BOOLEAN), s # <<>>
  PROVE  /\ Len(s) \in Nat /\ Len(s) > 0
         /\ Head(s) = s[1] /\ Head(s) \in BOOLEAN
         /\ Tail(s) \in Seq(BOOLEAN)
         /\ Len(Tail(s)) = Len(s) - 1
         /\ \A i \in 1 .. Len(s)-1 : Tail(s)[i] = s[i+1]
OBVIOUS

(***************************************************************************)
(* What adding a beat to a stream gives.                                   *)
(***************************************************************************)
LEMMA PushFacts ==
  ASSUME NEW s \in Seq(BOOLEAN), NEW b \in BOOLEAN
  PROVE  /\ Append(s, b) \in Seq(BOOLEAN)
         /\ Len(s) \in Nat
         /\ Len(Append(s, b)) = Len(s) + 1
         /\ \A i \in 1 .. Len(s) : Append(s, b)[i] = s[i]
         /\ Append(s, b)[Len(s) + 1] = b
OBVIOUS

(***************************************************************************)
(* A stream is empty exactly when its length is zero.                      *)
(***************************************************************************)
LEMMA EmptyLen ==
  ASSUME NEW s \in Seq(BOOLEAN)
  PROVE  s = <<>> <=> Len(s) = 0
OBVIOUS

(***************************************************************************)
(* A sum of three counters that is zero.                                   *)
(***************************************************************************)
LEMMA SumZero ==
  ASSUME NEW m \in Nat, NEW n \in Nat, NEW l \in Nat
  PROVE  m + n + l \in Nat /\ (m + n + l = 0 <=> m = 0 /\ n = 0 /\ l = 0)
OBVIOUS

(***************************************************************************)
(* A sum of three counters of which one passes something on to the next.   *)
(***************************************************************************)
LEMMA SumMoved ==
  ASSUME NEW m \in Nat, NEW n \in Nat, NEW l \in Nat
  PROVE  m + (n - 1) + (l + 1) = m + n + l
OBVIOUS

(***************************************************************************)
(* A sum of two counters, the second positive, that is one.                *)
(***************************************************************************)
LEMMA SumOne ==
  ASSUME NEW n \in Nat, NEW l \in Nat, l > 0
  PROVE  0 + n + l = 1 <=> n = 0 /\ l = 1
OBVIOUS

(***************************************************************************)
(* The same without the zero.                                              *)
(***************************************************************************)
LEMMA SumTwo ==
  ASSUME NEW n \in Nat, NEW l \in Nat, l > 0
  PROVE  n + l \in Nat /\ n + l > 0 /\ (n + l = 1 <=> n = 0 /\ l = 1)
OBVIOUS

(***************************************************************************)
(* One less than a sum that is more than one.                              *)
(***************************************************************************)
LEMMA SumRest ==
  ASSUME NEW n \in Nat, NEW l \in Nat, l > 0, ~(l = 1 /\ n = 0)
  PROVE  n + (l - 1) > 0
OBVIOUS

(***************************************************************************)
(* The types of the streams and counters.                                  *)
(***************************************************************************)
LEMMA PathFacts ==
  ASSUME PathTypeOK
  PROVE  /\ \A c \in Channels : fifo[c] \in Seq(BOOLEAN) /\ Len(fifo[c]) \in Nat
         /\ \A c \in MM2S : cmd[c] \in Nat /\ left[c] \in Nat
         /\ C \in Nat \ {0} /\ res \in 0 .. C
         /\ wleft \in Nat /\ wlen \in Nat /\ resp \in Nat
         /\ MM2S = {"k", "x", "a"} /\ Channels = {"k", "x", "a", "y"}
         /\ start \in BOOLEAN /\ done \in [Channels -> BOOLEAN]
BY PathAssumption DEF PathTypeOK, Channels, MM2S

(***************************************************************************)
(* Nothing remains of a transfer when it is nowhere.                       *)
(***************************************************************************)
LEMMA NothingLeft ==
  ASSUME PathTypeOK, NEW c \in MM2S
  PROVE  /\ Remaining(c) \in Nat
         /\ Remaining(c) = 0 <=> (cmd[c] = 0 /\ left[c] = 0 /\ fifo[c] = <<>>)
<1>1. /\ cmd[c] \in Nat /\ left[c] \in Nat /\ Len(fifo[c]) \in Nat
      /\ fifo[c] = <<>> <=> Len(fifo[c]) = 0
  BY PathFacts, EmptyLen
<1>2. Remaining(c) = cmd[c] + left[c] + Len(fifo[c])
  BY DEF Remaining
<1> QED
  BY ONLY <1>1, <1>2, SumZero

(***************************************************************************)
(* The first beat of a read stream carries tlast exactly when nothing else *)
(* of the transfer remains.                                                *)
(***************************************************************************)
LEMMA StreamHead ==
  ASSUME PathTypeOK, NEW c \in MM2S, ReadStream(c), fifo[c] # <<>>
  PROVE  /\ cmd[c] = 0 /\ Remaining(c) \in Nat /\ Remaining(c) > 0
         /\ Head(fifo[c]) <=> Remaining(c) = 1
<1>1. fifo[c] \in Seq(BOOLEAN) /\ cmd[c] \in Nat /\ left[c] \in Nat
  BY PathFacts
<1>2. Len(fifo[c]) \in Nat /\ Len(fifo[c]) > 0 /\ Head(fifo[c]) = fifo[c][1]
  BY <1>1, PopFacts
<1>3. cmd[c] = 0
  BY <1>1 DEF ReadStream
<1>4. fifo[c][1] <=> (1 = Len(fifo[c]) /\ cmd[c] = 0 /\ left[c] = 0)
  <2>1. 1 \in 1 .. Len(fifo[c])
    BY <1>2
  <2> QED
    BY <2>1 DEF ReadStream
<1>5. /\ cmd[c] = 0 /\ left[c] \in Nat
      /\ Len(fifo[c]) \in Nat /\ Len(fifo[c]) > 0
  BY <1>1, <1>2, <1>3
<1>6. Remaining(c) \in Nat /\ Remaining(c) > 0
  BY <1>5 DEF Remaining
<1>7. Remaining(c) = 1 <=> (1 = Len(fifo[c]) /\ cmd[c] = 0 /\ left[c] = 0)
  BY <1>5, SumOne DEF Remaining
<1> QED
  BY <1>2, <1>3, <1>4, <1>6, <1>7

(***************************************************************************)
(* Taking the first beat of a read stream keeps tlast on its last beat.    *)
(***************************************************************************)
LEMMA StreamPop ==
  ASSUME PathTypeOK, NEW c \in MM2S, ReadStream(c), fifo[c] # <<>>,
         fifo'[c] = Tail(fifo[c]), UNCHANGED <<cmd, left, axi>>
  PROVE  /\ ReadStream(c)' /\ Remaining(c)' = Remaining(c) - 1
         /\ fifo'[c] \in Seq(BOOLEAN)
<1>1. fifo[c] \in Seq(BOOLEAN) /\ cmd[c] \in Nat /\ left[c] \in Nat
  BY PathFacts
<1>2. /\ Len(fifo[c]) \in Nat /\ Len(fifo[c]) > 0
      /\ fifo'[c] \in Seq(BOOLEAN) /\ Len(fifo'[c]) = Len(fifo[c]) - 1
      /\ \A i \in 1 .. Len(fifo[c])-1 : fifo'[c][i] = fifo[c][i+1]
  BY <1>1, PopFacts
<1>3. cmd[c] = 0
  BY <1>1 DEF ReadStream
<1>4. ASSUME NEW i \in 1 .. Len(fifo'[c])
      PROVE  fifo'[c][i] <=> (i = Len(fifo'[c]) /\ cmd'[c] = 0 /\ left'[c] = 0)
  <2>1. i + 1 \in 1 .. Len(fifo[c]) /\ (i + 1 = Len(fifo[c]) <=> i = Len(fifo'[c]))
    BY <1>2
  <2>2. fifo'[c][i] = fifo[c][i+1]
    BY <1>2
  <2>3. fifo[c][i+1] <=> (i+1 = Len(fifo[c]) /\ cmd[c] = 0 /\ left[c] = 0)
    BY <2>1 DEF ReadStream
  <2> QED
    BY <2>1, <2>2, <2>3
<1>5. ReadStream(c)'
  BY <1>1, <1>3, <1>4 DEF ReadStream
<1>6. Remaining(c)' = Remaining(c) - 1
  <2>1. /\ cmd'[c] = cmd[c] /\ left'[c] = left[c] /\ Len(fifo'[c]) = Len(fifo[c]) - 1
        /\ cmd[c] \in Nat /\ left[c] \in Nat /\ Len(fifo[c]) \in Nat
    BY <1>1, <1>2
  <2> QED
    BY <2>1 DEF Remaining
<1> QED
  BY <1>2, <1>5, <1>6

(***************************************************************************)
(* The first beat of the y stream carries tlast exactly when it is the     *)
(* only one and no result is left; taking it keeps tlast in place.         *)
(***************************************************************************)
LEMMA WritePop ==
  ASSUME PathTypeOK, WriteStream, fifo["y"] # <<>>,
         fifo'["y"] = Tail(fifo["y"]), res' = res
  PROVE  /\ WriteStream' /\ fifo'["y"] \in Seq(BOOLEAN)
         /\ Len(fifo["y"]) \in Nat /\ Len(fifo["y"]) > 0
         /\ Len(fifo'["y"]) = Len(fifo["y"]) - 1
         /\ Head(fifo["y"]) \in BOOLEAN
         /\ Head(fifo["y"]) <=> (Len(fifo["y"]) = 1 /\ res = 0)
<1>1. /\ Len(fifo["y"]) \in Nat /\ Len(fifo["y"]) > 0
      /\ Head(fifo["y"]) = fifo["y"][1] /\ Head(fifo["y"]) \in BOOLEAN
      /\ fifo'["y"] \in Seq(BOOLEAN) /\ Len(fifo'["y"]) = Len(fifo["y"]) - 1
      /\ \A i \in 1 .. Len(fifo["y"])-1 : fifo'["y"][i] = fifo["y"][i+1]
  <2>1. fifo["y"] \in Seq(BOOLEAN) /\ fifo["y"] # <<>>
    BY PathFacts
  <2> QED
    BY <2>1, PopFacts
<1>2. fifo["y"][1] <=> (1 = Len(fifo["y"]) /\ res = 0)
  <2>1. 1 \in 1 .. Len(fifo["y"])
    BY <1>1
  <2> QED
    BY <2>1 DEF WriteStream
<1>3. WriteStream'
  <2> SUFFICES ASSUME NEW i \in 1 .. Len(fifo'["y"])
               PROVE  fifo'["y"][i] <=> (i = Len(fifo'["y"]) /\ res' = 0)
    BY DEF WriteStream
  <2>1. i + 1 \in 1 .. Len(fifo["y"]) /\ (i + 1 = Len(fifo["y"]) <=> i = Len(fifo'["y"]))
    BY <1>1
  <2>2. fifo'["y"][i] = fifo["y"][i+1]
    BY <1>1
  <2>3. fifo["y"][i+1] <=> (i+1 = Len(fifo["y"]) /\ res = 0)
    BY <2>1 DEF WriteStream
  <2> QED
    BY <2>1, <2>2, <2>3
<1> QED
  BY <1>1, <1>2, <1>3

-----------------------------------------------------------------------------
(* What each step of the data path does, as long as tlast marks the last   *)
(* beat of each stream.                                                    *)

Streams == PathTypeOK /\ (\A c \in MM2S : ReadStream(c)) /\ WriteStream

(***************************************************************************)
(* A read DMA issues its last burst, takes its command or delivers a beat: *)
(* what remains of its transfer changes only its place.                    *)
(***************************************************************************)
LEMMA ReadStep ==
  ASSUME Streams, NEW c \in MM2S, RdNext(c)
  PROVE  /\ Streams'
         /\ \A d \in MM2S : Remaining(d)' = Remaining(d)
         /\ Remaining(c) > 0
         /\ fifo'["y"] = fifo["y"] /\ done'["y"] = done["y"]
         /\ UNCHANGED <<start, bytes, held, res, wr, wleft, wlen, resp>>
<1>1. /\ \A d \in MM2S : /\ cmd[d] \in Nat /\ left[d] \in Nat
                         /\ fifo[d] \in Seq(BOOLEAN) /\ Len(fifo[d]) \in Nat
      /\ PathTypeOK /\ ReadStream(c)
      /\ "y" \notin MM2S /\ "y" \in Channels /\ MM2S \subseteq Channels
  BY DEF Streams, PathTypeOK, Channels, MM2S
<1>2. /\ UNCHANGED <<start, bytes, held, res, wr, wleft, wlen, resp>>
      /\ done'["y"] = done["y"]
      /\ fifo'["y"] = fifo["y"]
  <2>1. UNCHANGED <<start, bytes, held, res, wr, wleft, wlen, resp>>
    BY DEF RdNext, RdIssued, RdTake, RdBeat, cfgVars
  <2>2. done'["y"] = done["y"]
    BY <1>1 DEF RdNext, RdIssued, RdTake, RdBeat, cfgVars, ReportStatus, PathTypeOK
  <2>3. fifo'["y"] = fifo["y"]
    BY <1>1 DEF RdNext, RdIssued, RdTake, RdBeat, Push, PathTypeOK
  <2> QED
    BY <2>1, <2>2, <2>3
<1>3. \A d \in MM2S \ {c} : cmd'[d] = cmd[d] /\ left'[d] = left[d] /\ fifo'[d] = fifo[d]
                             /\ (d \in axi' <=> d \in axi)
  BY <1>1 DEF RdNext, RdIssued, RdTake, RdBeat, cfgVars, Push, PathTypeOK
<1>4. /\ PathTypeOK' /\ ReadStream(c)' /\ Remaining(c)' = Remaining(c)
      /\ Remaining(c) > 0
  <2>1. CASE RdIssued(c)
    BY <1>1, <2>1 DEF RdIssued, cfgVars, PathTypeOK, ReadStream, Remaining
  <2>2. CASE RdTake(c)
    <3>1. cmd'[c] = 0 /\ left'[c] = cmd[c] /\ cmd[c] > 0 /\ UNCHANGED <<fifo, axi>>
      BY <1>1, <2>2 DEF RdTake, PathTypeOK
    <3>2. PathTypeOK'
      BY <1>1, <2>2 DEF RdTake, cfgVars, PathTypeOK
    <3>3. left[c] = 0 /\ fifo[c] = <<>>
      BY <1>1, <3>1 DEF ReadStream
    <3> QED
      BY <1>1, <3>1, <3>2, <3>3 DEF ReadStream, Remaining
  <2>3. CASE \E e \in Errors : RdBeat(c, e)
    <3>1. PICK e \in Errors : RdBeat(c, e)
      BY <2>3
    <3> DEFINE b == left[c] = 1
    <3>2. /\ left[c] > 0 /\ (b => c \notin axi)
          /\ left'[c] = left[c] - 1
          /\ fifo'[c] = Append(fifo[c], b)
          /\ UNCHANGED <<cmd, axi>>
      BY <1>1, <3>1 DEF RdBeat, Push, PathTypeOK
    <3>3. cmd[c] = 0
      BY <1>1, <3>2 DEF ReadStream
    <3>4. /\ fifo'[c] \in Seq(BOOLEAN)
          /\ Len(fifo'[c]) = Len(fifo[c]) + 1
          /\ \A i \in 1 .. Len(fifo[c]) : fifo'[c][i] = fifo[c][i]
          /\ fifo'[c][Len(fifo[c]) + 1] = b
      BY <1>1, <3>2, PushFacts
    <3>5. PathTypeOK'
      <4>1. fifo' \in [Channels -> Seq(BOOLEAN)]
        BY <1>1, <3>1, <3>2, <3>4 DEF RdBeat, Push, PathTypeOK
      <4>2. left' \in [MM2S -> Nat]
        BY <1>1, <3>1 DEF RdBeat, PathTypeOK
      <4>3. done' \in [Channels -> BOOLEAN]
        BY <1>1, <3>1 DEF RdBeat, ReportStatus, PathTypeOK
      <4> QED
        BY <1>1, <3>1, <4>1, <4>2, <4>3 DEF RdBeat, PathTypeOK
    <3>6. ReadStream(c)'
      <4>1. \A i \in 1 .. Len(fifo[c]) : fifo'[c][i] = FALSE
        BY <1>1, <3>2, <3>4 DEF ReadStream
      <4>2. fifo'[c][Len(fifo'[c])] <=> cmd'[c] = 0 /\ left'[c] = 0
        <5>1. fifo'[c][Len(fifo'[c])] = b
          BY <3>4
        <5>2. cmd'[c] = 0 /\ (left'[c] = 0 <=> left[c] = 1)
          BY <1>1, <3>2, <3>3
        <5> QED
          BY <5>1, <5>2
      <4> QED
        BY <1>1, <3>2, <3>3, <3>4, <4>1, <4>2 DEF ReadStream
    <3>7. Remaining(c)' = Remaining(c)
      <4>1. /\ cmd'[c] = cmd[c] /\ left'[c] = left[c] - 1
            /\ Len(fifo'[c]) = Len(fifo[c]) + 1
        BY <3>2, <3>4
      <4>2. cmd[c] \in Nat /\ left[c] \in Nat /\ Len(fifo[c]) \in Nat
        BY <1>1
      <4>3. cmd'[c] + left'[c] + Len(fifo'[c]) = cmd[c] + left[c] + Len(fifo[c])
        <5>1. cmd[c] + (left[c] - 1) + (Len(fifo[c]) + 1) = cmd[c] + left[c] + Len(fifo[c])
          BY ONLY <4>2, SumMoved
        <5> QED
          BY ONLY <4>1, <5>1, Zenon
      <4> QED
        BY ONLY <4>3 DEF Remaining
    <3>8. Remaining(c) > 0
      BY <1>1, <3>2 DEF Remaining
    <3> QED
      BY <3>5, <3>6, <3>7, <3>8
  <2> QED
    BY <2>1, <2>2, <2>3 DEF RdNext
<1>5. WriteStream'
  BY <1>2 DEF Streams, WriteStream
<1>6. \A d \in MM2S : ReadStream(d)' /\ Remaining(d)' = Remaining(d)
  BY <1>3, <1>4 DEF Streams, ReadStream, Remaining
<1> QED
  BY <1>2, <1>4, <1>5, <1>6 DEF Streams

(***************************************************************************)
(* The array takes a k beat and an x beat; it sees tlast when nothing more *)
(* remains of either stream, and makes C results of the packet if it owed  *)
(* none.                                                                   *)
(***************************************************************************)
LEMMA TakeStep ==
  ASSUME Streams, Sticky = TRUE, TakeBeat, fifo["y"] = <<>>
  PROVE  /\ Streams'
         /\ Remaining("k")' = Remaining("k") - 1 /\ Remaining("x")' = Remaining("x") - 1
         /\ Remaining("a")' = Remaining("a") /\ fifo'["y"] = fifo["y"]
         /\ Remaining("k") > 0 /\ Remaining("x") > 0
         /\ held'["k"] <=> Remaining("k") = 1
         /\ held'["x"] <=> Remaining("x") = 1
         /\ res = 0 => res' = IF Remaining("k") = 1 /\ Remaining("x") = 1 THEN C ELSE 0
         /\ UNCHANGED <<cfgVars, axi, cmd, left, wr, wleft, wlen, resp>>
<1>t. PathTypeOK /\ (\A c \in MM2S : ReadStream(c)) /\ WriteStream
  BY DEF Streams
<1>1. /\ fifo["k"] # <<>> /\ fifo["x"] # <<>>
      /\ UNCHANGED <<cfgVars, axi, cmd, left, wr, wleft, wlen, resp>>
  BY DEF TakeBeat
<1>2. /\ fifo'["k"] = Tail(fifo["k"]) /\ fifo'["x"] = Tail(fifo["x"])
      /\ fifo'["a"] = fifo["a"] /\ fifo'["y"] = fifo["y"]
  BY <1>t, PathFacts DEF TakeBeat, Pop, PathTypeOK
<1>3. "k" \in MM2S /\ "x" \in MM2S /\ "a" \in MM2S
  BY DEF MM2S
<1>4. \A c \in {"k", "x"} : /\ Remaining(c) \in Nat /\ Remaining(c) > 0
                            /\ Head(fifo[c]) <=> Remaining(c) = 1
                            /\ Head(fifo[c]) \in BOOLEAN
  <2> SUFFICES ASSUME NEW c \in {"k", "x"}
               PROVE  /\ Remaining(c) \in Nat /\ Remaining(c) > 0
                      /\ Head(fifo[c]) <=> Remaining(c) = 1
                      /\ Head(fifo[c]) \in BOOLEAN
    OBVIOUS
  <2>1. c \in MM2S /\ fifo[c] # <<>> /\ fifo[c] \in Seq(BOOLEAN)
    BY <1>1, <1>3, <1>t, PathFacts
  <2> QED
    BY <1>t, <2>1, StreamHead, PopFacts
<1>5. \A c \in {"k", "x"} : /\ ReadStream(c)' /\ Remaining(c)' = Remaining(c) - 1
                            /\ fifo'[c] \in Seq(BOOLEAN)
  <2> SUFFICES ASSUME NEW c \in {"k", "x"}
               PROVE  /\ ReadStream(c)' /\ Remaining(c)' = Remaining(c) - 1
                      /\ fifo'[c] \in Seq(BOOLEAN)
    OBVIOUS
  <2>1. c \in MM2S /\ fifo[c] # <<>> /\ fifo'[c] = Tail(fifo[c])
    BY <1>1, <1>2, <1>3
  <2> QED
    BY <1>t, <1>1, <2>1, StreamPop
<1>6. ReadStream("a")' /\ Remaining("a")' = Remaining("a")
  BY <1>1, <1>2, <1>3, <1>t DEF ReadStream, Remaining
<1>7. s_last <=> Remaining("k") = 1 /\ Remaining("x") = 1
  BY <1>1, <1>4 DEF s_last, TLast
<1>8. held' = [c \in {"k", "x"} |-> Head(fifo[c])]
  BY <1>4 DEF TakeBeat
<1>9. /\ res = 0 => res' = IF Remaining("k") = 1 /\ Remaining("x") = 1 THEN C ELSE 0
      /\ res' \in 0 .. C
  <2>0. C \in Nat /\ res \in 0 .. C
    BY <1>t, PathFacts
  <2>1. CASE s_last
    <3>1. res' \in (IF res = 0 THEN {C} ELSE 0 .. C)
      BY <2>1 DEF TakeBeat
    <3> QED
      BY <1>7, <2>0, <2>1, <3>1
  <2>2. CASE ~s_last
    <3>1. res' = res
      BY <2>2 DEF TakeBeat
    <3> QED
      BY <1>7, <2>0, <2>2, <3>1
  <2> QED
    BY <2>1, <2>2
<1>10. PathTypeOK'
  <2>1. fifo' \in [Channels -> Seq(BOOLEAN)]
    <3>1. \A c \in Channels : fifo'[c] \in Seq(BOOLEAN)
      BY <1>2, <1>5, <1>t, PathFacts
    <3>2. fifo' = [c \in Channels |-> fifo'[c]]
      BY <1>t DEF TakeBeat, Pop, PathTypeOK
    <3> QED
      BY <3>1, <3>2
  <2>2. held' \in [{"k", "x"} -> BOOLEAN]
    BY <1>4, <1>8
  <2> QED
    BY <1>1, <1>9, <1>t, <2>1, <2>2 DEF PathTypeOK, cfgVars
<1>11. WriteStream'
  BY <1>2 DEF WriteStream
<1>12. Streams'
  BY <1>5, <1>6, <1>10, <1>11 DEF Streams, MM2S
<1> QED
  BY <1>1, <1>2, <1>4, <1>5, <1>6, <1>8, <1>9, <1>12

(***************************************************************************)
(* A result of the array meets its a beat.  Once both operand streams are  *)
(* over, with their tlast wires still high, the last result carries tlast. *)
(***************************************************************************)
LEMMA AddStep ==
  ASSUME Streams, Remaining("k") = 0, Remaining("x") = 0, held["k"], held["x"], AddBeat
  PROVE  /\ Streams'
         /\ Remaining("k")' = 0 /\ Remaining("x")' = 0
         /\ Remaining("a")' = Remaining("a") - 1
         /\ Len(fifo'["y"]) = Len(fifo["y"]) + 1
         /\ res > 0 /\ res' = res - 1
         /\ UNCHANGED <<cfgVars, axi, cmd, left, held, wr, wleft, wlen, resp>>
<1> DEFINE b == s_last /\ res = 1
<1>t. PathTypeOK /\ (\A c \in MM2S : ReadStream(c)) /\ WriteStream
  BY DEF Streams
<1>f. /\ MM2S = {"k", "x", "a"} /\ Channels = {"k", "x", "a", "y"} /\ C \in Nat /\ res \in 0 .. C
      /\ \A c \in Channels : fifo[c] \in Seq(BOOLEAN) /\ Len(fifo[c]) \in Nat
  BY <1>t, PathFacts
<1>1. /\ res > 0 /\ fifo["a"] # <<>> /\ res' = res - 1
      /\ UNCHANGED <<cfgVars, axi, cmd, left, held, wr, wleft, wlen, resp>>
  BY DEF AddBeat
<1>2. /\ fifo'["k"] = fifo["k"] /\ fifo'["x"] = fifo["x"]
      /\ fifo'["a"] = Tail(fifo["a"]) /\ fifo'["y"] = Append(fifo["y"], b)
  BY <1>f, <1>t DEF AddBeat, Pop, Push, PathTypeOK
<1>3. s_last = TRUE
  <2>1. \A c \in {"k", "x"} : fifo[c] = <<>> /\ held[c] = TRUE
    <3>1. fifo["k"] = <<>> /\ fifo["x"] = <<>>
      BY <1>f, <1>t, NothingLeft
    <3>2. held["k"] = TRUE /\ held["x"] = TRUE
      BY <1>t DEF PathTypeOK
    <3> QED
      BY <3>1, <3>2
  <2> QED
    BY <2>1 DEF s_last, TLast
<1>4. ReadStream("a")' /\ Remaining("a")' = Remaining("a") - 1 /\ fifo'["a"] \in Seq(BOOLEAN)
  BY <1>1, <1>2, <1>f, <1>t, StreamPop
<1>5. \A c \in {"k", "x"} : ReadStream(c)' /\ Remaining(c)' = Remaining(c)
  <2> SUFFICES ASSUME NEW c \in {"k", "x"}
               PROVE  ReadStream(c)' /\ Remaining(c)' = Remaining(c)
    OBVIOUS
  <2>1. ReadStream(c)
    BY <1>f, <1>t
  <2>2. fifo'[c] = fifo[c] /\ UNCHANGED <<cmd, left, axi>>
    BY <1>1, <1>2
  <2> QED
    BY <2>1, <2>2 DEF ReadStream, Remaining
<1>6. /\ fifo'["y"] \in Seq(BOOLEAN)
      /\ Len(fifo'["y"]) = Len(fifo["y"]) + 1
      /\ \A i \in 1 .. Len(fifo["y"]) : fifo'["y"][i] = fifo["y"][i]
      /\ fifo'["y"][Len(fifo["y"]) + 1] = b
  <2>1. b \in BOOLEAN
    BY <1>3
  <2> QED
    BY <1>2, <1>f, <2>1, PushFacts
<1>7. PathTypeOK'
  <2>1. fifo' \in [Channels -> Seq(BOOLEAN)]
    <3>1. \A c \in Channels : fifo'[c] \in Seq(BOOLEAN)
      BY <1>2, <1>4, <1>6, <1>f
    <3>2. fifo' = [c \in Channels |-> fifo'[c]]
      BY <1>t DEF AddBeat, Pop, Push, PathTypeOK
    <3> QED
      BY <3>1, <3>2
  <2>2. res' \in 0 .. C
    BY <1>1, <1>f
  <2> QED
    BY <1>1, <1>t, <2>1, <2>2 DEF PathTypeOK, cfgVars
<1>8. WriteStream'
  <2>1. \A i \in 1 .. Len(fifo["y"]) : fifo'["y"][i] = FALSE
    <3> SUFFICES ASSUME NEW i \in 1 .. Len(fifo["y"]) PROVE fifo'["y"][i] = FALSE
      OBVIOUS
    <3>1. fifo["y"] \in Seq(BOOLEAN) /\ res # 0
      BY <1>1, <1>f
    <3>2. fifo["y"][i] \in BOOLEAN /\ ~fifo["y"][i]
      BY <1>t, <3>1 DEF WriteStream
    <3> QED
      BY <1>6, <3>2
  <2>2. fifo'["y"][Len(fifo'["y"])] <=> res' = 0
    <3>1. fifo'["y"][Len(fifo'["y"])] = b
      BY <1>6
    <3>2. res' = 0 <=> res = 1
      BY <1>1, <1>f
    <3> QED
      BY <1>3, <3>1, <3>2
  <2> QED
    BY <1>6, <1>f, <2>1, <2>2 DEF WriteStream
<1>9. Streams'
  BY <1>4, <1>5, <1>7, <1>8, <1>f DEF Streams
<1> QED
  BY <1>1, <1>4, <1>5, <1>6, <1>9

(***************************************************************************)
(* The write DMA takes a beat off the y stream, to store or to drop it.    *)
(***************************************************************************)
LEMMA WrTakeStep ==
  ASSUME Streams, (wr = "write" /\ wleft > 0 /\ WrBeat) \/ WrDrop
  PROVE  /\ Streams'
         /\ \A c \in MM2S : Remaining(c)' = Remaining(c)
         /\ Len(fifo["y"]) > 0 /\ Len(fifo'["y"]) = Len(fifo["y"]) - 1
         /\ Head(fifo["y"]) \in BOOLEAN
         /\ Head(fifo["y"]) <=> (Len(fifo["y"]) = 1 /\ res = 0)
         /\ UNCHANGED <<cfgVars, axi, cmd, left, held, res>>
<1>t. PathTypeOK /\ (\A c \in MM2S : ReadStream(c)) /\ WriteStream
  BY DEF Streams
<1>1. /\ fifo["y"] # <<>> /\ fifo' = Pop(fifo, "y")
      /\ UNCHANGED <<cfgVars, axi, cmd, left, held, res>>
  BY DEF WrBeat, WrDrop
<1>2. /\ fifo'["y"] = Tail(fifo["y"])
      /\ \A c \in MM2S : fifo'[c] = fifo[c]
  BY <1>1, <1>t DEF Pop, PathTypeOK, Channels, MM2S
<1>3. /\ WriteStream' /\ fifo'["y"] \in Seq(BOOLEAN)
      /\ Len(fifo["y"]) > 0 /\ Len(fifo'["y"]) = Len(fifo["y"]) - 1
      /\ Head(fifo["y"]) \in BOOLEAN
      /\ Head(fifo["y"]) <=> (Len(fifo["y"]) = 1 /\ res = 0)
  BY <1>1, <1>2, <1>t, WritePop
<1>4. \A c \in MM2S : ReadStream(c)' /\ Remaining(c)' = Remaining(c)
  BY <1>1, <1>2, <1>t DEF ReadStream, Remaining
<1>5. PathTypeOK'
  <2>1. fifo' \in [Channels -> Seq(BOOLEAN)]
    BY <1>1, <1>3, <1>2, <1>t DEF Pop, PathTypeOK
  <2>2. CASE wr = "write" /\ wleft > 0 /\ WrBeat
    <3>1. /\ wleft' = wleft - 1 /\ wlen' = wlen + 1
          /\ wr' \in {"idle", "write", "finish", "drop"}
          /\ resp' \in {resp, resp + 1}
      BY <2>2 DEF WrBeat
    <3> QED
      BY <1>1, <1>t, <2>1, <2>2, <3>1 DEF PathTypeOK, cfgVars
  <2>3. CASE WrDrop
    <3>1. wr' \in {"idle", "drop"} /\ UNCHANGED <<wleft, wlen, resp>>
      BY <2>3 DEF WrDrop
    <3> QED
      BY <1>1, <1>t, <2>1, <3>1 DEF PathTypeOK, cfgVars
  <2> QED
    BY <2>2, <2>3
<1> QED
  BY <1>1, <1>3, <1>4, <1>5 DEF Streams

-----------------------------------------------------------------------------
(* The invariant of the data path.                                         *)

(***************************************************************************)
(* The reset state satisfies the invariant.                                *)
(***************************************************************************)
LEMMA PathInitial ==
  ASSUME CfgInit, PathInit
  PROVE  PathInv
<1>1. <<>> \in Seq(BOOLEAN) /\ C \in Nat
  BY PathAssumption
<1>2. /\ start \in BOOLEAN /\ done \in [Channels -> BOOLEAN]
      /\ bytes \in [Channels -> Nat]
  BY DEF CfgInit
<1>3. /\ axi \subseteq MM2S
      /\ cmd \in [MM2S -> Nat] /\ left \in [MM2S -> Nat]
      /\ fifo \in [Channels -> Seq(BOOLEAN)] /\ held \in [{"k", "x"} -> BOOLEAN]
  BY <1>1 DEF PathInit
<1>4. /\ res \in 0 .. C
      /\ wr \in {"idle", "write", "finish", "drop"}
      /\ wleft \in Nat /\ wlen \in Nat /\ resp \in Nat
  BY <1>1 DEF PathInit
<1>5. PathTypeOK
  BY <1>2, <1>3, <1>4 DEF PathTypeOK
<1>6. (\A c \in MM2S : ReadStream(c)) /\ WriteStream /\ Passed /\ wr = "idle"
  BY DEF PathInit, ReadStream, WriteStream, Passed, Remaining, MM2S, Channels
<1> QED
  BY <1>5, <1>6 DEF PathInv

(***************************************************************************)
(* Writes of registers leave the data path alone.                          *)
(***************************************************************************)
LEMMA PathUnchanged ==
  ASSUME PathInv, UNCHANGED pathVars,
         start' \in BOOLEAN, done' \in [Channels -> BOOLEAN], bytes' \in [Channels -> Nat]
  PROVE  PathInv' /\ (Quiet' <=> Quiet) /\ \A c \in MM2S : Remaining(c)' = Remaining(c)
BY DEF PathInv, PathTypeOK, pathVars, ReadStream, WriteStream, Passed, Coming, Going,
       Remaining, Quiet

(***************************************************************************)
(* A packet that has passed leaves the readers ready.                      *)
(***************************************************************************)
LEMMA PassedReady ==
  ASSUME PathTypeOK, Passed, NEW c \in MM2S
  PROVE  cmd[c] = 0 /\ left[c] = 0 /\ fifo[c] = <<>> /\ c \notin axi /\ Ready(c)
<1>1. cmd[c] = 0 /\ left[c] = 0 /\ fifo[c] = <<>> /\ c \notin axi
  BY NothingLeft DEF Passed
<1> QED
  BY <1>1 DEF Ready, MM2S

(***************************************************************************)
(* A descriptor handshake is of all four channels or of none.              *)
(***************************************************************************)
LEMMA TakenAll ==
  ASSUME PathInv
  PROVE  /\ Taken(ReadyChannels) # {} => wr = "idle" /\ Passed /\ start /\ ReadyChannels = Channels
         /\ Taken(ReadyChannels) \in {{}, Channels}
<1>1. CASE "y" \in ReadyChannels /\ start
  <2>1. wr = "idle"
    BY <1>1 DEF ReadyChannels, Ready
  <2>2. Passed /\ PathTypeOK
    BY <2>1 DEF PathInv
  <2>3. \A c \in MM2S : c \in ReadyChannels
    BY <2>2, PassedReady DEF ReadyChannels, Channels
  <2>4. ReadyChannels = Channels
    BY <1>1, <2>3 DEF ReadyChannels, Channels
  <2>5. Taken(ReadyChannels) = Channels
    BY <1>1, <2>4 DEF Taken, Channels, MM2S
  <2> QED
    BY <1>1, <2>1, <2>2, <2>4, <2>5
<1>2. CASE ~("y" \in ReadyChannels /\ start)
  BY <1>2 DEF Taken
<1> QED
  BY <1>1, <1>2

(***************************************************************************)
(* The handshake starts four transfers of the lengths in the registers.    *)
(***************************************************************************)
LEMMA HandshakeStep ==
  ASSUME PathInv, start => GoodDescriptors, Handshake
  PROVE  /\ PathInv' /\ Passed /\ Coming'
         /\ start /\ ~start' /\ wr = "idle" /\ wr' = "write"
         /\ wleft' = bytes["y"] /\ wlen' = 0
         /\ \A c \in MM2S : Remaining(c)' = bytes[c]
         /\ UNCHANGED <<done, bytes, held, res, resp>> /\ fifo' = fifo
<1>1. Taken(ReadyChannels) # {}
  BY DEF Handshake
<1>2. /\ wr = "idle" /\ Passed /\ start /\ ReadyChannels = Channels
      /\ Taken(ReadyChannels) = Channels /\ GoodDescriptors /\ PathTypeOK
  BY <1>1, TakenAll DEF PathInv
<1>3. /\ start' = FALSE
      /\ axi' = MM2S
      /\ cmd' = [c \in MM2S |-> bytes[c]]
      /\ wr' = "write" /\ wleft' = bytes["y"] /\ wlen' = 0
      /\ UNCHANGED <<done, bytes, left, fifo, held, res, resp>>
  <2>1. axi = {} /\ "y" \in Channels /\ MM2S \subseteq Channels
    BY <1>2 DEF Passed, Channels
  <2>2. start' = FALSE
    BY <1>2 DEF Handshake, DropStart
  <2>3. axi' = MM2S
    BY <1>2, <2>1 DEF Handshake
  <2>4. cmd' = [c \in MM2S |-> bytes[c]]
    BY <1>2, <2>1 DEF Handshake
  <2> QED
    BY <1>2, <2>1, <2>2, <2>3, <2>4 DEF Handshake
<1>4. /\ res = 0 /\ fifo["y"] = <<>>
      /\ \A c \in Channels : bytes[c] \in Nat /\ bytes[c] > 0
      /\ bytes["a"] <= C /\ MM2S = {"k", "x", "a"} /\ Channels = {"k", "x", "a", "y"}
  BY <1>2 DEF Passed, PathTypeOK, GoodDescriptors, Channels, MM2S
<1>5. \A c \in MM2S : left[c] = 0 /\ fifo[c] = <<>>
  BY <1>2, PassedReady
<1>6. PathTypeOK'
  BY <1>2, <1>3, <1>4 DEF PathTypeOK
<1>7. \A c \in MM2S : Remaining(c)' = bytes[c]
  BY <1>3, <1>4, <1>5 DEF Remaining
<1>8. (\A c \in MM2S : ReadStream(c)') /\ WriteStream'
  BY <1>3, <1>4, <1>5 DEF ReadStream, WriteStream
<1>9. Coming'
  BY <1>3, <1>4, <1>7 DEF Coming
<1>10. PathInv'
  BY <1>3, <1>4, <1>6, <1>8, <1>9 DEF PathInv
<1> QED
  BY <1>2, <1>3, <1>7, <1>9, <1>10

(***************************************************************************)
(* While something of the packet is left in front of the write DMA, it is  *)
(* storing or dropping, and the packet is coming or going.                 *)
(***************************************************************************)
LEMMA Busy ==
  ASSUME PathInv, ~Passed
  PROVE  wr \in {"write", "drop"} /\ (Coming \/ Going)
BY DEF PathInv, PathTypeOK

(***************************************************************************)
(* A step of a read DMA keeps the invariant.                               *)
(***************************************************************************)
LEMMA ReadPath ==
  ASSUME PathInv, NEW c \in MM2S, RdNext(c)
  PROVE  PathInv' /\ ~Passed /\ (Coming' <=> Coming) /\ (Going' <=> Going)
<1>1. /\ Streams'
      /\ \A d \in MM2S : Remaining(d)' = Remaining(d)
      /\ Remaining(c) > 0
      /\ fifo'["y"] = fifo["y"] /\ UNCHANGED <<held, res, wr, wleft>>
  BY ReadStep DEF PathInv, Streams
<1>2. ~Passed
  BY <1>1 DEF Passed
<1>3. (Coming' <=> Coming) /\ (Going' <=> Going)
  BY <1>1 DEF Coming, Going, MM2S
<1> QED
  BY <1>1, <1>2, <1>3, Busy DEF PathInv, Streams

(***************************************************************************)
(* The array takes operands only while the packet is coming, and the last  *)
(* pair turns it to going.                                                 *)
(***************************************************************************)
LEMMA TakePath ==
  ASSUME PathInv, Sticky = TRUE, TakeBeat
  PROVE  /\ PathInv' /\ ~Passed /\ Coming /\ fifo'["y"] = fifo["y"]
         /\ Coming' \/ (Going' /\ res' = C)
         /\ Remaining("k")' = Remaining("k") - 1 /\ Remaining("x")' = Remaining("x") - 1
         /\ UNCHANGED <<cfgVars, axi, cmd, left, wr, wleft, wlen, resp>>
<1>f. /\ C \in Nat \ {0} /\ "k" \in MM2S /\ Streams /\ PathTypeOK
      /\ fifo["k"] # <<>> /\ ReadStream("k")
  BY PathFacts DEF PathInv, Streams, MM2S, TakeBeat
<1>1. Remaining("k") \in Nat /\ Remaining("k") > 0 /\ Remaining("x") \in Nat
  <2>1. Remaining("k") \in Nat /\ Remaining("k") > 0
    BY <1>f, StreamHead
  <2>2. Remaining("x") \in Nat
    BY <1>f, NothingLeft DEF MM2S
  <2> QED
    BY <2>1, <2>2
<1>2. ~Passed /\ ~Going
  BY <1>1, <1>f DEF Passed, Going
<1>3. wr \in {"write", "drop"} /\ Coming
  BY <1>2, Busy
<1>4. fifo["y"] = <<>> /\ res = 0 /\ Remaining("a") <= C
  BY <1>3 DEF Coming
<1>5. /\ Streams'
      /\ Remaining("k")' = Remaining("k") - 1 /\ Remaining("x")' = Remaining("x") - 1
      /\ Remaining("a")' = Remaining("a") /\ fifo'["y"] = fifo["y"]
      /\ held'["k"] <=> Remaining("k") = 1
      /\ held'["x"] <=> Remaining("x") = 1
      /\ res' = IF Remaining("k") = 1 /\ Remaining("x") = 1 THEN C ELSE 0
      /\ UNCHANGED <<cfgVars, axi, cmd, left, wr, wleft, wlen, resp>>
  BY <1>4, <1>f, TakeStep
<1>6. Coming' \/ (Going' /\ res' = C)
  <2>1. CASE Remaining("k") = 1 /\ Remaining("x") = 1
    BY <1>4, <1>5, <1>f, <2>1 DEF Going
  <2>2. CASE ~(Remaining("k") = 1 /\ Remaining("x") = 1)
    BY <1>4, <1>5, <2>2 DEF Coming
  <2> QED
    BY <2>1, <2>2
<1>7. PathInv'
  BY <1>3, <1>5, <1>6 DEF PathInv, Streams
<1> QED
  BY <1>2, <1>3, <1>5, <1>6, <1>7

(***************************************************************************)
(* Results are handed over only while the packet is going.                 *)
(***************************************************************************)
LEMMA AddPath ==
  ASSUME PathInv, AddBeat
  PROVE  /\ PathInv' /\ ~Passed /\ Going /\ Going'
         /\ res' + Len(fifo'["y"]) = res + Len(fifo["y"])
         /\ UNCHANGED <<cfgVars, axi, cmd, left, held, wr, wleft, wlen, resp>>
<1>1. res > 0 /\ res \in Nat /\ Streams /\ Len(fifo["y"]) \in Nat
  BY PathFacts DEF AddBeat, PathInv, Streams
<1>2. ~Passed /\ ~Coming
  BY <1>1 DEF Passed, Coming
<1>3. wr \in {"write", "drop"} /\ Going
  BY <1>2, Busy
<1>4. /\ Streams'
      /\ Remaining("k")' = 0 /\ Remaining("x")' = 0
      /\ Remaining("a")' = Remaining("a") - 1
      /\ Len(fifo'["y"]) = Len(fifo["y"]) + 1
      /\ res' = res - 1
      /\ UNCHANGED <<cfgVars, axi, cmd, left, held, wr, wleft, wlen, resp>>
  BY <1>1, <1>3, AddStep DEF Going
<1>5. Remaining("a") \in Nat /\ Remaining("a") <= res
  BY <1>1, <1>3, NothingLeft DEF Going, MM2S, Streams
<1>6. Going'
  BY <1>1, <1>3, <1>4, <1>5 DEF Going
<1>7. res' + Len(fifo'["y"]) = res + Len(fifo["y"])
  BY <1>1, <1>4
<1>8. PathInv'
  BY <1>3, <1>4, <1>6 DEF PathInv, Streams
<1> QED
  BY <1>2, <1>3, <1>4, <1>6, <1>7, <1>8

(***************************************************************************)
(* The write DMA takes the beat with tlast when all else has passed.       *)
(***************************************************************************)
LEMMA WrTakePath ==
  ASSUME PathInv, WrBeat \/ WrDrop
  PROVE  /\ PathInv' /\ ~Passed /\ Going
         /\ Head(fifo["y"]) => Passed' /\ res = 0 /\ Len(fifo["y"]) = 1
         /\ ~Head(fifo["y"]) => Going'
         /\ Len(fifo["y"]) > 0 /\ Len(fifo'["y"]) = Len(fifo["y"]) - 1
         /\ UNCHANGED <<cfgVars, axi, cmd, left, held, res>>
<1>1. Streams /\ fifo["y"] # <<>> /\ PathTypeOK
  BY DEF WrBeat, WrDrop, PathInv, Streams
<1>2. ~Passed /\ ~Coming
  BY <1>1 DEF Passed, Coming
<1>3. wr \in {"write", "drop"} /\ Going
  BY <1>2, Busy
<1>4. /\ Streams'
      /\ \A c \in MM2S : Remaining(c)' = Remaining(c)
      /\ Len(fifo["y"]) > 0 /\ Len(fifo'["y"]) = Len(fifo["y"]) - 1
      /\ Head(fifo["y"]) \in BOOLEAN
      /\ Head(fifo["y"]) <=> (Len(fifo["y"]) = 1 /\ res = 0)
      /\ UNCHANGED <<cfgVars, axi, cmd, left, held, res>>
  BY <1>1, WrTakeStep DEF WrBeat, PathInv
<1>n. res \in Nat /\ wleft \in Nat /\ Len(fifo["y"]) \in Nat
  BY <1>1, PathFacts
<1>5. /\ Remaining("a") \in Nat /\ Remaining("a") <= res
      /\ Remaining("k") = 0 /\ Remaining("x") = 0
      /\ MM2S = {"k", "x", "a"} /\ "y" \in Channels
  BY <1>1, <1>3, PathFacts, NothingLeft DEF Going
<1>6. ASSUME Head(fifo["y"]) PROVE Passed' /\ res = 0 /\ Len(fifo["y"]) = 1
  <2>1. res = 0 /\ Len(fifo["y"]) = 1 /\ Len(fifo'["y"]) = 0
    <3>1. res = 0 /\ Len(fifo["y"]) = 1
      BY <1>4, <1>6
    <3>2. Len(fifo'["y"]) = Len(fifo["y"]) - 1
      BY <1>4
    <3> QED
      BY <3>1, <3>2
  <2>2. fifo'["y"] \in Seq(BOOLEAN)
    BY <1>4, <1>5 DEF Streams, PathTypeOK
  <2>3. fifo'["y"] = <<>>
    BY <2>1, <2>2, EmptyLen
  <2>4. \A c \in MM2S : Remaining(c)' = 0 /\ Remaining(c) = 0
    <3>1. Remaining("a") = 0
      BY <1>5, <2>1
    <3>2. \A c \in MM2S : Remaining(c) = 0
      BY <1>5, <3>1
    <3> QED
      BY <1>4, <3>2
  <2>5. axi = {}
    <3> SUFFICES ASSUME NEW c \in axi PROVE FALSE
      OBVIOUS
    <3>1. c \in MM2S
      BY <1>1 DEF PathTypeOK
    <3>2. cmd[c] = 0 /\ left[c] = 0 /\ ReadStream(c)
      BY <1>1, <2>4, <3>1, NothingLeft DEF Streams
    <3> QED
      BY <3>2 DEF ReadStream
  <2> QED
    BY <1>4, <2>1, <2>3, <2>4, <2>5 DEF Passed
<1>7. ASSUME ~Head(fifo["y"]) PROVE Going'
  <2>1. ~(Len(fifo["y"]) = 1 /\ res = 0) /\ Len(fifo["y"]) > 0
    BY <1>4, <1>7
  <2>2. res' + Len(fifo'["y"]) > 0
    <3>1. Len(fifo'["y"]) = Len(fifo["y"]) - 1 /\ res' = res
      BY <1>4
    <3>2. res + (Len(fifo["y"]) - 1) > 0
      BY <1>n, <2>1, SumRest
    <3> QED
      BY <3>1, <3>2
  <2>3. /\ held'["k"] /\ held'["x"] /\ res' = res
        /\ Remaining("k")' = 0 /\ Remaining("x")' = 0 /\ Remaining("a")' = Remaining("a")
    BY <1>3, <1>4, <1>5 DEF Going
  <2> QED
    BY <1>5, <2>2, <2>3 DEF Going
<1>8. /\ wr' \in {"idle", "finish"} => Head(fifo["y"])
      /\ wr' \in {"write", "drop"} => ~Head(fifo["y"])
      /\ wr' = "write" => wleft' > 0
  <2>1. CASE WrBeat
    <3>1. /\ wr' = IF Head(fifo["y"]) THEN IF wleft = 1 THEN "idle" ELSE "finish"
                               ELSE IF wleft = 1 THEN "drop" ELSE "write"
          /\ wleft' = wleft - 1 /\ wleft > 0
      BY <2>1 DEF WrBeat, PathInv
    <3>2. CASE Head(fifo["y"])
      BY <3>1, <3>2
    <3>3. CASE ~Head(fifo["y"])
      <4>1. wr' = (IF wleft = 1 THEN "drop" ELSE "write") /\ wleft' = wleft - 1 /\ wleft > 0
        BY <3>1, <3>3
      <4>2. wr' \notin {"idle", "finish"}
        BY <4>1
      <4>3. wr' = "write" => wleft' > 0
        <5>1. wleft \in Nat
          BY <1>n
        <5> QED
          BY <4>1, <5>1
      <4> QED
        BY <3>3, <4>2, <4>3
    <3> QED
      BY <3>2, <3>3
  <2>2. CASE WrDrop
    BY <2>2 DEF WrDrop
  <2> QED
    BY <2>1, <2>2
<1>9. PathInv'
  BY <1>4, <1>6, <1>7, <1>8 DEF PathInv, Streams
<1> QED
  BY <1>2, <1>3, <1>4, <1>6, <1>7, <1>9

(***************************************************************************)
(* Filling up a burst, and a response.                                     *)
(***************************************************************************)
LEMMA WrEndPath ==
  ASSUME PathInv, WrFinish \/ \E e \in Errors : WrResp(e)
  PROVE  /\ PathInv' /\ (Passed' <=> Passed) /\ (Coming' <=> Coming) /\ (Going' <=> Going)
         /\ UNCHANGED <<start, bytes, fifo, res, wlen>>
<1>1. UNCHANGED <<start, bytes, axi, cmd, left, fifo, held, res, wlen>>
  BY DEF WrFinish, WrResp, cfgVars
<1>2. PathTypeOK'
  <2>1. CASE WrFinish
    BY <2>1 DEF WrFinish, PathInv, PathTypeOK, cfgVars
  <2>2. CASE \E e \in Errors : WrResp(e)
    <3>1. resp > 0 /\ resp' = resp - 1 /\ UNCHANGED <<wr, wleft>>
      BY <2>2 DEF WrResp
    <3>2. done' \in [Channels -> BOOLEAN]
      BY <2>2 DEF WrResp, ReportStatus, PathInv, PathTypeOK
    <3> QED
      BY <1>1, <3>1, <3>2 DEF PathInv, PathTypeOK
  <2> QED
    BY <2>1, <2>2
<1>3. (\A c \in MM2S : ReadStream(c)') /\ WriteStream'
  BY <1>1 DEF PathInv, ReadStream, WriteStream
<1>4. (Passed' <=> Passed) /\ (Coming' <=> Coming) /\ (Going' <=> Going)
  BY <1>1 DEF Passed, Coming, Going, Remaining
<1>5. \/ wr' = wr /\ wleft' = wleft
      \/ wr = "finish" /\ wr' = "idle"
  BY DEF WrFinish, WrResp
<1> QED
  BY <1>1, <1>2, <1>3, <1>4, <1>5 DEF PathInv

(***************************************************************************)
(* Every step of the hardware keeps the invariant, if START hands out good *)
(* descriptors.                                                            *)
(***************************************************************************)
LEMMA PathStep ==
  ASSUME Sticky = TRUE, PathInv, start => GoodDescriptors, PathNext
  PROVE  PathInv'
<1>1. CASE Handshake
  BY <1>1, HandshakeStep
<1>2. CASE \E c \in MM2S : RdNext(c)
  BY <1>2, ReadPath
<1>3. CASE ArrayNext
  BY <1>3, TakePath, AddPath DEF ArrayNext
<1>4. CASE WrNext
  BY <1>4, WrTakePath, WrEndPath DEF WrNext
<1> QED
  BY <1>1, <1>2, <1>3, <1>4 DEF PathNext
=============================================================================
