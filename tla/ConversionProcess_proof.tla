------------------------ MODULE ConversionProcess_proof ------------------------
(***************************************************************************)
(* For any number of requests, uploads and log files: every conversion is  *)
(* answered at most once, a served one leaves none of its lines behind,    *)
(* the answers share out every line logged without loss or repetition, and *)
(* a log file holds every line of the conversions that asked for it.       *)
(*                                                                         *)
(* For any number of processes that share a dotfile (the last part):       *)
(* conversions in turn report one id, and a settled id stays.              *)
(***************************************************************************)
EXTENDS ConversionProcess, AssetId, SequenceTheorems, WellFoundedInduction, TLAPS

Ran(r) == license[r] # "unread"

(* What a caller's phase says about its answer, uploads and conversion.    *)
AnswerOfPhase ==
    \A r \in Callers :
        /\ phase[r] # "answered" => answers[r] = << >>
        /\ phase[r] = "answered" => Len(answers[r]) = 1

RanOfPhase ==
    \A r \in Callers :
        /\ phase[r] = "awaiting" => Ran(r)
        /\ Ran(r) => phase[r] \in {"awaiting", "answered"} /\ pending[r] = {}

(* Callers are served when their conversion is over.                       *)
ServedAreOver ==
    \A k \in DOMAIN served : Ran(served[k]) /\ phase[served[k]] = "answered"

(* The lines a conversion wants to find in its log file.                   *)
Own(l, r) == l.by = r /\ l.what \in {"warning", "summary"}

Configured ==
    \A r \in Callers :
        (Ran(r) \/ (r = Cli /\ phase[r] # "idle")) /\ input[r].log # NoFile =>
            input[r].log \in transports

InLogFile ==
    \A r \in Callers : \A l \in ToSet(emitted) : Own(l, r) =>
        Ran(r) /\ (input[r].log # NoFile => l \in logFile[input[r].log])

Stages == AnswerOfPhase /\ RanOfPhase /\ ServedAreOver

IInv == TypeOK /\ Stages /\ ServedLeavesNothing /\ Configured /\ InLogFile
-----------------------------------------------------------------------------
(* What is in a sequence of lines.                                         *)
LEMMA ToSetConcat ==
  ASSUME NEW S, NEW s \in Seq(S), NEW t \in Seq(S)
  PROVE  s \o t \in Seq(S) /\ ToSet(s \o t) = ToSet(s) \cup ToSet(t)
<1>1. s \o t \in Seq(S) /\ Len(s \o t) = Len(s) + Len(t)
  OBVIOUS
<1>2. \A i \in 1..Len(s) : (s \o t)[i] = s[i]
  OBVIOUS
<1>3. \A i \in 1..Len(t) : (s \o t)[Len(s) + i] = t[i]
  OBVIOUS
<1>4. ASSUME NEW i \in 1..Len(s) + Len(t)
      PROVE  (s \o t)[i] \in ToSet(s) \cup ToSet(t)
  <2>1. CASE i <= Len(s)
    BY <1>2, <2>1 DEF ToSet
  <2>2. CASE i > Len(s)
    <3>1. i - Len(s) \in 1..Len(t) /\ i = Len(s) + (i - Len(s))
      BY <2>2
    <3>2. (s \o t)[i] = t[i - Len(s)]
      BY <1>3, <3>1
    <3> QED BY <3>1, <3>2 DEF ToSet
  <2> QED BY <2>1, <2>2
<1>5. DOMAIN s = 1..Len(s) /\ DOMAIN t = 1..Len(t) /\ DOMAIN (s \o t) = 1..Len(s) + Len(t)
  BY <1>1
<1>6. ToSet(s) \subseteq ToSet(s \o t)
  <2>1. \A i \in 1..Len(s) : i \in 1..Len(s) + Len(t)
    BY <1>1
  <2> QED BY <1>2, <1>5, <2>1, ZenonT(40) DEF ToSet
<1>7. ToSet(t) \subseteq ToSet(s \o t)
  <2>1. \A i \in 1..Len(t) : Len(s) + i \in 1..Len(s) + Len(t)
    BY <1>1
  <2> QED BY <1>3, <1>5, <2>1, ZenonT(40) DEF ToSet
<1>8. ToSet(s \o t) \subseteq ToSet(s) \cup ToSet(t)
  BY <1>4, <1>5 DEF ToSet
<1> QED BY <1>1, <1>6, <1>7, <1>8

LEMMA ToSetSmall ==
  ASSUME NEW x
  PROVE  ToSet(<<x>>) = {x} /\ ToSet(<< >>) = {}
BY DEF ToSet

(* One more element.                                                       *)
LEMMA AppendOne ==
  ASSUME NEW S, NEW s \in Seq(S), NEW e \in S
  PROVE  Append(s, e) \in Seq(S) /\ DOMAIN Append(s, e) = 1..Len(s) + 1
<1>1. Append(s, e) \in Seq(S)
  OBVIOUS
<1>2. DOMAIN Append(s, e) = 1..Len(s) + 1
  OBVIOUS
<1> QED BY <1>1, <1>2

LEMMA AppendElement ==
  ASSUME NEW S, NEW s \in Seq(S), NEW e \in S, NEW k \in 1..Len(s)
  PROVE  Append(s, e)[k] = s[k]
OBVIOUS

LEMMA AppendLast ==
  ASSUME NEW S, NEW s \in Seq(S), NEW e \in S, NEW k \in {Len(s) + 1}
  PROVE  Append(s, e)[k] = e
OBVIOUS
-----------------------------------------------------------------------------
(* FlattenSeq, by induction on the numbers as a set: the library's         *)
(* theorem takes a predicate, which the provers cannot instantiate.        *)

(* A set of numbers that has 0 and the successor of each of its elements   *)
(* has all.                                                                *)
LEMMA SetInduction ==
  ASSUME NEW T, 0 \in T, \A n \in Nat : n \in T => n + 1 \in T
  PROVE  Nat \subseteq T
<1> DEFINE Less == OpToRel(<, Nat)
<1>1. \A a, b \in Nat : <<a, b>> \in Less <=> a < b
  BY DEF OpToRel
<1>2. IsWellFoundedOn(Less, Nat)
  BY NatLessThanWellFounded
<1> HIDE DEF Less
<1> SUFFICES ASSUME Nat \ T # {} PROVE FALSE
  OBVIOUS
<1>3. PICK x \in Nat \ T : \A y \in Nat \ T : <<y, x>> \notin Less
  BY <1>2, WFMin
<1>4. x # 0 /\ x - 1 \in Nat /\ x - 1 < x /\ (x - 1) + 1 = x
  BY <1>3
<1>5. x - 1 \in T
  BY <1>1, <1>3, <1>4
<1> QED BY <1>3, <1>4, <1>5

(* FlattenSeq's function: f[i] is the first i sequences of ss in one.      *)
Flattens(f, ss, n, S) ==
    /\ f \in [1 .. n -> Seq(S)]
    /\ \A i \in 1 .. n : f[i] = IF i = 1 THEN ss[i] ELSE f[i - 1] \o ss[i]

LEMMA ConcatType ==
  ASSUME NEW S, NEW s \in Seq(S), NEW t \in Seq(S)
  PROVE  s \o t \in Seq(S)
OBVIOUS

LEMMA FlattenExists ==
  ASSUME NEW S, NEW ss \in Seq(Seq(S))
  PROVE  \E f : Flattens(f, ss, Len(ss), S)
<1> DEFINE T == {n \in Nat : n <= Len(ss) => \E f : Flattens(f, ss, n, S)}
<1>1. 0 \in T
  <2>1. [i \in 1 .. 0 |-> << >>] \in [1 .. 0 -> Seq(S)] /\ \A i \in 1 .. 0 : FALSE
    OBVIOUS
  <2>2. Flattens([i \in 1 .. 0 |-> << >>], ss, 0, S)
    BY <2>1 DEF Flattens
  <2> QED BY <2>2
<1>2. ASSUME NEW n \in Nat, n \in T PROVE n + 1 \in T
  <2> SUFFICES ASSUME n + 1 <= Len(ss) PROVE \E f : Flattens(f, ss, n + 1, S)
    OBVIOUS
  <2>1. PICK f : Flattens(f, ss, n, S)
    BY <1>2
  <2> DEFINE last == IF n = 0 THEN ss[n + 1] ELSE f[n] \o ss[n + 1]
             g == [i \in 1 .. n + 1 |-> IF i = n + 1 THEN last ELSE f[i]]
  <2>2. ss[n + 1] \in Seq(S)
    OBVIOUS
  <2>3. last \in Seq(S)
    <3>1. CASE n = 0
      BY <2>2, <3>1
    <3>2. CASE n # 0
      <4>1. f[n] \in Seq(S)
        BY <2>1, <3>2 DEF Flattens
      <4> QED BY <2>2, <3>2, <4>1, ConcatType
    <3> QED BY <3>1, <3>2
  <2> HIDE DEF last
  <2>4. g \in [1 .. n + 1 -> Seq(S)] /\ g[n + 1] = last /\ \A i \in 1 .. n : g[i] = f[i]
    <3>1. \A i \in 1 .. n : i \in 1 .. n + 1 /\ i # n + 1
      OBVIOUS
    <3>2. \A i \in 1 .. n + 1 : i # n + 1 => i \in 1 .. n
      OBVIOUS
    <3>3. f \in [1 .. n -> Seq(S)] /\ n + 1 \in 1 .. n + 1
      BY <2>1 DEF Flattens
    <3>4. g \in [1 .. n + 1 -> Seq(S)]
      BY <2>3, <3>2, <3>3
    <3> QED BY <3>1, <3>3, <3>4
  <2> HIDE DEF g
  <2>5. ASSUME NEW i \in 1 .. n + 1
        PROVE  g[i] = IF i = 1 THEN ss[i] ELSE g[i - 1] \o ss[i]
    <3>1. CASE i = n + 1
      <4>1. CASE n = 0
        BY <2>4, <3>1, <4>1 DEF last
      <4>2. CASE n # 0
        <5>1. g[n] = f[n] /\ i - 1 = n /\ i # 1
          BY <2>4, <3>1, <4>2
        <5>2. g[i] = last /\ last = f[n] \o ss[i]
          BY <2>4, <3>1, <4>2 DEF last
        <5> QED BY <5>1, <5>2
      <4> QED BY <4>1, <4>2
    <3>2. CASE i # n + 1
      <4>1. i \in 1 .. n /\ (i # 1 => i - 1 \in 1 .. n)
        BY <3>2
      <4>2. f[i] = IF i = 1 THEN ss[i] ELSE f[i - 1] \o ss[i]
        BY <2>1, <4>1 DEF Flattens
      <4>3. CASE i = 1
        BY <2>4, <4>1, <4>2, <4>3
      <4>4. CASE i # 1
        <5>1. g[i] = f[i] /\ g[i - 1] = f[i - 1]
          BY <2>4, <4>1, <4>4
        <5> QED BY <4>2, <4>4, <5>1
      <4> QED BY <4>3, <4>4
    <3> QED BY <3>1, <3>2
  <2>6. Flattens(g, ss, n + 1, S)
    BY <2>4, <2>5 DEF Flattens
  <2> QED BY <2>6
<1> HIDE DEF T
<1>3. Nat \subseteq T
  BY <1>1, <1>2, SetInduction
<1>4. Len(ss) \in T
  BY <1>3
<1> QED BY <1>4 DEF T

LEMMA FlattenOne ==
  ASSUME NEW S, NEW ss \in Seq(Seq(S)), ss # << >>
  PROVE  \E f : Flattens(f, ss, Len(ss), S) /\ FlattenSeq(ss) = f[Len(ss)]
<1> DEFINE n == Len(ss)
           Step(f) == [i \in 1 .. n |-> IF i = 1 THEN ss[i] ELSE f[i - 1] \o ss[i]]
           fl == CHOOSE f : f = Step(f)
<1>1. n \in Nat /\ n # 0
  OBVIOUS
<1>2. FlattenSeq(ss) = fl[n]
  BY <1>1 DEF FlattenSeq
<1>3. PICK f : Flattens(f, ss, n, S)
  BY FlattenExists
<1>4. f = Step(f)
  BY <1>3 DEF Flattens
<1>5. fl = Step(fl)
  BY <1>4
<1> HIDE DEF fl, n
<1>6. \A i \in 1 .. n : fl[i] = IF i = 1 THEN ss[i] ELSE fl[i - 1] \o ss[i]
  BY <1>5
<1>7. DOMAIN fl = 1 .. n /\ fl = [i \in 1 .. n |-> fl[i]]
  BY <1>5
<1> DEFINE T == {m \in Nat : m \in 1 .. n => fl[m] \in Seq(S)}
<1>8. 0 \in T
  OBVIOUS
<1>9. ASSUME NEW m \in Nat, m \in T PROVE m + 1 \in T
  <2> SUFFICES ASSUME m + 1 \in 1 .. n PROVE fl[m + 1] \in Seq(S)
    OBVIOUS
  <2>1. ss[m + 1] \in Seq(S)
    BY DEF n
  <2>2. CASE m = 0
    BY <1>6, <2>1, <2>2
  <2>3. CASE m # 0
    <3>1. m \in 1 .. n /\ (m + 1) - 1 = m /\ m + 1 # 1
      BY <1>1, <2>3
    <3>2. fl[m + 1] = fl[m] \o ss[m + 1]
      BY <1>6, <3>1
    <3>3. fl[m] \in Seq(S)
      BY <1>9, <3>1
    <3> QED BY <2>1, <3>2, <3>3, ConcatType
  <2> QED BY <2>2, <2>3
<1> HIDE DEF T
<1>10. Nat \subseteq T
  BY <1>8, <1>9, SetInduction
<1>11. \A m \in 1 .. n : fl[m] \in Seq(S)
  BY <1>10 DEF T
<1>12. Flattens(fl, ss, n, S)
  BY <1>6, <1>7, <1>11 DEF Flattens
<1> QED BY <1>2, <1>12 DEF n

(* One more sequence at the end of ss.                                     *)
LEMMA FlattenAppend ==
  ASSUME NEW S, NEW ss \in Seq(Seq(S)), NEW s \in Seq(S)
  PROVE  /\ FlattenSeq(ss) \in Seq(S)
         /\ FlattenSeq(Append(ss, s)) = FlattenSeq(ss) \o s
<1> DEFINE tt == Append(ss, s)
           n == Len(ss)
<1>1. /\ tt \in Seq(Seq(S)) /\ tt # << >> /\ Len(tt) = n + 1 /\ n \in Nat
      /\ tt[n + 1] = s
      /\ \A i \in 1 .. n : tt[i] = ss[i]
  <2>1. tt \in Seq(Seq(S)) /\ DOMAIN tt = 1 .. n + 1 /\ n \in Nat
    BY AppendOne
  <2>2. tt # << >> /\ Len(tt) = n + 1
    <3> HIDE DEF tt
    <3> QED BY <2>1
  <2> QED BY <2>1, <2>2, AppendElement, AppendLast
<1> HIDE DEF tt
<1>2. PICK g : Flattens(g, tt, n + 1, S) /\ FlattenSeq(tt) = g[n + 1]
  BY <1>1, FlattenOne
<1>3. CASE ss = << >>
  <2>1. n = 0 /\ FlattenSeq(ss) = << >>
    BY <1>3 DEF FlattenSeq
  <2>2. g[1] = s
    BY <1>1, <1>2, <2>1 DEF Flattens
  <2>3. << >> \o s = s /\ << >> \in Seq(S)
    OBVIOUS
  <2> QED BY <1>2, <2>1, <2>2, <2>3 DEF tt
<1>4. CASE ss # << >>
  <2>1. PICK f : Flattens(f, ss, n, S) /\ FlattenSeq(ss) = f[n]
    BY <1>4, FlattenOne
  <2>2. n # 0
    BY <1>4
  <2> HIDE DEF n
  <2> DEFINE T == {m \in Nat : m \in 1 .. n => f[m] = g[m]}
  <2>3. 0 \in T
    OBVIOUS
  <2>4. ASSUME NEW m \in Nat, m \in T PROVE m + 1 \in T
    <3> SUFFICES ASSUME m + 1 \in 1 .. n PROVE f[m + 1] = g[m + 1]
      OBVIOUS
    <3>1. m + 1 \in 1 .. n + 1
      BY <1>1
    <3>2. /\ f[m + 1] = IF m + 1 = 1 THEN ss[m + 1] ELSE f[(m + 1) - 1] \o ss[m + 1]
          /\ g[m + 1] = IF m + 1 = 1 THEN tt[m + 1] ELSE g[(m + 1) - 1] \o tt[m + 1]
      BY <1>2, <2>1, <3>1 DEF Flattens
    <3>3. tt[m + 1] = ss[m + 1] /\ (m + 1) - 1 = m
      BY <1>1
    <3>4. CASE m = 0
      BY <3>2, <3>3, <3>4
    <3>5. CASE m # 0
      <4>1. f[m] = g[m] /\ m + 1 # 1
        BY <1>1, <2>4, <3>5
      <4> QED BY <3>2, <3>3, <4>1
    <3> QED BY <3>4, <3>5
  <2> HIDE DEF T
  <2>5. Nat \subseteq T
    BY <2>3, <2>4, SetInduction
  <2>6. f[n] = g[n]
    BY <1>1, <2>2, <2>5 DEF T
  <2>7. n + 1 \in 1 .. n + 1 /\ n + 1 # 1 /\ (n + 1) - 1 = n
    BY <1>1, <2>2
  <2>8. g[n + 1] = g[n] \o tt[n + 1]
    BY <1>2, <2>7 DEF Flattens
  <2>9. f[n] \in Seq(S)
    BY <1>1, <2>1, <2>2 DEF Flattens
  <2> QED BY <1>1, <1>2, <2>1, <2>6, <2>8, <2>9 DEF tt
<1> QED BY <1>3, <1>4
-----------------------------------------------------------------------------
(* What a step logs.                                                       *)
LEMMA EmitLines ==
  ASSUME emitted \in Seq(Line), logFile \in [LogFiles -> SUBSET Line],
         NEW lines \in Seq(Line), Emit(lines)
  PROVE  /\ emitted' \in Seq(Line)
         /\ ToSet(emitted') = ToSet(emitted) \cup ToSet(lines)
         /\ logFile' \in [LogFiles -> SUBSET Line]
         /\ \A f \in LogFiles : logFile[f] \subseteq logFile'[f]
         /\ \A f \in LogFiles \cap transports' : ToSet(lines) \subseteq logFile'[f]
<1>1. emitted' = emitted \o lines
  BY DEF Emit
<1>2. emitted' \in Seq(Line) /\ ToSet(emitted') = ToSet(emitted) \cup ToSet(lines)
  BY <1>1, ToSetConcat, ZenonT(60)
<1>3. ToSet(lines) \subseteq Line
  <2>1. DOMAIN lines = 1..Len(lines)
    OBVIOUS
  <2>2. \A i \in 1..Len(lines) : lines[i] \in Line
    OBVIOUS
  <2> QED BY <2>1, <2>2 DEF ToSet
<1>4. logFile' = [f \in LogFiles |-> IF f \in transports' THEN logFile[f] \cup ToSet(lines)
                                     ELSE logFile[f]]
  BY DEF Emit
<1> HIDE DEF Line, Emit
<1> DEFINE Lines == ToSet(lines)
<1> HIDE DEF Lines
<1>5. logFile' \in [LogFiles -> SUBSET Line]
  BY <1>3, <1>4 DEF Lines
<1>6. \A f \in LogFiles : logFile[f] \subseteq logFile'[f]
  BY <1>4
<1>7. \A f \in LogFiles \cap transports' : ToSet(lines) \subseteq logFile'[f]
  BY <1>4
<1> QED BY <1>2, <1>5, <1>6, <1>7

(* The sequences of lines the steps log.                                   *)
By(r, lines) == lines \in Seq(Line) /\ \A l \in ToSet(lines) : l.by = r

LEMMA OneLine ==
  ASSUME NEW r \in Callers,
         NEW w \in {"listening", "extract", "error", "warning", "summary"}
  PROVE  /\ [by |-> r, what |-> w] \in Line
         /\ By(r, <<[by |-> r, what |-> w]>>)
         /\ ToSet(<<[by |-> r, what |-> w]>>) = {[by |-> r, what |-> w]}
<1>1. [by |-> r, what |-> w] \in Line
  BY DEF Line
<1>2. ToSet(<<[by |-> r, what |-> w]>>) = {[by |-> r, what |-> w]}
  BY ToSetSmall, ZenonT(60)
<1>3. <<[by |-> r, what |-> w]>> \in Seq(Line)
  BY <1>1
<1>4. \A l \in {[by |-> r, what |-> w]} : l.by = r
  OBVIOUS
<1> QED BY <1>1, <1>2, <1>3, <1>4, Zenon DEF By

LEMMA NoLine ==
  ASSUME NEW r
  PROVE  By(r, << >>) /\ ToSet(<< >>) = {}
<1>1. << >> \in Seq(Line)
  OBVIOUS
<1> QED BY <1>1, ToSetSmall DEF By

LEMMA ByConcat ==
  ASSUME NEW r, NEW s, NEW t, By(r, s), By(r, t)
  PROVE  By(r, s \o t) /\ ToSet(s \o t) = ToSet(s) \cup ToSet(t)
<1>1. s \in Seq(Line) /\ t \in Seq(Line)
  BY DEF By
<1>2. s \o t \in Seq(Line) /\ ToSet(s \o t) = ToSet(s) \cup ToSet(t)
  BY <1>1, ToSetConcat, ZenonT(60)
<1> QED BY <1>2, Zenon DEF By

LEMMA LinesOfErrors ==
  ASSUME NEW r \in Callers
  PROVE  By(r, ErrorLines(r)) /\ \A l \in ToSet(ErrorLines(r)) : l.what = "error"
<1>1. CASE r = Cli
  BY <1>1, NoLine DEF ErrorLines
<1>2. CASE r # Cli
  <2>1. ErrorLines(r) = <<[by |-> r, what |-> "error"]>>
    BY <1>2 DEF ErrorLines
  <2>2. \A l \in {[by |-> r, what |-> "error"]} : l.what = "error"
    OBVIOUS
  <2>3. By(r, <<[by |-> r, what |-> "error"]>>)
        /\ ToSet(<<[by |-> r, what |-> "error"]>>) = {[by |-> r, what |-> "error"]}
    BY OneLine
  <2> QED BY <2>1, <2>2, <2>3, Zenon
<1> QED BY <1>1, <1>2
(* What the two steps log that leave the buffer for later.                 *)
LEMMA ExtractFailsLogs ==
  ASSUME NEW r \in Callers, NEW u, ExtractFails(r, u)
  PROVE  \E lines : /\ By(r, lines) /\ Log(lines)
                    /\ \A l \in ToSet(lines) : l.what \in {"extract", "error"}
<1> DEFINE ext == IF input[r].ucs[u] = "corrupt"
                  THEN <<[by |-> r, what |-> "extract"]>> ELSE << >>
<1>1. By(r, ext) /\ \A l \in ToSet(ext) : l.what = "extract"
  <2>1. CASE input[r].ucs[u] = "corrupt"
    <3>1. ext = <<[by |-> r, what |-> "extract"]>>
      BY <2>1
    <3>2. By(r, <<[by |-> r, what |-> "extract"]>>)
          /\ ToSet(<<[by |-> r, what |-> "extract"]>>) = {[by |-> r, what |-> "extract"]}
      BY OneLine
    <3>3. \A l \in {[by |-> r, what |-> "extract"]} : l.what = "extract"
      OBVIOUS
    <3> QED BY <3>1, <3>2, <3>3, Zenon
  <2>2. CASE input[r].ucs[u] # "corrupt"
    <3>1. ext = << >>
      BY <2>2
    <3> QED BY <3>1, NoLine, Zenon
  <2> QED BY <2>1, <2>2
<1>2. Log(ext \o ErrorLines(r)) \/ Log(ext)
  BY Zenon DEF ExtractFails
<1> HIDE DEF ext
<1>3. CASE Log(ext)
  BY <1>1, <1>3, Zenon
<1>4. CASE Log(ext \o ErrorLines(r))
  <2>1. By(r, ErrorLines(r)) /\ \A l \in ToSet(ErrorLines(r)) : l.what = "error"
    BY LinesOfErrors
  <2> DEFINE both == ext \o ErrorLines(r)
  <2>4. Log(both)
    BY <1>4
  <2>5. both = ext \o ErrorLines(r)
    OBVIOUS
  <2> HIDE DEF both
  <2>2. By(r, both) /\ ToSet(both) = ToSet(ext) \cup ToSet(ErrorLines(r))
    BY <1>1, <2>1, <2>5, ByConcat, ZenonT(60)
  <2>3. \A l \in ToSet(both) : l.what \in {"extract", "error"}
    BY <1>1, <2>1, <2>2, Zenon
  <2> QED BY <2>4, <2>2, <2>3, Zenon
<1> QED BY <1>2, <1>3, <1>4

LEMMA RunMainLogs ==
  ASSUME NEW r \in Callers, RunMain(r)
  PROVE  \E lines : /\ By(r, lines) /\ Log(lines)
                    /\ \A l \in ToSet(lines) : l.what \in {"warning", "error"}
<1> DEFINE warning == <<[by |-> r, what |-> "warning"]>>
<1>1. By(r, warning) /\ \A l \in ToSet(warning) : l.what = "warning"
  <2>1. By(r, warning) /\ ToSet(warning) = {[by |-> r, what |-> "warning"]}
    BY OneLine
  <2>2. \A l \in {[by |-> r, what |-> "warning"]} : l.what = "warning"
    OBVIOUS
  <2> QED BY <2>1, <2>2, Zenon
<1>2. Log(warning) \/ Log(warning \o ErrorLines(r))
  BY Zenon DEF RunMain
<1> HIDE DEF warning
<1>3. CASE Log(warning)
  BY <1>1, <1>3, Zenon
<1>4. CASE Log(warning \o ErrorLines(r))
  <2>1. By(r, ErrorLines(r)) /\ \A l \in ToSet(ErrorLines(r)) : l.what = "error"
    BY LinesOfErrors
  <2> DEFINE both == warning \o ErrorLines(r)
  <2>4. Log(both)
    BY <1>4
  <2>5. both = warning \o ErrorLines(r)
    OBVIOUS
  <2> HIDE DEF both
  <2>2. By(r, both) /\ ToSet(both) = ToSet(warning) \cup ToSet(ErrorLines(r))
    BY <1>1, <2>1, <2>5, ByConcat, ZenonT(60)
  <2>3. \A l \in ToSet(both) : l.what \in {"warning", "error"}
    BY <1>1, <2>1, <2>2, Zenon
  <2> QED BY <2>4, <2>2, <2>3, Zenon
<1> QED BY <1>2, <1>3, <1>4

LEMMA LogLines ==
  ASSUME TypeOK, NEW r, NEW lines, By(r, lines), Log(lines)
  PROVE  /\ emitted' \in Seq(Line) /\ output' \in Seq(Line)
         /\ logFile' \in [LogFiles -> SUBSET Line]
         /\ ToSet(emitted') = ToSet(emitted) \cup ToSet(lines)
         /\ ToSet(output') = ToSet(output) \cup ToSet(lines)
         /\ \A f \in LogFiles : logFile[f] \subseteq logFile'[f]
         /\ \A f \in LogFiles \cap transports' : ToSet(lines) \subseteq logFile'[f]
<1>1. /\ emitted \in Seq(Line) /\ output \in Seq(Line)
      /\ logFile \in [LogFiles -> SUBSET Line]
      /\ lines \in Seq(Line)
  BY Zenon DEF TypeOK, By
<1>2. Emit(lines) /\ output' = output \o lines
  BY DEF Log
<1>3. output' \in Seq(Line) /\ ToSet(output') = ToSet(output) \cup ToSet(lines)
  BY <1>1, <1>2, ToSetConcat, ZenonT(60)
<1> QED BY <1>1, <1>2, <1>3, EmitLines, Zenon

LEMMA FinishLines ==
  ASSUME TypeOK, NEW r \in Callers, Finish(r)
  PROVE  /\ emitted' \in Seq(Line) /\ output' = << >>
         /\ logFile' \in [LogFiles -> SUBSET Line]
         /\ ToSet(emitted') = ToSet(emitted) \cup {Summary(r)}
         /\ \A f \in LogFiles : logFile[f] \subseteq logFile'[f]
         /\ \A f \in LogFiles \cap transports' : Summary(r) \in logFile'[f]
         /\ output \o <<Summary(r)>> \in Seq(Line)
         /\ ToSet(output \o <<Summary(r)>>) = ToSet(output) \cup {Summary(r)}
<1>1. /\ emitted \in Seq(Line) /\ output \in Seq(Line)
      /\ logFile \in [LogFiles -> SUBSET Line]
  BY Zenon DEF TypeOK
<1>2. By(r, <<Summary(r)>>) /\ ToSet(<<Summary(r)>>) = {Summary(r)}
  BY OneLine DEF Summary
<1>3. <<Summary(r)>> \in Seq(Line)
  BY <1>2 DEF By
<1>4. Emit(<<Summary(r)>>) /\ output' = << >>
  BY Zenon DEF Finish, Memory
<1>5. output \o <<Summary(r)>> \in Seq(Line)
      /\ ToSet(output \o <<Summary(r)>>) = ToSet(output) \cup {Summary(r)}
  <2> DEFINE own == <<Summary(r)>>
             all == output \o own
  <2>1. own \in Seq(Line) /\ ToSet(own) = {Summary(r)}
    BY <1>2, <1>3
  <2> HIDE DEF own
  <2>2. all = output \o own
    OBVIOUS
  <2> HIDE DEF all
  <2>3. all \in Seq(Line) /\ ToSet(all) = ToSet(output) \cup ToSet(own)
    BY <1>1, <2>1, <2>2, ToSetConcat, ZenonT(60)
  <2> QED BY <2>1, <2>3 DEF own, all
<1>6. /\ emitted' \in Seq(Line) /\ logFile' \in [LogFiles -> SUBSET Line]
      /\ ToSet(emitted') = ToSet(emitted) \cup {Summary(r)}
      /\ \A f \in LogFiles : logFile[f] \subseteq logFile'[f]
      /\ \A f \in LogFiles \cap transports' : {Summary(r)} \subseteq logFile'[f]
  BY <1>1, <1>2, <1>3, <1>4, EmitLines, Zenon
<1>7. \A f \in LogFiles \cap transports' : Summary(r) \in logFile'[f]
  BY <1>6
<1> QED BY <1>4, <1>5, <1>6, <1>7
-----------------------------------------------------------------------------
(* Types.                                                                  *)
LEMMA InputParts ==
  ASSUME NEW in \in Input
  PROVE  DOMAIN in.ucs \subseteq Uploads /\ in.log \in LogFiles \cup {NoFile}
<1>1. in.ucs \in UNION {[S -> Verdicts] : S \in SUBSET Uploads}
      /\ in.log \in LogFiles \cup {NoFile}
  BY DEF Input
<1>2. PICK S \in SUBSET Uploads : in.ucs \in [S -> Verdicts]
  BY <1>1
<1> QED BY <1>1, <1>2

LEMMA AnswerTypes ==
  ASSUME NEW r \in Callers, answers \in [Callers -> Seq({"201", "400"})],
         NEW a \in {"201", "400"}, answers' = [answers EXCEPT ![r] = Append(@, a)]
  PROVE  answers' \in [Callers -> Seq({"201", "400"})]
<1>1. answers[r] \in Seq({"201", "400"})
  OBVIOUS
<1>2. Append(answers[r], a) \in Seq({"201", "400"})
  BY <1>1, AppendOne, ZenonT(60)
<1> HIDE DEF Callers
<1> DEFINE new == Append(answers[r], a)
<1>3. answers' = [answers EXCEPT ![r] = new]
  OBVIOUS
<1>4. new \in Seq({"201", "400"})
  BY <1>2
<1> HIDE DEF new
<1> QED BY <1>3, <1>4

LEMMA TypeInit == Init => TypeOK
<1> SUFFICES ASSUME Init PROVE TypeOK
  OBVIOUS
<1>1. [u \in {} |-> "files"] \in UNION {[S -> Verdicts] : S \in SUBSET Uploads}
  <2>1. [u \in {} |-> "files"] \in [{} -> Verdicts]
    OBVIOUS
  <2> QED BY <2>1
<1>2. input \in [Callers -> Input]
  BY <1>1 DEF Init, Input
<1>3. Listening \in Line
  BY DEF Listening, Line
<1>4. output \in Seq(Line) /\ emitted \in Seq(Line) /\ served \in Seq(Callers)
  BY <1>3 DEF Init
<1>5. logs \in [Callers -> Seq(Line)] /\ answers \in [Callers -> Seq({"201", "400"})]
  BY DEF Init
<1>6. /\ mode \in {"serve", "cli"}
      /\ phase \in [Callers -> {"idle", "extracting", "awaiting", "answered"}]
      /\ pending \in [Callers -> SUBSET Uploads]
      /\ transports \subseteq LogFiles
      /\ logFile \in [LogFiles -> SUBSET Line]
      /\ data \in {"none", Cli}
      /\ license \in [Callers -> {"unread", "none", Cli}]
  BY DEF Init
<1> QED BY <1>2, <1>4, <1>5, <1>6 DEF TypeOK

LEMMA TypeStep == TypeOK /\ [Next]_vars => TypeOK'
<1> SUFFICES ASSUME TypeOK, [Next]_vars PROVE TypeOK'
  OBVIOUS
<1>1. CASE CliStart
  <2>1. PICK in \in Input : /\ input' = [input EXCEPT ![Cli] = in]
                           /\ pending' = [pending EXCEPT ![Cli] = DOMAIN in.ucs]
                           /\ Configure(in.log)
    BY <1>1 DEF CliStart
  <2>2. DOMAIN in.ucs \subseteq Uploads /\ in.log \in LogFiles \cup {NoFile}
    BY InputParts
  <2>3. transports' \subseteq LogFiles
    BY <2>1, <2>2 DEF Configure, TypeOK
  <2>4. pending' \in [Callers -> SUBSET Uploads]
    BY <2>1, <2>2 DEF TypeOK
  <2>5. input' \in [Callers -> Input]
    BY <2>1 DEF TypeOK
  <2>6. phase' \in [Callers -> {"idle", "extracting", "awaiting", "answered"}]
    BY <1>1 DEF CliStart, TypeOK
  <2>7. UNCHANGED <<mode, answers, logs, output, logFile, data, license, emitted, served>>
    BY <1>1 DEF CliStart
  <2> QED BY <2>3, <2>4, <2>5, <2>6, <2>7 DEF TypeOK
<1>2. ASSUME NEW r \in Requests, Receive(r) PROVE TypeOK'
  <2>0. r \in Callers
    BY DEF Callers
  <2>1. PICK in \in Input : /\ input' = [input EXCEPT ![r] = in]
                           /\ pending' = [pending EXCEPT ![r] = DOMAIN in.ucs]
    BY <1>2 DEF Receive
  <2>2. DOMAIN in.ucs \subseteq Uploads
    BY InputParts
  <2>3. pending' \in [Callers -> SUBSET Uploads]
    BY <2>1, <2>2 DEF TypeOK
  <2>4. input' \in [Callers -> Input]
    BY <2>1 DEF TypeOK
  <2>5. phase' \in [Callers -> {"idle", "extracting", "awaiting", "answered"}]
    BY <1>2 DEF Receive, TypeOK
  <2>6. UNCHANGED <<mode, answers, logs, output, transports, logFile, data, license,
                    emitted, served>>
    BY <1>2 DEF Receive
  <2> QED BY <2>3, <2>4, <2>5, <2>6 DEF TypeOK
<1>3. ASSUME NEW r \in Callers, NEW u \in Uploads, ExtractDone(r, u) PROVE TypeOK'
  <2>1. pending' \in [Callers -> SUBSET Uploads]
    BY <1>3 DEF ExtractDone, TypeOK
  <2>2. UNCHANGED <<mode, input, phase, answers, logs, output, transports, logFile,
                    data, license, emitted, served>>
    BY <1>3 DEF ExtractDone
  <2> QED BY <2>1, <2>2 DEF TypeOK
<1>4. ASSUME NEW r \in Callers, NEW u \in Uploads, ExtractFails(r, u) PROVE TypeOK'
  <2>1. PICK lines : By(r, lines) /\ Log(lines)
    BY <1>4, ExtractFailsLogs, Zenon
  <2>2. emitted' \in Seq(Line) /\ output' \in Seq(Line)
        /\ logFile' \in [LogFiles -> SUBSET Line]
    BY <2>1, LogLines, ZenonT(60)
  <2>3. pending' \in [Callers -> SUBSET Uploads]
    BY <1>4 DEF ExtractFails, TypeOK
  <2>4. Rejected(r) \/ UNCHANGED <<phase, answers>>
    BY <1>4, Zenon DEF ExtractFails
  <2>5. answers' \in [Callers -> Seq({"201", "400"})]
    BY <2>4, AnswerTypes DEF Rejected, TypeOK
  <2>6. phase' \in [Callers -> {"idle", "extracting", "awaiting", "answered"}]
    BY <2>4 DEF Rejected, TypeOK
  <2>7. UNCHANGED <<mode, input, logs, data, license, served, transports>>
    BY <1>4 DEF ExtractFails
  <2> QED BY <2>2, <2>3, <2>5, <2>6, <2>7 DEF TypeOK
<1>5. ASSUME NEW r \in Callers, RunMain(r) PROVE TypeOK'
  <2>1. PICK lines : By(r, lines) /\ Log(lines)
    BY <1>5, RunMainLogs, Zenon
  <2>2. emitted' \in Seq(Line) /\ output' \in Seq(Line)
        /\ logFile' \in [LogFiles -> SUBSET Line]
    BY <2>1, LogLines, ZenonT(60)
  <2>3. data' \in {"none", Cli}
    BY <1>5 DEF RunMain, TypeOK
  <2>4. license' \in [Callers -> {"unread", "none", Cli}]
    BY <1>5, <2>3 DEF RunMain, TypeOK
  <2>5. input[r].log \in LogFiles \cup {NoFile}
    BY InputParts DEF TypeOK
  <2>6. transports' \subseteq LogFiles
    BY <1>5, <2>5 DEF RunMain, Configure, TypeOK
  <2>7. Rejected(r) \/ (phase' = [phase EXCEPT ![r] = "awaiting"] /\ UNCHANGED answers)
    BY <1>5, Zenon DEF RunMain
  <2>8. answers' \in [Callers -> Seq({"201", "400"})]
    BY <2>7, AnswerTypes DEF Rejected, TypeOK
  <2>9. phase' \in [Callers -> {"idle", "extracting", "awaiting", "answered"}]
    BY <2>7 DEF Rejected, TypeOK
  <2>10. UNCHANGED <<mode, input, pending, logs, served>>
    BY <1>5 DEF RunMain
  <2> QED BY <2>2, <2>3, <2>4, <2>6, <2>8, <2>9, <2>10 DEF TypeOK
<1>6. ASSUME NEW r \in Callers, Finish(r) PROVE TypeOK'
  <2>1. /\ emitted' \in Seq(Line) /\ output' = << >>
        /\ logFile' \in [LogFiles -> SUBSET Line]
        /\ output \o <<Summary(r)>> \in Seq(Line)
    BY <1>6, FinishLines, ZenonT(60)
  <2>2. output' \in Seq(Line)
    BY <2>1
  <2> DEFINE got == output \o <<Summary(r)>>
  <2>3. logs' = [logs EXCEPT ![r] = got] /\ got \in Seq(Line)
    BY <1>6, <2>1, Zenon DEF Finish, Memory
  <2> HIDE DEF got
  <2>4. logs' \in [Callers -> Seq(Line)]
    BY <2>3 DEF TypeOK
  <2>5. served' = Append(served, r) /\ served \in Seq(Callers)
    BY <1>6, Zenon DEF Finish, Memory, TypeOK
  <2>6. served' \in Seq(Callers)
    BY <2>5, AppendOne, ZenonT(60)
  <2>7. answers' \in [Callers -> Seq({"201", "400"})]
    BY <1>6, AnswerTypes DEF Finish, TypeOK
  <2>8. phase' \in [Callers -> {"idle", "extracting", "awaiting", "answered"}]
    BY <1>6 DEF Finish, TypeOK
  <2>9. UNCHANGED <<mode, input, pending, data, license, transports>>
    BY <1>6 DEF Finish
  <2> QED BY <2>1, <2>2, <2>4, <2>6, <2>7, <2>8, <2>9 DEF TypeOK
<1>7. CASE UNCHANGED vars
  BY <1>7 DEF vars, TypeOK
<1> QED BY <1>1, <1>2, <1>3, <1>4, <1>5, <1>6, <1>7, Zenon DEF Next, Progress
-----------------------------------------------------------------------------
(* Stages.                                                                 *)
LEMMA FirstAnswer ==
  ASSUME NEW a
  PROVE  Len(Append(<< >>, a)) = 1
OBVIOUS

LEMMA OnlyAnswer ==
  ASSUME TypeOK, AnswerOfPhase, NEW r \in Callers, NEW a, phase[r] # "answered",
         phase' = [phase EXCEPT ![r] = "answered"],
         answers' = [answers EXCEPT ![r] = Append(@, a)]
  PROVE  AnswerOfPhase'
<1>1. answers[r] = << >>
  BY DEF AnswerOfPhase
<1>2. answers'[r] = Append(<< >>, a)
  BY <1>1 DEF TypeOK
<1>3. Len(answers'[r]) = 1
  BY <1>2, FirstAnswer, Zenon
<1>4. \A s \in Callers : s # r => answers'[s] = answers[s] /\ phase'[s] = phase[s]
  BY DEF TypeOK
<1>5. phase'[r] = "answered"
  BY DEF TypeOK
<1>6. ASSUME NEW s \in Callers, s # r
      PROVE  /\ phase'[s] # "answered" => answers'[s] = << >>
             /\ phase'[s] = "answered" => Len(answers'[s]) = 1
  BY <1>4, <1>6, Zenon DEF AnswerOfPhase
<1> QED BY <1>3, <1>5, <1>6, Zenon DEF AnswerOfPhase

LEMMA SameAnswers ==
  ASSUME TypeOK, AnswerOfPhase, NEW r \in Callers, NEW p, phase[r] # "answered",
         p # "answered", phase' = [phase EXCEPT ![r] = p], answers' = answers
  PROVE  AnswerOfPhase'
<1>1. answers[r] = << >>
  BY DEF AnswerOfPhase
<1>2. \A s \in Callers : s # r => phase'[s] = phase[s]
  BY DEF TypeOK
<1>3. phase'[r] # "answered"
  BY DEF TypeOK
<1> QED BY <1>1, <1>2, <1>3, Zenon DEF AnswerOfPhase

LEMMA StagesInit == Init => Stages
<1> SUFFICES ASSUME Init PROVE Stages
  OBVIOUS
<1>1. AnswerOfPhase /\ RanOfPhase
  BY DEF Init, AnswerOfPhase, RanOfPhase, Ran
<1>2. DOMAIN served = {}
  BY DEF Init
<1> QED BY <1>1, <1>2 DEF Stages, ServedAreOver

LEMMA StagesStep == TypeOK /\ TypeOK' /\ Stages /\ [Next]_vars => Stages'
<1> SUFFICES ASSUME TypeOK, TypeOK', Stages, [Next]_vars PROVE Stages'
  OBVIOUS
<1> USE DEF Ran
<1>0. /\ AnswerOfPhase /\ RanOfPhase /\ ServedAreOver
      /\ DOMAIN served = 1..Len(served) /\ \A k \in 1..Len(served) : served[k] \in Callers
  BY DEF Stages, TypeOK
<1>1. CASE CliStart
  <2>1. phase[Cli] = "idle" /\ Cli \in Callers /\ UNCHANGED <<answers, license, served>>
        /\ phase' = [phase EXCEPT ![Cli] = "extracting"]
        /\ \A s \in Callers : s # Cli => pending'[s] = pending[s]
    BY <1>1 DEF CliStart, Callers, TypeOK
  <2>2. AnswerOfPhase'
    BY <1>0, <2>1, SameAnswers
  <2>3. RanOfPhase'
    BY <1>0, <2>1 DEF RanOfPhase, TypeOK
  <2>4. ServedAreOver'
    BY <1>0, <2>1 DEF ServedAreOver, TypeOK
  <2> QED BY <2>2, <2>3, <2>4 DEF Stages
<1>2. ASSUME NEW r \in Requests, Receive(r) PROVE Stages'
  <2>1. phase[r] = "idle" /\ r \in Callers /\ UNCHANGED <<answers, license, served>>
        /\ phase' = [phase EXCEPT ![r] = "extracting"]
        /\ \A s \in Callers : s # r => pending'[s] = pending[s]
    BY <1>2 DEF Receive, Callers, TypeOK
  <2>2. AnswerOfPhase'
    BY <1>0, <2>1, SameAnswers
  <2>3. RanOfPhase'
    BY <1>0, <2>1 DEF RanOfPhase, TypeOK
  <2>4. ServedAreOver'
    BY <1>0, <2>1 DEF ServedAreOver, TypeOK
  <2> QED BY <2>2, <2>3, <2>4 DEF Stages
<1>3. ASSUME NEW r \in Callers, NEW u \in Uploads, ExtractDone(r, u) PROVE Stages'
  <2>1. UNCHANGED <<phase, answers, license, served>>
        /\ \A s \in Callers : pending'[s] \subseteq pending[s]
    BY <1>3 DEF ExtractDone, TypeOK
  <2>2. RanOfPhase'
    BY <1>0, <2>1 DEF RanOfPhase
  <2>3. AnswerOfPhase' /\ ServedAreOver'
    BY <1>0, <2>1 DEF AnswerOfPhase, ServedAreOver
  <2> QED BY <2>2, <2>3 DEF Stages
<1>4. ASSUME NEW r \in Callers, NEW u \in Uploads, ExtractFails(r, u) PROVE Stages'
  <2>1. /\ UNCHANGED <<license, served>> /\ u \in pending[r]
        /\ \A s \in Callers : pending'[s] \subseteq pending[s]
    BY <1>4 DEF ExtractFails, TypeOK
  <2>2. (phase[r] = "extracting" /\ Rejected(r)) \/ UNCHANGED <<phase, answers>>
    BY <1>4, Zenon DEF ExtractFails, IsUnsettled
  <2>3. CASE phase[r] = "extracting" /\ Rejected(r)
    <3>1. /\ phase' = [phase EXCEPT ![r] = "answered"]
          /\ answers' = [answers EXCEPT ![r] = Append(@, "400")]
      BY <2>3 DEF Rejected
    <3>2. AnswerOfPhase'
      BY <1>0, <2>3, <3>1, OnlyAnswer
    <3>3. RanOfPhase'
      BY <1>0, <2>1, <2>3, <3>1 DEF RanOfPhase, TypeOK
    <3>4. ServedAreOver'
      BY <1>0, <2>1, <2>3, <3>1 DEF ServedAreOver, TypeOK
    <3> QED BY <3>2, <3>3, <3>4 DEF Stages
  <2>4. CASE UNCHANGED <<phase, answers>>
    <3>1. RanOfPhase'
      BY <1>0, <2>1, <2>4 DEF RanOfPhase
    <3>2. AnswerOfPhase' /\ ServedAreOver'
      BY <1>0, <2>1, <2>4 DEF AnswerOfPhase, ServedAreOver
    <3> QED BY <3>1, <3>2 DEF Stages
  <2> QED BY <2>2, <2>3, <2>4
<1>5. ASSUME NEW r \in Callers, RunMain(r) PROVE Stages'
  <2>1. /\ UNCHANGED <<pending, served>> /\ phase[r] = "extracting" /\ pending[r] = {}
        /\ license' = [license EXCEPT ![r] = data']
    BY <1>5 DEF RunMain
  <2>2. data' # "unread"
    <3>1. data' \in {"none", Cli}
      BY DEF TypeOK
    <3>2. "unread" \notin {Cli, "none"}
      BY CallersAssumption
    <3> QED BY <3>1, <3>2
  <2>3. Rejected(r) \/ (phase' = [phase EXCEPT ![r] = "awaiting"] /\ UNCHANGED answers)
    BY <1>5, Zenon DEF RunMain
  <2>4. AnswerOfPhase'
    <3>1. CASE Rejected(r)
      BY <1>0, <2>1, <3>1, OnlyAnswer DEF Rejected
    <3>2. CASE phase' = [phase EXCEPT ![r] = "awaiting"] /\ UNCHANGED answers
      BY <1>0, <2>1, <3>2, SameAnswers
    <3> QED BY <2>3, <3>1, <3>2
  <2>5. phase'[r] \in {"awaiting", "answered"}
        /\ \A s \in Callers : s # r => phase'[s] = phase[s]
    BY <2>3 DEF Rejected, TypeOK
  <2>6. RanOfPhase'
    BY <1>0, <2>1, <2>2, <2>5 DEF RanOfPhase, TypeOK
  <2>7. ServedAreOver'
    BY <1>0, <2>1, <2>2, <2>5 DEF ServedAreOver, TypeOK
  <2> QED BY <2>4, <2>6, <2>7 DEF Stages
<1>6. ASSUME NEW r \in Callers, Finish(r) PROVE Stages'
  <2>1. /\ UNCHANGED <<pending, license>> /\ phase[r] = "awaiting"
        /\ phase' = [phase EXCEPT ![r] = "answered"]
        /\ answers' = [answers EXCEPT ![r] = Append(@, "201")]
    BY <1>6 DEF Finish
  <2>2. AnswerOfPhase'
    BY <1>0, <2>1, OnlyAnswer
  <2>3. RanOfPhase'
    BY <1>0, <2>1 DEF RanOfPhase, TypeOK
  <2>4. served' = Append(served, r) /\ served \in Seq(Callers)
    BY <1>6, Zenon DEF Finish, Memory, TypeOK
  <2>5. /\ DOMAIN served' = 1..Len(served) + 1
        /\ served'[Len(served) + 1] = r
        /\ \A k \in 1..Len(served) : served'[k] = served[k]
    <3>1. served' = Append(served, r) /\ served \in Seq(Callers)
      BY <2>4
    <3>2. DOMAIN Append(served, r) = 1..Len(served) + 1
      BY <3>1, AppendOne, ZenonT(40)
    <3>3. Append(served, r)[Len(served) + 1] = r
      BY <3>1, AppendLast, ZenonT(40)
    <3>4. \A k \in 1..Len(served) : Append(served, r)[k] = served[k]
      BY <3>1, AppendElement, ZenonT(40)
    <3> QED BY <3>1, <3>2, <3>3, <3>4, ZenonT(40)
  <2>6. Ran(r)' /\ phase'[r] = "answered"
    BY <1>0, <2>1 DEF RanOfPhase, TypeOK
  <2>7. \A k \in 1..Len(served) : Ran(served[k]) /\ phase[served[k]] = "answered"
    BY <1>0 DEF ServedAreOver
  <2>8. ASSUME NEW k \in 1..Len(served) + 1
        PROVE  license'[served'[k]] # "unread" /\ phase'[served'[k]] = "answered"
    <3>1. CASE k = Len(served) + 1
      BY <2>5, <2>6, <3>1
    <3>2. CASE k # Len(served) + 1
      <4>1. k \in 1..Len(served) /\ served'[k] = served[k]
        BY <2>4, <2>5, <3>2
      <4> QED BY <1>0, <2>1, <2>7, <4>1 DEF TypeOK
    <3> QED BY <3>1, <3>2
  <2>9. ServedAreOver'
    BY <2>5, <2>8, Zenon DEF ServedAreOver
  <2> QED BY <2>2, <2>3, <2>9 DEF Stages
<1>7. CASE UNCHANGED vars
  BY <1>7 DEF vars, Stages, AnswerOfPhase, RanOfPhase, ServedAreOver
<1> QED BY <1>1, <1>2, <1>3, <1>4, <1>5, <1>6, <1>7, Zenon DEF Next, Progress
-----------------------------------------------------------------------------
(* Served conversions leave nothing behind.                                *)
LEMMA LeavesInit == Init => ServedLeavesNothing
<1> SUFFICES ASSUME Init PROVE ServedLeavesNothing
  OBVIOUS
<1>1. DOMAIN served = {}
  BY DEF Init
<1> QED BY <1>1 DEF ServedLeavesNothing

(* More lines of a conversion that is not over.                            *)
LEMMA LeavesMore ==
  ASSUME ServedLeavesNothing, ServedAreOver, NEW r \in Callers,
         phase[r] # "answered" \/ ~Ran(r), UNCHANGED <<logs, served>>,
         \A l \in ToSet(output') : l \in ToSet(output) \/ l.by = r
  PROVE  ServedLeavesNothing'
<1>1. \A k \in DOMAIN served : served[k] # r
  BY DEF ServedAreOver
<1>2. ASSUME NEW k \in DOMAIN served, NEW l \in ToSet(output')
      PROVE  l.by # served[k]
  BY <1>1, <1>2, Zenon DEF ServedLeavesNothing
<1> QED BY <1>2 DEF ServedLeavesNothing

LEMMA LeavesStep ==
  TypeOK /\ Stages /\ ServedLeavesNothing /\ [Next]_vars => ServedLeavesNothing'
<1> SUFFICES ASSUME TypeOK, Stages, ServedLeavesNothing, [Next]_vars
             PROVE  ServedLeavesNothing'
  OBVIOUS
<1>0. AnswerOfPhase /\ RanOfPhase /\ ServedAreOver
  BY DEF Stages
<1>1. CASE CliStart \/ (\E r \in Requests : Receive(r))
           \/ (\E r \in Callers, u \in Uploads : ExtractDone(r, u)) \/ UNCHANGED vars
  <2>1. UNCHANGED <<logs, output, served>>
    BY <1>1 DEF CliStart, Receive, ExtractDone, vars
  <2> QED BY <2>1 DEF ServedLeavesNothing
<1>2. ASSUME NEW r \in Callers, NEW u \in Uploads, ExtractFails(r, u)
      PROVE  ServedLeavesNothing'
  <2>1. PICK lines : By(r, lines) /\ Log(lines)
    BY <1>2, ExtractFailsLogs, Zenon
  <2>2. ToSet(output') = ToSet(output) \cup ToSet(lines)
    BY <2>1, LogLines, ZenonT(60)
  <2>3. \A l \in ToSet(output') : l \in ToSet(output) \/ l.by = r
    BY <2>1, <2>2, Zenon DEF By
  <2>4. UNCHANGED <<logs, served>> /\ u \in pending[r]
    BY <1>2 DEF ExtractFails
  <2>5. ~Ran(r)
    BY <1>0, <2>4 DEF RanOfPhase
  <2> QED BY <1>0, <2>3, <2>4, <2>5, LeavesMore
<1>3. ASSUME NEW r \in Callers, RunMain(r) PROVE ServedLeavesNothing'
  <2>1. PICK lines : By(r, lines) /\ Log(lines)
    BY <1>3, RunMainLogs, Zenon
  <2>2. ToSet(output') = ToSet(output) \cup ToSet(lines)
    BY <2>1, LogLines, ZenonT(60)
  <2>3. \A l \in ToSet(output') : l \in ToSet(output) \/ l.by = r
    BY <2>1, <2>2, Zenon DEF By
  <2>4. UNCHANGED <<logs, served>> /\ phase[r] # "answered"
    BY <1>3 DEF RunMain
  <2> QED BY <1>0, <2>3, <2>4, LeavesMore
<1>4. ASSUME NEW r \in Callers, Finish(r) PROVE ServedLeavesNothing'
  <2> DEFINE got == output \o <<Summary(r)>>
             n == Len(served) + 1
  <2>1. output' = << >> /\ got \in Seq(Line) /\ ToSet(got) = ToSet(output) \cup {Summary(r)}
    BY <1>4, FinishLines, ZenonT(60)
  <2>2. /\ logs' = [logs EXCEPT ![r] = got] /\ phase[r] = "awaiting"
        /\ served' = Append(served, r)
    BY <1>4, Zenon DEF Finish, Memory
  <2> HIDE DEF got
  <2>3. /\ served \in Seq(Callers) /\ DOMAIN served = 1..Len(served)
        /\ Len(served) \in Nat
        /\ \A k \in 1..Len(served) : served[k] \in Callers
    BY DEF TypeOK
  <2>4. /\ DOMAIN served' = 1..n
        /\ served'[n] = r
        /\ \A k \in 1..Len(served) : served'[k] = served[k]
    <3>1. served' = Append(served, r) /\ served \in Seq(Callers)
      BY <2>2, <2>3
    <3>2. DOMAIN Append(served, r) = 1..Len(served) + 1
      BY <3>1, AppendOne, ZenonT(40)
    <3>3. Append(served, r)[Len(served) + 1] = r
      BY <3>1, AppendLast, ZenonT(40)
    <3>4. \A k \in 1..Len(served) : Append(served, r)[k] = served[k]
      BY <3>1, AppendElement, ZenonT(40)
    <3> QED BY <3>1, <3>2, <3>3, <3>4, ZenonT(40)
  <2>5. Len(served') = n
    <3>1. served' \in Seq(Callers)
      BY <2>2, <2>3, AppendOne, ZenonT(60)
    <3>2. Len(served') \in Nat /\ DOMAIN served' = 1..Len(served')
      BY <3>1
    <3> QED BY <2>3, <2>4, <3>2
  <2>6. ToSet(output') = {}
    BY <2>1, ToSetSmall, ZenonT(60)
  <2>7. \A k \in 1..Len(served) : served[k] # r
    BY <1>0, <2>2, <2>3 DEF ServedAreOver
  <2>8. \A k \in 1..Len(served) : k \in 1..n /\ served'[k] = served[k]
                                 /\ logs'[served'[k]] = logs[served[k]]
    BY <2>2, <2>3, <2>4, <2>7 DEF TypeOK
  <2>9. served'[n] = r /\ logs'[r] = got /\ n \in 1..n
    BY <2>2, <2>3, <2>4 DEF TypeOK
  <2>10. \E m \in DOMAIN got : got[m] = Summary(r)
    <3>1. Summary(r) \in ToSet(got)
      BY <2>1
    <3> QED BY <3>1 DEF ToSet
  <2>11. \A k \in 1..Len(served) : \A l \in ToSet(got) : l.by # served[k]
    <3>1. Summary(r).by = r
      BY DEF Summary
    <3>2. \A k \in 1..Len(served) : \A l \in ToSet(output) : l.by # served[k]
      BY <2>3 DEF ServedLeavesNothing
    <3> QED BY <2>1, <2>7, <3>1, <3>2
  <2>12. ASSUME NEW k \in 1..n
         PROVE  \E m \in DOMAIN logs'[served'[k]] :
                    logs'[served'[k]][m] = Summary(served'[k])
    <3>1. CASE k = n
      BY <2>9, <2>10, <3>1
    <3>2. CASE k # n
      <4>1. k \in 1..Len(served)
        BY <2>3, <3>2
      <4>2. \E m \in DOMAIN logs[served[k]] : logs[served[k]][m] = Summary(served[k])
        BY <2>3, <4>1 DEF ServedLeavesNothing
      <4> QED BY <2>8, <4>1, <4>2
    <3> QED BY <3>1, <3>2
  <2>13. ASSUME NEW k \in 1..n, NEW m \in k + 1 .. n
         PROVE  \A l \in ToSet(logs'[served'[m]]) : l.by # served'[k]
    <3>1. k \in 1..Len(served)
      BY <2>3
    <3>2. CASE m = n
      BY <2>8, <2>9, <2>11, <3>1, <3>2
    <3>3. CASE m # n
      <4>1. m \in 1..Len(served) /\ m \in k + 1 .. Len(served)
        BY <2>3, <3>3
      <4>2. \A l \in ToSet(logs[served[m]]) : l.by # served[k]
        BY <2>3, <3>1, <4>1 DEF ServedLeavesNothing
      <4> QED BY <2>8, <3>1, <4>1, <4>2
    <3> QED BY <3>2, <3>3
  <2>14. \A k \in 1..n : \A l \in ToSet(output') : l.by # served'[k]
    BY <2>6
  <2>15. \A k \in 1..n :
            /\ \E m \in DOMAIN logs'[served'[k]] :
                   logs'[served'[k]][m] = Summary(served'[k])
            /\ \A l \in ToSet(output') : l.by # served'[k]
            /\ \A m \in k + 1 .. n :
                   \A l \in ToSet(logs'[served'[m]]) : l.by # served'[k]
    BY <2>12, <2>13, <2>14, Zenon
  <2> HIDE DEF n
  <2> QED BY <2>4, <2>5, <2>15, Zenon DEF ServedLeavesNothing, Summary
<1> QED BY <1>1, <1>2, <1>3, <1>4, Zenon DEF Next, Progress
-----------------------------------------------------------------------------
(* Log files.                                                              *)
LEMMA LogFileInit == Init => Configured /\ InLogFile
<1> SUFFICES ASSUME Init PROVE Configured /\ InLogFile
  OBVIOUS
<1>1. Configured
  BY DEF Init, Configured, Ran
<1>2. \A r \in Callers : \A l \in ToSet(emitted) : ~Own(l, r)
  <2>1. CASE emitted = << >>
    <3>1. ToSet(emitted) = {}
      BY <2>1, ToSetSmall, ZenonT(60)
    <3> QED BY <3>1
  <2>2. CASE emitted = <<Listening>>
    <3>1. ToSet(emitted) = {Listening}
      BY <2>2, ToSetSmall, ZenonT(60)
    <3>2. \A r \in Callers : ~Own(Listening, r)
      BY DEF Own, Listening
    <3> QED BY <3>1, <3>2
  <2> QED BY <2>1, <2>2 DEF Init
<1> QED BY <1>1, <1>2 DEF InLogFile

(* The file a conversion asked for stays open.                             *)
LEMMA ConfiguredStep ==
  TypeOK /\ Stages /\ Configured /\ [Next]_vars => Configured'
<1> SUFFICES ASSUME TypeOK, Stages, Configured, [Next]_vars PROVE Configured'
  OBVIOUS
<1> USE DEF Ran
<1>0. RanOfPhase
  BY DEF Stages
<1>1. CASE CliStart
  <2>1. PICK in \in Input : /\ input' = [input EXCEPT ![Cli] = in]
                           /\ Configure(in.log)
    BY <1>1 DEF CliStart
  <2>2. Cli \in Callers /\ UNCHANGED license /\ input'[Cli] = in
        /\ \A s \in Callers : s # Cli => input'[s] = input[s]
    BY <1>1, <2>1 DEF CliStart, Callers, TypeOK
  <2>3. transports' = transports \cup ({in.log} \ {NoFile})
    BY <2>1 DEF Configure
  <2> QED BY <2>2, <2>3 DEF Configured
<1>2. ASSUME NEW r \in Requests, Receive(r) PROVE Configured'
  <2>1. r \in Callers /\ r # Cli /\ phase[r] = "idle"
    BY <1>2, CallersAssumption DEF Receive, Callers
  <2>2. /\ UNCHANGED <<license, transports>>
        /\ \A s \in Callers : s # r => input'[s] = input[s] /\ phase'[s] = phase[s]
    BY <1>2, <2>1 DEF Receive, TypeOK
  <2> QED BY <1>0, <2>1, <2>2 DEF Configured, RanOfPhase
<1>3. ASSUME NEW r \in Callers, NEW u \in Uploads, ExtractDone(r, u) PROVE Configured'
  <2>1. UNCHANGED <<license, transports, input, phase>>
    BY <1>3 DEF ExtractDone
  <2> QED BY <2>1 DEF Configured
<1>4. ASSUME NEW r \in Callers, NEW u \in Uploads, ExtractFails(r, u) PROVE Configured'
  <2>1. UNCHANGED <<license, transports, input>>
    BY <1>4 DEF ExtractFails
  <2>2. (phase[r] = "extracting" /\ Rejected(r)) \/ UNCHANGED phase
    BY <1>4, Zenon DEF ExtractFails, IsUnsettled
  <2>3. \A s \in Callers : phase'[s] # "idle" => phase[s] # "idle"
    BY <2>2 DEF Rejected, TypeOK
  <2> QED BY <2>1, <2>3 DEF Configured
<1>5. ASSUME NEW r \in Callers, RunMain(r) PROVE Configured'
  <2>1. /\ UNCHANGED input /\ phase[r] = "extracting"
        /\ license' = [license EXCEPT ![r] = data']
        /\ IF r = Cli THEN UNCHANGED transports ELSE Configure(input[r].log)
    BY <1>5 DEF RunMain
  <2>2. Rejected(r) \/ phase' = [phase EXCEPT ![r] = "awaiting"]
    BY <1>5, Zenon DEF RunMain
  <2>3. \A s \in Callers : s # r => license'[s] = license[s] /\ phase'[s] = phase[s]
    BY <2>1, <2>2 DEF Rejected, TypeOK
  <2>4. transports \subseteq transports'
    BY <2>1 DEF Configure
  <2>5. input[r].log # NoFile => input[r].log \in transports'
    BY <2>1 DEF Configured, Configure
  <2> QED BY <2>1, <2>3, <2>4, <2>5 DEF Configured
<1>6. ASSUME NEW r \in Callers, Finish(r) PROVE Configured'
  <2>1. /\ UNCHANGED <<license, transports, input>> /\ phase[r] = "awaiting"
        /\ \A s \in Callers : s # r => phase'[s] = phase[s]
    BY <1>6 DEF Finish, TypeOK
  <2>2. \A s \in Callers : phase'[s] # "idle" => phase[s] # "idle"
    BY <2>1
  <2> QED BY <2>1, <2>2 DEF Configured
<1>7. CASE UNCHANGED vars
  BY <1>7 DEF vars, Configured
<1> QED BY <1>1, <1>2, <1>3, <1>4, <1>5, <1>6, <1>7, Zenon DEF Next, Progress

(* More lines that have nothing of a conversion's own but of those that    *)
(* wrote them.                                                             *)
LEMMA InLogFileMore ==
  ASSUME InLogFile, TypeOK,
         \A r \in Callers : Ran(r) => Ran(r)' /\ input'[r] = input[r],
         \A f \in LogFiles : logFile[f] \subseteq logFile'[f],
         \A r \in Callers : \A l \in ToSet(emitted') :
            l \notin ToSet(emitted) /\ Own(l, r) =>
               Ran(r)' /\ (input'[r].log # NoFile => l \in logFile'[input'[r].log])
  PROVE  InLogFile'
<1> SUFFICES ASSUME NEW r \in Callers, NEW l \in ToSet(emitted'), Own(l, r)
             PROVE  Ran(r)' /\ (input'[r].log # NoFile => l \in logFile'[input'[r].log])
  BY DEF InLogFile, Own
<1>1. CASE l \notin ToSet(emitted)
  BY <1>1
<1>2. CASE l \in ToSet(emitted)
  <2>1. Ran(r) /\ (input[r].log # NoFile => l \in logFile[input[r].log])
    BY <1>2 DEF InLogFile
  <2>2. input[r].log \in LogFiles \cup {NoFile}
    BY InputParts DEF TypeOK
  <2> QED BY <2>1, <2>2
<1> QED BY <1>1, <1>2

LEMMA InLogFileStep ==
  TypeOK /\ TypeOK' /\ Stages /\ Configured /\ Configured' /\ InLogFile /\ [Next]_vars
     => InLogFile'
<1> SUFFICES ASSUME TypeOK, TypeOK', Stages, Configured, Configured', InLogFile,
                    [Next]_vars
             PROVE  InLogFile'
  OBVIOUS
<1>0. RanOfPhase
  BY DEF Stages
<1>1. CASE CliStart
  <2>1. UNCHANGED <<license, logFile, emitted>> /\ phase[Cli] = "idle" /\ Cli \in Callers
        /\ \A s \in Callers : s # Cli => input'[s] = input[s]
    BY <1>1 DEF CliStart, Callers, TypeOK
  <2> QED BY <1>0, <2>1, InLogFileMore DEF RanOfPhase, Ran
<1>2. ASSUME NEW r \in Requests, Receive(r) PROVE InLogFile'
  <2>1. UNCHANGED <<license, logFile, emitted>> /\ phase[r] = "idle" /\ r \in Callers
        /\ \A s \in Callers : s # r => input'[s] = input[s]
    BY <1>2 DEF Receive, Callers, TypeOK
  <2> QED BY <1>0, <2>1, InLogFileMore DEF RanOfPhase, Ran
<1>3. ASSUME NEW r \in Callers, NEW u \in Uploads, ExtractDone(r, u) PROVE InLogFile'
  <2>1. UNCHANGED <<license, logFile, emitted, input>>
    BY <1>3 DEF ExtractDone
  <2> QED BY <2>1 DEF InLogFile, Ran
<1>4. ASSUME NEW r \in Callers, NEW u \in Uploads, ExtractFails(r, u) PROVE InLogFile'
  <2>1. PICK lines : /\ By(r, lines) /\ Log(lines)
                     /\ \A l \in ToSet(lines) : l.what \in {"extract", "error"}
    BY <1>4, ExtractFailsLogs, Zenon
  <2>2. /\ ToSet(emitted') = ToSet(emitted) \cup ToSet(lines)
        /\ \A f \in LogFiles : logFile[f] \subseteq logFile'[f]
    BY <2>1, LogLines, ZenonT(60)
  <2>3. UNCHANGED <<license, input>>
    BY <1>4 DEF ExtractFails
  <2>4. \A s \in Callers : \A l \in ToSet(lines) : ~Own(l, s)
    BY <2>1 DEF Own
  <2>5. \A s \in Callers : Ran(s) => Ran(s)' /\ input'[s] = input[s]
    BY <2>3 DEF Ran
  <2>6. \A s \in Callers : \A l \in ToSet(emitted') : l \notin ToSet(emitted) => ~Own(l, s)
    BY <2>2, <2>4
  <2> QED BY <2>2, <2>5, <2>6, InLogFileMore
<1>5. ASSUME NEW r \in Callers, RunMain(r) PROVE InLogFile'
  <2>1. PICK lines : /\ By(r, lines) /\ Log(lines)
                     /\ \A l \in ToSet(lines) : l.what \in {"warning", "error"}
    BY <1>5, RunMainLogs, Zenon
  <2>2. /\ ToSet(emitted') = ToSet(emitted) \cup ToSet(lines)
        /\ \A f \in LogFiles : logFile[f] \subseteq logFile'[f]
        /\ \A f \in LogFiles \cap transports' : ToSet(lines) \subseteq logFile'[f]
    BY <2>1, LogLines, ZenonT(60)
  <2>3. /\ UNCHANGED input /\ phase[r] = "extracting"
        /\ license' = [license EXCEPT ![r] = data']
    BY <1>5 DEF RunMain
  <2>4. data' # "unread"
    <3>1. data' \in {"none", Cli}
      BY DEF TypeOK
    <3>2. "unread" \notin {Cli, "none"}
      BY CallersAssumption
    <3> QED BY <3>1, <3>2
  <2>5. Ran(r)' /\ \A s \in Callers : Ran(s) => Ran(s)' /\ input'[s] = input[s]
    BY <2>3, <2>4 DEF Ran, TypeOK
  <2>6. input[r].log \in LogFiles \cup {NoFile}
    BY InputParts DEF TypeOK
  <2>7. input[r].log # NoFile => input[r].log \in transports'
    BY <2>3, <2>5 DEF Configured, Ran
  <2>8. \A s \in Callers : \A l \in ToSet(lines) : Own(l, s) => s = r
    BY <2>1 DEF By, Own
  <2>9. \A s \in Callers : \A l \in ToSet(emitted') :
            l \notin ToSet(emitted) /\ Own(l, s) =>
               Ran(s)' /\ (input'[s].log # NoFile => l \in logFile'[input'[s].log])
    BY <2>2, <2>3, <2>5, <2>6, <2>7, <2>8
  <2> QED BY <2>2, <2>5, <2>9, InLogFileMore
<1>6. ASSUME NEW r \in Callers, Finish(r) PROVE InLogFile'
  <2>1. /\ ToSet(emitted') = ToSet(emitted) \cup {Summary(r)}
        /\ \A f \in LogFiles : logFile[f] \subseteq logFile'[f]
        /\ \A f \in LogFiles \cap transports' : Summary(r) \in logFile'[f]
    BY <1>6, FinishLines, ZenonT(60)
  <2>2. UNCHANGED <<license, input>> /\ phase[r] = "awaiting"
    BY <1>6 DEF Finish
  <2>3. Ran(r)
    BY <1>0, <2>2 DEF RanOfPhase
  <2>4. \A s \in Callers : Ran(s) => Ran(s)' /\ input'[s] = input[s]
    BY <2>2 DEF Ran
  <2>5. input[r].log \in LogFiles \cup {NoFile}
    BY InputParts DEF TypeOK
  <2>6. input[r].log # NoFile => input[r].log \in transports'
    BY <2>2, <2>3 DEF Configured, Ran
  <2>7. \A s \in Callers : Own(Summary(r), s) => s = r
    BY DEF Own, Summary
  <2>8. \A s \in Callers : \A l \in ToSet(emitted') :
            l \notin ToSet(emitted) /\ Own(l, s) =>
               Ran(s)' /\ (input'[s].log # NoFile => l \in logFile'[input'[s].log])
    BY <2>1, <2>2, <2>3, <2>4, <2>5, <2>6, <2>7
  <2> QED BY <2>1, <2>4, <2>8, InLogFileMore
<1>7. CASE UNCHANGED vars
  BY <1>7 DEF vars, InLogFile, Ran
<1> QED BY <1>1, <1>2, <1>3, <1>4, <1>5, <1>6, <1>7, Zenon DEF Next, Progress
-----------------------------------------------------------------------------
(* What a step preserves, all of it together.                              *)
LEMMA Invariant == Spec => []IInv
<1>1. Init => IInv
  BY TypeInit, StagesInit, LeavesInit, LogFileInit DEF IInv
<1>2. IInv /\ [Next]_vars => IInv'
  <2> SUFFICES ASSUME IInv, [Next]_vars PROVE IInv'
    OBVIOUS
  <2>1. TypeOK /\ Stages /\ ServedLeavesNothing /\ Configured /\ InLogFile
    BY DEF IInv
  <2>2. TypeOK'
    BY <2>1, TypeStep
  <2>3. Configured'
    BY <2>1, ConfiguredStep
  <2>4. Stages'
    BY <2>1, <2>2, StagesStep
  <2>5. ServedLeavesNothing'
    BY <2>1, LeavesStep
  <2>6. InLogFile'
    BY <2>1, <2>2, <2>3, InLogFileStep
  <2> QED BY <2>2, <2>3, <2>4, <2>5, <2>6 DEF IInv
<1> QED BY <1>1, <1>2, PTL DEF Spec

(* The process is always in a state of the declared types.                 *)
THEOREM TypeCorrect == Spec => []TypeOK
BY Invariant, PTL DEF IInv

(* However many uploads of a request fail and however late, it is answered *)
(* at most once (server.js 66-100).                                        *)
THEOREM AtMostOneAnswer == Spec => []AnsweredOnce
<1>1. IInv => AnsweredOnce
  <2> SUFFICES ASSUME IInv, NEW r \in Callers PROVE Len(answers[r]) <= 1
    BY DEF AnsweredOnce
  <2>1. CASE phase[r] = "answered"
    <3>1. Len(answers[r]) = 1
      BY <2>1, Zenon DEF IInv, Stages, AnswerOfPhase
    <3> QED BY <3>1
  <2>2. CASE phase[r] # "answered"
    <3>1. answers[r] = << >>
      BY <2>2 DEF IInv, Stages, AnswerOfPhase
    <3> QED BY <3>1
  <2> QED BY <2>1, <2>2
<1> QED BY <1>1, Invariant, PTL

(* However the conversions interleave, a served one has its summary in its *)
(* own answer and no line in the buffer or in a later answer (log.js 64).  *)
THEOREM ServedTakeTheirLines == Spec => []ServedLeavesNothing
BY Invariant, PTL DEF IInv

(* Whatever else is logged meanwhile, the log file a conversion asked for  *)
(* holds its warnings and its summary (log.js 45-60).                      *)
THEOREM LogFilesAreComplete == Spec => []LogFileComplete
<1>1. IInv => LogFileComplete
  BY DEF IInv, InLogFile, LogFileComplete, Own
<1> QED BY <1>1, Invariant, PTL
-----------------------------------------------------------------------------
(* What the answers got, in the order memory() served them.                *)
Delivered == [k \in DOMAIN served |-> logs[served[k]]]

LEMMA DeliveredType == TypeOK => Delivered \in Seq(Seq(Line))
<1> SUFFICES ASSUME TypeOK PROVE Delivered \in Seq(Seq(Line))
  OBVIOUS
<1>1. served \in Seq(Callers) /\ logs \in [Callers -> Seq(Line)]
  BY DEF TypeOK
<1>2. DOMAIN served = 1 .. Len(served) /\ Len(served) \in Nat
  BY <1>1
<1>3. \A k \in DOMAIN served : logs[served[k]] \in Seq(Line)
  BY <1>1
<1>4. Delivered \in [1 .. Len(served) -> Seq(Line)]
  BY <1>2, <1>3 DEF Delivered
<1> QED BY <1>2, <1>4

LEMMA DeliveredInit == Init => LinesDeliveredOnce
<1> SUFFICES ASSUME Init PROVE LinesDeliveredOnce
  OBVIOUS
<1>1. TypeOK /\ served = << >> /\ emitted = output
  BY TypeInit DEF Init
<1>2. Delivered \in Seq(Seq(Line)) /\ DOMAIN Delivered = {}
  BY <1>1, DeliveredType DEF Delivered
<1>3. Delivered = << >> /\ Len(Delivered) = 0
  BY <1>2
<1>4. FlattenSeq(Delivered) = << >>
  BY <1>3 DEF FlattenSeq
<1>5. output \in Seq(Line)
  BY <1>1 DEF TypeOK
<1>6. << >> \o output = output
  BY <1>5
<1> QED BY <1>1, <1>4, <1>6, Zenon DEF LinesDeliveredOnce, Delivered

(* Lines that stay in the buffer.                                          *)
LEMMA DeliveredLog ==
  ASSUME TypeOK, LinesDeliveredOnce, UNCHANGED <<served, logs>>,
         NEW r, NEW lines, By(r, lines), Log(lines)
  PROVE  LinesDeliveredOnce'
<1> DEFINE flat == FlattenSeq(Delivered)
<1>1. emitted = flat \o output
  BY Zenon DEF LinesDeliveredOnce, Delivered
<1>2. Delivered' = Delivered
  BY DEF Delivered
<1>3. emitted' = emitted \o lines /\ output' = output \o lines
  BY DEF Log, Emit
<1>4. flat \in Seq(Line) /\ output \in Seq(Line) /\ lines \in Seq(Line)
  <2>1. << >> \in Seq(Line)
    OBVIOUS
  <2>2. flat \in Seq(Line)
    BY <2>1, DeliveredType, FlattenAppend
  <2> QED BY <2>2 DEF TypeOK, By
<1>5. (flat \o output) \o lines = flat \o (output \o lines)
  BY <1>4, ConcatAssociative
<1>6. emitted' = flat \o output'
  BY <1>1, <1>3, <1>5
<1>7. emitted' = FlattenSeq(Delivered') \o output'
  BY <1>2, <1>6
<1> QED BY <1>7, Zenon DEF LinesDeliveredOnce, Delivered

(* memory() hands the whole buffer out, under the last place of served.    *)
LEMMA DeliveredFinish ==
  ASSUME IInv, LinesDeliveredOnce, NEW r \in Callers, Finish(r)
  PROVE  LinesDeliveredOnce'
<1> DEFINE flat == FlattenSeq(Delivered)
           own == <<Summary(r)>>
           all == output \o own
<1>0. TypeOK /\ ServedAreOver
  BY DEF IInv, Stages
<1>1. emitted = flat \o output
  BY Zenon DEF LinesDeliveredOnce, Delivered
<1>2. /\ emitted' = emitted \o own /\ output' = << >>
      /\ logs' = [logs EXCEPT ![r] = all]
      /\ served' = Append(served, r)
      /\ phase[r] = "awaiting"
  BY Zenon DEF Finish, Emit, Memory
<1>3. own \in Seq(Line) /\ output \in Seq(Line) /\ all \in Seq(Line)
  <2>1. own \in Seq(Line)
    BY OneLine DEF Summary, By
  <2>2. output \in Seq(Line)
    BY <1>0 DEF TypeOK
  <2> QED BY <2>1, <2>2, ToSetConcat
<1> HIDE DEF own, all
<1>4. /\ served \in Seq(Callers) /\ logs \in [Callers -> Seq(Line)]
      /\ Len(served) \in Nat /\ DOMAIN served = 1 .. Len(served)
  BY <1>0 DEF TypeOK
<1>5. DOMAIN served' = 1 .. Len(served) + 1
  BY <1>2, <1>4, AppendOne
<1>6. \A k \in 1 .. Len(served) : served'[k] = served[k] /\ served[k] \in Callers \ {r}
  <2>1. \A k \in 1 .. Len(served) : served'[k] = served[k]
    BY <1>2, <1>4, AppendElement
  <2>2. \A k \in 1 .. Len(served) : served[k] # r
    BY <1>0, <1>2, <1>4 DEF ServedAreOver
  <2> QED BY <1>4, <2>1, <2>2
<1>7. served'[Len(served) + 1] = r
  BY <1>2, <1>4, AppendLast
<1>8. Delivered \in Seq(Seq(Line)) /\ DOMAIN Delivered = 1 .. Len(served)
      /\ Len(Delivered) = Len(served)
  BY <1>0, <1>4, DeliveredType DEF Delivered
<1>9. Delivered' = Append(Delivered, all)
  <2>1. DOMAIN Delivered' = 1 .. Len(served) + 1
    BY <1>5 DEF Delivered
  <2>2. Append(Delivered, all) \in Seq(Seq(Line))
        /\ DOMAIN Append(Delivered, all) = 1 .. Len(served) + 1
    BY <1>3, <1>8, AppendOne
  <2>3. \A k \in 1 .. Len(served) : Delivered'[k] = Append(Delivered, all)[k]
    <3> SUFFICES ASSUME NEW k \in 1 .. Len(served)
                 PROVE  Delivered'[k] = Append(Delivered, all)[k]
      OBVIOUS
    <3>1. Append(Delivered, all)[k] = Delivered[k]
      BY <1>3, <1>8, AppendElement
    <3>2. Delivered[k] = logs[served[k]] /\ Delivered'[k] = logs'[served'[k]]
      BY <1>4, <1>5 DEF Delivered
    <3>3. logs'[served'[k]] = logs[served[k]]
      BY <1>2, <1>4, <1>6
    <3> QED BY <3>1, <3>2, <3>3
  <2>4. Delivered'[Len(served) + 1] = Append(Delivered, all)[Len(served) + 1]
    <3>1. Append(Delivered, all)[Len(served) + 1] = all
      BY <1>3, <1>8, AppendLast
    <3>2. Delivered'[Len(served) + 1] = logs'[r]
      BY <1>4, <1>5, <1>7 DEF Delivered
    <3>3. logs'[r] = all
      BY <1>2, <1>4
    <3> QED BY <3>1, <3>2, <3>3
  <2>5. Delivered' = [k \in 1 .. Len(served) + 1 |-> Delivered'[k]]
    BY <1>5 DEF Delivered
  <2>6. Append(Delivered, all)
            = [k \in 1 .. Len(served) + 1 |-> Append(Delivered, all)[k]]
    <3> DEFINE more == Append(Delivered, all)
    <3>1. more \in Seq(Seq(Line)) /\ DOMAIN more = 1 .. Len(served) + 1
      BY <2>2
    <3> HIDE DEF more
    <3>2. more = [k \in 1 .. Len(served) + 1 |-> more[k]]
      BY <3>1
    <3> QED BY <3>2 DEF more
  <2>7. \A k \in 1 .. Len(served) + 1 : k \in 1 .. Len(served) \/ k = Len(served) + 1
    BY <1>4
  <2>8. \A k \in 1 .. Len(served) + 1 : Delivered'[k] = Append(Delivered, all)[k]
    BY <2>3, <2>4, <2>7
  <2> QED BY <2>5, <2>6, <2>8
<1>10. FlattenSeq(Delivered') = flat \o all /\ flat \in Seq(Line)
  BY <1>3, <1>8, <1>9, FlattenAppend
<1> HIDE DEF flat
<1>11. (flat \o output) \o own = flat \o all
  BY <1>3, <1>10, ConcatAssociative DEF all
<1>12. emitted' = FlattenSeq(Delivered')
  BY <1>1, <1>2, <1>10, <1>11
<1>13. flat \o all \in Seq(Line)
  BY <1>3, <1>10, ConcatType
<1>14. emitted' = FlattenSeq(Delivered') \o << >>
  BY <1>10, <1>12, <1>13
<1> QED BY <1>2, <1>14, Zenon DEF LinesDeliveredOnce, Delivered

LEMMA DeliveredStep ==
  IInv /\ LinesDeliveredOnce /\ [Next]_vars => LinesDeliveredOnce'
<1> SUFFICES ASSUME IInv, LinesDeliveredOnce, [Next]_vars PROVE LinesDeliveredOnce'
  OBVIOUS
<1>0. TypeOK
  BY DEF IInv
<1>a. ASSUME UNCHANGED <<served, logs, emitted, output>> PROVE LinesDeliveredOnce'
  BY <1>a, Zenon DEF LinesDeliveredOnce
<1>1. CASE CliStart
  BY <1>1, <1>a DEF CliStart
<1>2. ASSUME NEW r \in Requests, Receive(r) PROVE LinesDeliveredOnce'
  BY <1>2, <1>a DEF Receive
<1>3. ASSUME NEW r \in Callers, NEW u \in Uploads, ExtractDone(r, u)
      PROVE  LinesDeliveredOnce'
  BY <1>3, <1>a DEF ExtractDone
<1>4. ASSUME NEW r \in Callers, NEW u \in Uploads, ExtractFails(r, u)
      PROVE  LinesDeliveredOnce'
  <2>1. PICK lines : By(r, lines) /\ Log(lines)
    BY <1>4, ExtractFailsLogs, Zenon
  <2>2. UNCHANGED <<served, logs>>
    BY <1>4 DEF ExtractFails
  <2> QED BY <1>0, <2>1, <2>2, DeliveredLog, Zenon
<1>5. ASSUME NEW r \in Callers, RunMain(r) PROVE LinesDeliveredOnce'
  <2>1. PICK lines : By(r, lines) /\ Log(lines)
    BY <1>5, RunMainLogs, Zenon
  <2>2. UNCHANGED <<served, logs>>
    BY <1>5 DEF RunMain
  <2> QED BY <1>0, <2>1, <2>2, DeliveredLog, Zenon
<1>6. ASSUME NEW r \in Callers, Finish(r) PROVE LinesDeliveredOnce'
  BY <1>6, DeliveredFinish
<1>7. CASE UNCHANGED vars
  BY <1>7, <1>a DEF vars
<1> QED BY <1>1, <1>2, <1>3, <1>4, <1>5, <1>6, <1>7, Zenon DEF Next, Progress

(* The answers and the buffer, one after the other, hold every line ever   *)
(* logged, each once and in its order (log.js 64-68): by induction on what *)
(* FlattenSeq makes of one more answer.                                    *)
THEOREM EveryLineOnce == Spec => []LinesDeliveredOnce
BY DeliveredInit, DeliveredStep, Invariant, PTL DEF Spec
-----------------------------------------------------------------------------
(* At most one call is under way; the file has an id as soon as one has    *)
(* ended, and is empty just while its one writer is at work.               *)
Alone == ~overlapped =>
    \A a, b \in Calls : UnderWay(a) /\ UnderWay(b) => a = b

Agreement == ~overlapped /\ ~faulted =>
    /\ \A a \in Calls : pc[a] = "done" => file \in Calls /\ reported[a] = file
    /\ \A a \in Calls : pc[a] = "open" => file = Absent
    /\ \A a \in Calls : pc[a] = "write" => file = Empty
    /\ file = Empty => \E a \in Calls : pc[a] = "write"

(* While a call under way expects an id, the dotfile holds that id and     *)
(* nobody is about to write; a call that has ended with one reported it.   *)
Expecting ==
    \A a \in Calls : expects[a] # Nothing =>
        /\ UnderWay(a) => /\ pc[a] = "read" /\ file = expects[a]
                          /\ \A b \in Calls : ~Writing(b)
        /\ pc[a] = "done" => reported[a] = expects[a]

(* A call sees every other one that writes; the dotfile is empty only      *)
(* while a call is at its second step, or after one has ended there.       *)
EmptyExplained ==
    /\ \A a, b \in Calls : UnderWay(a) /\ Writing(b) /\ b # a => raced[a]
    /\ file = Empty => torn \/ \E b \in Calls : pc[b] = "write"
    /\ EmptyOnlyForCause

IdInv == IdTypeOK /\ Alone /\ Agreement /\ Expecting /\ EmptyExplained
-----------------------------------------------------------------------------
LEMMA IdInvInit == IdInit => IdInv
BY ValuesAssumption DEF IdInit, IdInv, IdTypeOK, Alone, Agreement, Expecting,
  EmptyExplained, EmptyOnlyForCause, UnderWay, Writing

LEMMA IdTypeStep == IdTypeOK /\ [IdNext]_idVars => IdTypeOK'
<1> SUFFICES ASSUME IdTypeOK, [IdNext]_idVars PROVE IdTypeOK'
  OBVIOUS
<1>1. ASSUME NEW a \in Calls, Start(a) PROVE IdTypeOK'
  BY <1>1 DEF Start, Settled, Writing, UnderWay, IdTypeOK
<1>2. ASSUME NEW a \in Calls, IdStep(a) PROVE IdTypeOK'
  <2>1. CASE Read(a)
    BY <2>1 DEF Read, Resolve, observed, IdTypeOK
  <2>2. CASE ReadFails(a)
    BY <2>2 DEF ReadFails, UnderWay, IdTypeOK
  <2>3. CASE Open(a)
    BY <2>3 DEF Open, observed, IdTypeOK
  <2>4. CASE Write(a)
    BY <2>4 DEF Write, Resolve, observed, IdTypeOK
  <2>5. CASE WriteFails(a)
    BY <2>5 DEF WriteFails, Writing, Resolve, IdTypeOK
  <2> QED BY <1>2, <2>1, <2>2, <2>3, <2>4, <2>5, Zenon DEF IdStep
<1>3. ASSUME NEW a \in Calls, Crash(a) PROVE IdTypeOK'
  BY <1>3 DEF Crash, IdTypeOK
<1>4. CASE UNCHANGED idVars
  BY <1>4 DEF idVars, observed, IdTypeOK
<1> QED
  BY <1>1, <1>2, <1>3, <1>4 DEF IdNext

LEMMA AloneStep == IdInv /\ [IdNext]_idVars => Alone'
<1> SUFFICES ASSUME IdInv, [IdNext]_idVars PROVE Alone'
  OBVIOUS
<1> USE DEF IdInv, Alone, UnderWay
<1>1. ASSUME NEW a \in Calls, Start(a) PROVE Alone'
  BY <1>1 DEF Start, IdTypeOK
<1>2. ASSUME NEW a \in Calls, IdStep(a) PROVE Alone'
  BY <1>2 DEF IdStep, Read, ReadFails, Open, Write, WriteFails, Writing, Resolve, observed,
    IdTypeOK
<1>3. ASSUME NEW a \in Calls, Crash(a) PROVE Alone'
  BY <1>3 DEF Crash, IdTypeOK
<1>4. CASE UNCHANGED idVars
  BY <1>4 DEF idVars, observed
<1> QED
  BY <1>1, <1>2, <1>3, <1>4 DEF IdNext

LEMMA AgreementStep == IdInv /\ [IdNext]_idVars => Agreement'
<1> SUFFICES ASSUME IdInv, [IdNext]_idVars, ~overlapped', ~faulted' PROVE Agreement'
  BY DEF Agreement
<1> USE ValuesAssumption DEF IdInv, Agreement
<1>1. ASSUME NEW a \in Calls, Start(a) PROVE Agreement'
  BY <1>1 DEF Start, IdTypeOK
<1>2. ASSUME NEW a \in Calls, Read(a) PROVE Agreement'
  <2>1. file # Empty
    BY <1>2 DEF Read, Alone, UnderWay, observed
  <2>2. file \in Calls
    BY <1>2, <2>1 DEF Read, IdTypeOK
  <2> QED
    BY <1>2, <2>2 DEF Read, Resolve, observed, IdTypeOK
<1>3. ASSUME NEW a \in Calls, ReadFails(a) PROVE Agreement'
  BY <1>3 DEF ReadFails, IdTypeOK
<1>4. ASSUME NEW a \in Calls, Open(a) PROVE Agreement'
  <2>1. \A b \in Calls : pc'[b] \notin {"open", "done"}
    BY <1>4 DEF Open, IdTypeOK, Alone, UnderWay, observed
  <2> QED
    BY <1>4, <2>1 DEF Open, observed, IdTypeOK
<1>5. ASSUME NEW a \in Calls, Write(a) PROVE Agreement'
  <2>1. \A b \in Calls : pc'[b] \notin {"open", "write"} /\ (pc'[b] = "done" => b = a)
    BY <1>5 DEF Write, Resolve, IdTypeOK, Alone, UnderWay, observed
  <2> QED
    BY <1>5, <2>1 DEF Write, Resolve, observed, IdTypeOK
<1>6. ASSUME NEW a \in Calls, WriteFails(a) \/ Crash(a) PROVE Agreement'
  BY <1>6 DEF WriteFails, Crash
<1>7. CASE UNCHANGED idVars
  BY <1>7 DEF idVars, observed
<1> QED
  BY <1>1, <1>2, <1>3, <1>4, <1>5, <1>6, <1>7 DEF IdNext, IdStep

LEMMA ExpectingStep == IdInv /\ [IdNext]_idVars => Expecting'
<1> SUFFICES ASSUME IdInv, [IdNext]_idVars PROVE Expecting'
  OBVIOUS
<1> USE ValuesAssumption DEF IdInv, Expecting, IdTypeOK, UnderWay, Writing
<1>1. ASSUME NEW a \in Calls, Start(a) PROVE Expecting'
  BY <1>1 DEF Start, Settled
<1>2. ASSUME NEW a \in Calls, Read(a) PROVE Expecting'
  BY <1>2 DEF Read, Resolve, observed
<1>3. ASSUME NEW a \in Calls, ReadFails(a) PROVE Expecting'
  <2>1. CASE file = Absent
    BY <1>3, <2>1 DEF ReadFails
  <2>2. CASE file # Absent
    BY <1>3, <2>2 DEF ReadFails
  <2> QED BY <2>1, <2>2
<1>4. ASSUME NEW a \in Calls, Open(a) PROVE Expecting'
  BY <1>4 DEF Open, observed
<1>5. ASSUME NEW a \in Calls, Write(a) PROVE Expecting'
  BY <1>5 DEF Write, Resolve, observed
<1>6. ASSUME NEW a \in Calls, WriteFails(a) \/ Crash(a) PROVE Expecting'
  BY <1>6 DEF WriteFails, Crash, Resolve
<1>7. CASE UNCHANGED idVars
  BY <1>7 DEF idVars, observed
<1> QED
  BY <1>1, <1>2, <1>3, <1>4, <1>5, <1>6, <1>7 DEF IdNext, IdStep

LEMMA EmptyStep == IdInv /\ [IdNext]_idVars => EmptyExplained'
<1> SUFFICES ASSUME IdInv, [IdNext]_idVars PROVE EmptyExplained'
  OBVIOUS
<1> USE ValuesAssumption DEF IdInv, EmptyExplained, EmptyOnlyForCause, IdTypeOK,
    UnderWay, Writing
<1>1. ASSUME NEW a \in Calls, Start(a) PROVE EmptyExplained'
  BY <1>1 DEF Start
<1>2. ASSUME NEW a \in Calls, Read(a) PROVE EmptyExplained'
  BY <1>2 DEF Read, Resolve, observed
<1>3. ASSUME NEW a \in Calls, ReadFails(a) PROVE EmptyExplained'
  BY <1>3 DEF ReadFails
<1>4. ASSUME NEW a \in Calls, Open(a) PROVE EmptyExplained'
  BY <1>4 DEF Open, observed
<1>5. ASSUME NEW a \in Calls, Write(a) PROVE EmptyExplained'
  BY <1>5 DEF Write, Resolve, observed
<1>6. ASSUME NEW a \in Calls, WriteFails(a) \/ Crash(a) PROVE EmptyExplained'
  <2>1. \A b \in Calls : b # a => pc'[b] = pc[b] /\ reported'[b] = reported[b]
    BY <1>6 DEF WriteFails, Crash, Resolve
  <2>2. pc'[a] \in {"done", "crashed"} /\ (pc'[a] = "done" => reported'[a] = Nothing)
    BY <1>6 DEF WriteFails, Crash, Resolve
  <2>3. UNCHANGED <<file, raced>> /\ (torn' <=> torn \/ pc[a] = "write")
    BY <1>6 DEF WriteFails, Crash
  <2>4. file' = Empty => torn' \/ \E b \in Calls : pc'[b] = "write"
    BY <2>1, <2>3
  <2> QED BY <2>1, <2>2, <2>3, <2>4
<1>7. CASE UNCHANGED idVars
  BY <1>7 DEF idVars, observed
<1> QED
  BY <1>1, <1>2, <1>3, <1>4, <1>5, <1>6, <1>7 DEF IdNext, IdStep

LEMMA IdInvariance == IdSpec => []IdInv
<1>1. IdInv /\ [IdNext]_idVars => IdInv'
  BY IdTypeStep, AloneStep, AgreementStep, ExpectingStep, EmptyStep DEF IdInv
<1> QED
  BY IdInvInit, <1>1, PTL DEF IdSpec

(* However many calls there are, those that run one after the other,       *)
(* without failures, report the same id, and an empty id is reported only  *)
(* beside a call that writes, or after one that ended between opening the  *)
(* dotfile and writing it (analytics.js 42-50).                            *)
THEOREM VaryingIds == IdSpec => []IdsVaryOnlyForCause
<1>1. IdInv => SequentialCallsAgree
  BY DEF IdInv, Agreement, SequentialCallsAgree
<1>2. IdInv => EmptyOnlyForCause
  BY DEF IdInv, EmptyExplained
<1> QED
  BY <1>1, <1>2, IdInvariance, PTL DEF IdsVaryOnlyForCause

(* A call that starts when an id has settled reports that id, however many *)
(* calls ran, crashed or failed before it or run beside it, unless a read  *)
(* of the dotfile fails while it is there (analytics.js 46-47).            *)
THEOREM SettledIds == IdSpec => []SettledIdIsReported
<1>1. IdInv => SettledIdIsReported
  BY DEF IdInv, Expecting, SettledIdIsReported
<1> QED
  BY <1>1, IdInvariance, PTL
=============================================================================
