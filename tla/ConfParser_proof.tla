-------------------------- MODULE ConfParser_proof --------------------------
(* Proofs about ConfParser for every set of files: the groups are disjoint *)
(* intervals of the file, no group swallows a rule header and no header is *)
(* lost, on regular and on damaged files alike; and the groups of a        *)
(* regular file are exactly its objects.                                   *)
EXTENDS ConfParser, TLAPS, WellFoundedInduction

(* What a scan that has not met a rule says of line p of the block at j.   *)
Harmless(p, j) ==
    conf[p].rule => (conf[p].hash \/ conf[p].special) /\ conf[j].rule

(* The scan is inside the file, at a header, and its block is clean so far. *)
ScanOK ==
    /\ pc = "filter" => i = 1 /\ groups = << >>
    /\ pc \in {"advance", "count", "close"} =>
          /\ i + c <= Len(conf)
          /\ \A p \in i + 1 .. i + c - 1 : Harmless(p, i)
    /\ pc = "count" => c >= 1
    /\ pc \in {"advance", "close"} => (c >= 1 => Harmless(i + c, i))

(* Every group ends before the line the scan is at.                        *)
GroupsBehind == \A k \in 1 .. Len(groups) : groups[k].to < i

(* No header before the line the scan is at is outside the groups.         *)
HeadersCovered ==
    /\ \A p \in 1 .. i - 1 :
          IsHeader(conf[p]) \/ IsEmptyObject(conf[p]) => Covered(p)
    /\ pc = "done" => i > Len(conf)

IInv == TypeOK /\ ScanOK /\ GroupsDisjoint /\ GroupsBehind /\ NoRuleSwallowed
        /\ HeadersCovered

-----------------------------------------------------------------------------
(* The lines the filter writes itself are lines.                           *)
LEMMA BraceLines ==
    ASSUME NEW l \in Line, NEW x \in Int
    PROVE  /\ [l EXCEPT !.opens = TRUE, !.net = x, !.raw = x] \in Line
           /\ [l EXCEPT !.net = x, !.raw = x] \in Line
BY DEF Line

LEMMA OwnLines ==
    /\ TopologyHead \in Seq(Line)
    /\ TopologyRecord \in Seq(Line)
    /\ TopologyTail \in Seq(Line)
    /\ Closing \in Line
    /\ \A l \in Line : Indented(l) \in Line
<1>1. Text \in Line /\ Opening \in Line /\ Closing \in Line
  <2>1. Text \in Line
    BY DEF Text, Line
  <2>2. 1 \in Int /\ -1 \in Int
    OBVIOUS
  <2> QED
    BY <2>1, <2>2, BraceLines DEF Opening, Closing
<1>2. /\ [Opening EXCEPT !.indent = FALSE] \in Line
      /\ [Closing EXCEPT !.indent = FALSE, !.close = TRUE] \in Line
  BY <1>1 DEF Line
<1>3. ASSUME NEW l \in Line PROVE Indented(l) \in Line
  BY DEF Indented, Line
<1> QED
  BY <1>1, <1>2, <1>3 DEF TopologyHead, TopologyRecord, TopologyTail

LEMMA InitIInv == Init => IInv
<1> SUFFICES ASSUME Init PROVE IInv
  OBVIOUS
<1>1. file \in Seq(Line) /\ Len(file) \in Nat
  BY FilesAssumption DEF Init
<1>2. TypeOK
  <2>1. n \in 1 .. Len(file) + 1
    BY <1>1 DEF Init
  <2>2. /\ topology \in Seq(Line) /\ conf \in Seq(Line)
        /\ groups \in Seq([from : Nat, to : Nat])
    BY DEF Init
  <2>3. irule \in Int /\ bracketCount \in Int /\ i \in Nat \ {0} /\ c \in Nat
    BY DEF Init
  <2>4. inTopology \in BOOLEAN /\ pc = "filter"
    BY DEF Init
  <2> QED
    BY <1>1, <2>1, <2>2, <2>3, <2>4 DEF TypeOK
<1> QED
  BY <1>2 DEF Init, IInv, ScanOK, GroupsDisjoint, GroupsBehind,
              NoRuleSwallowed, HeadersCovered

(* While the filter runs there are no groups and the scan has not begun.   *)
LEMMA FilterIInv ==
    ASSUME IInv, pc = "filter",
           conf' \in Seq(Line), topology' \in Seq(Line),
           file' = file, n' \in 1 .. Len(file) + 1,
           irule' \in Int, inTopology' \in BOOLEAN,
           pc' \in {"filter", "group"},
           UNCHANGED <<i, c, bracketCount, groups>>
    PROVE  IInv'
<1>1. i = 1 /\ groups = << >> /\ Len(groups) = 0
  BY DEF IInv, ScanOK
<1>2. TypeOK'
  BY DEF IInv, TypeOK
<1>3. ScanOK'
  BY <1>1 DEF ScanOK
<1>4. (GroupsDisjoint /\ GroupsBehind /\ NoRuleSwallowed)'
  BY <1>1 DEF GroupsDisjoint, GroupsBehind, NoRuleSwallowed
<1>5. HeadersCovered'
  BY <1>1 DEF HeadersCovered
<1> QED
  BY <1>2, <1>3, <1>4, <1>5 DEF IInv

LEMMA NextIruleType ==
    ASSUME TypeOK, NEW l \in Line PROVE NextIrule(l) \in Int
BY DEF NextIrule, TypeOK, Line

LEMMA ElementType ==
    ASSUME NEW S, NEW s \in Seq(S), NEW k \in 1 .. Len(s) PROVE s[k] \in S
OBVIOUS

LEMMA GroupTypes ==
    ASSUME TypeOK, NEW k \in 1 .. Len(groups)
    PROVE  groups[k].from \in Nat /\ groups[k].to \in Nat
<1>1. groups \in Seq([from : Nat, to : Nat])
  BY DEF TypeOK
<1>2. groups[k] \in [from : Nat, to : Nat]
  BY <1>1, ElementType
<1> QED
  BY <1>2

(* A new group that starts at the scan's line keeps all of the invariant.  *)
LEMMA NewGroupIInv ==
    ASSUME IInv, NEW to \in Nat, i <= to, to <= Len(conf),
           \A p \in i + 1 .. to : Harmless(p, i),
           groups' = Append(groups, [from |-> i, to |-> to]),
           i' = to + 1, c' = c, bracketCount' = bracketCount,
           pc' = "group",
           UNCHANGED <<file, n, irule, inTopology, topology, conf>>
    PROVE  IInv'
<1> USE DEF IInv
<1>0. Len(groups) \in Nat /\ i \in Nat
  BY DEF TypeOK
<1>1. /\ groups' \in Seq([from : Nat, to : Nat])
      /\ Len(groups') = Len(groups) + 1
      /\ \A k \in 1 .. Len(groups) : groups'[k] = groups[k]
      /\ groups'[Len(groups) + 1] = [from |-> i, to |-> to]
  BY DEF TypeOK
<1>2. TypeOK'
  BY <1>1 DEF TypeOK
<1>3. ScanOK'
  BY DEF ScanOK
<1>4. GroupsDisjoint'
  <2> SUFFICES ASSUME NEW k \in 1 .. Len(groups) + 1
               PROVE  /\ 1 <= groups'[k].from
                      /\ groups'[k].from <= groups'[k].to
                      /\ groups'[k].to <= Len(conf)
                      /\ \A m \in 1 .. k - 1 : groups'[m].to < groups'[k].from
    BY <1>1 DEF GroupsDisjoint
  <2>1. CASE k = Len(groups) + 1
    <3>1. groups'[k].from = i /\ groups'[k].to = to
      BY <2>1, <1>1
    <3>2. 1 <= i
      BY DEF TypeOK
    <3>3. \A m \in 1 .. k - 1 : groups'[m].to < i
      BY <2>1, <1>0, <1>1 DEF GroupsBehind
    <3> QED
      BY <3>1, <3>2, <3>3
  <2>2. CASE k \in 1 .. Len(groups)
    <3>1. /\ groups'[k] = groups[k]
          /\ \A m \in 1 .. k - 1 : m \in 1 .. Len(groups) /\ groups'[m] = groups[m]
      BY <2>2, <1>0, <1>1
    <3> QED
      BY <2>2, <3>1 DEF GroupsDisjoint
  <2> QED
    BY <2>1, <2>2, <1>0
<1>5. GroupsBehind'
  <2> SUFFICES ASSUME NEW k \in 1 .. Len(groups) + 1 PROVE groups'[k].to < to + 1
    BY <1>1 DEF GroupsBehind
  <2>1. CASE k = Len(groups) + 1
    BY <2>1, <1>1
  <2>2. CASE k \in 1 .. Len(groups)
    <3>1. groups[k].to < i /\ groups[k].to \in Nat
      BY <2>2, GroupTypes DEF GroupsBehind
    <3>2. groups[k].to < to + 1
      BY <3>1, <1>0
    <3> QED
      BY <2>2, <3>2, <1>1
  <2> QED
    BY <2>1, <2>2, <1>0
<1>6. NoRuleSwallowed'
  <2> SUFFICES ASSUME NEW k \in 1 .. Len(groups) + 1,
                      NEW p \in groups'[k].from + 1 .. groups'[k].to,
                      conf[p].rule
               PROVE  /\ conf[p].hash \/ conf[p].special
                      /\ conf[groups'[k].from].rule
    BY <1>1 DEF NoRuleSwallowed
  <2>1. CASE k = Len(groups) + 1
    BY <2>1, <1>1 DEF Harmless
  <2>2. CASE k \in 1 .. Len(groups)
    <3>1. groups'[k] = groups[k]
      BY <2>2, <1>1
    <3>2. p \in groups[k].from + 1 .. groups[k].to
      BY <3>1
    <3>3. /\ conf[p].hash \/ conf[p].special
          /\ conf[groups[k].from].rule
      BY <2>2, <3>2 DEF NoRuleSwallowed
    <3> QED
      BY <3>1, <3>3
  <2> QED
    BY <2>1, <2>2, <1>0
<1>7. HeadersCovered'
  <2> SUFFICES ASSUME NEW p \in 1 .. to, IsHeader(conf[p]) \/ IsEmptyObject(conf[p])
               PROVE  \E k \in 1 .. Len(groups) + 1 :
                          groups'[k].from <= p /\ p <= groups'[k].to
    BY <1>1 DEF HeadersCovered, Covered, IsHeader, IsEmptyObject
  <2>1. CASE p < i
    <3>1. PICK k \in 1 .. Len(groups) : groups[k].from <= p /\ p <= groups[k].to
      BY <2>1 DEF HeadersCovered, Covered, TypeOK
    <3>2. k \in 1 .. Len(groups) + 1
      BY DEF TypeOK
    <3> QED
      BY <3>1, <3>2, <1>1
  <2>2. CASE p >= i
    <3>1. Len(groups) + 1 \in 1 .. Len(groups) + 1
      BY DEF TypeOK
    <3> QED
      BY <2>2, <3>1, <1>1
  <2> QED
    BY <2>1, <2>2, <1>0
<1> QED
  BY <1>2, <1>3, <1>4, <1>5, <1>6, <1>7

(* A step that leaves the groups and the line they were cut from alone.    *)
LEMMA ScanIInv ==
    ASSUME IInv,
           UNCHANGED <<file, n, irule, inTopology, topology, conf, i, groups>>,
           c' \in Nat, bracketCount' \in Int,
           pc' \in {"advance", "count", "close", "done", "error"},
           ScanOK', pc' = "done" => i > Len(conf)
    PROVE  IInv'
<1>1. TypeOK'
  BY DEF IInv, TypeOK
<1>2. (GroupsDisjoint /\ GroupsBehind /\ NoRuleSwallowed)'
  BY DEF IInv, GroupsDisjoint, GroupsBehind, NoRuleSwallowed
<1>3. HeadersCovered'
  BY DEF IInv, HeadersCovered, Covered, IsHeader, IsEmptyObject
<1> QED
  BY <1>1, <1>2, <1>3 DEF IInv

LEMMA NextIInv == IInv /\ [Next]_vars => IInv'
<1> SUFFICES ASSUME IInv, [Next]_vars PROVE IInv'
  OBVIOUS
<1>0. TypeOK /\ ScanOK
  BY DEF IInv
<1>1. CASE FilterTopologyHeader
  <2>1. file[n] \in Line
    BY <1>0, <1>1 DEF FilterTopologyHeader, Reading, TypeOK
  <2>2. topology' \in Seq(Line)
    BY <1>0, <1>1, OwnLines DEF FilterTopologyHeader, TypeOK
  <2> QED
    BY <1>0, <1>1, <2>1, <2>2, NextIruleType, FilterIInv
       DEF FilterTopologyHeader, Reading, TypeOK
<1>2. CASE FilterTopologyBody
  <2>1. file[n] \in Line
    BY <1>0, <1>2 DEF FilterTopologyBody, Reading, TypeOK
  <2>2. topology' \in Seq(Line)
    BY <1>0, <1>2, <2>1, OwnLines DEF FilterTopologyBody, TypeOK
  <2>3. inTopology' \in BOOLEAN
    BY <1>2, <2>1 DEF FilterTopologyBody, Line
  <2> QED
    BY <1>0, <1>2, <2>1, <2>2, <2>3, NextIruleType, FilterIInv
       DEF FilterTopologyBody, Reading, TypeOK
<1>3. CASE FilterLine
  <2>1. file[n] \in Line
    BY <1>0, <1>3 DEF FilterLine, Reading, TypeOK
  <2>2. conf' \in Seq(Line)
    BY <1>0, <1>3, <2>1 DEF FilterLine, TypeOK
  <2> QED
    BY <1>0, <1>3, <2>1, <2>2, NextIruleType, FilterIInv
       DEF FilterLine, Reading, TypeOK
<1>4. CASE FilterEnd
  <2>1. conf' \in Seq(Line)
    BY <1>0, <1>4, OwnLines DEF FilterEnd, TypeOK
  <2> QED
    BY <1>0, <1>4, <2>1, FilterIInv DEF FilterEnd, TypeOK
<1>5. CASE GroupOneLine
  <2>1. i \in Nat /\ i <= Len(conf) /\ \A p \in i + 1 .. i : Harmless(p, i)
    BY <1>0, <1>5 DEF GroupOneLine, Grouping, TypeOK
  <2> QED
    BY <1>0, <1>5, <2>1, NewGroupIInv DEF GroupOneLine, Grouping
<1>6. CASE SkipLine
  <2>1. TypeOK' /\ ScanOK'
    BY <1>0, <1>6 DEF SkipLine, Grouping, TypeOK, ScanOK
  <2>2. GroupsDisjoint' /\ NoRuleSwallowed'
    BY <1>6 DEF IInv, SkipLine, Grouping, GroupsDisjoint, NoRuleSwallowed
  <2>3. GroupsBehind'
    <3> SUFFICES ASSUME NEW k \in 1 .. Len(groups) PROVE groups[k].to < i + 1
      BY <1>6 DEF SkipLine, Grouping, GroupsBehind
    <3>1. groups[k].to < i /\ groups[k].to \in Nat
      BY <1>0, GroupTypes DEF IInv, GroupsBehind
    <3>2. i \in Nat
      BY <1>0 DEF TypeOK
    <3> QED
      BY <3>1, <3>2
  <2>4. HeadersCovered'
    <3> SUFFICES ASSUME NEW p \in 1 .. i,
                        IsHeader(conf[p]) \/ IsEmptyObject(conf[p])
                 PROVE  Covered(p)
      BY <1>0, <1>6 DEF SkipLine, Grouping, HeadersCovered, Covered, TypeOK,
                        IsHeader, IsEmptyObject
    <3>1. p # i
      BY <1>6 DEF SkipLine
    <3> QED
      BY <1>0, <3>1 DEF IInv, HeadersCovered, TypeOK
  <2> QED
    BY <2>1, <2>2, <2>3, <2>4 DEF IInv
<1>7. CASE OpenBlock
  <2>1. ScanOK'
    BY <1>0, <1>7 DEF OpenBlock, Grouping, ScanOK, TypeOK
  <2> QED
    BY <1>7, <2>1, ScanIInv DEF OpenBlock, Grouping
<1>8. CASE Advance
  <2>1. ScanOK'
    BY <1>0, <1>8 DEF Advance, ScanOK, TypeOK, Harmless
  <2> QED
    BY <1>0, <1>8, <2>1, ScanIInv DEF Advance, TypeOK
<1>9. CASE CountLine
  <2> DEFINE l == conf[i + c]
  <2>1. l \in Line /\ c >= 1
    BY <1>0, <1>9 DEF CountLine, ScanOK, TypeOK
  <2>2. c' \in Nat /\ bracketCount' \in Int
    <3>1. l.net \in Int
      BY <2>1 DEF Line
    <3>2. /\ c' = IF RunsIntoRule(l) THEN c - 1 ELSE c
          /\ bracketCount' = (IF RunsIntoRule(l) THEN 0 ELSE bracketCount)
                             + (IF Counted(l) THEN l.net ELSE 0)
      BY <1>9 DEF CountLine
    <3>3. c \in Nat /\ c >= 1 /\ bracketCount \in Int
      BY <2>1 DEF IInv, TypeOK
    <3> HIDE DEF l
    <3> QED
      BY <3>1, <3>2, <3>3
  <2>3. RunsIntoRule(l) \/ Harmless(i + c, i)
    BY <1>0, <2>1 DEF RunsIntoRule, Counted, Harmless, Line, TypeOK
  <2>4. ScanOK'
    <3>1. CASE RunsIntoRule(l)
      BY <1>0, <1>9, <2>1, <3>1 DEF CountLine, ScanOK, TypeOK, Harmless
    <3>2. CASE ~RunsIntoRule(l)
      BY <1>0, <1>9, <2>1, <2>3, <3>2 DEF CountLine, ScanOK, TypeOK, Harmless
    <3> QED
      BY <3>1, <3>2
  <2> QED
    BY <1>9, <2>2, <2>4, ScanIInv DEF CountLine
<1>10. CASE CloseBlock
  <2>1. i \in Nat /\ c \in Nat /\ i + c <= Len(conf)
    BY <1>0, <1>10 DEF CloseBlock, ScanOK, TypeOK
  <2>2. ASSUME NEW p \in i + 1 .. i + c PROVE Harmless(p, i)
    <3>1. CASE p \in i + 1 .. i + c - 1
      BY <1>0, <1>10, <3>1 DEF CloseBlock, ScanOK
    <3>2. CASE p = i + c /\ c >= 1
      BY <1>0, <1>10, <3>2 DEF CloseBlock, ScanOK
    <3> QED
      BY <2>1, <3>1, <3>2
  <2>3. i + c \in Nat /\ i <= i + c
    BY <2>1
  <2> QED
    BY <1>10, <2>1, <2>2, <2>3, NewGroupIInv DEF CloseBlock
<1>11. CASE Finish
  <2>1. ScanOK'
    BY <1>11 DEF Finish, ScanOK
  <2> QED
    BY <1>0, <1>11, <2>1, ScanIInv DEF Finish, TypeOK
<1>12. CASE UNCHANGED vars
  BY <1>12 DEF vars, IInv, TypeOK, ScanOK, GroupsDisjoint, GroupsBehind,
               NoRuleSwallowed, HeadersCovered, Covered, IsHeader,
               IsEmptyObject, Harmless
<1> QED
  BY <1>1, <1>2, <1>3, <1>4, <1>5, <1>6, <1>7, <1>8, <1>9, <1>10, <1>11, <1>12
     DEF Next

-----------------------------------------------------------------------------
(* The inductive invariant holds of every parse, of any set of files.      *)
THEOREM Invariance == Spec => []IInv
BY InitIInv, NextIInv, PTL DEF Spec

(* The variables of a parse keep their types.                              *)
THEOREM TypeCorrect == Spec => []TypeOK
<1>1. IInv => TypeOK
  BY DEF IInv
<1> QED
  BY <1>1, Invariance, PTL

(* No line of any file is cut into two groups.                             *)
THEOREM Disjointness == Spec => []GroupsDisjoint
<1>1. IInv => GroupsDisjoint
  BY DEF IInv
<1> QED
  BY <1>1, Invariance, PTL

(* No group of any file runs past its first line into a rule header.       *)
THEOREM RuleSafety == Spec => []NoRuleSwallowed
<1>1. IInv => NoRuleSwallowed
  BY DEF IInv
<1> QED
  BY <1>1, Invariance, PTL

(* No root-level header of any file that is parsed is left out.            *)
THEOREM HeaderSafety == Spec => []NoHeaderLost
<1>1. IInv => NoHeaderLost
  BY DEF IInv, HeadersCovered, NoHeaderLost, TypeOK
<1> QED
  BY <1>1, Invariance, PTL
-----------------------------------------------------------------------------
(* FlattenSeq, by induction on the numbers as a set: the library's         *)
(* theorem takes a predicate, which the provers cannot instantiate.        *)
LEMMA AppendOne ==
  ASSUME NEW S, NEW s \in Seq(S), NEW e \in S
  PROVE  Append(s, e) \in Seq(S) /\ DOMAIN Append(s, e) = 1..Len(s) + 1
<1>1. Append(s, e) \in Seq(S)
  OBVIOUS
<1>2. DOMAIN Append(s, e) = 1..Len(s) + 1
  OBVIOUS
<1> QED BY <1>1, <1>2

LEMMA AppendElement ==
  ASSUME NEW S, NEW s \in Seq(S), NEW e \in S, NEW k \in 1..Len(s)
  PROVE  Append(s, e)[k] = s[k]
OBVIOUS

LEMMA AppendLast ==
  ASSUME NEW S, NEW s \in Seq(S), NEW e \in S, NEW k \in {Len(s) + 1}
  PROVE  Append(s, e)[k] = e
OBVIOUS

(* A set of numbers that has 0 and the successor of each of its elements   *)
(* has all.                                                                *)
LEMMA SetInduction ==
  ASSUME NEW T, 0 \in T, \A u \in Nat : u \in T => u + 1 \in T
  PROVE  Nat \subseteq T
<1> DEFINE Less == OpToRel(<, Nat)
<1>1. \A a, b \in Nat : <<a, b>> \in Less <=> a < b
  BY DEF OpToRel
<1>2. IsWellFoundedOn(Less, Nat)
  BY NatLessThanWellFounded
<1> HIDE DEF Less
<1> SUFFICES ASSUME Nat \ T # {} PROVE FALSE
  OBVIOUS
<1>3. PICK x \in Nat \ T : \A y \in Nat \ T : <<y, x>> \notin Less
  BY <1>2, WFMin
<1>4. x # 0 /\ x - 1 \in Nat /\ x - 1 < x /\ (x - 1) + 1 = x
  BY <1>3
<1>5. x - 1 \in T
  BY <1>1, <1>3, <1>4
<1> QED BY <1>3, <1>4, <1>5

(* FlattenSeq's function: f[i] is the first i sequences of ss in one.      *)
Flattens(f, ss, u, S) ==
    /\ f \in [1 .. u -> Seq(S)]
    /\ \A j \in 1 .. u : f[j] = IF j = 1 THEN ss[j] ELSE f[j - 1] \o ss[j]

LEMMA ConcatType ==
  ASSUME NEW S, NEW s \in Seq(S), NEW t \in Seq(S)
  PROVE  s \o t \in Seq(S)
OBVIOUS

LEMMA FlattenExists ==
  ASSUME NEW S, NEW ss \in Seq(Seq(S))
  PROVE  \E f : Flattens(f, ss, Len(ss), S)
<1> DEFINE T == {u \in Nat : u <= Len(ss) => \E f : Flattens(f, ss, u, S)}
<1>1. 0 \in T
  <2>1. [j \in 1 .. 0 |-> << >>] \in [1 .. 0 -> Seq(S)] /\ \A j \in 1 .. 0 : FALSE
    OBVIOUS
  <2>2. Flattens([j \in 1 .. 0 |-> << >>], ss, 0, S)
    BY <2>1 DEF Flattens
  <2> QED BY <2>2
<1>2. ASSUME NEW u \in Nat, u \in T PROVE u + 1 \in T
  <2> SUFFICES ASSUME u + 1 <= Len(ss) PROVE \E f : Flattens(f, ss, u + 1, S)
    OBVIOUS
  <2>1. PICK f : Flattens(f, ss, u, S)
    BY <1>2
  <2> DEFINE last == IF u = 0 THEN ss[u + 1] ELSE f[u] \o ss[u + 1]
             g == [j \in 1 .. u + 1 |-> IF j = u + 1 THEN last ELSE f[j]]
  <2>2. ss[u + 1] \in Seq(S)
    OBVIOUS
  <2>3. last \in Seq(S)
    <3>1. CASE u = 0
      BY <2>2, <3>1
    <3>2. CASE u # 0
      <4>1. f[u] \in Seq(S)
        BY <2>1, <3>2 DEF Flattens
      <4> QED BY <2>2, <3>2, <4>1, ConcatType
    <3> QED BY <3>1, <3>2
  <2> HIDE DEF last
  <2>4. g \in [1 .. u + 1 -> Seq(S)] /\ g[u + 1] = last /\ \A j \in 1 .. u : g[j] = f[j]
    <3>1. \A j \in 1 .. u : j \in 1 .. u + 1 /\ j # u + 1
      OBVIOUS
    <3>2. \A j \in 1 .. u + 1 : j # u + 1 => j \in 1 .. u
      OBVIOUS
    <3>3. f \in [1 .. u -> Seq(S)] /\ u + 1 \in 1 .. u + 1
      BY <2>1 DEF Flattens
    <3>4. g \in [1 .. u + 1 -> Seq(S)]
      BY <2>3, <3>2, <3>3
    <3> QED BY <3>1, <3>3, <3>4
  <2> HIDE DEF g
  <2>5. ASSUME NEW j \in 1 .. u + 1
        PROVE  g[j] = IF j = 1 THEN ss[j] ELSE g[j - 1] \o ss[j]
    <3>1. CASE j = u + 1
      <4>1. CASE u = 0
        BY <2>4, <3>1, <4>1 DEF last
      <4>2. CASE u # 0
        <5>0. u \in 1 .. u /\ j - 1 = u /\ j # 1
          BY <3>1, <4>2
        <5>1. g[u] = f[u] /\ j - 1 = u /\ j # 1
          BY <2>4, <5>0
        <5>2. g[j] = last /\ last = f[u] \o ss[j]
          BY <2>4, <3>1, <4>2 DEF last
        <5> QED BY <5>1, <5>2
      <4> QED BY <4>1, <4>2
    <3>2. CASE j # u + 1
      <4>1. j \in 1 .. u /\ (j # 1 => j - 1 \in 1 .. u)
        BY <3>2
      <4>2. f[j] = IF j = 1 THEN ss[j] ELSE f[j - 1] \o ss[j]
        BY <2>1, <4>1 DEF Flattens
      <4>3. CASE j = 1
        BY <2>4, <4>1, <4>2, <4>3
      <4>4. CASE j # 1
        <5>1. g[j] = f[j] /\ g[j - 1] = f[j - 1]
          BY <2>4, <4>1, <4>4
        <5> QED BY <4>2, <4>4, <5>1
      <4> QED BY <4>3, <4>4
    <3> QED BY <3>1, <3>2
  <2>6. Flattens(g, ss, u + 1, S)
    BY <2>4, <2>5 DEF Flattens
  <2> QED BY <2>6
<1> HIDE DEF T
<1>3. Nat \subseteq T
  BY <1>1, <1>2, SetInduction
<1>4. Len(ss) \in T
  BY <1>3
<1> QED BY <1>4 DEF T

LEMMA FlattenOne ==
  ASSUME NEW S, NEW ss \in Seq(Seq(S)), ss # << >>
  PROVE  \E f : Flattens(f, ss, Len(ss), S) /\ FlattenSeq(ss) = f[Len(ss)]
<1> DEFINE u == Len(ss)
           Step(f) == [j \in 1 .. u |-> IF j = 1 THEN ss[j] ELSE f[j - 1] \o ss[j]]
           fl == CHOOSE f : f = Step(f)
<1>1. u \in Nat /\ u # 0
  OBVIOUS
<1>2. FlattenSeq(ss) = fl[u]
  BY <1>1 DEF FlattenSeq
<1>3. PICK f : Flattens(f, ss, u, S)
  BY FlattenExists
<1>4. f = Step(f)
  BY <1>3 DEF Flattens
<1>5. fl = Step(fl)
  BY <1>4
<1> HIDE DEF fl, u
<1>6. \A j \in 1 .. u : fl[j] = IF j = 1 THEN ss[j] ELSE fl[j - 1] \o ss[j]
  BY <1>5
<1>7. DOMAIN fl = 1 .. u /\ fl = [j \in 1 .. u |-> fl[j]]
  BY <1>5
<1> DEFINE T == {m \in Nat : m \in 1 .. u => fl[m] \in Seq(S)}
<1>8. 0 \in T
  OBVIOUS
<1>9. ASSUME NEW m \in Nat, m \in T PROVE m + 1 \in T
  <2> SUFFICES ASSUME m + 1 \in 1 .. u PROVE fl[m + 1] \in Seq(S)
    OBVIOUS
  <2>1. ss[m + 1] \in Seq(S)
    BY DEF u
  <2>2. CASE m = 0
    BY <1>6, <2>1, <2>2
  <2>3. CASE m # 0
    <3>1. m \in 1 .. u /\ (m + 1) - 1 = m /\ m + 1 # 1
      BY <1>1, <2>3
    <3>2. fl[m + 1] = fl[m] \o ss[m + 1]
      BY <1>6, <3>1
    <3>3. fl[m] \in Seq(S)
      BY <1>9, <3>1
    <3> QED BY <2>1, <3>2, <3>3, ConcatType
  <2> QED BY <2>2, <2>3
<1> HIDE DEF T
<1>10. Nat \subseteq T
  BY <1>8, <1>9, SetInduction
<1>11. \A m \in 1 .. u : fl[m] \in Seq(S)
  BY <1>10 DEF T
<1>12. Flattens(fl, ss, u, S)
  BY <1>6, <1>7, <1>11 DEF Flattens
<1> QED BY <1>2, <1>12 DEF u

(* One more sequence at the end of ss.                                     *)
LEMMA FlattenAppend ==
  ASSUME NEW S, NEW ss \in Seq(Seq(S)), NEW s \in Seq(S)
  PROVE  /\ FlattenSeq(ss) \in Seq(S)
         /\ FlattenSeq(Append(ss, s)) = FlattenSeq(ss) \o s
<1> DEFINE tt == Append(ss, s)
           u == Len(ss)
<1>1. /\ tt \in Seq(Seq(S)) /\ tt # << >> /\ Len(tt) = u + 1 /\ u \in Nat
      /\ tt[u + 1] = s
      /\ \A j \in 1 .. u : tt[j] = ss[j]
  <2>1. tt \in Seq(Seq(S)) /\ DOMAIN tt = 1 .. u + 1 /\ u \in Nat
    BY AppendOne
  <2>2. tt # << >> /\ Len(tt) = u + 1
    <3> HIDE DEF tt
    <3> QED BY <2>1
  <2> QED BY <2>1, <2>2, AppendElement, AppendLast
<1> HIDE DEF tt
<1>2. PICK g : Flattens(g, tt, u + 1, S) /\ FlattenSeq(tt) = g[u + 1]
  BY <1>1, FlattenOne
<1>3. CASE ss = << >>
  <2>1. u = 0 /\ FlattenSeq(ss) = << >>
    BY <1>3 DEF FlattenSeq
  <2>2. g[1] = s
    BY <1>1, <1>2, <2>1 DEF Flattens
  <2>3. << >> \o s = s /\ << >> \in Seq(S)
    OBVIOUS
  <2> QED BY <1>2, <2>1, <2>2, <2>3 DEF tt
<1>4. CASE ss # << >>
  <2>1. PICK f : Flattens(f, ss, u, S) /\ FlattenSeq(ss) = f[u]
    BY <1>4, FlattenOne
  <2>2. u # 0
    BY <1>4
  <2> HIDE DEF u
  <2> DEFINE T == {m \in Nat : m \in 1 .. u => f[m] = g[m]}
  <2>3. 0 \in T
    OBVIOUS
  <2>4. ASSUME NEW m \in Nat, m \in T PROVE m + 1 \in T
    <3> SUFFICES ASSUME m + 1 \in 1 .. u PROVE f[m + 1] = g[m + 1]
      OBVIOUS
    <3>1. m + 1 \in 1 .. u + 1
      BY <1>1
    <3>2. /\ f[m + 1] = IF m + 1 = 1 THEN ss[m + 1] ELSE f[(m + 1) - 1] \o ss[m + 1]
          /\ g[m + 1] = IF m + 1 = 1 THEN tt[m + 1] ELSE g[(m + 1) - 1] \o tt[m + 1]
      BY <1>2, <2>1, <3>1 DEF Flattens
    <3>3. tt[m + 1] = ss[m + 1] /\ (m + 1) - 1 = m
      BY <1>1
    <3>4. CASE m = 0
      BY <3>2, <3>3, <3>4
    <3>5. CASE m # 0
      <4>1. f[m] = g[m] /\ m + 1 # 1
        BY <1>1, <2>4, <3>5
      <4> QED BY <3>2, <3>3, <4>1
    <3> QED BY <3>4, <3>5
  <2> HIDE DEF T
  <2>5. Nat \subseteq T
    BY <2>3, <2>4, SetInduction
  <2>a. u \in Nat
    BY <1>1
  <2>6. f[u] = g[u]
    <3>1. u \in 1 .. u
      BY <2>2, <2>a
    <3> QED BY <2>5, <2>a, <3>1 DEF T
  <2>7. u + 1 \in 1 .. u + 1 /\ u + 1 # 1 /\ (u + 1) - 1 = u
    BY <2>2, <2>a
  <2>8. g[u + 1] = g[u] \o tt[u + 1]
    BY <1>2, <2>7 DEF Flattens
  <2>9. f[u] \in Seq(S)
    BY <1>1, <2>1, <2>2 DEF Flattens
  <2> QED BY <1>1, <1>2, <2>1, <2>6, <2>8, <2>9 DEF tt
<1> QED BY <1>3, <1>4

(* The first m of the sequences in g, in one.                              *)
Gathered(g, m) == FlattenSeq([k \in 1 .. m |-> g[k]])

LEMMA GatheredParts ==
  ASSUME NEW S, NEW g \in Seq(Seq(S))
  PROVE  /\ Gathered(g, 0) = << >>
         /\ Gathered(g, Len(g)) = FlattenSeq(g)
         /\ \A m \in 0 .. Len(g) : Gathered(g, m) \in Seq(S)
         /\ \A m \in 1 .. Len(g) : Gathered(g, m) = Gathered(g, m - 1) \o g[m]
<1>1. Gathered(g, 0) = << >>
  BY DEF Gathered, FlattenSeq
<1>2. g = [k \in 1 .. Len(g) |-> g[k]]
  OBVIOUS
<1>3. Gathered(g, Len(g)) = FlattenSeq(g)
  BY <1>2 DEF Gathered
<1>4. ASSUME NEW m \in 0 .. Len(g) PROVE [k \in 1 .. m |-> g[k]] \in Seq(Seq(S))
  <2>1. \A k \in 1 .. m : g[k] \in Seq(S)
    OBVIOUS
  <2>2. m \in Nat
    OBVIOUS
  <2> QED BY <2>1, <2>2
<1>5. ASSUME NEW m \in 0 .. Len(g) PROVE Gathered(g, m) \in Seq(S)
  <2>1. \E s \in Seq(S) : TRUE
    OBVIOUS
  <2> QED BY <1>4, <2>1, FlattenAppend DEF Gathered
<1>6. ASSUME NEW m \in 1 .. Len(g) PROVE Gathered(g, m) = Gathered(g, m - 1) \o g[m]
  <2> DEFINE h == [k \in 1 .. m - 1 |-> g[k]]
  <2>1. h \in Seq(Seq(S)) /\ g[m] \in Seq(S)
    BY <1>4
  <2>2. Append(h, g[m]) = [k \in 1 .. m |-> g[k]]
    <3>1. m - 1 \in Nat /\ Len(h) = m - 1 /\ (m - 1) + 1 = m
      OBVIOUS
    <3>2. Append(h, g[m]) \in Seq(Seq(S)) /\ DOMAIN Append(h, g[m]) = 1 .. m
      BY <2>1, <3>1, AppendOne
    <3>3. ASSUME NEW k \in 1 .. m PROVE Append(h, g[m])[k] = g[k]
      <4>1. CASE k = m
        BY <2>1, <3>1, <4>1, AppendLast
      <4>2. CASE k # m
        <5>1. k \in 1 .. Len(h) /\ h[k] = g[k]
          BY <3>1, <4>2
        <5> QED BY <2>1, <5>1, AppendElement
      <4> QED BY <4>1, <4>2
    <3> QED BY <3>2, <3>3
  <2> HIDE DEF h
  <2>3. FlattenSeq(Append(h, g[m])) = FlattenSeq(h) \o g[m]
    BY <2>1, FlattenAppend
  <2> QED BY <2>2, <2>3 DEF Gathered, h
<1> QED BY <1>1, <1>3, <1>5, <1>6

LEMMA GatheredNone ==
  ASSUME NEW S, NEW g \in Seq(Seq(S)), NEW m \in 0 .. Len(g), \A k \in 1 .. m : g[k] = << >>
  PROVE  Gathered(g, m) = << >>
<1> DEFINE T == {u \in Nat : u <= m => Gathered(g, u) = << >>}
<1>1. 0 \in T
  BY GatheredParts
<1>2. ASSUME NEW u \in Nat, u \in T PROVE u + 1 \in T
  <2> SUFFICES ASSUME u + 1 <= m PROVE Gathered(g, u + 1) = << >>
    OBVIOUS
  <2>1. u + 1 \in 1 .. Len(g) /\ u + 1 \in 1 .. m /\ (u + 1) - 1 = u
    OBVIOUS
  <2>2. Gathered(g, u + 1) = Gathered(g, u) \o g[u + 1]
    BY <2>1, GatheredParts
  <2>3. Gathered(g, u) = << >> /\ g[u + 1] = << >>
    <3>1. Gathered(g, u) = << >>
      BY <1>2
    <3>2. g[u + 1] = << >>
      BY <2>1
    <3> QED BY <3>1, <3>2
  <2> QED BY <2>2, <2>3
<1> HIDE DEF T
<1>3. Nat \subseteq T
  BY <1>1, <1>2, SetInduction
<1> QED BY <1>3 DEF T
-----------------------------------------------------------------------------
(* A regular file as a reader sees it.                                     *)
LEMMA DepthParts ==
  ASSUME NEW f \in Seq(Line)
  PROVE  /\ Depth(f)[0] = 0
         /\ \A k \in 1 .. Len(f) :
                Depth(f)[k] = Depth(f)[k - 1] + (IF f[k].hash THEN 0 ELSE f[k].net)
         /\ \A k \in 0 .. Len(f) : Depth(f)[k] \in Int
<1> DEFINE Rise(k) == IF f[k].hash THEN 0 ELSE f[k].net
           Sums(d, m) == /\ d \in [0 .. m -> Int]
                         /\ \A k \in 0 .. m : d[k] = IF k = 0 THEN 0 ELSE d[k - 1] + Rise(k)
           T == {m \in Nat : m <= Len(f) => \E d : Sums(d, m)}
<1>1. \A k \in 1 .. Len(f) : Rise(k) \in Int
  <2>1. \A k \in 1 .. Len(f) : f[k] \in Line
    OBVIOUS
  <2> QED BY <2>1 DEF Line
<1> HIDE DEF Rise
<1>2. 0 \in T
  <2>1. Sums([k \in 0 .. 0 |-> 0], 0)
    OBVIOUS
  <2> QED BY <2>1
<1>3. ASSUME NEW m \in Nat, m \in T PROVE m + 1 \in T
  <2> HIDE DEF Sums
  <2> SUFFICES ASSUME m + 1 <= Len(f) PROVE \E d : Sums(d, m + 1)
    OBVIOUS
  <2>0. PICK d : Sums(d, m)
    BY <1>3
  <2>1. /\ d \in [0 .. m -> Int]
        /\ \A k \in 0 .. m : d[k] = IF k = 0 THEN 0 ELSE d[k - 1] + Rise(k)
    BY <2>0 DEF Sums
  <2> DEFINE g == [k \in 0 .. m + 1 |-> IF k = m + 1 THEN d[m] + Rise(m + 1) ELSE d[k]]
  <2>2. m \in 0 .. m /\ m + 1 \in 1 .. Len(f)
    OBVIOUS
  <2>3. d[m] \in Int /\ Rise(m + 1) \in Int
    BY <1>1, <2>1, <2>2
  <2>4. \A k \in 0 .. m + 1 : k # m + 1 => k \in 0 .. m
    OBVIOUS
  <2>5. g \in [0 .. m + 1 -> Int]
    BY <2>1, <2>3, <2>4
  <2>6. g[m + 1] = d[m] + Rise(m + 1) /\ \A k \in 0 .. m : g[k] = d[k]
    OBVIOUS
  <2> HIDE DEF g
  <2>7. ASSUME NEW k \in 0 .. m + 1 PROVE g[k] = IF k = 0 THEN 0 ELSE g[k - 1] + Rise(k)
    <3>1. CASE k = m + 1
      <4>1. k - 1 = m /\ k # 0
        BY <3>1
      <4> QED BY <2>2, <2>6, <3>1, <4>1
    <3>2. CASE k # m + 1
      <4>1. k \in 0 .. m /\ (k # 0 => k - 1 \in 0 .. m)
        BY <3>2
      <4> QED BY <2>1, <2>6, <4>1
    <3> QED BY <3>1, <3>2
  <2>8. Sums(g, m + 1)
    BY <2>5, <2>7 DEF Sums
  <2> QED BY <2>8
<1> HIDE DEF T
<1>4. Len(f) \in T
  BY <1>2, <1>3, SetInduction
<1>5. PICK d : Sums(d, Len(f))
  BY <1>4 DEF T
<1>6. d = [k \in 0 .. Len(f) |-> IF k = 0 THEN 0 ELSE d[k - 1] + Rise(k)]
  BY <1>5
<1> DEFINE D == CHOOSE e : e = [k \in 0 .. Len(f) |-> IF k = 0 THEN 0 ELSE e[k - 1] + Rise(k)]
<1>7. D = [k \in 0 .. Len(f) |-> IF k = 0 THEN 0 ELSE D[k - 1] + Rise(k)]
  BY <1>6
<1>8. Depth(f) = D
  BY DEF Depth, Rise
<1> HIDE DEF D
<1>9. \A k \in 0 .. Len(f) : D[k] = IF k = 0 THEN 0 ELSE D[k - 1] + Rise(k)
  BY <1>7
<1> DEFINE U == {m \in Nat : m <= Len(f) => D[m] \in Int}
<1>10. 0 \in U
  BY <1>9
<1>11. ASSUME NEW m \in Nat, m \in U PROVE m + 1 \in U
  <2> SUFFICES ASSUME m + 1 <= Len(f) PROVE D[m + 1] \in Int
    OBVIOUS
  <2>1. m + 1 \in 0 .. Len(f) /\ m + 1 # 0 /\ (m + 1) - 1 = m /\ m + 1 \in 1 .. Len(f)
    OBVIOUS
  <2>2. D[m + 1] = D[m] + Rise(m + 1)
    BY <1>9, <2>1
  <2> QED BY <1>1, <1>11, <2>1, <2>2
<1> HIDE DEF U
<1>12. Nat \subseteq U
  BY <1>10, <1>11, SetInduction
<1>13. \A k \in 0 .. Len(f) : D[k] \in Int
  BY <1>12 DEF U
<1>14. D[0] = 0 /\ \A k \in 1 .. Len(f) : D[k] = D[k - 1] + Rise(k)
  BY <1>9
<1> QED BY <1>8, <1>13, <1>14 DEF Rise

LEMMA Least ==
  ASSUME NEW S \in SUBSET Nat, S # {}
  PROVE  \E k \in S : \A m \in S : k <= m
<1> DEFINE Less == OpToRel(<, Nat)
<1>1. \A a, b \in Nat : <<a, b>> \in Less <=> a < b
  BY DEF OpToRel
<1>2. IsWellFoundedOn(Less, Nat)
  BY NatLessThanWellFounded
<1> HIDE DEF Less
<1>3. PICK x \in S : \A y \in S : <<y, x>> \notin Less
  BY <1>2, WFMin
<1>4. \A y \in S : y \in Nat /\ x \in Nat /\ ~(y < x)
  BY <1>1, <1>3
<1> QED BY <1>4

LEMMA Greatest ==
  ASSUME NEW u \in Nat, NEW S \in SUBSET (1 .. u), S # {}
  PROVE  \E k \in S : \A m \in S : m <= k
<1> DEFINE T == {u - x : x \in S}
<1>1. T \in SUBSET Nat /\ T # {}
  <2>1. \A x \in S : u - x \in Nat
    OBVIOUS
  <2> QED BY <2>1
<1>2. PICK k \in T : \A m \in T : k <= m
  BY <1>1, Least
<1>3. PICK x \in S : k = u - x
  BY <1>2
<1>4. \A y \in S : y <= x
  <2> TAKE y \in S
  <2>1. u - y \in T
    OBVIOUS
  <2> QED BY <1>2, <1>3, <2>1
<1> QED BY <1>3, <1>4

Good(f) == f \in Seq(Line) /\ Regular(f) /\ \A k \in DOMAIN f : Possible(f[k])

LEMMA SpanParts ==
  ASSUME NEW f \in Seq(Line), NEW s \in Spans(f)
  PROVE  /\ s.from \in 1 .. Len(f) /\ s.to \in 1 .. Len(f) /\ s.from <= s.to
         /\ Depth(f)[s.from - 1] = 0 /\ Depth(f)[s.to] = 0
         /\ IsRoot(f[s.from])
         /\ \A p \in s.from .. s.to - 1 : Depth(f)[p] # 0
<1>1. DOMAIN f = 1 .. Len(f)
  OBVIOUS
<1>2. s \in [from : 1 .. Len(f), to : 1 .. Len(f)]
  BY <1>1 DEF Spans
<1> QED BY <1>2 DEF Spans

LEMMA SpanMade ==
  ASSUME NEW f \in Seq(Line), NEW a \in 1 .. Len(f), NEW b \in 1 .. Len(f), a <= b,
         Depth(f)[a - 1] = 0, Depth(f)[b] = 0, IsRoot(f[a]),
         \A p \in a .. b - 1 : Depth(f)[p] # 0
  PROVE  [from |-> a, to |-> b] \in Spans(f)
BY DEF Spans

(* No line is in two objects.                                              *)
LEMMA SpansApart ==
  ASSUME NEW f \in Seq(Line), NEW s \in Spans(f), NEW t \in Spans(f),
         NEW k \in s.from .. s.to, k \in t.from .. t.to
  PROVE  s = t
<1>1. /\ s.from \in Nat /\ s.to \in Nat /\ t.from \in Nat /\ t.to \in Nat /\ k \in Nat
      /\ 1 <= s.from /\ 1 <= t.from
  BY SpanParts
<1>2. s.from = t.from
  <2>1. CASE s.from < t.from
    <3>1. t.from - 1 \in s.from .. s.to - 1
      BY <1>1, <2>1
    <3> QED BY <3>1, SpanParts
  <2>2. CASE t.from < s.from
    <3>1. s.from - 1 \in t.from .. t.to - 1
      BY <1>1, <2>2
    <3> QED BY <3>1, SpanParts
  <2> QED BY <1>1, <2>1, <2>2
<1>3. s.to = t.to
  <2>1. CASE s.to < t.to
    <3>1. s.to \in t.from .. t.to - 1
      BY <1>1, <1>2, <2>1
    <3> QED BY <3>1, SpanParts
  <2>2. CASE t.to < s.to
    <3>1. t.to \in s.from .. s.to - 1
      BY <1>1, <1>2, <2>2
    <3> QED BY <3>1, SpanParts
  <2> QED BY <1>1, <2>1, <2>2
<1>4. \A x \in Spans(f) : x = [from |-> x.from, to |-> x.to]
  BY DEF Spans
<1> QED BY <1>2, <1>3, <1>4

(* A line outside of the objects, and a line behind the first one of an    *)
(* object.                                                                 *)
LEMMA TopParts ==
  ASSUME NEW f, Good(f), NEW k \in 1 .. Len(f), Depth(f)[k - 1] = 0
  PROVE  \/ /\ IsRoot(f[k]) /\ Depth(f)[k] = 1 /\ ~f[k].blank /\ ~f[k].hash
            /\ f[k].opens /\ ~f[k].oneLine
            /\ ~(f[k].rule /\ f[k].topology)
         \/ /\ IsRoot(f[k]) /\ Depth(f)[k] = 0 /\ ~f[k].blank /\ ~f[k].hash
            /\ f[k].oneLine /\ ~f[k].rule /\ ~f[k].topology
         \/ /\ ~IsRoot(f[k]) /\ Depth(f)[k] = 0 /\ ~f[k].topology
            /\ ~f[k].blank /\ ~f[k].hashSpace => ~f[k].opens /\ ~f[k].oneLine
            /\ f[k].rule => f[k].hashSpace
<1> DEFINE l == f[k]
<1>1. /\ l \in Line /\ Possible(l)
      /\ l.blank \in BOOLEAN /\ l.opens \in BOOLEAN /\ l.oneLine \in BOOLEAN
      /\ l.hash \in BOOLEAN /\ l.rule \in BOOLEAN /\ l.topology \in BOOLEAN
      /\ l.hashSpace \in BOOLEAN /\ l.net \in Int
  <2>1. l \in Line /\ Possible(l)
    BY DEF Good
  <2> QED BY <2>1 DEF Line
<1>2. Depth(f)[k] = IF l.hash THEN 0 ELSE l.net
  <2>1. Depth(f)[k] = 0 + (IF l.hash THEN 0 ELSE l.net)
    BY DepthParts DEF Good
  <2> QED BY <1>1, <2>1
<1>3. /\ l.blank \/ l.hashSpace \/ IsRoot(l) \/ (l.hash /\ ~l.opens /\ ~l.oneLine /\ ~l.rule)
      /\ (l.rule \/ l.topology) /\ ~l.hash => l.opens /\ ~l.oneLine /\ l.rule # l.topology
  BY DEF Good, Regular
<1> HIDE DEF l
<1>4. CASE IsRoot(l)
  <2>1. ~l.hash /\ ~l.blank
    BY <1>1, <1>4 DEF IsRoot, Possible
  <2>2. CASE l.opens /\ ~l.oneLine /\ l.net = 1
    BY <1>1, <1>2, <1>3, <1>4, <2>1, <2>2 DEF l
  <2>3. CASE l.oneLine /\ l.net = 0
    BY <1>1, <1>2, <1>3, <1>4, <2>1, <2>3 DEF l
  <2> QED BY <1>4, <2>2, <2>3 DEF IsRoot
<1>5. CASE ~IsRoot(l)
  <2>1. Depth(f)[k] = 0
    BY <1>1, <1>2, <1>3, <1>5 DEF Possible
  <2>2. ~l.topology
    BY <1>1, <1>3, <1>5 DEF Possible
  <2>3. l.rule => l.hashSpace
    BY <1>1, <1>3, <1>5 DEF Possible
  <2>4. ~l.blank /\ ~l.hashSpace => ~l.opens /\ ~l.oneLine
    BY <1>3, <1>5
  <2> QED BY <1>5, <2>1, <2>2, <2>3, <2>4 DEF l
<1> QED BY <1>4, <1>5

LEMMA InParts ==
  ASSUME NEW f, Good(f), NEW s \in Spans(f), NEW k \in s.from + 1 .. s.to
  PROVE  /\ k \in 1 .. Len(f)
         /\ f[k] \in Line /\ Possible(f[k])
         /\ Depth(f)[k - 1] \in Nat /\ Depth(f)[k - 1] # 0
         /\ Depth(f)[k] \in Nat /\ (Depth(f)[k] = 0 <=> k = s.to)
         /\ Depth(f)[k] = Depth(f)[k - 1] + (IF f[k].hash THEN 0 ELSE f[k].net)
         /\ ~f[k].topology /\ (f[k].rule => f[k].hash)
         /\ f[k].special /\ f[s.from].rule => f[k].net = 0
         /\ f[k].hash /\ ~f[s.from].rule => f[k].hashSpace
         /\ f[s.from].topology => f[k].close = (k = s.to)
         /\ ~f[k].hash => f[k].raw = f[k].net
<1>0. f \in Seq(Line)
  BY DEF Good
<1>1. /\ s.from \in 1 .. Len(f) /\ s.to \in 1 .. Len(f)
      /\ k \in 1 .. Len(f) /\ k - 1 \in 1 .. Len(f) /\ k - 1 \in s.from .. s.to - 1
      /\ k - 1 \in 0 .. Len(f) /\ k \in 0 .. Len(f)
  BY <1>0, SpanParts
<1>2. f[k] \in Line /\ Possible(f[k])
  BY <1>1 DEF Good
<1>3. Depth(f)[k - 1] \in Nat /\ Depth(f)[k - 1] # 0 /\ Depth(f)[k] \in Nat
  <2>1. Depth(f)[k - 1] \in Int /\ Depth(f)[k] \in Int
    BY <1>0, <1>1, DepthParts
  <2>2. Depth(f)[k - 1] >= 0 /\ Depth(f)[k] >= 0
    BY <1>1 DEF Good, Regular
  <2> QED BY <1>0, <1>1, <2>1, <2>2, SpanParts
<1>4. Depth(f)[k] = 0 <=> k = s.to
  <2>1. CASE k # s.to
    <3>1. k \in s.from .. s.to - 1
      BY <1>1, <2>1
    <3> QED BY <1>0, <2>1, <3>1, SpanParts
  <2> QED BY <1>0, <2>1, SpanParts
<1>5. Depth(f)[k] = Depth(f)[k - 1] + (IF f[k].hash THEN 0 ELSE f[k].net)
  BY <1>0, <1>1, DepthParts
<1>6. (f[k].rule \/ f[k].topology) /\ ~f[k].hash => Depth(f)[k - 1] = 0
  BY <1>1 DEF Good, Regular
<1>7. ~f[k].hash => f[k].raw = f[k].net
  BY <1>1 DEF Good, Regular
<1>8. /\ f[k].special /\ f[s.from].rule => f[k].net = 0
      /\ f[k].hash /\ ~f[s.from].rule => f[k].hashSpace
      /\ f[s.from].topology => f[k].close = (k = s.to)
  BY DEF Good, Regular
<1>9. ~f[k].topology /\ (f[k].rule => f[k].hash)
  BY <1>2, <1>3, <1>6 DEF Possible
<1> QED BY <1>1, <1>2, <1>3, <1>4, <1>5, <1>7, <1>8, <1>9

LEMMA EndExists ==
  ASSUME NEW f, Good(f), NEW k \in 1 .. Len(f)
  PROVE  \E b \in k .. Len(f) : /\ Depth(f)[b] = 0
                                /\ \A p \in k .. b - 1 : Depth(f)[p] # 0
<1> DEFINE S == {b \in k .. Len(f) : Depth(f)[b] = 0}
<1>1. Len(f) \in S
  BY DEF Good, Regular
<1>2. S \in SUBSET Nat
  OBVIOUS
<1>3. PICK b \in S : \A m \in S : b <= m
  BY <1>1, <1>2, Least
<1>4. \A p \in k .. b - 1 : p \in k .. Len(f) /\ ~(b <= p)
  BY DEF Good
<1> QED BY <1>3, <1>4

LEMMA SpanStarts ==
  ASSUME NEW f, Good(f), NEW k \in 1 .. Len(f), Depth(f)[k - 1] = 0, IsRoot(f[k])
  PROVE  \E s \in Spans(f) : s.from = k
<1>1. f \in Seq(Line)
  BY DEF Good
<1>2. PICK b \in k .. Len(f) : Depth(f)[b] = 0 /\ \A p \in k .. b - 1 : Depth(f)[p] # 0
  BY EndExists
<1>3. b \in 1 .. Len(f) /\ k <= b
  BY <1>1
<1>4. [from |-> k, to |-> b] \in Spans(f)
  BY <1>1, <1>2, <1>3, SpanMade
<1> QED BY <1>4

LEMMA SpanHere ==
  ASSUME NEW f, Good(f), NEW k \in 1 .. Len(f), Depth(f)[k - 1] # 0
  PROVE  \E s \in Spans(f) : s.from < k /\ k <= s.to
<1>0. f \in Seq(Line) /\ Len(f) \in Nat
  BY DEF Good
<1> DEFINE S == {m \in 1 .. k : Depth(f)[m - 1] = 0}
<1>1. k \in Nat /\ 1 \in S /\ S \in SUBSET (1 .. k)
  BY <1>0, DepthParts
<1>2. PICK a \in S : \A m \in S : m <= a
  BY <1>1, Greatest
<1>3. a \in 1 .. Len(f) /\ a < k
  BY <1>2
<1>4. ASSUME NEW p \in a .. k - 1 PROVE Depth(f)[p] # 0
  <2> SUFFICES ASSUME Depth(f)[p] = 0 PROVE FALSE
    OBVIOUS
  <2>1. p + 1 \in 1 .. k /\ (p + 1) - 1 = p /\ p + 1 > a
    BY <1>3
  <2> QED BY <1>2, <2>1
<1>5. IsRoot(f[a])
  <2>1. a \in a .. k - 1
    BY <1>3
  <2> QED BY <1>2, <1>3, <1>4, <2>1, TopParts
<1>6. PICK b \in k .. Len(f) : Depth(f)[b] = 0 /\ \A p \in k .. b - 1 : Depth(f)[p] # 0
  BY EndExists
<1>7. b \in 1 .. Len(f) /\ a <= b /\ k <= b
  BY <1>0, <1>3
<1>8. \A p \in a .. b - 1 : Depth(f)[p] # 0
  <2> TAKE p \in a .. b - 1
  <2>1. p \in a .. k - 1 \/ p \in k .. b - 1
    BY <1>3, <1>7
  <2> QED BY <1>4, <1>6, <2>1
<1>9. [from |-> a, to |-> b] \in Spans(f)
  BY <1>0, <1>2, <1>3, <1>5, <1>6, <1>7, <1>8, SpanMade
<1> QED BY <1>3, <1>7, <1>9

-----------------------------------------------------------------------------
(* An object's lines o, as groupObjects counts their braces: e[p] is the   *)
(* count behind the p-th.                                                  *)
Read(h, l) == ~((l.hash \/ l.special) /\ h.rule)
Rise(h, l) == IF Read(h, l) THEN l.net ELSE 0

Block(o, e) ==
    /\ o \in Seq(Line) /\ e \in Seq(Int) /\ Len(e) = Len(o) /\ Len(o) >= 1
    /\ \/ IsHeader(o[1]) /\ ~IsEmptyObject(o[1]) /\ e[1] = 1
       \/ IsEmptyObject(o[1]) /\ Len(o) = 1 /\ e[1] = 0
    /\ \A p \in 2 .. Len(o) : /\ e[p - 1] # 0
                              /\ e[p] = e[p - 1] + Rise(o[1], o[p])
                              /\ Read(o[1], o[p]) => ~o[p].rule

BlockAt(o, u) == \E e : Block(o, e) /\ e[Len(o)] = u
Closed(o) == BlockAt(o, 0)

(* The objects objs are the intervals at of the lines g, in order, and no  *)
(* other line opens or holds a root object.                                *)
Shape(g, at, objs) ==
    /\ g \in Seq(Line) /\ at \in Seq([from : Nat, to : Nat])
    /\ objs \in Seq(Seq(Line)) /\ Len(objs) = Len(at)
    /\ \A k \in 1 .. Len(at) :
          /\ 1 <= at[k].from /\ at[k].from <= at[k].to /\ at[k].to <= Len(g)
          /\ SubSeq(g, at[k].from, at[k].to) = objs[k]
          /\ Closed(objs[k])
          /\ \A m \in 1 .. k - 1 : at[m].to < at[k].from
    /\ \A p \in 1 .. Len(g) :
          IsHeader(g[p]) \/ IsEmptyObject(g[p]) =>
              \E k \in 1 .. Len(at) : at[k].from <= p /\ p <= at[k].to

LEMMA AppendPair ==
  ASSUME NEW S, NEW a \in S, NEW b \in S
  PROVE  Append(<<a>>, b) = <<a, b>>
<1> DEFINE p == <<a>>
           q == <<a, b>>
<1>1. p \in Seq(S) /\ Len(p) = 1 /\ p[1] = a
  OBVIOUS
<1>2. q \in Seq(S) /\ DOMAIN q = 1 .. 2 /\ q[1] = a /\ q[2] = b
  OBVIOUS
<1> HIDE DEF p, q
<1> DEFINE r == Append(p, b)
<1>3. r \in Seq(S) /\ DOMAIN r = 1 .. Len(p) + 1
  BY <1>1, AppendOne
<1>4. 1 \in 1 .. Len(p) /\ 2 \in {Len(p) + 1} /\ Len(p) + 1 = 2
  BY <1>1
<1>5. r[1] = a
  BY <1>1, <1>4, AppendElement
<1>6. r[2] = b
  BY <1>1, <1>4, AppendLast
<1>7. DOMAIN r = 1 .. 2
  BY <1>3, <1>4
<1> HIDE DEF r
<1>8. ASSUME NEW k \in 1 .. 2 PROVE r[k] = q[k]
  <2>1. k = 1 \/ k = 2
    OBVIOUS
  <2> QED BY <1>2, <1>5, <1>6, <2>1
<1>9. r = [k \in 1 .. 2 |-> r[k]] /\ q = [k \in 1 .. 2 |-> q[k]]
  <2>1. \A s \in Seq(S) : s = [k \in DOMAIN s |-> s[k]]
    OBVIOUS
  <2> QED BY <1>2, <1>3, <1>7, <2>1
<1>10. r = q
  BY <1>8, <1>9
<1> QED BY <1>10 DEF p, q, r

LEMMA BlockOne ==
  ASSUME NEW l, l \in Line, IsHeader(l), ~IsEmptyObject(l)
  PROVE  BlockAt(<<l>>, 1)
<1> DEFINE o == <<l>>
           e == <<1>>
<1>1. o \in Seq(Line) /\ e \in Seq(Int) /\ Len(o) = 1 /\ Len(e) = 1
  OBVIOUS
<1>2. o[1] = l /\ e[1] = 1
  OBVIOUS
<1> HIDE DEF o, e
<1>3. Block(o, e) /\ e[Len(o)] = 1
  BY <1>1, <1>2 DEF Block
<1>4. BlockAt(o, 1)
  BY <1>3 DEF BlockAt
<1> QED BY <1>4 DEF o

LEMMA ClosedOne ==
  ASSUME NEW l, l \in Line, IsEmptyObject(l)
  PROVE  BlockAt(<<l>>, 0)
<1> DEFINE o == <<l>>
           e == <<0>>
<1>1. o \in Seq(Line) /\ e \in Seq(Int) /\ Len(o) = 1 /\ Len(e) = 1
  OBVIOUS
<1>2. o[1] = l /\ e[1] = 0
  OBVIOUS
<1> HIDE DEF o, e
<1>3. Block(o, e) /\ e[Len(o)] = 0
  BY <1>1, <1>2 DEF Block
<1>4. BlockAt(o, 0)
  BY <1>3 DEF BlockAt
<1> QED BY <1>4 DEF o

(* One line more.                                                          *)
LEMMA BlockMore ==
  ASSUME NEW o, NEW u, u \in Int, BlockAt(o, u), u # 0, NEW l, l \in Line,
         Read(o[1], l) => ~l.rule, NEW v, v \in Int, v = u + Rise(o[1], l)
  PROVE  /\ BlockAt(Append(o, l), v)
         /\ Append(o, l)[1] = o[1]
<1>0. PICK e : Block(o, e) /\ e[Len(o)] = u
  BY DEF BlockAt
<1>1. o \in Seq(Line) /\ e \in Seq(Int) /\ Len(e) = Len(o) /\ Len(o) \in Nat /\ Len(o) >= 1
  BY <1>0 DEF Block
<1> DEFINE q == Append(o, l)
           d == Append(e, v)
<1>2. /\ q \in Seq(Line) /\ Len(q) = Len(o) + 1
      /\ d \in Seq(Int) /\ Len(d) = Len(o) + 1
  BY <1>1
<1>3. /\ \A p \in 1 .. Len(o) : q[p] = o[p] /\ d[p] = e[p]
      /\ q[Len(o) + 1] = l /\ d[Len(o) + 1] = v
  BY <1>1
<1> HIDE DEF q, d
<1>4. q[1] = o[1] /\ d[1] = e[1]
  BY <1>1, <1>3
<1>5. \A p \in 2 .. Len(q) : /\ d[p - 1] # 0
                             /\ d[p] = d[p - 1] + Rise(q[1], q[p])
                             /\ Read(q[1], q[p]) => ~q[p].rule
  <2> TAKE p \in 2 .. Len(q)
  <2>1. CASE p = Len(o) + 1
    <3>1. p - 1 = Len(o) /\ Len(o) \in 1 .. Len(o) /\ d[p - 1] = e[Len(o)]
      BY <1>1, <1>3, <2>1
    <3> QED BY <1>0, <1>3, <1>4, <2>1, <3>1
  <2>2. CASE p # Len(o) + 1
    <3>1. p \in 2 .. Len(o) /\ p \in 1 .. Len(o) /\ p - 1 \in 1 .. Len(o)
      BY <1>1, <1>2, <2>2
    <3>2. d[p - 1] = e[p - 1] /\ d[p] = e[p] /\ q[p] = o[p]
      BY <1>3, <3>1
    <3>3. /\ e[p - 1] # 0 /\ e[p] = e[p - 1] + Rise(o[1], o[p])
          /\ Read(o[1], o[p]) => ~o[p].rule
      BY <1>0, <3>1 DEF Block
    <3> QED BY <1>4, <3>2, <3>3
  <2> QED BY <2>1, <2>2
<1>6. IsHeader(o[1]) /\ ~IsEmptyObject(o[1]) /\ e[1] = 1
  BY <1>0, <1>1 DEF Block
<1>7. Block(q, d) /\ d[Len(q)] = v
  BY <1>1, <1>2, <1>3, <1>4, <1>5, <1>6 DEF Block
<1>8. BlockAt(q, v)
  BY <1>7 DEF BlockAt
<1> QED BY <1>4, <1>8 DEF q

LEMMA ConcatParts ==
  ASSUME NEW g \in Seq(Line), NEW o \in Seq(Line)
  PROVE  /\ g \o o \in Seq(Line) /\ Len(g \o o) = Len(g) + Len(o)
         /\ \A p \in 1 .. Len(g) : (g \o o)[p] = g[p]
         /\ \A p \in Len(g) + 1 .. Len(g) + Len(o) : (g \o o)[p] = o[p - Len(g)]
         /\ \A a, b \in 1 .. Len(g) : SubSeq(g \o o, a, b) = SubSeq(g, a, b)
         /\ SubSeq(g \o o, Len(g) + 1, Len(g) + Len(o)) = o
<1> DEFINE q == g \o o
<1>1. q \in Seq(Line) /\ Len(q) = Len(g) + Len(o) /\ Len(g) \in Nat /\ Len(o) \in Nat
  OBVIOUS
<1>2. \A p \in 1 .. Len(g) : q[p] = g[p]
  OBVIOUS
<1>3. \A p \in Len(g) + 1 .. Len(g) + Len(o) : q[p] = o[p - Len(g)]
  OBVIOUS
<1> HIDE DEF q
<1>4. ASSUME NEW a \in 1 .. Len(g), NEW b \in 1 .. Len(g)
      PROVE  SubSeq(q, a, b) = SubSeq(g, a, b)
  <2>1. /\ SubSeq(q, a, b) = [k \in 1 .. b - a + 1 |-> q[a + k - 1]]
        /\ SubSeq(g, a, b) = [k \in 1 .. b - a + 1 |-> g[a + k - 1]]
    OBVIOUS
  <2>2. \A k \in 1 .. b - a + 1 : a + k - 1 \in 1 .. Len(g)
    OBVIOUS
  <2> QED BY <1>2, <2>1, <2>2
<1>5. SubSeq(q, Len(g) + 1, Len(g) + Len(o)) = o
  <2> DEFINE a == Len(g) + 1
             b == Len(g) + Len(o)
  <2>1. SubSeq(q, a, b) = [k \in 1 .. b - a + 1 |-> q[a + k - 1]]
    BY <1>1
  <2>2. b - a + 1 = Len(o)
    BY <1>1
  <2>3. \A k \in 1 .. Len(o) : q[a + k - 1] = o[k]
    <3> TAKE k \in 1 .. Len(o)
    <3>1. a + k - 1 \in Len(g) + 1 .. Len(g) + Len(o) /\ a + k - 1 - Len(g) = k
      BY <1>1
    <3> QED BY <1>3, <3>1
  <2>4. o = [k \in 1 .. Len(o) |-> o[k]]
    OBVIOUS
  <2> HIDE DEF a, b
  <2>5. SubSeq(q, a, b) = [k \in 1 .. Len(o) |-> q[a + k - 1]]
    BY <2>1, <2>2
  <2>6. SubSeq(q, a, b) = [k \in 1 .. Len(o) |-> o[k]]
    BY <2>3, <2>5
  <2> QED BY <2>4, <2>6 DEF a, b
<1> QED BY <1>1, <1>2, <1>3, <1>4, <1>5 DEF q

LEMMA ShapeNone == Shape(<< >>, << >>, << >>)
BY DEF Shape

(* A line that opens nothing changes no object.                            *)
LEMMA ShapeSkip ==
  ASSUME NEW g, NEW at, NEW objs, Shape(g, at, objs), NEW l \in Line,
         ~IsHeader(l), ~IsEmptyObject(l)
  PROVE  Shape(Append(g, l), at, objs)
<1> DEFINE q == g \o <<l>>
<1>1. /\ g \in Seq(Line) /\ at \in Seq([from : Nat, to : Nat])
      /\ objs \in Seq(Seq(Line)) /\ Len(objs) = Len(at) /\ Len(g) \in Nat
  BY DEF Shape
<1>2. Append(g, l) = q
  BY <1>1
<1>3. /\ q \in Seq(Line) /\ Len(q) = Len(g) + 1
      /\ \A p \in 1 .. Len(g) : q[p] = g[p]
      /\ q[Len(g) + 1] = l
      /\ \A a, b \in 1 .. Len(g) : SubSeq(q, a, b) = SubSeq(g, a, b)
  <2>1. <<l>> \in Seq(Line) /\ Len(<<l>>) = 1 /\ <<l>>[1] = l
    OBVIOUS
  <2>2. Len(g) + 1 \in Len(g) + 1 .. Len(g) + 1 /\ Len(g) + 1 - Len(g) = 1
    BY <1>1
  <2> QED BY <1>1, <2>1, <2>2, ConcatParts
<1> HIDE DEF q
<1>4. ASSUME NEW k \in 1 .. Len(at)
      PROVE  /\ 1 <= at[k].from /\ at[k].from <= at[k].to /\ at[k].to <= Len(q)
             /\ SubSeq(q, at[k].from, at[k].to) = objs[k]
             /\ Closed(objs[k])
             /\ \A m \in 1 .. k - 1 : at[m].to < at[k].from
  <2>1. /\ 1 <= at[k].from /\ at[k].from <= at[k].to /\ at[k].to <= Len(g)
        /\ SubSeq(g, at[k].from, at[k].to) = objs[k]
        /\ Closed(objs[k])
        /\ \A m \in 1 .. k - 1 : at[m].to < at[k].from
    BY DEF Shape
  <2>2. at[k] \in [from : Nat, to : Nat]
    BY <1>1, ElementType
  <2>3. at[k].from \in 1 .. Len(g) /\ at[k].to \in 1 .. Len(g) /\ at[k].to <= Len(q)
    BY <1>1, <1>3, <2>1, <2>2
  <2> QED BY <1>3, <2>1, <2>3
<1>5. ASSUME NEW p \in 1 .. Len(q), IsHeader(q[p]) \/ IsEmptyObject(q[p])
      PROVE  \E k \in 1 .. Len(at) : at[k].from <= p /\ p <= at[k].to
  <2>1. p # Len(g) + 1
    BY <1>3, <1>5
  <2>2. p \in 1 .. Len(g) /\ q[p] = g[p]
    BY <1>1, <1>3, <2>1
  <2>3. IsHeader(g[p]) \/ IsEmptyObject(g[p])
    BY <1>5, <2>2
  <2> QED BY <2>2, <2>3 DEF Shape
<1>6. Shape(q, at, objs)
  BY <1>1, <1>3, <1>4, <1>5 DEF Shape
<1> QED BY <1>2, <1>6

(* A whole object is one more.                                             *)
LEMMA ShapeObject ==
  ASSUME NEW g, NEW at, NEW objs, Shape(g, at, objs), NEW o, Closed(o)
  PROVE  \E x \in [from : Nat, to : Nat] : Shape(g \o o, Append(at, x), Append(objs, o))
<1> DEFINE q == g \o o
           x == [from |-> Len(g) + 1, to |-> Len(g) + Len(o)]
           At == Append(at, x)
           Os == Append(objs, o)
<1>0. o \in Seq(Line) /\ Len(o) \in Nat /\ Len(o) >= 1
  BY DEF Closed, BlockAt, Block
<1>1. /\ g \in Seq(Line) /\ at \in Seq([from : Nat, to : Nat])
      /\ objs \in Seq(Seq(Line)) /\ Len(objs) = Len(at) /\ Len(g) \in Nat /\ Len(at) \in Nat
  BY DEF Shape
<1>2. /\ q \in Seq(Line) /\ Len(q) = Len(g) + Len(o)
      /\ \A p \in 1 .. Len(g) : q[p] = g[p]
      /\ \A a, b \in 1 .. Len(g) : SubSeq(q, a, b) = SubSeq(g, a, b)
      /\ SubSeq(q, Len(g) + 1, Len(g) + Len(o)) = o
  BY <1>0, <1>1, ConcatParts
<1>3. x \in [from : Nat, to : Nat] /\ x.from = Len(g) + 1 /\ x.to = Len(g) + Len(o)
  BY <1>0, <1>1
<1> HIDE DEF q, x
<1>4. /\ At \in Seq([from : Nat, to : Nat]) /\ Len(At) = Len(at) + 1
      /\ \A k \in 1 .. Len(at) : At[k] = at[k]
      /\ At[Len(at) + 1] = x
  BY <1>1, <1>3
<1>5. /\ Os \in Seq(Seq(Line)) /\ Len(Os) = Len(at) + 1
      /\ \A k \in 1 .. Len(at) : Os[k] = objs[k]
      /\ Os[Len(at) + 1] = o
  BY <1>0, <1>1
<1> HIDE DEF At, Os
<1>6. ASSUME NEW k \in 1 .. Len(At)
      PROVE  /\ 1 <= At[k].from /\ At[k].from <= At[k].to /\ At[k].to <= Len(q)
             /\ SubSeq(q, At[k].from, At[k].to) = Os[k]
             /\ Closed(Os[k])
             /\ \A m \in 1 .. k - 1 : At[m].to < At[k].from
  <2>1. ASSUME NEW j \in 1 .. Len(at)
        PROVE  /\ At[j] = at[j] /\ Os[j] = objs[j]
               /\ at[j].from \in 1 .. Len(g) /\ at[j].to \in 1 .. Len(g)
               /\ at[j].from <= at[j].to
               /\ SubSeq(g, at[j].from, at[j].to) = objs[j]
               /\ Closed(objs[j])
               /\ \A m \in 1 .. j - 1 : at[m].to < at[j].from
    <3>1. /\ 1 <= at[j].from /\ at[j].from <= at[j].to /\ at[j].to <= Len(g)
          /\ SubSeq(g, at[j].from, at[j].to) = objs[j]
          /\ Closed(objs[j])
          /\ \A m \in 1 .. j - 1 : at[m].to < at[j].from
      BY DEF Shape
    <3>2. at[j] \in [from : Nat, to : Nat]
      BY <1>1, ElementType
    <3>3. at[j].from \in 1 .. Len(g) /\ at[j].to \in 1 .. Len(g)
      BY <1>1, <3>1, <3>2
    <3> QED BY <1>4, <1>5, <3>1, <3>3
  <2>2. CASE k = Len(at) + 1
    <3>1. At[k] = x /\ Os[k] = o
      BY <1>4, <1>5, <2>2
    <3>2. 1 <= x.from /\ x.from <= x.to /\ x.to <= Len(q) /\ SubSeq(q, x.from, x.to) = o
      BY <1>0, <1>1, <1>2, <1>3
    <3>3. ASSUME NEW m \in 1 .. k - 1 PROVE At[m].to < x.from
      <4>1. m \in 1 .. Len(at)
        BY <1>1, <2>2
      <4>2. At[m].to = at[m].to /\ at[m].to \in 1 .. Len(g)
        BY <2>1, <4>1
      <4>3. at[m].to < Len(g) + 1
        BY <1>1, <4>2
      <4> QED BY <1>3, <4>2, <4>3
    <3> QED BY <3>1, <3>2, <3>3
  <2>3. CASE k # Len(at) + 1
    <3>1. k \in 1 .. Len(at)
      BY <1>1, <1>4, <2>3
    <3>2. \A m \in 1 .. k - 1 : m \in 1 .. Len(at)
      BY <1>1, <3>1
    <3>3. \A m \in 1 .. k - 1 : At[m].to < At[k].from
      BY <2>1, <3>1, <3>2
    <3>4. /\ At[k].from \in 1 .. Len(g) /\ At[k].to \in 1 .. Len(g)
          /\ At[k].from <= At[k].to
          /\ SubSeq(g, At[k].from, At[k].to) = Os[k]
          /\ Closed(Os[k])
      BY <2>1, <3>1
    <3>5. SubSeq(q, At[k].from, At[k].to) = Os[k]
      BY <1>2, <3>4
    <3>6. 1 <= At[k].from /\ At[k].to <= Len(q)
      BY <1>0, <1>1, <1>2, <3>4
    <3> QED BY <3>3, <3>4, <3>5, <3>6
  <2> QED BY <2>2, <2>3
<1>7. ASSUME NEW p \in 1 .. Len(q), IsHeader(q[p]) \/ IsEmptyObject(q[p])
      PROVE  \E k \in 1 .. Len(At) : At[k].from <= p /\ p <= At[k].to
  <2>1. CASE p <= Len(g)
    <3>1. p \in 1 .. Len(g) /\ q[p] = g[p]
      BY <1>1, <1>2, <2>1
    <3>2. IsHeader(g[p]) \/ IsEmptyObject(g[p])
      BY <1>7, <3>1
    <3>3. PICK k \in 1 .. Len(at) : at[k].from <= p /\ p <= at[k].to
      BY <3>1, <3>2 DEF Shape
    <3>4. k \in 1 .. Len(At) /\ At[k] = at[k]
      BY <1>1, <1>4
    <3> QED BY <3>3, <3>4
  <2>2. CASE p > Len(g)
    <3>1. Len(at) + 1 \in 1 .. Len(At)
      BY <1>1, <1>4
    <3>2. x.from <= p /\ p <= x.to
      BY <1>0, <1>1, <1>2, <1>3, <2>2
    <3> QED BY <1>4, <3>1, <3>2
  <2> QED BY <1>1, <2>1, <2>2
<1>8. Shape(q, At, Os)
  <2>1. Len(Os) = Len(At)
    BY <1>4, <1>5
  <2> QED BY <1>2, <1>4, <1>5, <1>6, <1>7, <2>1 DEF Shape
<1> QED BY <1>3, <1>8 DEF q, At, Os

-----------------------------------------------------------------------------
(* The spans of a file, line by line.                                      *)
Kept(f, s) == [k \in DOMAIN f |-> IF k \in LinesOf(f, s) THEN <<f[k]>> ELSE << >>]
Starts(f) == [k \in DOMAIN f |-> IF \E s \in Plain(f) : s.from = k
                                 THEN <<CHOOSE s \in Plain(f) : s.from = k>>
                                 ELSE << >>]
ObjectsOf(f, ss) == [k \in DOMAIN ss |-> ObjectLines(f, ss[k])]

(* The m-th line of f is one of the object s, and not its last.            *)
Inside(f, m, s) == s \in Spans(f) /\ s.from <= m /\ m < s.to

LEMMA GatheredRest ==
  ASSUME NEW S, NEW g \in Seq(Seq(S)), NEW m \in 0 .. Len(g),
         \A k \in m + 1 .. Len(g) : g[k] = << >>
  PROVE  Gathered(g, m) = FlattenSeq(g)
<1> DEFINE T == {u \in Nat : u >= m /\ u <= Len(g) => Gathered(g, u) = Gathered(g, m)}
<1>0. m \in Nat /\ Len(g) \in Nat
  OBVIOUS
<1>1. 0 \in T
  <2>1. 0 >= m => m = 0
    BY <1>0
  <2> QED BY <2>1
<1>2. ASSUME NEW u \in Nat, u \in T PROVE u + 1 \in T
  <2> SUFFICES ASSUME u + 1 >= m, u + 1 <= Len(g)
               PROVE  Gathered(g, u + 1) = Gathered(g, m)
    OBVIOUS
  <2>1. CASE u + 1 = m
    BY <2>1
  <2>2. CASE u + 1 # m
    <3>1. u >= m /\ u <= Len(g) /\ u + 1 \in m + 1 .. Len(g) /\ u + 1 \in 1 .. Len(g)
          /\ (u + 1) - 1 = u /\ u \in 0 .. Len(g)
      BY <1>0, <2>2
    <3>2. Gathered(g, u + 1) = Gathered(g, u) \o g[u + 1]
      BY <3>1, GatheredParts
    <3>3. Gathered(g, u) \in Seq(S) /\ g[u + 1] = << >>
      BY <3>1, GatheredParts
    <3>4. Gathered(g, u) \o << >> = Gathered(g, u)
      BY <3>3
    <3> QED BY <1>2, <3>1, <3>2, <3>3, <3>4
  <2> QED BY <2>1, <2>2
<1> HIDE DEF T
<1>3. Len(g) \in T
  BY <1>0, <1>1, <1>2, SetInduction
<1>4. Gathered(g, Len(g)) = Gathered(g, m)
  BY <1>0, <1>3 DEF T
<1> QED BY <1>4, GatheredParts

LEMMA KeptParts ==
  ASSUME NEW f, Good(f), NEW s \in Spans(f)
  PROVE  /\ Kept(f, s) \in Seq(Seq(Line)) /\ Len(Kept(f, s)) = Len(f)
         /\ FlattenSeq(Kept(f, s)) = ObjectLines(f, s)
         /\ \A k \in 1 .. Len(f) :
                Kept(f, s)[k] = IF /\ k \in s.from .. s.to /\ ~f[k].blank
                                   /\ f[k].hashSpace => f[s.from].rule
                                THEN <<f[k]>> ELSE << >>
<1>1. f \in Seq(Line) /\ DOMAIN f = 1 .. Len(f) /\ Len(f) \in Nat
  BY DEF Good
<1>2. \A k \in 1 .. Len(f) : f[k] \in Line
  BY <1>1
<1>3. \A k \in 1 .. Len(f) : k \in LinesOf(f, s) <=> /\ k \in s.from .. s.to /\ ~f[k].blank
                                                     /\ f[k].hashSpace => f[s.from].rule
  BY DEF LinesOf
<1>4. Kept(f, s) = [k \in 1 .. Len(f) |-> IF k \in LinesOf(f, s) THEN <<f[k]>> ELSE << >>]
  BY <1>1 DEF Kept
<1>5. \A k \in 1 .. Len(f) : (IF k \in LinesOf(f, s) THEN <<f[k]>> ELSE << >>) \in Seq(Line)
  BY <1>2
<1>6. Kept(f, s) \in Seq(Seq(Line)) /\ Len(Kept(f, s)) = Len(f)
  BY <1>1, <1>4, <1>5
<1>7. FlattenSeq(Kept(f, s)) = ObjectLines(f, s)
  BY DEF Kept, ObjectLines
<1>8. \A k \in 1 .. Len(f) : Kept(f, s)[k] = IF k \in LinesOf(f, s) THEN <<f[k]>> ELSE << >>
  BY <1>4
<1> QED BY <1>3, <1>6, <1>7, <1>8

LEMMA StartsParts ==
  ASSUME NEW f, Good(f)
  PROVE  /\ Starts(f) \in Seq(Seq(Spans(f))) /\ Len(Starts(f)) = Len(f)
         /\ FlattenSeq(Starts(f)) = PlainSpans(f)
         /\ \A s \in Plain(f) : Starts(f)[s.from] = <<s>>
         /\ \A k \in 1 .. Len(f) : (\A s \in Plain(f) : s.from # k) => Starts(f)[k] = << >>
<1>1. f \in Seq(Line) /\ DOMAIN f = 1 .. Len(f) /\ Len(f) \in Nat
  BY DEF Good
<1> DEFINE Of(k) == IF \E s \in Plain(f) : s.from = k
                    THEN <<CHOOSE s \in Plain(f) : s.from = k>> ELSE << >>
<1>2. Plain(f) \subseteq Spans(f)
  BY DEF Plain
<1>3. ASSUME NEW k \in 1 .. Len(f) PROVE Of(k) \in Seq(Spans(f))
  <2>1. CASE \E s \in Plain(f) : s.from = k
    <3>1. (CHOOSE s \in Plain(f) : s.from = k) \in Spans(f)
      BY <1>2, <2>1
    <3> QED BY <2>1, <3>1
  <2>2. CASE ~\E s \in Plain(f) : s.from = k
    BY <2>2
  <2> QED BY <2>1, <2>2
<1>4. ASSUME NEW s \in Plain(f) PROVE Of(s.from) = <<s>>
  <2>1. ASSUME NEW t \in Plain(f), t.from = s.from PROVE t = s
    <3>1. s \in Spans(f) /\ t \in Spans(f)
      BY <1>2
    <3>2. s.from \in s.from .. s.to /\ s.from \in t.from .. t.to
      BY <1>1, <2>1, <3>1, SpanParts
    <3> QED BY <1>1, <3>1, <3>2, SpansApart
  <2>2. (CHOOSE t \in Plain(f) : t.from = s.from) = s
    BY <2>1
  <2> QED BY <2>2
<1>5. Starts(f) = [k \in 1 .. Len(f) |-> Of(k)]
  BY <1>1 DEF Starts
<1>6. FlattenSeq(Starts(f)) = PlainSpans(f)
  BY DEF Starts, PlainSpans
<1>7. \A k \in 1 .. Len(f) : (\A s \in Plain(f) : s.from # k) => Of(k) = << >>
  OBVIOUS
<1> HIDE DEF Of
<1>8. Starts(f) \in Seq(Seq(Spans(f))) /\ Len(Starts(f)) = Len(f)
  BY <1>1, <1>3, <1>5
<1>9. \A s \in Plain(f) : s.from \in 1 .. Len(f)
  BY <1>1, <1>2, SpanParts
<1> QED BY <1>4, <1>5, <1>6, <1>7, <1>8, <1>9

(* A file is inside at most one object, and where braces are open it is.   *)
LEMMA InsideParts ==
  ASSUME NEW f, Good(f), NEW m \in 0 .. Len(f), NEW s, Inside(f, m, s)
  PROVE  /\ s \in Spans(f) /\ s.from \in 1 .. Len(f) /\ s.to \in 1 .. Len(f)
         /\ m \in 1 .. Len(f) /\ m + 1 \in s.from + 1 .. s.to /\ m + 1 \in 1 .. Len(f)
         /\ Depth(f)[m] \in Nat /\ Depth(f)[m] # 0
         /\ f[s.from] \in Line
         /\ f[s.from].opens /\ ~f[s.from].oneLine /\ ~f[s.from].indent
         /\ ~(f[s.from].rule /\ f[s.from].topology)
         /\ \A t : Inside(f, m, t) => t = s
<1>1. f \in Seq(Line) /\ Len(f) \in Nat /\ s \in Spans(f) /\ s.from <= m /\ m < s.to
  BY DEF Good, Inside
<1>2. s.from \in 1 .. Len(f) /\ s.to \in 1 .. Len(f)
  BY <1>1, SpanParts
<1>3. /\ m \in 1 .. Len(f) /\ m + 1 \in s.from + 1 .. s.to /\ m + 1 \in 1 .. Len(f)
      /\ (m + 1) - 1 = m
  BY <1>1, <1>2
<1>4. Depth(f)[m] \in Nat /\ Depth(f)[m] # 0
  BY <1>1, <1>3, InParts
<1>5. f[s.from] \in Line
  BY <1>1, <1>2
<1>6. /\ f[s.from].opens /\ ~f[s.from].oneLine /\ ~f[s.from].indent
      /\ ~(f[s.from].rule /\ f[s.from].topology)
  <2>1. Depth(f)[s.from - 1] = 0 /\ IsRoot(f[s.from]) /\ ~f[s.from].indent
    BY <1>1, SpanParts DEF IsRoot
  <2>2. s.from \in s.from .. s.to - 1
    BY <1>1, <1>2
  <2>3. Depth(f)[s.from] # 0
    BY <1>1, <2>2, SpanParts
  <2> QED BY <1>2, <2>1, <2>3, TopParts
<1>7. ASSUME NEW t, Inside(f, m, t) PROVE t = s
  <2>1. t \in Spans(f) /\ t.from <= m /\ m < t.to
    BY <1>7 DEF Inside
  <2>2. t.from \in 1 .. Len(f) /\ t.to \in 1 .. Len(f)
    BY <1>1, <2>1, SpanParts
  <2>3. m \in s.from .. s.to /\ m \in t.from .. t.to
    BY <1>1, <1>2, <1>3, <2>1, <2>2
  <2> QED BY <1>1, <2>1, <2>3, SpansApart
<1> QED BY <1>1, <1>2, <1>3, <1>4, <1>5, <1>6, <1>7

LEMMA InsideExists ==
  ASSUME NEW f, Good(f), NEW m \in 0 .. Len(f), Depth(f)[m] # 0
  PROVE  \E s : Inside(f, m, s)
<1>1. Len(f) \in Nat /\ Depth(f)[Len(f)] = 0
  BY DEF Good, Regular
<1>2. m + 1 \in 1 .. Len(f) /\ (m + 1) - 1 = m
  BY <1>1
<1>3. PICK s \in Spans(f) : s.from < m + 1 /\ m + 1 <= s.to
  BY <1>2, SpanHere
<1>4. f \in Seq(Line)
  BY DEF Good
<1>5. s.from \in 1 .. Len(f) /\ s.to \in 1 .. Len(f)
  BY <1>4, SpanParts
<1>6. s.from <= m /\ m < s.to
  BY <1>1, <1>3, <1>5
<1> QED BY <1>6 DEF Inside

-----------------------------------------------------------------------------
(* The three kinds of lines outside of the objects: a header, an object of *)
(* one line, and what belongs to none.                                     *)
HeaderLine(f, k, s) ==
    /\ s \in Spans(f) /\ s.from = k /\ Inside(f, k, s) /\ Depth(f)[k] = 1
    /\ f[k].opens /\ ~f[k].oneLine /\ ~f[k].indent /\ ~f[k].blank /\ ~f[k].hashSpace
    /\ ~(f[k].rule /\ f[k].topology)
    /\ \A t \in Spans(f) : k \in t.from .. t.to => t = s

EmptyLine(f, k, s) ==
    /\ s \in Spans(f) /\ s.from = k /\ s.to = k /\ Depth(f)[k] = 0
    /\ f[k].oneLine /\ ~f[k].indent /\ ~f[k].blank /\ ~f[k].hashSpace
    /\ ~f[k].rule /\ ~f[k].topology
    /\ \A t \in Spans(f) : k \in t.from .. t.to => t = s

OtherLine(f, k) ==
    /\ Depth(f)[k] = 0 /\ ~f[k].topology
    /\ ~f[k].blank /\ ~f[k].hashSpace => ~f[k].opens /\ ~f[k].oneLine
    /\ f[k].rule => f[k].hashSpace
    /\ \A t \in Spans(f) : k \notin t.from .. t.to

LEMMA TopKinds ==
  ASSUME NEW f, Good(f), NEW k \in 1 .. Len(f), Depth(f)[k - 1] = 0
  PROVE  \/ \E s : HeaderLine(f, k, s)
         \/ \E s : EmptyLine(f, k, s)
         \/ OtherLine(f, k)
<1>1. f \in Seq(Line) /\ Len(f) \in Nat /\ Possible(f[k]) /\ k - 1 \in 0 .. Len(f)
  BY DEF Good
<1>2. ~f[k].hash => ~f[k].hashSpace
  BY <1>1 DEF Possible
<1>3. CASE IsRoot(f[k])
  <2>1. PICK s \in Spans(f) : s.from = k
    BY <1>3, SpanStarts
  <2>2. s.from \in 1 .. Len(f) /\ s.to \in 1 .. Len(f) /\ s.from <= s.to
    BY <1>1, SpanParts
  <2>3. \A t \in Spans(f) : k \in t.from .. t.to => t = s
    <3>1. k \in s.from .. s.to
      BY <2>1, <2>2
    <3> QED BY <1>1, <3>1, SpansApart
  <2>4. ~f[k].indent
    BY <1>3 DEF IsRoot
  <2>5. CASE Depth(f)[k] = 1
    <3>1. Depth(f)[s.to] = 0
      BY <1>1, SpanParts
    <3>2. s.to # k
      BY <2>5, <3>1
    <3>3. Inside(f, k, s)
      BY <2>1, <2>2, <3>2 DEF Inside
    <3>4. /\ f[k].opens /\ ~f[k].oneLine /\ ~f[k].blank /\ ~f[k].hash
          /\ ~(f[k].rule /\ f[k].topology)
      BY <1>3, <2>5, TopParts
    <3> QED BY <1>2, <2>1, <2>3, <2>4, <2>5, <3>3, <3>4 DEF HeaderLine
  <2>6. CASE Depth(f)[k] # 1
    <3>1. /\ Depth(f)[k] = 0 /\ f[k].oneLine /\ ~f[k].blank /\ ~f[k].hash
          /\ ~f[k].rule /\ ~f[k].topology
      BY <1>3, <2>6, TopParts
    <3>2. s.to = k
      <4>1. \A p \in s.from .. s.to - 1 : Depth(f)[p] # 0
        BY <1>1, SpanParts
      <4>2. k \notin s.from .. s.to - 1
        BY <3>1, <4>1
      <4> QED BY <2>1, <2>2, <4>2
    <3> QED BY <1>2, <2>1, <2>3, <2>4, <3>1, <3>2 DEF EmptyLine
  <2> QED BY <2>5, <2>6
<1>4. CASE ~IsRoot(f[k])
  <2>1. /\ Depth(f)[k] = 0 /\ ~f[k].topology
        /\ ~f[k].blank /\ ~f[k].hashSpace => ~f[k].opens /\ ~f[k].oneLine
        /\ f[k].rule => f[k].hashSpace
    BY <1>4, TopParts
  <2>2. ASSUME NEW t \in Spans(f), k \in t.from .. t.to PROVE FALSE
    <3>1. t.from \in 1 .. Len(f) /\ t.to \in 1 .. Len(f) /\ IsRoot(f[t.from])
      BY <1>1, SpanParts
    <3>2. k \in t.from + 1 .. t.to
      BY <1>4, <2>2, <3>1
    <3>3. Depth(f)[k - 1] # 0
      BY <3>2, InParts
    <3> QED BY <3>3
  <2> QED BY <2>1, <2>2 DEF OtherLine
<1> QED BY <1>3, <1>4

(* The lines behind the header of an object.                               *)
InnerLine(f, k, s) ==
    /\ s \in Spans(f) /\ s.from \in 1 .. Len(f) /\ k \in s.from + 1 .. s.to
    /\ Depth(f)[k - 1] \in Nat \ {0} /\ Depth(f)[k] \in Nat
    /\ f[k] \in Line /\ Possible(f[k])
    /\ Depth(f)[k] = Depth(f)[k - 1] + (IF f[k].hash THEN 0 ELSE f[k].net)
    /\ ~f[k].topology /\ (f[k].rule => f[k].hash)
    /\ f[k].special /\ f[s.from].rule => f[k].net = 0
    /\ f[k].hash /\ ~f[s.from].rule => f[k].hashSpace
    /\ f[s.from].topology => f[k].close = (k = s.to)
    /\ ~f[k].hash => f[k].raw = f[k].net
    /\ ~(f[s.from].rule /\ f[s.from].topology)
    /\ Depth(f)[k] = 0 => k = s.to
    /\ k = s.to => Depth(f)[k] = 0
    /\ Depth(f)[k] # 0 => Inside(f, k, s)
    /\ \A t \in Spans(f) : k \in t.from .. t.to => t = s

LEMMA InnerParts ==
  ASSUME NEW f, Good(f), NEW k \in 1 .. Len(f), NEW s, Inside(f, k - 1, s)
  PROVE  InnerLine(f, k, s)
<1>1. f \in Seq(Line) /\ Len(f) \in Nat /\ k - 1 \in 0 .. Len(f) /\ (k - 1) + 1 = k
  BY DEF Good
<1>2. /\ s \in Spans(f) /\ s.from \in 1 .. Len(f) /\ s.to \in 1 .. Len(f)
      /\ k \in s.from + 1 .. s.to
      /\ ~(f[s.from].rule /\ f[s.from].topology)
  BY <1>1, InsideParts
<1>3. /\ f[k] \in Line /\ Possible(f[k])
      /\ Depth(f)[k - 1] \in Nat /\ Depth(f)[k - 1] # 0
      /\ Depth(f)[k] \in Nat /\ (Depth(f)[k] = 0 <=> k = s.to)
      /\ Depth(f)[k] = Depth(f)[k - 1] + (IF f[k].hash THEN 0 ELSE f[k].net)
      /\ ~f[k].topology /\ (f[k].rule => f[k].hash)
      /\ f[k].special /\ f[s.from].rule => f[k].net = 0
      /\ f[k].hash /\ ~f[s.from].rule => f[k].hashSpace
      /\ f[s.from].topology => f[k].close = (k = s.to)
      /\ ~f[k].hash => f[k].raw = f[k].net
  BY <1>2, InParts
<1>4. \A t \in Spans(f) : k \in t.from .. t.to => t = s
  <2>1. k \in s.from .. s.to
    BY <1>2
  <2> QED BY <1>1, <1>2, <2>1, SpansApart
<1>5. Depth(f)[k] # 0 => Inside(f, k, s)
  BY <1>2, <1>3 DEF Inside
<1> QED BY <1>2, <1>3, <1>4, <1>5 DEF InnerLine

(* The only object a line can be inside of is the one it is a line of.     *)
LEMMA InsideOnly ==
  ASSUME NEW f, Good(f), NEW k \in 1 .. Len(f), NEW s,
         \A t \in Spans(f) : k \in t.from .. t.to => t = s,
         NEW t, Inside(f, k, t)
  PROVE  t = s
<1>1. t \in Spans(f) /\ t.from <= k /\ k < t.to
  BY DEF Inside
<1>2. t.from \in 1 .. Len(f) /\ t.to \in 1 .. Len(f)
  BY <1>1, SpanParts DEF Good
<1>3. k \in t.from .. t.to
  BY <1>1, <1>2
<1> QED BY <1>1, <1>3

-----------------------------------------------------------------------------
(* The filter's count of open braces, and whether it is in a topology      *)
(* statement, behind line m of the file f.                                 *)
IruleOK(f, m, x) ==
    /\ Depth(f)[m] = 0 => x = 0
    /\ \A s : Inside(f, m, s) => x = IF f[s.from].rule THEN Depth(f)[m] ELSE 0

TopologyIn(f, m, x) ==
    /\ x \in BOOLEAN
    /\ Depth(f)[m] = 0 => ~x
    /\ \A s : Inside(f, m, s) => x = f[s.from].topology

LEMMA IruleStep ==
  ASSUME NEW f, Good(f), NEW k \in 1 .. Len(f), NEW x, IruleOK(f, k - 1, x)
  PROVE  IruleOK(f, k, IF x = 0 THEN IF f[k].rule /\ ~f[k].hashSpace THEN 1 ELSE 0
                       ELSE IF f[k].hash THEN x ELSE x + f[k].raw)
<1> DEFINE y == IF x = 0 THEN IF f[k].rule /\ ~f[k].hashSpace THEN 1 ELSE 0
                ELSE IF f[k].hash THEN x ELSE x + f[k].raw
<1>0. k - 1 \in 0 .. Len(f) /\ k \in 0 .. Len(f)
  BY DEF Good
<1>1. CASE Depth(f)[k - 1] = 0
  <2>1. x = 0
    BY <1>1 DEF IruleOK
  <2>2. CASE \E s : HeaderLine(f, k, s)
    <3>1. PICK s : HeaderLine(f, k, s)
      BY <2>2
    <3>2. y = IF f[k].rule THEN 1 ELSE 0
      BY <2>1, <3>1 DEF HeaderLine
    <3>3. Depth(f)[k] = 1 /\ s.from = k
      BY <3>1 DEF HeaderLine
    <3>4. \A t : Inside(f, k, t) => t = s
      BY <3>1, InsideOnly DEF HeaderLine
    <3> HIDE DEF y
    <3>5. IruleOK(f, k, y)
      BY <3>2, <3>3, <3>4 DEF IruleOK
    <3> QED BY <3>5 DEF y
  <2>3. CASE (\E s : EmptyLine(f, k, s)) \/ OtherLine(f, k)
    <3>1. y = 0 /\ Depth(f)[k] = 0
      BY <2>1, <2>3 DEF EmptyLine, OtherLine
    <3>2. \A t : ~Inside(f, k, t)
      BY <1>0, <3>1, InsideParts
    <3> HIDE DEF y
    <3>3. IruleOK(f, k, y)
      BY <3>1, <3>2 DEF IruleOK
    <3> QED BY <3>3 DEF y
  <2> QED BY <1>1, <2>2, <2>3, TopKinds
<1>2. CASE Depth(f)[k - 1] # 0
  <2>1. PICK s : Inside(f, k - 1, s)
    BY <1>0, <1>2, InsideExists
  <2>2. InnerLine(f, k, s)
    BY <2>1, InnerParts
  <2>3. x = IF f[s.from].rule THEN Depth(f)[k - 1] ELSE 0
    BY <2>1 DEF IruleOK
  <2>4. y = IF f[s.from].rule THEN Depth(f)[k] ELSE 0
    <3>1. CASE f[s.from].rule
      <4>1. x = Depth(f)[k - 1] /\ x # 0
        BY <2>2, <2>3, <3>1 DEF InnerLine
      <4>2. y = IF f[k].hash THEN x ELSE x + f[k].raw
        BY <4>1
      <4> QED BY <2>2, <3>1, <4>1, <4>2 DEF InnerLine
    <3>2. CASE ~f[s.from].rule
      <4>1. x = 0
        BY <2>3, <3>2
      <4>2. ~(f[k].rule /\ ~f[k].hashSpace)
        BY <2>2, <3>2 DEF InnerLine
      <4> QED BY <3>2, <4>1, <4>2
    <3> QED BY <3>1, <3>2
  <2>5. \A t : Inside(f, k, t) => t = s
    BY <2>2, InsideOnly DEF InnerLine
  <2> HIDE DEF y
  <2>6. IruleOK(f, k, y)
    BY <2>4, <2>5 DEF IruleOK
  <2> QED BY <2>6 DEF y
<1> QED BY <1>1, <1>2

LEMMA TopologyInStep ==
  ASSUME NEW f, Good(f), NEW k \in 1 .. Len(f), NEW x, TopologyIn(f, k - 1, x)
  PROVE  TopologyIn(f, k, f[k].topology \/ (x /\ ~f[k].close))
<1> DEFINE y == f[k].topology \/ (x /\ ~f[k].close)
<1>0. k - 1 \in 0 .. Len(f) /\ k \in 0 .. Len(f)
  BY DEF Good
<1>00. x \in BOOLEAN /\ y \in BOOLEAN /\ f[k].topology \in BOOLEAN
  <2>1. f[k] \in Line
    BY DEF Good
  <2> QED BY <2>1 DEF TopologyIn, Line
<1>1. CASE Depth(f)[k - 1] = 0
  <2>1. ~x
    BY <1>1 DEF TopologyIn
  <2>2. CASE \E s : HeaderLine(f, k, s)
    <3>1. PICK s : HeaderLine(f, k, s)
      BY <2>2
    <3>2. y = f[k].topology
      BY <1>00, <2>1
    <3>3. Depth(f)[k] = 1 /\ s.from = k
      BY <3>1 DEF HeaderLine
    <3>4. \A t : Inside(f, k, t) => t = s
      BY <3>1, InsideOnly DEF HeaderLine
    <3> HIDE DEF y
    <3>5. TopologyIn(f, k, y)
      BY <1>00, <3>2, <3>3, <3>4 DEF TopologyIn
    <3> QED BY <3>5 DEF y
  <2>3. CASE (\E s : EmptyLine(f, k, s)) \/ OtherLine(f, k)
    <3>1. ~y /\ Depth(f)[k] = 0
      BY <2>1, <2>3 DEF EmptyLine, OtherLine
    <3>2. \A t : ~Inside(f, k, t)
      BY <1>0, <3>1, InsideParts
    <3> HIDE DEF y
    <3>3. TopologyIn(f, k, y)
      BY <1>00, <3>1, <3>2 DEF TopologyIn
    <3> QED BY <3>3 DEF y
  <2> QED BY <1>1, <2>2, <2>3, TopKinds
<1>2. CASE Depth(f)[k - 1] # 0
  <2>1. PICK s : Inside(f, k - 1, s)
    BY <1>0, <1>2, InsideExists
  <2>2. InnerLine(f, k, s)
    BY <2>1, InnerParts
  <2>3. x = f[s.from].topology
    BY <2>1 DEF TopologyIn
  <2>4. ~f[k].topology /\ (f[s.from].topology => f[k].close = (k = s.to))
    BY <2>2 DEF InnerLine
  <2>5. \A t : Inside(f, k, t) => t = s
    BY <2>2, InsideOnly DEF InnerLine
  <2>6. Depth(f)[k] = 0 => ~y
    BY <2>2, <2>3, <2>4 DEF InnerLine
  <2>7. Inside(f, k, s) => y = f[s.from].topology
    <3> SUFFICES ASSUME Inside(f, k, s) PROVE y = f[s.from].topology
      OBVIOUS
    <3>1. Depth(f)[k] # 0
      BY <1>0, InsideParts
    <3>2. k # s.to
      BY <2>2, <3>1 DEF InnerLine
    <3> QED BY <1>00, <2>3, <2>4, <3>2
  <2> HIDE DEF y
  <2>8. TopologyIn(f, k, y)
    BY <1>00, <2>5, <2>6, <2>7 DEF TopologyIn
  <2> QED BY <2>8 DEF y
<1> QED BY <1>1, <1>2

-----------------------------------------------------------------------------
(* The topology object: after its two opening lines every statement adds a *)
(* record that brings the count back to two.                               *)
LEMMA OwnFields ==
  /\ Text \in Line /\ Opening \in Line /\ Closing \in Line
  /\ ~Text.hash /\ ~Text.special /\ ~Text.rule /\ Text.net = 0
  /\ ~Opening.hash /\ ~Opening.special /\ ~Opening.rule /\ Opening.net = 1
  /\ ~Closing.hash /\ ~Closing.special /\ ~Closing.rule /\ Closing.net = -1
<1>1. Text \in Line
  BY DEF Text, Line
<1>2. 1 \in Int /\ -1 \in Int
  OBVIOUS
<1>3. Opening \in Line /\ Closing \in Line
  BY <1>1, <1>2, BraceLines DEF Opening, Closing
<1>4. ~Text.hash /\ ~Text.special /\ ~Text.rule /\ Text.net = 0
  BY DEF Text
<1>5. ~Opening.hash /\ ~Opening.special /\ ~Opening.rule /\ Opening.net = 1
  BY DEF Opening, Text
<1>6. ~Closing.hash /\ ~Closing.special /\ ~Closing.rule /\ Closing.net = -1
  BY DEF Closing, Text
<1> QED BY <1>1, <1>3, <1>4, <1>5, <1>6

(* An object that is no iRule, its count now at u.                         *)
BlockTo(o, u) == BlockAt(o, u) /\ ~o[1].rule

LEMMA HeadParts ==
  /\ TopologyHead \in Seq(Line) /\ Len(TopologyHead) = 2
  /\ BlockTo(TopologyHead, 2)
<1> DEFINE h == [Opening EXCEPT !.indent = FALSE]
<1>1. h \in Line
  BY OwnFields DEF Line
<1>2. h.opens /\ ~h.oneLine /\ ~h.indent /\ ~h.rule /\ ~h.hash
  BY DEF Opening, Text
<1>3. TopologyHead = <<h, Opening>>
  BY DEF TopologyHead
<1> HIDE DEF h
<1>4. IsHeader(h) /\ ~IsEmptyObject(h)
  BY <1>2 DEF IsHeader, IsEmptyObject
<1>5. BlockAt(<<h>>, 1)
  BY <1>1, <1>4, BlockOne
<1>6. <<h>>[1] = h
  OBVIOUS
<1>7. Read(h, Opening) /\ Rise(h, Opening) = 1
  BY <1>2, OwnFields DEF Read, Rise
<1>8. /\ 1 \in Int /\ 1 # 0 /\ 2 \in Int /\ 2 = 1 + Rise(<<h>>[1], Opening)
      /\ Opening \in Line /\ ~Opening.rule
  BY <1>6, <1>7, OwnFields
<1>9. BlockAt(Append(<<h>>, Opening), 2)
  BY <1>5, <1>8, BlockMore
<1>10. Append(<<h>>, Opening) = TopologyHead
  BY <1>1, <1>3, OwnFields, AppendPair
<1>11. TopologyHead \in Seq(Line) /\ Len(TopologyHead) = 2 /\ TopologyHead[1] = h
  BY <1>1, <1>3, OwnFields
<1> QED BY <1>2, <1>9, <1>10, <1>11 DEF BlockTo

LEMMA BlockLine ==
  ASSUME NEW o, NEW u, u \in Int, BlockTo(o, u), u # 0, NEW l, l \in Line, ~l.rule,
         NEW v, v = u + l.net
  PROVE  BlockTo(Append(o, l), v)
<1>1. v \in Int /\ v = u + Rise(o[1], l)
  BY DEF Line, Read, Rise, BlockTo
<1>2. BlockAt(o, u) /\ (Read(o[1], l) => ~l.rule)
  BY DEF BlockTo
<1>3. BlockAt(Append(o, l), v) /\ Append(o, l)[1] = o[1]
  BY <1>1, <1>2, BlockMore
<1> QED BY <1>3 DEF BlockTo

LEMMA BlockRecord ==
  ASSUME NEW o, BlockTo(o, 2)
  PROVE  BlockTo(o \o TopologyRecord, 3)
<1> DEFINE p == Append(o, Opening)
           q == Append(p, Text)
           r == Append(q, Text)
<1>0. o \in Seq(Line)
  BY DEF BlockTo, BlockAt, Block
<1>1. BlockTo(p, 3)
  <2>1. 2 \in Int /\ 2 # 0 /\ 3 = 2 + Opening.net /\ Opening \in Line /\ ~Opening.rule
    BY OwnFields
  <2> QED BY <2>1, OwnFields, BlockLine
<1>2. r = o \o TopologyRecord
  BY <1>0, OwnFields DEF r, q, p, TopologyRecord
<1> HIDE DEF p
<1>3. BlockTo(q, 3)
  <2>1. 3 \in Int /\ 3 # 0 /\ 3 = 3 + Text.net /\ Text \in Line /\ ~Text.rule
    BY OwnFields
  <2> QED BY <2>1, <1>1, OwnFields, BlockLine
<1> HIDE DEF q
<1>4. BlockTo(r, 3)
  <2>1. 3 \in Int /\ 3 # 0 /\ 3 = 3 + Text.net /\ Text \in Line /\ ~Text.rule
    BY OwnFields
  <2> QED BY <2>1, <1>3, OwnFields, BlockLine
<1> QED BY <1>2, <1>4

LEMMA BlockTail ==
  ASSUME NEW o, BlockTo(o, 2)
  PROVE  Closed(o \o TopologyTail)
<1> DEFINE h == [Closing EXCEPT !.indent = FALSE, !.close = TRUE]
           p == Append(o, Text)
           q == Append(p, Closing)
           r == Append(q, h)
<1>0. h \in Line /\ ~h.rule /\ h.net = -1
  <2>1. h \in Line
    BY OwnFields DEF Line
  <2>2. ~h.rule /\ h.net = -1
    BY DEF Closing, Text
  <2> QED BY <2>1, <2>2
<1>1. TopologyTail = <<Text, Closing, h>>
  BY DEF TopologyTail
<1> HIDE DEF h
<1>2. o \in Seq(Line)
  BY DEF BlockTo, BlockAt, Block
<1>3. r = o \o TopologyTail
  BY <1>0, <1>1, <1>2, OwnFields DEF r, q, p
<1>4. BlockTo(p, 2)
  <2>1. 2 \in Int /\ 2 # 0 /\ 2 = 2 + Text.net /\ Text \in Line /\ ~Text.rule
    BY OwnFields
  <2> QED BY <2>1, OwnFields, BlockLine
<1> HIDE DEF p
<1>5. BlockTo(q, 1)
  <2>1. 2 \in Int /\ 2 # 0 /\ 1 = 2 + Closing.net /\ Closing \in Line /\ ~Closing.rule
    BY OwnFields
  <2> QED BY <2>1, <1>4, OwnFields, BlockLine
<1> HIDE DEF q
<1>6. BlockTo(r, 0)
  <2>1. 1 \in Int /\ 1 # 0 /\ 0 = 1 + h.net /\ h \in Line /\ ~h.rule
    BY <1>0
  <2> QED BY <2>1, <1>0, <1>5, BlockLine
<1> HIDE DEF r
<1>7. Closed(r)
  BY <1>6 DEF Closed, BlockTo
<1> QED BY <1>3, <1>7
-----------------------------------------------------------------------------
LEMMA TopologyLinesParts ==
  ASSUME NEW f, Good(f)
  PROVE  /\ TopologyLines(f) \in Seq(Seq(Line)) /\ Len(TopologyLines(f)) = Len(f)
         /\ \A t \in Topologies(f) : \A k \in t.from .. t.to :
                TopologyLines(f)[k] = TopologyLine(f, t, k)
         /\ \A k \in 1 .. Len(f) :
                (\A t \in Topologies(f) : k \notin t.from .. t.to) =>
                    TopologyLines(f)[k] = << >>
<1>0. f \in Seq(Line) /\ DOMAIN f = 1 .. Len(f) /\ Len(f) \in Nat
  BY DEF Good
<1> DEFINE Of(k) == IF \E s \in Topologies(f) : k \in s.from .. s.to
                    THEN TopologyLine(f, CHOOSE s \in Topologies(f) : k \in s.from .. s.to, k)
                    ELSE << >>
<1>1. Topologies(f) \subseteq Spans(f)
  BY DEF Topologies
<1>2. TopologyLines(f) = [k \in 1 .. Len(f) |-> Of(k)]
  BY <1>0 DEF TopologyLines
<1>3. ASSUME NEW t \in Topologies(f), NEW k \in t.from .. t.to
      PROVE  /\ k \in 1 .. Len(f) /\ Of(k) = TopologyLine(f, t, k)
             /\ Of(k) \in Seq(Line)
  <2>1. t \in Spans(f) /\ t.from \in 1 .. Len(f) /\ t.to \in 1 .. Len(f)
    BY <1>0, <1>1, SpanParts
  <2>2. k \in 1 .. Len(f)
    BY <1>0, <2>1
  <2>3. \A s \in Topologies(f) : k \in s.from .. s.to => s = t
    BY <1>0, <1>1, <2>1, SpansApart
  <2>4. (CHOOSE s \in Topologies(f) : k \in s.from .. s.to) = t
    BY <2>3
  <2>5. Of(k) = TopologyLine(f, t, k)
    BY <2>4
  <2>6. f[k] \in Line
    BY <1>0, <2>2
  <2>7. /\ TopologyRecord \in Seq(Line) /\ <<Closing>> \in Seq(Line)
        /\ <<Indented(f[k])>> \in Seq(Line) /\ << >> \in Seq(Line)
    BY <2>6, OwnLines
  <2>8. k = t.from \/ k \in t.from + 1 .. t.to - 1 \/ k = t.to
    BY <2>1
  <2>9. TopologyLine(f, t, k) \in Seq(Line)
    BY <2>7, <2>8 DEF TopologyLine
  <2> QED BY <2>2, <2>5, <2>9
<1>4. \A k \in 1 .. Len(f) : Of(k) \in Seq(Line)
  <2> TAKE k \in 1 .. Len(f)
  <2>1. CASE \E s \in Topologies(f) : k \in s.from .. s.to
    <3>1. PICK t \in Topologies(f) : k \in t.from .. t.to
      BY <2>1
    <3> HIDE DEF Of
    <3> QED BY <1>3, <3>1
  <2>2. CASE ~\E s \in Topologies(f) : k \in s.from .. s.to
    <3>1. Of(k) = << >>
      BY <2>2
    <3> HIDE DEF Of
    <3> QED BY <3>1
  <2> QED BY <2>1, <2>2
<1>5. \A k \in 1 .. Len(f) :
          (\A t \in Topologies(f) : k \notin t.from .. t.to) => Of(k) = << >>
  OBVIOUS
<1> HIDE DEF Of
<1>6. TopologyLines(f) \in Seq(Seq(Line)) /\ Len(TopologyLines(f)) = Len(f)
  BY <1>0, <1>2, <1>4
<1> QED BY <1>2, <1>3, <1>5, <1>6

(* The lines of a topology statement, by kind.                             *)
LEMMA TopologyLineParts ==
  ASSUME NEW f, Good(f), NEW t \in Topologies(f)
  PROVE  /\ t.from < t.to
         /\ TopologyLines(f)[t.from] = TopologyRecord
         /\ \A k \in t.from + 1 .. t.to :
                TopologyLines(f)[k] = IF k = t.to THEN <<Closing>>
                                      ELSE IF f[k].hashSpace THEN << >>
                                      ELSE <<Indented(f[k])>>
<1>0. f \in Seq(Line) /\ Len(f) \in Nat
  BY DEF Good
<1>1. t \in Spans(f) /\ f[t.from].topology
  BY DEF Topologies
<1>2. /\ t.from \in 1 .. Len(f) /\ t.to \in 1 .. Len(f) /\ t.from <= t.to
      /\ Depth(f)[t.from - 1] = 0 /\ IsRoot(f[t.from]) /\ Depth(f)[t.to] = 0
  BY <1>0, <1>1, SpanParts
<1>3. t.from < t.to
  <2>1. Depth(f)[t.from] = 1
    BY <1>1, <1>2, TopParts
  <2> QED BY <1>2, <2>1
<1>4. TopologyLines(f)[t.from] = TopologyRecord
  <2>1. t.from \in t.from .. t.to
    BY <1>2
  <2>2. t.from \notin t.from + 1 .. t.to - 1 /\ t.from # t.to
    BY <1>2, <1>3
  <2>3. TopologyLine(f, t, t.from) = TopologyRecord
    BY <2>2 DEF TopologyLine
  <2> QED BY <2>1, <2>3, TopologyLinesParts
<1>5. ASSUME NEW k \in t.from + 1 .. t.to
      PROVE  TopologyLines(f)[k] = IF k = t.to THEN <<Closing>>
                                   ELSE IF f[k].hashSpace THEN << >>
                                   ELSE <<Indented(f[k])>>
  <2>1. k \in t.from .. t.to /\ k # t.from
    BY <1>2
  <2>2. k # t.to => k \in t.from + 1 .. t.to - 1
    BY <1>2
  <2>3. k = t.to => k \notin t.from + 1 .. t.to - 1
    BY <1>2
  <2>4. TopologyLine(f, t, k) = IF k = t.to THEN <<Closing>>
                                ELSE IF f[k].hashSpace THEN << >>
                                ELSE <<Indented(f[k])>>
    BY <2>1, <2>2, <2>3 DEF TopologyLine
  <2> QED BY <2>1, <2>4, TopologyLinesParts
<1> QED BY <1>3, <1>4, <1>5

-----------------------------------------------------------------------------
(* The topology object behind line m of f, where a statement has begun.    *)
Began(f, m) == \E t \in Topologies(f) : t.from <= m
TopologyText(f, m) == TopologyHead \o Gathered(TopologyLines(f), m)

TopologyOK(f, m, x, top) ==
    /\ ~Began(f, m) => top = << >>
    /\ Began(f, m) => /\ top = TopologyText(f, m)
                      /\ BlockTo(top, 2 + (IF x THEN Depth(f)[m] ELSE 0))

LEMMA ConcatLaws ==
  ASSUME NEW S, NEW s \in Seq(S)
  PROVE  /\ s \o << >> = s /\ << >> \o s = s
         /\ \A t, r \in Seq(S) : (s \o t) \o r = s \o (t \o r)
         /\ \A a \in S : s \o <<a>> = Append(s, a)
         /\ \A t \in Seq(S) : s \o t \in Seq(S) /\ Len(s \o t) = Len(s) + Len(t)
OBVIOUS

LEMMA TopologyTextParts ==
  ASSUME NEW f, Good(f), NEW k \in 1 .. Len(f)
  PROVE  /\ TopologyText(f, k - 1) \in Seq(Line)
         /\ TopologyText(f, k) = TopologyText(f, k - 1) \o TopologyLines(f)[k]
         /\ ~Began(f, k - 1) => TopologyText(f, k - 1) = TopologyHead
         /\ TopologyText(f, k - 1) # << >>
<1> DEFINE g == TopologyLines(f)
<1>0. f \in Seq(Line) /\ Len(f) \in Nat /\ k - 1 \in 0 .. Len(f)
  BY DEF Good
<1>1. g \in Seq(Seq(Line)) /\ Len(g) = Len(f) /\ g[k] \in Seq(Line)
  BY TopologyLinesParts
<1>2. ~Began(f, k - 1) => \A j \in 1 .. k - 1 : g[j] = << >>
  <2> SUFFICES ASSUME ~Began(f, k - 1), NEW j \in 1 .. k - 1 PROVE g[j] = << >>
    OBVIOUS
  <2>1. ASSUME NEW t \in Topologies(f) PROVE j \notin t.from .. t.to
    <3>1. t.from \in 1 .. Len(f) /\ t.to \in 1 .. Len(f)
      BY <1>0, SpanParts DEF Topologies
    <3>2. ~(t.from <= k - 1)
      BY DEF Began
    <3> QED BY <1>0, <3>1, <3>2
  <2>2. j \in 1 .. Len(f)
    BY <1>0
  <2> QED BY <2>1, <2>2, TopologyLinesParts
<1> HIDE DEF g
<1>3. Gathered(g, k - 1) \in Seq(Line) /\ Gathered(g, k) = Gathered(g, k - 1) \o g[k]
  BY <1>0, <1>1, GatheredParts
<1>4. ~Began(f, k - 1) => Gathered(g, k - 1) = << >>
  BY <1>0, <1>1, <1>2, GatheredNone
<1>5. TopologyHead \in Seq(Line) /\ Len(TopologyHead) = 2
  BY HeadParts
<1>6. TopologyText(f, k - 1) = TopologyHead \o Gathered(g, k - 1)
  BY DEF TopologyText, g
<1>7. TopologyText(f, k) = TopologyHead \o Gathered(g, k)
  BY DEF TopologyText, g
<1>8. TopologyText(f, k) = TopologyText(f, k - 1) \o g[k]
  <2> DEFINE a == Gathered(g, k - 1)
             b == g[k]
  <2>1. TopologyHead \in Seq(Line) /\ a \in Seq(Line) /\ b \in Seq(Line)
    BY <1>1, <1>3, <1>5
  <2>2. TopologyText(f, k) = TopologyHead \o (a \o b)
    BY <1>3, <1>7
  <2> HIDE DEF a, b
  <2>3. (TopologyHead \o a) \o b = TopologyHead \o (a \o b)
    BY <2>1, ConcatLaws
  <2> QED BY <1>6, <2>2, <2>3 DEF a, b
<1>9. TopologyText(f, k - 1) \in Seq(Line) /\ TopologyText(f, k - 1) # << >>
  <2> DEFINE a == Gathered(g, k - 1)
  <2>1. TopologyHead \in Seq(Line) /\ a \in Seq(Line) /\ Len(TopologyHead) = 2
    BY <1>3, <1>5
  <2> HIDE DEF a
  <2>2. TopologyHead \o a \in Seq(Line) /\ TopologyHead \o a # << >>
    <3>1. /\ TopologyHead \o a \in Seq(Line)
          /\ Len(TopologyHead \o a) = Len(TopologyHead) + Len(a)
      BY <2>1, ConcatLaws
    <3>2. Len(TopologyHead \o a) # 0
      <4>1. Len(a) \in Nat
        BY <2>1
      <4> QED BY <2>1, <3>1, <4>1
    <3> QED BY <3>1, <3>2
  <2> QED BY <1>6, <2>2 DEF a
<1>10. TopologyHead \o << >> = TopologyHead
  BY <1>5
<1>11. ~Began(f, k - 1) => TopologyText(f, k - 1) = TopologyHead
  BY <1>4, <1>6, <1>10
<1> QED BY <1>8, <1>9, <1>11 DEF g

(* A statement opens.                                                      *)
LEMMA TopologyOpens ==
  ASSUME NEW f, Good(f), NEW k \in 1 .. Len(f), f[k].topology,
         NEW x, TopologyIn(f, k - 1, x), NEW top, TopologyOK(f, k - 1, x, top)
  PROVE  TopologyOK(f, k, TRUE, top \o (IF top = << >> THEN TopologyHead ELSE << >>)
                                    \o TopologyRecord)
<1>0. f \in Seq(Line) /\ Len(f) \in Nat /\ k - 1 \in 0 .. Len(f)
  BY DEF Good
<1>1. Depth(f)[k - 1] = 0
  <2> SUFFICES ASSUME Depth(f)[k - 1] # 0 PROVE FALSE
    OBVIOUS
  <2>1. PICK s : Inside(f, k - 1, s)
    BY <1>0, InsideExists
  <2> QED BY <2>1, InnerParts DEF InnerLine
<1>2. PICK s : HeaderLine(f, k, s)
  BY <1>1, TopKinds DEF EmptyLine, OtherLine
<1>3. s \in Topologies(f) /\ s.from = k /\ Depth(f)[k] = 1
  BY <1>2 DEF HeaderLine, Topologies
<1>4. ~x
  BY <1>1 DEF TopologyIn
<1>5. TopologyLines(f)[k] = TopologyRecord
  BY <1>3, TopologyLineParts
<1>6. Began(f, k)
  BY <1>0, <1>3 DEF Began
<1> DEFINE before == TopologyText(f, k - 1)
<1>7. /\ before \in Seq(Line) /\ before # << >>
      /\ TopologyText(f, k) = before \o TopologyRecord
      /\ ~Began(f, k - 1) => before = TopologyHead
  BY <1>5, TopologyTextParts
<1>8. BlockTo(before, 2)
  <2>1. CASE Began(f, k - 1)
    <3>1. top = before /\ BlockTo(top, 2 + 0)
      BY <1>4, <2>1 DEF TopologyOK
    <3> QED BY <3>1
  <2>2. CASE ~Began(f, k - 1)
    BY <1>7, <2>2, HeadParts
  <2> QED BY <2>1, <2>2
<1>9. top \o (IF top = << >> THEN TopologyHead ELSE << >>) = before
  <2>1. CASE Began(f, k - 1)
    <3>1. top = before
      BY <2>1 DEF TopologyOK
    <3> QED BY <1>7, <3>1
  <2>2. CASE ~Began(f, k - 1)
    <3>1. top = << >>
      BY <2>2 DEF TopologyOK
    <3> QED BY <1>7, <2>2, <3>1
  <2> QED BY <2>1, <2>2
<1> HIDE DEF before
<1>10. BlockTo(before \o TopologyRecord, 3)
  BY <1>8, BlockRecord
<1>11. 2 + (IF TRUE THEN Depth(f)[k] ELSE 0) = 3
  BY <1>3
<1>12. TopologyOK(f, k, TRUE, before \o TopologyRecord)
  BY <1>6, <1>7, <1>10, <1>11 DEF TopologyOK
<1>13. top \o (IF top = << >> THEN TopologyHead ELSE << >>) \o TopologyRecord
         = before \o TopologyRecord
  BY <1>9
<1> QED BY <1>12, <1>13

(* A line of a statement moves.                                            *)
LEMMA TopologyGoesOn ==
  ASSUME NEW f, Good(f), NEW k \in 1 .. Len(f), TopologyIn(f, k - 1, TRUE),
         NEW w, IruleOK(f, k - 1, w), NEW top, TopologyOK(f, k - 1, TRUE, top)
  PROVE  TopologyOK(f, k, ~f[k].close,
                    IF f[k].close THEN Append(top, Closing)
                    ELSE IF w = 0 /\ f[k].hashSpace THEN top
                    ELSE Append(top, Indented(f[k])))
<1>0. f \in Seq(Line) /\ Len(f) \in Nat /\ k - 1 \in 0 .. Len(f)
  BY DEF Good
<1>1. Depth(f)[k - 1] # 0
  BY DEF TopologyIn
<1>2. PICK s : Inside(f, k - 1, s)
  BY <1>0, <1>1, InsideExists
<1>3. InnerLine(f, k, s)
  BY <1>2, InnerParts
<1>4. f[s.from].topology /\ ~f[s.from].rule
  <2>1. f[s.from].topology = TRUE
    BY <1>2 DEF TopologyIn
  <2> QED BY <1>3, <2>1 DEF InnerLine
<1>5. w = 0
  BY <1>2, <1>4 DEF IruleOK
<1>6. s \in Topologies(f) /\ s.from \in 1 .. Len(f) /\ k \in s.from + 1 .. s.to
  BY <1>3, <1>4 DEF InnerLine, Topologies
<1>7. Began(f, k - 1) /\ Began(f, k)
  BY <1>6 DEF Began
<1>8. /\ f[k] \in Line /\ Possible(f[k]) /\ f[k].close = (k = s.to)
      /\ Depth(f)[k - 1] \in Nat \ {0} /\ Depth(f)[k] \in Nat
      /\ Depth(f)[k] = Depth(f)[k - 1] + (IF f[k].hash THEN 0 ELSE f[k].net)
      /\ f[k].hash => f[k].hashSpace
      /\ f[k].rule => f[k].hash
      /\ k = s.to => Depth(f)[k] = 0
  BY <1>3, <1>4 DEF InnerLine
<1>9. top = TopologyText(f, k - 1) /\ BlockTo(top, 2 + Depth(f)[k - 1])
  BY <1>7 DEF TopologyOK
<1>10. top \in Seq(Line) /\ TopologyText(f, k) = top \o TopologyLines(f)[k]
  BY <1>9, TopologyTextParts
<1>11. TopologyLines(f)[k] = IF k = s.to THEN <<Closing>>
                             ELSE IF f[k].hashSpace THEN << >> ELSE <<Indented(f[k])>>
  BY <1>6, TopologyLineParts
<1> DEFINE u == 2 + Depth(f)[k - 1]
<1>12. u \in Int /\ u # 0 /\ BlockTo(top, u)
  BY <1>8, <1>9
<1>13. CASE f[k].close
  <2>1. TopologyText(f, k) = Append(top, Closing)
    <3>1. TopologyLines(f)[k] = <<Closing>>
      BY <1>8, <1>11, <1>13
    <3> QED BY <1>10, <3>1, OwnFields, ConcatLaws
  <2>2. ~f[k].hash /\ f[k].net = -1 /\ Depth(f)[k] = 0
    BY <1>8, <1>13 DEF Possible
  <2>3. 2 = u + Closing.net /\ Closing \in Line /\ ~Closing.rule
    BY <1>8, <2>2, OwnFields
  <2> HIDE DEF u
  <2>4. BlockTo(Append(top, Closing), 2)
    BY <1>12, <2>3, BlockLine
  <2>5. 2 + (IF ~f[k].close THEN Depth(f)[k] ELSE 0) = 2
    BY <1>13
  <2>6. TopologyOK(f, k, ~f[k].close, Append(top, Closing))
    BY <1>7, <2>1, <2>4, <2>5 DEF TopologyOK
  <2> QED BY <1>13, <2>6
<1>14. CASE ~f[k].close /\ f[k].hashSpace
  <2>1. TopologyText(f, k) = top
    <3>1. TopologyLines(f)[k] = << >>
      BY <1>8, <1>11, <1>14
    <3> QED BY <1>10, <3>1, ConcatLaws
  <2>2. f[k].hash /\ Depth(f)[k] = Depth(f)[k - 1]
    BY <1>8, <1>14 DEF Possible
  <2>3. 2 + (IF ~f[k].close THEN Depth(f)[k] ELSE 0) = u
    BY <1>14, <2>2
  <2>4. TopologyOK(f, k, ~f[k].close, top)
    BY <1>7, <1>12, <2>1, <2>3 DEF TopologyOK
  <2> QED BY <1>5, <1>14, <2>4
<1>15. CASE ~f[k].close /\ ~f[k].hashSpace
  <2> DEFINE l == Indented(f[k])
             v == 2 + Depth(f)[k]
  <2>1. l \in Line
    BY <1>8, OwnLines
  <2>2. TopologyText(f, k) = Append(top, l)
    <3>1. TopologyLines(f)[k] = <<l>>
      BY <1>8, <1>11, <1>15
    <3> QED BY <1>10, <2>1, <3>1, ConcatLaws
  <2>3. l.net = f[k].net /\ l.rule = f[k].rule
    BY <1>8 DEF Indented, Line
  <2>4. ~f[k].hash /\ ~l.rule
    BY <1>8, <1>15, <2>3
  <2>5. v = u + l.net
    BY <1>8, <2>3, <2>4 DEF Line
  <2>6. 2 + (IF ~f[k].close THEN Depth(f)[k] ELSE 0) = v
    BY <1>15
  <2> HIDE DEF u, l, v
  <2>7. BlockTo(Append(top, l), v)
    BY <1>12, <2>1, <2>4, <2>5, BlockLine
  <2>8. TopologyOK(f, k, ~f[k].close, Append(top, l))
    BY <1>7, <2>2, <2>6, <2>7 DEF TopologyOK
  <2> QED BY <1>5, <1>15, <2>8 DEF l
<1> QED BY <1>13, <1>14, <1>15

(* Any other line leaves the topology object alone.                        *)
LEMMA TopologyStays ==
  ASSUME NEW f, Good(f), NEW k \in 1 .. Len(f), ~f[k].topology,
         TopologyIn(f, k - 1, FALSE), NEW top, TopologyOK(f, k - 1, FALSE, top)
  PROVE  TopologyOK(f, k, FALSE, top)
<1>0. f \in Seq(Line) /\ Len(f) \in Nat /\ k - 1 \in 0 .. Len(f)
  BY DEF Good
<1>1. ASSUME NEW t \in Topologies(f)
      PROVE  k \notin t.from .. t.to /\ t.from # k /\ t.from \in 1 .. Len(f)
  <2>1. t \in Spans(f) /\ f[t.from].topology
    BY DEF Topologies
  <2>2. t.from \in 1 .. Len(f) /\ t.to \in 1 .. Len(f) /\ t.from <= t.to
    BY <1>0, <2>1, SpanParts
  <2>3. t.from # k
    BY <2>1
  <2>4. ~Inside(f, k - 1, t)
    BY <2>1 DEF TopologyIn
  <2>5. ~(t.from <= k - 1 /\ k - 1 < t.to)
    BY <2>1, <2>4 DEF Inside
  <2> QED BY <1>0, <2>2, <2>3, <2>5
<1>2. TopologyLines(f)[k] = << >>
  BY <1>1, TopologyLinesParts
<1>3. TopologyText(f, k) = TopologyText(f, k - 1)
  <2>1. /\ TopologyText(f, k - 1) \in Seq(Line)
        /\ TopologyText(f, k) = TopologyText(f, k - 1) \o << >>
    BY <1>2, TopologyTextParts
  <2> QED BY <2>1
<1>4. Began(f, k) <=> Began(f, k - 1)
  <2>1. \A t \in Topologies(f) : t.from <= k <=> t.from <= k - 1
    BY <1>0, <1>1
  <2> QED BY <2>1 DEF Began
<1> QED BY <1>3, <1>4 DEF TopologyOK

-----------------------------------------------------------------------------
(* What has become of the objects up to line m of f: the filtered lines g  *)
(* hold the closed ones, and at their end the lines so far of the open one.*)
Whole(f, m, g) == \E at : Shape(g, at, ObjectsOf(f, Gathered(Starts(f), m)))

Partial(f, m, s, g) ==
    \E done \in Seq(Spans(f)) : \E h, at :
        /\ Gathered(Starts(f), m) = Append(done, s)
        /\ Shape(h, at, ObjectsOf(f, done))
        /\ g = h \o Gathered(Kept(f, s), m)
        /\ Gathered(Kept(f, s), m)[1] = f[s.from]
        /\ BlockAt(Gathered(Kept(f, s), m), Depth(f)[m])

ConfOK(f, m, g) ==
    /\ Depth(f)[m] = 0 => Whole(f, m, g)
    /\ \A s : Inside(f, m, s) =>
          IF f[s.from].topology THEN Whole(f, m, g) ELSE Partial(f, m, s, g)

LEMMA ObjectsMore ==
  ASSUME NEW f, Good(f), NEW ss \in Seq(Spans(f)), NEW s \in Spans(f)
  PROVE  ObjectsOf(f, Append(ss, s)) = Append(ObjectsOf(f, ss), ObjectLines(f, s))
<1> DEFINE O(t) == ObjectLines(f, t)
           r == Append(ss, s)
           q == ObjectsOf(f, ss)
           S == {O(t) : t \in Spans(f)}
<1>1. Len(ss) \in Nat /\ DOMAIN ss = 1 .. Len(ss)
  OBVIOUS
<1>2. r \in Seq(Spans(f)) /\ DOMAIN r = 1 .. Len(ss) + 1
  BY AppendOne
<1>3. \A k \in 1 .. Len(ss) : r[k] = ss[k]
  BY AppendElement
<1>4. r[Len(ss) + 1] = s
  BY AppendLast
<1>5. q = [k \in 1 .. Len(ss) |-> O(ss[k])]
  BY <1>1 DEF ObjectsOf
<1>6. ObjectsOf(f, r) = [k \in 1 .. Len(ss) + 1 |-> O(r[k])]
  BY <1>2 DEF ObjectsOf
<1> HIDE DEF O, r, q
<1>7. \A k \in 1 .. Len(ss) : O(ss[k]) \in S
  BY DEF O
<1>8. q \in Seq(S) /\ Len(q) = Len(ss) /\ O(s) \in S
  BY <1>1, <1>5, <1>7
<1> DEFINE p == Append(q, O(s))
<1>9. p \in Seq(S) /\ DOMAIN p = 1 .. Len(ss) + 1
  BY <1>8, AppendOne
<1>10. ASSUME NEW k \in 1 .. Len(ss) + 1 PROVE p[k] = O(r[k])
  <2>1. CASE k = Len(ss) + 1
    <3>1. k \in {Len(q) + 1}
      BY <1>8, <2>1
    <3>2. p[k] = O(s)
      BY <1>8, <3>1, AppendLast
    <3> QED BY <1>4, <2>1, <3>2
  <2>2. CASE k # Len(ss) + 1
    <3>1. k \in 1 .. Len(q) /\ k \in 1 .. Len(ss)
      BY <1>1, <1>8, <2>2
    <3>2. p[k] = q[k]
      BY <1>8, <3>1, AppendElement
    <3> QED BY <1>3, <1>5, <3>1, <3>2
  <2> QED BY <2>1, <2>2
<1> HIDE DEF p
<1>11. p = [k \in 1 .. Len(ss) + 1 |-> p[k]]
  BY <1>9
<1>12. ObjectsOf(f, r) = p
  BY <1>6, <1>10, <1>11
<1> QED BY <1>12 DEF p, q, r, O

LEMMA StartsNext ==
  ASSUME NEW f, Good(f), NEW k \in 1 .. Len(f)
  PROVE  /\ Gathered(Starts(f), k - 1) \in Seq(Spans(f))
         /\ \A s \in Plain(f) : s.from = k =>
                Gathered(Starts(f), k) = Append(Gathered(Starts(f), k - 1), s)
         /\ (\A s \in Plain(f) : s.from # k) =>
                Gathered(Starts(f), k) = Gathered(Starts(f), k - 1)
<1> DEFINE g == Starts(f)
           a == Gathered(g, k - 1)
<1>1. g \in Seq(Seq(Spans(f))) /\ Len(g) = Len(f) /\ k \in 1 .. Len(g) /\ k - 1 \in 0 .. Len(g)
  BY StartsParts DEF Good
<1>2. a \in Seq(Spans(f)) /\ Gathered(g, k) = a \o g[k]
  BY <1>1, GatheredParts
<1>3. \A s \in Plain(f) : s.from = k => g[k] = <<s>> /\ s \in Spans(f)
  BY StartsParts DEF Plain
<1>4. (\A s \in Plain(f) : s.from # k) => g[k] = << >>
  BY StartsParts
<1> HIDE DEF g, a
<1>5. a \o << >> = a /\ \A s \in Spans(f) : a \o <<s>> = Append(a, s)
  BY <1>2, ConcatLaws
<1> QED BY <1>2, <1>3, <1>4, <1>5 DEF g, a

LEMMA KeptNext ==
  ASSUME NEW f, Good(f), NEW s \in Spans(f), NEW k \in 1 .. Len(f)
  PROVE  /\ Gathered(Kept(f, s), k - 1) \in Seq(Line)
         /\ Gathered(Kept(f, s), k) = Gathered(Kept(f, s), k - 1) \o Kept(f, s)[k]
         /\ k = s.from => Gathered(Kept(f, s), k - 1) = << >>
         /\ k = s.to => Gathered(Kept(f, s), k) = ObjectLines(f, s)
<1> DEFINE g == Kept(f, s)
<1>0. f \in Seq(Line) /\ Len(f) \in Nat
  BY DEF Good
<1>1. /\ g \in Seq(Seq(Line)) /\ Len(g) = Len(f)
      /\ k \in 1 .. Len(g) /\ k - 1 \in 0 .. Len(g) /\ k \in 0 .. Len(g)
  BY <1>0, KeptParts
<1>2. Gathered(g, k - 1) \in Seq(Line) /\ Gathered(g, k) = Gathered(g, k - 1) \o g[k]
  BY <1>1, GatheredParts
<1>3. \A j \in 1 .. Len(f) : j \notin s.from .. s.to => g[j] = << >>
  BY KeptParts
<1>4. s.from \in Nat /\ s.to \in Nat
  BY <1>0, SpanParts
<1>5. k = s.from => \A j \in 1 .. k - 1 : g[j] = << >>
  BY <1>0, <1>3, <1>4
<1>6. k = s.to => \A j \in k + 1 .. Len(g) : g[j] = << >>
  BY <1>0, <1>1, <1>3, <1>4
<1>7. FlattenSeq(g) = ObjectLines(f, s)
  BY KeptParts
<1> HIDE DEF g
<1>8. k = s.from => Gathered(g, k - 1) = << >>
  BY <1>1, <1>5, GatheredNone
<1>9. k = s.to => Gathered(g, k) = ObjectLines(f, s)
  BY <1>1, <1>6, <1>7, GatheredRest
<1> QED BY <1>2, <1>8, <1>9 DEF g

LEMMA WholeSame ==
  ASSUME NEW f, Good(f), NEW k \in 1 .. Len(f), NEW g, Whole(f, k - 1, g),
         \A s \in Plain(f) : s.from # k
  PROVE  /\ Whole(f, k, g)
         /\ ~f[k].opens /\ ~f[k].oneLine => Whole(f, k, Append(g, f[k]))
<1>1. Gathered(Starts(f), k) = Gathered(Starts(f), k - 1)
  BY StartsNext
<1>2. PICK at : Shape(g, at, ObjectsOf(f, Gathered(Starts(f), k - 1)))
  BY DEF Whole
<1>3. Whole(f, k, g)
  BY <1>1, <1>2 DEF Whole
<1>4. ASSUME ~f[k].opens, ~f[k].oneLine PROVE Whole(f, k, Append(g, f[k]))
  <2>1. f[k] \in Line /\ ~IsHeader(f[k]) /\ ~IsEmptyObject(f[k])
    BY <1>4 DEF Good, IsHeader, IsEmptyObject
  <2>2. Shape(Append(g, f[k]), at, ObjectsOf(f, Gathered(Starts(f), k - 1)))
    BY <1>2, <2>1, ShapeSkip
  <2> QED BY <1>1, <2>2 DEF Whole
<1> QED BY <1>3, <1>4

(* An object has come to its end.                                          *)
LEMMA WholeMore ==
  ASSUME NEW f, Good(f), NEW s \in Spans(f), NEW ss \in Seq(Spans(f)), NEW h, NEW at,
         Shape(h, at, ObjectsOf(f, ss)), BlockAt(ObjectLines(f, s), 0),
         NEW m, Gathered(Starts(f), m) = Append(ss, s)
  PROVE  Whole(f, m, h \o ObjectLines(f, s))
<1> DEFINE o == ObjectLines(f, s)
           b == ObjectsOf(f, ss)
<1>1. Closed(o) /\ Shape(h, at, b)
  BY DEF Closed
<1>2. ObjectsOf(f, Gathered(Starts(f), m)) = Append(b, o)
  BY ObjectsMore
<1> HIDE DEF o, b
<1>3. PICK x \in [from : Nat, to : Nat] : Shape(h \o o, Append(at, x), Append(b, o))
  BY <1>1, ShapeObject
<1>4. \E r : Shape(h \o o, r, Append(b, o))
  BY <1>3
<1> QED BY <1>2, <1>4 DEF Whole, o

-----------------------------------------------------------------------------
(* No topology statement's line is a line of another object.               *)
LEMMA ConfTopology ==
  ASSUME NEW f, Good(f), NEW k \in 1 .. Len(f), NEW x, TopologyIn(f, k - 1, x),
         f[k].topology \/ x, NEW g, ConfOK(f, k - 1, g)
  PROVE  ConfOK(f, k, g)
<1>0. f \in Seq(Line) /\ Len(f) \in Nat /\ k - 1 \in 0 .. Len(f) /\ k \in 0 .. Len(f)
  BY DEF Good
<1>1. CASE Depth(f)[k - 1] = 0
  <2>1. ~x /\ f[k].topology
    BY <1>1 DEF TopologyIn
  <2>2. PICK s : HeaderLine(f, k, s)
    BY <1>1, <2>1, TopKinds DEF EmptyLine, OtherLine
  <2>3. ASSUME NEW t \in Plain(f) PROVE t.from # k
    <3>1. t \in Spans(f) /\ ~f[t.from].topology
      BY DEF Plain, Topologies
    <3> QED BY <2>1, <3>1
  <2>4. Whole(f, k, g)
    <3>1. Whole(f, k - 1, g)
      BY <1>1 DEF ConfOK
    <3> QED BY <2>3, <3>1, WholeSame
  <2>5. \A t : Inside(f, k, t) => t = s
    BY <2>2, InsideOnly DEF HeaderLine
  <2>6. f[s.from].topology
    BY <2>1, <2>2 DEF HeaderLine
  <2> QED BY <2>4, <2>5, <2>6 DEF ConfOK
<1>2. CASE Depth(f)[k - 1] # 0
  <2>1. PICK s : Inside(f, k - 1, s)
    BY <1>0, <1>2, InsideExists
  <2>2. InnerLine(f, k, s)
    BY <2>1, InnerParts
  <2>3. f[s.from].topology
    <3>1. x = f[s.from].topology
      BY <2>1 DEF TopologyIn
    <3> QED BY <2>2, <3>1 DEF InnerLine
  <2>4. ASSUME NEW t \in Plain(f) PROVE t.from # k
    <3>1. t \in Spans(f) /\ ~f[t.from].topology
      BY DEF Plain, Topologies
    <3>2. t.from \in Nat /\ t.to \in Nat /\ t.from <= t.to
      BY <1>0, <3>1, SpanParts
    <3>3. t.from = k => k \in t.from .. t.to
      BY <3>2
    <3> QED BY <2>2, <2>3, <3>1, <3>3 DEF InnerLine
  <2>5. Whole(f, k, g)
    <3>1. Whole(f, k - 1, g)
      BY <2>1, <2>3 DEF ConfOK
    <3> QED BY <2>4, <3>1, WholeSame
  <2>6. \A t : Inside(f, k, t) => t = s
    BY <2>2, InsideOnly DEF InnerLine
  <2> QED BY <2>3, <2>5, <2>6 DEF ConfOK
<1> QED BY <1>1, <1>2

(* The header of an object, and an object of one line.                     *)
LEMMA ConfHeader ==
  ASSUME NEW f, Good(f), NEW k \in 1 .. Len(f), NEW s, HeaderLine(f, k, s),
         ~f[k].topology, NEW g, Whole(f, k - 1, g)
  PROVE  ConfOK(f, k, Append(g, f[k]))
<1>1. s \in Plain(f) /\ s \in Spans(f) /\ s.from = k
  BY DEF HeaderLine, Plain, Topologies
<1> DEFINE ss == Gathered(Starts(f), k - 1)
           l == f[k]
<1>2. l \in Line
  BY DEF Good
<1>3. ss \in Seq(Spans(f)) /\ Gathered(Starts(f), k) = Append(ss, s)
  BY <1>1, StartsNext
<1>4. PICK at : Shape(g, at, ObjectsOf(f, ss))
  BY DEF Whole
<1>5. Kept(f, s)[k] = <<l>>
  <2>1. s.to \in Nat /\ k <= s.to /\ k \in s.from .. s.to
    BY <1>1, SpanParts DEF Good
  <2> QED BY <1>1, <2>1, KeptParts DEF HeaderLine
<1>6. Gathered(Kept(f, s), k) = <<l>>
  <2>1. Gathered(Kept(f, s), k) = << >> \o <<l>>
    BY <1>1, <1>5, KeptNext
  <2> QED BY <1>2, <2>1
<1>7. <<l>>[1] = f[s.from] /\ g \o <<l>> = Append(g, l)
  <2>1. g \in Seq(Line)
    BY <1>4 DEF Shape
  <2> QED BY <1>1, <1>2, <2>1
<1>8. BlockAt(<<l>>, Depth(f)[k])
  <2>1. IsHeader(l) /\ ~IsEmptyObject(l) /\ Depth(f)[k] = 1
    BY DEF HeaderLine, IsHeader, IsEmptyObject
  <2> QED BY <1>2, <2>1, BlockOne
<1>9. Partial(f, k, s, Append(g, l))
  <2> HIDE DEF l, ss
  <2> QED BY <1>3, <1>4, <1>6, <1>7, <1>8 DEF Partial
<1>10. \A t : Inside(f, k, t) => t = s
  BY InsideOnly DEF HeaderLine
<1>11. Depth(f)[k] # 0 /\ ~f[s.from].topology
  BY <1>1 DEF HeaderLine
<1> QED BY <1>9, <1>10, <1>11 DEF ConfOK

LEMMA ConfEmpty ==
  ASSUME NEW f, Good(f), NEW k \in 1 .. Len(f), NEW s, EmptyLine(f, k, s),
         NEW g, Whole(f, k - 1, g)
  PROVE  ConfOK(f, k, Append(g, f[k]))
<1>1. s \in Plain(f) /\ s \in Spans(f) /\ s.from = k /\ s.to = k /\ Depth(f)[k] = 0
  BY DEF EmptyLine, Plain, Topologies
<1> DEFINE ss == Gathered(Starts(f), k - 1)
           l == f[k]
<1>2. l \in Line /\ k \in 0 .. Len(f)
  BY DEF Good
<1>3. ss \in Seq(Spans(f)) /\ Gathered(Starts(f), k) = Append(ss, s)
  BY <1>1, StartsNext
<1>4. PICK at : Shape(g, at, ObjectsOf(f, ss))
  BY DEF Whole
<1>5. Kept(f, s)[k] = <<l>>
  <2>1. k \in s.from .. s.to
    BY <1>1
  <2> QED BY <1>1, <2>1, KeptParts DEF EmptyLine
<1>6. ObjectLines(f, s) = <<l>>
  <2>1. ObjectLines(f, s) = << >> \o <<l>>
    BY <1>1, <1>5, KeptNext
  <2> QED BY <1>2, <2>1
<1>7. g \o <<l>> = Append(g, l)
  <2>1. g \in Seq(Line)
    BY <1>4 DEF Shape
  <2> QED BY <1>2, <2>1
<1>8. BlockAt(<<l>>, 0)
  <2>1. IsEmptyObject(l)
    BY DEF EmptyLine, IsEmptyObject
  <2> QED BY <1>2, <2>1, ClosedOne
<1>9. Whole(f, k, g \o ObjectLines(f, s))
  <2> HIDE DEF l, ss
  <2> QED BY <1>1, <1>3, <1>4, <1>6, <1>8, WholeMore
<1>10. \A t : ~Inside(f, k, t)
  BY <1>1, <1>2, InsideParts
<1> QED BY <1>6, <1>7, <1>9, <1>10 DEF ConfOK

LEMMA ConfOther ==
  ASSUME NEW f, Good(f), NEW k \in 1 .. Len(f), OtherLine(f, k),
         NEW g, Whole(f, k - 1, g)
  PROVE  ConfOK(f, k, IF f[k].blank \/ f[k].hashSpace THEN g ELSE Append(g, f[k]))
<1>0. f \in Seq(Line) /\ k \in 0 .. Len(f)
  BY DEF Good
<1>1. ASSUME NEW t \in Plain(f) PROVE t.from # k
  <2>1. t \in Spans(f)
    BY DEF Plain
  <2>2. t.from \in Nat /\ t.to \in Nat /\ t.from <= t.to
    BY <1>0, <2>1, SpanParts
  <2>3. t.from = k => k \in t.from .. t.to
    BY <2>2
  <2> QED BY <2>1, <2>3 DEF OtherLine
<1>2. Whole(f, k, g) /\ (~f[k].opens /\ ~f[k].oneLine => Whole(f, k, Append(g, f[k])))
  BY <1>1, WholeSame
<1>3. ~f[k].blank /\ ~f[k].hashSpace => ~f[k].opens /\ ~f[k].oneLine
  BY DEF OtherLine
<1>4. \A t : ~Inside(f, k, t)
  BY <1>0, InsideParts DEF OtherLine
<1> QED BY <1>2, <1>3, <1>4 DEF ConfOK

(* The lines behind the header.                                            *)
LEMMA ConfInner ==
  ASSUME NEW f, Good(f), NEW k \in 1 .. Len(f), NEW s, Inside(f, k - 1, s),
         ~f[s.from].topology, NEW w, IruleOK(f, k - 1, w),
         NEW g, Partial(f, k - 1, s, g)
  PROVE  ConfOK(f, k, IF f[k].blank \/ (w = 0 /\ f[k].hashSpace) THEN g ELSE Append(g, f[k]))
<1>0. f \in Seq(Line) /\ Len(f) \in Nat /\ k - 1 \in 0 .. Len(f) /\ k \in 0 .. Len(f)
  BY DEF Good
<1> DEFINE l == f[k]
           o == Gathered(Kept(f, s), k - 1)
           q == Gathered(Kept(f, s), k)
           y == IF l.blank \/ (w = 0 /\ l.hashSpace) THEN g ELSE Append(g, l)
<1>1. InnerLine(f, k, s)
  BY InnerParts
<1>2. PICK done \in Seq(Spans(f)) : \E h, at :
          /\ Gathered(Starts(f), k - 1) = Append(done, s)
          /\ Shape(h, at, ObjectsOf(f, done))
          /\ g = h \o o
          /\ o[1] = f[s.from]
          /\ BlockAt(o, Depth(f)[k - 1])
  BY DEF Partial
<1>3. PICK h, at :
          /\ Gathered(Starts(f), k - 1) = Append(done, s)
          /\ Shape(h, at, ObjectsOf(f, done))
          /\ g = h \o o
          /\ o[1] = f[s.from]
          /\ BlockAt(o, Depth(f)[k - 1])
  BY <1>2
<1>4. /\ s \in Spans(f) /\ s.from \in 1 .. Len(f) /\ k \in s.from + 1 .. s.to
      /\ l \in Line
  BY <1>1 DEF InnerLine
<1>5. Gathered(Starts(f), k) = Append(done, s)
  <2>1. ASSUME NEW t \in Plain(f) PROVE t.from # k
    <3>1. t \in Spans(f)
      BY DEF Plain
    <3>2. t.from \in Nat /\ t.to \in Nat /\ t.from <= t.to
      BY <1>0, <3>1, SpanParts
    <3>3. t.from = k => k \in t.from .. t.to
      BY <3>2
    <3>4. s.from < k
      BY <1>4
    <3> QED BY <1>1, <1>4, <3>1, <3>3, <3>4 DEF InnerLine
  <2> QED BY <1>3, <2>1, StartsNext
<1>6. o \in Seq(Line) /\ h \in Seq(Line)
  BY <1>3, <1>4, KeptNext DEF Shape
<1>7. w = IF f[s.from].rule THEN Depth(f)[k - 1] ELSE 0
  BY DEF IruleOK
<1>8. w = 0 <=> ~f[s.from].rule
  BY <1>1, <1>7 DEF InnerLine
<1>9. Kept(f, s)[k] = IF l.blank \/ (w = 0 /\ l.hashSpace) THEN << >> ELSE <<l>>
  <2>1. k \in s.from .. s.to
    BY <1>4
  <2>2. Kept(f, s)[k] = IF ~l.blank /\ (l.hashSpace => f[s.from].rule) THEN <<l>> ELSE << >>
    BY <1>4, <2>1, KeptParts
  <2> HIDE DEF l
  <2> QED BY <1>8, <2>2
<1>10. q = o \o Kept(f, s)[k]
  BY <1>4, KeptNext
<1>11. /\ y = h \o q /\ q[1] = f[s.from] /\ BlockAt(q, Depth(f)[k])
  <2>1. CASE l.blank \/ (w = 0 /\ l.hashSpace)
    <3>1. q = o /\ y = g
      BY <1>6, <1>9, <1>10, <2>1, ConcatLaws
    <3>2. Depth(f)[k] = Depth(f)[k - 1]
      BY <1>1, <2>1 DEF InnerLine, Possible
    <3> QED BY <1>3, <3>1, <3>2
  <2>2. CASE ~(l.blank \/ (w = 0 /\ l.hashSpace))
    <3>1. q = Append(o, l) /\ y = Append(g, l)
      BY <1>4, <1>6, <1>9, <1>10, <2>2, ConcatLaws
    <3>2. Append(h \o o, l) = h \o Append(o, l)
      <4>1. /\ (h \o o) \o <<l>> = h \o (o \o <<l>>) /\ o \o <<l>> = Append(o, l)
            /\ <<l>> \in Seq(Line) /\ h \o o \in Seq(Line)
        BY <1>4, <1>6
      <4>2. (h \o o) \o <<l>> = Append(h \o o, l)
        BY <1>4, <4>1, ConcatLaws
      <4> QED BY <4>1, <4>2
    <3>3. l.hash => f[s.from].rule
      BY <1>1, <1>8, <2>2 DEF InnerLine
    <3>4. Read(o[1], l) => ~l.rule
      BY <1>1, <1>3, <3>3 DEF InnerLine, Read
    <3>5. Depth(f)[k] = Depth(f)[k - 1] + Rise(o[1], l)
      BY <1>1, <1>3, <3>3 DEF InnerLine, Read, Rise
    <3>6. Depth(f)[k - 1] \in Int /\ Depth(f)[k - 1] # 0 /\ Depth(f)[k] \in Int
      BY <1>1 DEF InnerLine
    <3> HIDE DEF o, l
    <3>7. BlockAt(Append(o, l), Depth(f)[k]) /\ Append(o, l)[1] = o[1]
      BY <1>3, <1>4, <3>4, <3>5, <3>6, BlockMore
    <3> QED BY <1>3, <3>1, <3>2, <3>7
  <2> QED BY <2>1, <2>2
<1> HIDE DEF l, o, y
<1>12. Partial(f, k, s, y)
  BY <1>3, <1>5, <1>11 DEF Partial
<1>13. Depth(f)[k] = 0 => Whole(f, k, y)
  <2> SUFFICES ASSUME Depth(f)[k] = 0 PROVE Whole(f, k, y)
    OBVIOUS
  <2>1. k = s.to
    BY <1>1 DEF InnerLine
  <2>2. q = ObjectLines(f, s)
    BY <1>4, <2>1, KeptNext
  <2>3. BlockAt(ObjectLines(f, s), 0)
    BY <1>11, <2>2
  <2>4. Whole(f, k, h \o ObjectLines(f, s))
    BY <1>3, <1>4, <1>5, <2>3, WholeMore
  <2> QED BY <1>11, <2>2, <2>4
<1>14. \A t : Inside(f, k, t) => t = s
  BY <1>1, InsideOnly DEF InnerLine
<1>15. ConfOK(f, k, y)
  BY <1>12, <1>13, <1>14 DEF ConfOK
<1> QED BY <1>15 DEF y, l

(* Any other line stays, unless it is blank or marked.                     *)
LEMMA ConfStays ==
  ASSUME NEW f, Good(f), NEW k \in 1 .. Len(f), ~f[k].topology,
         TopologyIn(f, k - 1, FALSE), NEW w, IruleOK(f, k - 1, w),
         NEW g, ConfOK(f, k - 1, g)
  PROVE  ConfOK(f, k, IF f[k].blank \/ (w = 0 /\ f[k].hashSpace) THEN g ELSE Append(g, f[k]))
<1>0. k - 1 \in 0 .. Len(f)
  BY DEF Good
<1>1. CASE Depth(f)[k - 1] = 0
  <2>1. w = 0 /\ Whole(f, k - 1, g)
    BY <1>1 DEF IruleOK, ConfOK
  <2>2. CASE \E s : HeaderLine(f, k, s)
    <3>1. PICK s : HeaderLine(f, k, s)
      BY <2>2
    <3>2. ~(f[k].blank \/ (w = 0 /\ f[k].hashSpace))
      BY <3>1 DEF HeaderLine
    <3>3. ConfOK(f, k, Append(g, f[k]))
      BY <2>1, <3>1, ConfHeader
    <3> QED BY <3>2, <3>3
  <2>3. CASE \E s : EmptyLine(f, k, s)
    <3>1. PICK s : EmptyLine(f, k, s)
      BY <2>3
    <3>2. ~(f[k].blank \/ (w = 0 /\ f[k].hashSpace))
      BY <3>1 DEF EmptyLine
    <3>3. ConfOK(f, k, Append(g, f[k]))
      BY <2>1, <3>1, ConfEmpty
    <3> QED BY <3>2, <3>3
  <2>4. CASE OtherLine(f, k)
    <3>1. ConfOK(f, k, IF f[k].blank \/ f[k].hashSpace THEN g ELSE Append(g, f[k]))
      BY <2>1, <2>4, ConfOther
    <3> QED BY <2>1, <3>1
  <2> QED BY <1>1, <2>2, <2>3, <2>4, TopKinds
<1>2. CASE Depth(f)[k - 1] # 0
  <2>1. PICK s : Inside(f, k - 1, s)
    BY <1>0, <1>2, InsideExists
  <2>2. ~f[s.from].topology
    <3>1. FALSE = f[s.from].topology
      BY <2>1 DEF TopologyIn
    <3> QED BY <3>1
  <2>3. Partial(f, k - 1, s, g)
    BY <2>1, <2>2 DEF ConfOK
  <2> QED BY <2>1, <2>2, <2>3, ConfInner
<1> QED BY <1>1, <1>2

-----------------------------------------------------------------------------
(* The filter has done line n - 1 of a regular file.                       *)
FilterOK ==
    pc = "filter" /\ Regular(file) =>
        /\ IruleOK(file, n - 1, irule)
        /\ TopologyIn(file, n - 1, inTopology)
        /\ TopologyOK(file, n - 1, inTopology, topology)
        /\ ConfOK(file, n - 1, conf)

FileOK == file \in Files

LEMMA FileIsGood == FileOK /\ Regular(file) => Good(file)
BY FilesAssumption, LinesAssumption DEF FileOK, Good

LEMMA InitFilter == Init => FilterOK /\ FileOK
<1> SUFFICES ASSUME Init PROVE FilterOK /\ FileOK
  OBVIOUS
<1>1. FileOK
  BY DEF Init, FileOK
<1>2. ASSUME Regular(file) PROVE FilterOK
  <2>1. Good(file) /\ file \in Seq(Line)
    BY <1>1, <1>2, FileIsGood DEF Good
  <2>2. n - 1 = 0 /\ Depth(file)[0] = 0
    BY <2>1, DepthParts DEF Init
  <2>3. \A s \in Spans(file) : 1 <= s.from /\ s.from \in Nat
    BY <2>1, SpanParts
  <2>4. (\A s : ~Inside(file, 0, s)) /\ ~Began(file, 0)
    BY <2>3 DEF Inside, Began, Topologies
  <2>5. Whole(file, 0, << >>)
    <3>1. Gathered(Starts(file), 0) = << >>
      BY <2>1, StartsParts, GatheredParts
    <3>2. ObjectsOf(file, << >>) = << >>
      BY DEF ObjectsOf
    <3> QED BY <3>1, <3>2, ShapeNone DEF Whole
  <2>6. IruleOK(file, 0, 0) /\ TopologyIn(file, 0, FALSE)
    BY <2>4 DEF IruleOK, TopologyIn
  <2>7. TopologyOK(file, 0, FALSE, << >>) /\ ConfOK(file, 0, << >>)
    BY <2>4, <2>5 DEF TopologyOK, ConfOK
  <2> QED BY <2>2, <2>6, <2>7 DEF FilterOK, Init
<1> QED BY <1>1, <1>2 DEF FilterOK

LEMMA FilterNext == TypeOK /\ FileOK /\ FilterOK /\ [Next]_vars => FilterOK' /\ FileOK'
<1> SUFFICES ASSUME TypeOK, FileOK, FilterOK, [Next]_vars PROVE FilterOK' /\ FileOK'
  OBVIOUS
<1>1. file' = file
  BY DEF Next, vars, FilterTopologyHeader, FilterTopologyBody, FilterLine, FilterEnd,
         Reading, Grouping, GroupOneLine, SkipLine, OpenBlock, Advance, CountLine,
         CloseBlock, Finish
<1>2. FileOK'
  BY <1>1 DEF FileOK
<1>3. ASSUME Reading, Regular(file), TopologyOK(file, n, inTopology', topology'),
             inTopology' = (file[n].topology \/ (inTopology /\ ~file[n].close)),
             ConfOK(file, n, conf')
      PROVE  FilterOK'
  <2>1. Good(file) /\ n \in 1 .. Len(file) /\ n' - 1 = n /\ pc = "filter"
    BY <1>3, FileIsGood DEF Reading, TypeOK
  <2>2. IruleOK(file, n - 1, irule) /\ TopologyIn(file, n - 1, inTopology)
    BY <1>3, <2>1 DEF FilterOK
  <2>3. irule' = IF irule = 0 THEN IF file[n].rule /\ ~file[n].hashSpace THEN 1 ELSE 0
                 ELSE IF file[n].hash THEN irule ELSE irule + file[n].raw
    BY <1>3 DEF Reading, NextIrule
  <2>4. IruleOK(file, n, irule')
    BY <2>1, <2>2, <2>3, IruleStep
  <2>5. TopologyIn(file, n, inTopology')
    BY <1>3, <2>1, <2>2, TopologyInStep
  <2> QED BY <1>1, <1>3, <2>1, <2>4, <2>5 DEF FilterOK
<1>4. ASSUME Reading, Regular(file)
      PROVE  /\ Good(file) /\ n \in 1 .. Len(file) /\ file[n] \in Line
             /\ file[n].topology \in BOOLEAN /\ file[n].close \in BOOLEAN
             /\ inTopology \in BOOLEAN
             /\ IruleOK(file, n - 1, irule) /\ TopologyIn(file, n - 1, inTopology)
             /\ TopologyOK(file, n - 1, inTopology, topology)
             /\ ConfOK(file, n - 1, conf)
  <2>1. Good(file) /\ n \in 1 .. Len(file) /\ inTopology \in BOOLEAN
    BY <1>4, FileIsGood DEF Reading, TypeOK
  <2>2. file[n] \in Line
    BY <2>1 DEF Good
  <2>3. file[n].topology \in BOOLEAN /\ file[n].close \in BOOLEAN
    BY <2>2 DEF Line
  <2> QED BY <1>4, <2>1, <2>2, <2>3 DEF Reading, FilterOK
<1>5. CASE FilterTopologyHeader
  <2> SUFFICES ASSUME Regular(file) PROVE FilterOK'
    BY <1>1, <1>2 DEF FilterOK
  <2>1. Reading /\ file[n].topology /\ inTopology' = TRUE /\ conf' = conf
    BY <1>5 DEF FilterTopologyHeader
  <2>2. TopologyOK(file, n, TRUE, topology')
    BY <1>4, <1>5, <2>1, TopologyOpens DEF FilterTopologyHeader
  <2>3. ConfOK(file, n, conf')
    BY <1>4, <2>1, ConfTopology
  <2> QED BY <1>3, <2>1, <2>2, <2>3
<1>6. CASE FilterTopologyBody
  <2> SUFFICES ASSUME Regular(file) PROVE FilterOK'
    BY <1>1, <1>2 DEF FilterOK
  <2>1. /\ Reading /\ ~file[n].topology /\ inTopology = TRUE /\ conf' = conf
        /\ inTopology' = ~file[n].close
    BY <1>4, <1>6 DEF FilterTopologyBody
  <2>2. topology' = IF file[n].close THEN Append(topology, Closing)
                    ELSE IF irule = 0 /\ file[n].hashSpace THEN topology
                    ELSE Append(topology, Indented(file[n]))
    BY <1>6 DEF FilterTopologyBody, IsOuterComment
  <2>3. TopologyOK(file, n, inTopology', topology')
    BY <1>4, <2>1, <2>2, TopologyGoesOn
  <2>4. ConfOK(file, n, conf')
    BY <1>4, <2>1, ConfTopology
  <2>5. inTopology' = (file[n].topology \/ (inTopology /\ ~file[n].close))
    BY <1>4, <2>1
  <2> QED BY <1>3, <2>1, <2>3, <2>4, <2>5
<1>7. CASE FilterLine
  <2> SUFFICES ASSUME Regular(file) PROVE FilterOK'
    BY <1>1, <1>2 DEF FilterOK
  <2>1. /\ Reading /\ ~file[n].topology /\ inTopology = FALSE
        /\ inTopology' = inTopology /\ topology' = topology
    BY <1>4, <1>7 DEF FilterLine, TypeOK
  <2>2. conf' = IF file[n].blank \/ (irule = 0 /\ file[n].hashSpace) THEN conf
                ELSE Append(conf, file[n])
    BY <1>7 DEF FilterLine, IsOuterComment
  <2>3. TopologyOK(file, n, inTopology', topology')
    BY <1>4, <2>1, TopologyStays
  <2>4. ConfOK(file, n, conf')
    BY <1>4, <2>1, <2>2, ConfStays
  <2>5. inTopology' = (file[n].topology \/ (inTopology /\ ~file[n].close))
    BY <1>4, <2>1
  <2> QED BY <1>3, <2>1, <2>3, <2>4, <2>5
<1>8. CASE UNCHANGED vars
  BY <1>2, <1>8 DEF FilterOK, vars
<1>9. CASE FilterEnd \/ GroupOneLine \/ SkipLine \/ OpenBlock \/ Advance \/ CountLine
           \/ CloseBlock \/ Finish
  <2>1. pc' # "filter"
    BY <1>9 DEF FilterEnd, Grouping, GroupOneLine, SkipLine, OpenBlock, Advance,
                CountLine, CloseBlock, Finish
  <2> QED BY <1>2, <2>1 DEF FilterOK
<1> QED BY <1>2, <1>5, <1>6, <1>7, <1>8, <1>9 DEF Next
-----------------------------------------------------------------------------
(* After the filter the lines are those of the objects of the file.        *)
LEMMA FilteredAll ==
  ASSUME TypeOK, FileOK, FilterOK, FilterEnd, Regular(file)
  PROVE  \E at : Shape(conf', at, Objects(file))
<1> DEFINE f == file
           plain == ObjectsOf(f, PlainSpans(f))
<1>0. Good(f) /\ f \in Seq(Line) /\ Len(f) \in Nat
  BY FileIsGood DEF Good
<1>1. n - 1 = Len(f) /\ pc = "filter" /\ Depth(f)[Len(f)] = 0
  BY <1>0 DEF FilterEnd, TypeOK, Good, Regular
<1>2. /\ TopologyIn(f, Len(f), inTopology)
      /\ TopologyOK(f, Len(f), inTopology, topology)
      /\ ConfOK(f, Len(f), conf)
  BY <1>1 DEF FilterOK
<1>3. PICK at : Shape(conf, at, plain)
  <2>1. Gathered(Starts(f), Len(f)) = PlainSpans(f)
    <3>1. Starts(f) \in Seq(Seq(Spans(f))) /\ Len(Starts(f)) = Len(f)
          /\ FlattenSeq(Starts(f)) = PlainSpans(f)
      BY <1>0, StartsParts
    <3> QED BY <3>1, GatheredParts
  <2>2. Whole(f, Len(f), conf)
    BY <1>1, <1>2 DEF ConfOK
  <2> QED BY <2>1, <2>2 DEF Whole
<1>4. Objects(f) = plain \o TopologyObject(f)
  BY DEF Objects, ObjectsOf
<1>5. plain \in Seq(Seq(Line)) /\ conf \in Seq(Line)
  BY <1>3 DEF Shape
<1>6. Began(f, Len(f)) <=> Topologies(f) # {}
  <2>1. \A t \in Topologies(f) : t.from \in 1 .. Len(f)
    BY <1>0, SpanParts DEF Topologies
  <2> QED BY <1>0, <2>1 DEF Began
<1>7. CASE Topologies(f) = {}
  <2>1. topology = << >> /\ TopologyObject(f) = << >>
    BY <1>2, <1>6, <1>7 DEF TopologyOK, TopologyObject
  <2>2. conf' = conf
    BY <2>1 DEF FilterEnd
  <2> HIDE DEF plain
  <2>3. plain \o << >> = plain
    BY <1>5
  <2> QED BY <1>3, <1>4, <2>1, <2>2, <2>3
<1>8. CASE Topologies(f) # {}
  <2> DEFINE o == topology \o TopologyTail
  <2>1. ~inTopology
    BY <1>1, <1>2 DEF TopologyIn
  <2>2. topology = TopologyText(f, Len(f)) /\ BlockTo(topology, 2)
    <3>1. /\ topology = TopologyText(f, Len(f))
          /\ BlockTo(topology, 2 + (IF inTopology THEN Depth(f)[Len(f)] ELSE 0))
      BY <1>2, <1>6, <1>8 DEF TopologyOK
    <3>2. 2 + (IF inTopology THEN Depth(f)[Len(f)] ELSE 0) = 2
      BY <2>1
    <3> QED BY <3>1, <3>2
  <2>3. topology # << >> /\ topology \in Seq(Line)
    BY <2>2 DEF BlockTo, BlockAt, Block
  <2>4. Closed(o)
    BY <2>2, BlockTail
  <2>5. TopologyObject(f) = <<o>>
    <3>1. Gathered(TopologyLines(f), Len(f)) = FlattenSeq(TopologyLines(f))
      <4>1. TopologyLines(f) \in Seq(Seq(Line)) /\ Len(TopologyLines(f)) = Len(f)
        BY <1>0, TopologyLinesParts
      <4> QED BY <4>1, GatheredParts
    <3>2. topology = TopologyHead \o FlattenSeq(TopologyLines(f))
      BY <2>2, <3>1 DEF TopologyText
    <3> QED BY <1>8, <3>2 DEF TopologyObject
  <2>6. conf' = conf \o o
    <3>1. conf' = conf \o topology \o TopologyTail
      BY <2>3 DEF FilterEnd
    <3> QED BY <1>5, <2>3, <3>1, OwnLines, ConcatLaws
  <2>7. o \in Seq(Line)
    BY <2>4 DEF Closed, BlockAt, Block
  <2> HIDE DEF o, plain
  <2>8. PICK x \in [from : Nat, to : Nat] : Shape(conf \o o, Append(at, x), Append(plain, o))
    BY <1>3, <2>4, ShapeObject
  <2>9. \E r : Shape(conf \o o, r, Append(plain, o))
    BY <2>8
  <2>10. plain \o <<o>> = Append(plain, o)
    BY <1>5, <2>7, ConcatLaws
  <2> QED BY <1>4, <2>5, <2>6, <2>9, <2>10
<1> QED BY <1>7, <1>8

-----------------------------------------------------------------------------
(* The groups so far are the first of the intervals at, and the scan is    *)
(* between two of them or within the next one, where it counts as e does.  *)
Cut(at) == /\ Shape(conf, at, Objects(file))
           /\ Len(groups) <= Len(at)
           /\ \A k \in 1 .. Len(groups) : groups[k] = at[k]

Between(at) == \A k \in Len(groups) + 1 .. Len(at) : i <= at[k].from

Counts(o, e) ==
    /\ Block(o, e) /\ e[Len(o)] = 0
    /\ pc = "advance" => c + 1 \in 1 .. Len(o) /\ bracketCount = e[c + 1] /\ e[c + 1] # 0
    /\ pc = "count" => c \in 1 .. Len(o) - 1 /\ bracketCount = e[c]
    /\ pc = "close" => c + 1 = Len(o)

Within(at) == /\ Len(groups) < Len(at)
              /\ i = at[Len(groups) + 1].from
              /\ \E e : Counts(Objects(file)[Len(groups) + 1], e)

Scan(at) == /\ Cut(at)
            /\ pc \in {"group", "advance", "count", "close", "done"}
            /\ pc \in {"group", "done"} => Between(at)
            /\ pc \in {"advance", "count", "close"} => Within(at)

GroupsOK == pc # "filter" /\ Regular(file) => \E at : Scan(at)

LEMMA ShapeParts ==
  ASSUME NEW g, NEW at, NEW objs, Shape(g, at, objs), NEW k \in 1 .. Len(at)
  PROVE  /\ at[k] \in [from : Nat, to : Nat]
         /\ at[k].from \in 1 .. Len(g) /\ at[k].to \in 1 .. Len(g)
         /\ at[k].from <= at[k].to
         /\ \A m \in 1 .. k - 1 : at[m].to < at[k].from
         /\ Closed(objs[k]) /\ objs[k] \in Seq(Line) /\ Len(objs[k]) \in Nat
         /\ Len(objs[k]) = at[k].to - at[k].from + 1
         /\ \A p \in 1 .. Len(objs[k]) : g[at[k].from + p - 1] = objs[k][p]
         /\ IsHeader(g[at[k].from]) \/ IsEmptyObject(g[at[k].from])
<1>0. g \in Seq(Line) /\ at \in Seq([from : Nat, to : Nat]) /\ Len(g) \in Nat
  BY DEF Shape
<1>1. /\ 1 <= at[k].from /\ at[k].from <= at[k].to /\ at[k].to <= Len(g)
      /\ SubSeq(g, at[k].from, at[k].to) = objs[k]
      /\ Closed(objs[k])
      /\ \A m \in 1 .. k - 1 : at[m].to < at[k].from
  BY DEF Shape
<1>2. at[k] \in [from : Nat, to : Nat]
  BY <1>0, ElementType
<1> DEFINE a == at[k].from
           b == at[k].to
           o == objs[k]
<1>3. a \in 1 .. Len(g) /\ b \in 1 .. Len(g) /\ a <= b
  BY <1>0, <1>1, <1>2
<1>4. o \in Seq(Line) /\ Len(o) \in Nat /\ Len(o) >= 1
  BY <1>1 DEF Closed, BlockAt, Block
<1>5. SubSeq(g, a, b) = o
  BY <1>1
<1>6. IsHeader(o[1]) \/ IsEmptyObject(o[1])
  BY <1>1 DEF Closed, BlockAt, Block
<1> HIDE DEF a, b, o
<1>7. SubSeq(g, a, b) = [p \in 1 .. b - a + 1 |-> g[a + p - 1]]
  BY <1>0, <1>3
<1>8. Len(o) = b - a + 1 /\ \A p \in 1 .. Len(o) : g[a + p - 1] = o[p]
  <2>1. b - a + 1 \in Nat
    BY <1>3
  <2>2. o = [p \in 1 .. b - a + 1 |-> g[a + p - 1]]
    BY <1>5, <1>7
  <2>3. DOMAIN o = 1 .. b - a + 1
    BY <2>2
  <2>4. Len(o) = b - a + 1
    BY <1>4, <2>1, <2>3
  <2> QED BY <2>2, <2>4
<1>9. g[a] = o[1]
  <2>1. 1 \in 1 .. Len(o) /\ a + 1 - 1 = a
    BY <1>3, <1>4
  <2> QED BY <1>8, <2>1
<1> QED BY <1>1, <1>2, <1>3, <1>4, <1>6, <1>8, <1>9 DEF a, b, o

(* The first line that opens or holds an object behind the m-th one is     *)
(* that of the next.                                                       *)
LEMMA ShapeAt ==
  ASSUME NEW g, NEW at, NEW objs, Shape(g, at, objs), NEW p \in 1 .. Len(g),
         IsHeader(g[p]) \/ IsEmptyObject(g[p]), NEW m \in 0 .. Len(at),
         \A k \in 1 .. m : at[k].to < p,
         \A k \in m + 1 .. Len(at) : p <= at[k].from
  PROVE  m < Len(at) /\ at[m + 1].from = p
<1>1. Len(at) \in Nat /\ Len(g) \in Nat
  BY DEF Shape
<1>2. PICK k \in 1 .. Len(at) : at[k].from <= p /\ p <= at[k].to
  BY DEF Shape
<1>3. at[k].from \in 1 .. Len(g) /\ at[k].to \in 1 .. Len(g)
  BY ShapeParts
<1>4. ~(k \in 1 .. m)
  BY <1>1, <1>2, <1>3
<1>5. k \in m + 1 .. Len(at) /\ at[k].from = p
  BY <1>1, <1>2, <1>3, <1>4
<1>6. k = m + 1
  <2> SUFFICES ASSUME k # m + 1 PROVE FALSE
    OBVIOUS
  <2>1. m + 1 \in 1 .. k - 1 /\ m + 1 \in 1 .. Len(at) /\ m + 1 \in m + 1 .. Len(at)
    BY <1>1, <1>5
  <2>2. at[m + 1].to < at[k].from
    BY <2>1, ShapeParts
  <2>3. /\ at[m + 1].from <= at[m + 1].to /\ at[m + 1].from \in 1 .. Len(g)
        /\ at[m + 1].to \in 1 .. Len(g)
    BY <2>1, ShapeParts
  <2>4. p <= at[m + 1].from
    BY <2>1
  <2> QED BY <1>1, <1>5, <2>2, <2>3, <2>4
<1> QED BY <1>1, <1>5, <1>6

(* What an open group, cut where the next object ends, does to the groups. *)
LEMMA CutMore ==
  ASSUME IInv, NEW at, Cut(at), Len(groups) < Len(at), at[Len(groups) + 1].from = i,
         NEW to \in Nat, at[Len(groups) + 1].to = to,
         groups' = Append(groups, [from |-> i, to |-> to]), i' = to + 1,
         conf' = conf, file' = file
  PROVE  Cut(at)' /\ Between(at)'
<1> DEFINE m == Len(groups)
           x == [from |-> i, to |-> to]
<1>1. groups \in Seq([from : Nat, to : Nat]) /\ i \in Nat /\ m \in Nat
  BY DEF IInv, TypeOK
<1>2. Shape(conf, at, Objects(file)) /\ Len(at) \in Nat /\ m + 1 \in 1 .. Len(at)
  BY <1>1 DEF Cut, Shape
<1>3. at[m + 1] = x
  <2>1. at[m + 1] \in [from : Nat, to : Nat]
    BY <1>2, ShapeParts
  <2> QED BY <2>1
<1>4. x \in [from : Nat, to : Nat]
  BY <1>1
<1> HIDE DEF x
<1>5. /\ Len(groups') = m + 1
      /\ \A k \in 1 .. m : groups'[k] = groups[k]
      /\ groups'[m + 1] = x
  <2>1. groups' = Append(groups, x)
    BY DEF x
  <2> QED BY <1>1, <1>4, <2>1
<1>6. \A k \in 1 .. m + 1 : groups'[k] = at[k]
  <2> TAKE k \in 1 .. m + 1
  <2>1. CASE k = m + 1
    BY <1>3, <1>5, <2>1
  <2>2. CASE k # m + 1
    <3>1. k \in 1 .. m
      BY <1>1, <2>2
    <3> QED BY <1>5, <3>1 DEF Cut
  <2> QED BY <2>1, <2>2
<1>7. Cut(at)'
  BY <1>1, <1>2, <1>5, <1>6 DEF Cut
<1>8. \A k \in m + 2 .. Len(at) : to + 1 <= at[k].from
  <2> TAKE k \in m + 2 .. Len(at)
  <2>1. k \in 1 .. Len(at) /\ m + 1 \in 1 .. k - 1
    BY <1>1, <1>2
  <2>2. at[m + 1].to < at[k].from /\ at[k].from \in Nat
    <3>1. at[k].from \in 1 .. Len(conf) /\ \A j \in 1 .. k - 1 : at[j].to < at[k].from
      BY <1>2, <2>1, ShapeParts
    <3> QED BY <2>1, <3>1
  <2> QED BY <2>2
<1>9. Between(at)'
  BY <1>1, <1>5, <1>8 DEF Between
<1> QED BY <1>7, <1>9

-----------------------------------------------------------------------------
LEMMA ShapeLen ==
  ASSUME NEW g, NEW at, NEW objs, Shape(g, at, objs)
  PROVE  Len(at) \in Nat /\ objs \in Seq(Seq(Line)) /\ Len(objs) = Len(at)
BY DEF Shape

LEMMA CutParts ==
  ASSUME NEW at, Cut(at)
  PROVE  Shape(conf, at, Objects(file)) /\ Len(at) \in Nat
<1>1. Shape(conf, at, Objects(file))
  BY DEF Cut
<1> QED BY <1>1, ShapeLen

(* The object the scan is within.                                          *)
LEMMA WithinParts ==
  ASSUME IInv, NEW at, Cut(at), Len(groups) < Len(at), i = at[Len(groups) + 1].from,
         NEW o, o = Objects(file)[Len(groups) + 1]
  PROVE  /\ Len(groups) + 1 \in 1 .. Len(at) /\ Len(groups) \in Nat
         /\ i \in 1 .. Len(conf) /\ Len(conf) \in Nat
         /\ Closed(o) /\ o \in Seq(Line) /\ Len(o) \in Nat /\ Len(o) >= 1
         /\ at[Len(groups) + 1].to = i + Len(o) - 1
         /\ i + Len(o) - 1 <= Len(conf)
         /\ \A p \in 1 .. Len(o) : conf[i + p - 1] = o[p]
<1>1. Len(groups) \in Nat /\ i \in Nat /\ Len(conf) \in Nat
  BY DEF IInv, TypeOK
<1>2. Shape(conf, at, Objects(file)) /\ Len(at) \in Nat
  BY CutParts
<1> DEFINE k == Len(groups) + 1
<1>3. k \in 1 .. Len(at)
  BY <1>1, <1>2
<1>4. /\ at[k].from \in 1 .. Len(conf) /\ at[k].to \in 1 .. Len(conf)
      /\ at[k].from <= at[k].to
      /\ Closed(o) /\ o \in Seq(Line) /\ Len(o) \in Nat
      /\ Len(o) = at[k].to - at[k].from + 1
      /\ \A p \in 1 .. Len(o) : conf[at[k].from + p - 1] = o[p]
  BY <1>2, <1>3, ShapeParts
<1>5. i = at[k].from
  OBVIOUS
<1> HIDE DEF k
<1>6. at[k].to = i + Len(o) - 1 /\ i + Len(o) - 1 <= Len(conf) /\ Len(o) >= 1
  <2> DEFINE a == at[k].from
             b == at[k].to
             u == Len(o)
  <2>1. a \in 1 .. Len(conf) /\ b \in 1 .. Len(conf) /\ a <= b /\ u = b - a + 1 /\ i = a
    BY <1>4, <1>5
  <2> HIDE DEF a, b, u
  <2>2. b = i + u - 1 /\ i + u - 1 <= Len(conf) /\ u >= 1
    BY <1>1, <2>1
  <2> QED BY <2>2 DEF b, u
<1> QED BY <1>1, <1>3, <1>4, <1>5, <1>6 DEF k

(* A line that opens or holds an object, where the scan is between two.    *)
LEMMA BetweenAt ==
  ASSUME IInv, NEW at, Cut(at), Between(at), i <= Len(conf),
         IsHeader(conf[i]) \/ IsEmptyObject(conf[i])
  PROVE  Len(groups) < Len(at) /\ i = at[Len(groups) + 1].from
<1>0. PICK m : m = Len(groups)
  OBVIOUS
<1>1. i \in 1 .. Len(conf) /\ m \in Nat
  BY <1>0 DEF IInv, TypeOK
<1>2. Shape(conf, at, Objects(file)) /\ Len(at) \in Nat
  BY CutParts
<1>3. m \in 0 .. Len(at)
  BY <1>0, <1>1, <1>2 DEF Cut
<1>4. \A k \in 1 .. m : at[k].to < i
  BY <1>0 DEF IInv, GroupsBehind, Cut
<1>5. \A k \in m + 1 .. Len(at) : i <= at[k].from
  BY <1>0 DEF Between
<1>6. m < Len(at) /\ at[m + 1].from = i
  BY <1>1, <1>2, <1>3, <1>4, <1>5, ShapeAt
<1> QED BY <1>0, <1>6

LEMMA OneLineScan ==
  ASSUME IInv, NEW at, Scan(at), GroupOneLine PROVE Scan(at)'
<1>1. Cut(at) /\ Between(at)
  BY DEF Scan, GroupOneLine, Grouping
<1>2. Len(groups) < Len(at) /\ i = at[Len(groups) + 1].from
  BY <1>1, BetweenAt DEF GroupOneLine, Grouping
<1>0. PICK o : o = Objects(file)[Len(groups) + 1]
  OBVIOUS
<1>3. /\ i \in 1 .. Len(conf) /\ Closed(o) /\ Len(o) \in Nat /\ Len(o) >= 1
      /\ at[Len(groups) + 1].to = i + Len(o) - 1
      /\ \A p \in 1 .. Len(o) : conf[i + p - 1] = o[p]
  BY <1>1, <1>2, <1>0, WithinParts
<1>4. conf[i] = o[1]
  <2>1. 1 \in 1 .. Len(o) /\ i + 1 - 1 = i
    BY <1>3
  <2> QED BY <1>3, <2>1
<1>5. Len(o) = 1
  <2>1. IsEmptyObject(o[1])
    BY <1>4 DEF GroupOneLine
  <2> QED BY <1>3, <2>1 DEF Closed, BlockAt, Block
<1>6. at[Len(groups) + 1].to = i /\ i \in Nat
  BY <1>3, <1>5
<1>7. Cut(at)' /\ Between(at)'
  BY <1>1, <1>2, <1>6, CutMore DEF GroupOneLine, Grouping
<1>8. pc' = "group"
  BY DEF GroupOneLine, Grouping
<1> QED BY <1>7, <1>8 DEF Scan

LEMMA SkipScan ==
  ASSUME IInv, NEW at, Scan(at), SkipLine PROVE Scan(at)'
<1>1. Cut(at) /\ Between(at) /\ pc = "group" /\ i \in Nat /\ i <= Len(conf)
  BY DEF Scan, SkipLine, Grouping, IInv, TypeOK
<1>2. /\ pc' = pc /\ groups' = groups /\ i' = i + 1 /\ conf' = conf /\ file' = file
      /\ ~IsHeader(conf[i]) /\ ~IsEmptyObject(conf[i])
  BY DEF SkipLine, Grouping
<1>3. Cut(at)'
  BY <1>1, <1>2 DEF Cut
<1>4. ASSUME NEW k \in Len(groups) + 1 .. Len(at) PROVE i + 1 <= at[k].from
  <2>1. Len(groups) \in Nat /\ Shape(conf, at, Objects(file)) /\ Len(at) \in Nat
    BY <1>1, CutParts DEF IInv, TypeOK
  <2>2. k \in 1 .. Len(at)
    BY <2>1
  <2>3. /\ at[k].from \in 1 .. Len(conf)
        /\ IsHeader(conf[at[k].from]) \/ IsEmptyObject(conf[at[k].from])
    BY <2>1, <2>2, ShapeParts
  <2>4. i <= at[k].from /\ i # at[k].from
    BY <1>1, <1>2, <2>3 DEF Between
  <2> QED BY <1>1, <2>3, <2>4
<1>5. Between(at)'
  BY <1>2, <1>4 DEF Between
<1> QED BY <1>1, <1>2, <1>3, <1>5 DEF Scan

LEMMA OpenScan ==
  ASSUME IInv, NEW at, Scan(at), OpenBlock PROVE Scan(at)'
<1>1. Cut(at) /\ Between(at)
  BY DEF Scan, OpenBlock, Grouping
<1>2. Len(groups) < Len(at) /\ i = at[Len(groups) + 1].from
  BY <1>1, BetweenAt DEF OpenBlock, Grouping
<1>0. PICK o : o = Objects(file)[Len(groups) + 1]
  OBVIOUS
<1>3. /\ i \in 1 .. Len(conf) /\ Closed(o) /\ Len(o) \in Nat /\ Len(o) >= 1
      /\ \A p \in 1 .. Len(o) : conf[i + p - 1] = o[p]
  BY <1>1, <1>2, <1>0, WithinParts
<1>9. /\ c' = 0 /\ bracketCount' = 1 /\ pc' = "advance"
      /\ UNCHANGED <<file, conf, i, groups>>
  BY DEF OpenBlock, Grouping
<1>4. conf[i] = o[1]
  <2>1. 1 \in 1 .. Len(o) /\ i + 1 - 1 = i
    BY <1>3
  <2> QED BY <1>3, <2>1
<1>5. PICK e : Block(o, e) /\ e[Len(o)] = 0
  BY <1>3 DEF Closed, BlockAt
<1>6. e[1] = 1
  <2>1. ~IsEmptyObject(o[1])
    BY <1>4 DEF OpenBlock
  <2> QED BY <1>5, <2>1 DEF Block
<1>7. Counts(o, e)'
  <2>1. 0 + 1 \in 1 .. Len(o) /\ 1 = e[0 + 1] /\ e[0 + 1] # 0
    BY <1>3, <1>6
  <2> QED BY <1>5, <1>9, <2>1 DEF Counts
<1>8. Within(at)'
  BY <1>0, <1>2, <1>7, <1>9 DEF Within
<1>10. Cut(at)'
  BY <1>1, <1>9 DEF Cut
<1> QED BY <1>8, <1>9, <1>10 DEF Scan

LEMMA AdvanceScan ==
  ASSUME IInv, NEW at, Scan(at), Advance PROVE Scan(at)'
<1>1. Cut(at) /\ Within(at) /\ pc = "advance" /\ c \in Nat
  BY DEF Scan, Advance, IInv, TypeOK
<1>0. PICK o : o = Objects(file)[Len(groups) + 1]
  OBVIOUS
<1>2. Len(groups) < Len(at) /\ i = at[Len(groups) + 1].from
  BY <1>1 DEF Within
<1>3. /\ i \in 1 .. Len(conf) /\ Len(conf) \in Nat /\ Len(o) \in Nat
      /\ i + Len(o) - 1 <= Len(conf)
  BY <1>1, <1>2, <1>0, WithinParts
<1>4. PICK e : Counts(o, e)
  BY <1>0, <1>1 DEF Within
<1>5. /\ c' = c + 1 /\ pc' = (IF i + c' <= Len(conf) THEN "count" ELSE "error")
      /\ UNCHANGED <<file, conf, i, groups, bracketCount>>
  BY DEF Advance
<1>6. /\ Block(o, e) /\ e[Len(o)] = 0
      /\ c + 1 \in 1 .. Len(o) /\ bracketCount = e[c + 1] /\ e[c + 1] # 0
  BY <1>1, <1>4 DEF Counts
<1>7. c + 1 # Len(o)
  BY <1>6
<1>8. c + 1 \in 1 .. Len(o) - 1 /\ i + (c + 1) <= Len(conf)
  BY <1>1, <1>3, <1>6, <1>7
<1>9. pc' = "count"
  BY <1>5, <1>8
<1>10. Counts(o, e)'
  BY <1>5, <1>6, <1>8, <1>9 DEF Counts
<1>11. Within(at)'
  BY <1>0, <1>2, <1>5, <1>10 DEF Within
<1>12. Cut(at)'
  BY <1>1, <1>5 DEF Cut
<1> QED BY <1>9, <1>11, <1>12 DEF Scan

LEMMA CountScan ==
  ASSUME IInv, NEW at, Scan(at), CountLine PROVE Scan(at)'
<1>1. Cut(at) /\ Within(at) /\ pc = "count" /\ c \in Nat
  BY DEF Scan, CountLine, IInv, TypeOK
<1>0. PICK o : o = Objects(file)[Len(groups) + 1]
  OBVIOUS
<1> DEFINE l == conf[i + c]
<1>2. Len(groups) < Len(at) /\ i = at[Len(groups) + 1].from
  BY <1>1 DEF Within
<1>3. /\ i \in 1 .. Len(conf) /\ Len(o) \in Nat
      /\ \A p \in 1 .. Len(o) : conf[i + p - 1] = o[p]
  BY <1>1, <1>2, <1>0, WithinParts
<1>4. PICK e : Counts(o, e)
  BY <1>0, <1>1 DEF Within
<1>5. /\ c' = IF RunsIntoRule(l) THEN c - 1 ELSE c
      /\ bracketCount' = (IF RunsIntoRule(l) THEN 0 ELSE bracketCount)
                         + (IF Counted(l) THEN l.net ELSE 0)
      /\ pc' = (IF bracketCount' = 0 THEN "close" ELSE "advance")
      /\ UNCHANGED <<file, conf, i, groups>>
  BY DEF CountLine
<1>6. /\ Block(o, e) /\ e[Len(o)] = 0
      /\ c \in 1 .. Len(o) - 1 /\ bracketCount = e[c]
  BY <1>1, <1>4 DEF Counts
<1>7. l = o[c + 1] /\ conf[i] = o[1]
  <2>1. /\ c + 1 \in 1 .. Len(o) /\ i + (c + 1) - 1 = i + c
        /\ 1 \in 1 .. Len(o) /\ i + 1 - 1 = i
    BY <1>1, <1>3, <1>6
  <2> QED BY <1>3, <2>1
<1>8. c + 1 \in 2 .. Len(o) /\ (c + 1) - 1 = c
  BY <1>3, <1>6
<1>9. /\ e[c + 1] = e[c] + Rise(o[1], o[c + 1])
      /\ Read(o[1], o[c + 1]) => ~o[c + 1].rule
  BY <1>6, <1>8 DEF Block
<1> HIDE DEF l
<1>10. ~RunsIntoRule(l) /\ (Counted(l) <=> Read(o[1], l))
  BY <1>7, <1>9 DEF RunsIntoRule, Counted, Read
<1>11. c' = c /\ bracketCount' = e[c + 1]
  BY <1>5, <1>6, <1>7, <1>9, <1>10 DEF Rise
<1>12. e[c + 1] = 0 => c + 1 = Len(o)
  <2> SUFFICES ASSUME e[c + 1] = 0, c + 1 # Len(o) PROVE FALSE
    OBVIOUS
  <2>1. c + 2 \in 2 .. Len(o) /\ (c + 2) - 1 = c + 1
    BY <1>3, <1>8
  <2>2. e[(c + 2) - 1] # 0
    BY <1>6, <2>1 DEF Block
  <2> QED BY <2>1, <2>2
<1>13. c + 1 \in 1 .. Len(o)
  BY <1>8
<1>14. Counts(o, e)'
  BY <1>5, <1>6, <1>11, <1>12, <1>13 DEF Counts
<1>15. Within(at)'
  BY <1>0, <1>2, <1>5, <1>14 DEF Within
<1>16. Cut(at)'
  BY <1>1, <1>5 DEF Cut
<1>17. pc' \in {"close", "advance"}
  BY <1>5
<1> QED BY <1>15, <1>16, <1>17 DEF Scan

LEMMA CloseScan ==
  ASSUME IInv, NEW at, Scan(at), CloseBlock PROVE Scan(at)'
<1>1. Cut(at) /\ Within(at) /\ pc = "close" /\ c \in Nat /\ i \in Nat
  BY DEF Scan, CloseBlock, IInv, TypeOK
<1>0. PICK o : o = Objects(file)[Len(groups) + 1]
  OBVIOUS
<1>2. Len(groups) < Len(at) /\ at[Len(groups) + 1].from = i
  BY <1>1 DEF Within
<1>3. at[Len(groups) + 1].to = i + Len(o) - 1
  BY <1>1, <1>2, <1>0, WithinParts
<1>4. PICK e : Counts(o, e)
  BY <1>0, <1>1 DEF Within
<1>5. c + 1 = Len(o)
  BY <1>1, <1>4 DEF Counts
<1>6. at[Len(groups) + 1].to = i + c /\ i + c \in Nat
  BY <1>1, <1>3, <1>5
<1>7. /\ groups' = Append(groups, [from |-> i, to |-> i + c])
      /\ i' = (i + c) + 1 /\ conf' = conf /\ file' = file /\ pc' = "group"
  BY DEF CloseBlock
<1>8. Cut(at)' /\ Between(at)'
  BY <1>1, <1>2, <1>6, <1>7, CutMore
<1> QED BY <1>7, <1>8 DEF Scan

LEMMA FinishScan ==
  ASSUME NEW at, Scan(at), Finish PROVE Scan(at)'
<1>1. /\ pc = "group" /\ pc' = "done"
      /\ UNCHANGED <<file, conf, i, c, bracketCount, groups>>
  BY DEF Finish
<1>2. Cut(at)' /\ Between(at)'
  BY <1>1 DEF Scan, Cut, Between
<1> QED BY <1>1, <1>2 DEF Scan

-----------------------------------------------------------------------------
LEMMA GroupsNext ==
  IInv /\ FileOK /\ FilterOK /\ GroupsOK /\ [Next]_vars => GroupsOK'
<1> SUFFICES ASSUME IInv, FileOK, FilterOK, GroupsOK, [Next]_vars,
                    pc' # "filter", Regular(file') PROVE \E at : Scan(at)'
  BY DEF GroupsOK
<1>1. ASSUME pc # "filter", file' = file PROVE \E at : Scan(at)
  <2>1. Regular(file)
    BY <1>1
  <2> QED BY <1>1, <2>1 DEF GroupsOK
<1>2. CASE FilterTopologyHeader \/ FilterTopologyBody \/ FilterLine
  BY <1>2 DEF FilterTopologyHeader, FilterTopologyBody, FilterLine, Reading
<1>3. CASE FilterEnd
  <2>1. /\ file' = file /\ pc' = "group" /\ i' = i /\ groups' = groups /\ pc = "filter"
    BY <1>3 DEF FilterEnd
  <2>2. i = 1 /\ groups = << >> /\ TypeOK
    BY <2>1 DEF IInv, ScanOK
  <2>3. Regular(file)
    BY <2>1
  <2>4. PICK at : Shape(conf', at, Objects(file))
    BY <1>3, <2>2, <2>3, FilteredAll
  <2>5. Len(at) \in Nat /\ Len(groups') = 0
    BY <2>1, <2>2, <2>4 DEF Shape
  <2>6. Cut(at)'
    BY <2>1, <2>4, <2>5 DEF Cut
  <2>7. Between(at)'
    <3>1. ASSUME NEW k \in 1 .. Len(at) PROVE 1 <= at[k].from
      BY <2>4 DEF Shape
    <3> QED BY <2>1, <2>2, <2>5, <3>1 DEF Between
  <2>8. Scan(at)'
    BY <2>1, <2>6, <2>7 DEF Scan
  <2> QED BY <2>8
<1>4. CASE GroupOneLine
  <2>1. PICK at : Scan(at)
    BY <1>1, <1>4 DEF GroupOneLine, Grouping
  <2> QED BY <1>4, <2>1, OneLineScan
<1>5. CASE SkipLine
  <2>1. PICK at : Scan(at)
    BY <1>1, <1>5 DEF SkipLine, Grouping
  <2> QED BY <1>5, <2>1, SkipScan
<1>6. CASE OpenBlock
  <2>1. PICK at : Scan(at)
    BY <1>1, <1>6 DEF OpenBlock, Grouping
  <2> QED BY <1>6, <2>1, OpenScan
<1>7. CASE Advance
  <2>1. PICK at : Scan(at)
    BY <1>1, <1>7 DEF Advance
  <2> QED BY <1>7, <2>1, AdvanceScan
<1>8. CASE CountLine
  <2>1. PICK at : Scan(at)
    BY <1>1, <1>8 DEF CountLine
  <2> QED BY <1>8, <2>1, CountScan
<1>9. CASE CloseBlock
  <2>1. PICK at : Scan(at)
    BY <1>1, <1>9 DEF CloseBlock
  <2> QED BY <1>9, <2>1, CloseScan
<1>10. CASE Finish
  <2>1. PICK at : Scan(at)
    BY <1>1, <1>10 DEF Finish
  <2> QED BY <1>10, <2>1, FinishScan
<1>11. CASE UNCHANGED vars
  <2>1. PICK at : Scan(at)
    BY <1>1, <1>11 DEF vars
  <2>2. Scan(at)'
    BY <1>11, <2>1 DEF vars, Scan, Cut, Between, Within, Counts
  <2> QED BY <2>2
<1> QED BY <1>2, <1>3, <1>4, <1>5, <1>6, <1>7, <1>8, <1>9, <1>10, <1>11 DEF Next

(* The parse of a regular file: what the filter has kept and where the     *)
(* groups have been cut.                                                   *)
ParseInv == IInv /\ FileOK /\ FilterOK /\ GroupsOK

LEMMA InitParse == Init => ParseInv
<1>1. Init => GroupsOK
  BY DEF Init, GroupsOK
<1> QED BY <1>1, InitIInv, InitFilter DEF ParseInv

LEMMA NextParse == ParseInv /\ [Next]_vars => ParseInv'
<1> SUFFICES ASSUME ParseInv, [Next]_vars PROVE ParseInv'
  OBVIOUS
<1>1. IInv /\ FileOK /\ FilterOK /\ GroupsOK /\ TypeOK
  BY DEF ParseInv, IInv
<1>2. IInv' /\ FilterOK' /\ FileOK' /\ GroupsOK'
  BY <1>1, NextIInv, FilterNext, GroupsNext
<1> QED BY <1>2 DEF ParseInv

LEMMA GroupsAtEnd == ParseInv => GroupsAreObjects
<1> SUFFICES ASSUME ParseInv, pc = "done", Regular(file)
             PROVE  [k \in DOMAIN groups |-> SubSeq(conf, groups[k].from, groups[k].to)]
                        = Objects(file)
  BY DEF GroupsAreObjects
<1>1. PICK at : Scan(at)
  BY DEF ParseInv, GroupsOK
<1>2. Cut(at) /\ Between(at) /\ i > Len(conf)
  BY <1>1 DEF Scan, ParseInv, IInv, HeadersCovered
<1>3. Shape(conf, at, Objects(file)) /\ Len(at) \in Nat /\ Len(groups) \in Nat
      /\ Len(conf) \in Nat /\ i \in Nat
  BY <1>2, CutParts DEF ParseInv, IInv, TypeOK
<1>4. Len(groups) = Len(at)
  <2> SUFFICES ASSUME Len(groups) < Len(at) PROVE FALSE
    BY <1>2, <1>3 DEF Cut
  <2>1. Len(at) \in 1 .. Len(at) /\ Len(at) \in Len(groups) + 1 .. Len(at)
    BY <1>3
  <2>2. at[Len(at)].from \in 1 .. Len(conf)
    BY <1>3, <2>1, ShapeParts
  <2>3. i <= at[Len(at)].from
    BY <1>2, <2>1 DEF Between
  <2> QED BY <1>2, <1>3, <2>2, <2>3
<1> DEFINE O == Objects(file)
<1>5. O \in Seq(Seq(Line)) /\ Len(O) = Len(groups)
  BY <1>3, <1>4, ShapeLen
<1>6. \A k \in 1 .. Len(groups) : SubSeq(conf, groups[k].from, groups[k].to) = O[k]
  <2> TAKE k \in 1 .. Len(groups)
  <2>1. groups[k] = at[k]
    BY <1>2 DEF Cut
  <2>2. SubSeq(conf, at[k].from, at[k].to) = O[k]
    BY <1>3, <1>4 DEF Shape
  <2> QED BY <2>1, <2>2
<1>7. DOMAIN groups = 1 .. Len(groups)
  BY DEF ParseInv, IInv, TypeOK
<1> HIDE DEF O
<1>8. O = [k \in 1 .. Len(groups) |-> O[k]]
  BY <1>3, <1>5
<1>9. [k \in DOMAIN groups |-> SubSeq(conf, groups[k].from, groups[k].to)] = O
  BY <1>6, <1>7, <1>8
<1> QED BY <1>9 DEF O

(* A regular file that is parsed comes out as its objects, each whole and  *)
(* none twice: what the filter drops, moves and counts agrees with what    *)
(* groupObjects counts.                                                    *)
THEOREM GroupsExact == Spec => []GroupsAreObjects
BY InitParse, NextParse, GroupsAtEnd, PTL DEF Spec
=============================================================================
