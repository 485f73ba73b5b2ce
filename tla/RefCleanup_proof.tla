-------------------------- MODULE RefCleanup_proof --------------------------
(* Proofs about RefCleanup for every declaration: a property that has been *)
(* visited is clean up to its first value that is no reference, and the    *)
(* cleanup takes nothing but references that lead nowhere.                 *)
EXTENDS RefCleanup, TLAPS

Value == Refs \cup {Plain}

(* What the visit leaves behind in one property.                           *)
Clean(p) == /\ p.elems # << >>
            /\ \A e \in DOMAIN p.elems :
                   \/ Resolves(p.elems[e])
                   \/ \E f \in DOMAIN p.elems : f <= e /\ p.elems[f] = Plain

SinglesFull == \A p \in DOMAIN decl :
    decl[p].kind \in {"use", "path"} => Len(decl[p].elems) = 1

(* The elements the walk has passed resolve.                               *)
PassedResolve == k <= Len(decl) =>
    \A e \in DOMAIN decl[k].elems : e < i => Resolves(decl[k].elems[e])

IInv == TypeOK /\ SinglesFull /\ PassedResolve /\ RefPropertiesClean
-----------------------------------------------------------------------------
LEMMA ConcatProperties ==
    ASSUME NEW S, NEW a \in Seq(S), NEW b \in Seq(S)
    PROVE  /\ a \o b \in Seq(S)
           /\ Len(a \o b) = Len(a) + Len(b)
           /\ \A e \in 1 .. Len(a) : (a \o b)[e] = a[e]
           /\ \A e \in 1 .. Len(b) : (a \o b)[Len(a) + e] = b[e]
OBVIOUS

LEMMA RemoveAtProperties ==
    ASSUME NEW S, NEW s \in Seq(S), NEW m \in 1 .. Len(s)
    PROVE  /\ RemoveAt(s, m) \in Seq(S)
           /\ Len(RemoveAt(s, m)) = Len(s) - 1
           /\ \A e \in 1 .. Len(s) - 1 :
                  RemoveAt(s, m)[e] = IF e < m THEN s[e] ELSE s[e + 1]
<1>1. /\ SubSeq(s, 1, m - 1) \in Seq(S)
      /\ Len(SubSeq(s, 1, m - 1)) = m - 1
      /\ \A e \in 1 .. m - 1 : SubSeq(s, 1, m - 1)[e] = s[e]
  OBVIOUS
<1>2. /\ SubSeq(s, m + 1, Len(s)) \in Seq(S)
      /\ Len(SubSeq(s, m + 1, Len(s))) = Len(s) - m
      /\ \A e \in 1 .. Len(s) - m : SubSeq(s, m + 1, Len(s))[e] = s[m + e]
  OBVIOUS
<1> DEFINE front == SubSeq(s, 1, m - 1)
           back == SubSeq(s, m + 1, Len(s))
<1>3. Len(s) \in Nat /\ m \in Nat /\ 1 <= m /\ m <= Len(s)
  OBVIOUS
<1> HIDE DEF front, back
<1>4. front \in Seq(S) /\ Len(front) = m - 1
  BY <1>1 DEF front
<1>5. back \in Seq(S) /\ Len(back) = Len(s) - m
  BY <1>2 DEF back
<1>6. front \o back \in Seq(S) /\ Len(front \o back) = Len(s) - 1
  <2>1. front \o back \in Seq(S) /\ Len(front \o back) = Len(front) + Len(back)
    BY <1>4, <1>5, ConcatProperties
  <2> QED
    BY <2>1, <1>3, <1>4, <1>5
<1>7. ASSUME NEW e \in 1 .. Len(s) - 1
      PROVE  (front \o back)[e] = IF e < m THEN s[e] ELSE s[e + 1]
  <2>1. CASE e < m
    <3>1. e \in 1 .. Len(front)
      BY <2>1, <1>3, <1>4
    <3>2. (front \o back)[e] = front[e]
      BY <3>1, <1>4, <1>5, ConcatProperties
    <3> QED
      BY <2>1, <3>1, <3>2, <1>1, <1>4 DEF front
  <2>2. CASE ~(e < m)
    <3>1. e - Len(front) \in 1 .. Len(s) - m /\ m + (e - Len(front)) = e + 1
      BY <2>2, <1>3, <1>4
    <3>2. /\ \A d \in 1 .. Len(back) : (front \o back)[Len(front) + d] = back[d]
          /\ e - Len(front) \in 1 .. Len(back)
      <4>1. \A d \in 1 .. Len(back) : (front \o back)[Len(front) + d] = back[d]
        <5>1. front \in Seq(S) /\ back \in Seq(S)
          BY <1>4, <1>5
        <5> QED
          BY <5>1, ConcatProperties
      <4> QED
        BY <4>1, <3>1, <1>5
    <3>3. Len(front) + (e - Len(front)) = e
      BY <1>3, <1>4
    <3> DEFINE d == e - Len(front)
    <3>4. back[d] = s[m + d]
      BY <3>1, <1>2 DEF back
    <3> HIDE DEF d
    <3>5. (front \o back)[Len(front) + d] = back[d]
      BY <3>2 DEF d
    <3>6. Len(front) + d = e /\ m + d = e + 1
      BY <3>1, <3>3 DEF d
    <3> QED
      BY <2>2, <3>4, <3>5, <3>6
  <2> QED
    BY <2>1, <2>2
<1> QED
  BY <1>6, <1>7 DEF RemoveAt, front, back

LEMMA ElementType ==
    ASSUME NEW S, NEW s \in Seq(S), NEW e \in DOMAIN s PROVE s[e] \in S
OBVIOUS

LEMMA PropertyType ==
    ASSUME TypeOK, NEW p \in DOMAIN decl
    PROVE  decl[p].elems \in Seq(Value)
<1>0. decl \in Seq(Property)
  BY DEF TypeOK
<1>1. decl[p] \in Property
  BY <1>0, ElementType
<1> QED
  BY <1>1 DEF Property, Value

LEMMA InitIInv == Init => IInv
<1> SUFFICES ASSUME Init PROVE IInv
  OBVIOUS
<1> USE DEF Init
<1>1. original \in Seq(Property)
  BY DeclarationsAssumption
<1>2. TypeOK
  BY <1>1 DEF TypeOK
<1>3. SinglesFull
  BY DeclarationsAssumption DEF SinglesFull
<1>4. PassedResolve
  <2> SUFFICES ASSUME 1 <= Len(decl), NEW e \in DOMAIN decl[1].elems PROVE ~(e < 1)
    BY DEF PassedResolve
  <2>1. 1 \in DOMAIN decl
    BY <1>1
  <2>2. decl[1].elems \in Seq(Value)
    BY <1>2, <2>1, PropertyType
  <2> QED
    BY <2>2
<1>5. RefPropertiesClean
  BY <1>1 DEF RefPropertiesClean
<1> QED
  BY <1>2, <1>3, <1>4, <1>5 DEF IInv

(* Leaving a property that is clean, for the next one.                     *)
LEMMA NextPropertyIInv ==
    ASSUME IInv, NextProperty, k <= Len(decl),
           decl' \in Seq(Property), Len(decl') = Len(decl),
           \A p \in DOMAIN decl : p # k => decl'[p] = decl[p],
           decl'[k] = decl[k] \/ decl'[k] = Deleted(decl[k]),
           IsRefProperty(decl'[k]) => Clean(decl'[k])
    PROVE  IInv'
<1>1. DOMAIN decl' = DOMAIN decl /\ k \in DOMAIN decl
  BY DEF IInv, TypeOK
<1>2. decl[k] \in Property
  BY <1>1, ElementType DEF IInv, TypeOK
<1>3. /\ decl'[k].elems = decl[k].elems
      /\ decl'[k].kind \in {decl[k].kind, "deleted"}
  BY <1>2 DEF Deleted, Property
<1>4. TypeOK'
  BY DEF IInv, TypeOK, NextProperty
<1>6. SinglesFull'
  BY <1>1, <1>3 DEF IInv, SinglesFull
<1>7. PassedResolve'
  <2> SUFFICES ASSUME k' <= Len(decl'), NEW e \in DOMAIN decl'[k'].elems
               PROVE  ~(e < 1)
    BY DEF PassedResolve, NextProperty
  <2>1. k' \in DOMAIN decl'
    BY <1>4 DEF TypeOK
  <2>2. decl'[k'] \in Property
    BY <2>1, <1>4, ElementType DEF TypeOK
  <2>3. decl'[k'].elems \in Seq(Value)
    BY <2>2 DEF Property, Value
  <2> QED
    BY <2>3
<1>8. RefPropertiesClean'
  <2> SUFFICES ASSUME NEW p \in DOMAIN decl, p < k + 1, IsRefProperty(decl'[p])
               PROVE  Clean(decl'[p])
    BY <1>1 DEF RefPropertiesClean, NextProperty, IsRefProperty, Clean, Resolves
  <2>1. CASE p = k
    BY <2>1
  <2>2. CASE p # k
    <3>1. p < k
      BY <2>2 DEF IInv, TypeOK
    <3> QED
      BY <2>2, <3>1 DEF IInv, RefPropertiesClean, Clean
  <2> QED
    BY <2>1, <2>2
<1> QED
  BY <1>4, <1>6, <1>7, <1>8 DEF IInv

LEMMA RemoveElementIInv == IInv /\ RemoveElement => IInv'
<1> SUFFICES ASSUME IInv, RemoveElement PROVE IInv'
  OBVIOUS
<1> USE DEF IInv
<1> DEFINE s == decl[k].elems
           r == RemoveAt(s, i)
<1>1. k \in DOMAIN decl /\ i \in 1 .. Len(s) /\ s \in Seq(Value)
  BY PropertyType DEF RemoveElement, InArray, TypeOK
<1>2. /\ r \in Seq(Value) /\ Len(r) = Len(s) - 1
      /\ \A e \in 1 .. Len(s) - 1 : r[e] = IF e < i THEN s[e] ELSE s[e + 1]
  BY <1>1, RemoveAtProperties
<1>3. decl[k] \in Property
  BY <1>1, ElementType DEF TypeOK
<1>4. /\ DOMAIN decl' = DOMAIN decl /\ Len(decl') = Len(decl)
      /\ \A p \in DOMAIN decl : p # k => decl'[p] = decl[p]
      /\ decl'[k].elems = r /\ decl'[k].kind = decl[k].kind
      /\ decl' \in Seq(Property)
  <2>1. decl' = [decl EXCEPT ![k] = [decl[k] EXCEPT !.elems = r]]
    BY DEF RemoveElement
  <2>2. [decl[k] EXCEPT !.elems = r] \in Property
    BY <1>2, <1>3 DEF Property, Value
  <2>3. decl \in Seq(Property)
    BY DEF TypeOK
  <2>4. DOMAIN decl' = DOMAIN decl /\ Len(decl') = Len(decl) /\ decl' \in Seq(Property)
    BY <2>1, <2>2, <2>3, <1>1
  <2>5. /\ \A p \in DOMAIN decl : p # k => decl'[p] = decl[p]
        /\ decl'[k] = [decl[k] EXCEPT !.elems = r]
    BY <2>1, <2>3, <1>1
  <2>6. /\ [decl[k] EXCEPT !.elems = r].elems = r
        /\ [decl[k] EXCEPT !.elems = r].kind = decl[k].kind
    BY <1>3 DEF Property
  <2> QED
    BY <2>2, <2>4, <2>5, <2>6
<1>5. TypeOK'
  BY <1>4 DEF TypeOK, RemoveElement
<1>7. SinglesFull'
  BY <1>4 DEF SinglesFull, RemoveElement, InArray
<1>8. PassedResolve'
  <2> SUFFICES ASSUME NEW e \in DOMAIN r, e < i PROVE Resolves(r[e])
    BY <1>4 DEF PassedResolve, RemoveElement, Resolves
  <2>1. e \in 1 .. Len(s) - 1 /\ e \in DOMAIN s
    BY <1>1, <1>2
  <2>2. Resolves(s[e])
    BY <2>1 DEF PassedResolve, RemoveElement, InArray
  <2> QED
    BY <1>2, <2>1, <2>2
<1>9. RefPropertiesClean'
  <2> SUFFICES ASSUME NEW p \in DOMAIN decl, p < k, IsRefProperty(decl'[p])
               PROVE  Clean(decl'[p])
    BY <1>4 DEF RefPropertiesClean, RemoveElement, IsRefProperty, Clean, Resolves
  <2>1. decl'[p] = decl[p]
    BY <1>4 DEF TypeOK
  <2> QED
    BY <2>1 DEF RefPropertiesClean, Clean
<1> QED
  BY <1>5, <1>7, <1>8, <1>9

LEMMA NextIInv == IInv /\ [Next]_vars => IInv'
<1> SUFFICES ASSUME IInv, [Next]_vars PROVE IInv'
  OBVIOUS
<1>0. TypeOK /\ decl \in Seq(Property)
  BY DEF IInv, TypeOK
<1>a. ASSUME k <= Len(decl) PROVE k \in DOMAIN decl /\ decl[k].elems \in Seq(Value)
  BY <1>0, <1>a, PropertyType DEF TypeOK
<1>1. CASE StopAtPlain
  <2>1. k \in DOMAIN decl /\ i \in DOMAIN decl[k].elems
    BY <1>0, <1>1, <1>a DEF StopAtPlain, InArray, TypeOK
  <2>2. Clean(decl[k])
    <3>1. decl[k].elems # << >> /\ \A e \in DOMAIN decl[k].elems : e < i \/ i <= e
      BY <1>0, <1>a, <2>1 DEF TypeOK
    <3>2. \A e \in DOMAIN decl[k].elems : e < i => Resolves(decl[k].elems[e])
      BY <1>1 DEF StopAtPlain, InArray, IInv, PassedResolve
    <3> QED
      BY <1>1, <2>1, <3>1, <3>2 DEF StopAtPlain, Clean
  <2> QED
    BY <1>0, <1>1, <2>2, NextPropertyIInv DEF StopAtPlain, InArray
<1>2. CASE KeepElement
  <2>1. TypeOK' /\ SinglesFull' /\ RefPropertiesClean'
    BY <1>2 DEF KeepElement, IInv, TypeOK, SinglesFull,
                RefPropertiesClean, IsRefProperty, Resolves
  <2>2. PassedResolve'
    <3> SUFFICES ASSUME k <= Len(decl), NEW e \in DOMAIN decl[k].elems, e < i + 1
                 PROVE  Resolves(decl[k].elems[e])
      BY <1>2 DEF KeepElement, PassedResolve, Resolves
    <3>1. e < i \/ e = i
      BY <1>0, <1>a DEF TypeOK
    <3> QED
      BY <1>2, <3>1 DEF KeepElement, IInv, PassedResolve
  <2> QED
    BY <2>1, <2>2 DEF IInv
<1>3. CASE RemoveElement
  BY <1>3, RemoveElementIInv
<1>4. CASE EndArray
  <2>1. k <= Len(decl) /\ k \in DOMAIN decl /\ decl[k] \in Property
    BY <1>0, <1>4, <1>a, ElementType DEF EndArray
  <2>2. Deleted(decl[k]) \in Property /\ ~IsRefProperty(Deleted(decl[k]))
    BY <2>1 DEF Deleted, Property, IsRefProperty
  <2>3. \A e \in DOMAIN decl[k].elems : Resolves(decl[k].elems[e])
    <3>1. \A e \in DOMAIN decl[k].elems : e < i
      BY <1>0, <1>4, <2>1, <1>a DEF EndArray, TypeOK
    <3> QED
      BY <2>1, <3>1 DEF IInv, PassedResolve
  <2>4. CASE decl[k].elems = << >>
    <3>1. decl' = [decl EXCEPT ![k] = Deleted(decl[k])]
      BY <1>4, <2>4 DEF EndArray
    <3> QED
      BY <1>0, <1>4, <2>1, <2>2, <3>1, NextPropertyIInv DEF EndArray
  <2>5. CASE decl[k].elems # << >>
    <3>1. decl' = decl
      BY <1>4, <2>5 DEF EndArray
    <3> QED
      BY <1>0, <1>4, <2>1, <2>3, <2>5, <3>1, NextPropertyIInv DEF EndArray, Clean
  <2> QED
    BY <2>4, <2>5
<1>5. CASE VisitSingle
  <2>1. k <= Len(decl) /\ k \in DOMAIN decl /\ decl[k] \in Property
    BY <1>0, <1>5, <1>a, ElementType DEF VisitSingle
  <2>2. Deleted(decl[k]) \in Property /\ ~IsRefProperty(Deleted(decl[k]))
    BY <2>1 DEF Deleted, Property, IsRefProperty
  <2>3. Len(decl[k].elems) = 1 /\ DOMAIN decl[k].elems = {1} /\ decl[k].elems # << >>
    <3>1. Len(decl[k].elems) = 1
      BY <1>5, <2>1 DEF VisitSingle, IInv, SinglesFull
    <3>2. decl[k].elems \in Seq(Value)
      BY <2>1, <1>a
    <3> QED
      BY <3>1, <3>2
  <2>4. CASE Resolves(decl[k].elems[1])
    <3>1. decl' = decl
      BY <1>5, <2>4 DEF VisitSingle
    <3> QED
      BY <1>0, <1>5, <2>1, <2>3, <2>4, <3>1, NextPropertyIInv DEF VisitSingle, Clean
  <2>5. CASE ~Resolves(decl[k].elems[1])
    <3>1. decl' = [decl EXCEPT ![k] = Deleted(decl[k])]
      BY <1>5, <2>5 DEF VisitSingle
    <3> QED
      BY <1>0, <1>5, <2>1, <2>2, <3>1, NextPropertyIInv DEF VisitSingle
  <2> QED
    BY <2>4, <2>5
<1>6. CASE VisitOther
  BY <1>0, <1>6, NextPropertyIInv DEF VisitOther, IsRefProperty
<1>7. CASE UNCHANGED vars
  BY <1>7 DEF vars, IInv, TypeOK, SinglesFull, PassedResolve,
              RefPropertiesClean, IsRefProperty, Resolves
<1> QED
  BY <1>1, <1>2, <1>3, <1>4, <1>5, <1>6, <1>7 DEF Next

THEOREM Invariance == Spec => []IInv
BY InitIInv, NextIInv, PTL DEF Spec

(* In every declaration, a visited property holds some values, and up to   *)
(* the first that is no reference only references that resolve.            *)
THEOREM CleanRefProperties == Spec => []RefPropertiesClean
<1>1. IInv => RefPropertiesClean
  BY DEF IInv
<1> QED
  BY <1>1, Invariance, PTL
-----------------------------------------------------------------------------
(* Towards OnlyDanglingRemoved: the properties ahead have the kind they    *)
(* came with, and a single reference is never written.                     *)
KindsAhead == \A p \in DOMAIN decl :
    p >= k => decl[p].kind = original[p].kind

SinglesUntouched == \A p \in DOMAIN decl :
    original[p].kind \in {"use", "path"} => decl[p].elems = original[p].elems

LeftInv == /\ original \in Declarations
           /\ KindsAhead
           /\ SinglesUntouched
           /\ OnlyDanglingRemoved

LEMMA LeftOfItself ==
    ASSUME NEW S, NEW s \in Seq(S) PROVE IsLeftOf(s, s)
<1>1. DOMAIN s = 1 .. Len(s) /\ Len(s) \in Nat
  OBVIOUS
<1> DEFINE at == [e \in DOMAIN s |-> e]
<1>2. at \in [DOMAIN s -> DOMAIN s] /\ \A e \in DOMAIN s : at[e] = e
  OBVIOUS
<1> HIDE DEF at
<1> QED
  BY <1>2 DEF IsLeftOf

(* Taking one more unsound element out, with no other value than           *)
(* references before it, leaves what was left of it.                       *)
LEMMA LeftWithoutOne ==
    ASSUME NEW S, NEW s \in Seq(S), NEW b \in Seq(S), IsLeftOf(s, b),
           NEW m \in 1 .. Len(s), ~Sound(s[m]),
           \A e \in 1 .. m - 1 : s[e] # Plain
    PROVE  IsLeftOf(RemoveAt(s, m), b)
<1> DEFINE r == RemoveAt(s, m)
<1>1. /\ r \in Seq(S) /\ Len(r) = Len(s) - 1
      /\ \A e \in 1 .. Len(s) - 1 : r[e] = IF e < m THEN s[e] ELSE s[e + 1]
  BY RemoveAtProperties
<1>2. /\ DOMAIN s = 1 .. Len(s) /\ Len(s) \in Nat /\ m \in Nat
      /\ DOMAIN b = 1 .. Len(b) /\ Len(b) \in Nat
      /\ DOMAIN r = 1 .. Len(s) - 1
  BY <1>1
<1>3. PICK at \in [DOMAIN s -> DOMAIN b] :
          /\ \A e, f \in DOMAIN s : e < f => at[e] < at[f]
          /\ \A e \in DOMAIN s : s[e] = b[at[e]]
          /\ \A c \in DOMAIN b :
                 Stays(b, c) => \E e \in DOMAIN s : at[e] = c
  BY DEF IsLeftOf
<1>a. ~Stays(b, at[m])
  <2>1. ~Sound(b[at[m]])
    BY <1>2, <1>3
  <2>2. ASSUME NEW c \in DOMAIN b, c < at[m], b[c] = Plain PROVE FALSE
    <3>1. Stays(b, c)
      BY <2>2 DEF Stays, Sound
    <3>2. PICK e \in DOMAIN s : at[e] = c
      BY <1>3, <3>1
    <3>3. s[e] = Plain /\ e # m
      BY <1>3, <2>2, <3>2, <2>1 DEF Sound
    <3>4. ~(m < e)
      <4>1. at[e] \in Nat /\ at[m] \in Nat
        BY <1>2, <1>3
      <4> QED BY <1>2, <1>3, <2>2, <3>2, <4>1
    <3> QED BY <1>2, <3>3, <3>4
  <2> QED BY <2>1, <2>2 DEF Stays
<1> HIDE DEF r
<1> DEFINE Past(e) == IF e < m THEN e ELSE e + 1
           left == [e \in DOMAIN r |-> at[Past(e)]]
<1>4. \A e \in DOMAIN r : Past(e) \in DOMAIN s
  BY <1>2
<1>5. left \in [DOMAIN r -> DOMAIN b] /\ \A e \in DOMAIN r : left[e] = at[Past(e)]
  BY <1>3, <1>4
<1>6. \A e, f \in DOMAIN r : e < f => left[e] < left[f]
  <2> SUFFICES ASSUME NEW e \in DOMAIN r, NEW f \in DOMAIN r, e < f
               PROVE  left[e] < left[f]
    OBVIOUS
  <2>1. Past(e) < Past(f)
    BY <1>2
  <2> QED
    BY <1>3, <1>4, <1>5, <2>1
<1>7. \A e \in DOMAIN r : r[e] = b[left[e]]
  <2> SUFFICES ASSUME NEW e \in DOMAIN r PROVE r[e] = b[left[e]]
    OBVIOUS
  <2>1. r[e] = s[Past(e)]
    BY <1>1, <1>2
  <2> QED
    BY <1>3, <1>4, <1>5, <2>1
<1>8. ASSUME NEW c \in DOMAIN b, Stays(b, c)
      PROVE  \E e \in DOMAIN r : left[e] = c
  <2>1. PICK f \in DOMAIN s : at[f] = c
    BY <1>3, <1>8
  <2>2. f # m
    BY <1>8, <1>a, <2>1
  <2> DEFINE e == IF f < m THEN f ELSE f - 1
  <2>3. e \in DOMAIN r /\ Past(e) = f
    BY <1>2, <2>2
  <2>4. left[e] = c
    BY <1>5, <2>1, <2>3
  <2> QED
    BY <2>3, <2>4
<1>9. IsLeftOf(r, b)
  <2> HIDE DEF left, Past
  <2> QED
    BY <1>5, <1>6, <1>7, <1>8 DEF IsLeftOf
<1> QED
  BY <1>9 DEF r

LEMMA InitLeft == Init => LeftInv
<1> SUFFICES ASSUME Init PROVE LeftInv
  OBVIOUS
<1>1. original \in Declarations /\ decl = original /\ k = 1
  BY DEF Init
<1>2. TypeOK
  BY InitIInv DEF IInv
<1>3. \A p \in DOMAIN decl : IsLeftOf(decl[p].elems, original[p].elems)
  BY <1>1, <1>2, PropertyType, LeftOfItself
<1> QED
  BY <1>1, <1>3 DEF LeftInv, KindsAhead, SinglesUntouched, OnlyDanglingRemoved

(* Leaving a property, whose values stand as they stood: kept as it is, or *)
(* deleted because it had no sound value.                                  *)
LEMMA NextPropertyLeft ==
    ASSUME IInv, LeftInv, NextProperty, k <= Len(decl),
           \/ decl' = decl
           \/ /\ decl' = [decl EXCEPT ![k] = Deleted(decl[k])]
              /\ \A e \in DOMAIN original[k].elems : ~Stays(original[k].elems, e)
    PROVE  LeftInv'
<1>1. /\ decl \in Seq(Property) /\ k \in DOMAIN decl /\ k \in Nat
      /\ DOMAIN decl \subseteq Nat
      /\ original' = original /\ k' = k + 1
  BY DEF IInv, TypeOK, NextProperty
<1>2. decl[k] \in Property
  BY <1>1, ElementType
<1>3. /\ DOMAIN decl' = DOMAIN decl
      /\ \A p \in DOMAIN decl : p # k => decl'[p] = decl[p]
      /\ decl'[k].elems = decl[k].elems
      /\ decl'[k] = decl[k] \/ decl'[k].kind = "deleted"
  BY <1>1, <1>2 DEF Deleted, Property
<1>4. \A p \in DOMAIN decl : p >= k' => p >= k /\ p # k
  BY <1>1
<1>5. KindsAhead'
  BY <1>1, <1>3, <1>4 DEF LeftInv, KindsAhead
<1>6. SinglesUntouched'
  BY <1>1, <1>3 DEF LeftInv, SinglesUntouched
<1>7. OnlyDanglingRemoved'
  <2> SUFFICES ASSUME NEW p \in DOMAIN decl
               PROVE  /\ IsLeftOf(decl'[p].elems, original[p].elems)
                      /\ decl'[p].kind # original[p].kind =>
                            /\ decl'[p].kind = "deleted"
                            /\ \A e \in DOMAIN original[p].elems :
                                   ~Stays(original[p].elems, e)
    BY <1>1, <1>3 DEF OnlyDanglingRemoved, IsLeftOf, Stays, Sound, Resolves
  <2>1. /\ IsLeftOf(decl[p].elems, original[p].elems)
        /\ decl[p].kind # original[p].kind =>
              /\ decl[p].kind = "deleted"
              /\ \A e \in DOMAIN original[p].elems : ~Stays(original[p].elems, e)
    BY DEF LeftInv, OnlyDanglingRemoved
  <2>2. decl'[p].elems = decl[p].elems
    BY <1>3
  <2>3. IsLeftOf(decl'[p].elems, original[p].elems)
    BY <2>1, <2>2
  <2>4. CASE decl'[p] = decl[p]
    BY <2>1, <2>3, <2>4
  <2>5. CASE decl'[p] # decl[p]
    <3>1. p = k
      BY <1>3, <2>5
    <3>2. \A e \in DOMAIN original[k].elems : ~Stays(original[k].elems, e)
      BY <2>5
    <3> QED
      BY <1>3, <2>3, <2>5, <3>1, <3>2
  <2> QED
    BY <2>4, <2>5
<1> QED
  BY <1>1, <1>5, <1>6, <1>7 DEF LeftInv

LEMMA RemoveElementLeft == IInv /\ LeftInv /\ RemoveElement => LeftInv'
<1> SUFFICES ASSUME IInv, LeftInv, RemoveElement PROVE LeftInv'
  OBVIOUS
<1> DEFINE s == decl[k].elems
           r == RemoveAt(s, i)
<1>1. /\ k \in DOMAIN decl /\ i \in 1 .. Len(s) /\ s \in Seq(Value)
      /\ decl \in Seq(Property) /\ TypeOK
  BY PropertyType DEF RemoveElement, InArray, IInv, TypeOK
<1>2. decl[k] \in Property /\ original[k] \in Property
  <2>1. k \in DOMAIN original /\ original \in Seq(Property)
    BY <1>1 DEF TypeOK
  <2> QED
    BY <1>1, <2>1, ElementType
<1>3. /\ decl' = [decl EXCEPT ![k] = [decl[k] EXCEPT !.elems = r]]
      /\ original' = original /\ k' = k
  BY DEF RemoveElement
<1>4. /\ DOMAIN decl' = DOMAIN decl
      /\ \A p \in DOMAIN decl : p # k => decl'[p] = decl[p]
      /\ decl'[k].elems = r /\ decl'[k].kind = decl[k].kind
  BY <1>1, <1>2, <1>3 DEF Property
<1>5. KindsAhead'
  BY <1>3, <1>4 DEF LeftInv, KindsAhead
<1>6. decl[k].kind = original[k].kind /\ original[k].kind = "array"
  BY <1>1 DEF LeftInv, KindsAhead, RemoveElement, InArray, TypeOK
<1>7. SinglesUntouched'
  BY <1>3, <1>4, <1>6 DEF LeftInv, SinglesUntouched
<1>8. ~Sound(s[i])
  BY RefsAssumption DEF RemoveElement, Sound
<1>a. \A e \in 1 .. i - 1 : s[e] # Plain
  <2>1. \A e \in 1 .. i - 1 : Resolves(s[e])
    BY <1>1 DEF IInv, PassedResolve, RemoveElement, InArray
  <2> QED BY <2>1, RefsAssumption DEF Resolves
<1>9. IsLeftOf(r, original[k].elems)
  <2>1. original[k].elems \in Seq(Value)
    BY <1>2 DEF Property, Value
  <2>2. IsLeftOf(s, original[k].elems)
    BY <1>1 DEF LeftInv, OnlyDanglingRemoved
  <2> QED
    BY <1>1, <1>8, <1>a, <2>1, <2>2, LeftWithoutOne
<1>10. OnlyDanglingRemoved'
  <2> SUFFICES ASSUME NEW p \in DOMAIN decl
               PROVE  /\ IsLeftOf(decl'[p].elems, original[p].elems)
                      /\ decl'[p].kind # original[p].kind =>
                            /\ decl'[p].kind = "deleted"
                            /\ \A e \in DOMAIN original[p].elems :
                                   ~Stays(original[p].elems, e)
    BY <1>3, <1>4 DEF OnlyDanglingRemoved, IsLeftOf, Stays, Sound, Resolves
  <2>1. CASE p = k
    BY <1>4, <1>6, <1>9, <2>1
  <2>2. CASE p # k
    BY <1>4, <2>2 DEF LeftInv, OnlyDanglingRemoved
  <2> QED
    BY <2>1, <2>2
<1> QED
  BY <1>3, <1>5, <1>7, <1>10 DEF LeftInv

LEMMA NextLeft == IInv /\ LeftInv /\ [Next]_vars => LeftInv'
<1> SUFFICES ASSUME IInv, LeftInv, [Next]_vars PROVE LeftInv'
  OBVIOUS
<1>0. TypeOK /\ decl \in Seq(Property) /\ k \in Nat \ {0}
  BY DEF IInv, TypeOK
<1>1. CASE StopAtPlain
  BY <1>1, NextPropertyLeft DEF StopAtPlain, InArray
<1>2. CASE KeepElement
  BY <1>2 DEF KeepElement, LeftInv, KindsAhead, SinglesUntouched,
              OnlyDanglingRemoved, IsLeftOf, Stays, Sound, Resolves
<1>3. CASE RemoveElement
  BY <1>3, RemoveElementLeft
<1>4. CASE EndArray
  <2>1. k \in DOMAIN decl
    BY <1>0, <1>4 DEF EndArray
  <2>2. CASE decl[k].elems = << >>
    <3>1. \A e \in DOMAIN original[k].elems : ~Stays(original[k].elems, e)
      <4>1. IsLeftOf(decl[k].elems, original[k].elems)
        BY <2>1 DEF LeftInv, OnlyDanglingRemoved
      <4>2. DOMAIN decl[k].elems = {}
        BY <2>2
      <4> QED
        BY <4>1, <4>2 DEF IsLeftOf
    <3>2. decl' = [decl EXCEPT ![k] = Deleted(decl[k])]
      BY <1>4, <2>2 DEF EndArray
    <3> QED
      BY <1>4, <3>1, <3>2, NextPropertyLeft DEF EndArray
  <2>3. CASE decl[k].elems # << >>
    <3>1. decl' = decl
      BY <1>4, <2>3 DEF EndArray
    <3> QED
      BY <1>4, <3>1, NextPropertyLeft DEF EndArray
  <2> QED
    BY <2>2, <2>3
<1>5. CASE VisitSingle
  <2>1. /\ k \in DOMAIN decl /\ k <= Len(decl)
        /\ decl[k].kind \in {"use", "path"} /\ NextProperty
    BY <1>0, <1>5 DEF VisitSingle
  <2>2. CASE Resolves(decl[k].elems[1])
    <3>1. decl' = decl
      BY <1>5, <2>2 DEF VisitSingle
    <3> QED
      BY <2>1, <3>1, NextPropertyLeft
  <2>3. CASE ~Resolves(decl[k].elems[1])
    <3>1. k \in DOMAIN original /\ original[k].kind \in {"use", "path"}
      BY <1>0, <2>1 DEF LeftInv, KindsAhead, TypeOK
    <3>2. original[k].elems = decl[k].elems
      BY <2>1, <3>1 DEF LeftInv, SinglesUntouched
    <3>3. Len(original[k].elems) = 1 /\ original[k].elems[1] \in Refs
      BY <3>1, DeclarationsAssumption DEF LeftInv
    <3>4. DOMAIN original[k].elems = {1}
      <4>1. decl[k].elems \in Seq(Value)
        BY <1>0, <2>1, PropertyType
      <4> QED
        BY <3>2, <3>3, <4>1
    <3>5. \A e \in DOMAIN original[k].elems : ~Stays(original[k].elems, e)
      BY <2>3, <3>2, <3>3, <3>4, RefsAssumption DEF Stays, Sound
    <3>6. decl' = [decl EXCEPT ![k] = Deleted(decl[k])]
      BY <1>5, <2>3 DEF VisitSingle
    <3> QED
      BY <2>1, <3>5, <3>6, NextPropertyLeft
  <2> QED
    BY <2>2, <2>3
<1>6. CASE VisitOther
  BY <1>6, NextPropertyLeft DEF VisitOther
<1>7. CASE UNCHANGED vars
  BY <1>7 DEF vars, LeftInv, KindsAhead, SinglesUntouched, OnlyDanglingRemoved,
              IsLeftOf, Stays, Sound, Resolves
<1> QED
  BY <1>1, <1>2, <1>3, <1>4, <1>5, <1>6, <1>7 DEF Next

(* In every declaration, the cleanup takes only references that lead       *)
(* nowhere and stand before any value that is no reference, keeps the rest *)
(* in its order, and deletes a property only when it held nothing else.    *)
THEOREM OnlyDanglingGo == Spec => []OnlyDanglingRemoved
<1>1. LeftInv => OnlyDanglingRemoved
  BY DEF LeftInv
<1> QED
  BY <1>1, InitLeft, NextLeft, Invariance, PTL DEF Spec
=============================================================================
