---------------------- MODULE ApplicationFilter_proof -----------------------
(***************************************************************************)
(* The search of filterByApplication collects exactly what can be reached: *)
(* it implements ReachableObjects, for every declaration.  The difficulty  *)
(* is that it rewrites the references it walks along, and reads them again *)
(* when it meets an object a second time; the invariant says what becomes  *)
(* of a reference, and which ones are still to be looked at.               *)
(***************************************************************************)
EXTENDS ApplicationFilter, SequenceTheorems, FiniteSetTheorems, TLAPS

Frame == [object : Objects, slot : Nat \ {0}]

TypeInv ==
    /\ original \in Declarations
    /\ target \in Targets
    /\ decl \in [Objects -> Seq(AnySlot)]
    /\ stack \in Seq(Frame) /\ stack # <<>>
    /\ visited \subseteq Objects
    /\ \A k \in DOMAIN stack : stack[k].object \in visited

(* What a slot meant is collected, if it was rewritten ...                 *)
Collected(o, i) ==
    /\ Meant(original[o][i].ref) # {}
    /\ Meant(original[o][i].ref) \subseteq visited

SlotsInv ==
    \A o \in Objects :
        /\ DOMAIN decl[o] = DOMAIN original[o]
        /\ \A i \in DOMAIN original[o] :
               /\ decl[o][i].form = original[o][i].form
               /\ NameOf(decl[o][i].ref) = NameOf(original[o][i].ref)
               /\ decl[o][i].ref # original[o][i].ref => Collected(o, i)

(* ... and a caller waits at a slot that means the object of the next call. *)
CallersInv ==
    \A k \in 1..Len(stack) - 1 :
        /\ stack[k].slot \in Followed(stack[k].object)
        /\ Meant(original[stack[k].object][stack[k].slot].ref) = {stack[k + 1].object}

(* A slot of a collected object is dealt with, or a call is still to come  *)
(* to it.                                                                  *)
DealtWith(o, i) == original[o][i].form # "nested" => Meant(original[o][i].ref) \subseteq visited

Ahead(o, i) == \E k \in DOMAIN stack : stack[k].object = o /\ stack[k].slot <= i

AheadInv ==
    \A o \in visited : \A i \in DOMAIN original[o] : DealtWith(o, i) \/ Ahead(o, i)

IInv == Vs \in Objects /\ Clear => TypeInv /\ SlotsInv /\ CallersInv /\ AheadInv
-----------------------------------------------------------------------------
(* What Append does to an element, to the length and to the type.        *)
LEMMA AppendElement ==
  ASSUME NEW S, NEW a \in Seq(S), NEW n \in S, NEW i \in 1..Len(a)
  PROVE  Append(a, n)[i] = a[i]
OBVIOUS

LEMMA AppendLast ==
  ASSUME NEW S, NEW a \in Seq(S), NEW n \in S, NEW k \in {Len(a) + 1}
  PROVE  Append(a, n)[k] = n
OBVIOUS

LEMMA AppendLength ==
  ASSUME NEW S, NEW a \in Seq(S), NEW n \in S, NEW k \in {Len(a) + 1}
  PROVE  Append(a, n) \in Seq(S) /\ Len(Append(a, n)) = k
OBVIOUS

LEMMA ThreeOf ==
  ASSUME NEW S, NEW a \in Seq(S), NEW n \in S, Len(a) = 2
  PROVE /\ Append(a, n) \in Seq(S) /\ Len(Append(a, n)) = 3
        /\ Append(a, n)[1] = a[1] /\ Append(a, n)[2] = a[2] /\ Append(a, n)[3] = n
<1>1. 1 \in 1..Len(a)
  OBVIOUS
<1>2. 2 \in 1..Len(a)
  OBVIOUS
<1>3. 3 \in {Len(a) + 1}
  OBVIOUS
<1>4. \A i \in 1..Len(a) : Append(a, n)[i] = a[i]
  BY AppendElement, ZenonT(40)
<1>5. Append(a, n)[3] = n
  BY <1>3, AppendLast, ZenonT(40)
<1>6. Append(a, n) \in Seq(S) /\ Len(Append(a, n)) = 3
  BY <1>3, AppendLength, ZenonT(40)
<1>7. Append(a, n)[1] = a[1]
  BY <1>1, <1>4, ZenonT(40)
<1>8. Append(a, n)[2] = a[2]
  BY <1>2, <1>4, ZenonT(40)
<1> QED BY <1>5, <1>6, <1>7, <1>8, ZenonT(40)

(* A path that begins like a pair has that pair for its first segments.   *)
LEMMA FirstTwo ==
  ASSUME NEW S, NEW a \in Seq(S), NEW p \in Seq(S),
         Len(a) = 2, Len(p) = 3, p[1] = a[1], p[2] = a[2]
  PROVE  SubSeq(p, 1, 2) = a
OBVIOUS

(* A pair and a further segment make a path, and back.                    *)
LEMMA AppendToPair ==
  ASSUME NEW S, NEW a \in Seq(S), NEW n \in S, Len(a) = 2
  PROVE /\ Append(a, n) \in Seq(S) /\ Len(Append(a, n)) = 3
        /\ Append(a, n)[1] = a[1] /\ Append(a, n)[2] = a[2] /\ Append(a, n)[3] = n
        /\ SubSeq(Append(a, n), 1, 2) = a
<1>1. /\ Append(a, n) \in Seq(S) /\ Len(Append(a, n)) = 3
      /\ Append(a, n)[1] = a[1] /\ Append(a, n)[2] = a[2] /\ Append(a, n)[3] = n
  BY ThreeOf, ZenonT(40)
<1>2. SubSeq(Append(a, n), 1, 2) = a
  BY <1>1, FirstTwo, ZenonT(40)
<1> QED BY <1>1, <1>2, ZenonT(40)

LEMMA SplitTriple ==
  ASSUME NEW S, NEW o \in Seq(S), Len(o) = 3
  PROVE /\ SubSeq(o, 1, 2) \in Seq(S) /\ Len(SubSeq(o, 1, 2)) = 2
        /\ Append(SubSeq(o, 1, 2), o[3]) = o
<1> DEFINE b == SubSeq(o, 1, 2)
<1>1. b \in Seq(S) /\ Len(b) = 2 /\ b[1] = o[1] /\ b[2] = o[2] /\ o[3] \in S
  OBVIOUS
<1>2. /\ Append(b, o[3]) \in Seq(S) /\ Len(Append(b, o[3])) = 3
      /\ Append(b, o[3])[1] = b[1] /\ Append(b, o[3])[2] = b[2] /\ Append(b, o[3])[3] = o[3]
  <2> HIDE DEF b
  <2> QED BY <1>1, AppendToPair
<1>3. Append(b, o[3]) = o
  <2> HIDE DEF b
  <2>1. \A i \in 1..Len(o) : Append(b, o[3])[i] = o[i]
    BY <1>1, <1>2
  <2> QED BY <1>2, <2>1, SeqEqual
<1> QED BY <1>1, <1>3

LEMMA NameOfRef == ASSUME NEW r \in Ref PROVE NameOf(r) \in Segments
<1>1. r \in Seq(Segments) /\ Len(r) \in 1..Len(r)
  BY DEF Ref
<1> QED BY <1>1, ElementOfSeq DEF NameOf

LEMMA PathParts == ASSUME NEW o \in Path
                   PROVE Append(AppOf(o), NameOf(o)) = o /\ AppOf(o) \in Application
<1>1. o \in Seq(Segments) /\ Len(o) = 3 /\ NameOf(o) = o[3]
  BY DEF Path, Ref, NameOf
<1>2. /\ SubSeq(o, 1, 2) \in Seq(Segments) /\ Len(SubSeq(o, 1, 2)) = 2
      /\ Append(SubSeq(o, 1, 2), o[3]) = o
  BY <1>1, SplitTriple
<1>3. SubSeq(o, 1, 2) # <<>>
  BY <1>2
<1> HIDE DEF Path
<1> QED BY <1>1, <1>2, <1>3, Zenon DEF Application, Ref, AppOf

LEMMA PathOf == ASSUME NEW app \in Application, NEW n \in Segments
                PROVE  /\ Append(app, n) \in Ref /\ Append(app, n) \in Path
                       /\ NameOf(Append(app, n)) = n /\ AppOf(Append(app, n)) = app
<1>1. app \in Seq(Segments) /\ Len(app) = 2
  BY DEF Application, Ref
<1>2. /\ Append(app, n) \in Seq(Segments) /\ Len(Append(app, n)) = 3
      /\ Append(app, n)[3] = n /\ SubSeq(Append(app, n), 1, 2) = app
  BY <1>1, AppendToPair
<1> QED BY <1>2 DEF Ref, Path, NameOf, AppOf
-----------------------------------------------------------------------------
(* Objects a search can be about.                                          *)
Given == original \in Declarations /\ Vs \in Objects /\ Clear

LEMMA ObjectsArePaths == ASSUME original \in Declarations PROVE Objects \subseteq Path
BY FilterAssumption DEF Objects

(* What is looked up is what may be meant, and it is looked up in both     *)
(* places (23-47).                                                         *)
LEMMA FindMeant ==
  ASSUME original \in Declarations, NEW r \in Ref
  PROVE  /\ Find(r) # NoObject => Find(r) \in Meant(r)
         /\ Find(r) = NoObject => Meant(r) = {}
<1> DEFINE app == IF Len(r) = 3 THEN AppOf(r) ELSE App
           n == NameOf(r)
<1>1. app \in Application /\ App \in Application
  BY PathParts, FilterAssumption DEF App, Path
<1>2. n \in Segments
  BY NameOfRef
<1>3. Find(r) = CASE Append(app, n) \in Objects -> Append(app, n)
                  [] Append(app, n) \notin Objects /\ Append(Shared, n) \in Objects ->
                        Append(Shared, n)
                  [] OTHER -> NoObject
  BY DEF Find
<1>4. Meant(r) = {o \in Objects : NameOf(o) = n /\ AppOf(o) \in {app, Shared}}
  BY DEF Meant, IsPath
<1>5. /\ NameOf(Append(app, n)) = n /\ AppOf(Append(app, n)) = app
      /\ NameOf(Append(Shared, n)) = n /\ AppOf(Append(Shared, n)) = Shared
  <2> HIDE DEF app, n
  <2> QED BY <1>1, <1>2, PathOf, FilterAssumption
<1>6. NoObject \notin Objects
  BY ObjectsArePaths DEF NoObject, Path, Ref
<1>7. \A o \in Objects : Append(AppOf(o), NameOf(o)) = o
  BY PathParts, ObjectsArePaths
<1> HIDE DEF app, n
<1>8. CASE Append(app, n) \in Objects
  BY <1>3, <1>4, <1>5, <1>6, <1>8
<1>9. CASE Append(app, n) \notin Objects /\ Append(Shared, n) \in Objects
  BY <1>3, <1>4, <1>5, <1>6, <1>9
<1>10. CASE Append(app, n) \notin Objects /\ Append(Shared, n) \notin Objects
  <2>1. Find(r) = NoObject
    BY <1>3, <1>10
  <2>2. ASSUME NEW o \in Meant(r) PROVE FALSE
    <3>1. o \in Objects /\ NameOf(o) = n /\ (AppOf(o) = app \/ AppOf(o) = Shared)
      BY <1>4
    <3>2. o = Append(app, n) \/ o = Append(Shared, n)
      BY <1>7, <3>1
    <3> QED BY <1>10, <3>1, <3>2
  <2> QED BY <2>1, <2>2
<1> QED BY <1>8, <1>9, <1>10

LEMMA MeantAtMostOne ==
  ASSUME Clear, NEW r, NEW o \in Meant(r), NEW s, NEW d \in Meant(s), NameOf(r) = NameOf(s)
  PROVE  o = d
BY DEF Clear, Meant

(* A slot of the copy leads where the one of the original was meant to, or *)
(* what that meant is collected already.                                   *)
LEMMA SlotMeant ==
  ASSUME Given, TypeInv, SlotsInv,
         NEW o \in Objects, NEW i \in DOMAIN original[o]
  PROVE  /\ Find(decl[o][i].ref) # NoObject =>
                Meant(original[o][i].ref) = {Find(decl[o][i].ref)}
         /\ Find(decl[o][i].ref) = NoObject => Meant(original[o][i].ref) \subseteq visited
         /\ decl[o][i] \in AnySlot /\ original[o][i] \in AnySlot
         /\ decl[o][i].form = original[o][i].form
<1> DEFINE r == decl[o][i].ref
           s == original[o][i].ref
<1>1. /\ decl[o][i] \in AnySlot /\ original[o][i] \in AnySlot
      /\ decl[o][i].form = original[o][i].form
  <2>1. original[o] \in Seq(AnySlot) /\ decl[o] \in Seq(AnySlot)
    BY FilterAssumption DEF TypeInv, Objects
  <2>2. i \in 1..Len(original[o]) /\ i \in 1..Len(decl[o])
    BY <2>1 DEF SlotsInv
  <2> QED BY <2>1, <2>2, ElementOfSeq DEF SlotsInv
<1>2. r \in Ref /\ s \in Ref
  BY <1>1 DEF AnySlot
<1>3. NameOf(r) = NameOf(s) /\ (r # s => Meant(s) # {} /\ Meant(s) \subseteq visited)
  BY DEF SlotsInv, Collected
<1>4. original \in Declarations /\ Clear
  BY DEF Given
<1> HIDE DEF r, s
<1>5. ASSUME Find(r) # NoObject PROVE Meant(s) = {Find(r)}
  <2>1. Find(r) \in Meant(r)
    BY <1>2, <1>4, <1>5, FindMeant
  <2>2. \A d \in Meant(s) : d = Find(r)
    BY <1>3, <1>4, <2>1, MeantAtMostOne
  <2>3. Meant(s) # {}
    BY <1>3, <2>1
  <2> QED BY <2>2, <2>3
<1>6. ASSUME Find(r) = NoObject PROVE Meant(s) \subseteq visited
  <2>1. Meant(r) = {}
    BY <1>2, <1>4, <1>6, FindMeant
  <2> QED BY <1>3, <2>1
<1> QED BY <1>1, <1>5, <1>6 DEF r, s

LEMMA NewNames ==
  ASSUME original \in Declarations, target \in Targets, NEW r \in Ref
  PROVE  NewName(r) \in Ref /\ NameOf(NewName(r)) = NameOf(r)
BY FilterAssumption, PathOf, NameOfRef DEF NewName
-----------------------------------------------------------------------------
LEMMA InitInv == Init => IInv
<1> SUFFICES ASSUME Init, Vs \in Objects, Clear PROVE TypeInv /\ SlotsInv /\ CallersInv /\ AheadInv
  BY DEF IInv
<1>1. TypeInv
  <2>1. decl \in [Objects -> Seq(AnySlot)]
    BY FilterAssumption DEF Init, Objects
  <2>2. stack \in Seq(Frame) /\ stack # <<>> /\ DOMAIN stack = {1} /\ stack[1].object = Vs
    BY DEF Init, Frame
  <2> QED BY <2>1, <2>2 DEF Init, TypeInv
<1>2. SlotsInv
  BY DEF Init, SlotsInv
<1>3. CallersInv
  BY DEF Init, CallersInv
<1>4. AheadInv
  <2> SUFFICES ASSUME NEW i \in DOMAIN original[Vs] PROVE Ahead(Vs, i)
    BY DEF Init, AheadInv
  <2>1. original[Vs] \in Seq(AnySlot)
    BY FilterAssumption DEF Init, Objects
  <2>2. i \in Nat /\ i >= 1
    BY <2>1
  <2> QED BY <2>2 DEF Init, Ahead
<1> QED BY <1>1, <1>2, <1>3, <1>4

(* What no step changes.                                                   *)
LEMMA Constant ==
  ASSUME UNCHANGED original
  PROVE  /\ Objects' = Objects /\ Clear' = Clear /\ Frame' = Frame
         /\ \A r : Meant(r)' = Meant(r)
         /\ \A o : Followed(o)' = Followed(o)
BY DEF Objects, Clear, Frame, Meant, Followed

(* The topmost call.                                                       *)
LEMMA Topmost ==
  ASSUME TypeInv
  PROVE  /\ Len(stack) \in Nat \ {0} /\ Top \in Frame /\ Top.object \in visited
         /\ Top.object \in Objects /\ Top.slot \in Nat \ {0}
         /\ \A k \in 1..Len(stack) : stack[k] \in Frame
<1>1. stack \in Seq(Frame) /\ stack # <<>>
  BY DEF TypeInv
<1>2. Len(stack) \in Nat \ {0} /\ DOMAIN stack = 1..Len(stack)
  BY <1>1
<1>3. \A k \in 1..Len(stack) : stack[k] \in Frame
  BY <1>1, ElementOfSeq
<1>4. Top \in Frame /\ Top.object \in visited
  BY <1>2, <1>3 DEF TypeInv, Top
<1> QED BY <1>2, <1>3, <1>4 DEF Frame

LEMMA NextSlotOf ==
  ASSUME NEW s \in Seq(Frame), s # <<>>
  PROVE  /\ NextSlot(s) \in Seq(Frame) /\ NextSlot(s) # <<>> /\ Len(NextSlot(s)) = Len(s)
         /\ \A k \in 1..Len(s) :
                /\ NextSlot(s)[k].object = s[k].object
                /\ NextSlot(s)[k].slot = IF k = Len(s) THEN s[k].slot + 1 ELSE s[k].slot
<1>1. Len(s) \in 1..Len(s) /\ s[Len(s)] \in Frame
  BY ElementOfSeq
<1>2. \A k \in 1..Len(s) : s[k] \in Frame
  BY ElementOfSeq
<1>3. [s[Len(s)] EXCEPT !.slot = @ + 1] \in Frame
  BY <1>1 DEF Frame
<1>4. NextSlot(s) = [s EXCEPT ![Len(s)] = [s[Len(s)] EXCEPT !.slot = @ + 1]]
  BY DEF NextSlot
<1>5. /\ NextSlot(s) \in Seq(Frame) /\ Len(NextSlot(s)) = Len(s)
      /\ \A k \in 1..Len(s) : NextSlot(s)[k] =
            IF k = Len(s) THEN [s[Len(s)] EXCEPT !.slot = @ + 1] ELSE s[k]
  <2> DEFINE e == [s[Len(s)] EXCEPT !.slot = @ + 1]
  <2>1. e \in Frame /\ NextSlot(s) = [s EXCEPT ![Len(s)] = e]
    BY <1>3, <1>4
  <2> HIDE DEF e
  <2>2. NextSlot(s) \in Seq(Frame) /\ Len(NextSlot(s)) = Len(s)
    BY <1>1, <2>1, ExceptSeq
  <2>3. \A k \in 1..Len(s) : NextSlot(s)[k] = IF k = Len(s) THEN e ELSE s[k]
    BY <2>1
  <2> QED BY <2>2, <2>3 DEF e
<1>6. ASSUME NEW k \in 1..Len(s)
      PROVE  /\ NextSlot(s)[k].object = s[k].object
             /\ NextSlot(s)[k].slot = IF k = Len(s) THEN s[k].slot + 1 ELSE s[k].slot
  <2>1. CASE k = Len(s)
    <3>1. NextSlot(s)[k] = [s[k] EXCEPT !.slot = @ + 1]
      BY <1>5, <2>1
    <3> QED BY <1>2, <2>1, <3>1 DEF Frame
  <2>2. CASE k # Len(s)
    <3>1. NextSlot(s)[k] = s[k]
      BY <1>5, <2>2
    <3> QED BY <2>2, <3>1
  <2> QED BY <2>1, <2>2
<1>7. NextSlot(s) # <<>>
  BY <1>5
<1> QED BY <1>5, <1>6, <1>7

(* What the steps do to the stack.                                         *)
LEMMA PassStack ==
  ASSUME TypeInv, Pass
  PROVE  /\ UNCHANGED <<original, decl, target, dependents, visited, status>>
         /\ stack' \in Seq(Frame) /\ stack' # <<>> /\ Len(stack') = Len(stack)
         /\ \A k \in 1..Len(stack) :
                /\ stack'[k].object = stack[k].object
                /\ stack'[k].slot = IF k = Len(stack) THEN stack[k].slot + 1 ELSE stack[k].slot
BY NextSlotOf DEF TypeInv, Pass

LEMMA DescendStack ==
  ASSUME Given, TypeInv, SlotsInv, Descend, NEW d, d = Find(Slot.ref)
  PROVE  /\ UNCHANGED <<original, decl, target, status>> /\ visited' = visited \cup {d}
         /\ Top.slot \in DOMAIN original[Top.object] /\ Slot = decl[Top.object][Top.slot]
         /\ original[Top.object][Top.slot].form # "nested"
         /\ Meant(original[Top.object][Top.slot].ref) = {d} /\ d \in Objects
         /\ stack' \in Seq(Frame) /\ stack' # <<>> /\ Len(stack') = Len(stack) + 1
         /\ \A k \in 1..Len(stack) : stack'[k] = stack[k]
         /\ stack'[Len(stack) + 1].object = d /\ stack'[Len(stack) + 1].slot = 1
<1> DEFINE frame == [object |-> d, slot |-> 1]
<1>1. UNCHANGED <<original, decl, target, status>> /\ visited' = visited \cup {d}
      /\ stack' = Append(stack, frame)
  BY DEF Descend
<1>3. Top.slot \in DOMAIN original[Top.object] /\ Slot = decl[Top.object][Top.slot]
  <2>1. decl[Top.object] \in Seq(AnySlot) /\ Top.slot \in 1..Len(decl[Top.object])
    BY Topmost DEF Descend, AtSlot, TypeInv, Slots
  <2> QED BY <2>1, Topmost DEF SlotsInv, Slot, Slots
<1>4. /\ Meant(original[Top.object][Top.slot].ref) = {d}
      /\ original[Top.object][Top.slot].form # "nested"
  BY <1>3, SlotMeant, Topmost DEF Descend, Nested
<1>5. d \in Objects
  BY <1>4 DEF Meant
<1>6. frame \in Frame
  BY <1>5 DEF Frame
<1>7. /\ stack' \in Seq(Frame) /\ stack' # <<>> /\ Len(stack') = Len(stack) + 1
      /\ \A k \in 1..Len(stack) : stack'[k] = stack[k]
      /\ stack'[Len(stack) + 1] = frame
  <2> HIDE DEF frame
  <2>1. stack \in Seq(Frame)
    BY DEF TypeInv
  <2>2. stack' \in Seq(Frame)
    BY <1>1, <1>6, <2>1
  <2>3. Len(stack') = Len(stack) + 1
    BY <1>1, <1>6, <2>1, AppendProperties
  <2>4. \A k \in 1..Len(stack) : stack'[k] = stack[k]
    BY <1>1, <1>6, <2>1, AppendProperties
  <2>5. stack'[Len(stack) + 1] = frame
    BY <1>1, <1>6, <2>1, AppendProperties
  <2> QED BY <2>1, <2>2, <2>3, <2>4, <2>5
<1>8. frame.object = d /\ frame.slot = 1
  OBVIOUS
<1> HIDE DEF frame
<1> QED BY <1>1, <1>3, <1>4, <1>5, <1>7, <1>8, Zenon

LEMMA ReturnStack ==
  ASSUME TypeInv, Return, NEW l, l = Len(stack) - 1
  PROVE  /\ UNCHANGED <<original, target, dependents, visited, status>>
         /\ Top.slot > Len(decl[Top.object])
         /\ l \in Nat \ {0} /\ l < Len(stack) /\ DOMAIN stack = 1..Len(stack)
         /\ \A k \in 1..Len(stack) : stack[k] \in Frame
         /\ stack' \in Seq(Frame) /\ stack' # <<>> /\ Len(stack') = l /\ DOMAIN stack' = 1..l
         /\ \A k \in 1..l :
                /\ stack'[k].object = stack[k].object
                /\ stack'[k].slot = IF k = l THEN stack[k].slot + 1 ELSE stack[k].slot
<1> DEFINE rest == SubSeq(stack, 1, l)
<1>1. /\ UNCHANGED <<original, target, dependents, visited, status>> /\ stack' = NextSlot(rest)
      /\ Len(stack) > 1 /\ Top.slot > Len(decl[Top.object])
  BY DEF Return, Slots
<1>3. /\ l \in Nat \ {0} /\ l < Len(stack) /\ stack \in Seq(Frame) /\ DOMAIN stack = 1..Len(stack)
      /\ \A k \in 1..Len(stack) : stack[k] \in Frame
  <2>1. stack \in Seq(Frame) /\ Len(stack) > 1
    BY <1>1, Zenon DEF TypeInv
  <2>2. Len(stack) \in Nat /\ DOMAIN stack = 1..Len(stack)
    BY <2>1
  <2>3. \A k \in 1..Len(stack) : stack[k] \in Frame
    BY Topmost, Zenon
  <2>4. l \in Nat \ {0} /\ l < Len(stack)
    <3> DEFINE n == Len(stack)
    <3>1. n \in Nat /\ n > 1 /\ l = n - 1
      BY <2>1, <2>2, Zenon
    <3> HIDE DEF n
    <3>2. l \in Nat \ {0} /\ l < n
      BY <3>1
    <3> QED BY <3>2 DEF n
  <2> QED BY <2>1, <2>2, <2>3, <2>4, Zenon
<1>4. /\ rest \in Seq(Frame) /\ rest # <<>> /\ Len(rest) = l
      /\ \A k \in 1..l : rest[k] = stack[k]
  <2>1. rest \in Seq(Frame)
    BY <1>3
  <2>2. Len(rest) = l /\ \A k \in 1..l : rest[k] = stack[k]
    BY <1>3
  <2> QED BY <1>3, <2>1, <2>2
<1>5. /\ stack' \in Seq(Frame) /\ stack' # <<>> /\ Len(stack') = l /\ DOMAIN stack' = 1..l
      /\ \A k \in 1..l :
             /\ stack'[k].object = stack[k].object
             /\ stack'[k].slot = IF k = l THEN stack[k].slot + 1 ELSE stack[k].slot
  <2> DEFINE longer == NextSlot(rest)
  <2>0. stack' = longer
    BY <1>1, Zenon
  <2> HIDE DEF rest
  <2>1. longer \in Seq(Frame) /\ longer # <<>> /\ Len(longer) = l
    BY <1>4, NextSlotOf, ZenonT(40)
  <2>2. DOMAIN longer = 1..l
    BY <2>1
  <2>3. \A k \in 1..l :
            /\ longer[k].object = rest[k].object
            /\ longer[k].slot = IF k = l THEN rest[k].slot + 1 ELSE rest[k].slot
    <3>1. \A k \in 1..Len(rest) :
              /\ longer[k].object = rest[k].object
              /\ longer[k].slot = IF k = Len(rest) THEN rest[k].slot + 1 ELSE rest[k].slot
      BY <1>4, NextSlotOf, ZenonT(40)
    <3> HIDE DEF longer
    <3> QED BY <1>4, <3>1
  <2>4. \A k \in 1..l : rest[k] = stack[k]
    BY <1>4, Zenon
  <2>5. \A k \in 1..l :
            /\ longer[k].object = stack[k].object
            /\ longer[k].slot = IF k = l THEN stack[k].slot + 1 ELSE stack[k].slot
    BY <2>3, <2>4, ZenonT(40)
  <2> HIDE DEF longer
  <2> QED BY <2>0, <2>1, <2>2, <2>5, ZenonT(40)
<1> QED BY <1>1, <1>3, <1>5

LEMMA ReturnSlots ==
  ASSUME original \in Declarations, TypeInv, SlotsInv, CallersInv, Return,
         NEW l, l = Len(stack) - 1, NEW c, c = stack[l].object, NEW j, j = stack[l].slot
  PROVE  /\ c \in Objects /\ c \in visited /\ j \in Followed(c) /\ j \in DOMAIN original[c]
         /\ Collected(c, j) /\ decl[c][j] \in AnySlot
         /\ decl' \in [Objects -> Seq(AnySlot)]
         /\ \A o \in Objects : DOMAIN decl'[o] = DOMAIN decl[o]
         /\ \A o \in Objects : \A i \in DOMAIN decl[o] :
                o # c \/ i # j => decl'[o][i] = decl[o][i]
         /\ decl'[c][j].form = decl[c][j].form
         /\ decl'[c][j].ref = IF decl[c][j].form = "value" THEN NewName(decl[c][j].ref)
                                                         ELSE decl[c][j].ref
<1>1. decl' = IF decl[c][j].form = "value"
              THEN [decl EXCEPT ![c][j].ref = NewName(@)] ELSE decl
  BY DEF Return
<1>3. l \in 1..Len(stack) - 1 /\ l \in 1..Len(stack) /\ stack[l] \in Frame /\ l \in DOMAIN stack
  BY ReturnStack, Topmost
<1>6. c \in Objects /\ c \in visited /\ j \in Followed(c) /\ j \in DOMAIN original[c] /\ Collected(c, j)
  <2>1. c \in Objects /\ c \in visited
    BY <1>3 DEF Frame, TypeInv
  <2>2. j \in Followed(c) /\ Meant(original[c][j].ref) = {stack[l + 1].object}
    BY <1>3 DEF CallersInv
  <2>3. l + 1 \in DOMAIN stack
    BY <1>3, ReturnStack
  <2>4. stack[l + 1].object \in visited
    BY <2>3 DEF TypeInv
  <2> QED BY <2>1, <2>2, <2>4 DEF Collected, Followed
<1>7. decl[c] \in Seq(AnySlot) /\ j \in 1..Len(decl[c]) /\ j \in DOMAIN decl[c] /\ decl[c][j] \in AnySlot
  <2>1. decl[c] \in Seq(AnySlot)
    BY <1>6 DEF TypeInv
  <2>2. j \in 1..Len(decl[c]) /\ j \in DOMAIN decl[c]
    BY <1>6, <2>1 DEF SlotsInv
  <2> QED BY <2>1, <2>2, ElementOfSeq
<1>2. CASE decl[c][j].form # "value"
  BY <1>1, <1>2, <1>6, <1>7 DEF TypeInv
<1>4. CASE decl[c][j].form = "value"
  <2> DEFINE e == [decl[c][j] EXCEPT !.ref = NewName(@)]
             s == [decl[c] EXCEPT ![j] = e]
  <2>1. decl' = [decl EXCEPT ![c] = s]
    BY <1>1, <1>4
  <2>2. decl[c][j].ref \in Ref
    BY <1>7 DEF AnySlot
  <2>3. NewName(decl[c][j].ref) \in Ref
    BY <2>2, NewNames DEF TypeInv
  <2>4. e \in AnySlot /\ e.form = decl[c][j].form /\ e.ref = NewName(decl[c][j].ref)
    BY <1>7, <2>3 DEF AnySlot
  <2> HIDE DEF e
  <2>5. s \in Seq(AnySlot) /\ Len(s) = Len(decl[c])
    BY <1>7, <2>4, ExceptSeq
  <2>6. DOMAIN s = DOMAIN decl[c] /\ \A i \in DOMAIN decl[c] : s[i] = IF i = j THEN e ELSE decl[c][i]
    OBVIOUS
  <2> HIDE DEF s
  <2>7. decl \in [Objects -> Seq(AnySlot)]
    BY DEF TypeInv
  <2>8. /\ decl' \in [Objects -> Seq(AnySlot)] /\ decl'[c] = s
        /\ \A o \in Objects : o # c => decl'[o] = decl[o]
    BY <1>6, <2>1, <2>5, <2>7
  <2>9. decl'[c][j] = e
    BY <1>7, <2>6, <2>8
  <2> QED BY <1>4, <1>6, <1>7, <2>4, <2>6, <2>8, <2>9
<1> QED BY <1>2, <1>4

(* A slot that a call is still to come to remains so, until it is passed   *)
(* over or returned to.                                                    *)
LEMMA SlotNumbers ==
  ASSUME original \in Declarations, TypeInv, SlotsInv, NEW o \in Objects, NEW i \in DOMAIN original[o]
  PROVE  i \in Nat /\ i >= 1 /\ i <= Len(decl[o])
<1>1. original[o] \in Seq(AnySlot) /\ decl[o] \in Seq(AnySlot)
  BY FilterAssumption DEF TypeInv, Objects
<1>2. i \in DOMAIN decl[o]
  BY DEF SlotsInv
<1> QED BY <1>1, <1>2

LEMMA AheadPass ==
  ASSUME TypeInv, Pass, NEW o, NEW i \in Nat, Ahead(o, i), ~ (o = Top.object /\ i = Top.slot)
  PROVE  Ahead(o, i)'
<1>1. /\ stack' \in Seq(Frame) /\ Len(stack') = Len(stack)
      /\ \A k \in 1..Len(stack) :
             /\ stack'[k].object = stack[k].object
             /\ stack'[k].slot = IF k = Len(stack) THEN stack[k].slot + 1 ELSE stack[k].slot
  BY PassStack
<1>2. PICK k \in 1..Len(stack) : stack[k].object = o /\ stack[k].slot <= i
  BY Topmost DEF Ahead, TypeInv
<1>3. CASE k # Len(stack)
  BY <1>1, <1>2, <1>3 DEF Ahead
<1>4. CASE k = Len(stack) /\ stack[k].slot # i
  <2>1. stack[k] \in Frame
    BY <1>2, Topmost
  <2>2. stack[k].slot \in Nat
    BY <2>1 DEF Frame
  <2>3. stack[k].slot + 1 <= i
    BY <1>2, <1>4, <2>2
  <2>4. k \in DOMAIN stack' /\ stack'[k].object = o /\ stack'[k].slot <= i
    BY <1>1, <1>2, <1>4, <2>3
  <2> QED BY <2>4 DEF Ahead
<1> QED BY <1>2, <1>3, <1>4 DEF Top

LEMMA AheadDescend ==
  ASSUME Given, TypeInv, SlotsInv, Descend, NEW o, NEW i \in Nat,
         Ahead(o, i) \/ (o = Find(Slot.ref) /\ i >= 1)
  PROVE  Ahead(o, i)'
<1>1. /\ stack' \in Seq(Frame) /\ Len(stack') = Len(stack) + 1
      /\ \A k \in 1..Len(stack) : stack'[k] = stack[k]
      /\ stack'[Len(stack) + 1].object = Find(Slot.ref) /\ stack'[Len(stack) + 1].slot = 1
  BY DescendStack
<1>2. CASE Ahead(o, i)
  <2>1. PICK k \in 1..Len(stack) : stack[k].object = o /\ stack[k].slot <= i
    BY <1>2, Topmost DEF Ahead, TypeInv
  <2>2. k \in DOMAIN stack' /\ stack'[k] = stack[k]
    BY <1>1, Topmost
  <2> QED BY <2>1, <2>2 DEF Ahead
<1>3. CASE o = Find(Slot.ref) /\ i >= 1
  <2>1. Len(stack) + 1 \in DOMAIN stack'
    BY <1>1, Topmost
  <2> QED BY <1>1, <1>3, <2>1 DEF Ahead
<1> QED BY <1>2, <1>3

LEMMA AheadReturn ==
  ASSUME TypeInv, Return, NEW l, l = Len(stack) - 1, NEW o \in Objects, NEW i \in Nat,
         i <= Len(decl[o]), Ahead(o, i), ~ (o = stack[l].object /\ i = stack[l].slot)
  PROVE  Ahead(o, i)'
<1>1. /\ Top.slot > Len(decl[Top.object])
      /\ l \in Nat \ {0} /\ l < Len(stack) /\ DOMAIN stack = 1..Len(stack)
      /\ \A k \in 1..Len(stack) : stack[k] \in Frame
      /\ DOMAIN stack' = 1..l
      /\ \A k \in 1..l :
             /\ stack'[k].object = stack[k].object
             /\ stack'[k].slot = IF k = l THEN stack[k].slot + 1 ELSE stack[k].slot
  BY ReturnStack
<1>2. PICK k \in 1..Len(stack) : stack[k].object = o /\ stack[k].slot <= i
  BY <1>1 DEF Ahead
<1>3. k # Len(stack)
  <2>1. decl[o] \in Seq(AnySlot) /\ Len(decl[o]) \in Nat
    BY DEF TypeInv
  <2> QED BY <1>1, <1>2, <2>1, Topmost DEF Top
<1>4. k \in 1..l /\ stack[k] \in Frame
  <2>1. Len(stack) \in Nat
    BY Topmost
  <2> QED BY <1>1, <1>2, <1>3, <2>1
<1>5. stack'[k].object = o /\ stack'[k].slot <= i
  <2>1. stack[k].slot \in Nat /\ (k = l => stack[k].slot # i)
    BY <1>2, <1>4 DEF Frame
  <2>2. stack'[k].object = o /\ stack'[k].slot = IF k = l THEN stack[k].slot + 1 ELSE stack[k].slot
    BY <1>1, <1>2, <1>4
  <2> QED BY <1>2, <2>1, <2>2
<1> QED BY <1>1, <1>4, <1>5 DEF Ahead

(* Slots that are passed over are dealt with.                              *)
LEMMA PassInv ==
  ASSUME Given, TypeInv, SlotsInv, CallersInv, AheadInv, Pass
  PROVE  (TypeInv /\ SlotsInv /\ CallersInv /\ AheadInv)'
<1>1. UNCHANGED <<original, decl, target, visited>>
  BY DEF Pass
<1>2. /\ Objects' = Objects /\ Frame' = Frame /\ \A r : Meant(r)' = Meant(r)
      /\ \A o : Followed(o)' = Followed(o)
  BY <1>1, Constant
<1>3. /\ stack' \in Seq(Frame) /\ stack' # <<>> /\ Len(stack') = Len(stack)
      /\ \A k \in 1..Len(stack) :
             /\ stack'[k].object = stack[k].object
             /\ stack'[k].slot = IF k = Len(stack) THEN stack[k].slot + 1 ELSE stack[k].slot
  BY PassStack
<1>4. TypeInv'
  <2>1. \A k \in DOMAIN stack' : stack'[k].object \in visited
    <3>1. DOMAIN stack' = 1..Len(stack) /\ DOMAIN stack = 1..Len(stack)
      BY <1>3 DEF TypeInv
    <3> QED BY <1>3, <3>1 DEF TypeInv
  <2> QED BY <1>1, <1>2, <1>3, <2>1 DEF TypeInv
<1>5. SlotsInv'
  BY <1>1, <1>2 DEF SlotsInv, Collected
<1>6. CallersInv'
  <2>1. ASSUME NEW k \in 1..Len(stack) - 1
        PROVE  /\ stack'[k].object = stack[k].object /\ stack'[k].slot = stack[k].slot
               /\ stack'[k + 1].object = stack[k + 1].object
    <3>1. k \in 1..Len(stack) /\ k # Len(stack) /\ k + 1 \in 1..Len(stack)
      BY Topmost
    <3> QED BY <1>3, <3>1
  <2> QED BY <1>1, <1>2, <1>3, <2>1 DEF CallersInv
<1>7. AheadInv'
  <2> SUFFICES ASSUME NEW o \in visited, NEW i \in DOMAIN original[o], ~ DealtWith(o, i)
               PROVE  Ahead(o, i)'
    BY <1>1, <1>2 DEF AheadInv, DealtWith
  <2>1. o \in Objects /\ i \in Nat
    BY SlotNumbers DEF TypeInv
  <2>2. ~ (o = Top.object /\ i = Top.slot)
    <3> SUFFICES ASSUME o = Top.object, i = Top.slot PROVE FALSE
      OBVIOUS
    <3>1. Slot = decl[o][i]
      BY DEF Slot, Slots
    <3>2. Slot.form = "nested" \/ Find(Slot.ref) = NoObject
      BY DEF Pass, Nested
    <3> QED BY <2>1, <3>1, <3>2, SlotMeant DEF DealtWith
  <2> QED BY <2>1, <2>2, AheadPass DEF AheadInv
<1> QED BY <1>4, <1>5, <1>6, <1>7

(* An object that is found is on the stack from its first slot on.         *)
LEMMA DescendInv ==
  ASSUME Given, TypeInv, SlotsInv, CallersInv, AheadInv, Descend
  PROVE  (TypeInv /\ SlotsInv /\ CallersInv /\ AheadInv)'
<1> DEFINE d == Find(Slot.ref)
<1>1. UNCHANGED <<original, decl, target>> /\ visited' = visited \cup {d}
  BY DEF Descend
<1>2. /\ Objects' = Objects /\ Frame' = Frame /\ \A r : Meant(r)' = Meant(r)
      /\ \A o : Followed(o)' = Followed(o)
  BY <1>1, Constant
<1>3. Top.slot \in DOMAIN original[Top.object]
  BY DescendStack
<1>4. Meant(original[Top.object][Top.slot].ref) = {d}
  BY DescendStack
<1>5. d \in Objects
  BY DescendStack
<1>7. /\ stack' \in Seq(Frame) /\ stack' # <<>> /\ Len(stack') = Len(stack) + 1
      /\ \A k \in 1..Len(stack) : stack'[k] = stack[k]
      /\ stack'[Len(stack) + 1].object = d /\ stack'[Len(stack) + 1].slot = 1
  BY DescendStack
<1> HIDE DEF d
<1>8. TypeInv'
  <2>1. \A k \in DOMAIN stack' : stack'[k].object \in visited'
    <3> SUFFICES ASSUME NEW k \in 1..Len(stack) + 1 PROVE stack'[k].object \in visited'
      BY <1>7, Topmost
    <3>1. CASE k = Len(stack) + 1
      BY <1>1, <1>7, <3>1
    <3>2. CASE k # Len(stack) + 1
      <4>1. k \in 1..Len(stack) /\ k \in DOMAIN stack
        BY <3>2, Topmost DEF TypeInv
      <4> QED BY <1>1, <1>7, <4>1 DEF TypeInv
    <3> QED BY <3>1, <3>2
  <2> QED BY <1>1, <1>2, <1>5, <1>7, <2>1 DEF TypeInv
<1>9. SlotsInv'
  BY <1>1, <1>2 DEF SlotsInv, Collected
<1>10. CallersInv'
  <2>1. ASSUME NEW k \in 1..Len(stack)
        PROVE  /\ stack[k].slot \in Followed(stack[k].object)
               /\ Meant(original[stack[k].object][stack[k].slot].ref) = {stack'[k + 1].object}
    <3>1. CASE k = Len(stack)
      <4>1. Top.slot \in Followed(Top.object)
        BY DescendStack DEF Followed
      <4> QED BY <1>4, <1>7, <3>1, <4>1 DEF Top
    <3>2. CASE k # Len(stack)
      <4>1. k \in 1..Len(stack) - 1 /\ k + 1 \in 1..Len(stack)
        BY <3>2, Topmost
      <4> QED BY <1>7, <4>1 DEF CallersInv
    <3> QED BY <3>1, <3>2
  <2>2. \A k \in 1..Len(stack') - 1 : k \in 1..Len(stack) /\ stack'[k] = stack[k]
    BY <1>7, Topmost
  <2> QED BY <1>1, <1>2, <2>1, <2>2 DEF CallersInv
<1>11. AheadInv'
  <2> SUFFICES ASSUME NEW o \in visited \cup {d}, NEW i \in DOMAIN original[o]
               PROVE  DealtWith(o, i)' \/ Ahead(o, i)'
    BY <1>1 DEF AheadInv
  <2>0. o \in Objects /\ i \in Nat /\ i >= 1
    BY <1>5, SlotNumbers DEF TypeInv
  <2>1. ASSUME o \in visited, DealtWith(o, i) PROVE DealtWith(o, i)'
    BY <1>1, <1>2, <2>1 DEF DealtWith
  <2>2. ASSUME o \in visited, Ahead(o, i) PROVE Ahead(o, i)'
    BY <2>0, <2>2, AheadDescend
  <2>3. ASSUME o = d PROVE Ahead(o, i)'
    BY <2>0, <2>3, AheadDescend DEF d
  <2> QED BY <2>1, <2>2, <2>3 DEF AheadInv
<1> QED BY <1>8, <1>9, <1>10, <1>11

(* The slot the caller waits at may be rewritten: what it meant has been   *)
(* collected.                                                              *)
LEMMA ReturnInv ==
  ASSUME Given, TypeInv, SlotsInv, CallersInv, AheadInv, Return
  PROVE  (TypeInv /\ SlotsInv /\ CallersInv /\ AheadInv)'
<1> DEFINE l == Len(stack) - 1
           c == stack[l].object
           j == stack[l].slot
<1>1. UNCHANGED <<original, target, visited>> /\ Top.slot > Len(decl[Top.object])
  BY ReturnStack
<1>2. /\ Objects' = Objects /\ Frame' = Frame /\ \A r : Meant(r)' = Meant(r)
      /\ \A o : Followed(o)' = Followed(o)
  BY <1>1, Constant
<1>3. /\ l \in Nat \ {0} /\ l < Len(stack) /\ DOMAIN stack = 1..Len(stack)
      /\ \A k \in 1..Len(stack) : stack[k] \in Frame
  BY ReturnStack
<1>5. /\ stack' \in Seq(Frame) /\ stack' # <<>> /\ Len(stack') = l /\ DOMAIN stack' = 1..l
      /\ \A k \in 1..l :
             /\ stack'[k].object = stack[k].object
             /\ stack'[k].slot = IF k = l THEN stack[k].slot + 1 ELSE stack[k].slot
  BY ReturnStack
<1>6. c \in Objects /\ j \in DOMAIN original[c] /\ Collected(c, j)
  BY ReturnSlots DEF Given
<1>7. /\ decl[c][j] \in AnySlot
      /\ decl' \in [Objects -> Seq(AnySlot)]
      /\ \A o \in Objects : DOMAIN decl'[o] = DOMAIN decl[o]
      /\ \A o \in Objects : \A i \in DOMAIN decl[o] :
             o # c \/ i # j => decl'[o][i] = decl[o][i]
      /\ decl'[c][j].form = decl[c][j].form
      /\ decl'[c][j].ref = IF decl[c][j].form = "value" THEN NewName(decl[c][j].ref)
                                                      ELSE decl[c][j].ref
  BY ReturnSlots DEF Given
<1> HIDE DEF l, c, j
<1>8. /\ decl' \in [Objects -> Seq(AnySlot)]
      /\ \A o \in Objects : DOMAIN decl'[o] = DOMAIN decl[o]
      /\ \A o \in Objects : \A i \in DOMAIN decl[o] :
             \/ decl'[o][i] = decl[o][i]
             \/ /\ o = c /\ i = j
                /\ decl'[o][i].form = decl[o][i].form
                /\ NameOf(decl'[o][i].ref) = NameOf(decl[o][i].ref)
  <2>1. NameOf(decl'[c][j].ref) = NameOf(decl[c][j].ref)
    <3>1. decl[c][j].ref \in Ref
      BY <1>7 DEF AnySlot
    <3> QED BY <1>7, <3>1, NewNames DEF TypeInv
  <2> QED BY <1>7, <2>1
<1>9. TypeInv'
  <2>1. \A k \in DOMAIN stack' : stack'[k].object \in visited
    BY <1>3, <1>5 DEF TypeInv
  <2> QED BY <1>1, <1>2, <1>5, <1>8, <2>1 DEF TypeInv
<1>10. SlotsInv'
  <2> SUFFICES ASSUME NEW o \in Objects, NEW i \in DOMAIN original[o]
               PROVE  /\ DOMAIN decl'[o] = DOMAIN original[o]
                      /\ decl'[o][i].form = original[o][i].form
                      /\ NameOf(decl'[o][i].ref) = NameOf(original[o][i].ref)
                      /\ decl'[o][i].ref # original[o][i].ref => Collected(o, i)'
    <3>1. \A o \in Objects : DOMAIN decl'[o] = DOMAIN original[o]
      BY <1>8 DEF SlotsInv
    <3> QED BY <1>1, <1>2, <3>1 DEF SlotsInv
  <2>1. i \in DOMAIN decl[o]
    BY DEF SlotsInv
  <2>2. Collected(o, i)' = Collected(o, i)
    BY <1>1, <1>2 DEF Collected
  <2>3. CASE decl'[o][i] = decl[o][i]
    BY <1>8, <2>2, <2>3 DEF SlotsInv
  <2>4. CASE o = c /\ i = j /\ decl'[o][i].form = decl[o][i].form
             /\ NameOf(decl'[o][i].ref) = NameOf(decl[o][i].ref)
    BY <1>6, <1>8, <2>2, <2>4 DEF SlotsInv
  <2> QED BY <1>8, <2>1, <2>3, <2>4
<1>11. CallersInv'
  <2>1. ASSUME NEW k \in 1..l - 1
        PROVE  /\ stack'[k].object = stack[k].object /\ stack'[k].slot = stack[k].slot
               /\ stack'[k + 1].object = stack[k + 1].object
               /\ k \in 1..Len(stack) - 1
    <3>1. k \in 1..Len(stack) - 1 /\ k \in 1..l /\ k # l /\ k + 1 \in 1..l
      BY <1>3
    <3> QED BY <1>5, <3>1
  <2> QED BY <1>1, <1>2, <1>5, <2>1 DEF CallersInv
<1>12. AheadInv'
  <2> SUFFICES ASSUME NEW o \in visited, NEW i \in DOMAIN original[o], ~ DealtWith(o, i)
               PROVE  Ahead(o, i)'
    BY <1>1, <1>2 DEF AheadInv, DealtWith
  <2>1. o \in Objects /\ i \in Nat /\ i <= Len(decl[o])
    BY SlotNumbers DEF TypeInv
  <2>2. ~ (o = c /\ i = j)
    BY <1>6 DEF Collected, DealtWith
  <2> QED BY <2>1, <2>2, AheadReturn DEF AheadInv, l, c, j
<1> QED BY <1>9, <1>10, <1>11, <1>12

LEMMA IdleInv ==
  ASSUME TypeInv, SlotsInv, CallersInv, AheadInv, UNCHANGED <<original, decl, target, stack, visited>>
  PROVE  (TypeInv /\ SlotsInv /\ CallersInv /\ AheadInv)'
<1>1. /\ Objects' = Objects /\ Frame' = Frame /\ \A r : Meant(r)' = Meant(r)
      /\ \A o : Followed(o)' = Followed(o)
  BY Constant
<1>2. TypeInv'
  BY <1>1 DEF TypeInv
<1>3. SlotsInv'
  BY <1>1 DEF SlotsInv, Collected
<1>4. CallersInv'
  BY <1>1 DEF CallersInv
<1>5. AheadInv'
  BY <1>1 DEF AheadInv, DealtWith, Ahead
<1> QED BY <1>2, <1>3, <1>4, <1>5

LEMMA StepInv == IInv /\ [Next]_vars => IInv'
<1> SUFFICES ASSUME IInv, [Next]_vars, (Vs \in Objects /\ Clear)'
             PROVE  (TypeInv /\ SlotsInv /\ CallersInv /\ AheadInv)'
  BY DEF IInv
<1>1. UNCHANGED original
  BY DEF Next, Pass, Descend, Return, Finish, Fail, vars
<1>2. Vs \in Objects /\ Clear
  BY <1>1, Constant
<1>3. TypeInv /\ SlotsInv /\ CallersInv /\ AheadInv /\ Given
  BY <1>2 DEF IInv, Given, TypeInv
<1>4. CASE Pass
  BY <1>3, <1>4, PassInv
<1>5. CASE Descend
  BY <1>3, <1>5, DescendInv
<1>6. CASE Return
  BY <1>3, <1>6, ReturnInv
<1>7. CASE Finish \/ Fail \/ UNCHANGED vars
  <2>1. UNCHANGED <<original, decl, target, stack, visited>>
    BY <1>7 DEF Finish, Fail, vars
  <2> QED BY <1>3, <2>1, IdleInv
<1> QED BY <1>4, <1>5, <1>6, <1>7 DEF Next

(* The invariant of the search holds throughout.                           *)
THEOREM SearchInvariant == Spec => []IInv
BY InitInv, StepInv, PTL DEF Spec
-----------------------------------------------------------------------------
(* A search goes on only where there is something to search.               *)
StatusInv ==
    /\ status \in {"searching", "done", "failed", "unchanged"}
    /\ Vs \notin Objects => status = "unchanged"

LEMMA StatusInvariant == Spec => []StatusInv
<1>1. Init => StatusInv
  BY DEF Init, StatusInv
<1>2. StatusInv /\ [Next]_vars => StatusInv'
  BY DEF StatusInv, Next, Pass, Descend, Return, Finish, Fail, AtSlot, vars, Objects
<1> QED BY <1>1, <1>2, PTL DEF Spec

LEMMA GraphConstant == UNCHANGED original => UNCHANGED Graph
BY DEF Graph, Followed, Meant, Objects

LEMMA GraphOf ==
  ASSUME NEW o \in Objects
  PROVE  Graph[o] = UNION {Meant(original[o][i].ref) : i \in Followed(o)}
BY DEF Graph

(* A step down collects an object that the one on top refers to, or one    *)
(* that is collected already.                                              *)
LEMMA DescendCollects ==
  ASSUME Given, TypeInv, SlotsInv, Descend
  PROVE  /\ Top.object \in visited /\ Find(Slot.ref) \in Graph[Top.object]
         /\ visited' = visited \cup {Find(Slot.ref)}
<1>1. Top.object \in visited /\ Top.object \in Objects
  BY Topmost
<1>2. /\ Meant(original[Top.object][Top.slot].ref) = {Find(Slot.ref)}
      /\ Top.slot \in Followed(Top.object)
  BY DescendStack DEF Followed
<1>3. Find(Slot.ref) \in Graph[Top.object]
  BY <1>1, <1>2, GraphOf
<1> QED BY <1>1, <1>3 DEF Descend

(* When the search of the virtual server itself is at its end, no slot of  *)
(* any object is still to be looked at, and every one is dealt with.       *)
LEMMA FinishAheadOfNothing ==
  ASSUME TypeInv, SlotsInv, Finish, NEW o \in visited, NEW i \in DOMAIN original[o]
  PROVE  ~ Ahead(o, i)
<1>1. i \in Nat /\ i <= Len(decl[o])
  BY SlotNumbers DEF TypeInv
<1>2. DOMAIN stack = {1} /\ stack[1] = Top /\ Top.slot > Len(decl[Top.object])
  <2>1. Len(stack) = 1 /\ DOMAIN stack = 1..Len(stack)
    BY DEF Finish, TypeInv
  <2> QED BY <2>1 DEF Finish, Top, Slots
<1>3. Top.object \in Objects /\ Top.slot \in Nat
  BY Topmost
<1>4. Len(decl[Top.object]) \in Nat
  BY <1>3 DEF TypeInv
<1> QED BY <1>1, <1>2, <1>3, <1>4 DEF Ahead

LEMMA FinishCollectedAll ==
  ASSUME Given, TypeInv, SlotsInv, AheadInv, Finish
  PROVE  \A o \in visited : Graph[o] \subseteq visited
<1> SUFFICES ASSUME NEW o \in visited, NEW i \in Followed(o)
             PROVE  Meant(original[o][i].ref) \subseteq visited
  BY GraphOf DEF TypeInv
<1>1. i \in DOMAIN original[o] /\ original[o][i].form # "nested"
  BY DEF Followed
<1> QED BY <1>1, FinishAheadOfNothing DEF AheadInv, DealtWith

LEMMA StepImplements ==
  IInv /\ StatusInv /\ [Next]_vars => [R!Next]_R!vars
<1> SUFFICES ASSUME IInv, StatusInv, [Next]_vars PROVE R!Next \/ UNCHANGED R!vars
  OBVIOUS
<1>1. UNCHANGED original
  BY DEF Next, Pass, Descend, Return, Finish, Fail, vars
<1>2. Graph' = Graph /\ Clear' = Clear /\ Objects' = Objects
  BY <1>1, GraphConstant, Constant
<1>3. CASE ~ Clear
  BY <1>2, <1>3 DEF R!vars
<1>4. CASE Clear /\ Vs \notin Objects
  <2>1. UNCHANGED vars
    BY <1>4 DEF StatusInv, Next, Pass, Descend, Return, Finish, Fail, AtSlot
  <2> QED BY <1>2, <2>1 DEF R!vars, vars
<1>5. CASE Clear /\ Vs \in Objects
  <2>1. TypeInv /\ SlotsInv /\ CallersInv /\ AheadInv /\ Given
    BY <1>5 DEF IInv, Given, TypeInv
  <2>2. CASE Pass \/ Return \/ UNCHANGED vars
    <3>1. UNCHANGED <<visited, status>>
      BY <2>2 DEF Pass, Return, vars
    <3> QED BY <1>2, <3>1 DEF R!vars
  <2>3. CASE Descend
    <3>1. PICK o \in visited : \E d \in Graph[o] : visited' = visited \cup {d}
      BY <2>1, <2>3, DescendCollects
    <3>2. PICK d \in Graph[o] : visited' = visited \cup {d}
      BY <3>1
    <3>3. status = "searching" /\ status' = status
      BY <2>3 DEF Descend, AtSlot
    <3>4. CASE d \in visited
      BY <1>2, <3>2, <3>3, <3>4 DEF R!vars
    <3>5. CASE d \notin visited
      BY <1>2, <1>5, <3>2, <3>3, <3>5 DEF R!Next, R!Collect
    <3> QED BY <3>4, <3>5
  <2>4. CASE Finish
    <3>1. \A o \in visited : Graph[o] \subseteq visited
      BY <2>1, <2>4, FinishCollectedAll
    <3> QED BY <1>2, <1>5, <2>4, <3>1 DEF Finish, R!Next, R!Finish
  <2>5. CASE Fail
    BY <1>2, <1>5, <2>5 DEF Fail, AtSlot, R!Next, R!GiveUp
  <2> QED BY <2>2, <2>3, <2>4, <2>5 DEF Next
<1> QED BY <1>3, <1>4, <1>5

(* The search collects what can be reached from the virtual server and     *)
(* nothing else, and it succeeds only when nothing is missing (23-111):    *)
(* it implements the specification of reachability.                        *)
THEOREM SearchImplementsReachability == Spec => FindsTheReachable
<1>1. Init => R!Init
  BY DEF Init, R!Init
<1> QED BY <1>1, SearchInvariant, StatusInvariant, StepImplements, PTL
        DEF Spec, FindsTheReachable, R!Spec
-----------------------------------------------------------------------------
(* Where references lead in the result.  A slot that was rewritten names   *)
(* the new place, and the object is entered there ...                      *)
RewrittenInv ==
    \A o \in Objects : \A i \in DOMAIN original[o] :
        decl[o][i].ref # original[o][i].ref =>
            /\ o \in visited
            /\ decl[o][i].ref = Append(target, NameOf(original[o][i].ref))
            /\ NameOf(original[o][i].ref) \in DOMAIN dependents

(* ... as it is for the slot that a caller waits at ...                    *)
EnteredInv ==
    \A k \in 1..Len(stack) - 1 :
        NameOf(original[stack[k].object][stack[k].slot].ref) \in DOMAIN dependents

(* ... and what has been passed leads into the result, if it led anywhere. *)
Exempt(o, i) ==
    LET was == original[o][i].ref
    IN  /\ IsPath(was)
        /\ \/ Meant(was) \subseteq {d \in Objects : AppOf(d) = App}
           \/ original[o][i].form = "element"

Moved(o, i) ==
    original[o][i].form # "nested" /\ Meant(original[o][i].ref) # {} =>
        LeadsInResult(decl[o][i].ref) \/ Exempt(o, i)

MovedInv ==
    \A o \in visited : \A i \in DOMAIN original[o] : Moved(o, i) \/ Ahead(o, i)

MoveInv == Vs \in Objects /\ Clear => RewrittenInv /\ EnteredInv /\ MovedInv

LEMMA InitMoves == Init => MoveInv
<1> SUFFICES ASSUME Init, Vs \in Objects, Clear PROVE RewrittenInv /\ EnteredInv /\ MovedInv
  BY DEF MoveInv
<1>1. RewrittenInv /\ EnteredInv
  BY DEF Init, RewrittenInv, EnteredInv
<1>2. MovedInv
  <2>1. visited = {Vs}
    BY DEF Init
  <2>2. TypeInv /\ SlotsInv /\ CallersInv /\ AheadInv
    BY InitInv DEF IInv
  <2> SUFFICES ASSUME NEW i \in DOMAIN original[Vs] PROVE Ahead(Vs, i)
    BY <2>1 DEF MovedInv
  <2>3. i \in Nat /\ i >= 1
    BY <2>2, SlotNumbers DEF TypeInv
  <2> QED BY <2>3 DEF Init, Ahead
<1> QED BY <1>1, <1>2

(* A slot that was rewritten leads into the result.                        *)
LEMMA RewrittenMoved ==
  ASSUME TypeInv, SlotsInv, RewrittenInv, NEW o \in Objects, NEW i \in DOMAIN original[o],
         decl[o][i].ref # original[o][i].ref
  PROVE  LeadsInResult(decl[o][i].ref)
<1> DEFINE n == NameOf(original[o][i].ref)
<1>1. decl[o][i].ref = Append(target, n) /\ n \in DOMAIN dependents
  BY DEF RewrittenInv
<1>2. original[o][i].ref \in Ref /\ n \in Segments
  <2>1. original[o] \in Seq(AnySlot) /\ i \in 1..Len(original[o])
    BY FilterAssumption DEF TypeInv, Objects
  <2>2. original[o][i] \in AnySlot
    BY <2>1, ElementOfSeq
  <2>3. original[o][i].ref \in Ref
    BY <2>2 DEF AnySlot
  <2> QED BY <2>3, NameOfRef
<1>3. target \in Application
  BY FilterAssumption DEF TypeInv
<1>4. NameOf(Append(target, n)) = n /\ AppOf(Append(target, n)) = target
  BY <1>2, <1>3, PathOf
<1> QED BY <1>1, <1>4 DEF LeadsInResult

LEMMA PassMoves ==
  ASSUME Given, TypeInv, SlotsInv, RewrittenInv, EnteredInv, MovedInv, Pass
  PROVE  (RewrittenInv /\ EnteredInv /\ MovedInv)'
<1>1. /\ UNCHANGED <<original, decl, target, dependents, visited>>
      /\ Len(stack') = Len(stack) /\ Len(stack) \in Nat \ {0}
      /\ \A k \in 1..Len(stack) :
             /\ stack'[k].object = stack[k].object
             /\ stack'[k].slot = IF k = Len(stack) THEN stack[k].slot + 1 ELSE stack[k].slot
  BY PassStack, Topmost
<1>2. /\ Objects' = Objects /\ \A r : Meant(r)' = Meant(r)
  BY <1>1, Constant
<1>3. RewrittenInv'
  BY <1>1, <1>2 DEF RewrittenInv
<1>4. EnteredInv'
  <2>1. ASSUME NEW k \in 1..Len(stack) - 1
        PROVE  stack'[k].object = stack[k].object /\ stack'[k].slot = stack[k].slot
    <3>1. k \in 1..Len(stack) /\ k # Len(stack)
      BY <1>1
    <3> QED BY <1>1, <3>1
  <2> QED BY <1>1, <2>1 DEF EnteredInv
<1>5. MovedInv'
  <2> SUFFICES ASSUME NEW o \in visited, NEW i \in DOMAIN original[o], ~ Moved(o, i)
               PROVE  Ahead(o, i)'
    BY <1>1, <1>2 DEF MovedInv, Moved, Exempt, LeadsInResult, App
  <2>1. o \in Objects /\ i \in Nat
    BY SlotNumbers DEF TypeInv
  <2>2. ~ (o = Top.object /\ i = Top.slot)
    <3> SUFFICES ASSUME o = Top.object, i = Top.slot PROVE FALSE
      OBVIOUS
    <3>1. Slot = decl[o][i]
      BY DEF Slot, Slots
    <3>2. original[o][i].form = "nested" \/ Find(decl[o][i].ref) = NoObject
      BY <2>1, <3>1, SlotMeant DEF Pass, Nested
    <3>3. CASE decl[o][i].ref # original[o][i].ref
      BY <2>1, <3>3, RewrittenMoved DEF Moved
    <3>4. CASE decl[o][i].ref = original[o][i].ref /\ Find(decl[o][i].ref) = NoObject
      <4>1. decl[o][i].ref \in Ref
        BY <2>1, SlotMeant DEF AnySlot
      <4> QED BY <3>4, <4>1, FindMeant DEF Moved, Given
    <3> QED BY <3>2, <3>3, <3>4 DEF Moved
  <2> QED BY <2>1, <2>2, AheadPass DEF MovedInv
<1> QED BY <1>3, <1>4, <1>5

LEMMA DescendMoves ==
  ASSUME Given, TypeInv, SlotsInv, RewrittenInv, EnteredInv, MovedInv, Descend
  PROVE  (RewrittenInv /\ EnteredInv /\ MovedInv)'
<1> DEFINE d == Find(Slot.ref)
           n == NameOf(Slot.ref)
<1>1. /\ UNCHANGED <<original, decl, target>> /\ visited' = visited \cup {d} /\ d \in Objects
      /\ Top.slot \in DOMAIN original[Top.object] /\ Slot = decl[Top.object][Top.slot]
      /\ Len(stack') = Len(stack) + 1 /\ Len(stack) \in Nat \ {0}
      /\ \A k \in 1..Len(stack) : stack'[k] = stack[k]
  BY DescendStack, Topmost
<1>2. /\ Objects' = Objects /\ \A r : Meant(r)' = Meant(r)
  BY <1>1, Constant
<1>3. DOMAIN dependents' = DOMAIN dependents \cup {n}
  BY DEF Descend, WithDependent
<1>4. NameOf(original[Top.object][Top.slot].ref) = n
  BY <1>1, Topmost DEF SlotsInv
<1> HIDE DEF d, n
<1>5. RewrittenInv'
  BY <1>1, <1>2, <1>3 DEF RewrittenInv
<1>6. EnteredInv'
  <2> SUFFICES ASSUME NEW k \in 1..Len(stack)
               PROVE  NameOf(original[stack[k].object][stack[k].slot].ref) \in DOMAIN dependents'
    BY <1>1 DEF EnteredInv
  <2>1. CASE k = Len(stack)
    BY <1>3, <1>4, <2>1 DEF Top
  <2>2. CASE k # Len(stack)
    <3>1. k \in 1..Len(stack) - 1
      BY <1>1, <2>2
    <3> QED BY <1>3, <3>1 DEF EnteredInv
  <2> QED BY <2>1, <2>2
<1>7. MovedInv'
  <2> SUFFICES ASSUME NEW o \in visited \cup {d}, NEW i \in DOMAIN original[o]
               PROVE  Moved(o, i)' \/ Ahead(o, i)'
    BY <1>1 DEF MovedInv
  <2>1. o \in Objects /\ i \in Nat /\ i >= 1
    BY <1>1, SlotNumbers DEF TypeInv
  <2>2. ASSUME o \in visited, Moved(o, i) PROVE Moved(o, i)'
    BY <1>1, <1>2, <1>3, <2>2 DEF Moved, Exempt, LeadsInResult, App
  <2>3. ASSUME o = d \/ Ahead(o, i) PROVE Ahead(o, i)'
    BY <2>1, <2>3, AheadDescend DEF d
  <2> QED BY <2>2, <2>3 DEF MovedInv
<1> QED BY <1>5, <1>6, <1>7

(* The slot that is written back leads into the result, unless it is       *)
(* exempt: it keeps a word, or the path of an object of the application.   *)
LEMMA WrittenBack ==
  ASSUME Given, TypeInv, SlotsInv, RewrittenInv, NEW c \in Objects, NEW j \in DOMAIN original[c],
         Collected(c, j), NameOf(original[c][j].ref) \in DOMAIN dependents,
         original[c][j].form # "nested",
         NEW new, new = IF decl[c][j].form = "value" THEN NewName(decl[c][j].ref) ELSE decl[c][j].ref
  PROVE  /\ new # original[c][j].ref => new = Append(target, NameOf(original[c][j].ref))
         /\ LeadsInResult(new) \/ Exempt(c, j)
<1> DEFINE r == decl[c][j].ref
           s == original[c][j].ref
<1>1. /\ decl[c][j] \in AnySlot /\ original[c][j] \in AnySlot
      /\ decl[c][j].form = original[c][j].form
      /\ Find(r) # NoObject => Meant(s) = {Find(r)}
  BY SlotMeant
<1>2. r \in Ref /\ s \in Ref /\ NameOf(r) = NameOf(s) /\ NameOf(s) \in Segments
  <2>1. r \in Ref /\ s \in Ref
    BY <1>1 DEF AnySlot
  <2> QED BY <2>1, NameOfRef DEF SlotsInv
<1>3. target \in Application
  BY FilterAssumption DEF TypeInv
<1>4. /\ NameOf(Append(target, NameOf(s))) = NameOf(s)
      /\ AppOf(Append(target, NameOf(s))) = target
  BY <1>2, <1>3, PathOf
<1>5. LeadsInResult(Append(target, NameOf(s)))
  BY <1>4 DEF LeadsInResult
<1>6. CASE new = Append(target, NameOf(s))
  BY <1>5, <1>6
<1>7. CASE new # Append(target, NameOf(s))
  <2>1. new = r
    BY <1>2, <1>7 DEF NewName
  <2>2. r = s
    BY <1>7, <2>1 DEF RewrittenInv
  <2>3. Find(s) \in Meant(s) /\ Meant(s) = {Find(s)}
    <3>1. original \in Declarations
      BY DEF Given
    <3> QED BY <1>1, <1>2, <2>2, <3>1, FindMeant DEF Collected
  <2>4. CASE ~ IsPath(s)
    BY <2>1, <2>2, <2>4 DEF LeadsInResult
  <2>5. CASE IsPath(s) /\ original[c][j].form = "element"
    BY <2>1, <2>2, <2>5 DEF Exempt
  <2>6. CASE IsPath(s) /\ original[c][j].form = "value"
    <3>1. AppOf(Find(s)) = App
      BY <1>1, <1>2, <1>7, <2>1, <2>2, <2>6 DEF NewName
    <3>2. Meant(s) \subseteq {d \in Objects : AppOf(d) = App}
      BY <2>3, <3>1 DEF Meant
    <3> QED BY <2>1, <2>2, <2>6, <3>2 DEF Exempt
  <2>7. original[c][j].form \in {"value", "element"}
    BY <1>1 DEF AnySlot
  <2> QED BY <2>1, <2>2, <2>4, <2>5, <2>6, <2>7
<1> QED BY <1>6, <1>7

LEMMA ReturnMoves ==
  ASSUME Given, TypeInv, SlotsInv, CallersInv, RewrittenInv, EnteredInv, MovedInv, Return
  PROVE  (RewrittenInv /\ EnteredInv /\ MovedInv)'
<1> DEFINE l == Len(stack) - 1
           c == stack[l].object
           j == stack[l].slot
<1>1. /\ UNCHANGED <<original, target, dependents, visited>>
      /\ l \in Nat \ {0} /\ l < Len(stack) /\ Len(stack') = l
      /\ \A k \in 1..l :
             /\ stack'[k].object = stack[k].object
             /\ stack'[k].slot = IF k = l THEN stack[k].slot + 1 ELSE stack[k].slot
  BY ReturnStack
<1>2. /\ Objects' = Objects /\ \A r : Meant(r)' = Meant(r)
  BY <1>1, Constant
<1>3. /\ c \in Objects /\ c \in visited /\ j \in Followed(c) /\ j \in DOMAIN original[c] /\ Collected(c, j)
      /\ \A o \in Objects : \A i \in DOMAIN decl[o] :
             o # c \/ i # j => decl'[o][i] = decl[o][i]
      /\ decl'[c][j].ref = IF decl[c][j].form = "value" THEN NewName(decl[c][j].ref)
                                                      ELSE decl[c][j].ref
  BY ReturnSlots DEF Given
<1>4. NameOf(original[c][j].ref) \in DOMAIN dependents /\ original[c][j].form # "nested"
  BY <1>1, <1>3 DEF EnteredInv, Followed
<1>5. /\ decl'[c][j].ref # original[c][j].ref => decl'[c][j].ref = Append(target, NameOf(original[c][j].ref))
      /\ LeadsInResult(decl'[c][j].ref) \/ Exempt(c, j)
  BY <1>3, <1>4, WrittenBack
<1> HIDE DEF l, c, j
<1>6. \A o \in Objects : \A i \in DOMAIN original[o] :
         o # c \/ i # j => decl'[o][i] = decl[o][i]
  BY <1>3 DEF SlotsInv
<1>7. RewrittenInv'
  <2> SUFFICES ASSUME NEW o \in Objects, NEW i \in DOMAIN original[o],
                      decl'[o][i].ref # original[o][i].ref
               PROVE  /\ o \in visited
                      /\ decl'[o][i].ref = Append(target, NameOf(original[o][i].ref))
                      /\ NameOf(original[o][i].ref) \in DOMAIN dependents
    BY <1>1, <1>2 DEF RewrittenInv
  <2>1. CASE o = c /\ i = j
    BY <1>3, <1>4, <1>5, <2>1
  <2>2. CASE o # c \/ i # j
    BY <1>6, <2>2 DEF RewrittenInv
  <2> QED BY <2>1, <2>2
<1>8. EnteredInv'
  <2>1. ASSUME NEW k \in 1..l - 1
        PROVE  NameOf(original[stack'[k].object][stack'[k].slot].ref) \in DOMAIN dependents
    <3>1. k \in 1..Len(stack) - 1 /\ k \in 1..l /\ k # l
      BY <1>1 DEF l
    <3> QED BY <1>1, <3>1 DEF EnteredInv
  <2> QED BY <1>1, <2>1 DEF EnteredInv
<1>9. MovedInv'
  <2> SUFFICES ASSUME NEW o \in visited, NEW i \in DOMAIN original[o]
               PROVE  Moved(o, i)' \/ Ahead(o, i)'
    BY <1>1 DEF MovedInv
  <2>1. o \in Objects /\ i \in Nat /\ i <= Len(decl[o])
    BY SlotNumbers DEF TypeInv
  <2>2. CASE o = c /\ i = j
    BY <1>1, <1>2, <1>5, <2>2 DEF Moved, Exempt, LeadsInResult, App
  <2>3. CASE (o # c \/ i # j) /\ Moved(o, i)
    BY <1>1, <1>2, <1>6, <2>1, <2>3 DEF Moved, Exempt, LeadsInResult, App
  <2>4. CASE (o # c \/ i # j) /\ Ahead(o, i)
    BY <2>1, <2>4, AheadReturn DEF l, c, j
  <2> QED BY <2>2, <2>3, <2>4 DEF MovedInv
<1> QED BY <1>7, <1>8, <1>9

LEMMA IdleMoves ==
  ASSUME RewrittenInv, EnteredInv, MovedInv,
         UNCHANGED <<original, decl, target, stack, dependents, visited>>
  PROVE  (RewrittenInv /\ EnteredInv /\ MovedInv)'
<1>1. Objects' = Objects /\ \A r : Meant(r)' = Meant(r)
  BY Constant
<1>2. RewrittenInv' /\ EnteredInv'
  BY <1>1 DEF RewrittenInv, EnteredInv
<1>3. MovedInv'
  BY <1>1 DEF MovedInv, Moved, Exempt, LeadsInResult, Ahead, App
<1> QED BY <1>2, <1>3

LEMMA StepMoves == IInv /\ MoveInv /\ [Next]_vars => MoveInv'
<1> SUFFICES ASSUME IInv, MoveInv, [Next]_vars, (Vs \in Objects /\ Clear)'
             PROVE  (RewrittenInv /\ EnteredInv /\ MovedInv)'
  BY DEF MoveInv
<1>1. UNCHANGED original
  BY DEF Next, Pass, Descend, Return, Finish, Fail, vars
<1>2. Vs \in Objects /\ Clear
  BY <1>1, Constant
<1>3. /\ TypeInv /\ SlotsInv /\ CallersInv /\ Given
      /\ RewrittenInv /\ EnteredInv /\ MovedInv
  BY <1>2 DEF IInv, MoveInv, Given, TypeInv
<1>4. CASE Pass
  BY <1>3, <1>4, PassMoves
<1>5. CASE Descend
  BY <1>3, <1>5, DescendMoves
<1>6. CASE Return
  BY <1>3, <1>6, ReturnMoves
<1>7. CASE Finish \/ Fail \/ UNCHANGED vars
  <2>1. UNCHANGED <<original, decl, target, stack, dependents, visited>>
    BY <1>7 DEF Finish, Fail, vars
  <2> QED BY <1>3, <2>1, IdleMoves
<1> QED BY <1>4, <1>5, <1>6, <1>7 DEF Next

LEMMA FinishMoved ==
  ASSUME TypeInv, SlotsInv, MovedInv, Finish, Clear
  PROVE  ReferencesMoveAlong'
<1>1. UNCHANGED <<original, decl, target, stack, dependents, visited>>
  BY DEF Finish
<1>2. /\ Objects' = Objects /\ \A r : Meant(r)' = Meant(r)
      /\ \A o : Followed(o)' = Followed(o)
  BY <1>1, Constant
<1> SUFFICES ASSUME NEW o \in visited, NEW i \in Followed(o), Meant(original[o][i].ref) # {}
             PROVE  LeadsInResult(decl[o][i].ref) \/ Exempt(o, i)
  BY <1>1, <1>2 DEF ReferencesMoveAlong, LeadsInResult, Exempt, App
<1>3. i \in DOMAIN original[o] /\ original[o][i].form # "nested"
  BY DEF Followed
<1>4. ~ Ahead(o, i)
  BY <1>3, FinishAheadOfNothing
<1> QED BY <1>3, <1>4 DEF MovedInv, Moved

LEMMA StepMoved == IInv /\ MoveInv /\ StatusInv /\ ReferencesMoveAlong /\ [Next]_vars => ReferencesMoveAlong'
<1> SUFFICES ASSUME IInv, MoveInv, StatusInv, ReferencesMoveAlong, [Next]_vars,
                    status' = "done", Clear'
             PROVE  ReferencesMoveAlong'
  BY DEF ReferencesMoveAlong
<1>1. UNCHANGED original
  BY DEF Next, Pass, Descend, Return, Finish, Fail, vars
<1>2. Clear
  BY <1>1, Constant
<1>3. CASE Finish
  <2>1. Vs \in Objects
    BY <1>3 DEF StatusInv, Finish
  <2> QED BY <1>2, <1>3, <2>1, FinishMoved DEF IInv, MoveInv
<1>4. CASE ~ Finish
  <2>1. UNCHANGED vars
    BY <1>4 DEF Next, Pass, Descend, Return, Fail, AtSlot
  <2>2. /\ Objects' = Objects /\ \A r : Meant(r)' = Meant(r)
        /\ \A o : Followed(o)' = Followed(o)
    BY <1>1, Constant
  <2> QED BY <1>2, <2>1, <2>2 DEF ReferencesMoveAlong, LeadsInResult, App, vars
<1> QED BY <1>3, <1>4

(* In the result every reference leads to the object it led to before, but *)
(* for the paths that are not rewritten (44-59, 91).                       *)
THEOREM ReferencesFollowTheirObjects == Spec => []ReferencesMoveAlong
<1>1. Init => ReferencesMoveAlong
  BY DEF Init, ReferencesMoveAlong
<1> QED BY <1>1, InitMoves, StepMoves, StepMoved, SearchInvariant, StatusInvariant, PTL DEF Spec
-----------------------------------------------------------------------------
(* Why a search gives up.  Where no object is needed twice and none needs  *)
(* itself, the search walks a tree, and never comes back to a slot that it *)
(* has rewritten: every visited object but the first has a reference to it *)
(* from another one ...                                                    *)
ReachedInv ==
    /\ stack[1].object = Vs
    /\ \A o \in visited \ {Vs} : Referrers(o) # {}

(* ... which nobody is still to come to ...                                *)
OnceInv ==
    \A o \in visited : \A r \in visited : \A i \in Followed(r) :
        o \in Meant(original[r][i].ref) =>
            \A k \in 1..Len(stack) :
                stack[k].object = r /\ stack[k].slot <= i => k < Len(stack) /\ stack[k].slot = i

(* ... and what has been rewritten is passed.                              *)
PastInv ==
    \A o \in Objects : \A i \in DOMAIN original[o] :
        decl[o][i].ref # original[o][i].ref => ~ Ahead(o, i)

OneReferrer == \A o \in visited : \A a, b \in Referrers(o) : a = b

TreeInv ==
    Vs \in Objects /\ Clear =>
        ReachedInv /\ (~ Cyclic /\ OneReferrer => OnceInv /\ PastInv)

CyclicIn(s) == \E c \in (SUBSET s) \ {{}} : \A o \in c : Graph[o] \cap c # {}

LEMMA CyclicVisited == Cyclic <=> CyclicIn(visited)
BY DEF Cyclic, CyclicIn

(* A path through s whose end refers back to its start.                    *)
LEMMA PathBackIsCyclic ==
  ASSUME NEW s, NEW a \in Nat, NEW b \in Nat, a <= b, NEW p,
         \A x \in a..b : p[x] \in s,
         \A x \in a..b : x < b => p[x + 1] \in Graph[p[x]],
         p[a] \in Graph[p[b]]
  PROVE  CyclicIn(s)
<1> DEFINE c == {p[x] : x \in a..b}
<1>1. c \in (SUBSET s) \ {{}}
  <2>1. a \in a..b
    OBVIOUS
  <2>2. p[a] \in c
    BY <2>1
  <2>3. c \subseteq s
    OBVIOUS
  <2> HIDE DEF c
  <2> QED BY <2>2, <2>3
<1>2. ASSUME NEW o \in c PROVE Graph[o] \cap c # {}
  <2>1. PICK x \in a..b : o = p[x]
    OBVIOUS
  <2>2. CASE x < b
    <3>1. x + 1 \in a..b
      BY <2>2
    <3>2. p[x + 1] \in c
      BY <3>1
    <3> QED BY <2>1, <2>2, <3>2
  <2>3. CASE x = b
    <3>1. p[a] \in c
      OBVIOUS
    <3> QED BY <2>1, <2>3, <3>1
  <2> QED BY <2>2, <2>3
<1> HIDE DEF c
<1> QED BY <1>1, <1>2 DEF CyclicIn

(* Every call is for an object that the one below it refers to.            *)
LEMMA CallsFollowGraph ==
  ASSUME TypeInv, CallersInv, NEW k \in 1..Len(stack), k < Len(stack)
  PROVE  stack[k + 1].object \in Graph[stack[k].object]
<1>1. k \in 1..Len(stack) - 1 /\ stack[k].object \in Objects
  BY Topmost DEF Frame
<1>2. /\ stack[k].slot \in Followed(stack[k].object)
      /\ stack[k + 1].object \in Meant(original[stack[k].object][stack[k].slot].ref)
  BY <1>1 DEF CallersInv
<1> QED BY <1>1, <1>2, GraphOf

LEMMA RepeatIsCyclic ==
  ASSUME TypeInv, CallersInv, NEW k \in 1..Len(stack), NEW m \in 1..Len(stack), k < m,
         stack[k].object = stack[m].object
  PROVE  Cyclic
<1> DEFINE p == [x \in 1..Len(stack) |-> stack[x].object]
<1>1. Len(stack) \in Nat /\ k \in Nat /\ m - 1 \in Nat /\ k <= m - 1
  BY Topmost
<1>2. \A x \in k..m - 1 : x \in 1..Len(stack) /\ x + 1 \in 1..Len(stack) /\ x < Len(stack)
  BY <1>1
<1>3. \A x \in k..m - 1 : p[x] \in visited
  BY <1>2 DEF TypeInv
<1>4. \A x \in k..m - 1 : p[x + 1] \in Graph[p[x]]
  BY <1>2, CallsFollowGraph
<1>5. p[k] \in Graph[p[m - 1]]
  <2>1. m - 1 \in k..m - 1 /\ (m - 1) + 1 = m
    BY <1>1
  <2>2. p[m] \in Graph[p[m - 1]]
    BY <1>4, <2>1
  <2> QED BY <2>2
<1> HIDE DEF p
<1>6. CyclicIn(visited)
  BY <1>1, <1>3, <1>4, <1>5, PathBackIsCyclic
<1> QED BY <1>6, CyclicVisited

(* The object of a step down that refers to itself or to the first object  *)
(* closes a circle.                                                        *)
LEMMA DescendBackIsCyclic ==
  ASSUME Given, TypeInv, SlotsInv, CallersInv, Descend, NEW d, d = Find(Slot.ref),
         d \in Graph[d] \/ stack[1].object \in Graph[d]
  PROVE  CyclicIn(visited \cup {d})
<1>1. CASE d \in Graph[d]
  <2> DEFINE c == {d}
  <2>1. c \in (SUBSET (visited \cup {d})) \ {{}}
    OBVIOUS
  <2>2. \A o \in c : Graph[o] \cap c # {}
    <3>1. d \in Graph[d] \cap c
      BY <1>1
    <3>2. \A o \in c : o = d
      OBVIOUS
    <3> QED BY <3>1, <3>2
  <2> HIDE DEF c
  <2> QED BY <2>1, <2>2 DEF CyclicIn
<1>2. CASE stack[1].object \in Graph[d]
  <2> DEFINE n == Len(stack)
             p == [x \in 1..n + 1 |-> IF x = n + 1 THEN d ELSE stack[x].object]
  <2>1. n \in Nat \ {0} /\ DOMAIN stack = 1..n
    BY Topmost DEF TypeInv
  <2>2. \A x \in 1..n + 1 : p[x] \in visited \cup {d}
    BY <2>1 DEF TypeInv
  <2>3. ASSUME NEW x \in 1..n + 1, x < n + 1 PROVE p[x + 1] \in Graph[p[x]]
    <3>1. x \in 1..n /\ p[x] = stack[x].object
      BY <2>1, <2>3
    <3>2. CASE x = n
      <4>1. p[x] = Top.object
        BY <3>1, <3>2 DEF Top
      <4>2. p[x + 1] = d
        BY <2>1, <3>2
      <4> QED BY <4>1, <4>2, DescendCollects
    <3>3. CASE x # n
      <4>1. x < n /\ p[x + 1] = stack[x + 1].object
        BY <2>1, <3>1, <3>3
      <4> QED BY <3>1, <4>1, CallsFollowGraph
    <3> QED BY <3>2, <3>3
  <2>4. p[1] \in Graph[p[n + 1]]
    BY <1>2, <2>1
  <2>5. 1 \in Nat /\ n + 1 \in Nat /\ 1 <= n + 1
    BY <2>1
  <2> HIDE DEF n, p
  <2> QED BY <2>2, <2>3, <2>4, <2>5, PathBackIsCyclic
<1> QED BY <1>1, <1>2

(* A call stack higher than there are objects holds one of them twice.     *)
LEMMA HighStackIsCyclic ==
  ASSUME TypeInv, CallersInv, Len(stack) > Cardinality(Objects)
  PROVE  Cyclic
<1> DEFINE p == [x \in 1..Len(stack) |-> stack[x].object]
<1>1. IsFiniteSet(Objects)
  BY FilterAssumption DEF TypeInv, Objects
<1>2. /\ Len(stack) \in Nat \ {0} /\ IsFiniteSet(1..Len(stack))
      /\ Cardinality(1..Len(stack)) = Len(stack)
  <2> DEFINE n == Len(stack)
  <2>1. n \in Nat \ {0}
    BY Topmost
  <2> HIDE DEF n
  <2>2. /\ IsFiniteSet(1..n)
        /\ Cardinality(1..n) = IF 1 > n THEN 0 ELSE n - 1 + 1
    BY <2>1, FS_Interval
  <2>3. Cardinality(1..n) = n
    BY <2>1, <2>2
  <2> QED BY <2>1, <2>2, <2>3 DEF n
<1>3. p \in [1..Len(stack) -> Objects]
  BY Topmost DEF Frame
<1>4. Cardinality(Objects) < Cardinality(1..Len(stack))
  <2>1. Cardinality(Objects) \in Nat
    BY <1>1, FS_CardinalityType
  <2> QED BY <1>2, <2>1
<1>5. PICK x, y \in 1..Len(stack) : x # y /\ p[x] = p[y]
  <2> HIDE DEF p
  <2> QED BY <1>1, <1>2, <1>3, <1>4, FS_PigeonHole
<1>6. stack[x].object = stack[y].object /\ (x < y \/ y < x)
  BY <1>2, <1>5
<1> QED BY <1>6, RepeatIsCyclic

(* What is found later only adds to circles and references.                *)
LEMMA TreeShrinks ==
  ASSUME UNCHANGED original, visited \subseteq visited'
  PROVE  /\ ~ Cyclic' => ~ Cyclic
         /\ OneReferrer' => OneReferrer
         /\ \A o : Referrers(o) \subseteq Referrers(o)'
<1>1. Graph' = Graph /\ (\A r : Meant(r)' = Meant(r)) /\ (\A o : Followed(o)' = Followed(o))
  BY Constant, GraphConstant
<1>2. ~ Cyclic' => ~ Cyclic
  BY <1>1 DEF Cyclic
<1>3. \A o : Referrers(o) \subseteq Referrers(o)'
  BY <1>1 DEF Referrers
<1>4. OneReferrer' => OneReferrer
  BY <1>3 DEF OneReferrer
<1> QED BY <1>2, <1>3, <1>4

LEMMA ReferrerIs ==
  ASSUME NEW o, NEW r \in visited, NEW i \in Followed(r), o \in Meant(original[r][i].ref)
  PROVE  <<r, i>> \in Referrers(o)
BY DEF Referrers

LEMMA InitTree == Init => TreeInv
<1> SUFFICES ASSUME Init, Vs \in Objects, Clear
             PROVE  ReachedInv /\ (~ Cyclic /\ OneReferrer => OnceInv /\ PastInv)
  BY DEF TreeInv
<1>1. visited = {Vs} /\ stack = <<[object |-> Vs, slot |-> 1]>> /\ decl = original
  BY DEF Init
<1>2. ReachedInv /\ PastInv
  BY <1>1 DEF ReachedInv, PastInv
<1>3. ASSUME ~ Cyclic PROVE OnceInv
  <2> SUFFICES ASSUME NEW i \in Followed(Vs), Vs \in Meant(original[Vs][i].ref) PROVE FALSE
    BY <1>1 DEF OnceInv
  <2>1. Vs \in Graph[Vs]
    BY GraphOf
  <2>2. {Vs} \in (SUBSET visited) \ {{}} /\ \A o \in {Vs} : Graph[o] \cap {Vs} # {}
    BY <1>1, <2>1
  <2> QED BY <1>3, <2>2 DEF Cyclic
<1> QED BY <1>2, <1>3

LEMMA PassTree ==
  ASSUME TypeInv, SlotsInv, ReachedInv, ~ Cyclic /\ OneReferrer => OnceInv /\ PastInv, Pass
  PROVE  (ReachedInv /\ (~ Cyclic /\ OneReferrer => OnceInv /\ PastInv))'
<1>1. /\ UNCHANGED <<original, decl, visited>> /\ Len(stack') = Len(stack) /\ Len(stack) \in Nat \ {0}
      /\ stack' \in Seq(Frame)
      /\ \A k \in 1..Len(stack) :
             /\ stack[k].slot \in Nat
             /\ stack'[k].object = stack[k].object
             /\ stack'[k].slot = IF k = Len(stack) THEN stack[k].slot + 1 ELSE stack[k].slot
  BY PassStack, Topmost DEF Frame
<1>2. /\ Objects' = Objects /\ (\A r : Meant(r)' = Meant(r)) /\ (\A o : Followed(o)' = Followed(o))
  BY <1>1, Constant
<1>3. /\ ~ Cyclic' => ~ Cyclic
      /\ OneReferrer' => OneReferrer
      /\ \A o : Referrers(o) \subseteq Referrers(o)'
  BY <1>1, TreeShrinks
<1>4. ReachedInv'
  <2>1. 1 \in 1..Len(stack)
    BY <1>1
  <2> QED BY <1>1, <1>3, <2>1 DEF ReachedInv
<1>5. ASSUME OnceInv PROVE OnceInv'
  <2> SUFFICES ASSUME NEW o \in visited, NEW r \in visited, NEW i \in Followed(r),
                      o \in Meant(original[r][i].ref), NEW k \in 1..Len(stack),
                      stack'[k].object = r, stack'[k].slot <= i
               PROVE  k < Len(stack) /\ stack'[k].slot = i
    BY <1>1, <1>2 DEF OnceInv
  <2>1. i \in Nat
    BY SlotNumbers DEF Followed, TypeInv
  <2>2. stack[k].object = r /\ stack[k].slot <= i
    BY <1>1, <2>1
  <2>3. k < Len(stack) /\ stack[k].slot = i
    BY <1>5, <2>2 DEF OnceInv
  <2> QED BY <1>1, <2>3
<1>6. ASSUME PastInv PROVE PastInv'
  <2>1. ASSUME NEW o \in Objects, NEW i \in DOMAIN original[o], Ahead(o, i)' PROVE Ahead(o, i)
    <3>1. i \in Nat
      BY SlotNumbers DEF TypeInv
    <3>2. PICK k \in 1..Len(stack) : stack'[k].object = o /\ stack'[k].slot <= i
      BY <1>1, <2>1 DEF Ahead
    <3>3. stack[k].object = o /\ stack[k].slot <= i
      BY <1>1, <3>1, <3>2
    <3> QED BY <3>3 DEF Ahead, TypeInv
  <2> QED BY <1>1, <1>2, <1>6, <2>1 DEF PastInv
<1> QED BY <1>3, <1>4, <1>5, <1>6

(* What the next state's OnceInv asks, read in this one.                   *)
LEMMA OnceNext ==
  ASSUME UNCHANGED original,
         \A o \in visited' : \A r \in visited' : \A i \in Followed(r) :
             o \in Meant(original[r][i].ref) =>
                 \A k \in 1..Len(stack') :
                     stack'[k].object = r /\ stack'[k].slot <= i =>
                         k < Len(stack') /\ stack'[k].slot = i
  PROVE  OnceInv'
<1>1. SUFFICES ASSUME NEW o \in visited', NEW r \in visited', NEW i \in Followed(r)',
                      o \in Meant(original[r][i].ref)', NEW k \in 1..Len(stack'),
                      stack'[k].object = r, stack'[k].slot <= i
               PROVE  k < Len(stack') /\ stack'[k].slot = i
  BY DEF OnceInv
<1>2. i \in Followed(r) /\ original' = original
  BY <1>1, Constant, Zenon
<1>3. Meant(original[r][i].ref)' = Meant(original[r][i].ref)
  BY <1>2 DEF Meant, Objects
<1>4. o \in Meant(original[r][i].ref)
  BY <1>1, <1>3, Zenon
<1>5. \A m \in 1..Len(stack') : stack'[m].object = r /\ stack'[m].slot <= i =>
                                    m < Len(stack') /\ stack'[m].slot = i
  BY <1>2, <1>4
<1> QED BY <1>1, <1>5, Zenon

(* A step down finds an object that has not been visited.                  *)
LEMMA DescendTree ==
  ASSUME Given, TypeInv, SlotsInv, CallersInv, RewrittenInv,
         ReachedInv, ~ Cyclic /\ OneReferrer => OnceInv /\ PastInv, Descend
  PROVE  (ReachedInv /\ (~ Cyclic /\ OneReferrer => OnceInv /\ PastInv))'
<1> DEFINE d == Find(Slot.ref)
           t == Top.object
           q == Top.slot
<1>1. /\ UNCHANGED <<original, decl>> /\ visited' = visited \cup {d}
      /\ q \in DOMAIN original[t] /\ original[t][q].form # "nested"
      /\ Meant(original[t][q].ref) = {d} /\ d \in Objects
      /\ stack' \in Seq(Frame) /\ Len(stack') = Len(stack) + 1
      /\ \A k \in 1..Len(stack) : stack'[k] = stack[k]
      /\ stack'[Len(stack) + 1].object = d
  BY DescendStack
<1>2. /\ Objects' = Objects /\ (\A r : Meant(r)' = Meant(r)) /\ (\A o : Followed(o)' = Followed(o))
      /\ Graph' = Graph
  BY <1>1, Constant, GraphConstant
<1>3. /\ ~ Cyclic' => ~ Cyclic
      /\ OneReferrer' => OneReferrer
      /\ \A o : Referrers(o) \subseteq Referrers(o)'
  BY <1>1, TreeShrinks
<1>4. Len(stack) \in Nat \ {0} /\ t \in visited /\ q \in Followed(t) /\ DOMAIN stack = 1..Len(stack)
  BY <1>1, Topmost DEF Followed, TypeInv
<1>5. <<t, q>> \in Referrers(d)
  BY <1>1, <1>4, ReferrerIs
<1>6. stack'[1] = stack[1] /\ stack[1].object = Vs
  BY <1>1, <1>4 DEF ReachedInv
<1>7. ReachedInv'
  <2>1. ASSUME NEW o \in visited' \ {Vs} PROVE Referrers(o)' # {}
    <3>1. CASE o = d
      BY <1>3, <1>5, <3>1
    <3>2. CASE o # d
      BY <1>1, <1>3, <3>2 DEF ReachedInv
    <3> QED BY <3>1, <3>2
  <2> QED BY <1>6, <2>1 DEF ReachedInv
<1>8. ASSUME Cyclic' \/ ~ OneReferrer' PROVE (~ Cyclic /\ OneReferrer => OnceInv /\ PastInv)'
  BY <1>8
<1>9. ASSUME ~ Cyclic', OneReferrer' PROVE (OnceInv /\ PastInv)'
  <2>1. ~ Cyclic /\ OnceInv /\ PastInv
    BY <1>3, <1>9
  <2>2. d \notin visited
    <3> SUFFICES ASSUME d \in visited PROVE FALSE
      OBVIOUS
    <3>1. Len(stack) \in 1..Len(stack) /\ stack[Len(stack)].object = t /\ stack[Len(stack)].slot = q
      BY <1>4 DEF Top
    <3>2. q \in Nat
      BY Topmost
    <3>3. d \in Meant(original[t][q].ref) /\ q <= q
      BY <1>1, <3>2
    <3>4. Len(stack) < Len(stack)
      BY <1>4, <2>1, <3>1, <3>3 DEF OnceInv
    <3> QED BY <1>4, <3>4
  <2>3. ~ CyclicIn(visited \cup {d})
    BY <1>1, <1>2, <1>9 DEF Cyclic, CyclicIn
  <2>4. d \notin Graph[d] /\ Vs \notin Graph[d]
    BY <1>6, <2>3, DescendBackIsCyclic
  <2> HIDE DEF d
  <2>5. OnceInv'
    <3> SUFFICES ASSUME NEW o \in visited', NEW r \in visited', NEW i \in Followed(r),
                        o \in Meant(original[r][i].ref), NEW k \in 1..Len(stack'),
                        stack'[k].object = r, stack'[k].slot <= i
                 PROVE  k < Len(stack') /\ stack'[k].slot = i
      BY <1>1, OnceNext
    <3>0. k \in 1..Len(stack) + 1 /\ Len(stack') = Len(stack) + 1
      BY <1>1
    <3>1. CASE k = Len(stack) + 1
      <4>1. r = d
        BY <1>1, <3>1
      <4>2. o \in Graph[d]
        BY <1>1, <4>1, GraphOf
      <4>3. o \in visited \ {Vs}
        BY <1>1, <2>4, <4>2
      <4>4. PICK a \in visited : \E b \in Followed(a) : <<a, b>> \in Referrers(o)
        <5>1. Referrers(o) # {}
          BY <4>3 DEF ReachedInv
        <5> QED BY <5>1 DEF Referrers
      <4>5. PICK b \in Followed(a) : <<a, b>> \in Referrers(o)
        BY <4>4
      <4>6. <<d, i>> \in Referrers(o)' /\ <<a, b>> \in Referrers(o)'
        BY <1>1, <1>2, <1>3, <4>1, <4>5 DEF Referrers
      <4>7. <<d, i>> = <<a, b>>
        BY <1>9, <4>6 DEF OneReferrer
      <4> QED BY <2>2, <4>4, <4>7
    <3>2. CASE k # Len(stack) + 1
      <4>1. k \in 1..Len(stack) /\ stack'[k] = stack[k] /\ k < Len(stack) + 1
        BY <1>1, <1>4, <3>0, <3>2
      <4>2. r \in visited
        BY <1>4, <4>1 DEF TypeInv
      <4>3. CASE o \in visited
        BY <2>1, <4>1, <4>2, <4>3, <3>0 DEF OnceInv
      <4>4. CASE o = d
        <5>1. <<r, i>> \in Referrers(o) /\ <<t, q>> \in Referrers(o)
          <6>1. <<r, i>> \in Referrers(o)
            BY <4>2, ReferrerIs
          <6> QED BY <1>5, <4>4, <6>1
        <5>2. r = t /\ i = q
          <6>1. \A a, b \in Referrers(o)' : a = b
            BY <1>9 DEF OneReferrer
          <6>2. <<r, i>> = <<t, q>>
            BY <1>3, <5>1, <6>1
          <6> QED BY <6>2
        <5>3. k = Len(stack)
          <6> SUFFICES ASSUME k # Len(stack) PROVE FALSE
            OBVIOUS
          <6>1. k < Len(stack) /\ Len(stack) \in 1..Len(stack)
            <7>1. Len(stack) \in Nat \ {0} /\ k \in 1..Len(stack) /\ k # Len(stack)
              BY <1>4, <4>1
            <7> QED BY <7>1
          <6>2. stack[k].object = stack[Len(stack)].object
            BY <4>1, <5>2 DEF Top
          <6> QED BY <2>1, <4>1, <6>1, <6>2, RepeatIsCyclic
        <5> QED BY <3>0, <4>1, <5>2, <5>3 DEF Top
      <4>5. o = d \/ o \in visited
        BY <1>1
      <4> QED BY <4>3, <4>4, <4>5
    <3> QED BY <3>1, <3>2
  <2>6. PastInv'
    <3> SUFFICES ASSUME NEW o \in Objects, NEW i \in DOMAIN original[o],
                        decl[o][i].ref # original[o][i].ref, Ahead(o, i)'
                 PROVE  FALSE
      BY <1>1, <1>2 DEF PastInv
    <3>1. o \in visited /\ ~ Ahead(o, i)
      BY <2>1 DEF RewrittenInv, PastInv
    <3>2. PICK k \in 1..Len(stack) + 1 : stack'[k].object = o /\ stack'[k].slot <= i
      BY <1>1 DEF Ahead
    <3>3. k # Len(stack) + 1
      BY <1>1, <2>2, <3>1, <3>2
    <3>4. k \in 1..Len(stack)
      BY <1>4, <3>3
    <3> QED BY <1>1, <1>4, <3>1, <3>2, <3>4 DEF Ahead
  <2> QED BY <2>5, <2>6
<1> QED BY <1>7, <1>8, <1>9

LEMMA ReturnTree ==
  ASSUME Given, TypeInv, SlotsInv, CallersInv,
         ReachedInv, ~ Cyclic /\ OneReferrer => OnceInv /\ PastInv, Return
  PROVE  (ReachedInv /\ (~ Cyclic /\ OneReferrer => OnceInv /\ PastInv))'
<1> DEFINE l == Len(stack) - 1
           c == stack[l].object
           j == stack[l].slot
<1>1. /\ UNCHANGED <<original, visited>>
      /\ l \in Nat \ {0} /\ l < Len(stack) /\ Len(stack') = l /\ DOMAIN stack' = 1..l
      /\ \A k \in 1..l :
             /\ stack'[k].object = stack[k].object
             /\ stack'[k].slot = IF k = l THEN stack[k].slot + 1 ELSE stack[k].slot
  BY ReturnStack
<1>2. /\ Objects' = Objects /\ (\A r : Meant(r)' = Meant(r)) /\ (\A o : Followed(o)' = Followed(o))
  BY <1>1, Constant
<1>3. /\ ~ Cyclic' => ~ Cyclic
      /\ OneReferrer' => OneReferrer
      /\ \A o : Referrers(o) \subseteq Referrers(o)'
  BY <1>1, TreeShrinks
<1>4. \A o \in Objects : \A i \in DOMAIN decl[o] :
         o # c \/ i # j => decl'[o][i] = decl[o][i]
  BY ReturnSlots DEF Given
<1>5. \A k \in 1..l : k \in 1..Len(stack) /\ stack[k].slot \in Nat
  <2>1. \A k \in 1..l : k \in 1..Len(stack)
    BY <1>1, Topmost
  <2> QED BY <2>1, Topmost DEF Frame
<1>6. l \in 1..l /\ l \in 1..Len(stack)
  BY <1>1, <1>5
<1> HIDE DEF l
<1>7. ReachedInv'
  <2>1. 1 \in 1..l
    BY <1>1
  <2> QED BY <1>1, <1>3, <2>1 DEF ReachedInv
<1>8. ASSUME OnceInv PROVE OnceInv'
  <2> SUFFICES ASSUME NEW o \in visited, NEW r \in visited, NEW i \in Followed(r),
                      o \in Meant(original[r][i].ref), NEW k \in 1..l,
                      stack'[k].object = r, stack'[k].slot <= i
               PROVE  k < l /\ stack'[k].slot = i
    BY <1>1, <1>2 DEF OnceInv
  <2>1. i \in Nat
    BY SlotNumbers DEF Followed, TypeInv
  <2>2. stack[k].object = r /\ stack[k].slot <= i
    BY <1>1, <1>5, <2>1
  <2>3. stack[k].slot = i
    BY <1>5, <1>8, <2>2 DEF OnceInv
  <2>4. k # l
    BY <1>1, <1>5, <2>1, <2>3
  <2> QED BY <1>1, <2>3, <2>4
<1>9. ASSUME ~ Cyclic, PastInv PROVE PastInv'
  <2> SUFFICES ASSUME NEW o \in Objects, NEW i \in DOMAIN original[o],
                      decl'[o][i].ref # original[o][i].ref, Ahead(o, i)'
               PROVE  FALSE
    BY <1>1, <1>2 DEF PastInv
  <2>1. i \in Nat /\ i \in DOMAIN decl[o]
    BY SlotNumbers DEF TypeInv, SlotsInv
  <2>2. PICK k \in 1..l : stack'[k].object = o /\ stack'[k].slot <= i
    BY <1>1 DEF Ahead
  <2>3. k \in 1..Len(stack) /\ stack[k].object = o /\ stack[k].slot <= i
    BY <1>1, <1>5, <2>1, <2>2
  <2>4. CASE o # c \/ i # j
    <3>1. ~ Ahead(o, i)
      BY <1>4, <1>9, <2>1, <2>4 DEF PastInv
    <3> QED BY <2>3, <3>1 DEF Ahead, TypeInv
  <2>5. CASE o = c /\ i = j
    <3>1. k # l
      BY <1>1, <1>5, <1>6, <2>2, <2>5
    <3>2. k < l /\ stack[k].object = stack[l].object
      BY <1>1, <2>3, <2>5, <3>1
    <3> QED BY <1>6, <1>9, <2>3, <3>2, RepeatIsCyclic
  <2> QED BY <2>4, <2>5
<1> QED BY <1>3, <1>7, <1>8, <1>9

LEMMA IdleTree ==
  ASSUME ReachedInv, ~ Cyclic /\ OneReferrer => OnceInv /\ PastInv,
         UNCHANGED <<original, decl, stack, visited>>
  PROVE  (ReachedInv /\ (~ Cyclic /\ OneReferrer => OnceInv /\ PastInv))'
<1>1. /\ Objects' = Objects /\ (\A r : Meant(r)' = Meant(r)) /\ (\A o : Followed(o)' = Followed(o))
  BY Constant
<1>2. /\ ~ Cyclic' => ~ Cyclic
      /\ OneReferrer' => OneReferrer
      /\ \A o : Referrers(o) \subseteq Referrers(o)'
  BY TreeShrinks
<1>3. ReachedInv'
  BY <1>2 DEF ReachedInv
<1>4. OnceInv => OnceInv'
  BY <1>1 DEF OnceInv
<1>5. PastInv => PastInv'
  BY <1>1 DEF PastInv, Ahead
<1> QED BY <1>2, <1>3, <1>4, <1>5

LEMMA StepTree == IInv /\ MoveInv /\ TreeInv /\ [Next]_vars => TreeInv'
<1> SUFFICES ASSUME IInv, MoveInv, TreeInv, [Next]_vars, (Vs \in Objects /\ Clear)'
             PROVE  (ReachedInv /\ (~ Cyclic /\ OneReferrer => OnceInv /\ PastInv))'
  BY DEF TreeInv
<1>1. UNCHANGED original
  BY DEF Next, Pass, Descend, Return, Finish, Fail, vars
<1>2. Vs \in Objects /\ Clear
  BY <1>1, Constant
<1>3. /\ TypeInv /\ SlotsInv /\ CallersInv /\ Given /\ RewrittenInv
      /\ ReachedInv /\ (~ Cyclic /\ OneReferrer => OnceInv /\ PastInv)
  BY <1>2 DEF IInv, MoveInv, TreeInv, Given, TypeInv
<1>4. CASE Pass
  BY <1>3, <1>4, PassTree
<1>5. CASE Descend
  BY <1>3, <1>5, DescendTree
<1>6. CASE Return
  BY <1>3, <1>6, ReturnTree
<1>7. CASE Finish \/ Fail \/ UNCHANGED vars
  <2>1. UNCHANGED <<original, decl, stack, visited>>
    BY <1>7 DEF Finish, Fail, vars
  <2> QED BY <1>3, <2>1, IdleTree
<1> QED BY <1>4, <1>5, <1>6, <1>7 DEF Next

(* The call that fails is for one of the causes.                           *)
LEMMA FailHasCause ==
  ASSUME Given, TypeInv, SlotsInv, CallersInv, RewrittenInv,
         ~ Cyclic /\ OneReferrer => OnceInv /\ PastInv, Fail
  PROVE  Cyclic \/ Foreign \/ Revisited
<1> DEFINE t == Top.object
           q == Top.slot
<1>1. t \in visited /\ t \in Objects /\ q \in DOMAIN original[t] /\ Slot = decl[t][q]
  <2>1. decl[t] \in Seq(AnySlot) /\ q \in 1..Len(decl[t])
    BY Topmost DEF Fail, AtSlot, TypeInv, Slots
  <2> QED BY <2>1, Topmost DEF SlotsInv, Slot, Slots
<1>2. q \in Followed(t) /\ original[t][q] \in AnySlot
  BY <1>1, SlotMeant DEF Followed, Fail, Nested
<1>3. CASE Len(stack) > Cardinality(Objects)
  BY <1>3, HighStackIsCyclic
<1>4. CASE Throws(Slot.ref) /\ Slot.ref = original[t][q].ref
  BY <1>1, <1>2, <1>4 DEF Foreign
<1>5. CASE Throws(Slot.ref) /\ Slot.ref # original[t][q].ref
  <2>1. Slot.ref = Append(target, NameOf(original[t][q].ref))
    BY <1>1, <1>5 DEF RewrittenInv
  <2>2. AppOf(Slot.ref) = target
    <3>1. NameOf(original[t][q].ref) \in Segments /\ target \in Application
      BY <1>2, NameOfRef, FilterAssumption DEF AnySlot, TypeInv
    <3> QED BY <2>1, <3>1, PathOf
  <2>3. target \notin Apps
    BY <1>5, <2>2 DEF Throws
  <2>4. Ahead(t, q)
    <3>1. q \in Nat /\ Len(stack) \in DOMAIN stack
      BY Topmost DEF TypeInv
    <3> QED BY <3>1 DEF Ahead, Top
  <2>5. Cyclic \/ ~ OneReferrer
    BY <1>1, <1>5, <2>4 DEF PastInv
  <2>6. ASSUME ~ OneReferrer PROVE Revisited
    <3>1. \E o \in visited : \E a, b \in Referrers(o) : a # b
      BY <2>6 DEF OneReferrer
    <3>2. \E o \in visited : \E i \in Followed(o) : decl[o][i].ref # original[o][i].ref
      BY <1>1, <1>2, <1>5
    <3> QED BY <2>3, <3>1, <3>2 DEF Revisited
  <2> QED BY <2>5, <2>6
<1> QED BY <1>3, <1>4, <1>5 DEF Fail

LEMMA StepHasCause ==
  IInv /\ MoveInv /\ TreeInv /\ StatusInv /\ GivesUpOnlyForCause /\ [Next]_vars => GivesUpOnlyForCause'
<1> SUFFICES ASSUME IInv, MoveInv, TreeInv, StatusInv, GivesUpOnlyForCause, [Next]_vars,
                    status' = "failed", Clear'
             PROVE  (Cyclic \/ Foreign \/ Revisited)'
  BY DEF GivesUpOnlyForCause
<1>1. UNCHANGED <<original, decl, target, visited>> /\ (Fail \/ UNCHANGED vars)
  BY DEF Next, Pass, Descend, Return, Finish, Fail, AtSlot, vars
<1>2. Clear
  BY <1>1, Constant
<1>3. Cyclic \/ Foreign \/ Revisited
  <2>1. CASE Fail
    <3>1. Vs \in Objects
      BY <2>1 DEF StatusInv, Fail, AtSlot
    <3>2. /\ TypeInv /\ SlotsInv /\ CallersInv /\ Given /\ RewrittenInv
          /\ (~ Cyclic /\ OneReferrer => OnceInv /\ PastInv)
      BY <1>2, <3>1 DEF IInv, MoveInv, TreeInv, Given, TypeInv
    <3> QED BY <2>1, <3>2, FailHasCause
  <2>2. CASE UNCHANGED vars
    BY <1>2, <2>2 DEF vars, GivesUpOnlyForCause
  <2> QED BY <1>1, <2>1, <2>2
<1>4. /\ Objects' = Objects /\ (\A r : Meant(r)' = Meant(r)) /\ (\A o : Followed(o)' = Followed(o))
      /\ Graph' = Graph
  BY <1>1, Constant, GraphConstant
<1>5. /\ Cyclic' = Cyclic /\ Foreign' = Foreign /\ (\A o : Referrers(o)' = Referrers(o))
  BY <1>1, <1>4 DEF Cyclic, Foreign, Throws, Apps, Referrers
<1>6. Revisited' = Revisited
  BY <1>1, <1>4, <1>5 DEF Revisited, Apps
<1> QED BY <1>3, <1>5, <1>6

(* The filter gives the conversion up for a circle of references, for a    *)
(* value that looks like a path into nowhere, or for a new target with an  *)
(* object that two others need, and for nothing else (44-60, 91, 166).     *)
THEOREM FailuresHaveCauses == Spec => []GivesUpOnlyForCause
<1>1. Init => GivesUpOnlyForCause
  BY DEF Init, GivesUpOnlyForCause
<1> QED BY <1>1, InitMoves, StepMoves, InitTree, StepTree, StepHasCause,
           SearchInvariant, StatusInvariant, PTL DEF Spec
=============================================================================
