-------------------------- MODULE References_proof --------------------------
(***************************************************************************)
(* For every set of references, names and defaults: what the custom map    *)
(* writes and where the engine places what is meant agree but for the gaps *)
(* References lists, in whatever order the objects are converted; and what *)
(* removeInvalidRefs leaves, it could not have seen.                       *)
(***************************************************************************)
EXTENDS References, SequenceTheorems, TLAPS

AnyAt(objects, x) == \E o \in objects : o.at = x
IsPlaced(x) == AnyAt(placed, x)

TypeInv ==
    /\ row \in Rows
    /\ home \in Homes
    /\ values \in Named(row)
    /\ targets \subseteq {j \in DOMAIN values : Convertible(row.to, values[j])}
    /\ pending \subseteq targets

(* A stanza that was converted has an object in its place, be it its own   *)
(* or one that came later.                                                 *)
PlacedInv == \A j \in targets \ pending : IsPlaced(Placement(row.to, values[j]))

WrittenInv ==
    written # <<>> =>
        /\ written = [j \in DOMAIN values |-> Reference(row, values[j], home)]
        /\ \A name \in MadeBeside(row.by, values[1]) : IsPlaced(home \o <<name>>)

CleanInv ==
    cleaned =>
        /\ written # <<>> /\ pending = {}
        /\ kept = {j \in DOMAIN written : written[j].as # "nothing" /\ Stays(j)}

IInv == TypeInv /\ PlacedInv /\ WrittenInv /\ CleanInv
-----------------------------------------------------------------------------
(* Object.assign replaces objects and removes no name.                     *)
LEMMA PutKeepsPlaces ==
  ASSUME NEW objects, NEW places, NEW source
  PROVE  \A x : x \in places \/ AnyAt(objects, x) => AnyAt(Put(objects, places, source), x)
<1>1. ASSUME NEW x \in places
      PROVE  AnyAt(Put(objects, places, source), x)
  <2>1. [at |-> x, from |-> source] \in Put(objects, places, source)
    BY DEF Put
  <2> QED
    BY <2>1 DEF AnyAt
<1>2. ASSUME NEW x, AnyAt(objects, x), x \notin places
      PROVE  AnyAt(Put(objects, places, source), x)
  <2>1. PICK o \in objects : o.at = x
    BY <1>2 DEF AnyAt
  <2>2. o \in Put(objects, places, source)
    BY <1>2, <2>1 DEF Put
  <2> QED
    BY <2>1, <2>2 DEF AnyAt
<1> QED
  BY <1>1, <1>2

LEMMA Initially == Init => IInv
BY DEF Init, IInv, TypeInv, PlacedInv, WrittenInv, CleanInv

LEMMA PlaceTargetKeeps ==
  ASSUME IInv, NEW j \in pending, PlaceTarget(j)
  PROVE  IInv'
<1> USE DEF IInv
<1>1. TypeInv'
  BY DEF TypeInv, PlaceTarget
<1>2. \A x : IsPlaced(x) \/ x = Placement(row.to, values[j]) => IsPlaced(x)'
  <2> DEFINE places == {Placement(row.to, values[j])}
  <2>1. placed' = Put(placed, places, values[j])
    BY DEF PlaceTarget
  <2> SUFFICES ASSUME NEW x, x \in places \/ AnyAt(placed, x)
               PROVE  AnyAt(placed', x)
    BY DEF IsPlaced
  <2> HIDE DEF places
  <2>2. AnyAt(Put(placed, places, values[j]), x)
    BY PutKeepsPlaces
  <2> QED
    BY <2>1, <2>2
<1>3. PlacedInv'
  <2> SUFFICES ASSUME NEW k \in targets \ pending'
               PROVE  IsPlaced(Placement(row.to, values[k]))'
    BY DEF IsPlaced, PlacedInv, PlaceTarget
  <2>1. CASE k = j
    BY <1>2, <2>1 DEF IsPlaced, PlaceTarget
  <2>2. CASE k # j
    BY <1>2, <2>2 DEF IsPlaced, PlacedInv, PlaceTarget
  <2> QED
    BY <2>1, <2>2
<1>4. WrittenInv'
  BY <1>2 DEF IsPlaced, WrittenInv, PlaceTarget
<1>5. CleanInv'
  BY DEF CleanInv, PlaceTarget
<1> QED
  BY <1>1, <1>3, <1>4, <1>5

LEMMA ConvertReferrerKeeps ==
  ASSUME IInv, ConvertReferrer
  PROVE  IInv'
<1> USE DEF IInv
<1>1. TypeInv'
  BY DEF TypeInv, ConvertReferrer
<1>2. \A x : \/ IsPlaced(x)
             \/ \E name \in MadeBeside(row.by, values[1]) : x = home \o <<name>>
            => IsPlaced(x)'
  <2> DEFINE places == {home \o <<name>> : name \in MadeBeside(row.by, values[1])}
  <2>1. placed' = Put(placed, places, values[1])
    BY DEF ConvertReferrer
  <2> SUFFICES ASSUME NEW x, x \in places \/ AnyAt(placed, x)
               PROVE  AnyAt(placed', x)
    BY DEF IsPlaced
  <2> HIDE DEF places
  <2>2. AnyAt(Put(placed, places, values[1]), x)
    BY PutKeepsPlaces
  <2> QED
    BY <2>1, <2>2
<1>3. PlacedInv'
  BY <1>2 DEF IsPlaced, PlacedInv, ConvertReferrer
<1>4. WrittenInv'
  BY <1>2 DEF IsPlaced, WrittenInv, ConvertReferrer
<1>5. CleanInv'
  BY DEF CleanInv, ConvertReferrer
<1> QED
  BY <1>1, <1>3, <1>4, <1>5

LEMMA CleanKeeps ==
  ASSUME IInv, Clean
  PROVE  IInv'
<1> USE DEF IInv
<1>1. TypeInv' /\ PlacedInv' /\ WrittenInv'
  BY DEF TypeInv, PlacedInv, WrittenInv, IsPlaced, Clean
<1>2. CleanInv'
  BY DEF CleanInv, Clean, Stays, LookedAt, Unvisited, Resolves
<1> QED
  BY <1>1, <1>2

LEMMA StutterKeeps == IInv /\ UNCHANGED vars => IInv'
BY DEF IInv, TypeInv, PlacedInv, WrittenInv, CleanInv, IsPlaced, Stays, LookedAt, Unvisited, Resolves, vars

(* The invariant of the conversion of one reference.                       *)
THEOREM Invariance == Spec => []IInv
<1>1. Init => IInv
  BY Initially
<1>2. IInv /\ [Next]_vars => IInv'
  BY PlaceTargetKeeps, ConvertReferrerKeeps, CleanKeeps, StutterKeeps DEF Next
<1> QED
  BY <1>1, <1>2, PTL DEF Spec
-----------------------------------------------------------------------------
(* The segments of paths.                                                  *)
Segments == STRING \cup {Common, Shared}

LEMMA CommonAndShared == Common \in Segments /\ Shared \in Segments
BY Zenon DEF Segments

(* The paths that a stanza may name.                                       *)
LEMMA PathParts ==
  ASSUME NEW p, IsPath(p)
  PROVE  /\ p \in Seq(Segments) /\ Len(p) \in 1..3 /\ p # <<>>
         /\ \A i \in 1..Len(p) : p[i] \in Segments
         /\ Len(p) = 2 => p = <<p[1], p[2]>>
         /\ Len(p) = 3 => p = <<p[1], p[2], p[3]>>
<1>1. STRING \subseteq Segments
  BY Zenon DEF Segments
<1>2. p \in Seq(Segments) /\ Len(p) \in 1..3
  BY <1>1, SeqMonotonic DEF IsPath
<1> QED
  BY <1>2

LEMMA NamedPaths ==
  ASSUME NEW r \in Rows, NEW v \in Named(r), NEW j \in DOMAIN v
  PROVE  IsPath(v[j]) \/ v[j] = <<>>
<1>1. CASE r.at \in {"list", "tail", "mixed"}
  <2>1. v \in Lists
    BY <1>1 DEF Named, ListsOf
  <2> QED
    BY <2>1, PathsAssumption
<1>2. CASE r.at \notin {"list", "tail", "mixed"}
  <2>1. PICK p \in SinglesOf(r.by) : v = <<p>>
    BY <1>2 DEF Named
  <2>2. p \in Singles \cup Words
    BY DEF SinglesOf
  <2> QED
    BY <2>1, <2>2, PathsAssumption
<1> QED
  BY <1>1, <1>2

LEMMA OwnPaths ==
  ASSUME NEW r \in Rows, NEW v \in Named(r), r.at \in {"own", "inner"}
  PROVE  /\ DOMAIN v = {1} /\ IsPath(v[1])
         /\ r.by = "domain" => Len(v[1]) = 1
<1>1. PICK p \in SinglesOf(r.by) : v = <<p>>
  BY DEF Named
<1>2. p \in Singles \cup Words /\ (r.by = "domain" => p \in Words)
  BY DEF SinglesOf
<1> QED
  BY <1>1, <1>2, PathsAssumption

LEMMA PairBefore ==
  ASSUME NEW S, NEW f \in Seq(S), NEW t \in Seq(S), Len(f) = 2
  PROVE  /\ f \o t \in Seq(S) /\ Len(f \o t) = Len(t) + 2
         /\ Len(t) = 1 => f \o t = <<f[1], f[2], t[1]>>
<1> DEFINE c == f \o t
<1>1. /\ c \in Seq(S) /\ Len(c) = Len(f) + Len(t)
      /\ \A i \in 1 .. Len(f) + Len(t) : c[i] = IF i <= Len(f) THEN f[i] ELSE t[i - Len(f)]
  BY ConcatProperties
<1>2. f \o t = c /\ Len(t) \in Nat
  OBVIOUS
<1> HIDE DEF c
<1>3. Len(t) = 1 => Len(c) = 3 /\ c[1] = f[1] /\ c[2] = f[2] /\ c[3] = t[1]
  BY <1>1, <1>2
<1>4. Len(t) = 1 => c = <<f[1], f[2], t[1]>>
  BY <1>1, <1>3
<1> QED
  BY <1>1, <1>2, <1>4

(* What is made from a path of its first two segments and one more.        *)
LEMMA NameBehind ==
  ASSUME NEW f, IsPath(f), Len(f) = 2, NEW name
  PROVE  f \o <<name>> = <<f[1], f[2], name>>
<1> DEFINE S == Segments \cup {name}
           t == <<name>>
<1>1. f \in Seq(S) /\ t \in Seq(S) /\ Len(t) = 1 /\ t[1] = name
  BY PathParts, SeqMonotonic
<1> HIDE DEF S, t
<1>2. f \o t = <<f[1], f[2], name>>
  BY <1>1, PairBefore
<1> QED
  BY <1>2 DEF t

LEMMA InSharedParts ==
  ASSUME NEW p, IsPath(p)
  PROVE  /\ InShared(p) \in Seq(Segments) /\ Len(InShared(p)) = Len(p) + 1
         /\ Len(p) = 2 => InShared(p) = <<p[1], Shared, p[2]>>
<1>1. p \in Seq(Segments) /\ Len(p) \in 1..3 /\ p # <<>> /\ p[1] \in Segments
  BY PathParts
<1> DEFINE f == <<p[1], Shared>>
           t == Tail(p)
<1>2. t \in Seq(Segments) /\ Len(t) = Len(p) - 1 /\ (Len(p) = 2 => t[1] = p[2])
  BY <1>1, HeadTailProperties
<1>3. f \in Seq(Segments) /\ Len(f) = 2 /\ f[1] = p[1] /\ f[2] = Shared
  BY <1>1, CommonAndShared
<1>4. InShared(p) = f \o t
  BY DEF InShared
<1> HIDE DEF f, t
<1>5. f \o t \in Seq(Segments) /\ Len(f \o t) = Len(t) + 2
  BY <1>2, <1>3, PairBefore
<1>6. Len(t) = 1 => f \o t = <<f[1], f[2], t[1]>>
  BY <1>2, <1>3, PairBefore
<1> QED
  BY <1>1, <1>2, <1>3, <1>4, <1>5, <1>6

(* The place of an object that is no certificate.                          *)
LEMMA ObjectPlacement ==
  ASSUME NEW p, IsPath(p), Len(p) > 1
  PROVE  /\ Len(p) = 2 => Placement("object", p) = <<p[1], Shared, p[2]>>
         /\ Len(p) = 3 => Placement("object", p) =
                IF p[1] = Common THEN <<p[1], Shared, p[3]>> ELSE p
<1>1. Placement("object", p) = Folder(p) \o <<p[Len(p)]>>
  BY DEF Placement, LastOf
<1>2. CASE Len(p) = 2
  <2>1. Folder(p) = <<p[1], Shared>>
    BY <1>2 DEF Folder
  <2> QED
    BY <1>1, <1>2, <2>1
<1>3. CASE Len(p) = 3
  <2>1. CASE p[1] = Common
    <3>1. Folder(p) = <<p[1], Shared>>
      BY <2>1 DEF Folder
    <3> QED
      BY <1>1, <1>3, <2>1, <3>1
  <2>2. CASE p[1] # Common
    <3>1. Folder(p) = <<p[1], p[2]>>
      BY <1>3, <2>2 DEF Folder
    <3> QED
      BY <1>1, <1>3, <2>2, <3>1, PathParts
  <2> QED
    BY <2>1, <2>2
<1> QED
  BY <1>2, <1>3, PathParts
-----------------------------------------------------------------------------
(* A reference of an object at h that leads to the place x.                *)
Finds(w, h, x) ==
    /\ w.as \in {"use", "text"}
    /\ \/ Len(w.path) = 3 /\ w.path = x
       \/ Len(w.path) = 1 /\ h \o w.path = x

LEMMA PathFinds ==
  ASSUME NEW h, NEW a, NEW b, NEW c
  PROVE  /\ Finds(Use(<<a, b, c>>), h, <<a, b, c>>)
         /\ Finds(Text(<<a, b, c>>), h, <<a, b, c>>)
BY DEF Finds, Use, Text, Written

LEMMA WordFinds ==
  ASSUME NEW h, NEW a
  PROVE  Finds(Text(<<a>>), h, h \o <<a>>)
BY DEF Finds, Text, Written

LEMMA ThreeParts ==
  ASSUME NEW a, NEW b, NEW c
  PROVE  Len(<<a, b, c>>) = 3 /\ <<a, b, c>>[1] = a /\ LastOf(<<a, b, c>>) = c
BY DEF LastOf

LEMMA FoundTarget ==
  ASSUME NEW w, NEW x, Finds(w, home, x)
  PROVE  Target(w) = x
<1>1. CASE Len(w.path) = 1
  BY <1>1 DEF Finds, Target
<1>2. CASE Len(w.path) # 1
  BY <1>2 DEF Finds, Target
<1> QED
  BY <1>1, <1>2

LEMMA SharedPathPlace ==
  ASSUME NEW p, IsPath(p), Len(p) > 1, ~InFolderOfCommon(p)
  PROVE  /\ SharedPath(p) = Placement("object", p)
         /\ SharedPath(p)[1] = p[1] /\ LastOf(SharedPath(p)) = LastOf(p)
         /\ Len(SharedPath(p)) = 3
<1>1. CASE Len(p) = 2
  <2>1. SharedPath(p) = <<p[1], Shared, p[2]>>
    BY <1>1, InSharedParts DEF SharedPath
  <2>2. Placement("object", p) = <<p[1], Shared, p[2]>>
    BY <1>1, ObjectPlacement
  <2>3. LastOf(p) = p[2]
    BY <1>1 DEF LastOf
  <2>4. SharedPath(p)[1] = p[1] /\ LastOf(SharedPath(p)) = p[2] /\ Len(SharedPath(p)) = 3
    BY <2>1, ThreeParts
  <2> QED
    BY <2>1, <2>2, <2>3, <2>4, Zenon
<1>2. CASE Len(p) = 3
  <2>1. p[1] = Common => p[2] = Shared
    BY <1>2 DEF InFolderOfCommon
  <2>2. SharedPath(p) = p
    BY <1>2, <2>1, PathParts DEF SharedPath
  <2>3. Placement("object", p) = p
    BY <1>2, <2>1, ObjectPlacement, PathParts
  <2> QED
    BY <1>2, <2>2, <2>3
<1> QED
  BY <1>1, <1>2, PathParts

LEMMA ThreeSegments ==
  ASSUME NEW p, IsPath(p), Len(p) > 1, ~InFolderOfCommon(p), NEW h
  PROVE  LET x == Placement("object", p)
         IN  Finds(Use(x), h, x) /\ Finds(Text(x), h, x) /\ (Len(p) = 3 => x = p)
<1>1. CASE Len(p) = 2
  BY <1>1, ObjectPlacement, PathFinds
<1>2. CASE Len(p) = 3
  <2>1. Placement("object", p) = p
    BY <1>2, ObjectPlacement, PathParts DEF InFolderOfCommon
  <2> QED
    BY <1>2, <2>1, PathFinds, PathParts
<1> QED
  BY <1>1, <1>2, PathParts

LEMMA ObjectRefFinds ==
  ASSUME NEW p, IsPath(p), Len(p) > 1, p \notin Defaults, ~InFolderOfCommon(p), NEW h
  PROVE  Finds(ObjectRef(p), h, Placement("object", p))
<1>1. CASE Len(p) = 2
  BY <1>1, InSharedParts, ObjectPlacement, PathFinds DEF ObjectRef
<1>2. CASE Len(p) = 3
  BY <1>2, ThreeSegments DEF ObjectRef
<1> QED
  BY <1>1, <1>2, PathParts

LEMMA IruleRefFinds ==
  ASSUME NEW p, IsPath(p), Len(p) > 1, NEW h, ~Gap("irule", p, h)
  PROVE  Finds(Text(IruleRef(p)), h, Placement("object", p))
<1>1. CASE Len(p) = 2
  <2>1. p[1] = Common /\ p = <<p[1], p[2]>>
    BY <1>1, PathParts DEF Gap
  <2>2. p[2] # Shared
    BY <2>1 DEF Gap
  <2>3. IruleRef(p) = <<p[1], Shared, p[2]>>
    BY <2>1, <2>2 DEF IruleRef
  <2>4. Placement("object", p) = <<p[1], Shared, p[2]>>
    BY <1>1, ObjectPlacement
  <2> QED
    BY <2>3, <2>4, PathFinds, Zenon
<1>2. CASE Len(p) = 3
  <2>1. ~InFolderOfCommon(p) /\ IruleRef(p) = p
    BY <1>2 DEF Gap, InFolderOfCommon, IruleRef
  <2> QED
    BY <1>2, <2>1, ThreeSegments
<1> QED
  BY <1>1, <1>2, PathParts

LEMMA InCodeFinds ==
  ASSUME NEW p, IsPath(p), Len(p) > 1, NEW h, ~Gap("code", p, h)
  PROVE  Finds(Text(InCode(p)), h, Placement("object", p))
<1>1. CASE Len(p) = 2
  <2>1. p[1] = Common
    BY <1>1 DEF Gap
  <2>2. InCode(p) = InShared(p)
    BY <2>1 DEF InCode, InShared
  <2> QED
    BY <1>1, <2>2, InSharedParts, ObjectPlacement, PathFinds
<1>2. CASE Len(p) = 3
  <2>1. ~InFolderOfCommon(p) /\ InCode(p) = p
    BY <1>2 DEF Gap, InFolderOfCommon, InCode
  <2> QED
    BY <1>2, <2>1, ThreeSegments
<1> QED
  BY <1>1, <1>2, PathParts
LEMMA PoolRefFinds ==
  ASSUME NEW p, IsPath(p), Len(p) > 1, NEW h, IsPath(h), Len(h) = 2, ~Gap("pool", p, h)
  PROVE  Finds(PoolRef(p, h), h, Placement("object", p))
<1>1. ~InFolderOfCommon(p)
  BY DEF Gap
<1>2. h \o <<LastOf(p)>> = <<h[1], h[2], LastOf(p)>> /\ h = <<h[1], h[2]>>
  BY NameBehind, PathParts
<1>3. CASE h[2] = Shared /\ Len(p) = 2
  <2>1. h[1] = p[1]
    BY <1>3 DEF Gap
  <2>2. h \o <<LastOf(p)>> = Placement("object", p)
    BY <1>2, <1>3, <2>1, ObjectPlacement DEF LastOf
  <2> QED
    BY <1>3, <2>2, WordFinds DEF PoolRef
<1>4. CASE ~(h[2] = Shared /\ Len(p) = 2) /\ SubSeq(p, 1, 2) = h
  <2>1. Len(p) = 3
    <3>1. ASSUME Len(p) = 2
          PROVE  FALSE
      <4>1. SubSeq(p, 1, 2) = p
        BY <3>1, PathParts
      <4> QED
        BY <1>4, <3>1, <4>1 DEF Gap
    <3> QED
      BY <3>1, PathParts
  <2>2. p[1] = h[1] /\ p[2] = h[2] /\ p = <<p[1], p[2], p[3]>>
    <3>1. SubSeq(p, 1, 2)[1] = p[1] /\ SubSeq(p, 1, 2)[2] = p[2]
      BY <2>1, PathParts
    <3> QED
      BY <1>4, <2>1, <3>1, PathParts
  <2>3. h \o <<LastOf(p)>> = p
    BY <1>2, <2>1, <2>2 DEF LastOf
  <2>4. Placement("object", p) = p
    BY <1>1, <2>1, ThreeSegments
  <2> QED
    BY <1>4, <2>3, <2>4, WordFinds DEF PoolRef
<1>5. CASE ~(h[2] = Shared /\ Len(p) = 2) /\ SubSeq(p, 1, 2) # h
  <2>1. PoolRef(p, h) = Text(SharedPath(p))
    BY <1>5 DEF PoolRef
  <2> QED
    BY <1>1, <2>1, SharedPathPlace, ThreeSegments
<1> QED
  BY <1>3, <1>4, <1>5

LEMMA TlsRefFinds ==
  ASSUME NEW p, IsPath(p), Len(p) > 1, p \notin Defaults,
         NEW h, IsPath(h), Len(h) = 2, ~Gap("tls", p, h)
  PROVE  Finds(TlsRef(p), h, Placement("object", p))
<1>1. ~InFolderOfCommon(p) /\ (p[1] # Common => Folder(p) = h)
  BY DEF Gap
<1>2. CASE p[1] = Common
  <2>1. TlsRef(p) = Text(SharedPath(p))
    BY <1>1, <1>2, SharedPathPlace DEF TlsRef
  <2> QED
    BY <1>1, <2>1, SharedPathPlace, ThreeSegments
<1>3. CASE p[1] # Common
  <2>1. TlsRef(p) = Text(<<LastOf(p)>>)
    BY <1>1, <1>3, SharedPathPlace DEF TlsRef
  <2>2. Placement("object", p) = h \o <<LastOf(p)>>
    BY <1>1, <1>3 DEF Placement
  <2> QED
    BY <2>1, <2>2, WordFinds
<1> QED
  BY <1>2, <1>3

(* Whatever a custom map writes for an object of the configuration finds   *)
(* the place the engine gives it.                                          *)
LEMMA WrittenFinds ==
  ASSUME NEW r \in Rows, r.to = "object", r.by # "domain",
         NEW p, IsPath(p), Len(p) > 1, p \notin Defaults,
         NEW h, IsPath(h), Len(h) = 2, ~Gap(r.by, p, h)
  PROVE  Finds(Reference(r, p, h), h, Placement("object", p))
<1>1. p # None /\ p # Plain
  BY PathParts DEF None, Plain
<1>2. ~Skipped(r, p)
  BY <1>1 DEF Skipped
<1>3. Reference(r, p, h) = WrittenBy(r.by, p, h)
  BY <1>1, <1>2 DEF Reference
<1>4. ~InFolderOfCommon(p) /\ r.by # "bigip"
  BY DEF Gap
<1>5. r.by \in {"use", "wrap", "text", "bigipOrText", "irule", "code", "shared", "pool",
                "tls", "persist", "inCommon"}
  BY <1>4, RowsAssumption
<1>6. CASE r.by = "use"
  BY <1>3, <1>4, <1>6, ObjectRefFinds DEF WrittenBy
<1>7. CASE r.by \in {"wrap", "text", "bigipOrText"}
  <2>1. Len(p) = 3
    BY <1>7, PathParts DEF Gap
  <2>2. p # BigipMonitor
    BY <2>1 DEF BigipMonitor
  <2>3. WrittenBy(r.by, p, h) = Use(p) \/ WrittenBy(r.by, p, h) = Text(p)
    <3>1. CASE r.by = "wrap"
      BY <3>1 DEF WrittenBy
    <3>2. CASE r.by = "text"
      BY <3>2 DEF WrittenBy
    <3>3. CASE r.by = "bigipOrText"
      BY <2>2, <3>3 DEF WrittenBy
    <3> QED
      BY <1>7, <3>1, <3>2, <3>3
  <2> QED
    BY <1>3, <1>4, <2>1, <2>3, ThreeSegments
<1>8. CASE r.by = "irule"
  BY <1>3, <1>8, IruleRefFinds DEF WrittenBy
<1>9. CASE r.by = "code"
  BY <1>3, <1>9, InCodeFinds DEF WrittenBy
<1>10. CASE r.by = "shared"
  BY <1>3, <1>4, <1>10, SharedPathPlace, ThreeSegments DEF WrittenBy
<1>11. CASE r.by = "pool"
  BY <1>3, <1>11, PoolRefFinds DEF WrittenBy
<1>12. CASE r.by = "tls"
  BY <1>3, <1>12, TlsRefFinds DEF WrittenBy
<1>13. CASE r.by = "persist"
  BY <1>3, <1>4, <1>13, ObjectRefFinds DEF WrittenBy
<1>14. CASE r.by = "inCommon"
  <2>1. HoldsCommon(p)
    BY <1>14 DEF Gap
  <2>2. WrittenBy(r.by, p, h) = CommonRef(p)
    BY <1>14 DEF WrittenBy
  <2>3. CommonRef(p) = ObjectRef(p)
    BY <2>1 DEF CommonRef
  <2> QED
    BY <1>3, <1>4, <2>2, <2>3, ObjectRefFinds
<1> QED
  BY <1>5, <1>6, <1>7, <1>8, <1>9, <1>10, <1>11, <1>12, <1>13, <1>14

(* removeInvalidRefs leaves what it finds or cannot see.                   *)
LEMMA FoundIsKept ==
  ASSUME CleanInv, cleaned, NEW j \in DOMAIN written, NEW x, IsPlaced(x),
         Finds(written[j], home, x)
  PROVE  j \in kept /\ Leads(j)
<1>1. Target(written[j]) = x
  BY FoundTarget
<1>2. Resolves(written[j].path)
  <2> DEFINE path == written[j].path
  <2>1. CASE Len(path) = 1
    BY <2>1 DEF Resolves
  <2>2. CASE Len(path) = 3 /\ path = x
    <3>1. \E o \in placed : o.at = path
      BY <2>2 DEF IsPlaced, AnyAt
    <3> HIDE DEF path
    <3>2. Resolves(path)
      BY <2>2, <3>1 DEF Resolves
    <3> QED
      BY <3>2 DEF path
  <2> QED
    BY <2>1, <2>2 DEF Finds
<1>3. Stays(j)
  BY <1>2 DEF Stays
<1>4. written[j].as # "nothing"
  BY DEF Finds
<1> QED
  BY <1>1, <1>3, <1>4 DEF CleanInv, Leads, IsPlaced, AnyAt
(* In whatever order the objects are converted, a reference to one of them *)
(* is kept and leads to its place, but for the gaps of the conventions.    *)
THEOREM ReferencesArrive == Spec => []ConvertedTargetsAreFound
<1>1. IInv => ConvertedTargetsAreFound
  <2> SUFFICES ASSUME IInv, cleaned, NEW j \in targets, row.to = "object",
                      ~Gap(row.by, values[j], home)
               PROVE  j \in kept /\ Leads(j)
    BY DEF ConvertedTargetsAreFound
  <2> DEFINE p == values[j]
  <2>1. /\ row \in Rows /\ values \in Named(row) /\ j \in DOMAIN values
        /\ Len(p) > 1 /\ p \notin Defaults
        /\ IsPath(home) /\ Len(home) = 2
    BY PathsAssumption DEF IInv, TypeInv, Convertible
  <2>2. IsPath(p)
    BY <2>1, NamedPaths
  <2>3. row.by # "domain"
    <3>1. ASSUME row.by = "domain"
          PROVE  FALSE
      <4>1. row.at \in {"own", "inner"}
        BY <2>1, <3>1, RowsAssumption
      <4>2. DOMAIN values = {1} /\ Len(values[1]) = 1
        BY <2>1, <3>1, <4>1, OwnPaths
      <4> QED
        BY <2>1, <4>2
    <3> QED
      BY <3>1
  <2>4. Finds(Reference(row, p, home), home, Placement("object", p))
    BY <2>1, <2>2, <2>3, WrittenFinds
  <2>5. written = [k \in DOMAIN values |-> Reference(row, values[k], home)]
    BY DEF IInv, CleanInv, WrittenInv
  <2>6. j \in DOMAIN written /\ written[j] = Reference(row, p, home)
    BY <2>1, <2>5
  <2>7. IsPlaced(Placement("object", p))
    BY DEF IInv, CleanInv, PlacedInv
  <2> QED
    BY <2>4, <2>6, <2>7, FoundIsKept DEF IInv
<1> QED
  BY <1>1, Invariance, PTL
-----------------------------------------------------------------------------
(* No text is longer than three segments, but in code.                     *)
LEMMA SharedPathLength ==
  ASSUME NEW p, IsPath(p)
  PROVE  Len(SharedPath(p)) \in 1..3
<1>1. CASE Len(p) = 2
  BY <1>1, InSharedParts DEF SharedPath
<1>2. CASE Len(p) # 2
  BY <1>2, PathParts DEF SharedPath
<1> QED
  BY <1>1, <1>2

LEMMA RenamedLength ==
  ASSUME NEW p, IsPath(p), NEW name
  PROVE  Len(Renamed(p, name)) = Len(p)
<1> DEFINE S == Segments \cup {name}
<1>1. p \in Seq(S) /\ Len(p) \in 1..Len(p) /\ name \in S
  BY PathParts, SeqMonotonic
<1> HIDE DEF S
<1> QED
  BY <1>1, ExceptSeq DEF Renamed

Short(w) == w.as = "text" => Len(w.path) \in 0..3

LEMMA TextLength ==
  ASSUME NEW r \in Rows, r.by # "code",
         NEW p, IsPath(p) \/ p = Plain, NEW h, IsPath(h), Len(h) = 2,
         Reference(r, p, h).as = "text"
  PROVE  Len(Reference(r, p, h).path) \in 0..3
<1>1. CASE p = Plain
  BY <1>1 DEF Reference, Text, Written, Plain
<1>2. CASE p # Plain /\ Skipped(r, p)
  BY <1>2 DEF Reference, Nothing, Written
<1>3. CASE p # Plain /\ ~Skipped(r, p)
  <2> DEFINE w == WrittenBy(r.by, p, h)
  <2>1. Reference(r, p, h) = w /\ IsPath(p)
    BY <1>3 DEF Reference
  <2>2. Len(p) \in 1..3
    BY <2>1, PathParts
  <2>3. \A q : Short(Use(q)) /\ Short(Pointer(q)) /\ Short(ObjectRef(q)) /\ Short(Nothing)
    BY DEF Short, Use, Pointer, Written, ObjectRef, Nothing
  <2>4. \A q : Len(q) \in 0..3 => Short(Text(q))
    BY DEF Short, Text, Written
  <2>5. \A name : Short(Text(<<name>>))
    BY DEF Short, Text, Written
  <2>6. \A name : Len(Renamed(p, name)) \in 0..3
    BY <2>1, <2>2, RenamedLength
  <2>7. Len(SharedPath(p)) \in 0..3
    BY <2>1, SharedPathLength
  <2> SUFFICES Short(w)
    BY <2>1 DEF Short
  <2>8. CASE r.by \in {"use", "inCommon", "domain", "wrap", "bigip", "generated"}
    <3>1. Short(CommonRef(p))
      BY <2>3 DEF CommonRef
    <3> QED
      BY <2>3, <2>8, <3>1 DEF WrittenBy
  <2>9. CASE r.by \in {"text", "bigipOrText"}
    BY <2>2, <2>3, <2>4, <2>9 DEF WrittenBy
  <2>10. CASE r.by = "trusted"
    BY <2>3, <2>5, <2>10 DEF WrittenBy
  <2>11. CASE r.by \in {"bare", "stored"}
    BY <2>4, <2>5, <2>6, <2>11 DEF WrittenBy
  <2>12. CASE r.by = "serverCert"
    <3>1. w = ServerCertRef(p)
      BY <2>12 DEF WrittenBy
    <3>2. None # DefaultCert
      BY DEF None, DefaultCert
    <3> QED
      BY <2>3, <2>5, <3>1, <3>2 DEF ServerCertRef
  <2>13. CASE r.by = "clientCert"
    <3>1. w = ClientCertRef(p, h)
      BY <2>13 DEF WrittenBy
    <3>2. h \o <<BareName(p)>> = <<h[1], h[2], BareName(p)>>
      BY NameBehind
    <3>3. Short(Text(h \o <<BareName(p)>>))
      <4>1. Short(Text(<<h[1], h[2], BareName(p)>>))
        BY DEF Short, Text, Written
      <4> QED
        BY <3>2, <4>1
    <3> QED
      BY <2>2, <2>4, <2>5, <2>6, <3>1, <3>3 DEF ClientCertRef
  <2>14. CASE r.by = "irule"
    <3>1. Len(IruleRef(p)) \in 0..3
      BY <2>2 DEF IruleRef
    <3> QED
      BY <2>4, <2>14, <3>1 DEF WrittenBy
  <2>15. CASE r.by = "shared"
    BY <2>4, <2>7, <2>15 DEF WrittenBy
  <2>16. CASE r.by = "pool"
    BY <2>4, <2>5, <2>7, <2>16 DEF WrittenBy, PoolRef
  <2>17. CASE r.by = "tls"
    BY <2>3, <2>4, <2>5, <2>7, <2>17 DEF WrittenBy, TlsRef
  <2>18. CASE r.by = "persist"
    BY <2>3, <2>5, <2>18 DEF WrittenBy
  <2> QED
    BY <2>8, <2>9, <2>10, <2>11, <2>12, <2>13, <2>14, <2>15, <2>16, <2>17, <2>18,
       RowsAssumption
<1> QED
  BY <1>1, <1>2, <1>3

(* What removeInvalidRefs leaves although it leads nowhere, it could not   *)
(* have seen.                                                              *)
THEOREM RestIsOutOfSight == Spec => []DanglingOnlyOutOfSight
<1>1. IInv => DanglingOnlyOutOfSight
  <2> SUFFICES ASSUME IInv, cleaned, NEW j \in kept,
                      written[j].as \in {"use", "text"}, ~Leads(j)
               PROVE  \/ row.at = "inner"
                      \/ row.at # "own" /\ \E i \in 1..j : written[i].as # "use"
                      \/ Len(written[j].path) < 3
    BY DEF DanglingOnlyOutOfSight
  <2>1. written = [k \in DOMAIN values |-> Reference(row, values[k], home)]
    BY DEF IInv, CleanInv, WrittenInv
  <2>2. j \in DOMAIN values /\ Stays(j) /\ written[j] = Reference(row, values[j], home)
    BY <2>1 DEF IInv, CleanInv
  <2>3. /\ row \in Rows /\ values \in Named(row)
        /\ IsPath(home) /\ Len(home) = 2
    BY PathsAssumption DEF IInv, TypeInv
  <2>4. row.at \in {"own", "list", "tail", "mixed", "inner"}
    BY <2>3, RowsAssumption
  <2> DEFINE n == Len(written[j].path)
  <2>5. Resolves(written[j].path) => n = 1 \/ n = 2
    BY DEF Leads, Target, Resolves
  <2>6. CASE ~LookedAt(j) /\ row.at \in {"list", "tail", "mixed"}
    BY <2>2, <2>6 DEF LookedAt, Unvisited
  <2>7. CASE ~LookedAt(j) /\ row.at = "own"
    <3>1. written[j].as = "text" /\ n # 3
      BY <2>7 DEF LookedAt
    <3>2. row.by # "code"
      BY <2>3, <2>7, RowsAssumption
    <3>3. IsPath(values[j]) \/ values[j] = Plain
      BY <2>2, <2>3, NamedPaths DEF Plain
    <3>4. n \in 0..3
      BY <2>2, <2>3, <3>1, <3>2, <3>3, TextLength
    <3>5. n < 3
      <4> HIDE DEF n
      <4> QED
        BY <3>1, <3>4
    <3> QED
      BY <3>5
  <2>8. CASE LookedAt(j)
    <3>1. n = 1 \/ n = 2
      BY <2>2, <2>5, <2>8 DEF Stays
    <3>2. n < 3
      <4> HIDE DEF n
      <4> QED
        BY <3>1
    <3> QED
      BY <3>2
  <2> QED
    BY <2>4, <2>6, <2>7, <2>8
<1> QED
  BY <1>1, Invariance, PTL
-----------------------------------------------------------------------------
(* The reference of a TLS profile to a certificate that comes with it.     *)
LEMMA OwnCertificate ==
  ASSUME NEW r \in Rows, NEW p, IsPath(p), NEW h, IsPath(h), Len(h) = 2,
         MadeBeside(r.by, p) # {},
         r.by = "serverCert" => Stored[LastOf(p)] = BareName(p),
         r.by = "clientCert" => p[1] = Common
  PROVE  \E name \in MadeBeside(r.by, p) : Finds(Reference(r, p, h), h, h \o <<name>>)
<1>1. r.by \in {"generated", "serverCert", "clientCert"}
  BY DEF MadeBeside
<1>2. Reference(r, p, h) = WrittenBy(r.by, p, h)
  BY <1>1, PathParts, RowsAssumption DEF Reference, Skipped, Plain
<1>3. CASE r.by = "generated"
  <2>1. WrittenBy(r.by, p, h) = Use(<<"autogen">>) /\ MadeBeside(r.by, p) = {"autogen"}
    BY <1>3 DEF WrittenBy, MadeBeside
  <2>2. Finds(Use(<<"autogen">>), h, h \o <<"autogen">>)
    BY DEF Finds, Use, Written
  <2> QED
    BY <1>2, <2>1, <2>2
<1>4. CASE r.by = "serverCert"
  <2>1. WrittenBy(r.by, p, h) = ServerCertRef(p)
    BY <1>4 DEF WrittenBy
  <2>2. CASE p = DefaultCert
    <3>1. ServerCertRef(p) = Text(<<"certificate_default">>)
      BY <2>2 DEF ServerCertRef, None, DefaultCert
    <3>2. MadeBeside(r.by, p) = {"certificate_default"}
      BY <1>4, <2>2 DEF MadeBeside
    <3> QED
      BY <1>2, <2>1, <3>1, <3>2, WordFinds
  <2>3. CASE p # DefaultCert
    <3>1. MadeBeside(r.by, p) = {BareName(p)} /\ Len(p) = 2
      BY <1>4, <2>3 DEF MadeBeside
    <3>2. p # None
      BY <3>1 DEF None
    <3>3. ServerCertRef(p) = Text(<<BareName(p)>>)
      BY <1>4, <2>3, <3>2 DEF ServerCertRef
    <3> QED
      BY <1>2, <2>1, <3>1, <3>3, WordFinds
  <2> QED
    BY <2>2, <2>3
<1>5. CASE r.by = "clientCert"
  <2>1. WrittenBy(r.by, p, h) = ClientCertRef(p, h)
    BY <1>5 DEF WrittenBy
  <2>2. CASE LastOf(p) = "default.crt"
    <3>1. ClientCertRef(p, h) = Text(<<"certificate_default">>)
      BY <2>2 DEF ClientCertRef
    <3>2. MadeBeside(r.by, p) = {"certificate_default"}
      BY <1>5, <2>2 DEF MadeBeside
    <3> QED
      BY <1>2, <2>1, <3>1, <3>2, WordFinds
  <2>3. CASE LastOf(p) # "default.crt"
    <3>1. MadeBeside(r.by, p) = {BareName(p)} /\ Len(p) = 2 /\ p \notin Defaults
      BY <1>5, <2>3 DEF MadeBeside
    <3>2. ClientCertRef(p, h) = Text(h \o <<BareName(p)>>)
      BY <1>5, <2>3, <3>1 DEF ClientCertRef
    <3>3. h \o <<BareName(p)>> = <<h[1], h[2], BareName(p)>>
      BY NameBehind
    <3>4. Finds(Text(h \o <<BareName(p)>>), h, h \o <<BareName(p)>>)
      BY <3>3, PathFinds
    <3> QED
      BY <1>2, <2>1, <3>1, <3>2, <3>4
  <2> QED
    BY <2>2, <2>3
<1> QED
  BY <1>1, <1>3, <1>4, <1>5

(* The certificate that a TLS profile brings with it is the one the        *)
(* profile names, but for the two cases of the property.                   *)
THEOREM CertificatesArrive == Spec => []OwnCertificatesAreFound
<1>1. IInv => OwnCertificatesAreFound
  <2> SUFFICES ASSUME IInv, cleaned, NEW j \in DOMAIN values,
                      MadeBeside(row.by, values[j]) # {},
                      row.by = "serverCert" => Stored[LastOf(values[j])] = BareName(values[j]),
                      row.by = "clientCert" => values[j][1] = Common
               PROVE  j \in kept /\ Leads(j)
    BY DEF OwnCertificatesAreFound
  <2> DEFINE p == values[j]
  <2>1. /\ row \in Rows /\ values \in Named(row)
        /\ IsPath(home) /\ Len(home) = 2
    BY PathsAssumption DEF IInv, TypeInv
  <2>2. row.by \in {"generated", "serverCert", "clientCert"}
    BY DEF MadeBeside
  <2>3. j = 1 /\ IsPath(p)
    BY <2>1, <2>2, OwnPaths, RowsAssumption
  <2>4. PICK name \in MadeBeside(row.by, p) :
            Finds(Reference(row, p, home), home, home \o <<name>>)
    BY <2>1, <2>3, OwnCertificate
  <2>5. /\ written = [k \in DOMAIN values |-> Reference(row, values[k], home)]
        /\ \A n \in MadeBeside(row.by, values[1]) : IsPlaced(home \o <<n>>)
    BY DEF IInv, CleanInv, WrittenInv
  <2>6. j \in DOMAIN written /\ written[j] = Reference(row, p, home)
    BY <2>5
  <2>7. IsPlaced(home \o <<name>>)
    BY <2>3, <2>4, <2>5
  <2> QED
    BY <2>4, <2>6, <2>7, FoundIsKept DEF IInv
<1> QED
  BY <1>1, Invariance, PTL
=============================================================================
