------------------------- MODULE NameResolution_proof -------------------------
(***************************************************************************)
(* For every configuration: the renaming keeps every object, under one key *)
(* each, leaves no two objects with one name, and takes every reference it *)
(* looks for to the new name of the object that was meant.  And flattening *)
(* gives every object what its nearest ancestors set.                      *)
(***************************************************************************)
EXTENDS NameResolution, TLAPS, NaturalsInduction, WellFoundedInduction, FiniteSetTheorems

Entry == [name : Name, obj : Objects]

(* s lists the objects of S, each once.                                    *)
Lists(s, S) ==
    /\ s \in Seq(Objects)
    /\ \A k, m \in DOMAIN s : s[k] = s[m] => k = m
    /\ \A o \in Objects : o \in S <=> \E k \in DOMAIN s : s[k] = o

Dupes == {o \in Objects : IsDupe(config, o)}
IpNames == {o \in Objects : HasIpName(config, o)}
Before(p) == {o \in Objects : o < p}

Present(o) == \E k \in DOMAIN dict : dict[k].obj = o

(* What the dictionary holds stands under its final name, and once.        *)
Entries(d) ==
    /\ d \in Seq(Entry)
    /\ \A k \in DOMAIN d : d[k].name = FinalName(d[k].obj)
    /\ \A k, m \in DOMAIN d : d[k].obj = d[m].obj => k = m

TypeInv ==
    /\ config \in Configs
    /\ pos \in Nat \ {0}
    /\ pc \in {"scan", "rename", "inherit", "walk"}
    /\ DOMAIN refs = Objects

ScanInv ==
    pc = "scan" =>
        /\ Lists(dupes, Dupes \cap Before(pos))
        /\ Lists(ipNames, IpNames \cap Before(pos))
        /\ \A q \in Objects : refs[q] = config[q].refs

Waiting == {o \in Objects : \E k \in DOMAIN todo : todo[k] = o}

TodoInv ==
    pc = "rename" => /\ todo # << >>
                     /\ Lists(todo, Waiting)
                     /\ \A o \in Waiting : ToRename(config, o)

(* The objects whose turn is over.                                         *)
Over(o) == o \notin Waiting \/ (o = Head(todo) /\ o < pos)

LaterRound == \E o \in Objects : ToRename(config, o) /\ o \notin Waiting

DictInv ==
    pc = "rename" =>
        /\ Entries(dict)
        /\ \A o \in Objects : ToRename(config, o) /\ Over(o) => Present(o)
        /\ \A o \in Objects : ~ToRename(config, o) /\ (o < pos \/ LaterRound) => Present(o)

Renewed == {o \in Objects : ToRename(config, o) /\ Over(o)}
RenewedAll == {o \in Objects : ToRename(config, o)}

(* A reference when the objects of S have their new names.                 *)
FollowedTo(r, S) ==
    IF \E t \in S : Means(r, t)
    THEN [r EXCEPT !.to = NewName(config, CHOOSE t \in Objects : Means(r, t))] ELSE r

Moved(q, S) == {FollowedTo(r, S) : r \in config[q].refs}

RefsInv == pc = "rename" => \A q \in Objects : refs[q] = Moved(q, Renewed)

FinalInv ==
    pc \in {"inherit", "walk"} =>
        /\ Entries(dict)
        /\ \A o \in Objects : Present(o)
        /\ \A q \in Objects : refs[q] = Moved(q, RenewedAll)

IInv == /\ TypeInv
        /\ ScanInv
        /\ TodoInv
        /\ ~Clashing => DictInv /\ RefsInv /\ FinalInv
-----------------------------------------------------------------------------
(* The configuration.                                                      *)
LEMMA ConfigType ==
  ASSUME config \in Configs
  PROVE  /\ config \in Seq(Object)
         /\ Objects = 1 .. Len(config) /\ Len(config) \in Nat
         /\ \A o \in Objects : config[o] \in Object
         /\ \A a, b \in Objects :
                config[a].type = config[b].type /\ config[a].name = config[b].name => a = b
<1>1. config \in Seq(Object)
  BY ConfigsAssumption
<1>2. Objects = 1 .. Len(config) /\ Len(config) \in Nat
  BY <1>1 DEF Objects
<1>3. \A o \in Objects : config[o] \in Object
  BY <1>1, <1>2
<1> QED
  BY <1>1, <1>2, <1>3, ConfigsAssumption DEF Objects

LEMMA ObjectParts ==
  ASSUME config \in Configs, NEW o \in Objects
  PROVE  /\ config[o].type \in Types
         /\ config[o].name \in Name
         /\ config[o].name.pre \in Seq(Renamed) /\ config[o].name.base \in Bases
         /\ config[o].name.dup \in Nat
         /\ config[o].refs \subseteq Ref
<1>1. config[o] \in Object
  BY ConfigType
<1> QED
  BY <1>1 DEF Object, Name

LEMMA RenamedType ==
  ASSUME NEW o \in Objects, ToRename(config, o)
  PROVE  config[o].type \in Renamed
BY DEF ToRename, IsDupe, HasIpName, Renamed

(* A type in front of a name.                                              *)
LEMMA Prefixed ==
  ASSUME NEW S, NEW a \in S, NEW s \in Seq(S)
  PROVE  <<a>> \o s \in Seq(S) /\ (<<a>> \o s)[1] = a
OBVIOUS

LEMMA NewNameType ==
  ASSUME config \in Configs, NEW o \in Objects, ToRename(config, o)
  PROVE  NewName(config, o) \in Name
         /\ NewName(config, o).pre[1] = config[o].type
<1>1. config[o].type \in Renamed
  BY RenamedType
<1> DEFINE pre == <<config[o].type>> \o config[o].name.pre
           dup == config[o].name.dup + (IF IsDupe(config, o) THEN 1 ELSE 0)
<1>2. pre \in Seq(Renamed) /\ pre[1] = config[o].type
  BY <1>1, ObjectParts, Prefixed
<1>3. dup \in Nat
  BY ObjectParts
<1>4. NewName(config, o) = [pre |-> pre, base |-> config[o].name.base, dup |-> dup]
  BY DEF NewName
<1> HIDE DEF pre, dup
<1> QED
  BY <1>2, <1>3, <1>4, ObjectParts DEF Name

LEMMA FinalNameType ==
  ASSUME config \in Configs, NEW o \in Objects
  PROVE  FinalName(o) \in Name
BY ObjectParts, NewNameType DEF FinalName

(* Two objects of one type get different names ...                         *)
LEMMA FinalNamesOfType ==
  ASSUME config \in Configs, ~Clashing, NEW o \in Objects, NEW p \in Objects,
         config[o].type = config[p].type, FinalName(o) = FinalName(p)
  PROVE  o = p
<1>1. CASE ToRename(config, o) /\ ToRename(config, p)
  BY <1>1 DEF FinalName, Clashing
<1>2. CASE ToRename(config, o) /\ ~ToRename(config, p)
  BY <1>2 DEF FinalName, Clashing
<1>3. CASE ~ToRename(config, o) /\ ToRename(config, p)
  BY <1>3 DEF FinalName, Clashing
<1>4. CASE ~ToRename(config, o) /\ ~ToRename(config, p)
  BY <1>4, ConfigType DEF FinalName
<1> QED
  BY <1>1, <1>2, <1>3, <1>4

(* ... and so do two objects, one of the six types, the other no virtual   *)
(* address.                                                                *)
LEMMA FinalNamesDiffer ==
  ASSUME config \in Configs, ~Clashing, NEW o \in Objects, NEW p \in Objects,
         config[o].type \in Renamed, config[p].type # "virtual-address",
         FinalName(o) = FinalName(p)
  PROVE  o = p
<1>1. CASE ToRename(config, o) /\ ToRename(config, p)
  <2>1. NewName(config, o) = NewName(config, p)
    BY <1>1 DEF FinalName
  <2>2. config[o].type = config[p].type
    BY <1>1, <2>1, NewNameType
  <2> QED
    BY <2>2, FinalNamesOfType
<1>2. CASE ToRename(config, o) /\ ~ToRename(config, p)
  BY <1>2 DEF FinalName, Clashing
<1>3. CASE ~ToRename(config, o) /\ ToRename(config, p)
  BY <1>3 DEF FinalName, Clashing
<1>4. CASE ~ToRename(config, o) /\ ~ToRename(config, p)
  <2>1. config[o].name = config[p].name
    BY <1>4 DEF FinalName
  <2>2. o # p => IsDupe(config, o)
    BY <2>1 DEF IsDupe, Objects
  <2> QED
    BY <1>4, <2>2 DEF ToRename
<1> QED
  BY <1>1, <1>2, <1>3, <1>4

(* Putting an object under its final name adds it, if it is not there.     *)
LEMMA PutFinal ==
  ASSUME config \in Configs, ~Clashing, NEW d, Entries(d), NEW o \in Objects
  PROVE  /\ Entries(Put(d, FinalName(o), o))
         /\ \A q \in Objects :
                (\E k \in DOMAIN Put(d, FinalName(o), o) : Put(d, FinalName(o), o)[k].obj = q)
                    <=> q = o \/ \E k \in DOMAIN d : d[k].obj = q
<1> DEFINE same == {k \in DOMAIN d : config[d[k].obj].type = config[o].type
                                       /\ d[k].name = FinalName(o)}
           e == [name |-> FinalName(o), obj |-> o]
           new == Put(d, FinalName(o), o)
<1>1. /\ d \in Seq(Entry) /\ DOMAIN d = 1 .. Len(d) /\ Len(d) \in Nat
      /\ \A k \in DOMAIN d : d[k] \in Entry
      /\ \A k \in DOMAIN d : d[k].obj \in Objects /\ d[k].name = FinalName(d[k].obj)
  <2>1. d \in Seq(Entry)
    BY DEF Entries
  <2>2. DOMAIN d = 1 .. Len(d) /\ Len(d) \in Nat /\ \A k \in DOMAIN d : d[k] \in Entry
    BY <2>1
  <2>3. \A k \in DOMAIN d : d[k].obj \in Objects
    BY <2>2 DEF Entry
  <2> QED
    BY <2>1, <2>2, <2>3 DEF Entries
<1>2. \A k \in same : d[k].obj = o
  BY <1>1, FinalNamesOfType
<1>3. CASE same = {}
  <2>1. new = Append(d, e)
    BY <1>3 DEF Put
  <2>2. e \in Entry
    BY FinalNameType DEF Entry
  <2>3. \A k \in DOMAIN d : d[k].obj # o
    BY <1>1, <1>3
  <2> HIDE DEF e, new, same
  <2>4. /\ new \in Seq(Entry) /\ DOMAIN new = 1 .. Len(d) + 1
        /\ \A k \in 1 .. Len(d) : new[k] = d[k]
        /\ new[Len(d) + 1] = e
    BY <1>1, <2>1, <2>2
  <2>5. /\ \A k \in DOMAIN new : (k \in DOMAIN d /\ new[k] = d[k]) \/ k = Len(d) + 1
        /\ DOMAIN d \subseteq DOMAIN new /\ Len(d) + 1 \in DOMAIN new
    BY <1>1, <2>4
  <2>6. e.name = FinalName(o) /\ e.obj = o
    BY DEF e
  <2>7. Entries(new)
    <3>1. \A k \in DOMAIN new : new[k].name = FinalName(new[k].obj)
      BY <1>1, <2>4, <2>5, <2>6
    <3>2. \A k, m \in DOMAIN new : new[k].obj = new[m].obj => k = m
      BY <1>1, <2>3, <2>4, <2>5, <2>6 DEF Entries
    <3> QED
      BY <2>4, <3>1, <3>2 DEF Entries
  <2>8. \A q \in Objects : (\E k \in DOMAIN new : new[k].obj = q)
                               <=> q = o \/ \E k \in DOMAIN d : d[k].obj = q
    BY <1>1, <2>4, <2>5, <2>6
  <2> QED
    BY <2>7, <2>8 DEF new
<1>4. CASE same # {}
  <2>1. new = [k \in DOMAIN d |-> IF k \in same THEN [d[k] EXCEPT !.obj = o] ELSE d[k]]
    BY <1>4 DEF Put
  <2>2. \A k \in same : [d[k] EXCEPT !.obj = o] = d[k]
    BY <1>1, <1>2 DEF Entry
  <2>3. new = [k \in DOMAIN d |-> d[k]]
    BY <2>1, <2>2
  <2>4. new = d
    BY <1>1, <2>3
  <2>5. \E k \in DOMAIN d : d[k].obj = o
    BY <1>2, <1>4
  <2> HIDE DEF new
  <2> QED
    BY <2>4, <2>5 DEF new
<1> QED
  BY <1>3, <1>4
-----------------------------------------------------------------------------
(* References.                                                             *)
LEMMA PropertiesDiffer ==
  ASSUME NEW a \in Types, NEW b \in Types, PropertyOf(a) = PropertyOf(b)
  PROVE  a = b
BY DEF PropertyOf, Types, Renamed

LEMMA MeansOne ==
  ASSUME config \in Configs, NEW r, NEW t \in Objects, NEW u \in Objects,
         Means(r, t), Means(r, u)
  PROVE  t = u
<1>1. config[t].type = config[u].type
  BY ObjectParts, PropertiesDiffer DEF Means
<1> QED
  BY <1>1, ConfigType DEF Means

LEMMA Chosen ==
  ASSUME config \in Configs, NEW r, NEW t \in Objects, Means(r, t)
  PROVE  (CHOOSE u \in Objects : Means(r, u)) = t
BY MeansOne

LEMMA FollowedOne ==
  ASSUME config \in Configs, NEW r, NEW t \in Objects, Means(r, t),
         NEW S \in SUBSET Objects
  PROVE  FollowedTo(r, S) = IF t \in S THEN [r EXCEPT !.to = NewName(config, t)] ELSE r
<1>1. CASE t \in S
  BY <1>1, Chosen DEF FollowedTo
<1>2. CASE t \notin S
  <2>1. ~ \E u \in S : Means(r, u)
    BY <1>2, MeansOne
  <2> QED
    BY <1>2, <2>1 DEF FollowedTo
<1> QED
  BY <1>1, <1>2

LEMMA FollowedNone ==
  ASSUME NEW r, NEW S \in SUBSET Objects, \A t \in Objects : ~Means(r, t)
  PROVE  FollowedTo(r, S) = r
BY DEF FollowedTo

(* Giving one more object its new name moves the references that mean it,  *)
(* and no other: neither those that only have its name, nor those that     *)
(* were moved to it before.                                                *)
LEMMA RetargetOne ==
  ASSUME config \in Configs, ~Clashing, NEW r \in Ref,
         NEW S \in SUBSET RenewedAll, NEW o \in Objects, ToRename(config, o), o \notin S
  PROVE  Retarget(o, FollowedTo(r, S), NewName(config, o)) = FollowedTo(r, S \cup {o})
<1>0. S \in SUBSET Objects /\ S \cup {o} \in SUBSET Objects
  BY DEF RenewedAll
<1>a. r = [via |-> r.via, to |-> r.to]
  BY DEF Ref
<1>1. CASE \A t \in Objects : ~Means(r, t)
  <2>1. FollowedTo(r, S) = r /\ FollowedTo(r, S \cup {o}) = r
    BY <1>0, <1>1, FollowedNone
  <2>2. ~(r.via = PropertyOf(config[o].type) /\ r.to = config[o].name)
    BY <1>1 DEF Means
  <2> QED
    BY <2>1, <2>2 DEF Retarget
<1>2. ASSUME NEW t \in Objects, Means(r, t)
      PROVE  Retarget(o, FollowedTo(r, S), NewName(config, o)) = FollowedTo(r, S \cup {o})
  <2>1. /\ FollowedTo(r, S) = IF t \in S THEN [r EXCEPT !.to = NewName(config, t)] ELSE r
        /\ FollowedTo(r, S \cup {o})
               = IF t \in S \cup {o} THEN [r EXCEPT !.to = NewName(config, t)] ELSE r
    BY <1>0, <1>2, FollowedOne
  <2>2. CASE t \in S
    <3> DEFINE f == [r EXCEPT !.to = NewName(config, t)]
    <3>1. f.to = NewName(config, t)
      BY <1>a
    <3>2. config[o].name # NewName(config, t)
      BY <1>0, <2>2 DEF Clashing, RenewedAll
    <3>3. Retarget(o, f, NewName(config, o)) = f
      BY <3>1, <3>2 DEF Retarget
    <3> QED
      BY <2>1, <2>2, <3>3
  <2>3. CASE t = o
    <3>1. r.via = PropertyOf(config[o].type) /\ r.to = config[o].name
      BY <1>2, <2>3 DEF Means
    <3> QED
      BY <2>1, <2>3, <3>1 DEF Retarget
  <2>4. CASE t \notin S /\ t # o
    <3>1. ~Means(r, o)
      BY <1>2, <2>4, MeansOne
    <3>2. Retarget(o, r, NewName(config, o)) = r
      BY <3>1 DEF Retarget, Means
    <3> QED
      BY <2>1, <2>4, <3>2
  <2> QED
    BY <2>2, <2>3, <2>4
<1> QED
  BY <1>1, <1>2

(* With all of them renamed, references are what the property says.        *)
LEMMA FollowedAll ==
  ASSUME config \in Configs, NEW r \in Ref
  PROVE  FollowedTo(r, RenewedAll) = Followed(r)
<1>0. RenewedAll \in SUBSET Objects
  BY DEF RenewedAll
<1>a. r = [via |-> r.via, to |-> r.to]
  BY DEF Ref
<1>1. CASE \A t \in Objects : ~Means(r, t)
  BY <1>0, <1>1, FollowedNone DEF Followed
<1>2. ASSUME NEW t \in Objects, Means(r, t)
      PROVE  FollowedTo(r, RenewedAll) = Followed(r)
  <2>1. FollowedTo(r, RenewedAll)
            = IF t \in RenewedAll THEN [r EXCEPT !.to = NewName(config, t)] ELSE r
    BY <1>0, <1>2, FollowedOne
  <2>2. Followed(r) = [r EXCEPT !.to = FinalName(t)]
    BY <1>2, Chosen DEF Followed
  <2>3. CASE ToRename(config, t)
    BY <2>1, <2>2, <2>3 DEF FinalName, RenewedAll
  <2>4. CASE ~ToRename(config, t)
    <3>1. FinalName(t) = r.to
      BY <1>2, <2>4 DEF FinalName, Means
    <3>2. [r EXCEPT !.to = r.to] = r
      BY <1>a
    <3> QED
      BY <2>1, <2>2, <2>4, <3>1, <3>2 DEF RenewedAll
  <2> QED
    BY <2>3, <2>4
<1> QED
  BY <1>1, <1>2
-----------------------------------------------------------------------------
(* Lists of objects.                                                       *)
LEMMA ListsNone ==
  ASSUME NEW S, S \cap Objects = {} PROVE Lists(<< >>, S)
BY DEF Lists

LEMMA ListsMore ==
  ASSUME NEW s, NEW S, Lists(s, S), NEW o \in Objects, o \notin S
  PROVE  Lists(Append(s, o), S \cup {o})
<1>1. s \in Seq(Objects) /\ DOMAIN s = 1 .. Len(s) /\ Len(s) \in Nat
  BY DEF Lists
<1> DEFINE new == Append(s, o)
<1>2. /\ new \in Seq(Objects) /\ DOMAIN new = 1 .. Len(s) + 1
      /\ \A k \in 1 .. Len(s) : new[k] = s[k]
      /\ new[Len(s) + 1] = o
  BY <1>1
<1> HIDE DEF new
<1>3. /\ \A k \in DOMAIN new : (k \in DOMAIN s /\ new[k] = s[k]) \/ k = Len(s) + 1
      /\ DOMAIN s \subseteq DOMAIN new /\ Len(s) + 1 \in DOMAIN new
  BY <1>1, <1>2
<1>4. \A k \in DOMAIN s : s[k] # o
  BY DEF Lists
<1>5. \A k, m \in DOMAIN new : new[k] = new[m] => k = m
  BY <1>2, <1>3, <1>4 DEF Lists
<1>6. \A q \in Objects : q \in S \cup {o} <=> \E k \in DOMAIN new : new[k] = q
  BY <1>1, <1>2, <1>3 DEF Lists
<1>7. Lists(new, S \cup {o})
  BY <1>2, <1>5, <1>6 DEF Lists
<1> QED
  BY <1>7 DEF new

LEMMA ListsBoth ==
  ASSUME NEW s, NEW S, NEW t, NEW T, Lists(s, S), Lists(t, T), S \cap T = {}
  PROVE  Lists(s \o t, S \cup T)
<1>1. /\ s \in Seq(Objects) /\ DOMAIN s = 1 .. Len(s) /\ Len(s) \in Nat
      /\ t \in Seq(Objects) /\ DOMAIN t = 1 .. Len(t) /\ Len(t) \in Nat
  BY DEF Lists
<1> DEFINE new == s \o t
<1>2. /\ new \in Seq(Objects) /\ DOMAIN new = 1 .. Len(s) + Len(t)
      /\ \A k \in 1 .. Len(s) : new[k] = s[k]
      /\ \A k \in 1 .. Len(t) : new[Len(s) + k] = t[k]
  BY <1>1
<1> HIDE DEF new
<1>3. ASSUME NEW k \in DOMAIN new
      PROVE  \/ k \in DOMAIN s /\ new[k] = s[k]
             \/ k > Len(s) /\ k - Len(s) \in DOMAIN t /\ new[k] = t[k - Len(s)]
  <2>1. CASE k <= Len(s)
    BY <1>1, <1>2, <2>1
  <2>2. CASE k > Len(s)
    <3>1. k - Len(s) \in 1 .. Len(t) /\ k = Len(s) + (k - Len(s))
      BY <1>1, <1>2, <2>2
    <3> QED
      BY <1>1, <1>2, <2>2, <3>1
  <2> QED
    BY <1>1, <1>2, <2>1, <2>2
<1>4. /\ \A k \in DOMAIN s : s[k] \in Objects /\ s[k] \in S
      /\ \A k \in DOMAIN t : t[k] \in Objects /\ t[k] \in T
  BY <1>1 DEF Lists
<1>5. ASSUME NEW k \in DOMAIN new, NEW m \in DOMAIN new, new[k] = new[m]
      PROVE  k = m
  <2>1. CASE k \in DOMAIN s /\ new[k] = s[k] /\ m \in DOMAIN s /\ new[m] = s[m]
    BY <1>5, <2>1 DEF Lists
  <2>2. CASE /\ k > Len(s) /\ k - Len(s) \in DOMAIN t /\ new[k] = t[k - Len(s)]
             /\ m > Len(s) /\ m - Len(s) \in DOMAIN t /\ new[m] = t[m - Len(s)]
    <3>1. k - Len(s) = m - Len(s)
      BY <1>5, <2>2 DEF Lists
    <3> QED
      BY <1>1, <1>2, <3>1
  <2> QED
    BY <1>3, <1>4, <1>5, <2>1, <2>2
<1>6. ASSUME NEW q \in Objects
      PROVE  q \in S \cup T <=> \E k \in DOMAIN new : new[k] = q
  <2>1. ASSUME q \in S PROVE \E k \in DOMAIN new : new[k] = q
    <3>1. PICK k \in DOMAIN s : s[k] = q
      BY <2>1 DEF Lists
    <3>2. k \in DOMAIN new /\ new[k] = q
      BY <1>1, <1>2, <3>1
    <3> QED
      BY <3>2
  <2>2. ASSUME q \in T PROVE \E k \in DOMAIN new : new[k] = q
    <3>1. PICK k \in DOMAIN t : t[k] = q
      BY <2>2 DEF Lists
    <3>2. Len(s) + k \in DOMAIN new /\ new[Len(s) + k] = q
      BY <1>1, <1>2, <3>1
    <3> QED
      BY <3>2
  <2> QED
    BY <1>3, <1>4, <2>1, <2>2
<1>7. Lists(new, S \cup T)
  BY <1>2, <1>5, <1>6 DEF Lists
<1> QED
  BY <1>7 DEF new

(* Without its first, a list lists the others.                             *)
LEMMA ListsTail ==
  ASSUME NEW s, NEW S, Lists(s, S), s # << >>
  PROVE  /\ Head(s) \in Objects /\ Head(s) \in S
         /\ Lists(Tail(s), S \ {Head(s)})
<1>1. s \in Seq(Objects) /\ DOMAIN s = 1 .. Len(s) /\ Len(s) \in Nat /\ Len(s) # 0
  BY DEF Lists
<1> DEFINE new == Tail(s)
<1>2. /\ new \in Seq(Objects) /\ DOMAIN new = 1 .. Len(s) - 1
      /\ \A k \in 1 .. Len(s) - 1 : new[k] = s[k + 1]
      /\ Head(s) = s[1] /\ s[1] \in Objects
  BY <1>1
<1> HIDE DEF new
<1>3. s[1] \in S /\ 1 \in DOMAIN s
  BY <1>1, <1>2 DEF Lists
<1>4. \A k \in DOMAIN new : k + 1 \in DOMAIN s /\ k + 1 # 1 /\ new[k] = s[k + 1]
  BY <1>1, <1>2
<1>5. ASSUME NEW k \in DOMAIN new, NEW m \in DOMAIN new, new[k] = new[m] PROVE k = m
  <2>1. k + 1 = m + 1
    BY <1>4, <1>5 DEF Lists
  <2> QED
    BY <1>1, <1>2, <2>1
<1>6. ASSUME NEW q \in Objects
      PROVE  q \in S \ {s[1]} <=> \E k \in DOMAIN new : new[k] = q
  <2>1. ASSUME q \in S, q # s[1] PROVE \E k \in DOMAIN new : new[k] = q
    <3>1. PICK k \in DOMAIN s : s[k] = q
      BY <2>1 DEF Lists
    <3>2. k - 1 \in DOMAIN new /\ (k - 1) + 1 = k
      BY <1>1, <1>2, <2>1, <3>1
    <3> QED
      BY <1>4, <3>1, <3>2
  <2>2. ASSUME NEW k \in DOMAIN new, new[k] = q PROVE q \in S /\ q # s[1]
    BY <1>3, <1>4, <2>2 DEF Lists
  <2> QED
    BY <2>1, <2>2
<1>7. Lists(new, S \ {s[1]})
  BY <1>2, <1>5, <1>6 DEF Lists
<1> QED
  BY <1>2, <1>3, <1>7 DEF new

LEMMA ListsSame ==
  ASSUME NEW s, NEW S, NEW T, Lists(s, S), S \cap Objects = T \cap Objects
  PROVE  Lists(s, T)
BY DEF Lists
-----------------------------------------------------------------------------
(* No action changes the configuration, nor what is defined from it alone. *)
LEMMA SameConfig ==
  ASSUME config' = config
  PROVE  /\ Objects' = Objects /\ Dupes' = Dupes /\ IpNames' = IpNames
         /\ RenewedAll' = RenewedAll /\ Clashing' = Clashing
         /\ \A s, S : Lists(s, S)' <=> Lists(s, S)
         /\ \A d : Entries(d)' <=> Entries(d)
         /\ \A q, S : Moved(q, S)' = Moved(q, S)
<1>1. Objects' = Objects
  BY DEF Objects
<1>2. Dupes' = Dupes /\ IpNames' = IpNames /\ RenewedAll' = RenewedAll
  BY <1>1 DEF Dupes, IpNames, RenewedAll
<1>3. Clashing' = Clashing
  BY <1>1 DEF Clashing
<1>4. \A s, S : Lists(s, S)' <=> Lists(s, S)
  BY <1>1 DEF Lists
<1>5. \A o : FinalName(o)' = FinalName(o)
  BY DEF FinalName
<1>6. \A d : Entries(d)' <=> Entries(d)
  BY <1>1, <1>5 DEF Entries, Entry
<1>7. \A r, S : FollowedTo(r, S)' = FollowedTo(r, S)
  BY <1>1 DEF FollowedTo, Means
<1>8. \A q, S : Moved(q, S)' = Moved(q, S)
  <2>1. SUFFICES ASSUME NEW q, NEW S PROVE Moved(q, S)' = Moved(q, S)
    OBVIOUS
  <2>2. {FollowedTo(r, S) : r \in config[q].refs}' = {FollowedTo(r, S)' : r \in config[q].refs}
    OBVIOUS
  <2> QED
    BY <1>7, <2>2 DEF Moved
<1> QED
  BY <1>1, <1>2, <1>3, <1>4, <1>6, <1>8

LEMMA InitIsGood == Init => IInv
<1> SUFFICES ASSUME Init PROVE IInv
  OBVIOUS
<1>1. config \in Configs /\ pos = 1 /\ pc = "scan" /\ dupes = << >> /\ ipNames = << >>
      /\ refs = [o \in Objects |-> config[o].refs]
  BY DEF Init, Objects
<1>2. (Dupes \cap Before(1)) \cap Objects = {} /\ (IpNames \cap Before(1)) \cap Objects = {}
  BY <1>1, ConfigType DEF Before
<1>3. Lists(dupes, Dupes \cap Before(1)) /\ Lists(ipNames, IpNames \cap Before(1))
  BY <1>1, <1>2, ListsNone
<1>4. TypeInv
  BY <1>1 DEF TypeInv
<1>5. ScanInv
  BY <1>1, <1>3 DEF ScanInv
<1> QED
  BY <1>1, <1>4, <1>5 DEF IInv, TodoInv, DictInv, RefsInv, FinalInv

(* The scan lists every object it passes in the list it belongs to.        *)
LEMMA Listed ==
  ASSUME config \in Configs, pos \in Objects, NEW D \in SUBSET Objects,
         NEW s, Lists(s, D \cap Before(pos))
  PROVE  /\ pos \in D => Lists(Append(s, pos), D \cap Before(pos + 1))
         /\ pos \notin D => Lists(s, D \cap Before(pos + 1))
<1>1. /\ Before(pos + 1) = Before(pos) \cup {pos}
      /\ pos \notin Before(pos)
  BY ConfigType DEF Before
<1>2. pos \in D => D \cap Before(pos + 1) = (D \cap Before(pos)) \cup {pos}
  BY <1>1
<1>3. pos \notin D => D \cap Before(pos + 1) = D \cap Before(pos)
  BY <1>1
<1> QED
  BY <1>1, <1>2, <1>3, ListsMore

LEMMA ScanKeyStep ==
  ASSUME IInv, ScanKey
  PROVE  IInv'
<1>1. /\ pc = "scan" /\ pc' = "scan" /\ config' = config /\ refs' = refs /\ pos' = pos + 1
      /\ dupes' = IF IsDupe(config, pos) THEN Append(dupes, pos) ELSE dupes
      /\ ipNames' = IF HasIpName(config, pos) THEN Append(ipNames, pos) ELSE ipNames
      /\ pos <= Len(config)
  BY DEF ScanKey
<1>2. TypeInv /\ ScanInv
  BY DEF IInv
<1>3. config \in Configs /\ pos \in Nat \ {0} /\ pos \in Objects
  BY <1>1, <1>2, ConfigType DEF TypeInv
<1>4. Lists(dupes', Dupes \cap Before(pos + 1))
  <2>1. Lists(dupes, Dupes \cap Before(pos))
    BY <1>1, <1>2 DEF ScanInv
  <2>2. pos \in Dupes <=> IsDupe(config, pos)
    BY <1>3 DEF Dupes
  <2>3. Dupes \in SUBSET Objects
    BY DEF Dupes
  <2> QED
    BY <1>1, <1>3, <2>1, <2>2, <2>3, Listed
<1>5. Lists(ipNames', IpNames \cap Before(pos + 1))
  <2>1. Lists(ipNames, IpNames \cap Before(pos))
    BY <1>1, <1>2 DEF ScanInv
  <2>2. pos \in IpNames <=> HasIpName(config, pos)
    BY <1>3 DEF IpNames
  <2>3. IpNames \in SUBSET Objects
    BY DEF IpNames
  <2> QED
    BY <1>1, <1>3, <2>1, <2>2, <2>3, Listed
<1>6. Before(pos)' = Before(pos + 1)
  BY <1>1, SameConfig DEF Before
<1>7. ScanInv'
  <2>1. Lists(dupes, Dupes \cap Before(pos))'
    BY <1>1, <1>4, <1>6, SameConfig
  <2>2. Lists(ipNames, IpNames \cap Before(pos))'
    BY <1>1, <1>5, <1>6, SameConfig
  <2>3. (\A q \in Objects : refs[q] = config[q].refs)'
    BY <1>1, <1>2, SameConfig DEF ScanInv
  <2> QED
    BY <2>1, <2>2, <2>3 DEF ScanInv
<1>8. TypeInv'
  BY <1>1, <1>2, SameConfig DEF TypeInv
<1> QED
  BY <1>1, <1>7, <1>8 DEF IInv, TodoInv, DictInv, RefsInv, FinalInv

LEMMA ScanEndStep ==
  ASSUME IInv, ScanEnd
  PROVE  IInv'
<1>1. /\ pc = "scan" /\ config' = config /\ refs' = refs /\ pos' = 1
      /\ pos > Len(config) /\ todo' = dupes \o ipNames
      /\ dict' = IF todo' = << >>
                 THEN [o \in Objects |-> [name |-> config[o].name, obj |-> o]] ELSE << >>
      /\ pc' = IF todo' = << >> THEN "inherit" ELSE "rename"
  BY DEF ScanEnd, Objects
<1>2. TypeInv /\ ScanInv
  BY DEF IInv
<1>3. /\ config \in Configs /\ pos \in Nat
      /\ \A q \in Objects : refs[q] = config[q].refs
  BY <1>1, <1>2 DEF TypeInv, ScanInv
<1>4. Before(pos) = Objects
  BY <1>1, <1>3, ConfigType DEF Before
<1>5. Lists(todo', RenewedAll)
  <2>1. Dupes \cap Before(pos) = Dupes /\ IpNames \cap Before(pos) = IpNames
    BY <1>4 DEF Dupes, IpNames
  <2>2. Lists(dupes, Dupes) /\ Lists(ipNames, IpNames)
    BY <1>1, <1>2, <2>1 DEF ScanInv
  <2>3. Dupes \cap IpNames = {} /\ Dupes \cup IpNames = RenewedAll
    BY DEF Dupes, IpNames, RenewedAll, ToRename, HasIpName
  <2> QED
    BY <1>1, <2>2, <2>3, ListsBoth
<1>6. TypeInv'
  BY <1>1, <1>2, SameConfig DEF TypeInv
<1>7. \A r : FollowedTo(r, {}) = r
  BY DEF FollowedTo
<1>8. \A q \in Objects : refs[q] = Moved(q, {})
  BY <1>3, <1>7 DEF Moved
<1>9. CASE todo' = << >>
  <2>1. RenewedAll = {}
    BY <1>5, <1>9 DEF Lists, RenewedAll
  <2> DEFINE d == [o \in Objects |-> [name |-> config[o].name, obj |-> o]]
  <2>2. \A o \in Objects : d[o] \in Entry /\ d[o].obj = o /\ d[o].name = FinalName(o)
    BY <1>3, <2>1, ObjectParts DEF Entry, RenewedAll, FinalName
  <2>3. dict' = d /\ DOMAIN d = Objects
    BY <1>1, <1>9
  <2> HIDE DEF d
  <2>4. d \in Seq(Entry)
    <3>1. d = [o \in Objects |-> d[o]]
      BY DEF d
    <3>2. d \in [1 .. Len(config) -> Entry] /\ Len(config) \in Nat
      BY <1>3, <2>2, <3>1, ConfigType
    <3> QED
      BY <3>2
  <2>5. Entries(d)
    BY <2>2, <2>3, <2>4 DEF Entries
  <2>6. Entries(dict)'
    BY <1>1, <2>3, <2>5, SameConfig
  <2>7. (\A o \in Objects : Present(o))'
    BY <1>1, <2>2, <2>3, SameConfig DEF Present
  <2>8. (\A q \in Objects : refs[q] = Moved(q, RenewedAll))'
    BY <1>1, <1>8, <2>1, SameConfig
  <2>9. FinalInv'
    BY <2>6, <2>7, <2>8 DEF FinalInv
  <2>10. pc' = "inherit"
    BY <1>1, <1>9
  <2> QED
    BY <1>6, <2>9, <2>10 DEF IInv, ScanInv, TodoInv, DictInv, RefsInv
<1>10. CASE todo' # << >>
  <2>1. pc' = "rename" /\ dict' = << >>
    BY <1>1, <1>10
  <2>2. Waiting' = RenewedAll
    BY <1>1, <1>5, SameConfig DEF Waiting, Lists, RenewedAll
  <2>3. TodoInv'
    BY <1>1, <1>5, <1>10, <2>2, SameConfig DEF TodoInv, RenewedAll
  <2>4. /\ \A o \in Objects : ~(o < 1)
        /\ \A o \in RenewedAll : ~Over(o)'
    BY <1>1, <1>3, <2>2, ConfigType DEF Over, RenewedAll
  <2>5. Renewed' = {} /\ ~LaterRound'
    BY <1>1, <2>2, <2>4, SameConfig DEF Renewed, RenewedAll, LaterRound
  <2>6. Entries(<< >>)
    BY DEF Entries
  <2>7. DictInv'
    <3>1. Entries(dict)'
      BY <1>1, <2>1, <2>6, SameConfig
    <3>2. (\A o \in Objects : ToRename(config, o) /\ Over(o) => Present(o))'
      BY <1>1, <2>4, SameConfig DEF RenewedAll
    <3>3. (\A o \in Objects : ~ToRename(config, o) /\ (o < pos \/ LaterRound) => Present(o))'
      BY <1>1, <2>4, <2>5, SameConfig
    <3> QED
      BY <3>1, <3>2, <3>3 DEF DictInv
  <2>8. RefsInv'
    BY <1>1, <1>8, <2>5, SameConfig DEF RefsInv
  <2> QED
    BY <1>6, <2>1, <2>3, <2>7, <2>8 DEF IInv, ScanInv, FinalInv
<1> QED
  BY <1>9, <1>10

(* In a round, the object at its head is still to be renamed.              *)
LEMMA HeadWaits ==
  ASSUME TodoInv, pc = "rename"
  PROVE  /\ Head(todo) \in Objects /\ Head(todo) \in Waiting
         /\ ToRename(config, Head(todo))
         /\ Lists(Tail(todo), Waiting \ {Head(todo)})
BY ListsTail DEF TodoInv

LEMMA RenameKeyStep ==
  ASSUME IInv, RenameKey
  PROVE  IInv'
<1> DEFINE new == NewName(config, pos)
<1>1. /\ pc = "rename" /\ pc' = "rename" /\ config' = config /\ pos' = pos + 1
      /\ todo' = todo /\ pos <= Len(config) /\ pos = Head(todo)
      /\ dict' = Put(dict, new, pos)
      /\ refs' = [q \in Objects |-> {Retarget(pos, r, new) : r \in refs[q]}]
  BY DEF RenameKey, Objects
<1>2. TypeInv /\ TodoInv /\ (~Clashing => DictInv /\ RefsInv)
  BY DEF IInv
<1>3. /\ config \in Configs /\ pos \in Nat /\ pos \in Objects
      /\ pos \in Waiting /\ ToRename(config, pos)
  BY <1>1, <1>2, HeadWaits DEF TypeInv
<1>4. Waiting' = Waiting
  BY <1>1, SameConfig DEF Waiting
<1>5. TodoInv'
  BY <1>1, <1>2, <1>4, SameConfig DEF TodoInv
<1>6. TypeInv'
  BY <1>1, <1>2, <1>3, SameConfig DEF TypeInv
<1>7. ASSUME NEW o \in Objects PROVE Over(o)' <=> Over(o) \/ o = pos
  <2>1. o \in Nat
    BY <1>3, ConfigType
  <2>2. o < pos + 1 <=> o < pos \/ o = pos
    BY <1>3, <2>1
  <2> QED
    BY <1>1, <1>4, <2>2 DEF Over
<1>8. Renewed' = Renewed \cup {pos} /\ pos \notin Renewed /\ Renewed \in SUBSET RenewedAll
  <2>1. Renewed' = {o \in Objects : ToRename(config, o) /\ (Over(o) \/ o = pos)}
    BY <1>1, <1>7, SameConfig DEF Renewed
  <2>2. ~Over(pos)
    BY <1>3 DEF Over
  <2> QED
    BY <1>3, <2>1, <2>2 DEF Renewed, RenewedAll
<1>9. LaterRound' <=> LaterRound
  BY <1>1, <1>4, SameConfig DEF LaterRound
<1>10. ASSUME ~Clashing PROVE DictInv' /\ RefsInv'
  <2>1. DictInv /\ RefsInv
    BY <1>2, <1>10
  <2>2. new = FinalName(pos)
    BY <1>3 DEF FinalName
  <2>3. Entries(dict)
    BY <1>1, <2>1 DEF DictInv
  <2>a. dict' = Put(dict, FinalName(pos), pos)
    BY <1>1, <2>2
  <2>b. /\ Entries(Put(dict, FinalName(pos), pos))
        /\ \A q \in Objects :
               (\E k \in DOMAIN Put(dict, FinalName(pos), pos) :
                    Put(dict, FinalName(pos), pos)[k].obj = q)
                   <=> q = pos \/ \E k \in DOMAIN dict : dict[k].obj = q
    BY <1>3, <1>10, <2>3, PutFinal
  <2>4. Entries(dict')
    BY <2>a, <2>b
  <2>5. \A q \in Objects : (\E k \in DOMAIN dict' : dict'[k].obj = q)
                               <=> q = pos \/ \E k \in DOMAIN dict : dict[k].obj = q
    BY <2>a, <2>b
  <2>6. \A q \in Objects : Present(q)' <=> q = pos \/ Present(q)
    BY <1>1, <2>5 DEF Present
  <2>7. DictInv'
    <3>1. Entries(dict)'
      BY <1>1, <2>4, SameConfig
    <3>2. (\A o \in Objects : ToRename(config, o) /\ Over(o) => Present(o))'
      BY <1>1, <1>7, <2>1, <2>6, SameConfig DEF DictInv
    <3>3. ASSUME NEW o \in Objects, ~ToRename(config, o), o < pos + 1 \/ LaterRound
          PROVE  Present(o)
      <4>1. o # pos /\ o \in Nat
        BY <1>3, <3>3, ConfigType
      <4>2. o < pos \/ LaterRound
        BY <1>3, <3>3, <4>1
      <4> QED
        BY <1>1, <2>1, <3>3, <4>2 DEF DictInv
    <3>4. (\A o \in Objects : ~ToRename(config, o) /\ (o < pos \/ LaterRound) => Present(o))'
      BY <1>1, <1>9, <2>6, <3>3, SameConfig
    <3> QED
      BY <3>1, <3>2, <3>4 DEF DictInv
  <2>8. ASSUME NEW q \in Objects
        PROVE  refs'[q] = Moved(q, Renewed \cup {pos})
    <3>1. refs[q] = {FollowedTo(r, Renewed) : r \in config[q].refs}
      BY <1>1, <2>1 DEF RefsInv, Moved
    <3>2. refs'[q] = {Retarget(pos, FollowedTo(r, Renewed), new) : r \in config[q].refs}
      BY <1>1, <3>1
    <3>3. config[q].refs \subseteq Ref
      BY <1>3, ObjectParts
    <3>4. \A r \in config[q].refs : Retarget(pos, FollowedTo(r, Renewed), new)
                                        = FollowedTo(r, Renewed \cup {pos})
      BY <1>3, <1>8, <1>10, <3>3, RetargetOne
    <3> HIDE DEF new
    <3> QED
      BY <3>2, <3>4 DEF Moved
  <2>9. RefsInv'
    BY <1>1, <1>8, <2>8, SameConfig DEF RefsInv
  <2> QED
    BY <2>7, <2>9
<1>11. ~Clashing' => DictInv' /\ RefsInv'
  BY <1>1, <1>10, SameConfig
<1> QED
  BY <1>1, <1>5, <1>6, <1>11 DEF IInv, ScanInv, FinalInv

LEMMA KeepKeyStep ==
  ASSUME IInv, KeepKey
  PROVE  IInv'
<1>1. /\ pc = "rename" /\ pc' = "rename" /\ config' = config /\ pos' = pos + 1
      /\ todo' = todo /\ pos <= Len(config) /\ pos # Head(todo) /\ refs' = refs
      /\ dict' = IF ToRename(config, pos) THEN dict ELSE PutUntouched(dict, pos)
  BY DEF KeepKey
<1>2. TypeInv /\ TodoInv /\ (~Clashing => DictInv /\ RefsInv)
  BY DEF IInv
<1>3. config \in Configs /\ pos \in Nat /\ pos \in Objects
  BY <1>1, <1>2, ConfigType DEF TypeInv
<1>4. Waiting' = Waiting
  BY <1>1, SameConfig DEF Waiting
<1>5. TodoInv'
  BY <1>1, <1>2, <1>4, SameConfig DEF TodoInv
<1>6. TypeInv'
  BY <1>1, <1>2, <1>3, SameConfig DEF TypeInv
<1>a. \A o \in Objects : o < pos + 1 <=> o < pos \/ o = pos
  <2>1. \A o \in Objects : o \in Nat
    BY <1>3, ConfigType
  <2> QED
    BY <1>3, <2>1
<1>7. \A o \in Objects : Over(o)' <=> Over(o)
  BY <1>1, <1>4, <1>a DEF Over
<1>8. Renewed' = Renewed /\ (LaterRound' <=> LaterRound)
  BY <1>1, <1>4, <1>7, SameConfig DEF Renewed, LaterRound
<1>9. ASSUME ~Clashing PROVE DictInv'
  <2>1. DictInv /\ Entries(dict)
    BY <1>1, <1>2, <1>9 DEF DictInv
  <2>2. /\ Entries(dict')
        /\ \A q \in Objects : Present(q)' <=>
               Present(q) \/ (q = pos /\ ~ToRename(config, pos))
    <3>1. CASE ToRename(config, pos)
      BY <1>1, <2>1, <3>1 DEF Present
    <3>2. CASE ~ToRename(config, pos)
      <4>1. dict' = Put(dict, FinalName(pos), pos)
        BY <1>1, <3>2 DEF PutUntouched, FinalName
      <4>2. /\ Entries(Put(dict, FinalName(pos), pos))
            /\ \A q \in Objects :
                   (\E k \in DOMAIN Put(dict, FinalName(pos), pos) :
                        Put(dict, FinalName(pos), pos)[k].obj = q)
                       <=> q = pos \/ \E k \in DOMAIN dict : dict[k].obj = q
        BY <1>3, <1>9, <2>1, PutFinal
      <4> QED
        BY <3>2, <4>1, <4>2 DEF Present
    <3> QED
      BY <3>1, <3>2
  <2>3. Entries(dict)'
    BY <1>1, <2>2, SameConfig
  <2>4. (\A o \in Objects : ToRename(config, o) /\ Over(o) => Present(o))'
    BY <1>1, <1>7, <2>1, <2>2, SameConfig DEF DictInv
  <2>5. (\A o \in Objects : ~ToRename(config, o) /\ (o < pos \/ LaterRound) => Present(o))'
    BY <1>1, <1>8, <1>a, <2>1, <2>2, SameConfig DEF DictInv
  <2> QED
    BY <2>3, <2>4, <2>5 DEF DictInv
<1>10. ASSUME ~Clashing PROVE RefsInv'
  BY <1>1, <1>2, <1>8, <1>10, SameConfig DEF RefsInv
<1>11. ~Clashing' => DictInv' /\ RefsInv'
  BY <1>1, <1>9, <1>10, SameConfig
<1> QED
  BY <1>1, <1>5, <1>6, <1>11 DEF IInv, ScanInv, FinalInv

LEMMA EndRoundStep ==
  ASSUME IInv, EndRound
  PROVE  IInv'
<1>1. /\ pc = "rename" /\ config' = config /\ pos' = 1 /\ todo' = Tail(todo)
      /\ pos > Len(config) /\ refs' = refs /\ dict' = dict
      /\ pc' = IF todo' = << >> THEN "inherit" ELSE "rename"
  BY DEF EndRound
<1>2. TypeInv /\ TodoInv /\ (~Clashing => DictInv /\ RefsInv)
  BY DEF IInv
<1>3. config \in Configs /\ pos \in Nat /\ \A o \in Objects : o < pos /\ ~(o < 1)
  BY <1>1, <1>2, ConfigType DEF TypeInv
<1> DEFINE h == Head(todo)
<1>4. /\ h \in Objects /\ h \in Waiting /\ ToRename(config, h)
      /\ Lists(todo', Waiting \ {h})
  BY <1>1, <1>2, HeadWaits
<1>5. Waiting' = Waiting \ {h}
  <2>1. \A o \in Objects : o \in Waiting \ {h} <=> \E k \in DOMAIN todo' : todo'[k] = o
    BY <1>4 DEF Lists
  <2>2. Waiting' = {o \in Objects : \E k \in DOMAIN todo' : todo'[k] = o}
    BY <1>1, SameConfig DEF Waiting
  <2>3. Waiting \ {h} \subseteq Objects
    BY DEF Waiting
  <2> QED
    BY <2>1, <2>2, <2>3
<1>6. TypeInv'
  BY <1>1, <1>2, SameConfig DEF TypeInv
<1>7. TodoInv'
  <2>1. \A o \in Waiting' : ToRename(config, o)
    BY <1>1, <1>2, <1>5 DEF TodoInv
  <2>2. Lists(todo, Waiting)'
    BY <1>1, <1>4, <1>5, SameConfig
  <2> QED
    BY <1>1, <2>1, <2>2 DEF TodoInv
<1>8. \A o \in Objects : Over(o)' <=> Over(o)
  BY <1>1, <1>3, <1>4, <1>5 DEF Over
<1>9. Renewed' = Renewed
  BY <1>1, <1>8, SameConfig DEF Renewed
<1>10. ASSUME ~Clashing
       PROVE  /\ Entries(dict)'
              /\ \A o \in Objects : ToRename(config, o) /\ Over(o) => Present(o)'
              /\ \A o \in Objects : ~ToRename(config, o) => Present(o)'
              /\ \A q \in Objects : refs'[q] = Moved(q, Renewed)
  <2>1. DictInv /\ RefsInv
    BY <1>2, <1>10
  <2>2. Entries(dict)'
    BY <1>1, <2>1, SameConfig DEF DictInv
  <2>3. \A o : Present(o)' <=> Present(o)
    BY <1>1 DEF Present
  <2> QED
    BY <1>1, <1>3, <2>1, <2>2, <2>3 DEF DictInv, RefsInv
<1>11. CASE todo' = << >>
  <2>1. Waiting' = {}
    BY <1>11 DEF Waiting
  <2>2. \A o \in Objects : Over(o)
    BY <1>8, <2>1 DEF Over
  <2>3. Renewed = RenewedAll
    BY <2>2 DEF Renewed, RenewedAll
  <2>4. ASSUME ~Clashing PROVE FinalInv'
    <3>1. (\A o \in Objects : Present(o))'
      BY <1>1, <1>10, <2>2, <2>4, SameConfig
    <3>2. (\A q \in Objects : refs[q] = Moved(q, RenewedAll))'
      BY <1>1, <1>10, <2>3, <2>4, SameConfig
    <3> QED
      BY <1>10, <2>4, <3>1, <3>2 DEF FinalInv
  <2>5. ~Clashing' => FinalInv'
    BY <1>1, <2>4, SameConfig
  <2>6. pc' = "inherit"
    BY <1>1, <1>11
  <2> QED
    BY <1>6, <1>7, <2>5, <2>6 DEF IInv, ScanInv, DictInv, RefsInv
<1>12. CASE todo' # << >>
  <2>1. ASSUME ~Clashing PROVE DictInv' /\ RefsInv'
    <3>1. (\A o \in Objects : ToRename(config, o) /\ Over(o) => Present(o))'
      BY <1>1, <1>8, <1>10, <2>1, SameConfig
    <3>2. (\A o \in Objects : ~ToRename(config, o) /\ (o < pos \/ LaterRound) => Present(o))'
      BY <1>1, <1>10, <2>1, SameConfig
    <3>3. (\A q \in Objects : refs[q] = Moved(q, Renewed))'
      BY <1>1, <1>9, <1>10, <2>1, SameConfig
    <3> QED
      BY <1>10, <2>1, <3>1, <3>2, <3>3 DEF DictInv, RefsInv
  <2>2. ~Clashing' => DictInv' /\ RefsInv'
    BY <1>1, <2>1, SameConfig
  <2>3. pc' = "rename"
    BY <1>1, <1>12
  <2> QED
    BY <1>6, <1>7, <2>2, <2>3 DEF IInv, ScanInv, FinalInv
<1> QED
  BY <1>11, <1>12

(* What follows the renaming leaves its result alone.                      *)
LEMMA InheritStep ==
  ASSUME IInv, pc \in {"inherit", "walk"}, pc' \in {"inherit", "walk"},
         config' = config, dict' = dict, refs' = refs, pos' \in {pos, pos + 1}
  PROVE  IInv'
<1>1. TypeInv /\ (~Clashing => FinalInv)
  BY DEF IInv
<1>2. TypeInv'
  BY <1>1, SameConfig DEF TypeInv
<1>3. ASSUME ~Clashing PROVE FinalInv'
  <2>1. FinalInv
    BY <1>1, <1>3
  <2>2. Entries(dict)'
    BY <2>1, SameConfig DEF FinalInv
  <2>3. (\A o \in Objects : Present(o))'
    BY <2>1, SameConfig DEF FinalInv, Present
  <2>4. (\A q \in Objects : refs[q] = Moved(q, RenewedAll))'
    BY <2>1, SameConfig DEF FinalInv
  <2> QED
    BY <2>2, <2>3, <2>4 DEF FinalInv
<1>4. ~Clashing' => FinalInv'
  BY <1>3, SameConfig
<1> QED
  BY <1>2, <1>4 DEF IInv, ScanInv, TodoInv, DictInv, RefsInv

LEMMA NextStep ==
  ASSUME IInv, [Next]_vars
  PROVE  IInv'
<1>1. CASE ScanKey
  BY <1>1, ScanKeyStep
<1>2. CASE ScanEnd
  BY <1>2, ScanEndStep
<1>3. CASE RenameKey
  BY <1>3, RenameKeyStep
<1>4. CASE KeepKey
  BY <1>4, KeepKeyStep
<1>5. CASE EndRound
  BY <1>5, EndRoundStep
<1>6. CASE SkipKey
  BY <1>6, InheritStep DEF SkipKey
<1>7. CASE StartChain
  BY <1>7, InheritStep DEF StartChain
<1>8. CASE Walk
  BY <1>8, InheritStep DEF Walk
<1>9. CASE MergeChain
  BY <1>9, InheritStep DEF MergeChain
<1>10. CASE UNCHANGED vars
  <2>1. /\ config' = config /\ dupes' = dupes /\ ipNames' = ipNames /\ todo' = todo
        /\ dict' = dict /\ refs' = refs /\ pos' = pos /\ pc' = pc
    BY <1>10 DEF vars
  <2>2. /\ Before(pos)' = Before(pos) /\ Waiting' = Waiting
        /\ (\A o : Over(o)' <=> Over(o)) /\ (\A o : Present(o)' <=> Present(o))
    BY <2>1, SameConfig DEF Before, Waiting, Over, Present
  <2>3. Renewed' = Renewed /\ (LaterRound' <=> LaterRound)
    BY <2>1, <2>2, SameConfig DEF Renewed, LaterRound
  <2>4. TypeInv' /\ ScanInv' /\ TodoInv'
    BY <2>1, <2>2, SameConfig DEF IInv, TypeInv, ScanInv, TodoInv
  <2>5. ~Clashing' => DictInv'
    BY <2>1, <2>2, <2>3, SameConfig DEF IInv, DictInv
  <2>6. ~Clashing' => RefsInv' /\ FinalInv'
    BY <2>1, <2>2, <2>3, SameConfig DEF IInv, RefsInv, FinalInv
  <2> QED
    BY <2>4, <2>5, <2>6 DEF IInv
<1> QED
  BY <1>1, <1>2, <1>3, <1>4, <1>5, <1>6, <1>7, <1>8, <1>9, <1>10 DEF Next

(* Halfway through a round, the dictionary holds the objects whose turn    *)
(* is over, and the references to them, and only these, are moved.         *)
THEOREM Invariance == Spec => []IInv
<1> QED
  BY InitIsGood, NextStep, PTL DEF Spec

(* Once the loop is over, every object of the configuration stands in the  *)
(* dictionary, under one key and under its final name, and none of the six *)
(* renamed types shares a name with another object, virtual addresses      *)
(* aside: for every configuration whose names the renaming does not make.  *)
THEOREM NamesStayApart == Spec => []NamesAreUnique
<1>1. ASSUME IInv PROVE NamesAreUnique
  <2> SUFFICES ASSUME ~Renaming, ~Clashing
               PROVE  /\ \A o \in Objects : \E k \in DOMAIN dict :
                             dict[k] = [name |-> FinalName(o), obj |-> o]
                      /\ \A k, m \in DOMAIN dict :
                             /\ dict[k].obj = dict[m].obj => k = m
                             /\ dict[k].name = dict[m].name
                                /\ config[dict[k].obj].type \in Renamed
                                    => \/ k = m
                                       \/ config[dict[m].obj].type = "virtual-address"
    BY DEF NamesAreUnique
  <2>1. config \in Configs /\ FinalInv /\ pc \in {"inherit", "walk"}
    BY <1>1 DEF IInv, TypeInv, Renaming
  <2>2. Entries(dict) /\ \A o \in Objects : Present(o)
    BY <2>1 DEF FinalInv
  <2>3. \A k \in DOMAIN dict : /\ dict[k].obj \in Objects
                               /\ dict[k] = [name |-> FinalName(dict[k].obj),
                                             obj |-> dict[k].obj]
    <3>1. dict \in Seq(Entry)
      BY <2>2 DEF Entries
    <3>2. \A k \in DOMAIN dict : dict[k] \in Entry
      BY <3>1
    <3> QED
      BY <2>2, <3>2 DEF Entries, Entry
  <2>4. ASSUME NEW o \in Objects
        PROVE  \E k \in DOMAIN dict : dict[k] = [name |-> FinalName(o), obj |-> o]
    BY <2>2, <2>3 DEF Present
  <2>5. ASSUME NEW k \in DOMAIN dict, NEW m \in DOMAIN dict
        PROVE  /\ dict[k].obj = dict[m].obj => k = m
               /\ dict[k].name = dict[m].name /\ config[dict[k].obj].type \in Renamed
                      => k = m \/ config[dict[m].obj].type = "virtual-address"
    <3>1. dict[k].obj = dict[m].obj => k = m
      BY <2>2 DEF Entries
    <3>2. ASSUME dict[k].name = dict[m].name, config[dict[k].obj].type \in Renamed,
                 config[dict[m].obj].type # "virtual-address"
          PROVE  k = m
      <4>1. FinalName(dict[k].obj) = FinalName(dict[m].obj)
        BY <2>2, <3>2 DEF Entries
      <4>2. dict[k].obj = dict[m].obj
        BY <2>1, <2>3, <3>2, <4>1, FinalNamesDiffer
      <4> QED
        BY <3>1, <4>2
    <3> QED
      BY <3>1, <3>2
  <2> QED
    BY <2>4, <2>5
<1> QED
  BY <1>1, Invariance, PTL

(* Every reference the code looks for leads, after all rounds, to the new  *)
(* name of the very object it meant, and every other one is as written.    *)
THEOREM ReferencesLeadOn == Spec => []RefsFollow
<1>1. ASSUME IInv PROVE RefsFollow
  <2> SUFFICES ASSUME ~Renaming, ~Clashing, NEW o \in Objects
               PROVE  refs[o] = {Followed(r) : r \in config[o].refs}
    BY DEF RefsFollow
  <2>1. config \in Configs /\ FinalInv /\ pc \in {"inherit", "walk"}
    BY <1>1 DEF IInv, TypeInv, Renaming
  <2>2. refs[o] = {FollowedTo(r, RenewedAll) : r \in config[o].refs}
    BY <2>1 DEF FinalInv, Moved
  <2>3. \A r \in config[o].refs : FollowedTo(r, RenewedAll) = Followed(r)
    BY <2>1, ObjectParts, FollowedAll
  <2> QED
    BY <2>2, <2>3
<1> QED
  BY <1>1, Invariance, PTL
-----------------------------------------------------------------------------
(* A set of numbers that has 0 and the successor of each of its elements   *)
(* has all.                                                                *)
LEMMA SetInduction ==
  ASSUME NEW T, 0 \in T, \A m \in Nat : m \in T => m + 1 \in T
  PROVE  Nat \subseteq T
<1> DEFINE Less == OpToRel(<, Nat)
<1>1. \A a, b \in Nat : <<a, b>> \in Less <=> a < b
  BY DEF OpToRel
<1>2. IsWellFoundedOn(Less, Nat)
  BY NatLessThanWellFounded
<1> HIDE DEF Less
<1> SUFFICES ASSUME Nat \ T # {} PROVE FALSE
  OBVIOUS
<1>3. PICK x \in Nat \ T : \A y \in Nat \ T : <<y, x>> \notin Less
  BY <1>2, WFMin
<1>4. x # 0 /\ x - 1 \in Nat /\ x - 1 < x /\ (x - 1) + 1 = x
  BY <1>3
<1>5. x - 1 \in T
  BY <1>1, <1>3, <1>4
<1> QED BY <1>3, <1>4, <1>5

LEMMA LeastExists ==
  ASSUME NEW S \in SUBSET Nat, S # {}
  PROVE  \E k \in S : \A m \in S : k <= m
<1> DEFINE Less == OpToRel(<, Nat)
<1>1. \A a, b \in Nat : <<a, b>> \in Less <=> a < b
  BY DEF OpToRel
<1>2. IsWellFoundedOn(Less, Nat)
  BY NatLessThanWellFounded
<1> HIDE DEF Less
<1>3. PICK x \in S : \A y \in S : <<y, x>> \notin Less
  BY <1>2, WFMin
<1>4. \A y \in S : y \in Nat /\ x \in Nat /\ ~(y < x)
  BY <1>1, <1>3
<1> QED BY <1>4

(* The least of a set of numbers.                                          *)
Least(S) == CHOOSE k \in S : \A m \in S : k <= m

LEMMA LeastIs ==
  ASSUME NEW S \in SUBSET Nat, NEW k \in S, \A m \in S : k <= m
  PROVE  Least(S) = k
<1>1. \A j \in S : (\A m \in S : j <= m) => j = k
  OBVIOUS
<1> QED BY <1>1 DEF Least

LEMMA LeastIn ==
  ASSUME NEW S \in SUBSET Nat, S # {}
  PROVE  Least(S) \in S /\ \A m \in S : Least(S) <= m
BY LeastExists DEF Least
-----------------------------------------------------------------------------
(* The objects that the code finds as the parent of x: those that have in  *)
(* the dictionary the name that x was given for its parent.                *)
CodeUp(x) == {q \in Objects : config[q].type = config[x].type
                                /\ FinalName(q) = config[x].parent}

(* The ancestors of o, nearest first, to the last that the code finds.     *)
Ancestry(o, s) ==
    /\ s \in Seq(Objects) /\ s # << >> /\ s[1] = o
    /\ \A k \in 1 .. Len(s) - 1 : s[k + 1] \in CodeUp(s[k])
    /\ CodeUp(s[Len(s)]) = {}

Setters(s, p) == {k \in DOMAIN s : p \in config[s[k]].sets}
AllSet(s) == UNION {config[s[k]].sets : k \in DOMAIN s}

(* What o has when the objects of s set their parameters, nearest first.   *)
Inherited(s) == [p \in AllSet(s) |-> s[Least(Setters(s, p))]]

Own(o) == [p \in config[o].sets |-> o]

LEMMA SettersOf ==
  ASSUME NEW s \in Seq(Objects), NEW p
  PROVE  /\ Setters(s, p) \in SUBSET Nat
         /\ p \in AllSet(s) <=> Setters(s, p) # {}
<1>1. DOMAIN s \subseteq Nat
  OBVIOUS
<1> QED BY <1>1 DEF Setters, AllSet

LEMMA InheritedOne ==
  ASSUME NEW o \in Objects
  PROVE  Inherited(<<o>>) = Own(o)
<1> DEFINE s == <<o>>
<1>1. s \in Seq(Objects) /\ DOMAIN s = {1} /\ s[1] = o
  OBVIOUS
<1> HIDE DEF s
<1>2. AllSet(s) = config[o].sets
  BY <1>1 DEF AllSet
<1>3. ASSUME NEW p \in AllSet(s) PROVE s[Least(Setters(s, p))] = o
  <2>1. Setters(s, p) # {} /\ Setters(s, p) \in SUBSET Nat
    BY <1>1, <1>3, SettersOf
  <2>2. Least(Setters(s, p)) \in Setters(s, p)
    BY <2>1, LeastIn
  <2>3. Least(Setters(s, p)) \in DOMAIN s
    BY <2>2 DEF Setters
  <2> QED BY <1>1, <2>3
<1> QED BY <1>2, <1>3 DEF Inherited, Own, s

(* Chains whose last object has been flattened, or has no parent.          *)
LEMMA ChainMerges ==
  ASSUME NEW c \in Seq(Objects), c # << >>, NEW t, Ancestry(c[Len(c)], t),
         values[c[Len(c)]] = Inherited(t),
         \A k \in 1 .. Len(c) - 1 : values[c[k]] = Own(c[k]) /\ c[k + 1] \in CodeUp(c[k])
  PROVE  \E s : Ancestry(c[1], s) /\ NearerWins(c) = Inherited(s)
<1> DEFINE m == Len(c)
<1>0. \A k \in 1 .. m : k < m \/ k = m
  OBVIOUS
<1> DEFINE s == [k \in 1 .. (m - 1) + Len(t) |-> IF k < m THEN c[k] ELSE t[(k - m) + 1]]
<1>1. /\ m \in Nat \ {0} /\ t \in Seq(Objects) /\ Len(t) \in Nat \ {0} /\ t[1] = c[m]
      /\ DOMAIN c = 1 .. m /\ DOMAIN t = 1 .. Len(t)
  BY DEF Ancestry
<1>2. /\ \A k \in 1 .. m : c[k] \in Objects
      /\ \A k \in 1 .. Len(t) : t[k] \in Objects
  BY <1>1
<1>3. /\ s \in Seq(Objects) /\ s # << >>
      /\ Len(s) = (m - 1) + Len(t) /\ DOMAIN s = 1 .. (m - 1) + Len(t)
  <2>1. \A k \in 1 .. (m - 1) + Len(t) : (IF k < m THEN c[k] ELSE t[(k - m) + 1]) \in Objects
    BY <1>1, <1>2
  <2>2. s \in [1 .. (m - 1) + Len(t) -> Objects] /\ (m - 1) + Len(t) \in Nat \ {0}
    BY <1>1, <2>1
  <2> QED BY <2>2
<1>4. /\ \A k \in 1 .. m : s[k] = c[k]
      /\ \A k \in 1 .. Len(t) : s[(m - 1) + k] = t[k]
  <2>1. ASSUME NEW k \in 1 .. m PROVE s[k] = c[k]
    <3>1. CASE k < m
      BY <1>1, <3>1
    <3>2. CASE k = m
      <4>1. m \in 1 .. (m - 1) + Len(t) /\ ~(m < m) /\ (m - m) + 1 = 1
        BY <1>1
      <4> QED BY <1>1, <3>2, <4>1
    <3>3. k < m \/ k = m
      BY <1>0, Zenon
    <3> QED BY <3>1, <3>2, <3>3, Zenon
  <2>2. ASSUME NEW k \in 1 .. Len(t) PROVE s[(m - 1) + k] = t[k]
    <3>1. (m - 1) + k \in 1 .. (m - 1) + Len(t) /\ ~((m - 1) + k < m)
          /\ (((m - 1) + k) - m) + 1 = k
      BY <1>1
    <3> QED BY <3>1
  <2> QED BY <2>1, <2>2
<1> HIDE DEF m, s
<1>5. Ancestry(c[1], s)
  <2>1. s[1] = c[1]
    BY <1>1, <1>4
  <2>2. ASSUME NEW k \in 1 .. Len(s) - 1 PROVE s[k + 1] \in CodeUp(s[k])
    <3>1. CASE k < m
      <4>1. k \in 1 .. m - 1 /\ k + 1 \in 1 .. m /\ k \in 1 .. m
        BY <1>1, <3>1
      <4> QED BY <1>4, <4>1 DEF m
    <3>2. CASE k >= m
      <4> DEFINE j == (k - m) + 1
      <4>1. j \in 1 .. Len(t) - 1 /\ j \in 1 .. Len(t) /\ j + 1 \in 1 .. Len(t)
            /\ (m - 1) + j = k /\ (m - 1) + (j + 1) = k + 1
        BY <1>1, <1>3, <3>2
      <4>2. t[j + 1] \in CodeUp(t[j])
        BY <4>1 DEF Ancestry
      <4>3. s[k] = t[j] /\ s[k + 1] = t[j + 1]
        BY <1>4, <4>1
      <4> QED BY <4>2, <4>3
    <3> QED BY <1>1, <1>3, <3>1, <3>2
  <2>3. CodeUp(s[Len(s)]) = {}
    <3>1. s[Len(s)] = t[Len(t)]
      BY <1>1, <1>3, <1>4
    <3> QED BY <3>1 DEF Ancestry
  <2> QED BY <1>3, <2>1, <2>2, <2>3 DEF Ancestry
(* Who sets a parameter in the chain, and who in the whole line.           *)
<1>6. ASSUME NEW k \in 1 .. m - 1 PROVE DOMAIN values[c[k]] = config[c[k]].sets
                                        /\ \A p \in config[c[k]].sets : values[c[k]][p] = c[k]
  BY <1>6 DEF m, Own
<1>7. DOMAIN values[c[m]] = AllSet(t)
      /\ \A p \in AllSet(t) : values[c[m]][p] = t[Least(Setters(t, p))]
  BY DEF m, Inherited
<1> DEFINE Has(p) == {k \in DOMAIN c : p \in DOMAIN values[c[k]]}
<1>8. \A p : Has(p) \in SUBSET Nat
  BY <1>1
<1>9. ASSUME NEW p, NEW k \in 1 .. m - 1
      PROVE  k \in Has(p) <=> k \in Setters(s, p)
  <2>1. k \in DOMAIN c /\ k \in DOMAIN s /\ s[k] = c[k]
    BY <1>1, <1>3, <1>4
  <2> QED BY <1>6, <2>1 DEF Setters
<1>10. ASSUME NEW p, NEW k \in 1 .. Len(t)
       PROVE  (m - 1) + k \in Setters(s, p) <=> k \in Setters(t, p)
  <2>1. (m - 1) + k \in DOMAIN s /\ s[(m - 1) + k] = t[k] /\ k \in DOMAIN t
    BY <1>1, <1>3, <1>4
  <2> QED BY <2>1 DEF Setters
<1>11. ASSUME NEW p PROVE m \in Has(p) <=> Setters(t, p) # {}
  BY <1>1, <1>7, SettersOf
<1>12. ASSUME NEW k \in DOMAIN s
       PROVE  k \in 1 .. m - 1 \/ \E j \in 1 .. Len(t) : k = (m - 1) + j
  <2>1. CASE k < m
    BY <1>1, <1>3, <2>1
  <2>2. CASE k >= m
    <3>1. (k - m) + 1 \in 1 .. Len(t) /\ k = (m - 1) + ((k - m) + 1)
      BY <1>1, <1>3, <2>2
    <3> QED BY <3>1
  <2> QED BY <1>1, <1>3, <2>1, <2>2
<1>13. ASSUME NEW p PROVE Has(p) # {} <=> Setters(s, p) # {}
  <2>1. ASSUME NEW k \in Has(p) PROVE Setters(s, p) # {}
    <3>1. CASE k \in 1 .. m - 1
      BY <1>9, <3>1
    <3>2. CASE k = m
      <4>1. PICK j \in Setters(t, p) : TRUE
        BY <1>11, <3>2
      <4>2. j \in 1 .. Len(t)
        BY <1>1 DEF Setters
      <4> QED BY <1>10, <4>1, <4>2
    <3> QED BY <1>1, <3>1, <3>2
  <2>2. ASSUME NEW k \in Setters(s, p) PROVE Has(p) # {}
    <3>1. CASE k \in 1 .. m - 1
      BY <1>9, <3>1
    <3>2. ASSUME NEW j \in 1 .. Len(t), k = (m - 1) + j PROVE Has(p) # {}
      BY <1>10, <1>11, <3>2
    <3>3. k \in DOMAIN s
      BY DEF Setters
    <3> QED BY <1>12, <3>1, <3>2, <3>3
  <2> QED BY <2>1, <2>2
<1>14. AllSet(s) = UNION {DOMAIN values[c[k]] : k \in DOMAIN c}
  <2>1. \A p : p \in UNION {DOMAIN values[c[k]] : k \in DOMAIN c} <=> Has(p) # {}
    OBVIOUS
  <2>2. \A p : p \in AllSet(s) <=> Setters(s, p) # {}
    BY <1>3, SettersOf
  <2> HIDE DEF Has
  <2> QED BY <1>13, <2>1, <2>2
<1>15. ASSUME NEW p \in AllSet(s)
       PROVE  values[c[Least(Has(p))]][p] = s[Least(Setters(s, p))]
  <2> DEFINE k == Least(Has(p))
  <2>0. Has(p) # {}
    BY <1>3, <1>13, SettersOf
  <2>1. k \in Has(p) /\ \A j \in Has(p) : k <= j
    BY <1>8, <2>0, LeastIn
  <2>2. k \in 1 .. m
    BY <1>1, <2>1
  <2> HIDE DEF k
  <2>3. CASE k < m
    <3>1. k \in 1 .. m - 1
      BY <1>1, <2>2, <2>3
    <3>2. k \in Setters(s, p)
      BY <1>9, <2>1, <3>1
    <3>3. ASSUME NEW j \in Setters(s, p) PROVE k <= j
      <4>1. CASE j \in 1 .. m - 1
        BY <1>9, <2>1, <4>1
      <4>2. CASE j \notin 1 .. m - 1
        <5>1. j \in DOMAIN s
          BY DEF Setters
        <5> QED BY <1>1, <1>3, <2>3, <2>2, <4>2, <5>1
      <4> QED BY <4>1, <4>2
    <3>4. Least(Setters(s, p)) = k
      BY <1>3, <3>2, <3>3, LeastIs, SettersOf
    <3>5. p \in config[c[k]].sets
      BY <1>6, <2>1, <3>1
    <3>6. values[c[k]][p] = c[k]
      BY <1>6, <3>1, <3>5
    <3>7. s[k] = c[k]
      BY <1>4, <2>2
    <3> QED BY <3>4, <3>6, <3>7 DEF k
  <2>4. CASE k = m
    <3> DEFINE j == Least(Setters(t, p))
    <3>0. Setters(t, p) # {} /\ Setters(t, p) \in SUBSET Nat
      BY <1>1, <1>11, <2>1, <2>4, SettersOf
    <3>1. j \in Setters(t, p) /\ \A i \in Setters(t, p) : j <= i
      BY <3>0, LeastIn
    <3>2. j \in 1 .. Len(t)
      BY <1>1, <3>1 DEF Setters
    <3>3. (m - 1) + j \in Setters(s, p)
      BY <1>10, <3>1, <3>2
    <3>4. ASSUME NEW i \in Setters(s, p) PROVE (m - 1) + j <= i
      <4>1. CASE i \in 1 .. m - 1
        <5>1. i \in Has(p)
          BY <1>9, <4>1
        <5> QED BY <1>1, <2>1, <2>4, <4>1, <5>1
      <4>2. ASSUME NEW h \in 1 .. Len(t), i = (m - 1) + h PROVE (m - 1) + j <= i
        <5>1. h \in Setters(t, p)
          BY <1>10, <4>2
        <5> QED BY <1>1, <3>1, <3>2, <4>2, <5>1
      <4>3. i \in DOMAIN s
        BY DEF Setters
      <4> QED BY <1>12, <4>1, <4>2, <4>3
    <3>5. Least(Setters(s, p)) = (m - 1) + j
      BY <1>3, <3>3, <3>4, LeastIs, SettersOf
    <3>6. values[c[m]][p] = t[j]
      BY <1>1, <1>7, <3>0, SettersOf
    <3>7. s[(m - 1) + j] = t[j]
      BY <1>4, <3>2
    <3> QED BY <2>4, <3>5, <3>6, <3>7 DEF k
  <2> QED BY <1>1, <2>2, <2>3, <2>4
<1>16. NearerWins(c) = [p \in UNION {DOMAIN values[c[k]] : k \in DOMAIN c} |->
                            values[c[Least(Has(p))]][p]]
  BY DEF NearerWins, Least
<1>17. NearerWins(c) = Inherited(s)
  <2> HIDE DEF Has
  <2> QED BY <1>14, <1>15, <1>16 DEF Inherited
<1> QED BY <1>5, <1>17
-----------------------------------------------------------------------------
(* What an object has before and after it is flattened.                    *)
Fresh(o) == parent[o] = config[o].parent /\ values[o] = Own(o)
Flat(o) == parent[o] = NoParent /\ \E s : Ancestry(o, s) /\ values[o] = Inherited(s)

ValuesInv ==
    /\ DOMAIN parent = Objects /\ DOMAIN values = Objects
    /\ pc \in {"scan", "rename"} => \A o \in Objects : Fresh(o)

(* The keys that the loop has passed.                                      *)
PassedInv ==
    pc \in {"inherit", "walk"} =>
        \A k \in DOMAIN dict :
            /\ k < pos
            /\ Inheriting(dict[k].obj) /\ config[dict[k].obj].parent \notin Defaults
            => Flat(dict[k].obj)

(* The chain goes from parent to parent, and only its last object may have *)
(* been flattened.                                                         *)
ChainInv ==
    pc = "walk" =>
        /\ pos \in DOMAIN dict
        /\ chain \in Seq(Objects) /\ chain # << >> /\ chain[1] = dict[pos].obj
        /\ cur = parent[chain[Len(chain)]]
        /\ \A k \in 1 .. Len(chain) : config[chain[k]].type = config[dict[pos].obj].type
        /\ \A k \in 1 .. Len(chain) - 1 : Fresh(chain[k]) /\ chain[k + 1] \in CodeUp(chain[k])

HeirInv ==
    /\ ValuesInv
    /\ ~Clashing => /\ \A o \in Objects : Fresh(o) \/ Flat(o)
                    /\ PassedInv
                    /\ ChainInv
-----------------------------------------------------------------------------
LEMMA SameHeirs ==
  ASSUME config' = config
  PROVE  /\ \A x : CodeUp(x)' = CodeUp(x)
         /\ \A o, s : Ancestry(o, s)' <=> Ancestry(o, s)
         /\ \A s : Inherited(s)' = Inherited(s)
         /\ \A o : Own(o)' = Own(o)
         /\ \A o : Inheriting(o)' <=> Inheriting(o)
<1>1. Objects' = Objects
  BY DEF Objects
<1>2. \A o : FinalName(o)' = FinalName(o)
  BY DEF FinalName
<1>3. \A x : CodeUp(x)' = CodeUp(x)
  BY <1>1, <1>2 DEF CodeUp
<1>4. \A s : AllSet(s)' = AllSet(s)
  BY DEF AllSet
<1>5. \A s, p : Setters(s, p)' = Setters(s, p)
  BY DEF Setters
<1>6. \A o, s : Ancestry(o, s)' <=> Ancestry(o, s)
  BY <1>1, <1>3 DEF Ancestry
<1>7. \A s : Inherited(s)' = Inherited(s)
  BY <1>4, <1>5 DEF Inherited
<1>8. \A o : Own(o)' = Own(o)
  BY DEF Own
<1> QED BY <1>3, <1>6, <1>7, <1>8 DEF Inheriting

(* An object that keeps its parameters and its parent.                     *)
LEMMA Stays ==
  ASSUME config' = config, NEW o, parent'[o] = parent[o], values'[o] = values[o]
  PROVE  (Fresh(o)' <=> Fresh(o)) /\ (Flat(o)' <=> Flat(o))
<1>1. Fresh(o)' <=> Fresh(o)
  BY SameHeirs, Zenon DEF Fresh
<1>2. Flat(o)' <=> Flat(o)
  BY SameHeirs, Zenon DEF Flat
<1> QED BY <1>1, <1>2

(* The steps that neither walk nor flatten.                                *)
LEMMA HeirsWait ==
  ASSUME HeirInv, IInv', config' = config, parent' = parent, values' = values,
         pc \in {"scan", "rename"}, pc' \in {"scan", "rename", "inherit"},
         pc' = "inherit" => pos' = 1
  PROVE  HeirInv'
<1>1. /\ \A o : (Fresh(o)' <=> Fresh(o)) /\ (Flat(o)' <=> Flat(o))
      /\ Objects' = Objects
  BY Stays, SameConfig
<1>2. \A o \in Objects : Fresh(o)
  BY DEF HeirInv, ValuesInv
<1>3. ASSUME ~Clashing' PROVE PassedInv'
  <2> SUFFICES ASSUME pc' = "inherit", NEW k \in DOMAIN dict', k < pos' PROVE FALSE
    BY DEF PassedInv
  <2>1. dict' \in Seq(Entry')
    BY <1>3 DEF IInv, FinalInv, Entries
  <2> QED BY <2>1
<1>4. ChainInv'
  BY DEF ChainInv
<1> QED BY <1>1, <1>2, <1>3, <1>4 DEF HeirInv, ValuesInv

(* The names in the final dictionary.                                      *)
LEMMA DictParts ==
  ASSUME IInv, ~Clashing, pc \in {"inherit", "walk"}
  PROVE  /\ dict \in Seq(Entry) /\ Len(dict) \in Nat /\ DOMAIN dict = 1 .. Len(dict)
         /\ \A k \in DOMAIN dict : /\ dict[k].obj \in Objects
                                   /\ dict[k].name = FinalName(dict[k].obj)
                                   /\ dict[k].name \in Name
         /\ \A o \in Objects : \E k \in DOMAIN dict : dict[k].obj = o
<1>1. FinalInv
  BY DEF IInv
<1>2. dict \in Seq(Entry) /\ (\A k \in DOMAIN dict : dict[k].name = FinalName(dict[k].obj))
  BY <1>1 DEF FinalInv, Entries
<1>3. Len(dict) \in Nat /\ DOMAIN dict = 1 .. Len(dict) /\ \A k \in DOMAIN dict : dict[k] \in Entry
  BY <1>2
<1>4. \A o \in Objects : \E k \in DOMAIN dict : dict[k].obj = o
  BY <1>1 DEF FinalInv, Present
<1>5. \A k \in DOMAIN dict : dict[k].obj \in Objects /\ dict[k].name \in Name
  BY <1>3 DEF Entry
<1> QED BY <1>2, <1>3, <1>4, <1>5

LEMMA FlatHasNoParent ==
  ASSUME IInv, ~Clashing, pc = "walk", ChainInv, Lookup(cur) # {},
         Fresh(chain[Len(chain)]) \/ Flat(chain[Len(chain)])
  PROVE  Fresh(chain[Len(chain)])
<1>1. PICK k \in DOMAIN dict : dict[k].name = cur
  BY DEF Lookup
<1>2. cur \in Name
  BY <1>1, DictParts
<1>3. cur # NoParent
  BY <1>2, ConfigsAssumption
<1> QED BY <1>3 DEF ChainInv, Flat

LEMMA SkipHeirs ==
  ASSUME IInv, HeirInv, SkipKey
  PROVE  HeirInv'
<1>1. /\ pc = "inherit" /\ pc' = pc /\ config' = config /\ parent' = parent /\ values' = values
      /\ dict' = dict /\ pos' = pos + 1 /\ pos <= Len(dict)
      /\ ~Inheriting(dict[pos].obj) \/ parent[dict[pos].obj] \in Defaults
  BY DEF SkipKey
<1>2. /\ \A o : (Fresh(o)' <=> Fresh(o)) /\ (Flat(o)' <=> Flat(o))
      /\ Objects' = Objects /\ (Clashing' <=> Clashing)
  BY <1>1, Stays, SameConfig
<1>3. ASSUME ~Clashing PROVE PassedInv'
  <2> SUFFICES ASSUME NEW k \in DOMAIN dict, k < pos + 1, Inheriting(dict[k].obj),
                      config[dict[k].obj].parent \notin Defaults
               PROVE  Flat(dict[k].obj)
    BY <1>1, <1>2, SameHeirs DEF PassedInv
  <2>0. k \in Nat /\ pos \in Nat /\ dict[k].obj \in Objects
    BY <1>1, <1>3, DictParts DEF IInv, TypeInv
  <2>1. CASE k < pos
    BY <1>1, <1>3, <2>1 DEF HeirInv, ValuesInv, PassedInv
  <2>2. CASE k = pos
    <3>1. parent[dict[k].obj] \in Defaults
      BY <1>1, <2>2
    <3>2. ~Fresh(dict[k].obj)
      BY <3>1 DEF Fresh
    <3> QED BY <1>3, <2>0, <3>2 DEF HeirInv, ValuesInv
  <2> QED BY <2>0, <2>1, <2>2
<1>4. ChainInv'
  BY <1>1 DEF ChainInv
<1> QED BY <1>1, <1>2, <1>3, <1>4 DEF HeirInv, ValuesInv

LEMMA StartHeirs ==
  ASSUME IInv, HeirInv, StartChain
  PROVE  HeirInv'
<1>1. /\ pc = "inherit" /\ pc' = "walk" /\ config' = config /\ parent' = parent /\ values' = values
      /\ dict' = dict /\ pos' = pos /\ pos <= Len(dict)
      /\ chain' = <<dict[pos].obj>> /\ cur' = parent[dict[pos].obj]
  BY DEF StartChain
<1>2. /\ \A o : (Fresh(o)' <=> Fresh(o)) /\ (Flat(o)' <=> Flat(o))
      /\ Objects' = Objects /\ (Clashing' <=> Clashing)
  BY <1>1, Stays, SameConfig
<1>3. ASSUME ~Clashing PROVE PassedInv'
  <2> SUFFICES ASSUME NEW k \in DOMAIN dict, k < pos, Inheriting(dict[k].obj),
                      config[dict[k].obj].parent \notin Defaults
               PROVE  Flat(dict[k].obj)
    BY <1>1, <1>2, SameHeirs DEF PassedInv
  <2> QED BY <1>1, <1>3 DEF HeirInv, ValuesInv, PassedInv
<1>4. ASSUME ~Clashing PROVE ChainInv'
  <2> DEFINE o == dict[pos].obj
             c == <<o>>
  <2>1. pos \in DOMAIN dict /\ o \in Objects
    BY <1>1, <1>4, DictParts DEF IInv, TypeInv
  <2> HIDE DEF o
  <2>2. c \in Seq(Objects) /\ c # << >> /\ Len(c) = 1 /\ c[1] = o
    BY <2>1
  <2>3. \A k \in 1 .. 1 : k = 1
    OBVIOUS
  <2>4. \A k \in 1 .. 1 - 1 : FALSE
    OBVIOUS
  <2> HIDE DEF c
  <2>5. /\ chain' = c /\ cur' = parent[o] /\ dict'[pos'].obj = o
    BY <1>1 DEF c, o
  <2> QED BY <1>1, <1>2, <2>1, <2>2, <2>3, <2>4, <2>5 DEF ChainInv
<1> QED BY <1>1, <1>2, <1>3, <1>4 DEF HeirInv, ValuesInv

LEMMA WalkHeirs ==
  ASSUME IInv, HeirInv, Walk
  PROVE  HeirInv'
<1>1. PICK k \in Lookup(cur) :
         /\ chain' = Append(chain, dict[k].obj) /\ cur' = parent[dict[k].obj]
         /\ pc = "walk" /\ pc' = pc /\ config' = config /\ parent' = parent /\ values' = values
         /\ dict' = dict /\ pos' = pos
  BY DEF Walk
<1>2. /\ \A o : (Fresh(o)' <=> Fresh(o)) /\ (Flat(o)' <=> Flat(o))
      /\ Objects' = Objects /\ (Clashing' <=> Clashing)
  BY <1>1, Stays, SameConfig
<1>3. ASSUME ~Clashing PROVE PassedInv'
  <2> SUFFICES ASSUME NEW j \in DOMAIN dict, j < pos, Inheriting(dict[j].obj),
                      config[dict[j].obj].parent \notin Defaults
               PROVE  Flat(dict[j].obj)
    BY <1>1, <1>2, SameHeirs DEF PassedInv
  <2> QED BY <1>1, <1>3 DEF HeirInv, ValuesInv, PassedInv
<1>4. ASSUME ~Clashing PROVE ChainInv'
  <2> DEFINE m == Len(chain)
             q == dict[k].obj
  <2>1. ChainInv /\ chain \in Seq(Objects) /\ m \in Nat \ {0} /\ chain[m] \in Objects
    BY <1>1, <1>4 DEF HeirInv, ValuesInv, ChainInv
  <2>2. k \in DOMAIN dict /\ config[q].type = config[dict[pos].obj].type /\ dict[k].name = cur
    BY DEF Lookup
  <2>3. q \in Objects /\ FinalName(q) = cur
    BY <1>1, <1>4, <2>2, DictParts
  <2>4. Fresh(chain[m])
    BY <1>1, <1>4, <2>1, FlatHasNoParent DEF HeirInv, ValuesInv
  <2>5. config[chain[m]].type = config[dict[pos].obj].type /\ cur = parent[chain[m]]
    BY <1>1, <2>1 DEF ChainInv
  <2>6. q \in CodeUp(chain[m])
    BY <2>2, <2>3, <2>4, <2>5 DEF CodeUp, Fresh
  <2> HIDE DEF m, q
  <2>7. /\ chain' \in Seq(Objects) /\ chain' # << >> /\ Len(chain') = m + 1
        /\ \A j \in 1 .. m : chain'[j] = chain[j]
        /\ chain'[m + 1] = q
    BY <1>1, <2>1, <2>3 DEF m, q
  <2>8. ASSUME NEW j \in 1 .. m + 1 PROVE config[chain'[j]].type = config[dict[pos].obj].type
    <3>1. CASE j \in 1 .. m
      BY <1>1, <2>1, <2>7, <3>1 DEF ChainInv, m
    <3>2. CASE j = m + 1
      BY <2>2, <2>7, <3>2
    <3> QED BY <2>1, <3>1, <3>2
  <2>9. ASSUME NEW j \in 1 .. (m + 1) - 1
        PROVE  Fresh(chain'[j]) /\ chain'[j + 1] \in CodeUp(chain'[j])
    <3>1. CASE j = m
      BY <2>1, <2>4, <2>6, <2>7, <3>1
    <3>2. CASE j # m
      <4>1. j \in 1 .. m - 1 /\ j \in 1 .. m /\ j + 1 \in 1 .. m
        BY <2>1, <3>2
      <4>2. Fresh(chain[j]) /\ chain[j + 1] \in CodeUp(chain[j])
        BY <1>1, <2>1, <4>1 DEF ChainInv, m
      <4> QED BY <2>7, <4>1, <4>2
    <3> QED BY <3>1, <3>2
  <2>10. chain'[1] = chain[1] /\ 1 \in 1 .. m
    BY <2>1, <2>7
  <2>11. chain'[1] = dict[pos].obj /\ pos \in DOMAIN dict
    BY <1>1, <2>1, <2>10 DEF ChainInv
  <2>12. cur' = parent'[chain'[Len(chain')]]
    BY <1>1, <2>7 DEF q
  <2>13. \A x : CodeUp(x)' = CodeUp(x)
    BY <1>1, SameHeirs
  <2> QED BY <1>1, <1>2, <2>7, <2>8, <2>9, <2>11, <2>12, <2>13 DEF ChainInv
<1> QED BY <1>1, <1>2, <1>3, <1>4 DEF HeirInv, ValuesInv

LEMMA MergeHeirs ==
  ASSUME IInv, HeirInv, MergeChain
  PROVE  HeirInv'
<1>0. PICK o : o = dict[pos].obj
  OBVIOUS
<1>1. /\ pc = "walk" /\ Lookup(cur) = {} /\ pc' = "inherit" /\ config' = config
      /\ values' = [values EXCEPT ![o] = NearerWins(chain)]
      /\ parent' = [parent EXCEPT ![o] = NoParent]
      /\ dict' = dict /\ pos' = pos + 1
  BY <1>0 DEF MergeChain
<1>2. Objects' = Objects /\ (Clashing' <=> Clashing)
  BY <1>1, SameConfig
<1>3. DOMAIN parent' = Objects' /\ DOMAIN values' = Objects'
  BY <1>1, <1>2 DEF HeirInv, ValuesInv
<1>4. ChainInv'
  BY <1>1 DEF ChainInv
<1>5. ASSUME ~Clashing
      PROVE  (\A x \in Objects : Fresh(x) \/ Flat(x))' /\ PassedInv'
  <2>1. ChainInv /\ PassedInv /\ (\A x \in Objects : Fresh(x) \/ Flat(x))
    BY <1>5 DEF HeirInv, ValuesInv
  <2> DEFINE m == Len(chain)
             z == chain[m]
  <2>2. /\ chain \in Seq(Objects) /\ chain[1] = o
        /\ m \in Nat \ {0} /\ z \in Objects /\ o \in Objects
        /\ pos \in DOMAIN dict /\ pos \in Nat
    <3>1. chain \in Seq(Objects) /\ chain # << >> /\ chain[1] = o /\ pos \in DOMAIN dict
      BY <1>0, <1>1, <2>1 DEF ChainInv
    <3> QED BY <3>1 DEF IInv, TypeInv
  <2>3. \E t : Ancestry(z, t) /\ values[z] = Inherited(t)
    <3>1. CASE Flat(z)
      BY <3>1 DEF Flat
    <3>2. CASE Fresh(z)
      <4>1. CodeUp(z) = {}
        <5> SUFFICES ASSUME NEW q \in CodeUp(z) PROVE FALSE
          OBVIOUS
        <5>1. q \in Objects /\ config[q].type = config[z].type /\ FinalName(q) = config[z].parent
          BY DEF CodeUp
        <5>2. PICK k \in DOMAIN dict : dict[k].obj = q
          BY <1>1, <1>5, <5>1, DictParts
        <5>3. dict[k].name = FinalName(q)
          BY <1>1, <1>5, <5>2, DictParts
        <5>4. cur = config[z].parent
          BY <1>1, <2>1, <3>2 DEF ChainInv, Fresh
        <5>5. m \in 1 .. m
          BY <2>2
        <5>6. config[z].type = config[o].type
          BY <1>0, <1>1, <2>1, <5>5 DEF ChainInv
        <5>7. k \in Lookup(cur)
          BY <5>1, <5>2, <5>3, <5>4, <5>6, <1>0 DEF Lookup
        <5> QED BY <1>1, <5>7
      <4> DEFINE t == <<z>>
      <4>2. t \in Seq(Objects) /\ t # << >> /\ t[1] = z /\ Len(t) = 1
        BY <2>2
      <4>3. \A k \in 1 .. 1 - 1 : FALSE
        OBVIOUS
      <4>4. Inherited(t) = Own(z)
        BY <2>2, InheritedOne
      <4> HIDE DEF t
      <4>5. Ancestry(z, t)
        BY <4>1, <4>2, <4>3 DEF Ancestry
      <4>6. values[z] = Own(z)
        BY <3>2 DEF Fresh
      <4> QED BY <4>4, <4>5, <4>6
    <3> QED BY <2>1, <2>2, <3>1, <3>2
  <2>4. PICK t : Ancestry(z, t) /\ values[z] = Inherited(t)
    BY <2>3
  <2>5. \A k \in 1 .. Len(chain) - 1 :
            values[chain[k]] = Own(chain[k]) /\ chain[k + 1] \in CodeUp(chain[k])
    BY <1>1, <2>1 DEF ChainInv, Fresh
  <2>6. chain # << >>
    BY <1>1, <2>1 DEF ChainInv
  <2>7. \E s : Ancestry(o, s) /\ NearerWins(chain) = Inherited(s)
    BY <2>2, <2>4, <2>5, <2>6, ChainMerges
  <2>8. values'[o] = NearerWins(chain) /\ parent'[o] = NoParent
    BY <1>1, <2>2 DEF HeirInv, ValuesInv
  <2>9. Flat(o)'
    BY <1>1, <2>7, <2>8, SameHeirs DEF Flat
  <2>10. \A x \in Objects \ {o} : (Fresh(x)' <=> Fresh(x)) /\ (Flat(x)' <=> Flat(x))
    <3> SUFFICES ASSUME NEW x \in Objects \ {o}
                 PROVE  parent'[x] = parent[x] /\ values'[x] = values[x]
      BY <1>1, Stays
    <3> QED BY <1>1 DEF HeirInv, ValuesInv
  <2>11. (\A x \in Objects : Fresh(x) \/ Flat(x))'
    BY <1>2, <2>1, <2>9, <2>10
  <2>12. PassedInv'
    <3> SUFFICES ASSUME NEW k \in DOMAIN dict, NEW x, x = dict[k].obj, k < pos + 1,
                        Inheriting(x), config[x].parent \notin Defaults
                 PROVE  Flat(x)'
      BY <1>1, SameHeirs DEF PassedInv
    <3>1. k \in Nat /\ x \in Objects
      BY <1>1, <1>5, DictParts
    <3>2. CASE x = o
      BY <2>9, <3>2
    <3>3. CASE x # o
      <4>1. k < pos
        BY <1>0, <2>2, <3>1, <3>3
      <4>2. Flat(x)
        BY <1>1, <2>1, <4>1 DEF PassedInv
      <4> QED BY <2>10, <3>1, <3>3, <4>2
    <3> QED BY <3>2, <3>3
  <2> QED BY <2>11, <2>12
<1> QED BY <1>1, <1>2, <1>3, <1>4, <1>5 DEF HeirInv, ValuesInv
-----------------------------------------------------------------------------
LEMMA InitHeirs == Init => HeirInv
<1> SUFFICES ASSUME Init PROVE HeirInv
  OBVIOUS
<1>1. /\ parent = [o \in Objects |-> config[o].parent] /\ pc = "scan"
      /\ values = [o \in Objects |-> [p \in config[o].sets |-> o]]
  BY DEF Init, Objects
<1>2. \A o \in Objects : Fresh(o)
  BY <1>1 DEF Fresh, Own
<1> QED BY <1>1, <1>2 DEF HeirInv, ValuesInv, PassedInv, ChainInv

LEMMA HeirStep == IInv /\ IInv' /\ HeirInv /\ [Next]_vars => HeirInv'
<1> SUFFICES ASSUME IInv, IInv', HeirInv, [Next]_vars PROVE HeirInv'
  OBVIOUS
<1>1. CASE ScanKey
  BY <1>1, HeirsWait DEF ScanKey
<1>2. CASE ScanEnd
  BY <1>2, HeirsWait DEF ScanEnd
<1>3. CASE RenameKey
  BY <1>3, HeirsWait DEF RenameKey
<1>4. CASE KeepKey
  BY <1>4, HeirsWait DEF KeepKey
<1>5. CASE EndRound
  BY <1>5, HeirsWait DEF EndRound
<1>6. CASE SkipKey
  BY <1>6, SkipHeirs
<1>7. CASE StartChain
  BY <1>7, StartHeirs
<1>8. CASE Walk
  BY <1>8, WalkHeirs
<1>9. CASE MergeChain
  BY <1>9, MergeHeirs
<1>10. CASE UNCHANGED vars
  <2>1. /\ config' = config /\ parent' = parent /\ values' = values /\ pc' = pc
        /\ dict' = dict /\ pos' = pos /\ chain' = chain /\ cur' = cur
    BY <1>10 DEF vars
  <2>2. /\ \A o : (Fresh(o)' <=> Fresh(o)) /\ (Flat(o)' <=> Flat(o))
        /\ Objects' = Objects /\ (Clashing' <=> Clashing)
    BY <2>1, Stays, SameConfig
  <2>3. ValuesInv' /\ (~Clashing' => (\A o \in Objects : Fresh(o) \/ Flat(o))')
    BY <2>1, <2>2 DEF HeirInv, ValuesInv
  <2>4. ~Clashing' => PassedInv'
    <3> SUFFICES ASSUME ~Clashing, pc \in {"inherit", "walk"}, NEW j \in DOMAIN dict,
                        j < pos, Inheriting(dict[j].obj),
                        config[dict[j].obj].parent \notin Defaults
                 PROVE  Flat(dict[j].obj)
      BY <2>1, <2>2, SameHeirs DEF PassedInv
    <3> QED BY DEF HeirInv, PassedInv
  <2>5. ~Clashing' => ChainInv'
    BY <2>1, <2>2, SameHeirs DEF HeirInv, ChainInv
  <2> QED BY <2>3, <2>4, <2>5 DEF HeirInv
<1> QED
  BY <1>1, <1>2, <1>3, <1>4, <1>5, <1>6, <1>7, <1>8, <1>9, <1>10 DEF Next
-----------------------------------------------------------------------------
(* Lineage.                                                                *)
LEMMA ParentOfOne ==
  ASSUME config \in Configs, NEW o \in Objects, NEW a \in ParentOf(o)
  PROVE  a \in Objects /\ ParentOf(o) = {a}
<1>1. \A b \in ParentOf(o) : b = a
  BY ConfigType DEF ParentOf
<1> QED BY <1>1 DEF ParentOf

(* The ancestors up to the k-th, or to the last there is.                  *)
Climbed(s, o, k) ==
    /\ s \in Seq(Objects) /\ s # << >> /\ s[1] = o
    /\ \A j \in 1 .. Len(s) - 1 : s[j + 1] \in ParentOf(s[j])
    /\ Len(s) = k + 1 \/ ParentOf(s[Len(s)]) = {}

LEMMA ExtendedClimbs ==
  ASSUME config \in Configs, NEW o \in Objects, NEW k \in Nat, NEW s, Climbed(s, o, k)
  PROVE  Climbed(Extended(s), o, k + 1)
<1> DEFINE m == Len(s)
<1>1. s \in Seq(Objects) /\ m \in Nat \ {0} /\ s[m] \in Objects /\ Last(s) = s[m]
  BY DEF Climbed, Last
<1>2. CASE ParentOf(s[m]) = {}
  <2>1. Extended(s) = s
    BY <1>1, <1>2 DEF Extended
  <2> QED BY <1>2, <2>1 DEF Climbed
<1>3. CASE ParentOf(s[m]) # {}
  <2>1. PICK a \in ParentOf(s[m]) : TRUE
    BY <1>3
  <2>2. a \in Objects /\ ParentOf(s[m]) = {a}
    BY <1>1, <2>1, ParentOfOne
  <2>3. Extended(s) = Append(s, a)
    BY <1>1, <2>2 DEF Extended
  <2> DEFINE e == Append(s, a)
  <2>4. m = k + 1
    BY <1>3 DEF Climbed
  <2> HIDE DEF m
  <2>5. /\ e \in Seq(Objects) /\ e # << >> /\ Len(e) = m + 1
        /\ (\A j \in 1 .. m : e[j] = s[j]) /\ e[m + 1] = a
    BY <1>1, <2>2 DEF m
  <2> HIDE DEF e
  <2>6. e[1] = o
    BY <1>1, <2>5 DEF Climbed
  <2>7. ASSUME NEW j \in 1 .. (m + 1) - 1 PROVE e[j + 1] \in ParentOf(e[j])
    <3>1. CASE j = m
      BY <1>1, <2>1, <2>5, <3>1
    <3>2. CASE j # m
      <4>1. j \in 1 .. m - 1 /\ j \in 1 .. m /\ j + 1 \in 1 .. m
        BY <1>1, <3>2
      <4>2. s[j + 1] \in ParentOf(s[j])
        BY <4>1 DEF Climbed, m
      <4> QED BY <2>5, <4>1, <4>2
    <3> QED BY <3>1, <3>2
  <2>8. Climbed(e, o, k + 1)
    BY <2>4, <2>5, <2>6, <2>7 DEF Climbed
  <2> QED BY <2>3, <2>8 DEF e
<1> QED BY <1>2, <1>3

(* The function that Lineage is defined with.                              *)
Climb(f, o, n) ==
    /\ f = [k \in 0 .. n |-> f[k]]
    /\ \A k \in 0 .. n : f[k] = IF k = 0 THEN <<o>> ELSE Extended(f[k - 1])

LEMMA ClimbExists ==
  ASSUME NEW o, NEW n \in Nat
  PROVE  \E f : Climb(f, o, n)
<1> DEFINE T == {m \in Nat : \E f : Climb(f, o, m)}
<1>1. 0 \in T
  <2> DEFINE f == [k \in 0 .. 0 |-> <<o>>]
  <2>1. f = [k \in 0 .. 0 |-> f[k]] /\ \A k \in 0 .. 0 : k = 0 /\ f[k] = <<o>>
    OBVIOUS
  <2> HIDE DEF f
  <2>2. Climb(f, o, 0)
    BY <2>1 DEF Climb
  <2> QED BY <2>2
<1>2. ASSUME NEW m \in Nat, m \in T PROVE m + 1 \in T
  <2>1. PICK f : Climb(f, o, m)
    BY <1>2
  <2> DEFINE g == [k \in 0 .. m + 1 |-> IF k = m + 1 THEN Extended(f[m]) ELSE f[k]]
  <2>2. g = [k \in 0 .. m + 1 |-> g[k]]
    OBVIOUS
  <2>3. /\ g[m + 1] = Extended(f[m]) /\ \A k \in 0 .. m : g[k] = f[k]
    <3>1. m + 1 \in 0 .. m + 1 /\ \A k \in 0 .. m : k \in 0 .. m + 1 /\ k # m + 1
      OBVIOUS
    <3> QED BY <3>1
  <2> HIDE DEF g
  <2>4. ASSUME NEW k \in 0 .. m + 1
        PROVE  g[k] = IF k = 0 THEN <<o>> ELSE Extended(g[k - 1])
    <3>1. CASE k = m + 1
      <4>1. k # 0 /\ k - 1 = m /\ m \in 0 .. m
        BY <3>1
      <4> QED BY <2>3, <3>1, <4>1
    <3>2. CASE k # m + 1
      <4>1. k \in 0 .. m /\ (k # 0 => k - 1 \in 0 .. m)
        BY <3>2
      <4>2. f[k] = IF k = 0 THEN <<o>> ELSE Extended(f[k - 1])
        BY <2>1, <4>1 DEF Climb
      <4> QED BY <2>3, <4>1, <4>2
    <3> QED BY <3>1, <3>2
  <2>5. Climb(g, o, m + 1)
    BY <2>2, <2>4 DEF Climb
  <2> QED BY <2>5
<1> HIDE DEF T
<1>3. Nat \subseteq T
  BY <1>1, <1>2, SetInduction
<1> QED BY <1>3 DEF T

LEMMA LineageClimbs ==
  ASSUME config \in Configs, NEW o \in Objects
  PROVE  /\ Cardinality(Objects) \in Nat
         /\ Climbed(Lineage(o), o, Cardinality(Objects))
<1> DEFINE n == Cardinality(Objects)
           Step(f) == [k \in 0 .. n |-> IF k = 0 THEN <<o>> ELSE Extended(f[k - 1])]
           up == CHOOSE f : f = Step(f)
<1>1. n \in Nat
  <2>1. Objects = 1 .. Len(config) /\ 1 \in Int /\ Len(config) \in Int
    BY ConfigType
  <2>2. IsFiniteSet(1 .. Len(config))
    BY <2>1, FS_Interval
  <2>3. IsFiniteSet(Objects)
    BY <2>1, <2>2
  <2> QED BY <2>3, FS_CardinalityType
<1>2. Lineage(o) = up[n]
  BY DEF Lineage
<1> HIDE DEF n
<1>3. PICK f : Climb(f, o, n)
  BY <1>1, ClimbExists
<1>4. f = Step(f)
  BY <1>3 DEF Climb
<1>5. up = Step(up)
  BY <1>4
<1> HIDE DEF up
<1>6. \A k \in 0 .. n : up[k] = IF k = 0 THEN <<o>> ELSE Extended(up[k - 1])
  BY <1>5
<1> DEFINE T == {k \in Nat : k \in 0 .. n => Climbed(up[k], o, k)}
<1>7. 0 \in T
  <2> DEFINE s == <<o>>
  <2>1. s \in Seq(Objects) /\ s # << >> /\ s[1] = o /\ Len(s) = 0 + 1
    OBVIOUS
  <2>2. \A j \in 1 .. (0 + 1) - 1 : FALSE
    OBVIOUS
  <2>3. up[0] = s
    BY <1>1, <1>6
  <2> HIDE DEF s
  <2>4. Climbed(s, o, 0)
    BY <2>1, <2>2 DEF Climbed
  <2> QED BY <2>3, <2>4
<1>8. ASSUME NEW k \in Nat, k \in T PROVE k + 1 \in T
  <2> SUFFICES ASSUME k + 1 \in 0 .. n PROVE Climbed(up[k + 1], o, k + 1)
    OBVIOUS
  <2>1. k \in 0 .. n /\ k + 1 # 0 /\ (k + 1) - 1 = k
    BY <1>1
  <2>2. up[k + 1] = Extended(up[k])
    BY <1>6, <2>1
  <2>3. Climbed(up[k], o, k)
    BY <1>8, <2>1
  <2> QED BY <2>2, <2>3, ExtendedClimbs
<1> HIDE DEF T
<1>9. Nat \subseteq T
  BY <1>7, <1>8, SetInduction
<1>10. n \in T /\ n \in 0 .. n
  BY <1>1, <1>9
<1>11. Climbed(up[n], o, n)
  BY <1>10 DEF T
<1> QED BY <1>1, <1>2, <1>11 DEF n
-----------------------------------------------------------------------------
LEMMA CodeUpOne ==
  ASSUME config \in Configs, ~Clashing, NEW x, NEW a \in CodeUp(x), NEW b \in CodeUp(x)
  PROVE  a = b
BY FinalNamesOfType DEF CodeUp

(* A line of ancestors that ends has none twice.                           *)
LEMMA NoneTwice ==
  ASSUME config \in Configs, ~Clashing, NEW o, NEW s, Ancestry(o, s),
         NEW i \in 1 .. Len(s), NEW j \in 1 .. Len(s), i < j, s[i] = s[j]
  PROVE  FALSE
<1> DEFINE m == Len(s)
           T == {t \in Nat : j + t <= m => s[i + t] = s[j + t]}
<1>1. m \in Nat /\ \A k \in 1 .. m - 1 : s[k + 1] \in CodeUp(s[k])
  BY DEF Ancestry
<1>2. 0 \in T
  OBVIOUS
<1> HIDE DEF m
<1>3. ASSUME NEW t \in Nat, t \in T PROVE t + 1 \in T
  <2> SUFFICES ASSUME j + (t + 1) <= m PROVE s[i + (t + 1)] = s[j + (t + 1)]
    OBVIOUS
  <2>1. /\ i + t \in 1 .. m - 1 /\ j + t \in 1 .. m - 1
        /\ (i + t) + 1 = i + (t + 1) /\ (j + t) + 1 = j + (t + 1) /\ j + t <= m
    BY <1>1 DEF m
  <2>2. s[i + t] = s[j + t]
    BY <1>3, <2>1
  <2>3. s[i + (t + 1)] \in CodeUp(s[i + t]) /\ s[j + (t + 1)] \in CodeUp(s[j + t])
    BY <1>1, <2>1
  <2> QED BY <2>2, <2>3, CodeUpOne
<1> HIDE DEF T
<1>4. Nat \subseteq T
  BY <1>2, <1>3, SetInduction
<1>5. m - j \in T /\ j + (m - j) = m /\ i + (m - j) \in 1 .. m - 1
  BY <1>1, <1>4 DEF m
<1>6. s[i + (m - j)] = s[m]
  BY <1>1, <1>5 DEF T
<1>7. s[(i + (m - j)) + 1] \in CodeUp(s[m])
  BY <1>1, <1>5, <1>6
<1> QED BY <1>7 DEF Ancestry, m

LEMMA NoLonger ==
  ASSUME config \in Configs, ~Clashing, NEW o, NEW s, Ancestry(o, s)
  PROVE  Len(s) <= Cardinality(Objects)
<1>1. s \in Seq(Objects) /\ Len(s) \in Nat /\ s \in [1 .. Len(s) -> Objects]
  BY DEF Ancestry
<1>2. IsFiniteSet(Objects) /\ Cardinality(Objects) \in Nat
  BY ConfigType, FS_Interval
<1>3. IsFiniteSet(1 .. Len(s)) /\ Cardinality(1 .. Len(s)) = Len(s)
  BY <1>1, FS_Interval
<1> SUFFICES ASSUME Cardinality(Objects) < Len(s) PROVE FALSE
  BY <1>1, <1>2
<1>4. PICK i, j \in 1 .. Len(s) : i # j /\ s[i] = s[j]
  BY <1>1, <1>2, <1>3, FS_PigeonHole
<1>5. i < j \/ j < i
  BY <1>4
<1> QED BY <1>4, <1>5, NoneTwice

(* Where no ancestor is renamed the code finds the parents that are meant. *)
LEMMA AncestryIsLineage ==
  ASSUME config \in Configs, ~Clashing, NEW o \in Objects, NEW s, Ancestry(o, s),
         \A k \in 2 .. Len(Lineage(o)) : ~ToRename(config, Lineage(o)[k]),
         ~MadeUp(config[Last(Lineage(o))].parent)
  PROVE  s = Lineage(o)
<1> DEFINE L == Lineage(o)
           n == Cardinality(Objects)
           T == {k \in Nat : k + 1 <= Len(s) => k + 1 <= Len(L) /\ L[k + 1] = s[k + 1]}
<1>1. n \in Nat /\ Climbed(L, o, n)
  BY LineageClimbs
<1> HIDE DEF L, n
<1>2. /\ L \in Seq(Objects) /\ Len(L) \in Nat \ {0} /\ L[1] = o
      /\ \A j \in 1 .. Len(L) - 1 : L[j + 1] \in ParentOf(L[j])
      /\ Len(L) = n + 1 \/ ParentOf(L[Len(L)]) = {}
      /\ \A j \in 1 .. Len(L) : L[j] \in Objects
  BY <1>1 DEF Climbed
<1>3. /\ s \in Seq(Objects) /\ Len(s) \in Nat \ {0} /\ s[1] = o
      /\ \A k \in 1 .. Len(s) - 1 : s[k + 1] \in CodeUp(s[k])
      /\ CodeUp(s[Len(s)]) = {}
  BY DEF Ancestry
<1>4. Len(s) <= n
  BY NoLonger DEF n
<1>5. /\ \A k \in 2 .. Len(L) : ~ToRename(config, L[k])
      /\ ~MadeUp(config[L[Len(L)]].parent)
  BY DEF L, Last
<1>6. 0 \in T
  BY <1>2, <1>3
<1>7. ASSUME NEW k \in Nat, k \in T PROVE k + 1 \in T
  <2> SUFFICES ASSUME (k + 1) + 1 <= Len(s)
               PROVE  (k + 1) + 1 <= Len(L) /\ L[(k + 1) + 1] = s[(k + 1) + 1]
    OBVIOUS
  <2> DEFINE i == k + 1
             x == s[i]
             q == s[i + 1]
  <2>1. i \in 1 .. Len(s) - 1 /\ i <= Len(L) /\ L[i] = x /\ i \in 1 .. Len(L)
    BY <1>2, <1>3, <1>7
  <2>2. q \in CodeUp(x) /\ x \in Objects
    BY <1>2, <1>3, <2>1
  <2> HIDE DEF x, q
  <2>3. q \in Objects /\ config[q].type = config[x].type /\ FinalName(q) = config[x].parent
    BY <2>2 DEF CodeUp
  <2>4. ~ToRename(config, q)
    <3> SUFFICES ASSUME ToRename(config, q) PROVE FALSE
      OBVIOUS
    <3>1. NewName(config, q) = config[x].parent
      BY <2>3 DEF FinalName
    <3>2. CASE i = Len(L)
      BY <1>5, <2>1, <2>3, <3>1, <3>2 DEF MadeUp
    <3>3. CASE i # Len(L)
      <4>1. i \in 1 .. Len(L) - 1
        BY <1>2, <2>1, <3>3
      <4>2. L[i + 1] \in ParentOf(x)
        BY <1>2, <2>1, <4>1
      <4>3. L[i + 1] \in Objects /\ config[L[i + 1]].name = config[x].parent
        BY <4>2 DEF ParentOf
      <4> QED BY <2>3, <3>1, <4>3 DEF Clashing
    <3> QED BY <3>2, <3>3
  <2>5. q \in ParentOf(x)
    BY <2>3, <2>4 DEF ParentOf, FinalName
  <2>6. i # Len(L)
    <3> SUFFICES ASSUME i = Len(L) PROVE FALSE
      OBVIOUS
    <3>1. ParentOf(L[Len(L)]) # {}
      BY <2>1, <2>5
    <3> QED BY <1>1, <1>2, <1>4, <2>1, <3>1
  <2>7. i \in 1 .. Len(L) - 1
    BY <1>2, <2>1, <2>6
  <2>8. L[i + 1] \in ParentOf(x)
    BY <1>2, <2>1, <2>7
  <2>9. L[i + 1] = q
    BY <2>2, <2>5, <2>8, ParentOfOne
  <2> QED BY <1>2, <2>7, <2>9 DEF q
<1> HIDE DEF T
<1>8. Nat \subseteq T
  BY <1>6, <1>7, SetInduction
<1>9. ASSUME NEW i \in 1 .. Len(s) PROVE i <= Len(L) /\ L[i] = s[i]
  <2>1. i - 1 \in T /\ (i - 1) + 1 = i
    BY <1>3, <1>8
  <2> QED BY <2>1 DEF T
<1>10. Len(s) = Len(L)
  <2> SUFFICES ASSUME Len(s) < Len(L) PROVE FALSE
    BY <1>2, <1>3, <1>9
  <2> DEFINE i == Len(s)
             y == L[i + 1]
  <2>1. i \in 1 .. Len(L) - 1 /\ L[i] = s[i] /\ i + 1 \in 2 .. Len(L) /\ i \in 1 .. Len(s)
    BY <1>2, <1>3, <1>9
  <2>2. y \in ParentOf(s[i]) /\ ~ToRename(config, y)
    BY <1>2, <1>5, <2>1
  <2>3. y \in CodeUp(s[i])
    BY <2>2 DEF ParentOf, CodeUp, FinalName
  <2> QED BY <1>3, <2>3
<1>11. s = L
  BY <1>2, <1>3, <1>9, <1>10
<1> QED BY <1>11 DEF L

(* At every moment each object either is as it was written or has been     *)
(* flattened to what its line of ancestors sets, nearest first, and the    *)
(* chain that is being walked is the beginning of that line.               *)
THEOREM Heirs == Spec => []HeirInv
<1> QED BY Invariance, InitHeirs, HeirStep, PTL DEF Spec

(* Once the loop over the keys is over, every monitor and profile has what *)
(* its ancestors set, the nearest of them first, in whatever order the     *)
(* loop met them: for every configuration, with families of any depth.     *)
THEOREM NearestAncestorWins == Spec => []InheritedInAnyOrder
<1>1. ASSUME IInv, HeirInv PROVE InheritedInAnyOrder
  <2> SUFFICES ASSUME Done, ~Clashing, NEW o \in Objects, Inheriting(o),
                      config[o].parent \notin Defaults,
                      \A k \in 2 .. Len(Lineage(o)) : ~ToRename(config, Lineage(o)[k]),
                      ~MadeUp(config[Last(Lineage(o))].parent)
               PROVE  values[o] = [p \in UNION {config[q].sets : q \in ToSet(Lineage(o))}
                                       |-> Nearest(o, p)]
    BY DEF InheritedInAnyOrder
  <2>1. pc = "inherit" /\ pos > Len(dict) /\ config \in Configs /\ pos \in Nat
    BY <1>1 DEF Done, IInv, TypeInv
  <2>2. PICK k \in DOMAIN dict : dict[k].obj = o
    BY <1>1, <2>1, DictParts
  <2>3. k < pos
    BY <1>1, <2>1, DictParts
  <2>4. Flat(o)
    BY <1>1, <2>1, <2>2, <2>3 DEF HeirInv, PassedInv
  <2>5. PICK s : Ancestry(o, s) /\ values[o] = Inherited(s)
    BY <2>4 DEF Flat
  <2>6. s = Lineage(o)
    BY <2>1, <2>5, AncestryIsLineage
  <2>7. UNION {config[q].sets : q \in ToSet(s)} = AllSet(s)
    BY DEF ToSet, AllSet
  <2>8. \A p : Nearest(o, p) = s[Least(Setters(s, p))]
    BY <2>6 DEF Nearest, Least, Setters
  <2> QED BY <2>5, <2>6, <2>7, <2>8 DEF Inherited
<1> QED
  BY <1>1, Invariance, Heirs, PTL
=============================================================================
