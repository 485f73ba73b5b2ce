----------------------- MODULE DeviceOnboarding_proof -----------------------
(***************************************************************************)
(* For every set of configurations and every table of items: what is made  *)
(* of stanzas of authentication is moved or deleted with its stanza, only  *)
(* devices of ours are declared, and where no name is taken twice the      *)
(* declaration is made of the configuration and its references are found.  *)
(***************************************************************************)
EXTENDS DeviceOnboarding, TLAPS, NaturalsInduction, WellFoundedInduction

Done == Kept(conf) \ todo

TypeInv ==
    /\ conf \in Configurations
    /\ todo \subseteq Kept(conf)
    /\ item \in Nat
    /\ status \in {"filtering", "converting", "done", "failed"}
    /\ status = "filtering" => todo = {} /\ item = 1 /\ common = Nothing /\ auth = Nothing
    /\ status # "filtering" => currentDevice = Current(conf)
    /\ status = "done" => todo = {}

PiecesInv == \A k \in DOMAIN common : \A p \in common[k].from : p[1] \in Kept(conf)

(* Where what is made of stanzas of authentication stands, and for how     *)
(* long.                                                                   *)
OfAuthentication(k) ==
    \/ common[k].class = "Authentication"
    \/ \E p \in common[k].from : p[2] = "Authentication"

TemporaryInv ==
    \A k \in DOMAIN common : OfAuthentication(k) =>
        \/ k \in {<<"Authentication", "IPv4">>, <<"Authentication", "IPv6">>}
        \/ todo # {} /\ item > 1 /\ Stanza.kind \in AuthKinds /\ k = Temporary

(* Every object goes by a name that its stanza takes, and what the current *)
(* stanza takes for a moment is there only now.                            *)
TakenBy(i, k) == \E x \in Taken(i) : x[1] = k /\ x[2] = common[k].class /\ ~ Momentary(x)

KeysInv ==
    \A k \in DOMAIN common :
        \/ \E i \in Done : TakenBy(i, k)
        \/ /\ todo # {}
           /\ \E x \in Taken(At) : x[1] = k /\ x[2] = common[k].class /\ x[2] # "temporary"

Triples(f) == UNION {{<<k, f[k].class, p>> : p \in f[k].from} : k \in DOMAIN f}

(* What the items have made of the current stanza so far.                  *)
SoFar == UNION {Becomes(At, Items[n][2]) : n \in {m \in Positions(Stanza.kind) : m < item}}

CommonInv ==
    Triples(common) = (UNION {Own(i) : i \in Done}) \cup (IF todo = {} THEN {} ELSE SoFar)

AuthTriples(f) == UNION {Section(x, f[x]) : x \in DOMAIN f \ {"class"}}

SectionNames(kind) ==
    CASE kind = "auth source" -> {"own"}
      [] kind = "auth radius" -> RadiusParts
      [] SectionOf(kind) # "none" -> {SectionOf(kind)}
      [] OTHER -> {}

AuthInv ==
    /\ \A x \in DOMAIN auth \ {"class"} : \E i \in Done : x \in SectionNames(conf[i].kind)
    /\ AuthTriples(auth) = UNION {Sections(i) : i \in Done}

MadeInv ==
    Separate /\ status \in {"converting", "done"} => KeysInv /\ CommonInv /\ AuthInv

IInv == TypeInv /\ PiecesInv /\ TemporaryInv
-----------------------------------------------------------------------------
LEMMA LeastExists ==
  ASSUME NEW S \in SUBSET Nat, S # {}
  PROVE  \E k \in S : \A m \in S : k <= m
<1> DEFINE Less == OpToRel(<, Nat)
<1>1. \A a, b \in Nat : <<a, b>> \in Less <=> a < b
  BY DEF OpToRel
<1>2. IsWellFoundedOn(Less, Nat)
  BY NatLessThanWellFounded
<1> HIDE DEF Less
<1>3. PICK x \in S : \A y \in S : <<y, x>> \notin Less
  BY <1>2, WFMin
<1>4. \A y \in S : y \in Nat /\ x \in Nat /\ ~(y < x)
  BY <1>1, <1>3
<1> QED BY <1>4

LEMMA MinIs ==
  ASSUME NEW S \in SUBSET Nat, S # {}
  PROVE  Min(S) \in S /\ \A m \in S : Min(S) <= m
BY LeastExists DEF Min

LEMMA MaxIs ==
  ASSUME NEW n \in Nat, NEW S \in SUBSET (1 .. n), S # {}
  PROVE  Max(S) \in S /\ \A m \in S : m <= Max(S)
<1> DEFINE T == {n - x : x \in S}
<1>1. T \in SUBSET Nat /\ T # {}
  <2>1. \A x \in S : n - x \in Nat
    OBVIOUS
  <2> QED BY <2>1
<1>2. PICK k \in T : \A m \in T : k <= m
  BY <1>1, LeastExists
<1>3. PICK x \in S : k = n - x
  BY <1>2
<1>4. \A y \in S : y <= x
  <2> TAKE y \in S
  <2>1. n - y \in T
    OBVIOUS
  <2> QED BY <1>2, <1>3, <2>1
<1> QED BY <1>3, <1>4 DEF Max

(* Functions.                                                              *)
LEMMA OverParts ==
  ASSUME NEW f, NEW g
  PROVE  /\ DOMAIN Over(f, g) = DOMAIN f \cup DOMAIN g
         /\ \A k \in DOMAIN f : Over(f, g)[k] = f[k]
         /\ \A k \in DOMAIN g \ DOMAIN f : Over(f, g)[k] = g[k]
BY DEF Over

LEMMA OnlyParts ==
  ASSUME NEW key, NEW value
  PROVE  DOMAIN Only(key, value) = {key} /\ Only(key, value)[key] = value
BY DEF Only

LEMMA NothingParts == DOMAIN Nothing = {}
BY DEF Nothing

LEMMA PositionParts ==
  ASSUME NEW kind
  PROVE  /\ Positions(kind) = {n \in DOMAIN Items : kind \in Items[n][1]}
         /\ Positions(kind) \in SUBSET Nat
         /\ \A n \in Positions(kind) : 1 <= n
<1>1. DOMAIN Items \subseteq Nat /\ \A n \in DOMAIN Items : 1 <= n
  <2> DEFINE Rows == (SUBSET STRING) \X STRING
  <2>1. Items \in Seq(Rows)
    BY ItemsAssumption
  <2> HIDE DEF Rows
  <2> QED BY <2>1
<1>2. CASE kind \in Kinds
  BY <1>1, <1>2 DEF Positions, PositionsByKind
<1>3. CASE kind \notin Kinds
  BY <1>1, <1>3 DEF Positions, Kinds
<1> QED BY <1>2, <1>3

LEMMA ClassParts ==
  ASSUME NEW kind, NEW class \in ClassesOf(kind)
  PROVE  /\ kind # "auth user"
         /\ kind \in AuthKinds <=> class = "Authentication"
         /\ kind = "cm device" => \A row \in DeviceReferences : class \notin row.to
         /\ class # "temporary"
<1>1. PICK n \in Positions(kind) : class = Items[n][2]
  BY DEF ClassesOf
<1>2. n \in DOMAIN Items /\ kind \in Items[n][1]
  BY PositionParts
<1> QED BY <1>1, <1>2, ItemsAssumption

LEMMA AuthClass ==
  ASSUME NEW kind \in AuthKinds
  PROVE  ClassesOf(kind) = {"Authentication"}
<1>1. PICK n \in DOMAIN Items : kind \in Items[n][1]
  BY ItemsAssumption
<1>2. n \in Positions(kind) /\ Items[n][2] = "Authentication"
  BY <1>1, PositionParts, ItemsAssumption
<1> QED BY <1>2, ClassParts DEF ClassesOf

LEMMA UserClass == ClassesOf("auth user") = {}
BY ClassParts

LEMMA ConfShape ==
  ASSUME conf \in Configurations
  PROVE  /\ Len(conf) \in Nat /\ DOMAIN conf = 1 .. Len(conf)
         /\ Kept(conf) \subseteq DOMAIN conf /\ Kept(conf) \in SUBSET Nat
<1>1. conf \in Seq(Range(conf))
  BY ConfigurationsAssumption
<1>2. Len(conf) \in Nat /\ DOMAIN conf = 1 .. Len(conf)
  BY <1>1
<1>3. Kept(conf) \subseteq DOMAIN conf
  BY DEF Kept
<1> QED BY <1>2, <1>3

LEMMA AtIs ==
  ASSUME TypeInv, todo # {}
  PROVE  At \in todo /\ At \in Kept(conf) /\ At \in DOMAIN conf
<1>1. todo \in SUBSET Nat
  BY ConfShape DEF TypeInv
<1> QED BY <1>1, MinIs, ConfShape DEF At, TypeInv

LEMMA MatchedIs ==
  ASSUME TypeInv, Ahead # {}
  PROVE  /\ Matched \in Positions(Stanza.kind) /\ item <= Matched /\ Matched \in Nat
         /\ Class \in ClassesOf(Stanza.kind)
         /\ \A n \in Positions(Stanza.kind) : n < Matched + 1 <=> n < item \/ n = Matched
<1>1. Ahead \in SUBSET Nat /\ item \in Nat
  BY PositionParts DEF Ahead, TypeInv
<1>2. Matched \in Ahead /\ \A n \in Ahead : Matched <= n
  BY <1>1, MinIs DEF Matched
<1>3. Matched \in Positions(Stanza.kind) /\ item <= Matched /\ Matched \in Nat
  BY <1>1, <1>2 DEF Ahead
<1>4. ASSUME NEW n \in Positions(Stanza.kind)
      PROVE  n < Matched + 1 <=> n < item \/ n = Matched
  <2>1. n \in Nat
    BY PositionParts
  <2>2. n < item \/ Matched <= n
    BY <1>1, <1>2, <2>1 DEF Ahead
  <2> QED BY <1>1, <1>3, <2>1, <2>2
<1> QED BY <1>3, <1>4 DEF Class, ClassesOf
-----------------------------------------------------------------------------
(* What the steps do.                                                      *)
LEMMA ListParts ==
  ASSUME conf \in Configurations, NEW i \in DOMAIN conf, NEW l, HasList(i, l)
  PROVE  /\ Len(conf[i].lists[l]) \in Nat
         /\ DOMAIN conf[i].lists[l] = 1 .. Len(conf[i].lists[l])
         /\ Range(conf[i].lists[l]) = {conf[i].lists[l][e] : e \in DOMAIN conf[i].lists[l]}
<1>1. conf[i].lists[l] \in Seq(Range(conf[i].lists[l]))
  BY ConfigurationsAssumption DEF HasList
<1>2. Range(conf[i].lists[l]) = {conf[i].lists[l][e] : e \in DOMAIN conf[i].lists[l]}
  BY DEF Range
<1> QED BY <1>1, <1>2

(* The name and the piece that an element of a list becomes.               *)
NameOf(class, n) == <<Spelled(class, n)>>
Piece(i, class, n) == <<i, class, n>>
StandsFor(k, object, i, class, n) ==
    k = NameOf(class, n) /\ object.from = {Piece(i, class, n)}

LEMMA ScatterParts ==
  ASSUME conf \in Configurations, NEW i \in DOMAIN conf, NEW l, HasList(i, l), NEW class, NEW as
  PROVE  LET f == Scatter(i, class, l, as)
             names == Range(conf[i].lists[l])
         IN  /\ \A n \in names : NameOf(class, n) \in DOMAIN f
             /\ \A k \in DOMAIN f : /\ f[k].class = as
                                    /\ \E n \in names : StandsFor(k, f[k], i, class, n)
<1> DEFINE elements == conf[i].lists[l]
           key(e) == NameOf(class, elements[e])
           last(k) == CHOOSE e \in DOMAIN elements :
                        key(e) = k /\ \A d \in DOMAIN elements : key(d) = k => d <= e
           f == Scatter(i, class, l, as)
<1>1. /\ DOMAIN f = {key(e) : e \in DOMAIN elements}
      /\ \A k \in DOMAIN f : f[k].class = as /\ f[k].from = {Piece(i, class, elements[last(k)])}
  <2>1. f = [k \in {key(e) : e \in DOMAIN elements} |->
                [class |-> as, from |-> {Piece(i, class, elements[last(k)])}]]
    BY Zenon DEF Scatter, NameOf, Piece
  <2> HIDE DEF f, key, last, elements
  <2> QED BY <2>1
<1>2. /\ Len(elements) \in Nat /\ DOMAIN elements = 1 .. Len(elements)
      /\ Range(elements) = {elements[e] : e \in DOMAIN elements}
  BY ListParts
<1> HIDE DEF elements, f
<1>3. ASSUME NEW k \in DOMAIN f
      PROVE  last(k) \in DOMAIN elements /\ key(last(k)) = k
  <2> DEFINE S == {e \in DOMAIN elements : key(e) = k}
  <2>1. S # {} /\ S \in SUBSET (1 .. Len(elements))
    BY <1>1, <1>2, <1>3
  <2> HIDE DEF key
  <2>2. PICK e \in S : \A d \in S : d <= e
    BY <1>2, <2>1, MaxIs
  <2>3. e \in DOMAIN elements /\ key(e) = k /\ \A d \in DOMAIN elements : key(d) = k => d <= e
    BY <2>2
  <2> QED BY <2>3
<1>4. \A n \in Range(elements) : NameOf(class, n) \in DOMAIN f
  BY <1>1, <1>2
<1> HIDE DEF last
<1>5. ASSUME NEW k \in DOMAIN f
      PROVE  f[k].class = as /\ \E n \in Range(elements) : StandsFor(k, f[k], i, class, n)
  <2>1. elements[last(k)] \in Range(elements) /\ k = NameOf(class, elements[last(k)])
    BY <1>2, <1>3, <1>5
  <2>2. f[k].class = as /\ f[k].from = {Piece(i, class, elements[last(k)])}
    BY <1>1, <1>5
  <2> QED BY <2>1, <2>2 DEF StandsFor
<1> QED BY <1>4, <1>5 DEF f, elements

LEMMA Lists ==
  ASSUME NEW i, NEW class \in ListClasses, NEW object, ~ Throws(i, class, object)
  PROVE  /\ HasList(i, ListOf(class)) \/ Handled(i, class, Key, object) = Nothing
         /\ HasList(i, ListOf(class)) =>
                \E as \in {class, object.class} :
                    LET f == Scatter(i, class, ListOf(class), as)
                    IN  Handled(i, class, Key, object) =
                            IF class = "SnmpCommunity" THEN Without(f, {<<"comm-public">>}) ELSE f
<1>1. CASE class = "RemoteAuthRole"
  BY <1>1 DEF Handled, Roles, ListOf, Throws, Missing
<1>2. CASE class = "SyslogRemoteServer"
  BY <1>2 DEF Handled, RemoteServers, ListOf, Throws, Missing
<1>3. CASE class = "SnmpUser"
  BY <1>3 DEF Handled, Users, ListOf
<1>4. CASE class = "SnmpTrapDestination"
  BY <1>4 DEF Handled, Traps, ListOf
<1>5. CASE class = "SnmpCommunity"
  BY <1>5 DEF Handled, Communities, ListOf
<1> QED BY <1>1, <1>2, <1>3, <1>4, <1>5 DEF ListClasses

(* The elements of a list become objects of their own.                     *)
Element(i, class, n) == <<NameOf(class, n), class, Piece(i, class, n)>>

LEMMA ElementParts ==
  ASSUME conf \in Configurations, NEW i \in DOMAIN conf, NEW class
  PROVE  \A x : x \in Elements(i, class) <=>
            /\ HasList(i, ListOf(class))
            /\ \E n \in Range(conf[i].lists[ListOf(class)]) :
                   x = Element(i, class, n) /\ ~ (class = "SnmpCommunity" /\ n = "comm-public")
<1> DEFINE public == <<<<"comm-public">>, "SnmpCommunity", <<i, "SnmpCommunity", "comm-public">>>>
<1>1. \A n : Element(i, class, n) = public <=> class = "SnmpCommunity" /\ n = "comm-public"
  BY DEF Element, NameOf, Piece, Spelled
<1>2. Elements(i, class) =
          IF ~ HasList(i, ListOf(class)) THEN {}
          ELSE {Element(i, class, n) : n \in Range(conf[i].lists[ListOf(class)])} \ {public}
  BY Zenon DEF Elements, Element, NameOf, Piece
<1> HIDE DEF public
<1> QED BY <1>1, <1>2

LEMMA HandledList ==
  ASSUME conf \in Configurations, NEW i \in DOMAIN conf, NEW class \in ListClasses, NEW object,
         ~ Throws(i, class, object)
  PROVE  LET made == Handled(i, class, Key, object)
         IN  /\ \A n : Element(i, class, n) \in Elements(i, class) => NameOf(class, n) \in DOMAIN made
             /\ \A k \in DOMAIN made :
                    /\ made[k].class \in {class, object.class}
                    /\ \E n : /\ Element(i, class, n) \in Elements(i, class)
                              /\ StandsFor(k, made[k], i, class, n)
<1> DEFINE made == Handled(i, class, Key, object)
           l == ListOf(class)
           names == Range(conf[i].lists[l])
<1>1. CASE ~ HasList(i, l)
  <2>1. made = Nothing
    BY <1>1, Lists
  <2>2. \A x : x \notin Elements(i, class)
    BY <1>1, ElementParts
  <2> HIDE DEF made
  <2> QED BY <2>1, <2>2, NothingParts DEF made
<1>2. CASE HasList(i, l)
  <2>1. PICK as \in {class, object.class} :
            made = IF class = "SnmpCommunity"
                   THEN Without(Scatter(i, class, l, as), {<<"comm-public">>})
                   ELSE Scatter(i, class, l, as)
    BY <1>2, Lists
  <2> DEFINE f == Scatter(i, class, l, as)
  <2>2. \A n \in names : NameOf(class, n) \in DOMAIN f
    BY <1>2, ScatterParts
  <2>3. \A k \in DOMAIN f : /\ f[k].class = as
                            /\ \E n \in names : StandsFor(k, f[k], i, class, n)
    BY <1>2, ScatterParts
  <2>4. \A n : Element(i, class, n) \in Elements(i, class) <=>
            n \in names /\ ~ (class = "SnmpCommunity" /\ n = "comm-public")
    <3>1. \A m, n : Element(i, class, n) = Element(i, class, m) => n = m
      BY DEF Element, Piece
    <3> QED BY <1>2, <3>1, ElementParts
  <2>5. /\ DOMAIN made = IF class = "SnmpCommunity" THEN DOMAIN f \ {<<"comm-public">>} ELSE DOMAIN f
        /\ \A k \in DOMAIN made : made[k] = f[k]
    <3> HIDE DEF f, made
    <3> QED BY <2>1 DEF Without, f
  <2>6. \A n : class = "SnmpCommunity" => (NameOf(class, n) = <<"comm-public">> <=> n = "comm-public")
    BY DEF NameOf, Spelled
  <2> HIDE DEF f, made, names
  <2>7. ASSUME NEW n, Element(i, class, n) \in Elements(i, class)
        PROVE  NameOf(class, n) \in DOMAIN made
    BY <2>2, <2>4, <2>5, <2>6, <2>7
  <2>8. ASSUME NEW k \in DOMAIN made
        PROVE  /\ made[k].class \in {class, object.class}
               /\ \E n : /\ Element(i, class, n) \in Elements(i, class)
                         /\ StandsFor(k, made[k], i, class, n)
    <3>1. k \in DOMAIN f /\ made[k] = f[k] /\ (class = "SnmpCommunity" => k # <<"comm-public">>)
      BY <2>5
    <3>2. PICK n \in names : StandsFor(k, f[k], i, class, n)
      BY <2>3, <3>1
    <3>3. ~ (class = "SnmpCommunity" /\ n = "comm-public")
      BY <2>6, <3>1, <3>2 DEF StandsFor
    <3> QED BY <2>1, <2>3, <2>4, <3>1, <3>2, <3>3
  <2> QED BY <2>7, <2>8 DEF made
<1> QED BY <1>1, <1>2

LEMMA HandledOther ==
  ASSUME NEW i, NEW class, class \notin ListClasses, NEW object
  PROVE  Handled(i, class, Key, object) =
            IF class = "RouteDomain" /\ "id 0" \in conf[i].gives THEN Nothing ELSE Only(Key, object)
BY DEF ListClasses, Handled, RouteDomain
(* What converting an item makes of what was there.                        *)
LEMMA ConvertParts ==
  ASSUME ConvertItem
  PROVE  LET made == Handled(At, Class, Key, Made)
         IN  /\ \A k \in DOMAIN common' :
                    \/ k \in DOMAIN made /\ common'[k] = made[k]
                    \/ k \notin DOMAIN made /\ k \in DOMAIN common \ {Key} /\ common'[k] = common[k]
             /\ \A k \in DOMAIN made \cup (DOMAIN common \ {Key}) :
                    \/ k \in DOMAIN common'
                    \/ k = Key /\ k \in DOMAIN made /\ made[k].from = {}
<1> DEFINE made == Handled(At, Class, Key, Made)
           rest == Without(common, {Key})
           all == Over(made, rest)
<1>1. common' = IF Key \in DOMAIN all /\ IsEmpty(all[Key]) THEN Without(all, {Key}) ELSE all
  BY DEF ConvertItem
<1>2. /\ DOMAIN rest = DOMAIN common \ {Key}
      /\ \A k \in DOMAIN rest : rest[k] = common[k]
  BY DEF Without
<1> HIDE DEF made, rest
<1>3. /\ DOMAIN all = DOMAIN made \cup DOMAIN rest
      /\ \A k \in DOMAIN made : all[k] = made[k]
      /\ \A k \in DOMAIN rest \ DOMAIN made : all[k] = rest[k]
  BY OverParts
<1> HIDE DEF all
<1>4. /\ DOMAIN common' = IF Key \in DOMAIN all /\ IsEmpty(all[Key]) THEN DOMAIN all \ {Key}
                                                                      ELSE DOMAIN all
      /\ \A k \in DOMAIN common' : common'[k] = all[k]
  <2>1. DOMAIN Without(all, {Key}) = DOMAIN all \ {Key}
    BY DEF Without
  <2>2. \A k \in DOMAIN all \ {Key} : Without(all, {Key})[k] = all[k]
    BY DEF Without
  <2> QED BY <1>1, <2>1, <2>2
<1>5. ASSUME NEW k \in DOMAIN common'
      PROVE  \/ k \in DOMAIN made /\ common'[k] = made[k]
             \/ k \notin DOMAIN made /\ k \in DOMAIN common \ {Key} /\ common'[k] = common[k]
  BY <1>2, <1>3, <1>4
<1>6. ASSUME NEW k \in DOMAIN made \cup (DOMAIN common \ {Key})
      PROVE  \/ k \in DOMAIN common'
             \/ k = Key /\ k \in DOMAIN made /\ made[k].from = {}
  BY <1>2, <1>3, <1>4 DEF IsEmpty
<1> QED BY <1>5, <1>6 DEF made

(* The key of an object names authentication only if its class does.       *)
LEMMA KeyParts ==
  ASSUME NEW class, NEW s
  PROVE  /\ class # "Authentication" =>
                ClassName(class, s) \notin {<<"Authentication", "IPv4">>, <<"Authentication", "IPv6">>}
         /\ class = "Authentication" /\ s.kind # "cm device" =>
                ClassName(class, s) \in
                    {<<s.name>>, <<"Authentication", "IPv4">>, <<"Authentication", "IPv6">>}
<1>1. ClassName(class, s) \in {<<class>>, <<class, "IPv4">>, <<class, "IPv6">>, <<class, s.name>>,
                               <<s.name>>, <<class, IPv4[s.name], "IPv4">>,
                               <<class, IPv6[s.name], "IPv6">>}
  BY DEF ClassName
<1>2. class = "Authentication" /\ s.kind # "cm device" =>
          ClassName(class, s) \in
              {<<s.name>>, <<"Authentication", "IPv4">>, <<"Authentication", "IPv6">>}
  BY DEF ClassName, NamedClasses
<1>3. ASSUME NEW x \in {"IPv4", "IPv6"}, ClassName(class, s) = <<"Authentication", x>>
      PROVE  class = "Authentication"
  <2> DEFINE key == ClassName(class, s)
  <2>1. key = <<s.name>> \/ key[1] = class
    BY <1>1
  <2>2. key # <<s.name>> /\ key[1] = "Authentication"
    BY <1>3
  <2> QED BY <2>1, <2>2
<1> QED BY <1>2, <1>3

LEMMA InitIInv == Init => IInv
<1> SUFFICES ASSUME Init PROVE IInv
  OBVIOUS
<1>1. TypeInv
  BY DEF Init, TypeInv
<1>2. DOMAIN common = {}
  BY NothingParts DEF Init
<1> QED BY <1>1, <1>2 DEF IInv, PiecesInv, TemporaryInv

LEMMA TypeStep ==
  ASSUME TypeInv, [Next]_vars
  PROVE  TypeInv'
<1>1. CASE FilterDevices
  BY <1>1 DEF FilterDevices, TypeInv
<1>2. CASE SkipItem \/ ConvertItem
  <2>1. Ahead # {} /\ todo' = todo /\ item' = Matched + 1 /\ status = "converting"
        /\ UNCHANGED <<conf, currentDevice, status>>
    BY <1>2 DEF SkipItem, ConvertItem, AtItem
  <2>2. Matched \in Nat
    BY <2>1, MatchedIs
  <2> QED BY <2>1, <2>2 DEF TypeInv
<1>3. CASE EndPlain \/ EndUser \/ EndSource \/ EndSection \/ EndRadius \/ EndRadiusServer
  <2>1. NextStanza /\ status = "converting"
    BY <1>3 DEF EndPlain, EndUser, EndSource, EndSection, EndRadius, EndRadiusServer, Ended
  <2> QED BY <2>1 DEF TypeInv, NextStanza
<1>4. CASE Finish
  BY <1>4 DEF Finish, TypeInv
<1>5. CASE Fail
  BY <1>5 DEF Fail, TypeInv, AtItem, Ended
<1>6. CASE UNCHANGED vars
  BY <1>6 DEF vars, TypeInv
<1> QED BY <1>1, <1>2, <1>3, <1>4, <1>5, <1>6 DEF Next

(* The pieces of what is made of a stanza are its own or were there.       *)
LEMMA MadeParts ==
  ASSUME conf \in Configurations, At \in DOMAIN conf, ~ Throws(At, Class, Made)
  PROVE  LET made == Handled(At, Class, Key, Made)
         IN  \A k \in DOMAIN made :
                /\ \A p \in made[k].from :
                       (p[1] = At /\ p[2] = Class) \/ (Key \in DOMAIN common /\ p \in common[Key].from)
                /\ \/ made[k].class = Class
                   \/ Key \in DOMAIN common /\ made[k].class = common[Key].class
<1> DEFINE made == Handled(At, Class, Key, Made)
<1>1. /\ \A p \in Made.from :
             (p[1] = At /\ p[2] = Class) \/ (Key \in DOMAIN common /\ p \in common[Key].from)
      /\ Made.class = Class \/ (Key \in DOMAIN common /\ Made.class = common[Key].class)
  <2>1. Made.from = Before.from \cup Gives(At, Class) /\ Made.class = Before.class
    BY DEF Made
  <2>2. \A p \in Gives(At, Class) : p[1] = At /\ p[2] = Class
    BY DEF Gives
  <2>3. IF Key \in DOMAIN common THEN Before = common[Key]
                                 ELSE Before.from = {} /\ Before.class = Class
    BY DEF Before
  <2> QED BY <2>1, <2>2, <2>3
<1>2. CASE Class \in ListClasses
  <2>1. \A k \in DOMAIN made : /\ made[k].class \in {Class, Made.class}
                               /\ \E n : StandsFor(k, made[k], At, Class, n)
    BY <1>2, HandledList
  <2>2. ASSUME NEW k \in DOMAIN made, NEW p \in made[k].from
        PROVE  p[1] = At /\ p[2] = Class
    <3>1. PICK n : StandsFor(k, made[k], At, Class, n)
      BY <2>1
    <3> QED BY <2>2, <3>1 DEF StandsFor, Piece
  <2> HIDE DEF made
  <2> QED BY <1>1, <2>1, <2>2 DEF made
<1>3. CASE Class \notin ListClasses
  <2>1. \A k \in DOMAIN made : made[k] = Made
    <3>1. made = Nothing \/ made = Only(Key, Made)
      BY <1>3, HandledOther
    <3> HIDE DEF made
    <3> QED BY <3>1 DEF Nothing, Only
  <2> HIDE DEF made
  <2> QED BY <1>1, <2>1 DEF made
<1> QED BY <1>2, <1>3

LEMMA PiecesStep ==
  ASSUME TypeInv, PiecesInv, [Next]_vars
  PROVE  PiecesInv'
<1> USE DEF PiecesInv
<1>1. CASE ConvertItem
  <2> DEFINE made == Handled(At, Class, Key, Made)
  <2>1. At \in Kept(conf) /\ At \in DOMAIN conf /\ ~ Throws(At, Class, Made) /\ conf' = conf
    BY <1>1, AtIs DEF ConvertItem, AtItem
  <2>2. \A k \in DOMAIN common' :
            \/ k \in DOMAIN made /\ common'[k] = made[k]
            \/ k \notin DOMAIN made /\ k \in DOMAIN common \ {Key} /\ common'[k] = common[k]
    BY <1>1, ConvertParts
  <2>3. \A k \in DOMAIN made : \A p \in made[k].from :
            p[1] = At \/ (Key \in DOMAIN common /\ p \in common[Key].from)
    BY <2>1, MadeParts DEF TypeInv
  <2> HIDE DEF made
  <2> QED BY <2>1, <2>2, <2>3
<1>2. CASE EndUser
  <2>1. At \in Kept(conf) /\ conf' = conf
    BY <1>2, AtIs DEF EndUser, Ended, NextStanza
  <2> DEFINE user == [class |-> "User", from |-> {<<At, "User", "all">>}]
             one == Only(<<Stanza.name>>, user)
  <2>2. DOMAIN one = {<<Stanza.name>>} /\ one[<<Stanza.name>>] = user
    BY DEF Only
  <2> HIDE DEF one
  <2>3. /\ DOMAIN common' = DOMAIN one \cup DOMAIN common
        /\ \A k \in DOMAIN common' :
               common'[k] = user \/ (k \in DOMAIN common /\ common'[k] = common[k])
    <3>1. common' = Over(one, common)
      BY <1>2 DEF EndUser, one
    <3> QED BY <2>2, <3>1 DEF Over
  <2> QED BY <2>1, <2>3
<1>3. CASE EndSource \/ EndSection \/ EndRadius \/ EndRadiusServer
  <2>1. common' = Without(common, {Temporary}) /\ conf' = conf
    BY <1>3 DEF EndSource, EndSection, EndRadius, EndRadiusServer, NextStanza
  <2> QED BY <2>1 DEF Without
<1>4. CASE FilterDevices \/ SkipItem \/ EndPlain \/ Finish \/ Fail \/ UNCHANGED vars
  <2>1. common' = common /\ conf' = conf
    BY <1>4 DEF FilterDevices, SkipItem, EndPlain, Finish, Fail, NextStanza, vars
  <2> QED BY <2>1
<1> QED BY <1>1, <1>2, <1>3, <1>4 DEF Next
LEMMA TemporaryStep ==
  ASSUME TypeInv, TemporaryInv, [Next]_vars
  PROVE  TemporaryInv'
<1> DEFINE Lasting == {<<"Authentication", "IPv4">>, <<"Authentication", "IPv6">>}
           Of(object) == \/ object.class = "Authentication"
                         \/ \E p \in object.from : p[2] = "Authentication"
<1>1. /\ \A k : OfAuthentication(k) <=> Of(common[k])
      /\ \A k : OfAuthentication(k)' <=> Of(common'[k])
  BY DEF OfAuthentication
<1>2. CASE ConvertItem
  <2> DEFINE made == Handled(At, Class, Key, Made)
  <2>1. /\ todo # {} /\ Ahead # {} /\ ~ Throws(At, Class, Made)
        /\ conf' = conf /\ todo' = todo /\ Stanza' = Stanza /\ Temporary' = Temporary
        /\ item' = Matched + 1
    BY <1>2 DEF ConvertItem, AtItem, Stanza, At, Temporary
  <2>2. At \in DOMAIN conf /\ item' > 1
    BY <2>1, AtIs, MatchedIs, PositionParts
  <2>3. \A k \in DOMAIN common' :
            \/ k \in DOMAIN made /\ common'[k] = made[k]
            \/ k \notin DOMAIN made /\ k \in DOMAIN common \ {Key} /\ common'[k] = common[k]
    BY <1>2, ConvertParts
  <2>4. Stanza.kind \in AuthKinds <=> Class = "Authentication"
    BY <2>1, MatchedIs, ClassParts
  <2>5. \A k \in DOMAIN common : Of(common[k]) =>
            k \in Lasting \/ (Stanza.kind \in AuthKinds /\ k = Temporary)
    BY <1>1 DEF TemporaryInv
  <2>6. ASSUME NEW k \in DOMAIN made, Of(made[k])
        PROVE  k \in Lasting \/ (Stanza.kind \in AuthKinds /\ k = Temporary)
    <3>1. CASE Class = "Authentication"
      <4>1. Stanza.kind # "cm device" /\ Class \notin ListClasses /\ Class # "RouteDomain"
        BY <2>4, <3>1 DEF AuthKinds, ListClasses
      <4>2. made = Only(Key, Made)
        BY <4>1, HandledOther
      <4>3. k = Key
        BY <2>6, <4>2 DEF Only
      <4> QED BY <2>4, <3>1, <4>1, <4>3, KeyParts DEF Key, Temporary
    <3>2. CASE Class # "Authentication"
      <4>1. Stanza.kind \notin AuthKinds
        BY <2>4, <3>2
      <4>2. Key \notin Lasting
        BY <3>2, KeyParts DEF Key
      <4>3. Key \in DOMAIN common => ~ Of(common[Key])
        BY <2>5, <4>1, <4>2
      <4>4. /\ \A p \in made[k].from :
                   p[2] = Class \/ (Key \in DOMAIN common /\ p \in common[Key].from)
            /\ made[k].class = Class \/ (Key \in DOMAIN common /\ made[k].class = common[Key].class)
        BY <2>1, <2>2, MadeParts DEF TypeInv
      <4> QED BY <2>6, <3>2, <4>3, <4>4
    <3> QED BY <3>1, <3>2
  <2> HIDE DEF made, Of, Lasting
  <2>7. ASSUME NEW k \in DOMAIN common', Of(common'[k])
        PROVE  k \in Lasting \/ (Stanza.kind \in AuthKinds /\ k = Temporary)
    BY <2>3, <2>5, <2>6, <2>7
  <2> QED BY <1>1, <2>1, <2>2, <2>7 DEF TemporaryInv, Lasting
<1>3. CASE SkipItem
  <2>1. /\ todo # {} /\ Ahead # {} /\ common' = common /\ todo' = todo
        /\ Stanza' = Stanza /\ Temporary' = Temporary /\ item' = Matched + 1
    BY <1>3 DEF SkipItem, AtItem, Stanza, At, Temporary
  <2>2. item' > 1
    BY <2>1, AtIs, MatchedIs, PositionParts
  <2> HIDE DEF Of
  <2> QED BY <1>1, <2>1, <2>2 DEF TemporaryInv
<1>4. CASE EndPlain \/ EndUser \/ EndSource \/ EndSection \/ EndRadius \/ EndRadiusServer
  <2>1. ASSUME NEW k \in DOMAIN common', Of(common'[k])
        PROVE  k \in Lasting
    <3>1. \A j \in DOMAIN common : Of(common[j]) =>
              j \in Lasting \/ (Stanza.kind \in AuthKinds /\ j = Temporary)
      BY <1>1 DEF TemporaryInv
    <3>2. CASE EndPlain
      BY <2>1, <3>1, <3>2 DEF EndPlain
    <3>3. CASE EndUser
      <4> DEFINE user == [class |-> "User", from |-> {<<At, "User", "all">>}]
                 one == Only(<<Stanza.name>>, user)
      <4>1. Stanza.kind \notin AuthKinds
        BY <3>3 DEF EndUser, AuthKinds
      <4>2. common' = Over(one, common)
        BY <3>3 DEF EndUser
      <4>3. common'[k] = user \/ (k \in DOMAIN common /\ common'[k] = common[k])
        BY <2>1, <4>2 DEF Over, Only
      <4>4. ~ Of(user)
        OBVIOUS
      <4> HIDE DEF user, one, Of
      <4> QED BY <2>1, <3>1, <4>1, <4>3, <4>4
    <3>4. CASE EndSource \/ EndSection \/ EndRadius \/ EndRadiusServer
      <4>1. common' = Without(common, {Temporary})
        BY <3>4 DEF EndSource, EndSection, EndRadius, EndRadiusServer
      <4>2. k \in DOMAIN common /\ k # Temporary /\ common'[k] = common[k]
        BY <2>1, <4>1 DEF Without
      <4> QED BY <2>1, <3>1, <4>2
    <3> QED BY <1>4, <3>2, <3>3, <3>4
  <2> HIDE DEF Of
  <2> QED BY <1>1, <2>1 DEF TemporaryInv
<1>5. CASE FilterDevices
  BY <1>5, NothingParts DEF FilterDevices, TypeInv, TemporaryInv
<1>6. CASE Finish \/ Fail \/ UNCHANGED vars
  <2>1. /\ common' = common /\ todo' = todo /\ item' = item
        /\ Stanza' = Stanza /\ Temporary' = Temporary
    BY <1>6 DEF Finish, Fail, vars, Stanza, At, Temporary
  <2> HIDE DEF Of
  <2> QED BY <1>1, <2>1 DEF TemporaryInv
<1> QED BY <1>2, <1>3, <1>4, <1>5, <1>6 DEF Next

(* The converter's state stays well-typed, what is in the declaration is   *)
(* of stanzas that were kept, and what was made of a stanza of             *)
(* authentication is under the one name that the stanza's end deletes, or  *)
(* under a name for addresses.                                             *)
THEOREM OnboardingInv == Spec => []IInv
<1>1. IInv /\ [Next]_vars => IInv'
  BY TypeStep, PiecesStep, TemporaryStep DEF IInv
<1> QED BY InitIInv, <1>1, PTL DEF Spec

(* No object that the items make of a stanza of authentication, and none   *)
(* that holds a part of one, outlives its stanza, whatever names other     *)
(* stanzas have; but for RADIUS servers named after an address.            *)
THEOREM TemporariesAreGone == Spec => []TemporariesGo
<1>1. TypeInv /\ TemporaryInv => TemporariesGo
  <2> SUFFICES ASSUME TypeInv, TemporaryInv, item = 1, NEW k \in DOMAIN common, OfAuthentication(k)
               PROVE  k[Len(k)] \in {"IPv4", "IPv6"}
    BY DEF TemporariesGo, OfAuthentication
  <2>1. k \in {<<"Authentication", "IPv4">>, <<"Authentication", "IPv6">>}
    BY DEF TemporaryInv
  <2>2. CASE k = <<"Authentication", "IPv4">>
    <3>1. Len(k) = 2 /\ k[2] = "IPv4"
      BY <2>2
    <3> QED BY <3>1
  <2>3. CASE k = <<"Authentication", "IPv6">>
    <3>1. Len(k) = 2 /\ k[2] = "IPv6"
      BY <2>3
    <3> QED BY <3>1
  <2> QED BY <2>1, <2>2, <2>3
<1> QED BY OnboardingInv, <1>1, PTL DEF IInv

(* In a cluster only addresses of devices that are ours are declared, and  *)
(* when one device is, a group that has a declared device among its        *)
(* members is owned by one.                                                *)
THEOREM OwnersAreOurs == Spec => []OwnerIsDeclared
<1>1. TypeInv /\ PiecesInv => OwnerIsDeclared
  <2> SUFFICES ASSUME TypeInv, PiecesInv, status = "done", Filtered(conf)
               PROVE  OwnerIsDeclared
    BY DEF OwnerIsDeclared
  <2> DEFINE own == {p[1] : p \in UNION {common[k].from :
                        k \in {x \in DOMAIN common : common[x].class \in HAClasses}}}
                    \cap Devices(conf)
             hosts == {conf[i].hostname : i \in own}
             left == Devices(conf) \cap Kept(conf)
  <2>1. own \subseteq left
    BY DEF PiecesInv
  <2>2. \A i \in left : ValidDevice(conf, i)
    BY DEF Kept
  <2>3. ASSUME OneIsOurs, NEW g \in DOMAIN conf, HasList(g, "members"),
               hosts \cap Range(conf[g].lists["members"]) # {}
        PROVE  Owner(g) \in hosts
    <3>1. PICK i \in own : conf[i].hostname \in Range(conf[g].lists["members"])
      BY <2>3
    <3>2. left \in SUBSET (1 .. Len(conf)) /\ Len(conf) \in Nat
      BY ConfShape DEF TypeInv
    <3>3. i \in left /\ Max(left) \in left
      BY <2>1, <3>1, <3>2, MaxIs
    <3>4. Max(left) = i
      BY <2>3, <3>3 DEF OneIsOurs, Several
    <3>5. currentDevice = conf[i].hostname
      BY <3>3, <3>4 DEF TypeInv, Current
    <3>6. Owner(g) = currentDevice
      BY <3>1, <3>5 DEF Owner
    <3> QED BY <3>1, <3>5, <3>6
  <2> HIDE DEF left
  <2> QED BY <2>1, <2>2, <2>3 DEF OwnerIsDeclared
<1> QED BY OnboardingInv, <1>1, PTL DEF IInv
-----------------------------------------------------------------------------
(* What the declaration holds, piece by piece.                             *)
Triple(k, class, p) == <<k, class, p>>

Shows(k, object, t) == \E p \in object.from : t = Triple(k, object.class, p)

LEMMA TripleParts ==
  ASSUME NEW k, NEW class, NEW p
  PROVE  Triple(k, class, p)[1] = k /\ Triple(k, class, p)[2] = class /\ Triple(k, class, p)[3] = p
BY DEF Triple

LEMMA ShowsParts ==
  ASSUME NEW k, NEW object, NEW t, Shows(k, object, t)
  PROVE  t[1] = k /\ t[2] = object.class /\ object.from # {}
BY TripleParts DEF Shows

LEMMA InTriples ==
  ASSUME NEW f, NEW t
  PROVE  t \in Triples(f) <=> \E k \in DOMAIN f : Shows(k, f[k], t)
<1>1. Triples(f) = UNION {{Triple(k, f[k].class, p) : p \in f[k].from} : k \in DOMAIN f}
  BY Zenon DEF Triples, Triple
<1> QED BY <1>1 DEF Shows

LEMMA InCommon ==
  CommonInv <=> \A t : t \in Triples(common) <=> \/ \E i \in Done : t \in Own(i)
                                                 \/ todo # {} /\ t \in SoFar
<1>1. ASSUME NEW t
      PROVE  t \in (UNION {Own(i) : i \in Done}) \cup (IF todo = {} THEN {} ELSE SoFar) <=>
                 (\E i \in Done : t \in Own(i)) \/ (todo # {} /\ t \in SoFar)
  OBVIOUS
<1> QED BY <1>1 DEF CommonInv

LEMMA InSoFar ==
  ASSUME NEW t
  PROVE  t \in SoFar <=> \E n \in Positions(Stanza.kind) : n < item /\ t \in Becomes(At, Items[n][2])
BY DEF SoFar

(* The pieces that a class makes of a stanza.                              *)
LEMMA BecomesParts ==
  ASSUME NEW i, NEW class
  PROVE  /\ <<class, conf[i].name>> \in Ignored => Becomes(i, class) = {}
         /\ <<class, conf[i].name>> \notin Ignored /\ class \in ListClasses =>
                Becomes(i, class) = Elements(i, class)
         /\ class = "RouteDomain" /\ "id 0" \in conf[i].gives => Becomes(i, class) = {}
         /\ /\ <<class, conf[i].name>> \notin Ignored /\ class \notin ListClasses
            /\ ~ (class = "RouteDomain" /\ "id 0" \in conf[i].gives)
            => \A t : t \in Becomes(i, class) <=>
                      \E p \in Gives(i, class) : t = Triple(ClassName(class, conf[i]), class, p)
<1>1. CASE <<class, conf[i].name>> \in Ignored
  BY <1>1 DEF Becomes
<1>2. CASE <<class, conf[i].name>> \notin Ignored /\ class \in ListClasses
  BY <1>2 DEF Becomes, ListClasses
<1>3. CASE class = "RouteDomain" /\ "id 0" \in conf[i].gives
  BY <1>3 DEF Becomes, ListClasses
<1>4. CASE /\ <<class, conf[i].name>> \notin Ignored /\ class \notin ListClasses
           /\ ~ (class = "RouteDomain" /\ "id 0" \in conf[i].gives)
  <2>1. Becomes(i, class) = {Triple(ClassName(class, conf[i]), class, p) : p \in Gives(i, class)}
    BY <1>4, Zenon DEF Becomes, Triple
  <2> QED BY <1>4, <2>1
<1> QED BY <1>1, <1>2, <1>3, <1>4
-----------------------------------------------------------------------------
(* The names that are taken.                                               *)
LEMMA InTaken ==
  ASSUME NEW i, NEW x
  PROVE  x \in Taken(i) <=>
            \/ \E c \in ClassesOf(conf[i].kind) :
                   x = Triple(ClassName(c, conf[i]), IF c \in ListClasses THEN "temporary" ELSE c, "whole")
            \/ \E c \in ClassesOf(conf[i].kind) \cap ListClasses : \E e \in Elements(i, c) :
                   x = Triple(e[1], e[2], e[3][3])
            \/ conf[i].kind = "auth user" /\ x = Triple(<<conf[i].name>>, "User", "whole")
            \/ conf[i].kind \in AuthKinds /\ x = Triple(<<conf[i].name>>, "temporary", "whole")
<1> DEFINE classes == ClassesOf(conf[i].kind)
<1>1. Taken(i) =
        {Triple(ClassName(c, conf[i]), IF c \in ListClasses THEN "temporary" ELSE c, "whole") : c \in classes}
        \cup (UNION {{Triple(e[1], e[2], e[3][3]) : e \in Elements(i, c)} : c \in classes \cap ListClasses})
        \cup (IF conf[i].kind = "auth user" THEN {Triple(<<conf[i].name>>, "User", "whole")} ELSE {})
        \cup (IF conf[i].kind \in AuthKinds THEN {Triple(<<conf[i].name>>, "temporary", "whole")} ELSE {})
  BY Zenon DEF Taken, Triple
<1> DEFINE whole(c) == Triple(ClassName(c, conf[i]), IF c \in ListClasses THEN "temporary" ELSE c, "whole")
           part(e) == Triple(e[1], e[2], e[3][3])
           parts(c) == {part(e) : e \in Elements(i, c)}
<1>2. Taken(i) = {whole(c) : c \in classes} \cup (UNION {parts(c) : c \in classes \cap ListClasses})
                 \cup (IF conf[i].kind = "auth user" THEN {Triple(<<conf[i].name>>, "User", "whole")} ELSE {})
                 \cup (IF conf[i].kind \in AuthKinds THEN {Triple(<<conf[i].name>>, "temporary", "whole")} ELSE {})
  BY <1>1, Zenon
<1> HIDE DEF whole, part
<1>3. \A c : x \in parts(c) <=> \E e \in Elements(i, c) : x = part(e)
  OBVIOUS
<1> HIDE DEF parts, classes
<1>4. x \in Taken(i) <=>
            \/ \E c \in classes : x = whole(c)
            \/ \E c \in classes \cap ListClasses : x \in parts(c)
            \/ conf[i].kind = "auth user" /\ x = Triple(<<conf[i].name>>, "User", "whole")
            \/ conf[i].kind \in AuthKinds /\ x = Triple(<<conf[i].name>>, "temporary", "whole")
  BY <1>2
<1> QED BY <1>3, <1>4, Zenon DEF whole, part, classes

LEMMA TakenParts ==
  ASSUME conf \in Configurations, NEW i \in DOMAIN conf, NEW class \in ClassesOf(conf[i].kind)
  PROVE  /\ class \notin ListClasses => Triple(ClassName(class, conf[i]), class, "whole") \in Taken(i)
         /\ class \in ListClasses =>
                /\ Triple(ClassName(class, conf[i]), "temporary", "whole") \in Taken(i)
                /\ \A n : Element(i, class, n) \in Elements(i, class) =>
                              Triple(NameOf(class, n), class, n) \in Taken(i)
<1>1. CASE class \notin ListClasses
  BY <1>1, InTaken
<1>2. CASE class \in ListClasses
  <2>1. Triple(ClassName(class, conf[i]), "temporary", "whole") \in Taken(i)
    BY <1>2, InTaken
  <2>2. ASSUME NEW n, Element(i, class, n) \in Elements(i, class)
        PROVE  Triple(NameOf(class, n), class, n) \in Taken(i)
    <3> DEFINE e == Element(i, class, n)
    <3>1. e[1] = NameOf(class, n) /\ e[2] = class /\ e[3][3] = n
      BY DEF Element, Piece
    <3>2. e \in Elements(i, class)
      BY <2>2
    <3> HIDE DEF e
    <3>3. Triple(e[1], e[2], e[3][3]) \in Taken(i)
      BY <1>2, <3>2, InTaken
    <3> QED BY <3>1, <3>3
  <2> QED BY <1>2, <2>1, <2>2
<1> QED BY <1>1, <1>2
(* What one stanza has for good, another has only if they are merged.      *)
LEMMA Foreign ==
  ASSUME Separate, NEW i \in Kept(conf), NEW j \in Kept(conf), i # j,
         NEW x \in Taken(i), NEW y \in Taken(j), x[1] = y[1], ~ Momentary(x)
  PROVE  x[2] = y[2] /\ Merging(y[2]) /\ y[2] # "temporary"
<1>1. x[2] = y[2] /\ Merging(x[2])
  BY Zenon DEF Separate
<1> QED BY <1>1 DEF Momentary

LEMMA Alike ==
  ASSUME Separate, NEW i \in Kept(conf), NEW x \in Taken(i), NEW y \in Taken(i), x[1] = y[1]
  PROVE  x = y \/ (x[2] = y[2] /\ Merging(y[2])) \/ (Momentary(x) /\ Momentary(y))
BY DEF Separate

LEMMA ElementShape ==
  ASSUME conf \in Configurations, NEW i \in DOMAIN conf, NEW class, NEW e \in Elements(i, class)
  PROVE  \E n : e = Element(i, class, n)
BY ElementParts

LEMMA ElementIs ==
  ASSUME NEW i, NEW class, NEW n
  PROVE  /\ Element(i, class, n) = Triple(NameOf(class, n), class, Piece(i, class, n))
         /\ Element(i, class, n)[1] = NameOf(class, n) /\ Element(i, class, n)[2] = class
BY DEF Element, Triple

LEMMA AuthName ==
  ASSUME NEW i, conf[i].kind \in AuthKinds
  PROVE  ClassName("Authentication", conf[i]) \in
             IF HasAddress(conf[i].name)
             THEN {<<"Authentication", "IPv4">>, <<"Authentication", "IPv6">>}
             ELSE {<<conf[i].name>>}
<1>1. conf[i].kind # "cm device"
  BY DEF AuthKinds
<1> QED BY <1>1 DEF ClassName, NamedClasses, HasAddress

LEMMA TakenKinds ==
  ASSUME conf \in Configurations, NEW i \in DOMAIN conf, NEW x \in Taken(i)
  PROVE  /\ x[2] = "Authentication" => conf[i].kind \in AuthKinds
         /\ conf[i].kind \in AuthKinds =>
                \/ x[2] = "temporary"
                \/ x[2] = "Authentication" /\ x[1] = ClassName("Authentication", conf[i])
<1>1. CASE \E c \in ClassesOf(conf[i].kind) :
             x = Triple(ClassName(c, conf[i]), IF c \in ListClasses THEN "temporary" ELSE c, "whole")
  <2>1. PICK c \in ClassesOf(conf[i].kind) :
             x = Triple(ClassName(c, conf[i]), IF c \in ListClasses THEN "temporary" ELSE c, "whole")
    BY <1>1
  <2>2. conf[i].kind \in AuthKinds <=> c = "Authentication"
    BY ClassParts
  <2>3. x[1] = ClassName(c, conf[i]) /\ x[2] = IF c \in ListClasses THEN "temporary" ELSE c
    BY <2>1, TripleParts
  <2> QED BY <2>2, <2>3 DEF ListClasses
<1>2. CASE \E c \in ClassesOf(conf[i].kind) \cap ListClasses : \E e \in Elements(i, c) :
             x = Triple(e[1], e[2], e[3][3])
  <2>1. PICK c \in ClassesOf(conf[i].kind) \cap ListClasses : \E e \in Elements(i, c) :
             x = Triple(e[1], e[2], e[3][3])
    BY <1>2
  <2>2. PICK e \in Elements(i, c) : x = Triple(e[1], e[2], e[3][3])
    BY <2>1
  <2>3. e[2] = c /\ x[2] = e[2]
    BY <2>2, TripleParts, ElementShape, ElementIs
  <2>4. conf[i].kind \notin AuthKinds /\ c # "Authentication"
    BY ClassParts DEF ListClasses
  <2> QED BY <2>3, <2>4
<1>3. CASE conf[i].kind = "auth user" /\ x = Triple(<<conf[i].name>>, "User", "whole")
  <2>1. x[2] = "User"
    BY <1>3 DEF Triple
  <2>2. conf[i].kind \notin AuthKinds
    BY <1>3 DEF AuthKinds
  <2> QED BY <2>1, <2>2
<1>4. CASE conf[i].kind \in AuthKinds /\ x = Triple(<<conf[i].name>>, "temporary", "whole")
  BY <1>4, TripleParts
<1> QED BY <1>1, <1>2, <1>3, <1>4, InTaken

LEMMA BecomesTaken ==
  ASSUME conf \in Configurations, NEW i \in DOMAIN conf, NEW class \in ClassesOf(conf[i].kind),
         NEW t \in Becomes(i, class)
  PROVE  /\ t[2] = class
         /\ \E x \in Taken(i) : x[1] = t[1] /\ x[2] = class
         /\ class = "Authentication" => t[1] = ClassName(class, conf[i])
         /\ class \in ListClasses => t \in Elements(i, class)
<1>1. <<class, conf[i].name>> \notin Ignored
  BY BecomesParts
<1>2. CASE class \in ListClasses
  <2>1. t \in Elements(i, class)
    BY <1>1, <1>2, BecomesParts
  <2>2. PICK n : t = Element(i, class, n)
    BY <2>1, ElementShape
  <2> DEFINE x == Triple(NameOf(class, n), class, n)
  <2>3. x \in Taken(i)
    BY <1>2, <2>1, <2>2, TakenParts
  <2>4. x[1] = NameOf(class, n) /\ x[2] = class
    BY TripleParts
  <2>5. t[1] = NameOf(class, n) /\ t[2] = class
    BY <2>2, ElementIs
  <2> HIDE DEF x
  <2> QED BY <1>2, <2>1, <2>3, <2>4, <2>5 DEF ListClasses
<1>3. CASE class \notin ListClasses
  <2>1. PICK p \in Gives(i, class) : t = Triple(ClassName(class, conf[i]), class, p)
    BY <1>1, <1>3, BecomesParts
  <2> DEFINE x == Triple(ClassName(class, conf[i]), class, "whole")
  <2>2. x \in Taken(i)
    BY <1>3, TakenParts
  <2>3. x[1] = ClassName(class, conf[i]) /\ x[2] = class
    BY TripleParts
  <2>4. t[1] = ClassName(class, conf[i]) /\ t[2] = class
    BY <2>1, TripleParts
  <2> HIDE DEF x
  <2> QED BY <1>3, <2>2, <2>3, <2>4
<1> QED BY <1>2, <1>3

LEMMA OwnTaken ==
  ASSUME conf \in Configurations, NEW i \in DOMAIN conf, NEW t \in Own(i)
  PROVE  \E x \in Taken(i) : x[1] = t[1] /\ x[2] = t[2] /\ ~ Momentary(x)
<1>1. CASE conf[i].kind = "auth user"
  <2> DEFINE x == Triple(<<conf[i].name>>, "User", "whole")
  <2>1. t = Triple(<<conf[i].name>>, "User", <<i, "User", "all">>)
    BY <1>1 DEF Own, Triple
  <2>2. x[1] = t[1] /\ x[2] = "User" /\ t[2] = "User"
    BY <2>1, TripleParts
  <2>3. x \in Taken(i)
    BY <1>1, InTaken
  <2> HIDE DEF x
  <2> QED BY <2>2, <2>3 DEF Momentary
<1>2. CASE conf[i].kind # "auth user"
  <2>1. /\ ~ (conf[i].kind \in AuthKinds /\ ~ HasAddress(conf[i].name))
        /\ \E class \in ClassesOf(conf[i].kind) : t \in Becomes(i, class)
    BY <1>2 DEF Own
  <2>2. PICK class \in ClassesOf(conf[i].kind) : t \in Becomes(i, class)
    BY <2>1
  <2>3. /\ t[2] = class
        /\ \E x \in Taken(i) : x[1] = t[1] /\ x[2] = class
        /\ class = "Authentication" => t[1] = ClassName(class, conf[i])
    BY <2>2, BecomesTaken
  <2>4. PICK x \in Taken(i) : x[1] = t[1] /\ x[2] = class
    BY <2>3
  <2>5. class # "temporary" /\ (conf[i].kind \in AuthKinds <=> class = "Authentication")
    BY ClassParts
  <2>6. ASSUME class = "Authentication"
        PROVE  Len(x[1]) = 2
    <3>1. x[1] \in {<<"Authentication", "IPv4">>, <<"Authentication", "IPv6">>}
      BY <2>1, <2>3, <2>4, <2>5, <2>6, AuthName
    <3>2. CASE x[1] = <<"Authentication", "IPv4">>
      BY <3>2
    <3>3. CASE x[1] = <<"Authentication", "IPv6">>
      BY <3>3
    <3> QED BY <3>1, <3>2, <3>3
  <2> QED BY <2>3, <2>4, <2>5, <2>6 DEF Momentary
<1> QED BY <1>1, <1>2
-----------------------------------------------------------------------------
(* What has a name that the current stanza takes.                          *)
LEMMA KeyHere ==
  ASSUME TypeInv, Separate, KeysInv, todo # {},
         NEW k \in DOMAIN common, NEW y \in Taken(At), y[1] = k
  PROVE  \/ common[k].class = y[2] /\ Merging(y[2]) /\ y[2] # "temporary"
         \/ \E x \in Taken(At) : /\ x[1] = k /\ x[2] = common[k].class /\ x[2] # "temporary"
                                 /\ x = y \/ (Momentary(x) /\ Momentary(y))
<1>1. At \in todo /\ At \in Kept(conf)
  BY AtIs
<1>2. CASE \E i \in Done : TakenBy(i, k)
  <2>1. PICK i \in Done : TakenBy(i, k)
    BY <1>2
  <2>2. PICK x \in Taken(i) : x[1] = k /\ x[2] = common[k].class /\ ~ Momentary(x)
    BY <2>1 DEF TakenBy
  <2>3. i \in Kept(conf) /\ i # At
    BY <1>1, <2>1 DEF Done
  <2> QED BY <1>1, <2>2, <2>3, Foreign
<1>3. CASE \E x \in Taken(At) : x[1] = k /\ x[2] = common[k].class /\ x[2] # "temporary"
  BY <1>1, <1>3, Alike
<1> QED BY <1>2, <1>3 DEF KeysInv

LEMMA TripleHere ==
  ASSUME TypeInv, Separate, CommonInv, todo # {},
         NEW t \in Triples(common), NEW y \in Taken(At), y[1] = t[1],
         ~ Merging(y[2]) \/ y[2] = "temporary"
  PROVE  t \in SoFar
<1>1. At \in todo /\ At \in Kept(conf)
  BY AtIs
<1>2. ASSUME NEW i \in Done, t \in Own(i)
      PROVE  FALSE
  <2>1. i \in Kept(conf) /\ i # At /\ i \in DOMAIN conf
    BY <1>1, ConfShape DEF Done, TypeInv
  <2>2. PICK x \in Taken(i) : x[1] = t[1] /\ x[2] = t[2] /\ ~ Momentary(x)
    BY <1>2, <2>1, OwnTaken DEF TypeInv
  <2>3. Merging(y[2]) /\ y[2] # "temporary"
    BY <1>1, <2>1, <2>2, Foreign
  <2> QED BY <2>3
<1> QED BY <1>2, InCommon

LEMMA SoFarClass ==
  ASSUME NEW t \in SoFar
  PROVE  \E c \in ClassesOf(Stanza.kind) : t \in Becomes(At, c)
BY InSoFar DEF ClassesOf

LEMMA SoFarTaken ==
  ASSUME conf \in Configurations, At \in DOMAIN conf, NEW t \in SoFar
  PROVE  \E c \in ClassesOf(Stanza.kind) : /\ t \in Becomes(At, c)
                                           /\ \E x \in Taken(At) : x[1] = t[1] /\ x[2] = c
<1>1. PICK c \in ClassesOf(conf[At].kind) : t \in Becomes(At, c)
  BY SoFarClass DEF Stanza
<1>2. \E x \in Taken(At) : x[1] = t[1] /\ x[2] = c
  BY <1>1, BecomesTaken
<1> QED BY <1>1, <1>2 DEF Stanza

(* An object of its own, or a part of one that has its class.              *)
LEMMA ConvertOther ==
  ASSUME TypeInv, Separate, KeysInv, ConvertItem, Class \notin ListClasses,
         ~ (Class = "RouteDomain" /\ "id 0" \in Stanza.gives)
  PROVE  /\ \A t : t \in Triples(common') <=> t \in Triples(common) \/ t \in Becomes(At, Class)
         /\ \A k \in DOMAIN common' :
                \/ k \in DOMAIN common /\ common'[k].class = common[k].class
                \/ \E x \in Taken(At) : x[1] = k /\ x[2] = common'[k].class /\ x[2] # "temporary"
<1>1. todo # {} /\ Ahead # {} /\ <<Class, Stanza.name>> \notin Ignored
  BY DEF ConvertItem, AtItem
<1>2. At \in Kept(conf) /\ At \in DOMAIN conf /\ Class \in ClassesOf(Stanza.kind)
  BY <1>1, AtIs, MatchedIs
<1> DEFINE y == Triple(Key, Class, "whole")
<1>3. y \in Taken(At) /\ y[1] = Key /\ y[2] = Class
  <2>1. Triple(ClassName(Class, conf[At]), Class, "whole") \in Taken(At)
    BY <1>2, TakenParts DEF TypeInv, Stanza
  <2>2. y \in Taken(At)
    BY <2>1 DEF Key, Stanza
  <2>3. y[1] = Key /\ y[2] = Class
    BY DEF Triple
  <2> QED BY <2>2, <2>3
<1> HIDE DEF y
<1>4. Class # "temporary" /\ (Stanza.kind \in AuthKinds <=> Class = "Authentication")
  BY <1>2, ClassParts
<1>5. Key \in DOMAIN common => common[Key].class = Class
  <2> SUFFICES ASSUME Key \in DOMAIN common PROVE common[Key].class = Class
    OBVIOUS
  <2>1. CASE common[Key].class = y[2]
    BY <1>3, <2>1
  <2>2. CASE \E x \in Taken(At) : /\ x[1] = Key /\ x[2] = common[Key].class /\ x[2] # "temporary"
                                  /\ x = y \/ (Momentary(x) /\ Momentary(y))
    <3>1. PICK x \in Taken(At) : /\ x[1] = Key /\ x[2] = common[Key].class /\ x[2] # "temporary"
                                 /\ x = y \/ (Momentary(x) /\ Momentary(y))
      BY <2>2
    <3> QED BY <1>3, <1>4, <3>1 DEF Momentary
  <2>3. todo # {} /\ y \in Taken(At) /\ y[1] = Key
    BY <1>1, <1>3
  <2>4. \/ common[Key].class = y[2]
        \/ \E x \in Taken(At) : /\ x[1] = Key /\ x[2] = common[Key].class /\ x[2] # "temporary"
                                /\ x = y \/ (Momentary(x) /\ Momentary(y))
    BY <2>3, KeyHere
  <2> QED BY <2>1, <2>2, <2>4
<1>6. /\ Made.class = Class
      /\ \A p : p \in Made.from <=> \/ Key \in DOMAIN common /\ p \in common[Key].from
                                    \/ p \in Gives(At, Class)
  <2>1. Made.class = Before.class /\ Made.from = Before.from \cup Gives(At, Class)
    BY DEF Made
  <2>2. IF Key \in DOMAIN common THEN Before = common[Key]
                                 ELSE Before.class = Class /\ Before.from = {}
    BY DEF Before
  <2> QED BY <1>5, <2>1, <2>2
<1>7. \A t : t \in Becomes(At, Class) <=> \E p \in Gives(At, Class) : t = Triple(Key, Class, p)
  BY <1>1, BecomesParts DEF Stanza, Key
<1>8. \A t : Shows(Key, Made, t) <=> \/ Key \in DOMAIN common /\ Shows(Key, common[Key], t)
                                     \/ t \in Becomes(At, Class)
  BY <1>5, <1>6, <1>7 DEF Shows
<1> DEFINE made == Handled(At, Class, Key, Made)
<1>9. DOMAIN made = {Key} /\ made[Key] = Made
  <2>1. made = Only(Key, Made)
    BY HandledOther DEF Stanza
  <2> QED BY <2>1, OnlyParts
<1>10. /\ \A k \in DOMAIN common' :
              \/ k \in DOMAIN made /\ common'[k] = made[k]
              \/ k \notin DOMAIN made /\ k \in DOMAIN common \ {Key} /\ common'[k] = common[k]
       /\ \A k \in DOMAIN made \cup (DOMAIN common \ {Key}) :
              \/ k \in DOMAIN common'
              \/ k = Key /\ k \in DOMAIN made /\ made[k].from = {}
  BY ConvertParts
<1> HIDE DEF made
<1>11. ASSUME NEW t
       PROVE  t \in Triples(common') <=> t \in Triples(common) \/ t \in Becomes(At, Class)
  <2>1. ASSUME t \in Triples(common')
        PROVE  t \in Triples(common) \/ t \in Becomes(At, Class)
    <3>1. PICK k \in DOMAIN common' : Shows(k, common'[k], t)
      BY <2>1, InTriples
    <3>2. CASE k \in DOMAIN made /\ common'[k] = made[k]
      BY <1>8, <1>9, <3>1, <3>2, InTriples
    <3>3. CASE k \in DOMAIN common /\ common'[k] = common[k]
      BY <3>1, <3>3, InTriples
    <3> QED BY <1>10, <3>2, <3>3
  <2>2. ASSUME Shows(Key, Made, t)
        PROVE  t \in Triples(common')
    <3>1. Made.from # {}
      BY <2>2, ShowsParts
    <3>2. Key \in DOMAIN common' /\ common'[Key] = Made
      BY <1>9, <1>10, <3>1
    <3> QED BY <2>2, <3>2, InTriples
  <2>3. ASSUME t \in Triples(common)
        PROVE  t \in Triples(common')
    <3>1. PICK k \in DOMAIN common : Shows(k, common[k], t)
      BY <2>3, InTriples
    <3>2. CASE k = Key
      BY <1>8, <2>2, <3>1, <3>2
    <3>3. CASE k # Key
      <4>1. k \in DOMAIN common' /\ common'[k] = common[k]
        BY <1>9, <1>10, <3>3
      <4> QED BY <3>1, <4>1, InTriples
    <3> QED BY <3>2, <3>3
  <2>4. ASSUME t \in Becomes(At, Class)
        PROVE  t \in Triples(common')
    BY <1>8, <2>2, <2>4
  <2> QED BY <2>1, <2>3, <2>4
<1>12. ASSUME NEW k \in DOMAIN common'
       PROVE  \/ k \in DOMAIN common /\ common'[k].class = common[k].class
              \/ \E x \in Taken(At) : x[1] = k /\ x[2] = common'[k].class /\ x[2] # "temporary"
  BY <1>3, <1>4, <1>6, <1>9, <1>10
<1> QED BY <1>11, <1>12
(* A route domain that every system has: nothing of it was declared.       *)
LEMMA ConvertDefault ==
  ASSUME TypeInv, Separate, CommonInv, ConvertItem,
         Class = "RouteDomain", "id 0" \in Stanza.gives
  PROVE  /\ \A t : t \in Triples(common') <=> t \in Triples(common) \/ t \in Becomes(At, Class)
         /\ \A k \in DOMAIN common' : k \in DOMAIN common /\ common'[k] = common[k]
<1>1. todo # {} /\ Ahead # {} /\ Class \notin ListClasses /\ ~ Merging(Class)
  BY DEF ConvertItem, AtItem, ListClasses, Merging, NamedClasses
<1>2. /\ At \in Kept(conf) /\ At \in DOMAIN conf /\ Class \in ClassesOf(Stanza.kind)
      /\ conf \in Configurations
  BY <1>1, AtIs, MatchedIs DEF TypeInv
<1> DEFINE y == Triple(Key, Class, "whole")
<1>3. y \in Taken(At) /\ y[1] = Key /\ y[2] = Class
  <2>1. Triple(ClassName(Class, conf[At]), Class, "whole") \in Taken(At)
    BY <1>1, <1>2, TakenParts DEF TypeInv, Stanza
  <2>2. y \in Taken(At)
    BY <2>1 DEF Key, Stanza
  <2>3. y[1] = Key /\ y[2] = Class
    BY DEF Triple
  <2> QED BY <2>2, <2>3
<1> HIDE DEF y
<1>4. Becomes(At, Class) = {}
  BY BecomesParts DEF Stanza
<1>5. ASSUME NEW t \in Triples(common), t[1] = Key
      PROVE  FALSE
  <2>1. t \in SoFar
    BY <1>1, <1>3, <1>5, TripleHere
  <2>2. PICK c \in ClassesOf(Stanza.kind) : /\ t \in Becomes(At, c)
                                             /\ \E x \in Taken(At) : x[1] = t[1] /\ x[2] = c
    BY <1>2, <2>1, SoFarTaken
  <2>3. PICK x \in Taken(At) : x[1] = t[1] /\ x[2] = c
    BY <2>2
  <2>4. x = y \/ (x[2] = y[2] /\ Merging(y[2])) \/ (Momentary(x) /\ Momentary(y))
    BY <1>2, <1>3, <1>5, <2>3, Alike
  <2>5. ~ Momentary(y)
    BY <1>3 DEF Momentary
  <2>6. c = Class
    BY <1>3, <2>3, <2>4, <2>5
  <2> QED BY <1>4, <2>2, <2>6
<1>6. Handled(At, Class, Key, Made) = Nothing
  BY <1>1, HandledOther DEF Stanza
<1> DEFINE made == Handled(At, Class, Key, Made)
<1>7. DOMAIN made = {}
  BY <1>6, NothingParts
<1>8. /\ \A k \in DOMAIN common' :
              \/ k \in DOMAIN made /\ common'[k] = made[k]
              \/ k \notin DOMAIN made /\ k \in DOMAIN common \ {Key} /\ common'[k] = common[k]
      /\ \A k \in DOMAIN made \cup (DOMAIN common \ {Key}) :
              \/ k \in DOMAIN common'
              \/ k = Key /\ k \in DOMAIN made /\ made[k].from = {}
  BY ConvertParts
<1> HIDE DEF made
<1>9. \A k \in DOMAIN common' : k \in DOMAIN common /\ common'[k] = common[k]
  BY <1>7, <1>8
<1>10. ASSUME NEW t
       PROVE  t \in Triples(common') <=> t \in Triples(common)
  <2>1. ASSUME t \in Triples(common')
        PROVE  t \in Triples(common)
    BY <1>9, <2>1, InTriples
  <2>2. ASSUME t \in Triples(common)
        PROVE  t \in Triples(common')
    <3>1. PICK k \in DOMAIN common : Shows(k, common[k], t)
      BY <2>2, InTriples
    <3>2. k # Key
      BY <1>5, <2>2, <3>1, ShowsParts
    <3>3. k \in DOMAIN common' /\ common'[k] = common[k]
      BY <1>8, <1>9, <3>2
    <3> QED BY <3>1, <3>3, InTriples
  <2> QED BY <2>1, <2>2
<1> QED BY <1>4, <1>9, <1>10

(* The elements of a list, each under a name of its own.                   *)
LEMMA ConvertList ==
  ASSUME TypeInv, Separate, KeysInv, CommonInv, ConvertItem, Class \in ListClasses
  PROVE  /\ \A t : t \in Triples(common') <=> t \in Triples(common) \/ t \in Becomes(At, Class)
         /\ \A k \in DOMAIN common' :
                \/ k \in DOMAIN common /\ common'[k].class = common[k].class
                \/ \E x \in Taken(At) : x[1] = k /\ x[2] = common'[k].class /\ x[2] # "temporary"
<1>1. /\ todo # {} /\ Ahead # {} /\ <<Class, Stanza.name>> \notin Ignored
      /\ ~ Throws(At, Class, Made)
  BY DEF ConvertItem, AtItem
<1>2. /\ At \in Kept(conf) /\ At \in DOMAIN conf /\ Class \in ClassesOf(Stanza.kind)
      /\ conf \in Configurations
  BY <1>1, AtIs, MatchedIs DEF TypeInv
<1>3. Class # "temporary" /\ Class # "Authentication" /\ ~ Merging(Class)
  BY DEF ListClasses, Merging
<1>4. Stanza.kind \notin AuthKinds
  BY <1>2, <1>3, ClassParts
<1>5. ASSUME NEW n, Element(At, Class, n) \in Elements(At, Class)
      PROVE  LET x == Triple(NameOf(Class, n), Class, n)
             IN  x \in Taken(At) /\ x[1] = NameOf(Class, n) /\ x[2] = Class /\ x[3] = n
  BY <1>2, <1>5, TakenParts, TripleParts DEF Stanza
<1>6. Key \notin DOMAIN common
  <2> SUFFICES ASSUME Key \in DOMAIN common PROVE FALSE
    OBVIOUS
  <2> DEFINE y == Triple(Key, "temporary", "whole")
  <2>1. Triple(ClassName(Class, conf[At]), "temporary", "whole") \in Taken(At)
    BY <1>2, TakenParts DEF Stanza
  <2>2. y \in Taken(At)
    BY <2>1 DEF Key, Stanza
  <2>3. y[1] = Key /\ y[2] = "temporary"
    BY TripleParts
  <2> HIDE DEF y
  <2>4. PICK x \in Taken(At) : /\ x[1] = Key /\ x[2] # "temporary"
                               /\ x = y \/ (Momentary(x) /\ Momentary(y))
    BY <1>1, <2>2, <2>3, KeyHere
  <2>5. x[2] = "Authentication"
    BY <2>3, <2>4 DEF Momentary
  <2> QED BY <1>2, <1>4, <2>4, <2>5, TakenKinds DEF Stanza
<1>7. Made.class = Class
  BY <1>6 DEF Made, Before
<1> DEFINE made == Handled(At, Class, Key, Made)
<1>8. /\ \A n : Element(At, Class, n) \in Elements(At, Class) => NameOf(Class, n) \in DOMAIN made
      /\ \A k \in DOMAIN made :
             /\ made[k].class \in {Class, Made.class}
             /\ \E n : /\ Element(At, Class, n) \in Elements(At, Class)
                       /\ StandsFor(k, made[k], At, Class, n)
  BY <1>1, <1>2, HandledList
<1>9. /\ \A k \in DOMAIN common' :
              \/ k \in DOMAIN made /\ common'[k] = made[k]
              \/ k \notin DOMAIN made /\ k \in DOMAIN common \ {Key} /\ common'[k] = common[k]
      /\ \A k \in DOMAIN made \cup (DOMAIN common \ {Key}) :
              \/ k \in DOMAIN common'
              \/ k = Key /\ k \in DOMAIN made /\ made[k].from = {}
  BY ConvertParts
<1> HIDE DEF made
<1>10. \A t : t \in Becomes(At, Class) <=> t \in Elements(At, Class)
  BY <1>1, BecomesParts DEF Stanza
<1>11. ASSUME NEW k \in DOMAIN made, NEW n, StandsFor(k, made[k], At, Class, n)
       PROVE  /\ k = NameOf(Class, n) /\ k \in DOMAIN common' /\ common'[k] = made[k]
              /\ \A t : Shows(k, made[k], t) <=> t = Element(At, Class, n)
  <2>1. k = NameOf(Class, n) /\ made[k].from = {Piece(At, Class, n)} /\ made[k].class = Class
    BY <1>7, <1>8, <1>11 DEF StandsFor
  <2>2. k \in DOMAIN common' /\ common'[k] = made[k]
    BY <1>9, <2>1
  <2>3. Element(At, Class, n) = Triple(k, Class, Piece(At, Class, n))
    BY <2>1, ElementIs
  <2> QED BY <2>1, <2>2, <2>3 DEF Shows
<1>12. ASSUME NEW m, NEW n, NameOf(Class, m) = NameOf(Class, n),
              Element(At, Class, m) \in Elements(At, Class),
              Element(At, Class, n) \in Elements(At, Class)
       PROVE  m = n
  <2> DEFINE x == Triple(NameOf(Class, m), Class, m)
             y == Triple(NameOf(Class, n), Class, n)
  <2>1. /\ x \in Taken(At) /\ x[1] = NameOf(Class, m) /\ x[2] = Class /\ x[3] = m
        /\ y \in Taken(At) /\ y[1] = NameOf(Class, n) /\ y[2] = Class /\ y[3] = n
    BY <1>5, <1>12
  <2> HIDE DEF x, y
  <2>2. x = y \/ (x[2] = y[2] /\ Merging(y[2])) \/ (Momentary(x) /\ Momentary(y))
    BY <1>2, <1>12, <2>1, Alike
  <2> QED BY <1>3, <2>1, <2>2 DEF Momentary
<1>13. ASSUME NEW t \in Triples(common), t[1] \in DOMAIN made
       PROVE  t \in Elements(At, Class)
  <2>1. PICK n : Element(At, Class, n) \in Elements(At, Class) /\ StandsFor(t[1], made[t[1]], At, Class, n)
    BY <1>8, <1>13
  <2> DEFINE y == Triple(NameOf(Class, n), Class, n)
  <2>2. y \in Taken(At) /\ y[1] = NameOf(Class, n) /\ y[2] = Class
    BY <1>5, <2>1
  <2> HIDE DEF y
  <2>3. t[1] = y[1]
    BY <1>11, <1>13, <2>1, <2>2
  <2>4. t \in SoFar
    BY <1>1, <1>3, <2>2, <2>3, TripleHere
  <2>5. PICK c \in ClassesOf(Stanza.kind) : /\ t \in Becomes(At, c)
                                             /\ \E x \in Taken(At) : x[1] = t[1] /\ x[2] = c
    BY <1>2, <2>4, SoFarTaken
  <2>6. PICK x \in Taken(At) : x[1] = t[1] /\ x[2] = c
    BY <2>5
  <2>7. x = y \/ (x[2] = y[2] /\ Merging(y[2])) \/ (Momentary(x) /\ Momentary(y))
    BY <1>2, <2>2, <2>3, <2>6, Alike
  <2>8. c = Class
    BY <1>3, <2>2, <2>6, <2>7 DEF Momentary
  <2> QED BY <1>10, <2>5, <2>8
<1>14. ASSUME NEW t \in Elements(At, Class)
       PROVE  t \in Triples(common')
  <2>1. PICK n : t = Element(At, Class, n)
    BY <1>2, ElementShape
  <2> DEFINE k == NameOf(Class, n)
  <2>2. k \in DOMAIN made
    BY <1>8, <2>1
  <2>3. PICK m : Element(At, Class, m) \in Elements(At, Class) /\ StandsFor(k, made[k], At, Class, m)
    BY <1>8, <2>2
  <2>4. m = n
    BY <1>11, <1>12, <2>1, <2>2, <2>3
  <2>5. k \in DOMAIN common' /\ Shows(k, common'[k], t)
    BY <1>11, <2>1, <2>2, <2>3, <2>4
  <2> HIDE DEF k
  <2> QED BY <2>5, InTriples
<1>15. ASSUME NEW t \in Triples(common), t[1] \notin DOMAIN made
       PROVE  t \in Triples(common')
  <2>1. PICK k \in DOMAIN common : Shows(k, common[k], t)
    BY InTriples
  <2>2. k \notin DOMAIN made
    BY <1>15, <2>1, ShowsParts
  <2>3. k \in DOMAIN common' /\ common'[k] = common[k]
    BY <1>6, <1>9, <2>2
  <2> QED BY <2>1, <2>3, InTriples
<1>16. ASSUME NEW t \in Triples(common')
       PROVE  t \in Triples(common) \/ t \in Elements(At, Class)
  <2>1. PICK k \in DOMAIN common' : Shows(k, common'[k], t)
    BY InTriples
  <2>2. CASE k \in DOMAIN made /\ common'[k] = made[k]
    <3>1. PICK n : Element(At, Class, n) \in Elements(At, Class) /\ StandsFor(k, made[k], At, Class, n)
      BY <1>8, <2>2
    <3>2. t = Element(At, Class, n)
      BY <1>11, <2>1, <2>2, <3>1
    <3> QED BY <3>1, <3>2
  <2>3. CASE k \in DOMAIN common /\ common'[k] = common[k]
    BY <2>1, <2>3, InTriples
  <2> QED BY <1>9, <2>2, <2>3
<1>17. ASSUME NEW k \in DOMAIN common'
       PROVE  \/ k \in DOMAIN common /\ common'[k].class = common[k].class
              \/ \E x \in Taken(At) : x[1] = k /\ x[2] = common'[k].class /\ x[2] # "temporary"
  <2>1. CASE k \in DOMAIN made /\ common'[k] = made[k]
    <3>1. PICK n : Element(At, Class, n) \in Elements(At, Class) /\ StandsFor(k, made[k], At, Class, n)
      BY <1>8, <2>1
    <3>2. k = NameOf(Class, n) /\ common'[k].class = Class
      BY <1>7, <1>8, <1>11, <2>1, <3>1
    <3> QED BY <1>3, <1>5, <3>1, <3>2
  <2> QED BY <1>9, <2>1
<1> QED BY <1>10, <1>13, <1>14, <1>15, <1>16, <1>17
-----------------------------------------------------------------------------
(* What is said of a configuration stays so.                               *)
LEMMA SameParts ==
  ASSUME conf' = conf, NEW i
  PROVE  /\ \A l : HasList(i, l)' <=> HasList(i, l)
         /\ \A class : Gives(i, class)' = Gives(i, class)
         /\ \A class : Elements(i, class)' = Elements(i, class)
BY DEF HasList, Gives, Elements

LEMMA SameBecomes ==
  ASSUME conf' = conf, NEW i, NEW class
  PROVE  Becomes(i, class)' = Becomes(i, class)
<1> DEFINE triple(p) == <<ClassName(class, conf[i]), class, p>>
           all == {triple(p) : p \in Gives(i, class)}
<1>1. \A p : triple(p)' = triple(p)
  OBVIOUS
<1> HIDE DEF triple
<1>2. all' = all
  BY <1>1, SameParts
<1>3. /\ Becomes(i, class) = CASE <<class, conf[i].name>> \in Ignored -> {}
                    [] <<class, conf[i].name>> \notin Ignored /\ class \in ListClasses -> Elements(i, class)
                    [] class = "RouteDomain" /\ "id 0" \in conf[i].gives -> {}
                    [] OTHER -> all
      /\ Becomes(i, class)' = CASE <<class, conf[i].name>> \in Ignored -> {}
                    [] <<class, conf[i].name>> \notin Ignored /\ class \in ListClasses -> Elements(i, class)'
                    [] class = "RouteDomain" /\ "id 0" \in conf[i].gives -> {}
                    [] OTHER -> all'
  BY Zenon DEF Becomes, triple
<1> HIDE DEF all
<1> QED BY <1>2, <1>3, SameParts

LEMMA SameOwn ==
  ASSUME conf' = conf, NEW i
  PROVE  Own(i)' = Own(i)
BY SameBecomes DEF Own

LEMMA SameTaken ==
  ASSUME conf' = conf, NEW i
  PROVE  Taken(i)' = Taken(i)
<1> DEFINE classes == ClassesOf(conf[i].kind)
           whole(c) == <<ClassName(c, conf[i]), IF c \in ListClasses THEN "temporary" ELSE c, "whole">>
           parts(c) == {<<x[1], x[2], x[3][3]>> : x \in Elements(i, c)}
           user == IF conf[i].kind = "auth user" THEN {<<<<conf[i].name>>, "User", "whole">>} ELSE {}
           own == IF conf[i].kind \in AuthKinds THEN {<<<<conf[i].name>>, "temporary", "whole">>} ELSE {}
           wholes == {whole(c) : c \in classes}
           elements == UNION {parts(c) : c \in classes \cap ListClasses}
<1>1. classes' = classes /\ user' = user /\ own' = own
  OBVIOUS
<1>2. \A c : whole(c)' = whole(c)
  OBVIOUS
<1>3. \A c : parts(c)' = parts(c)
  BY SameParts
<1>4. /\ Taken(i) = wholes \cup elements \cup user \cup own
      /\ Taken(i)' = wholes' \cup elements' \cup user' \cup own'
  BY Zenon DEF Taken
<1> HIDE DEF classes, whole, parts, user, own
<1>5. wholes' = wholes /\ elements' = elements
  BY <1>1, <1>2, <1>3
<1> HIDE DEF wholes, elements
<1> QED BY <1>1, <1>4, <1>5

LEMMA SameSections ==
  ASSUME conf' = conf, NEW i
  PROVE  /\ Configured(i)' = Configured(i) /\ Sections(i)' = Sections(i)
<1>1. \A name : Server(name)' = Server(name)
  BY DEF Server
<1>2. \A e : ServerPieces(i, e)' = ServerPieces(i, e)
  BY <1>1 DEF ServerPieces
<1>3. Configured(i)' = Configured(i)
  BY <1>1, SameParts DEF Configured
<1> DEFINE name(e) == IF e = Min(Configured(i)) THEN "primary" ELSE "secondary"
           section(e) == Section(name(e), ServerPieces(i, e))
           servers == UNION {section(e) : e \in Configured(i)}
<1>4. \A e : section(e)' = section(e)
  BY <1>2, <1>3
<1>5. servers' = servers
  <2> HIDE DEF section
  <2> QED BY <1>3, <1>4
<1>6. /\ Sections(i) = LET kind == conf[i].kind
            IN  CASE kind = "auth source" -> Section("own", Gives(i, "Authentication"))
                  [] SectionOf(kind) # "none" -> Section(SectionOf(kind), Gives(i, "Authentication"))
                  [] kind = "auth radius" -> Section("radius", Pieces({i})) \cup servers
                  [] OTHER -> {}
      /\ Sections(i)' = LET kind == conf[i].kind
            IN  CASE kind = "auth source" -> Section("own", Gives(i, "Authentication")')
                  [] SectionOf(kind) # "none" -> Section(SectionOf(kind), Gives(i, "Authentication")')
                  [] kind = "auth radius" -> Section("radius", Pieces({i})) \cup servers'
                  [] OTHER -> {}
  BY Zenon DEF Sections
<1> HIDE DEF servers
<1> QED BY <1>3, <1>5, <1>6, SameParts
LEMMA SameSeparate ==
  ASSUME conf' = conf
  PROVE  Separate' <=> Separate
<1> DEFINE parted(i, j) == \A x \in Taken(i), y \in Taken(j) :
               x[1] = y[1] => \/ i = j /\ x = y
                              \/ x[2] = y[2] /\ Merging(x[2])
                              \/ Momentary(x) /\ Momentary(y)
           few(i) == \A d, e, g \in Configured(i) : d = e \/ e = g \/ d = g
           once == \A i, j \in Kept(conf) :
                       /\ conf[i].kind = conf[j].kind
                       /\ conf[i].kind \in AuthKinds \ {"auth radius-server"}
                       => i = j
           radius == \A i \in Kept(conf) : conf[i].kind = "auth radius" => few(i)
           names == \A i, j \in Kept(conf) : parted(i, j)
<1>1. \A i, j : parted(i, j)' <=> parted(i, j)
  BY SameTaken
<1>2. \A i : few(i)' <=> few(i)
  BY SameSections
<1>3. once' <=> once
  OBVIOUS
<1>4. (Separate <=> once /\ radius /\ names) /\ (Separate' <=> once' /\ radius' /\ names')
  BY DEF Separate
<1> HIDE DEF parted, few, once
<1>5. (radius' <=> radius) /\ (names' <=> names)
  BY <1>1, <1>2
<1> HIDE DEF radius, names
<1> QED BY <1>3, <1>4, <1>5

(* The names stay, but for those that an item adds.                        *)
LEMMA KeysStay ==
  ASSUME KeysInv, todo # {}, conf' = conf, todo' = todo,
         \A k \in DOMAIN common' :
             \/ k \in DOMAIN common /\ common'[k].class = common[k].class
             \/ \E x \in Taken(At) : x[1] = k /\ x[2] = common'[k].class /\ x[2] # "temporary"
  PROVE  KeysInv'
<1>1. At' = At /\ Done' = Done /\ \A i : Taken(i)' = Taken(i)
  BY SameTaken DEF At, Done
<1>2. ASSUME NEW k \in DOMAIN common', NEW i \in Done, TakenBy(i, k), common'[k].class = common[k].class
      PROVE  TakenBy(i, k)'
  BY <1>1, <1>2 DEF TakenBy
<1>3. ASSUME NEW k \in DOMAIN common'
      PROVE  \/ \E i \in Done' : TakenBy(i, k)'
             \/ /\ todo' # {}
                /\ \E x \in Taken(At)' : x[1] = k /\ x[2] = common'[k].class /\ x[2] # "temporary"
  <2>1. CASE \E x \in Taken(At) : x[1] = k /\ x[2] = common'[k].class /\ x[2] # "temporary"
    BY <1>1, <2>1
  <2>2. CASE k \in DOMAIN common /\ common'[k].class = common[k].class
    BY <1>1, <1>2, <2>2 DEF KeysInv
  <2> QED BY <2>1, <2>2
<1> QED BY <1>3 DEF KeysInv

(* One item more.                                                          *)
LEMMA CommonGrows ==
  ASSUME TypeInv, CommonInv, todo # {}, Ahead # {}, conf' = conf, todo' = todo, item' = Matched + 1,
         \A t : t \in Triples(common)' <=> t \in Triples(common) \/ t \in Becomes(At, Class)
  PROVE  CommonInv'
<1>1. /\ At' = At /\ Done' = Done /\ Stanza' = Stanza
      /\ \A i : Own(i)' = Own(i)
      /\ \A i, class : Becomes(i, class)' = Becomes(i, class)
  BY SameOwn, SameBecomes DEF At, Done, Stanza
<1>2. ASSUME NEW t
      PROVE  t \in SoFar' <=> t \in SoFar \/ t \in Becomes(At, Class)
  <2>1. t \in SoFar' <=> \E n \in Positions(Stanza.kind) :
                             n < Matched + 1 /\ t \in Becomes(At, Items[n][2])
    BY <1>1 DEF SoFar
  <2>2. /\ \A n \in Positions(Stanza.kind) : n < Matched + 1 <=> n < item \/ n = Matched
        /\ Matched \in Positions(Stanza.kind)
    BY MatchedIs
  <2> QED BY <2>1, <2>2, InSoFar DEF Class
<1>3. ASSUME NEW t
      PROVE  t \in Triples(common)' <=>
                 t \in (UNION {Own(i) : i \in Done}) \cup SoFar'
  <2>1. t \in Triples(common) <=> (\E i \in Done : t \in Own(i)) \/ t \in SoFar
    BY InCommon
  <2> QED BY <1>2, <2>1
<1>4. Triples(common)' = (UNION {Own(i) : i \in Done}) \cup SoFar'
  BY <1>3
<1>5. (UNION {Own(i) : i \in Done})' = UNION {Own(i) : i \in Done}
  BY <1>1
<1> QED BY <1>4, <1>5 DEF CommonInv

LEMMA AuthStays ==
  ASSUME AuthInv, conf' = conf, todo' = todo, auth' = auth
  PROVE  AuthInv'
<1>1. Done' = Done /\ \A i : Sections(i)' = Sections(i)
  BY SameSections DEF Done
<1>2. (UNION {Sections(i) : i \in Done})' = UNION {Sections(i) : i \in Done}
  BY <1>1
<1> QED BY <1>1, <1>2 DEF AuthInv, AuthTriples

LEMMA ItemStep ==
  ASSUME TypeInv, Separate, KeysInv, CommonInv, AuthInv, SkipItem \/ ConvertItem
  PROVE  KeysInv' /\ CommonInv' /\ AuthInv'
<1>1. /\ todo # {} /\ Ahead # {} /\ conf' = conf /\ todo' = todo /\ auth' = auth
      /\ item' = Matched + 1
  BY DEF SkipItem, ConvertItem, AtItem
<1>2. /\ \A t : t \in Triples(common)' <=> t \in Triples(common) \/ t \in Becomes(At, Class)
      /\ \A k \in DOMAIN common' :
             \/ k \in DOMAIN common /\ common'[k].class = common[k].class
             \/ \E x \in Taken(At) : x[1] = k /\ x[2] = common'[k].class /\ x[2] # "temporary"
  <2>1. Triples(common)' = Triples(common')
    BY DEF Triples
  <2>2. CASE SkipItem
    <3>1. common' = common /\ <<Class, Stanza.name>> \in Ignored
      BY <2>2 DEF SkipItem
    <3>2. Becomes(At, Class) = {}
      BY <3>1, BecomesParts DEF Stanza
    <3> QED BY <2>1, <3>1, <3>2
  <2>3. CASE ConvertItem /\ Class \in ListClasses
    BY <2>1, <2>3, ConvertList
  <2>4. CASE ConvertItem /\ Class = "RouteDomain" /\ "id 0" \in Stanza.gives
    BY <2>1, <2>4, ConvertDefault
  <2>5. CASE /\ ConvertItem /\ Class \notin ListClasses
             /\ ~ (Class = "RouteDomain" /\ "id 0" \in Stanza.gives)
    BY <2>1, <2>5, ConvertOther
  <2> QED BY <2>2, <2>3, <2>4, <2>5
<1> QED BY <1>1, <1>2, KeysStay, CommonGrows, AuthStays
-----------------------------------------------------------------------------
(* The end of a stanza.                                                    *)
LEMMA EndParts ==
  ASSUME TypeInv, Ended, NextStanza
  PROVE  /\ At \in Kept(conf) /\ At \in DOMAIN conf /\ At \in todo /\ todo # {}
         /\ conf' = conf /\ Done' = Done \cup {At} /\ item' = 1
         /\ \A t : t \in SoFar <=> \E c \in ClassesOf(Stanza.kind) : t \in Becomes(At, c)
<1>1. todo # {} /\ Ahead = {}
  BY DEF Ended
<1>2. At \in Kept(conf) /\ At \in DOMAIN conf /\ At \in todo
  BY <1>1, AtIs
<1>3. conf' = conf /\ todo' = todo \ {At} /\ item' = 1
  BY DEF NextStanza
<1>4. Done' = Done \cup {At}
  BY <1>2, <1>3 DEF Done
<1>5. \A n \in Positions(Stanza.kind) : n < item
  <2> TAKE n \in Positions(Stanza.kind)
  <2>1. n \in Nat /\ item \in Nat
    BY PositionParts DEF TypeInv
  <2>2. ~ (item <= n)
    BY <1>1 DEF Ahead
  <2> QED BY <2>1, <2>2
<1>6. ASSUME NEW t
      PROVE  t \in SoFar <=> \E c \in ClassesOf(Stanza.kind) : t \in Becomes(At, c)
  BY <1>5, InSoFar DEF ClassesOf
<1> QED BY <1>1, <1>2, <1>3, <1>4, <1>6

LEMMA StanzaEnds ==
  ASSUME TypeInv, KeysInv, Ended, NextStanza, TemporaryInv',
         \A t : t \in Triples(common)' <=> (\E i \in Done : t \in Own(i)) \/ t \in Own(At),
         \A k \in DOMAIN common' :
             \/ k \in DOMAIN common /\ common'[k].class = common[k].class
             \/ \E x \in Taken(At) : x[1] = k /\ x[2] = common'[k].class /\ x[2] # "temporary"
  PROVE  KeysInv' /\ CommonInv'
<1>1. /\ At \in Kept(conf) /\ conf' = conf /\ Done' = Done \cup {At} /\ item' = 1
      /\ \A i : Taken(i)' = Taken(i) /\ Own(i)' = Own(i)
  BY EndParts, SameTaken, SameOwn
<1>2. ASSUME NEW k \in DOMAIN common', common'[k].class = "Authentication"
      PROVE  Len(k) # 1
  <2>1. k \in {<<"Authentication", "IPv4">>, <<"Authentication", "IPv6">>}
    BY <1>1, <1>2 DEF TemporaryInv, OfAuthentication
  <2>2. CASE k = <<"Authentication", "IPv4">>
    BY <2>2
  <2>3. CASE k = <<"Authentication", "IPv6">>
    BY <2>3
  <2> QED BY <2>1, <2>2, <2>3
<1>3. ASSUME NEW k \in DOMAIN common', NEW i, i = At,
             \E x \in Taken(i) : x[1] = k /\ x[2] = common'[k].class /\ x[2] # "temporary"
      PROVE  TakenBy(i, k)'
  <2>1. PICK x \in Taken(i) : x[1] = k /\ x[2] = common'[k].class /\ x[2] # "temporary"
    BY <1>3
  <2>2. ~ Momentary(x)
    BY <1>2, <2>1 DEF Momentary
  <2> QED BY <1>1, <2>1, <2>2 DEF TakenBy
<1>4. ASSUME NEW k \in DOMAIN common', NEW i \in Done, TakenBy(i, k), common'[k].class = common[k].class
      PROVE  TakenBy(i, k)'
  BY <1>1, <1>4 DEF TakenBy
<1>5. ASSUME NEW k \in DOMAIN common'
      PROVE  \E i \in Done' : TakenBy(i, k)'
  <2>1. CASE \E x \in Taken(At) : x[1] = k /\ x[2] = common'[k].class /\ x[2] # "temporary"
    BY <1>1, <1>3, <2>1
  <2>2. CASE k \in DOMAIN common /\ common'[k].class = common[k].class
    <3>1. CASE \E i \in Done : TakenBy(i, k)
      BY <1>1, <1>4, <2>2, <3>1
    <3>2. CASE \E x \in Taken(At) : x[1] = k /\ x[2] = common[k].class /\ x[2] # "temporary"
      BY <2>1, <2>2, <3>2
    <3> QED BY <2>2, <3>1, <3>2 DEF KeysInv
  <2> QED BY <2>1, <2>2
<1>6. KeysInv'
  BY <1>5 DEF KeysInv
<1>7. (IF todo = {} THEN {} ELSE SoFar)' = {}
  <2>1. \A n \in Positions(Stanza.kind)' : ~ (n < item')
    <3> TAKE n \in Positions(Stanza.kind)'
    <3>1. n \in Nat /\ 1 <= n
      BY PositionParts
    <3> QED BY <1>1, <3>1
  <2>2. SoFar' = {}
    BY <2>1 DEF SoFar
  <2> QED BY <2>2
<1>8. CommonInv'
  <2>1. (UNION {Own(i) : i \in Done})' = UNION {Own(i) : i \in Done \cup {At}}
    BY <1>1
  <2>2. Triples(common)' = UNION {Own(i) : i \in Done \cup {At}}
    OBVIOUS
  <2> QED BY <1>7, <2>1, <2>2 DEF CommonInv
<1> QED BY <1>6, <1>8

LEMMA AuthEnds ==
  ASSUME TypeInv, AuthInv, Ended, NextStanza,
         \A t : t \in AuthTriples(auth)' <=> t \in AuthTriples(auth) \/ t \in Sections(At),
         \A x \in DOMAIN auth' \ {"class"} : x \in DOMAIN auth \/ x \in SectionNames(Stanza.kind)
  PROVE  AuthInv'
<1>1. /\ conf' = conf /\ Done' = Done \cup {At}
      /\ \A i : Sections(i)' = Sections(i)
  BY EndParts, SameSections
<1>2. ASSUME NEW x \in DOMAIN auth' \ {"class"}
      PROVE  \E i \in Done' : x \in SectionNames(conf[i].kind)
  BY <1>1, <1>2 DEF AuthInv, Stanza
<1>3. (UNION {Sections(i) : i \in Done})' = UNION {Sections(i) : i \in Done \cup {At}}
  BY <1>1
<1>4. AuthTriples(auth)' = UNION {Sections(i) : i \in Done \cup {At}}
  BY DEF AuthInv
<1> QED BY <1>1, <1>2, <1>3, <1>4 DEF AuthInv
(* What the items have made of a stanza of authentication, and what is     *)
(* left when it is taken away.                                             *)
LEMMA OfTemporary ==
  ASSUME TypeInv, Ended, NextStanza, Stanza.kind \in AuthKinds
  PROVE  /\ \A t : t \in SoFar <=> t \in Becomes(At, "Authentication")
         /\ \A t : t \in Becomes(At, "Authentication") <=>
                   \E p \in Gives(At, "Authentication") :
                       t = Triple(ClassName("Authentication", Stanza), "Authentication", p)
         /\ \E y \in Taken(At) : y[1] = Temporary /\ y[2] = "temporary"
<1>1. ClassesOf(Stanza.kind) = {"Authentication"}
  BY AuthClass
<1>2. \A t : t \in SoFar <=> t \in Becomes(At, "Authentication")
  BY <1>1, EndParts
<1>3. /\ <<"Authentication", conf[At].name>> \notin Ignored
      /\ "Authentication" \notin ListClasses
  BY DEF Ignored, ListClasses
<1>4. \A t : t \in Becomes(At, "Authentication") <=>
             \E p \in Gives(At, "Authentication") :
                 t = Triple(ClassName("Authentication", conf[At]), "Authentication", p)
  BY <1>3, BecomesParts
<1> DEFINE y == Triple(<<conf[At].name>>, "temporary", "whole")
<1>5. y \in Taken(At)
  BY InTaken DEF Stanza
<1>6. y[1] = Temporary /\ y[2] = "temporary"
  BY DEF Triple, Temporary, Stanza
<1> HIDE DEF y
<1> QED BY <1>2, <1>4, <1>5, <1>6 DEF Stanza

LEMMA TemporaryLeaves ==
  ASSUME TypeInv, Separate, CommonInv, Ended, NextStanza, Stanza.kind \in AuthKinds,
         common' = Without(common, {Temporary})
  PROVE  \A t : t \in Triples(common)' <=> (\E i \in Done : t \in Own(i)) \/ t \in Own(At)
<1>1. /\ At \in Kept(conf) /\ At \in DOMAIN conf /\ At \in todo /\ todo # {}
      /\ conf \in Configurations
  BY EndParts DEF TypeInv
<1>2. ASSUME NEW t
      PROVE  t \in Triples(common)' <=> t \in Triples(common) /\ t[1] # Temporary
  <2>1. Triples(common)' = Triples(common')
    BY DEF Triples
  <2>2. /\ \A k \in DOMAIN common' : k \in DOMAIN common /\ k # Temporary /\ common'[k] = common[k]
        /\ \A k \in DOMAIN common : k # Temporary => k \in DOMAIN common'
    BY DEF Without
  <2>3. ASSUME t \in Triples(common')
        PROVE  t \in Triples(common) /\ t[1] # Temporary
    <3>1. PICK k \in DOMAIN common' : Shows(k, common'[k], t)
      BY <2>3, InTriples
    <3>2. k \in DOMAIN common /\ k # Temporary /\ Shows(k, common[k], t)
      BY <2>2, <3>1
    <3>3. t[1] # Temporary
      BY <3>2, ShowsParts
    <3> QED BY <3>2, <3>3, InTriples
  <2>4. ASSUME t \in Triples(common), t[1] # Temporary
        PROVE  t \in Triples(common')
    <3>1. PICK k \in DOMAIN common : Shows(k, common[k], t)
      BY <2>4, InTriples
    <3>2. k # Temporary
      BY <2>4, <3>1, ShowsParts
    <3> QED BY <2>2, <3>1, <3>2, InTriples
  <2> QED BY <2>1, <2>3, <2>4
<1>3. PICK y \in Taken(At) : y[1] = Temporary /\ y[2] = "temporary"
  BY OfTemporary
<1>4. ASSUME NEW i \in Done, NEW t \in Own(i)
      PROVE  t[1] # Temporary
  <2>1. i \in Kept(conf) /\ i # At /\ i \in DOMAIN conf
    BY <1>1, ConfShape DEF Done
  <2>2. PICK x \in Taken(i) : x[1] = t[1] /\ x[2] = t[2] /\ ~ Momentary(x)
    BY <1>1, <2>1, OwnTaken
  <2>3. ASSUME x[1] = y[1]
        PROVE  FALSE
    BY <1>1, <1>3, <2>1, <2>2, <2>3, Foreign
  <2> QED BY <1>3, <2>2, <2>3
<1>5. ASSUME NEW t
      PROVE  t \in SoFar /\ t[1] # Temporary <=> t \in Own(At)
  <2>1. t \in SoFar <=> t \in Becomes(At, "Authentication")
    BY OfTemporary
  <2>2. t \in SoFar => t[1] = ClassName("Authentication", conf[At])
    BY <2>1, OfTemporary, TripleParts DEF Stanza
  <2>3. ClassName("Authentication", conf[At]) \in
            IF HasAddress(conf[At].name)
            THEN {<<"Authentication", "IPv4">>, <<"Authentication", "IPv6">>}
            ELSE {<<conf[At].name>>}
    BY AuthName DEF Stanza
  <2>4. CASE HasAddress(conf[At].name)
    <3>1. \A c : c \in ClassesOf(conf[At].kind) <=> c = "Authentication"
      BY AuthClass DEF Stanza
    <3>2. t \in Own(At) <=> t \in Becomes(At, "Authentication")
      BY <2>4, <3>1 DEF Own, Stanza, AuthKinds
    <3>3. ClassName("Authentication", conf[At]) # Temporary
      <4> DEFINE name == ClassName("Authentication", conf[At])
      <4>1. name = <<"Authentication", "IPv4">> \/ name = <<"Authentication", "IPv6">>
        BY <2>3, <2>4
      <4>2. Len(name) = 2
        BY <4>1
      <4>3. Len(Temporary) = 1
        BY DEF Temporary
      <4> QED BY <4>2, <4>3
    <3> QED BY <2>1, <2>2, <3>2, <3>3
  <2>5. CASE ~ HasAddress(conf[At].name)
    <3>1. Own(At) = {}
      BY <2>5 DEF Own, Stanza, AuthKinds
    <3>2. ClassName("Authentication", conf[At]) = Temporary
      BY <2>3, <2>5 DEF Temporary, Stanza
    <3> QED BY <2>2, <3>1, <3>2
  <2> QED BY <2>4, <2>5
<1>6. \A t : t \in Triples(common) <=> (\E i \in Done : t \in Own(i)) \/ t \in SoFar
  BY <1>1, InCommon
<1> QED BY <1>2, <1>4, <1>5, <1>6

LEMMA TemporaryHere ==
  ASSUME TypeInv, Separate, KeysInv, CommonInv, Ended, NextStanza, Stanza.kind \in AuthKinds,
         Temporary \in DOMAIN common
  PROVE  \A p : p \in common[Temporary].from <=> p \in Gives(At, "Authentication")
<1>1. At \in DOMAIN conf /\ todo # {} /\ conf \in Configurations
  BY EndParts DEF TypeInv
<1>2. PICK y \in Taken(At) : y[1] = Temporary /\ y[2] = "temporary"
  BY OfTemporary
<1>3. PICK x \in Taken(At) : x[1] = Temporary /\ x[2] = common[Temporary].class /\ x[2] # "temporary"
  BY <1>1, <1>2, KeyHere
<1>4. x[2] = "Authentication" /\ x[1] = ClassName("Authentication", conf[At])
  BY <1>1, <1>3, TakenKinds DEF Stanza
<1>5. \A t : t \in SoFar <=>
             \E p \in Gives(At, "Authentication") : t = Triple(Temporary, "Authentication", p)
  BY <1>3, <1>4, OfTemporary DEF Stanza
<1>6. ASSUME NEW p
      PROVE  p \in common[Temporary].from <=> p \in Gives(At, "Authentication")
  <2> DEFINE t == Triple(Temporary, "Authentication", p)
  <2>1. t[1] = Temporary /\ t[3] = p
    BY TripleParts
  <2>2. p \in common[Temporary].from <=> Shows(Temporary, common[Temporary], t)
    BY <1>3, <1>4, TripleParts DEF Shows
  <2>3. p \in Gives(At, "Authentication") <=> t \in SoFar
    BY <1>5, TripleParts
  <2> HIDE DEF t
  <2>4. Shows(Temporary, common[Temporary], t) <=> t \in Triples(common)
    BY <2>1, InTriples, ShowsParts
  <2>5. t \in Triples(common) => t \in SoFar
    BY <1>1, <1>2, <2>1, TripleHere
  <2>6. t \in SoFar => t \in Triples(common)
    BY <1>1, InCommon
  <2> QED BY <2>2, <2>3, <2>4, <2>5, <2>6
<1> QED BY <1>6
(* Sections that are added to those there were.                            *)
Like(f) ==
    /\ DOMAIN f \ {"class"} = DOMAIN auth \ {"class"}
    /\ \A x \in DOMAIN auth \ {"class"} : f[x] = auth[x]

LEMMA InAuthTriples ==
  ASSUME NEW f, NEW t
  PROVE  t \in AuthTriples(f) <=> \E x \in DOMAIN f \ {"class"} : t \in Section(x, f[x])
BY DEF AuthTriples

LEMMA LikeTriples ==
  ASSUME NEW f, Like(f)
  PROVE  /\ \A t : t \in AuthTriples(f) <=> t \in AuthTriples(auth)
         /\ \A x \in DOMAIN f \ {"class"} : x \in DOMAIN auth
BY InAuthTriples DEF Like

LEMMA AuthLike == Like(Authentication)
<1>1. CASE auth = Nothing
  BY <1>1, NothingParts, OnlyParts DEF Like, Authentication
<1>2. CASE auth # Nothing
  BY <1>2 DEF Like, Authentication
<1> QED BY <1>1, <1>2

LEMMA ClassLike ==
  ASSUME NEW class
  PROVE  Like(Over(Only("class", class), Authentication))
<1> DEFINE one == Only("class", class)
<1>1. DOMAIN one = {"class"}
  BY DEF Only
<1> HIDE DEF one
<1> QED BY <1>1, AuthLike DEF Like, Over, one

LEMMA AddSection ==
  ASSUME NEW f, Like(f), NEW name, name # "class", name \notin DOMAIN auth, NEW pieces
  PROVE  LET g == Over(Only(name, pieces), f)
         IN  /\ \A t : t \in AuthTriples(g) <=> t \in AuthTriples(auth) \/ t \in Section(name, pieces)
             /\ \A x \in DOMAIN g \ {"class"} : x \in DOMAIN auth \/ x = name
<1> DEFINE one == Only(name, pieces)
           g == Over(one, f)
<1>1. DOMAIN one = {name} /\ one[name] = pieces
  BY DEF Only
<1> HIDE DEF one
<1>2. /\ DOMAIN g = {name} \cup DOMAIN f
      /\ \A x \in DOMAIN g : g[x] = IF x = name THEN pieces ELSE f[x]
  BY <1>1 DEF Over
<1> HIDE DEF g
<1>3. ASSUME NEW t
      PROVE  t \in AuthTriples(g) <=> t \in AuthTriples(auth) \/ t \in Section(name, pieces)
  <2>1. ASSUME t \in AuthTriples(g)
        PROVE  t \in AuthTriples(auth) \/ t \in Section(name, pieces)
    <3>1. PICK x \in DOMAIN g \ {"class"} : t \in Section(x, g[x])
      BY <2>1, InAuthTriples
    <3>2. CASE x = name
      BY <1>2, <3>1, <3>2
    <3>3. CASE x # name
      <4>1. x \in DOMAIN auth \ {"class"} /\ g[x] = auth[x]
        BY <1>2, <3>1, <3>3 DEF Like
      <4> QED BY <3>1, <4>1, InAuthTriples
    <3> QED BY <3>2, <3>3
  <2>2. ASSUME t \in AuthTriples(auth)
        PROVE  t \in AuthTriples(g)
    <3>1. PICK x \in DOMAIN auth \ {"class"} : t \in Section(x, auth[x])
      BY <2>2, InAuthTriples
    <3>2. x \in DOMAIN g \ {"class"} /\ g[x] = auth[x]
      BY <1>2, <3>1 DEF Like
    <3> QED BY <3>1, <3>2, InAuthTriples
  <2>3. ASSUME t \in Section(name, pieces)
        PROVE  t \in AuthTriples(g)
    <3>1. name \in DOMAIN g \ {"class"} /\ g[name] = pieces
      BY <1>2
    <3> QED BY <2>3, <3>1, InAuthTriples
  <2> QED BY <2>1, <2>2, <2>3
<1>4. \A x \in DOMAIN g \ {"class"} : x \in DOMAIN auth \/ x = name
  BY <1>2 DEF Like
<1> QED BY <1>3, <1>4 DEF g, one

LEMMA SectionsOf ==
  ASSUME NEW i
  PROVE  /\ conf[i].kind = "auth source" =>
                Sections(i) = Section("own", Gives(i, "Authentication"))
         /\ SectionOf(conf[i].kind) # "none" =>
                Sections(i) = Section(SectionOf(conf[i].kind), Gives(i, "Authentication"))
         /\ conf[i].kind \notin AuthKinds \/ conf[i].kind = "auth radius-server" => Sections(i) = {}
BY DEF Sections, SectionOf, AuthKinds

LEMMA NewSection ==
  ASSUME TypeInv, Separate, AuthInv, Ended, NextStanza,
         Stanza.kind \in AuthKinds \ {"auth radius-server"}, NEW name \in SectionNames(Stanza.kind)
  PROVE  name \notin DOMAIN auth /\ name # "class"
<1>1. At \in Kept(conf) /\ At \in todo
  BY EndParts
<1>2. name # "class"
  BY DEF SectionNames, SectionOf, RadiusParts
<1>3. ASSUME name \in DOMAIN auth
      PROVE  FALSE
  <2>1. PICK i \in Done : name \in SectionNames(conf[i].kind)
    BY <1>2, <1>3 DEF AuthInv
  <2>2. conf[i].kind = Stanza.kind
    BY <2>1 DEF SectionNames, SectionOf, RadiusParts, AuthKinds
  <2>3. i \in Kept(conf) /\ i # At
    BY <1>1 DEF Done
  <2> QED BY <1>1, <2>2, <2>3 DEF Separate, Stanza
<1> QED BY <1>2, <1>3
LEMMA AuthIdle ==
  ASSUME TypeInv, AuthInv, Ended, NextStanza, auth' = Authentication,
         Stanza.kind \notin AuthKinds \/ Stanza.kind = "auth radius-server"
  PROVE  AuthInv'
<1>1. Sections(At) = {}
  BY SectionsOf DEF Stanza
<1>2. AuthTriples(auth)' = AuthTriples(auth')
  BY DEF AuthTriples
<1>3. /\ \A t : t \in AuthTriples(auth') <=> t \in AuthTriples(auth)
      /\ \A x \in DOMAIN auth' \ {"class"} : x \in DOMAIN auth
  BY AuthLike, LikeTriples
<1> QED BY <1>1, <1>2, <1>3, AuthEnds

LEMMA PlainEnds ==
  ASSUME TypeInv, KeysInv, CommonInv, AuthInv, EndPlain, TemporaryInv'
  PROVE  KeysInv' /\ CommonInv' /\ AuthInv'
<1>1. /\ Ended /\ NextStanza /\ common' = common /\ auth' = Authentication
      /\ Stanza.kind \notin AuthKinds /\ Stanza.kind # "auth user"
  BY DEF EndPlain
<1>2. ASSUME NEW t
      PROVE  t \in SoFar <=> t \in Own(At)
  <2>1. Own(At) = UNION {Becomes(At, c) : c \in ClassesOf(Stanza.kind)}
    BY <1>1 DEF Own, Stanza
  <2> QED BY <1>1, <2>1, EndParts
<1>3. \A t : t \in Triples(common) <=> (\E i \in Done : t \in Own(i)) \/ t \in Own(At)
  BY <1>1, <1>2, InCommon, EndParts
<1>4. Triples(common)' = Triples(common)
  <2>1. Triples(common)' = Triples(common')
    BY DEF Triples
  <2> QED BY <1>1, <2>1
<1>5. KeysInv' /\ CommonInv'
  BY <1>1, <1>3, <1>4, StanzaEnds
<1> QED BY <1>1, <1>5, AuthIdle

LEMMA UserEnds ==
  ASSUME TypeInv, Separate, KeysInv, CommonInv, AuthInv, EndUser, TemporaryInv'
  PROVE  KeysInv' /\ CommonInv' /\ AuthInv'
<1> DEFINE name == <<Stanza.name>>
           user == [class |-> "User", from |-> {<<At, "User", "all">>}]
           one == Only(name, user)
           own == Triple(name, "User", <<At, "User", "all">>)
           y == Triple(name, "User", "whole")
<1>1. /\ Ended /\ NextStanza /\ auth' = Authentication /\ Stanza.kind = "auth user"
      /\ common' = Over(one, common) /\ Stanza.kind \notin AuthKinds
  BY DEF EndUser, AuthKinds
<1>2. At \in DOMAIN conf /\ todo # {} /\ conf \in Configurations
  BY <1>1, EndParts DEF TypeInv
<1>3. \A t : t \notin SoFar
  BY <1>1, UserClass, EndParts
<1>4. y \in Taken(At) /\ y[1] = name /\ y[2] = "User"
  <2>1. y \in Taken(At)
    BY <1>1, InTaken DEF Stanza
  <2> QED BY <2>1 DEF Triple
<1>5. DOMAIN one = {name} /\ one[name] = user
  BY DEF Only
<1>6. \A t : t \in Own(At) <=> t = own
  BY <1>1 DEF Own, Stanza, Triple
<1>7. \A t : Shows(name, user, t) <=> t = own
  BY DEF Shows
<1>8. user.class = "User"
  OBVIOUS
<1> HIDE DEF one, user, own, y
<1>9. /\ DOMAIN common' = {name} \cup DOMAIN common
      /\ \A k \in DOMAIN common' : common'[k] = IF k = name THEN user ELSE common[k]
  BY <1>1, <1>5 DEF Over
<1>10. ~ Merging("User")
  BY DEF Merging
<1> HIDE DEF name
<1>11. \A t \in Triples(common) : t[1] # name
  BY <1>2, <1>3, <1>4, <1>10, TripleHere
<1>12. ASSUME NEW t
       PROVE  t \in Triples(common') <=> t \in Triples(common) \/ t \in Own(At)
  <2>1. ASSUME t \in Triples(common')
        PROVE  t \in Triples(common) \/ t \in Own(At)
    <3>1. PICK k \in DOMAIN common' : Shows(k, common'[k], t)
      BY <2>1, InTriples
    <3>2. CASE k = name
      BY <1>6, <1>7, <1>9, <3>1, <3>2
    <3>3. CASE k # name
      <4>1. k \in DOMAIN common /\ Shows(k, common[k], t)
        BY <1>9, <3>1, <3>3
      <4> QED BY <4>1, InTriples
    <3> QED BY <3>2, <3>3
  <2>2. ASSUME t \in Triples(common)
        PROVE  t \in Triples(common')
    <3>1. PICK k \in DOMAIN common : Shows(k, common[k], t)
      BY <2>2, InTriples
    <3>2. k # name
      BY <1>11, <2>2, <3>1, ShowsParts
    <3>3. k \in DOMAIN common' /\ Shows(k, common'[k], t)
      BY <1>9, <3>1, <3>2
    <3> QED BY <3>3, InTriples
  <2>3. ASSUME t \in Own(At)
        PROVE  t \in Triples(common')
    <3>1. name \in DOMAIN common' /\ Shows(name, common'[name], t)
      BY <1>6, <1>7, <1>9, <2>3
    <3> QED BY <3>1, InTriples
  <2> QED BY <2>1, <2>2, <2>3
<1>13. Triples(common)' = Triples(common')
  BY DEF Triples
<1>14. \A t : t \in Triples(common)' <=> (\E i \in Done : t \in Own(i)) \/ t \in Own(At)
  BY <1>2, <1>3, <1>12, <1>13, InCommon
<1>15. ASSUME NEW k \in DOMAIN common'
       PROVE  \/ k \in DOMAIN common /\ common'[k].class = common[k].class
              \/ \E x \in Taken(At) : x[1] = k /\ x[2] = common'[k].class /\ x[2] # "temporary"
  BY <1>4, <1>8, <1>9
<1>16. KeysInv' /\ CommonInv'
  BY <1>1, <1>14, <1>15, StanzaEnds
<1> QED BY <1>1, <1>16, AuthIdle

LEMMA TemporaryEnds ==
  ASSUME TypeInv, Separate, KeysInv, CommonInv, Ended, NextStanza, Stanza.kind \in AuthKinds,
         common' = Without(common, {Temporary}), TemporaryInv'
  PROVE  KeysInv' /\ CommonInv'
<1>1. \A t : t \in Triples(common)' <=> (\E i \in Done : t \in Own(i)) \/ t \in Own(At)
  BY TemporaryLeaves
<1>2. \A k \in DOMAIN common' : k \in DOMAIN common /\ common'[k] = common[k]
  BY DEF Without
<1> QED BY <1>1, <1>2, StanzaEnds
LEMMA SourceEnds ==
  ASSUME TypeInv, Separate, KeysInv, CommonInv, AuthInv, EndSource
  PROVE  AuthInv'
<1> DEFINE source == common[Temporary]
           class == Over(Only("class", source.class), Authentication)
           mine == Gives(At, "Authentication")
<1>1. /\ Ended /\ NextStanza /\ Stanza.kind = "auth source" /\ Temporary \in DOMAIN common
      /\ auth' = IF source.from = {} THEN class ELSE Over(Only("own", source.from), class)
      /\ Stanza.kind \in AuthKinds \ {"auth radius-server"}
  BY DEF EndSource, AuthKinds
<1>2. source.from = mine
  BY <1>1, TemporaryHere
<1>3. Sections(At) = Section("own", mine)
  BY <1>1, SectionsOf DEF Stanza
<1>4. Like(class)
  BY ClassLike
<1>5. "own" \in SectionNames(Stanza.kind)
  BY <1>1 DEF SectionNames, SectionOf
<1>6. "own" \notin DOMAIN auth
  BY <1>1, <1>5, NewSection
<1>7. AuthTriples(auth)' = AuthTriples(auth')
  BY DEF AuthTriples
<1> HIDE DEF source, class, mine
<1>8. CASE mine = {}
  <2>1. Section("own", mine) = {}
    BY <1>8 DEF Section
  <2>2. /\ \A t : t \in AuthTriples(auth') <=> t \in AuthTriples(auth)
        /\ \A x \in DOMAIN auth' \ {"class"} : x \in DOMAIN auth
    BY <1>1, <1>2, <1>4, <1>8, LikeTriples
  <2> QED BY <1>1, <1>3, <1>7, <2>1, <2>2, AuthEnds
<1>9. CASE mine # {}
  <2>1. auth' = Over(Only("own", mine), class)
    BY <1>1, <1>2, <1>9
  <2>2. /\ \A t : t \in AuthTriples(auth') <=> t \in AuthTriples(auth) \/ t \in Section("own", mine)
        /\ \A x \in DOMAIN auth' \ {"class"} : x \in DOMAIN auth \/ x = "own"
    BY <1>4, <1>6, <2>1, AddSection
  <2> QED BY <1>1, <1>3, <1>5, <1>7, <2>2, AuthEnds
<1> QED BY <1>8, <1>9

LEMMA SectionEnds ==
  ASSUME TypeInv, Separate, KeysInv, CommonInv, AuthInv, EndSection
  PROVE  AuthInv'
<1> DEFINE name == SectionOf(Stanza.kind)
           mine == Gives(At, "Authentication")
<1>1. /\ Ended /\ NextStanza /\ name # "none" /\ Temporary \in DOMAIN common
      /\ auth' = Over(Only(name, common[Temporary].from), Authentication)
  BY DEF EndSection
<1>2. Stanza.kind \in AuthKinds \ {"auth radius-server"} /\ name \in SectionNames(Stanza.kind)
  BY <1>1 DEF SectionOf, SectionNames, AuthKinds
<1>3. common[Temporary].from = mine
  BY <1>1, <1>2, TemporaryHere
<1>4. Sections(At) = Section(name, mine)
  BY <1>1, SectionsOf DEF Stanza
<1>5. name \notin DOMAIN auth /\ name # "class"
  BY <1>1, <1>2, NewSection
<1>6. AuthTriples(auth)' = AuthTriples(auth')
  BY DEF AuthTriples
<1> HIDE DEF name, mine
<1>7. /\ \A t : t \in AuthTriples(auth') <=> t \in AuthTriples(auth) \/ t \in Section(name, mine)
      /\ \A x \in DOMAIN auth' \ {"class"} : x \in DOMAIN auth \/ x = name
  BY <1>1, <1>3, <1>5, AuthLike, AddSection
<1> QED BY <1>1, <1>2, <1>4, <1>6, <1>7, AuthEnds

(* Of two RADIUS servers the first is primary and the last secondary.      *)
LEMMA RadiusParted ==
  ASSUME conf \in Configurations, NEW i \in DOMAIN conf,
         \A d, e, g \in Configured(i) : d = e \/ e = g \/ d = g
  PROVE  /\ Configured(i) # {} => Min(Configured(i)) \in Configured(i)
         /\ Several(Configured(i)) => /\ Max(Configured(i)) \in Configured(i)
                                      /\ Max(Configured(i)) # Min(Configured(i))
         /\ \A e \in Configured(i) :
                e # Min(Configured(i)) => Several(Configured(i)) /\ e = Max(Configured(i))
<1> DEFINE servers == Configured(i)
           list == conf[i].lists["servers"]
<1>1. CASE servers = {}
  BY <1>1 DEF Several
<1>2. CASE servers # {}
  <2>1. HasList(i, "servers") /\ servers \subseteq DOMAIN list
    BY <1>2 DEF Configured
  <2>2. Len(list) \in Nat /\ DOMAIN list = 1 .. Len(list)
    BY <2>1, ListParts
  <2> HIDE DEF servers, list
  <2>3. servers \in SUBSET (1 .. Len(list)) /\ servers \in SUBSET Nat
    BY <2>1, <2>2
  <2>4. Min(servers) \in servers /\ \A m \in servers : Min(servers) <= m
    BY <1>2, <2>3, MinIs
  <2>5. Max(servers) \in servers /\ \A m \in servers : m <= Max(servers)
    BY <1>2, <2>2, <2>3, MaxIs
  <2>6. Several(servers) => Max(servers) # Min(servers)
    <3> SUFFICES ASSUME NEW d \in servers, NEW e \in servers, d # e, Max(servers) = Min(servers)
                 PROVE  FALSE
      BY DEF Several
    <3>1. Min(servers) <= d /\ d <= Max(servers) /\ Min(servers) <= e /\ e <= Max(servers)
      BY <2>4, <2>5
    <3>2. d \in Nat /\ e \in Nat /\ Min(servers) \in Nat /\ Max(servers) \in Nat
      BY <2>3, <2>4, <2>5
    <3> QED BY <3>1, <3>2
  <2>7. ASSUME NEW e \in servers, e # Min(servers)
        PROVE  Several(servers) /\ e = Max(servers)
    <3>1. Several(servers)
      BY <2>4, <2>7 DEF Several
    <3>2. e = Max(servers)
      BY <2>4, <2>5, <2>6, <2>7, <3>1 DEF servers
    <3> QED BY <3>1, <3>2
  <2> QED BY <2>4, <2>5, <2>6, <2>7 DEF servers
<1> QED BY <1>1, <1>2
(* The sections of RADIUS, by their names.                                 *)
InRadius(i, t) ==
    \/ t \in Section("radius", Pieces({i}))
    \/ Configured(i) # {} /\ t \in Section("primary", ServerPieces(i, Min(Configured(i))))
    \/ Several(Configured(i)) /\ t \in Section("secondary", ServerPieces(i, Max(Configured(i))))

LEMMA RadiusSections ==
  ASSUME conf \in Configurations, NEW i \in DOMAIN conf, conf[i].kind = "auth radius",
         \A d, e, g \in Configured(i) : d = e \/ e = g \/ d = g
  PROVE  \A t : t \in Sections(i) <=> InRadius(i, t)
<1> DEFINE servers == Configured(i)
           section(e) == Section(IF e = Min(servers) THEN "primary" ELSE "secondary", ServerPieces(i, e))
<1>1. Sections(i) = Section("radius", Pieces({i})) \cup (UNION {section(e) : e \in servers})
  BY DEF Sections, SectionOf
<1>2. /\ servers # {} => Min(servers) \in servers
      /\ Several(servers) => Max(servers) \in servers /\ Max(servers) # Min(servers)
      /\ \A e \in servers : e # Min(servers) => Several(servers) /\ e = Max(servers)
  BY RadiusParted
<1>3. /\ section(Min(servers)) = Section("primary", ServerPieces(i, Min(servers)))
      /\ \A e : e # Min(servers) => section(e) = Section("secondary", ServerPieces(i, e))
  OBVIOUS
<1> HIDE DEF section, servers
<1>4. ASSUME NEW t
      PROVE  (\E e \in servers : t \in section(e)) <=>
                 \/ servers # {} /\ t \in Section("primary", ServerPieces(i, Min(servers)))
                 \/ Several(servers) /\ t \in Section("secondary", ServerPieces(i, Max(servers)))
  <2>1. ASSUME NEW e \in servers, t \in section(e)
        PROVE  \/ servers # {} /\ t \in Section("primary", ServerPieces(i, Min(servers)))
               \/ Several(servers) /\ t \in Section("secondary", ServerPieces(i, Max(servers)))
    <3>1. CASE e = Min(servers)
      BY <1>3, <2>1, <3>1
    <3>2. CASE e # Min(servers)
      BY <1>2, <1>3, <2>1, <3>2
    <3> QED BY <3>1, <3>2
  <2>2. ASSUME servers # {}, t \in Section("primary", ServerPieces(i, Min(servers)))
        PROVE  \E e \in servers : t \in section(e)
    BY <1>2, <1>3, <2>2
  <2>3. ASSUME Several(servers), t \in Section("secondary", ServerPieces(i, Max(servers)))
        PROVE  \E e \in servers : t \in section(e)
    BY <1>2, <1>3, <2>3
  <2> QED BY <2>1, <2>2, <2>3
<1>5. \A t : t \in Sections(i) <=> \/ t \in Section("radius", Pieces({i}))
                                   \/ \E e \in servers : t \in section(e)
  BY <1>1
<1> QED BY <1>4, <1>5 DEF InRadius, servers

LEMMA RadiusTriples ==
  ASSUME NEW i, NEW f, Like(f), RadiusParts \cap DOMAIN auth = {}
  PROVE  LET g == Over(Radius(i), f)
         IN  /\ \A t : t \in AuthTriples(g) <=> t \in AuthTriples(auth) \/ InRadius(i, t)
             /\ \A x \in DOMAIN g \ {"class"} : x \in DOMAIN auth \/ x \in RadiusParts
<1> DEFINE servers == Configured(i)
           radius == Radius(i)
           g == Over(radius, f)
<1>1. /\ DOMAIN radius \subseteq RadiusParts /\ "radius" \in DOMAIN radius
      /\ "primary" \in DOMAIN radius <=> servers # {}
      /\ "secondary" \in DOMAIN radius <=> Several(servers)
      /\ radius["radius"] = Pieces({i})
      /\ "primary" \in DOMAIN radius => radius["primary"] = ServerPieces(i, Min(servers))
      /\ "secondary" \in DOMAIN radius => radius["secondary"] = ServerPieces(i, Max(servers))
  <2> DEFINE names == {"radius"} \cup (IF servers # {} THEN {"primary"} ELSE {})
                                 \cup (IF Several(servers) THEN {"secondary"} ELSE {})
             pieces(part) == CASE part = "radius" -> Pieces({i})
                               [] part = "primary" -> ServerPieces(i, Min(servers))
                               [] part = "secondary" -> ServerPieces(i, Max(servers))
  <2>1. radius = [part \in names |-> pieces(part)]
    BY Zenon DEF Radius
  <2>2. /\ names \subseteq RadiusParts /\ "radius" \in names
        /\ "primary" \in names <=> servers # {}
        /\ "secondary" \in names <=> Several(servers)
    BY DEF RadiusParts
  <2>3. /\ pieces("radius") = Pieces({i}) /\ pieces("primary") = ServerPieces(i, Min(servers))
        /\ pieces("secondary") = ServerPieces(i, Max(servers))
    OBVIOUS
  <2> HIDE DEF names, pieces, radius, servers
  <2>4. DOMAIN radius = names /\ \A part \in names : radius[part] = pieces(part)
    BY <2>1
  <2> QED BY <2>2, <2>3, <2>4
<1>2. "class" \notin RadiusParts /\ \A x : x \in RadiusParts <=> x \in {"radius", "primary", "secondary"}
  BY DEF RadiusParts
<1> HIDE DEF radius, servers
<1>3. ASSUME NEW t
      PROVE  (\E x \in DOMAIN radius : t \in Section(x, radius[x])) <=> InRadius(i, t)
  BY <1>1, <1>2 DEF InRadius, servers
<1>4. /\ DOMAIN g = DOMAIN radius \cup DOMAIN f
      /\ \A x \in DOMAIN g : g[x] = IF x \in DOMAIN radius THEN radius[x] ELSE f[x]
  BY DEF Over
<1> HIDE DEF g
<1>5. ASSUME NEW t
      PROVE  t \in AuthTriples(g) <=> t \in AuthTriples(auth) \/ InRadius(i, t)
  <2>1. ASSUME t \in AuthTriples(g)
        PROVE  t \in AuthTriples(auth) \/ InRadius(i, t)
    <3>1. PICK x \in DOMAIN g \ {"class"} : t \in Section(x, g[x])
      BY <2>1, InAuthTriples
    <3>2. CASE x \in DOMAIN radius
      BY <1>3, <1>4, <3>1, <3>2
    <3>3. CASE x \notin DOMAIN radius
      <4>1. x \in DOMAIN auth \ {"class"} /\ g[x] = auth[x]
        BY <1>4, <3>1, <3>3 DEF Like
      <4> QED BY <3>1, <4>1, InAuthTriples
    <3> QED BY <3>2, <3>3
  <2>2. ASSUME t \in AuthTriples(auth)
        PROVE  t \in AuthTriples(g)
    <3>1. PICK x \in DOMAIN auth \ {"class"} : t \in Section(x, auth[x])
      BY <2>2, InAuthTriples
    <3>2. x \in DOMAIN g \ {"class"} /\ g[x] = auth[x]
      BY <1>1, <1>4, <3>1 DEF Like
    <3> QED BY <3>1, <3>2, InAuthTriples
  <2>3. ASSUME InRadius(i, t)
        PROVE  t \in AuthTriples(g)
    <3>1. PICK x \in DOMAIN radius : t \in Section(x, radius[x])
      BY <1>3, <2>3
    <3>2. x \in DOMAIN g \ {"class"} /\ g[x] = radius[x]
      BY <1>1, <1>2, <1>4, <3>1
    <3> QED BY <3>1, <3>2, InAuthTriples
  <2> QED BY <2>1, <2>2, <2>3
<1>6. \A x \in DOMAIN g \ {"class"} : x \in DOMAIN auth \/ x \in RadiusParts
  BY <1>1, <1>4 DEF Like
<1> QED BY <1>5, <1>6 DEF g, radius

LEMMA RadiusEnds ==
  ASSUME TypeInv, Separate, AuthInv, EndRadius
  PROVE  AuthInv'
<1> DEFINE rest == Without(Authentication, RadiusParts)
<1>1. /\ Ended /\ NextStanza /\ Stanza.kind = "auth radius"
      /\ auth' = Over(Radius(At), rest)
      /\ Stanza.kind \in AuthKinds \ {"auth radius-server"}
  BY DEF EndRadius, AuthKinds
<1>2. At \in DOMAIN conf /\ At \in Kept(conf) /\ conf \in Configurations
  BY <1>1, EndParts DEF TypeInv
<1>3. SectionNames(Stanza.kind) = RadiusParts
  BY <1>1 DEF SectionNames, SectionOf
<1>4. RadiusParts \cap DOMAIN auth = {}
  BY <1>1, <1>3, NewSection
<1>5. Like(rest)
  <2>1. /\ DOMAIN rest = DOMAIN Authentication \ RadiusParts
        /\ \A x \in DOMAIN rest : rest[x] = Authentication[x]
    BY DEF Without
  <2> HIDE DEF rest
  <2> QED BY <1>4, <2>1, AuthLike DEF Like
<1> HIDE DEF rest
<1>6. /\ \A t : t \in AuthTriples(auth') <=> t \in AuthTriples(auth) \/ InRadius(At, t)
      /\ \A x \in DOMAIN auth' \ {"class"} : x \in DOMAIN auth \/ x \in RadiusParts
  BY <1>1, <1>4, <1>5, RadiusTriples
<1>7. \A d, e, g \in Configured(At) : d = e \/ e = g \/ d = g
  BY <1>1, <1>2 DEF Separate, Stanza
<1>8. \A t : t \in Sections(At) <=> InRadius(At, t)
  BY <1>1, <1>2, <1>7, RadiusSections DEF Stanza
<1>9. AuthTriples(auth)' = AuthTriples(auth')
  BY DEF AuthTriples
<1> QED BY <1>1, <1>3, <1>6, <1>8, <1>9, AuthEnds
-----------------------------------------------------------------------------
LEMMA FilterMade ==
  ASSUME TypeInv, FilterDevices
  PROVE  KeysInv' /\ CommonInv' /\ AuthInv'
<1>1. /\ todo' = Kept(conf) /\ conf' = conf /\ item' = 1
      /\ DOMAIN common' = {} /\ DOMAIN auth' = {}
  BY NothingParts DEF FilterDevices, TypeInv
<1>2. Done' = {}
  BY <1>1 DEF Done
<1>3. KeysInv'
  BY <1>1 DEF KeysInv
<1>4. CommonInv'
  <2>1. \A n \in Positions(Stanza.kind)' : ~ (n < item')
    <3> TAKE n \in Positions(Stanza.kind)'
    <3>1. n \in Nat /\ 1 <= n
      BY PositionParts
    <3> QED BY <1>1, <3>1
  <2>2. SoFar' = {}
    BY <2>1 DEF SoFar
  <2>3. Triples(common)' = {}
    BY <1>1 DEF Triples
  <2>4. (UNION {Own(i) : i \in Done})' = {}
    BY <1>2
  <2> QED BY <2>2, <2>3, <2>4 DEF CommonInv
<1>5. AuthInv'
  <2>1. AuthTriples(auth)' = {}
    BY <1>1 DEF AuthTriples
  <2>2. (UNION {Sections(i) : i \in Done})' = {}
    BY <1>2
  <2> QED BY <1>1, <2>1, <2>2 DEF AuthInv
<1> QED BY <1>3, <1>4, <1>5

LEMMA FinishMade ==
  ASSUME KeysInv, CommonInv, AuthInv, Finish
  PROVE  KeysInv' /\ CommonInv' /\ AuthInv'
<1>1. /\ todo = {} /\ todo' = todo /\ conf' = conf /\ common' = common
      /\ auth' = IF DOMAIN auth = {"class"} THEN Nothing ELSE auth
  BY DEF Finish
<1>2. /\ Done' = Done /\ \A i : Taken(i)' = Taken(i) /\ Own(i)' = Own(i) /\ Sections(i)' = Sections(i)
  BY <1>1, SameTaken, SameOwn, SameSections DEF Done
<1>3. KeysInv'
  <2>1. \A k, i : TakenBy(i, k)' <=> TakenBy(i, k)
    BY <1>1, <1>2 DEF TakenBy
  <2> QED BY <1>1, <1>2, <2>1 DEF KeysInv
<1>4. CommonInv'
  <2>1. Triples(common)' = Triples(common)
    <3>1. Triples(common)' = Triples(common')
      BY DEF Triples
    <3> QED BY <1>1, <3>1
  <2>2. (UNION {Own(i) : i \in Done})' = UNION {Own(i) : i \in Done}
    BY <1>2
  <2> QED BY <1>1, <2>1, <2>2 DEF CommonInv
<1>5. AuthInv'
  <2>1. /\ DOMAIN auth' \ {"class"} = DOMAIN auth \ {"class"}
        /\ \A x \in DOMAIN auth \ {"class"} : auth'[x] = auth[x]
    BY <1>1, NothingParts
  <2>2. \A t : t \in AuthTriples(auth') <=> t \in AuthTriples(auth)
    BY <2>1, InAuthTriples
  <2>3. AuthTriples(auth)' = AuthTriples(auth')
    BY DEF AuthTriples
  <2>4. AuthTriples(auth)' = AuthTriples(auth)
    BY <2>2, <2>3
  <2>5. (UNION {Sections(i) : i \in Done})' = UNION {Sections(i) : i \in Done}
    BY <1>2
  <2> QED BY <1>1, <1>2, <2>1, <2>4, <2>5 DEF AuthInv
<1> QED BY <1>3, <1>4, <1>5

LEMMA StayMade ==
  ASSUME KeysInv, CommonInv, AuthInv, UNCHANGED vars
  PROVE  KeysInv' /\ CommonInv' /\ AuthInv'
<1>1. /\ todo' = todo /\ conf' = conf /\ common' = common /\ auth' = auth /\ item' = item
  BY DEF vars
<1>2. /\ Done' = Done /\ At' = At /\ Stanza' = Stanza
      /\ \A i : Taken(i)' = Taken(i) /\ Own(i)' = Own(i)
      /\ \A i, class : Becomes(i, class)' = Becomes(i, class)
  BY <1>1, SameTaken, SameOwn, SameBecomes DEF Done, At, Stanza
<1>3. KeysInv'
  <2>1. \A k, i : TakenBy(i, k)' <=> TakenBy(i, k)
    BY <1>1, <1>2 DEF TakenBy
  <2> QED BY <1>1, <1>2, <2>1 DEF KeysInv
<1>4. CommonInv'
  <2>1. Triples(common)' = Triples(common)
    <3>1. Triples(common)' = Triples(common')
      BY DEF Triples
    <3> QED BY <1>1, <3>1
  <2>2. (UNION {Own(i) : i \in Done})' = UNION {Own(i) : i \in Done}
    BY <1>2
  <2>3. SoFar' = SoFar
    BY <1>1, <1>2 DEF SoFar
  <2> QED BY <1>1, <2>1, <2>2, <2>3 DEF CommonInv
<1> QED BY <1>1, <1>3, <1>4, AuthStays

LEMMA MadeStep ==
  ASSUME TypeInv, TemporaryInv, MadeInv, [Next]_vars
  PROVE  MadeInv'
<1>1. conf' = conf
  BY DEF Next, vars, FilterDevices, SkipItem, ConvertItem, EndPlain, EndUser, EndSource, EndSection,
         EndRadius, EndRadiusServer, Finish, Fail, NextStanza
<1>2. TemporaryInv'
  BY TemporaryStep
<1> SUFFICES ASSUME Separate, status' \in {"converting", "done"}
             PROVE  KeysInv' /\ CommonInv' /\ AuthInv'
  BY <1>1, SameSeparate DEF MadeInv
<1>3. CASE FilterDevices
  BY <1>3, FilterMade
<1>4. ASSUME status \in {"converting", "done"}
      PROVE  KeysInv /\ CommonInv /\ AuthInv
  BY <1>4 DEF MadeInv
<1>5. CASE SkipItem \/ ConvertItem
  <2>1. status = "converting"
    BY <1>5 DEF SkipItem, ConvertItem, AtItem
  <2> QED BY <1>4, <1>5, <2>1, ItemStep
<1>6. CASE EndPlain \/ EndUser \/ EndSource \/ EndSection \/ EndRadius \/ EndRadiusServer
  <2>1. Ended /\ NextStanza /\ status = "converting"
    BY <1>6 DEF EndPlain, EndUser, EndSource, EndSection, EndRadius, EndRadiusServer, Ended
  <2>2. KeysInv /\ CommonInv /\ AuthInv
    BY <1>4, <2>1
  <2>3. CASE EndPlain
    BY <1>2, <2>2, <2>3, PlainEnds
  <2>4. CASE EndUser
    BY <1>2, <2>2, <2>4, UserEnds
  <2>5. CASE EndSource \/ EndSection \/ EndRadius \/ EndRadiusServer
    <3>1. common' = Without(common, {Temporary}) /\ Stanza.kind \in AuthKinds
      BY <2>5 DEF EndSource, EndSection, EndRadius, EndRadiusServer, AuthKinds, SectionOf
    <3>2. KeysInv' /\ CommonInv'
      BY <1>2, <2>1, <2>2, <3>1, TemporaryEnds
    <3>3. CASE EndSource
      BY <2>2, <3>2, <3>3, SourceEnds
    <3>4. CASE EndSection
      BY <2>2, <3>2, <3>4, SectionEnds
    <3>5. CASE EndRadius
      BY <2>2, <3>2, <3>5, RadiusEnds
    <3>6. CASE EndRadiusServer
      BY <2>1, <2>2, <3>2, <3>6, AuthIdle DEF EndRadiusServer
    <3> QED BY <2>5, <3>3, <3>4, <3>5, <3>6
  <2> QED BY <1>6, <2>3, <2>4, <2>5
<1>7. CASE Finish
  <2>1. status = "converting"
    BY <1>7 DEF Finish
  <2> QED BY <1>4, <1>7, <2>1, FinishMade
<1>8. CASE Fail
  BY <1>8 DEF Fail
<1>9. CASE UNCHANGED vars
  <2>1. status' = status
    BY <1>9 DEF vars
  <2> QED BY <1>4, <1>9, <2>1, StayMade
<1> QED BY <1>3, <1>5, <1>6, <1>7, <1>8, <1>9 DEF Next

(* Where no name is taken twice, between any two steps every key is a name *)
(* that a stanza takes, common is made of the stanzas that are done and of *)
(* what the current one has become so far, and auth of the sections of     *)
(* those that are done (doConverter.js 112-295).                           *)
THEOREM OnboardingMade == Spec => []MadeInv
<1>1. Init => MadeInv
  BY DEF Init, MadeInv
<1>2. TypeInv /\ TemporaryInv /\ MadeInv /\ [Next]_vars => MadeInv'
  BY MadeStep
<1> QED BY OnboardingInv, <1>1, <1>2, PTL DEF IInv, Spec

LEMMA AllMade ==
  ASSUME TypeInv, MadeInv, status = "done", Separate
  PROVE  /\ \A t : t \in Triples(common) <=> \E i \in Kept(conf) : t \in Own(i)
         /\ \A t : t \in AuthTriples(auth) <=> \E i \in Kept(conf) : t \in Sections(i)
<1>1. CommonInv /\ AuthInv /\ todo = {}
  BY DEF MadeInv, TypeInv
<1>2. Done = Kept(conf)
  BY <1>1 DEF Done
<1> QED BY <1>1, <1>2, InCommon DEF AuthInv

(* Where no name is taken twice, the declaration is what the stanzas, each *)
(* for itself, should become: whatever the order of the items, the kinds   *)
(* of the stanzas and the order they come in.                              *)
THEOREM AllIsDeclared == Spec => []MadeOfTheConfiguration
<1>1. TypeInv /\ MadeInv => MadeOfTheConfiguration
  <2> SUFFICES ASSUME TypeInv, MadeInv, status = "done", Separate
               PROVE  Declared = UNION {Wanted(i) : i \in Kept(conf)}
    BY DEF MadeOfTheConfiguration
  <2>1. Declared = Triples(common) \cup AuthTriples(auth)
    BY Zenon DEF Declared, Triples, AuthTriples, Section
  <2>2. /\ \A t : t \in Triples(common) <=> \E i \in Kept(conf) : t \in Own(i)
        /\ \A t : t \in AuthTriples(auth) <=> \E i \in Kept(conf) : t \in Sections(i)
    BY AllMade
  <2>3. \A i, t : t \in Wanted(i) <=> t \in Own(i) \/ t \in Sections(i)
    BY DEF Wanted
  <2>4. \A t : t \in Declared <=> \E i \in Kept(conf) : t \in Wanted(i)
    BY <2>1, <2>2, <2>3
  <2> QED BY <2>4
<1> QED BY OnboardingInv, OnboardingMade, <1>1, PTL DEF IInv

(* The classes that objects are referred to by.                            *)
Referable == NamedClasses \ (ListClasses \cup {"SelfIp", "User", "Authentication"})

LEMMA RefersTo ==
  ASSUME NEW class, NEW lists, NEW to, NEW row \in Refers(class, lists, to)
  PROVE  row.to = to
BY DEF Refers

LEMMA ReferencesTo ==
  ASSUME NEW row \in DeviceReferences
  PROVE  row.to \subseteq Referable
<1> USE DEF Referable, NamedClasses, ListClasses
<1>1. CASE row \in DnsResolverRefs \cup GslbDataCenterRefs \cup GslbProberPoolRefs \cup GslbServerRefs
  BY <1>1, RefersTo DEF DnsResolverRefs, GslbDataCenterRefs, GslbProberPoolRefs, GslbServerRefs
<1>2. CASE row \in RouteDomainRefs \cup RouteMapRefs \cup BgpRouteMaps \cup SelfIpRefs \cup VlanRefs
  BY <1>2, RefersTo DEF RouteDomainRefs, RouteMapRefs, BgpRouteMaps, SelfIpRefs, VlanRefs
<1>3. CASE row \in FirewallPolicyRefs \cup ManagementIpFirewallRefs
  <2>1. row.to \in {{"FirewallAddressList"}, {"FirewallPortList"}, {"VLAN"}}
    BY <1>3 DEF FirewallPolicyRefs, ManagementIpFirewallRefs, Respelled, Refers
  <2> QED BY <2>1
<1> QED BY <1>1, <1>2, <1>3 DEF DeviceReferences

(* Where no name is taken twice, what refers to an object that is declared *)
(* finds it, if the object keeps its name.                                 *)
THEOREM AllIsFound == Spec => []ReferencesAreFound
<1>1. TypeInv /\ MadeInv => ReferencesAreFound
  <2> SUFFICES ASSUME TypeInv, MadeInv, status = "done", Separate,
                      NEW i \in Kept(conf), NEW row \in DeviceReferences, NEW n,
                      Survives(n), DeclaredAs(n, row.to)
               PROVE  <<Written(row, n)>> \in DOMAIN common /\ common[<<Written(row, n)>>].class \in row.to
    BY DEF ReferencesAreFound
  <2>1. Written(row, n) = n /\ ~ HasAddress(n)
    BY DEF Written, Survives
  <2>2a. PICK k \in DOMAIN common : \E p \in common[k].from : conf[p[1]].name = n /\ p[2] \in row.to
    BY DEF DeclaredAs
  <2>2. PICK p \in common[k].from : conf[p[1]].name = n /\ p[2] \in row.to
    BY <2>2a
  <2> DEFINE t == Triple(k, common[k].class, p)
  <2>3. t \in Triples(common)
    BY InTriples DEF Shows
  <2>4. t[1] = k /\ t[2] = common[k].class /\ t[3] = p
    BY TripleParts
  <2> HIDE DEF t
  <2>5. PICK j \in Kept(conf) : t \in Own(j)
    BY <2>3, AllMade
  <2>6. j \in DOMAIN conf /\ conf \in Configurations
    BY ConfShape DEF TypeInv
  <2>7. row.to \subseteq Referable
    BY ReferencesTo
  <2>8. conf[j].kind # "auth user"
    <3> SUFFICES ASSUME conf[j].kind = "auth user" PROVE FALSE
      OBVIOUS
    <3>1. t = <<<<conf[j].name>>, "User", <<j, "User", "all">>>>
      BY <2>5 DEF Own
    <3>2. t[3][2] = "User"
      BY <3>1
    <3>3. "User" \notin Referable
      BY DEF Referable
    <3> QED BY <2>2, <2>4, <2>7, <3>2, <3>3
  <2>9. PICK c \in ClassesOf(conf[j].kind) : t \in Becomes(j, c)
    BY <2>5, <2>8 DEF Own
  <2>10. p[1] = j /\ p[2] = c /\ t[2] = c /\ (c \notin ListClasses => t[1] = ClassName(c, conf[j]))
    <3>1. <<c, conf[j].name>> \notin Ignored
      BY <2>9, BecomesParts
    <3>2. CASE c \in ListClasses
      <4>1. t \in Elements(j, c)
        BY <2>9, <3>1, <3>2, BecomesParts
      <4>2. PICK m : t = Element(j, c, m)
        BY <2>6, <4>1, ElementShape
      <4>3. t = Triple(NameOf(c, m), c, Piece(j, c, m))
        BY <4>2, ElementIs
      <4>4. t[2] = c /\ t[3] = Piece(j, c, m)
        BY <4>3, TripleParts
      <4> QED BY <2>4, <3>2, <4>4 DEF Piece
    <3>3. CASE c \notin ListClasses
      <4>1. PICK q \in Gives(j, c) : t = Triple(ClassName(c, conf[j]), c, q)
        BY <2>9, <3>1, <3>3, BecomesParts
      <4>2. q[1] = j /\ q[2] = c
        BY DEF Gives
      <4>3. t[1] = ClassName(c, conf[j]) /\ t[2] = c /\ t[3] = q
        BY <4>1, TripleParts
      <4> QED BY <2>4, <4>2, <4>3
    <3> QED BY <3>2, <3>3
  <2>11. conf[j].name = n /\ c \in row.to /\ c \in Referable
    BY <2>2, <2>7, <2>10
  <2>12. conf[j].kind # "cm device"
    BY <2>11, ClassParts
  <2>13. ClassName(c, conf[j]) = <<n>>
    BY <2>1, <2>11, <2>12 DEF ClassName, HasAddress, Referable
  <2>14. k = <<n>> /\ common[k].class \in row.to
    BY <2>4, <2>10, <2>11, <2>13 DEF Referable
  <2> QED BY <2>1, <2>2, <2>14
<1> QED BY OnboardingInv, OnboardingMade, <1>1, PTL DEF IInv
=============================================================================
