------------------------- MODULE As3Conversion_proof -------------------------
(* Proofs about As3Conversion for every set of configurations.             *)
EXTENDS As3Conversion, TLAPS

LEMMA ElementType ==
    ASSUME NEW S, NEW s \in Seq(S), NEW k \in DOMAIN s PROVE s[k] \in S
OBVIOUS

LEMMA ConcatType ==
    ASSUME NEW S, NEW s \in Seq(S), NEW t \in Seq(S)
    PROVE  s \o t \in Seq(S) /\ Len(s \o t) = Len(s) + Len(t)
OBVIOUS

LEMMA AppendType ==
    ASSUME NEW S, NEW s \in Seq(S), NEW e \in S PROVE Append(s, e) \in Seq(S)
OBVIOUS

(* Every path has a tenant, an application and a name.                     *)
LEMMA PathTypes ==
    ASSUME NEW obj \in Object
    PROVE  /\ Full(obj.path) \in Seq(Names) /\ Len(Full(obj.path)) \in 2 .. 3
           /\ Tenant(obj) \in Names /\ App(obj) \in Names /\ Profile(obj) \in Names
<1>1. obj.path \in Seq(Names) /\ Len(obj.path) \in 1 .. 3
  BY DEF Object, Paths
<1>2. Full(obj.path) \in Seq(Names) /\ Len(Full(obj.path)) \in 2 .. 3
  <2>1. CASE Len(obj.path) = 1
    <3>1. <<Common>> \in Seq(Names) /\ Len(<<Common>>) = 1
      BY NamesAssumption
    <3>2. /\ <<Common>> \o obj.path \in Seq(Names)
          /\ Len(<<Common>> \o obj.path) = Len(<<Common>>) + Len(obj.path)
      BY <1>1, <3>1, ConcatType
    <3> QED
      BY <2>1, <3>1, <3>2 DEF Full
  <2>2. CASE Len(obj.path) # 1
    BY <1>1, <2>2 DEF Full
  <2> QED
    BY <2>1, <2>2
<1> DEFINE full == Full(obj.path)
<1> HIDE DEF full
<1>3. full \in Seq(Names) /\ Len(full) \in 2 .. 3
  BY <1>2 DEF full
<1>4. full[1] \in Names /\ full[2] \in Names /\ full[Len(full)] \in Names
  BY <1>3, ElementType
<1>5. Last(full) \in Names
  BY <1>4 DEF Last
<1> QED
  BY <1>2, <1>4, <1>5, NamesAssumption DEF full, Tenant, App, Profile

LEMMA PlaceType ==
    ASSUME NEW obj \in Object, NEW n \in Names
    PROVE  Place(obj, n) \in Places
BY PathTypes DEF Place, Places

LEMMA CurrentObject ==
    ASSUME TypeOK, Converting
    PROVE  next \in DOMAIN config /\ config[next] \in Object
<1>1. next \in DOMAIN config
  BY DEF TypeOK, Converting
<1> QED
  BY <1>1, ElementType DEF TypeOK

LEMMA OnlyPortType ==
    ASSUME NEW obj \in Object
    PROVE  OnlyPort(obj) \in Ports \cup {NoPort}
<1>1. obj.ports \in Seq(Ports)
  BY DEF Object
<1>2. CASE obj.ports = << >>
  BY <1>2 DEF OnlyPort
<1>3. CASE obj.ports # << >>
  <2>1. Len(obj.ports) \in DOMAIN obj.ports
    BY <1>1, <1>3
  <2>2. obj.ports[Len(obj.ports)] \in Ports
    BY <1>1, <2>1, ElementType
  <2> QED
    BY <1>3, <2>2 DEF OnlyPort, Last
<1> QED
  BY <1>2, <1>3

LEMMA PortSetType ==
    ASSUME NEW obj \in Object
    PROVE  ToSet(obj.ports) \subseteq Ports
<1>1. obj.ports \in Seq(Ports)
  BY DEF Object
<1> QED
  BY <1>1, ElementType DEF ToSet

LEMMA EntryTypes ==
    ASSUME TypeOK, NEW o \in DOMAIN config, NEW n
    PROVE  /\ Entry(o, NoPort) \in Declaration
           /\ Entry(o, PortAt(o, n)) \in Declaration
<1>1. config[o] \in Object
  BY ElementType DEF TypeOK
<1>2. ASSUME NEW port \in Ports \cup {NoPort} PROVE Entry(o, port) \in Declaration
  BY <1>1 DEF Entry, Declaration, Object
<1>3. PortAt(o, n) \in Ports \cup {NoPort}
  BY <1>1, OnlyPortType, PortSetType DEF PortAt
<1> QED
  BY <1>2, <1>3

LEMMA ReturnedNames ==
    ASSUME NEW o \in DOMAIN config, config[o] \in Object
    PROVE  Returned(o) \subseteq Names
<1>1. config[o].extras \subseteq Names
  BY DEF Object
<1>2. Profile(config[o]) \in Names
  BY PathTypes
<1>3. \A p \in ToSet(config[o].ports) : PortName[Profile(config[o])][p] \in Names
  BY <1>2, PortSetType, NamesAssumption
<1> QED
  BY <1>1, <1>2, <1>3 DEF Returned

(* What Put does to the declaration.                                       *)
LEMMA PutTypes ==
    ASSUME TypeOK, NEW o \in DOMAIN config, NEW names \in SUBSET Names
    PROVE  /\ DOMAIN Put(o, names) \subseteq Places
           /\ \A k \in DOMAIN Put(o, names) : Put(o, names)[k] \in Declaration
<1>1. config[o] \in Object
  BY ElementType DEF TypeOK
<1>2. {Place(config[o], n) : n \in names} \subseteq Places
  BY <1>1, PlaceType
<1> QED
  BY <1>2, EntryTypes DEF Put, TypeOK

LEMMA OriginalPlaceType ==
    ASSUME NEW o \in DOMAIN config, config[o] \in Object,
           Profile(config[o]) \in DOMAIN Original
    PROVE  OriginalPlace(o) \in Places
BY PlaceType, NamesAssumption DEF OriginalPlace

(* The steps of the loop that leave the declaration alone.                 *)
LEMMA QuietSteps ==
    ASSUME TypeOK,
           ReportUnsupported \/ FailInEngine \/ Ignore \/ SkipAddress \/ FailInCustomMap
    PROVE  TypeOK'
<1>1. next \in DOMAIN config /\ config[next] \in Object
  BY CurrentObject DEF ReportUnsupported, FailInEngine, Ignore, SkipAddress,
                       FailInCustomMap, Placing
<1>2. Tenant(config[next]) \in Names
  BY <1>1, PathTypes
<1>3. tenants' \subseteq Names /\ apps' \subseteq Names \X Names
  BY <1>2, NamesAssumption
     DEF TypeOK, ReportUnsupported, FailInEngine, Ignore, SkipAddress,
         FailInCustomMap, Placing, AddTenant, AddSharedOf
<1>4. /\ config' = config /\ decl' = decl /\ redirects' = redirects
      /\ removed' = removed /\ warned' = warned /\ pc' = pc /\ next' = next + 1
      /\ unconverted' \subseteq DOMAIN config /\ errors' \subseteq DOMAIN config
  BY <1>1 DEF TypeOK, ReportUnsupported, FailInEngine, Ignore, SkipAddress,
              FailInCustomMap, Placing, NextKey
<1> QED
  BY <1>3, <1>4 DEF TypeOK, Declaration

LEMMA AttachAddressType == TypeOK /\ AttachAddress => TypeOK'
<1> SUFFICES ASSUME TypeOK, AttachAddress PROVE TypeOK'
  OBVIOUS
<1>1. next \in DOMAIN config /\ config[next] \in Object
  BY CurrentObject DEF AttachAddress, Placing
<1>2. Tenant(config[next]) \in Names /\ Profile(config[next]) \in Names
  BY <1>1, PathTypes
<1> DEFINE k == <<Tenant(config[next]), Shared, Profile(config[next])>>
<1>3. k \in Places
  BY <1>2, NamesAssumption DEF Places
<1>4. /\ DOMAIN decl' \subseteq Places
      /\ \A p \in DOMAIN decl' : decl'[p] \in Declaration
  BY <1>1, <1>3, EntryTypes DEF AttachAddress, TypeOK
<1>5. tenants' \subseteq Names /\ apps' \subseteq Names \X Names
  BY <1>2, NamesAssumption DEF TypeOK, AttachAddress, Placing, AddTenant, AddSharedOf
<1>6. /\ config' = config /\ redirects' = redirects /\ unconverted' = unconverted
      /\ errors' = errors /\ warned' = warned /\ removed' = removed /\ pc' = pc
      /\ next' = next + 1
  BY DEF AttachAddress, Placing, NextKey
<1> QED
  BY <1>4, <1>5, <1>6 DEF TypeOK, Declaration

LEMMA ConnectingTypes ==
    ASSUME TypeOK, Connecting
    PROVE  /\ next \in DOMAIN config /\ config[next] \in Object
           /\ tenants' \subseteq Names
           /\ redirects' \in Seq(DOMAIN config)
           /\ config' = config /\ removed' = removed /\ pc' = pc
           /\ next' = next + 1
<1>1. next \in DOMAIN config /\ config[next] \in Object
  BY CurrentObject DEF Connecting, Placing
<1>2. Tenant(config[next]) \in Names
  BY <1>1, PathTypes
<1>3. tenants' \subseteq Names
  BY <1>2 DEF TypeOK, Connecting, Placing, AddTenant
<1>4. redirects' \in Seq(DOMAIN config)
  <2>1. redirects \in Seq(DOMAIN config)
    BY DEF TypeOK
  <2>2. Append(redirects, next) \in Seq(DOMAIN config)
    BY <1>1, <2>1, AppendType
  <2> QED
    BY <2>1, <2>2 DEF Connecting
<1> QED
  BY <1>1, <1>3, <1>4 DEF Connecting, Placing, NextKey

LEMMA MergeType == TypeOK /\ Merge => TypeOK'
<1> SUFFICES ASSUME TypeOK, Merge PROVE TypeOK'
  OBVIOUS
<1>0. Connecting
  BY DEF Merge
<1>1. next \in DOMAIN config /\ config[next] \in Object
  BY <1>0, ConnectingTypes
<1> DEFINE at == OriginalPlace(next)
           put == Put(next, Reassigned(next))
           merged == [decl[at] EXCEPT
                        !.type = config[next].type,
                        !.from = @ \cup {next},
                        !.addr = IF @ = NoAddress THEN config[next].addr ELSE @,
                        !.https = config[next].https]
<1>2. decl[at] \in Declaration
  BY DEF Merge, IsCopy, TypeOK
<1>3. merged \in Declaration
  <2>1. /\ config[next].type \in Types
        /\ config[next].addr \in Addresses \cup {ByName, NoAddress}
        /\ config[next].https \in BOOLEAN
    BY <1>1 DEF Object
  <2> QED
    BY <1>1, <1>2, <2>1 DEF Declaration
<1>4. Reassigned(next) \in SUBSET Names
  BY <1>1, ReturnedNames DEF Reassigned
<1>5. DOMAIN put \subseteq Places /\ \A k \in DOMAIN put : put[k] \in Declaration
  BY <1>1, <1>4, PutTypes
<1>6. decl' = [k \in DOMAIN put |-> IF k = at THEN merged ELSE put[k]]
  BY DEF Merge
<1> HIDE DEF put, merged, at
<1>7. DOMAIN decl' \subseteq Places /\ \A k \in DOMAIN decl' : decl'[k] \in Declaration
  BY <1>3, <1>5, <1>6
<1>8. /\ tenants' \subseteq Names /\ redirects' \in Seq(DOMAIN config)
      /\ config' = config /\ removed' = removed /\ pc' = pc /\ next' = next + 1
  BY <1>0, ConnectingTypes
<1>9. UNCHANGED <<apps, unconverted, errors, warned>>
  BY DEF Merge
<1> QED
  BY <1>7, <1>8, <1>9 DEF TypeOK, Declaration

LEMMA AttachType == TypeOK /\ Attach => TypeOK'
<1> SUFFICES ASSUME TypeOK, Attach PROVE TypeOK'
  OBVIOUS
<1>0. Connecting
  BY DEF Attach
<1>1. next \in DOMAIN config /\ config[next] \in Object
  BY <1>0, ConnectingTypes
<1>2. /\ Tenant(config[next]) \in Names /\ App(config[next]) \in Names
      /\ Profile(config[next]) \in Names
  BY <1>1, PathTypes
<1> DEFINE names == IF config[next].type = "plain" THEN {Profile(config[next])}
                    ELSE Returned(next)
<1>3. names \in SUBSET Names
  BY <1>1, <1>2, ReturnedNames
<1>4. decl' = Put(next, names)
  BY DEF Attach
<1>5. DOMAIN decl' \subseteq Places /\ \A k \in DOMAIN decl' : decl'[k] \in Declaration
  BY <1>1, <1>3, <1>4, PutTypes
<1>6. apps' \subseteq Names \X Names /\ warned' \subseteq Places
  BY <1>2 DEF Attach, TypeOK
<1>7. /\ tenants' \subseteq Names /\ redirects' \in Seq(DOMAIN config)
      /\ config' = config /\ removed' = removed /\ pc' = pc /\ next' = next + 1
  BY <1>0, ConnectingTypes
<1>8. UNCHANGED <<unconverted, errors>>
  BY DEF Attach
<1> QED
  BY <1>5, <1>6, <1>7, <1>8 DEF TypeOK, Declaration

LEMMA CleanRedirectType == TypeOK /\ CleanRedirect => TypeOK'
<1> SUFFICES ASSUME TypeOK, CleanRedirect PROVE TypeOK'
  OBVIOUS
<1> DEFINE r == Head(redirects)
           gone == IF HttpsTwins(r) = {} THEN {}
                   ELSE {Place(config[r], Profile(config[r]))} \cap DOMAIN decl
           marked == [k \in DOMAIN decl |->
                        IF k \in HttpsTwins(r) THEN [decl[k] EXCEPT !.redirect80 = TRUE]
                        ELSE decl[k]]
<1>1. ASSUME NEW k \in DOMAIN decl PROVE marked[k] \in Declaration
  <2>1. decl[k] \in Declaration
    BY DEF TypeOK
  <2>2. [decl[k] EXCEPT !.redirect80 = TRUE] \in Declaration
    BY <2>1 DEF Declaration
  <2> QED
    BY <2>1, <2>2
<1>2. decl' = WithoutPlaces(marked, gone)
  BY DEF CleanRedirect
<1>3. removed' = removed \cup UNION {decl[k].from : k \in gone}
  BY DEF CleanRedirect
<1>4. gone \subseteq DOMAIN decl /\ DOMAIN marked = DOMAIN decl
  OBVIOUS
<1> HIDE DEF gone, marked
<1>5. DOMAIN decl' \subseteq Places /\ \A k \in DOMAIN decl' : decl'[k] \in Declaration
  BY <1>1, <1>2, <1>4 DEF WithoutPlaces, TypeOK
<1>6. removed' \subseteq DOMAIN config
  BY <1>3, <1>4 DEF TypeOK, Declaration
<1>7. redirects' \in Seq(DOMAIN config)
  BY DEF CleanRedirect, TypeOK
<1>8. UNCHANGED <<config, next, tenants, apps, unconverted, errors, warned, pc>>
  BY DEF CleanRedirect
<1> QED
  BY <1>5, <1>6, <1>7, <1>8 DEF TypeOK, Declaration

LEMMA TypeStep == TypeOK /\ [Next]_vars => TypeOK'
<1> SUFFICES ASSUME TypeOK, [Next]_vars PROVE TypeOK'
  OBVIOUS
<1>1. CASE ReportUnsupported \/ FailInEngine \/ Ignore \/ SkipAddress \/ FailInCustomMap
  BY <1>1, QuietSteps
<1>2. CASE AttachAddress
  BY <1>2, AttachAddressType
<1>3. CASE Merge
  BY <1>3, MergeType
<1>4. CASE Attach
  BY <1>4, AttachType
<1>5. CASE RemoveCommon
  BY <1>5 DEF RemoveCommon, TypeOK, Declaration
<1>6. CASE CleanRedirect
  BY <1>6, CleanRedirectType
<1>7. CASE Abort
  BY <1>7 DEF Abort, TypeOK, Declaration
<1>8. CASE Return
  BY <1>8 DEF Return, TypeOK, Declaration
<1>9. CASE UNCHANGED vars
  BY <1>9 DEF vars, TypeOK, Declaration
<1> QED
  BY <1>1, <1>2, <1>3, <1>4, <1>5, <1>6, <1>7, <1>8, <1>9 DEF Next

LEMMA InitType == Init => TypeOK
<1> SUFFICES ASSUME Init PROVE TypeOK
  OBVIOUS
<1>1. config \in Seq(Object)
  BY ConfigsAssumption DEF Init
<1>2. DOMAIN decl = {} /\ redirects \in Seq(DOMAIN config)
  BY DEF Init
<1> QED
  BY <1>1, <1>2 DEF Init, TypeOK

(* The converter's state is well-typed in every conversion.                *)
THEOREM TypeCorrect == Spec => []TypeOK
<1> QED
  BY InitType, TypeStep, PTL DEF Spec
-----------------------------------------------------------------------------
(* Where the loop puts things in the declaration.                          *)
LEMMA PutDomain ==
    ASSUME NEW o, NEW names
    PROVE  DOMAIN Put(o, names) = DOMAIN decl \cup {Place(config[o], n) : n \in names}
BY DEF Put

LEMMA PutAt ==
    ASSUME NEW o, NEW names, NEW k \in DOMAIN Put(o, names), k \notin DOMAIN decl
    PROVE  <<k[1], k[2]>> = <<Tenant(config[o]), App(config[o])>>
<1>0. k \in {Place(config[o], n) : n \in names}
  BY PutDomain, Zenon
<1>1. PICK n \in names : k = Place(config[o], n)
  BY <1>0
<1>2. k = <<Tenant(config[o]), App(config[o]), n>>
  BY <1>1 DEF Place
<1>3. k[1] = Tenant(config[o]) /\ k[2] = App(config[o])
  BY <1>2
<1> QED
  BY <1>3, Zenon

LEMMA OnlySharedInCommon ==
    ASSUME NEW obj PROVE Tenant(obj) = Common => App(obj) = Shared
BY DEF App

LEMMA SharedOnlyStep ==
    CommonHoldsOnlyShared /\ [Next]_vars => CommonHoldsOnlyShared'
<1> SUFFICES ASSUME CommonHoldsOnlyShared, [Next]_vars PROVE CommonHoldsOnlyShared'
  OBVIOUS
<1>1. CASE ReportUnsupported \/ FailInEngine \/ Ignore
  BY <1>1 DEF ReportUnsupported, FailInEngine, Ignore, CommonHoldsOnlyShared
<1>2. CASE SkipAddress
  BY <1>2 DEF SkipAddress, Placing, AddTenant, CommonHoldsOnlyShared
<1>3. CASE FailInCustomMap
  BY <1>3 DEF FailInCustomMap, Placing, AddTenant, AddSharedOf, CommonHoldsOnlyShared
<1>4. CASE AttachAddress
  <2> DEFINE k == <<Tenant(config[next]), Shared, Profile(config[next])>>
  <2>0. decl' = [p \in DOMAIN decl \cup {k} |->
                    IF p = k THEN Entry(next, NoPort) ELSE decl[p]]
    BY <1>4 DEF AttachAddress
  <2>1. DOMAIN decl' = DOMAIN decl \cup {k} /\ apps' = apps \cup {<<k[1], k[2]>>}
    <3>1. apps' = apps \cup {<<k[1], k[2]>>}
      BY <1>4 DEF AttachAddress, AddSharedOf
    <3> HIDE DEF k
    <3> QED
      BY <2>0, <3>1
  <2>2. tenants' = tenants \cup {k[1]} /\ k[2] = Shared
    BY <1>4 DEF AttachAddress, Placing, AddTenant
  <2> QED
    BY <2>1, <2>2 DEF CommonHoldsOnlyShared
<1>5. CASE Merge
  <2> DEFINE at == <<Tenant(config[next]), App(config[next])>>
  <2>1. \A k \in DOMAIN decl' : k \in DOMAIN decl \/ <<k[1], k[2]>> = at
    <3> DEFINE put == Put(next, Reassigned(next))
    <3>1. DOMAIN decl' = DOMAIN put
      BY <1>5 DEF Merge
    <3> QED
      BY <3>1, PutAt
  <2>2. at \in apps
    <3>1. OriginalPlace(next) \in DOMAIN decl
      BY <1>5 DEF Merge, IsCopy
    <3> QED
      BY <3>1 DEF OriginalPlace, Place, CommonHoldsOnlyShared
  <2>3. apps' = apps /\ tenants \subseteq tenants'
    BY <1>5 DEF Merge, Connecting, Placing, AddTenant
  <2> QED
    BY <2>1, <2>2, <2>3 DEF CommonHoldsOnlyShared
<1>6. CASE Attach
  <2> DEFINE at == <<Tenant(config[next]), App(config[next])>>
  <2>1. \A k \in DOMAIN decl' : k \in DOMAIN decl \/ <<k[1], k[2]>> = at
    BY <1>6, PutAt DEF Attach
  <2>2. apps' = apps \cup {at} /\ tenants' = tenants \cup {at[1]}
    BY <1>6 DEF Attach, Connecting, Placing, AddTenant
  <2>3. at[1] = Common => at[2] = Shared
    BY OnlySharedInCommon
  <2> HIDE DEF at
  <2> QED
    BY <2>1, <2>2, <2>3 DEF CommonHoldsOnlyShared
<1>7. CASE RemoveCommon
  BY <1>7 DEF RemoveCommon, CommonHoldsOnlyShared
<1>8. CASE CleanRedirect
  <2>1. DOMAIN decl' \subseteq DOMAIN decl
    BY <1>8 DEF CleanRedirect, WithoutPlaces
  <2> QED
    BY <1>8, <2>1 DEF CleanRedirect, CommonHoldsOnlyShared
<1>9. CASE Abort \/ Return
  BY <1>9 DEF Abort, Return, CommonHoldsOnlyShared
<1>10. CASE UNCHANGED vars
  BY <1>10 DEF vars, CommonHoldsOnlyShared
<1> QED
  BY <1>1, <1>2, <1>3, <1>4, <1>5, <1>6, <1>7, <1>8, <1>9, <1>10 DEF Next

(* What was in /Common is in /Common/Shared, and every object of the       *)
(* declaration is in an application of one of its tenants, whatever the    *)
(* configuration.                                                          *)
THEOREM CommonSafety == Spec => []CommonHoldsOnlyShared
<1>1. Init => CommonHoldsOnlyShared
  BY DEF Init, CommonHoldsOnlyShared
<1> QED
  BY <1>1, SharedOnlyStep, PTL DEF Spec
-----------------------------------------------------------------------------
(* Nothing vanishes.  Where an object may be found or have been:           *)
Spots(o) == PlacesOf(o) \cup MergedPlaces(o)

(* What NothingVanishes says of an object, at any time after its turn.     *)
Accounted(o) ==
    \/ o \in errors
    \/ o \in removed
    \/ \E k \in DOMAIN decl : o \in decl[k].from
    \/ \E k \in Spots(o) :
           k \in warned \/ \E p \in DOMAIN config \ {o} : PutsSilently(p, k)

(* The inductive invariant: besides, what the declaration holds has had    *)
(* its turn and is in one of its places.                                   *)
InPlace == \A k \in DOMAIN decl : \A o \in decl[k].from : o < next /\ k \in Spots(o)

AllAccounted == \A o \in DOMAIN config : o < next /\ Converts(o) => Accounted(o)

Tracked ==
    /\ config \in Configs
    /\ pc # "loop" => next > Len(config)
    /\ InPlace
    /\ AllAccounted

LEMMA OfConfigOnly ==
    ASSUME config' = config, NEW o, NEW p, NEW k
    PROVE  /\ Spots(o)' = Spots(o) /\ (Converts(o))' = Converts(o)
           /\ (PutsSilently(p, k))' = PutsSilently(p, k)
<1>1. Returned(o)' = Returned(o) /\ Returned(p)' = Returned(p)
  BY DEF Returned
<1>2. PlacesOf(o)' = PlacesOf(o) /\ PlacesOf(p)' = PlacesOf(p)
  BY <1>1 DEF PlacesOf
<1>3. MergedPlaces(o)' = MergedPlaces(o)
  BY DEF MergedPlaces, OriginalPlace
<1>4. Reassigned(p)' = Reassigned(p)
  BY <1>1 DEF Reassigned
<1>5. (Converts(o))' = Converts(o)
  BY DEF Converts, Ignored, InSupportedIApp
<1>6. (PutsSilently(p, k))' = PutsSilently(p, k)
  BY <1>2, <1>4 DEF PutsSilently
<1> QED
  BY <1>2, <1>3, <1>5, <1>6 DEF Spots

(* What a step has to do with the declaration to keep account of an object.*)
Kept(o, k) ==
    \/ k \in DOMAIN decl' /\ o \in decl'[k].from
    \/ o \in removed'
    \/ k \in warned'
    \/ \E p \in DOMAIN config \ {o} : PutsSilently(p, k)

LEMMA AccountKept ==
    ASSUME InPlace, config' = config, errors \subseteq errors', removed \subseteq removed',
           warned \subseteq warned',
           \A k \in DOMAIN decl : \A o \in decl[k].from : Kept(o, k),
           NEW o, Accounted(o)
    PROVE  Accounted(o)'
<1>1. CASE o \in errors
  BY <1>1 DEF Accounted
<1>2. CASE o \in removed
  BY <1>2 DEF Accounted
<1>3. CASE \E k \in DOMAIN decl : o \in decl[k].from
  <2>1. PICK k \in DOMAIN decl : o \in decl[k].from
    BY <1>3
  <2>2. k \in Spots(o)' /\ Kept(o, k)
    BY <2>1, OfConfigOnly DEF InPlace
  <2>3. CASE k \in DOMAIN decl' /\ o \in decl'[k].from
    BY <2>3 DEF Accounted
  <2>4. CASE o \in removed'
    BY <2>4 DEF Accounted
  <2>5. CASE k \in warned'
    BY <2>2, <2>5 DEF Accounted
  <2>6. CASE \E p \in DOMAIN config \ {o} : PutsSilently(p, k)
    <3>1. PICK p \in DOMAIN config' \ {o} : (PutsSilently(p, k))'
      BY <2>6, OfConfigOnly
    <3> QED
      BY <2>2, <3>1 DEF Accounted
  <2> QED
    BY <2>2, <2>3, <2>4, <2>5, <2>6 DEF Kept
<1>4. CASE \E k \in Spots(o) :
             k \in warned \/ \E p \in DOMAIN config \ {o} : PutsSilently(p, k)
  <2>1. PICK k \in Spots(o) :
             k \in warned \/ \E p \in DOMAIN config \ {o} : PutsSilently(p, k)
    BY <1>4
  <2>2. k \in Spots(o)'
    BY <2>1, OfConfigOnly
  <2>3. CASE k \in warned
    BY <2>2, <2>3 DEF Accounted
  <2>4. CASE \E p \in DOMAIN config \ {o} : PutsSilently(p, k)
    <3>1. PICK p \in DOMAIN config' \ {o} : (PutsSilently(p, k))'
      BY <2>4, OfConfigOnly
    <3> QED
      BY <2>2, <3>1 DEF Accounted
  <2> QED
    BY <2>1, <2>3, <2>4
<1> QED
  BY <1>1, <1>2, <1>3, <1>4 DEF Accounted

(* A turn of the loop: all earlier objects stay accounted for, and the     *)
(* object of the turn is.                                                  *)
LEMMA Turn ==
    ASSUME TypeOK, Tracked, Converting, NextKey, errors \subseteq errors', warned \subseteq warned',
           \A k \in DOMAIN decl : \A o \in decl[k].from : Kept(o, k),
           \A o \in DOMAIN config : o = next /\ Converts(o) => Accounted(o)',
           InPlace'
    PROVE  Tracked'
<1>1. config' = config /\ removed' = removed /\ pc' = pc /\ next' = next + 1 /\ pc = "loop"
  BY DEF NextKey, Converting
<1>2. ASSUME NEW o \in DOMAIN config', o < next', (Converts(o))' PROVE Accounted(o)'
  <2>1. Converts(o) /\ o \in DOMAIN config
    BY <1>1, <1>2, OfConfigOnly
  <2>2. CASE o = next
    BY <2>1, <2>2, Zenon
  <2>3. CASE o # next
    <3>1. o < next
      BY <1>1, <1>2, <2>1, <2>3 DEF TypeOK
    <3>2. Accounted(o)
      BY <2>1, <3>1 DEF Tracked, AllAccounted
    <3> QED
      BY <1>1, <3>2, AccountKept DEF Tracked
  <2> QED
    BY <2>2, <2>3
<1> QED
  BY <1>1, <1>2 DEF Tracked, AllAccounted

(* A turn that leaves the declaration alone.                               *)
LEMMA QuietTurn ==
    ASSUME TypeOK, Tracked, Converting, NextKey, decl' = decl,
           errors \subseteq errors', warned' = warned,
           Converts(next) => next \in errors'
    PROVE  Tracked'
<1>1. config' = config /\ next' = next + 1
  BY DEF NextKey
<1>2. InPlace'
  <2>1. ASSUME NEW k \in DOMAIN decl', NEW o \in decl'[k].from
        PROVE  o < next' /\ k \in Spots(o)'
    <3>1. o < next /\ k \in Spots(o) /\ o \in Nat
      BY <2>1 DEF Tracked, InPlace, TypeOK, Declaration
    <3>2. Spots(o)' = Spots(o)
      BY <1>1, OfConfigOnly
    <3>3. next \in Nat
      BY DEF TypeOK
    <3> QED
      BY <1>1, <3>1, <3>2, <3>3
  <2> QED
    BY <2>1 DEF InPlace
<1>3. \A k \in DOMAIN decl : \A o \in decl[k].from : Kept(o, k)
  BY DEF Kept
<1>4. \A o \in DOMAIN config : o = next /\ Converts(o) => Accounted(o)'
  BY DEF Accounted
<1> QED
  BY <1>2, <1>3, <1>4, Turn

LEMMA QuietAccount ==
    ASSUME TypeOK, Tracked,
           ReportUnsupported \/ FailInEngine \/ Ignore \/ SkipAddress \/ FailInCustomMap
    PROVE  Tracked'
<1>1. CASE ReportUnsupported
  <2>1. ~Converts(next)
    BY <1>1 DEF ReportUnsupported, Converts, Mapped, Custom
  <2> QED
    BY <1>1, <2>1, QuietTurn DEF ReportUnsupported
<1>2. CASE FailInEngine
  BY <1>2, QuietTurn DEF FailInEngine
<1>3. CASE Ignore
  <2>1. ~Converts(next)
    BY <1>3 DEF Ignore, Converts
  <2> QED
    BY <1>3, <2>1, QuietTurn DEF Ignore
<1>4. CASE SkipAddress
  <2>1. ~Converts(next)
    BY <1>4 DEF SkipAddress, Converts
  <2> QED
    BY <1>4, <2>1, QuietTurn DEF SkipAddress, Placing
<1>5. CASE FailInCustomMap
  BY <1>5, QuietTurn DEF FailInCustomMap, Placing
<1> QED
  BY <1>1, <1>2, <1>3, <1>4, <1>5

LEMMA AddressAccount == TypeOK /\ Tracked /\ AttachAddress => Tracked'
<1> SUFFICES ASSUME TypeOK, Tracked, AttachAddress PROVE Tracked'
  OBVIOUS
<1> DEFINE k == <<Tenant(config[next]), Shared, Profile(config[next])>>
<1>0. /\ Converting /\ NextKey /\ errors' = errors /\ warned' = warned
      /\ config' = config /\ next' = next + 1
      /\ config[next].type = "virtual-address"
      /\ next \in DOMAIN config
  BY CurrentObject DEF AttachAddress, Placing, NextKey
<1>1. decl' = [p \in DOMAIN decl \cup {k} |->
                    IF p = k THEN Entry(next, NoPort) ELSE decl[p]]
  BY DEF AttachAddress
<1>2. PlacesOf(next) = {k}
  BY <1>0 DEF PlacesOf
<1> HIDE DEF k
<1>3. k \in DOMAIN decl' /\ decl'[k].from = {next}
  BY <1>1 DEF Entry
<1>4. \A q \in DOMAIN decl : q # k => q \in DOMAIN decl' /\ decl'[q] = decl[q]
  BY <1>1
<1>5. PutsSilently(next, k)
  BY <1>0, <1>2 DEF PutsSilently
<1>6. ASSUME NEW q \in DOMAIN decl, NEW o \in decl[q].from PROVE Kept(o, q)
  <2>1. o < next
    BY <1>6 DEF Tracked, InPlace
  <2>2. o # next
    BY <2>1 DEF TypeOK
  <2> QED
    BY <1>0, <1>4, <1>5, <2>2, <1>6 DEF Kept
<1>7. InPlace'
  <2>1. ASSUME NEW q \in DOMAIN decl', NEW o \in decl'[q].from
        PROVE  o < next' /\ q \in Spots(o)'
    <3>1. CASE q = k
      <4>1. o = next
        BY <1>3, <2>1, <3>1
      <4>2. q \in Spots(o)
        BY <1>2, <3>1, <4>1 DEF Spots
      <4>3. Spots(o)' = Spots(o)
        BY <1>0, OfConfigOnly
      <4> QED
        BY <1>0, <4>1, <4>2, <4>3 DEF TypeOK
    <3>2. CASE q # k
      <4>1. q \in DOMAIN decl /\ decl'[q] = decl[q]
        BY <1>1, <3>2, <2>1
      <4>2. o < next /\ q \in Spots(o) /\ o \in Nat
        BY <2>1, <4>1 DEF Tracked, InPlace, TypeOK, Declaration
      <4>3. Spots(o)' = Spots(o)
        BY <1>0, OfConfigOnly
      <4>4. next \in Nat
        BY DEF TypeOK
      <4> QED
        BY <1>0, <4>2, <4>3, <4>4
    <3> QED
      BY <3>1, <3>2
  <2> QED
    BY <2>1 DEF InPlace
<1>8. \A o \in DOMAIN config : o = next => Accounted(o)'
  BY <1>3 DEF Accounted
<1> QED
  BY <1>0, <1>6, <1>7, <1>8, Turn

PutPlaces(o, names) == {Place(config[o], n) : n \in names}

LEMMA PutEntries ==
    ASSUME NEW o, NEW names
    PROVE  /\ DOMAIN Put(o, names) = DOMAIN decl \cup PutPlaces(o, names)
           /\ \A k \in PutPlaces(o, names) : Put(o, names)[k].from = {o}
           /\ \A k \in DOMAIN decl \ PutPlaces(o, names) : Put(o, names)[k] = decl[k]
BY DEF Put, PutPlaces, Entry

(* An object that converts is returned under some name.                    *)
LEMMA SomethingReturned ==
    ASSUME NEW o \in DOMAIN config, config[o] \in Object, Converts(o), config[o].type # "plain"
    PROVE  Returned(o) # {}
<1>1. config[o].emits /\ config[o].ports \in Seq(Ports)
  BY DEF Converts, Object
<1>2. CASE Len(config[o].ports) > 1
  <2>1. config[o].ports[1] \in ToSet(config[o].ports)
    BY <1>1, <1>2 DEF ToSet
  <2>2. PortName[Profile(config[o])][config[o].ports[1]] \in Returned(o)
    BY <1>1, <1>2, <2>1 DEF Returned
  <2> QED
    BY <2>2
<1>3. CASE ~(Len(config[o].ports) > 1)
  BY <1>1, <1>3 DEF Returned
<1> QED
  BY <1>2, <1>3

LEMMA AttachAccount == TypeOK /\ Tracked /\ Attach => Tracked'
<1> SUFFICES ASSUME TypeOK, Tracked, Attach PROVE Tracked'
  OBVIOUS
<1> DEFINE names == IF config[next].type = "plain" THEN {Profile(config[next])}
                    ELSE Returned(next)
           new == PutPlaces(next, names)
           put == Put(next, names)
<1>0. /\ Converting /\ NextKey /\ errors' = errors
      /\ config' = config /\ next' = next + 1
      /\ config[next].type # "virtual-address"
      /\ next \in DOMAIN config /\ config[next] \in Object
      /\ warned' = warned \cup
                 (DOMAIN decl \cap {Place(config[next], n) : n \in Returned(next)})
  BY CurrentObject DEF Attach, Connecting, Placing, NextKey
<1>1. decl' = put
  BY DEF Attach
<1>2. PlacesOf(next) = new
  <2>1. CASE config[next].type = "plain"
    BY <2>1 DEF PlacesOf, PutPlaces
  <2>2. CASE config[next].type # "plain"
    BY <1>0, <2>2 DEF PlacesOf, PutPlaces
  <2> QED
    BY <2>1, <2>2
<1>3. config[next].type = "plain" \/ DOMAIN decl \cap new \subseteq warned'
  BY <1>0 DEF PutPlaces
<1>4. Converts(next) => new # {}
  <2>1. Converts(next) => names # {}
    BY <1>0, SomethingReturned
  <2> HIDE DEF names
  <2>2. names # {} => new # {}
    BY DEF PutPlaces
  <2> QED
    BY <2>1, <2>2
<1>5. /\ DOMAIN decl' = DOMAIN decl \cup new
      /\ \A k \in new : decl'[k].from = {next}
      /\ \A k \in DOMAIN decl \ new : decl'[k] = decl[k]
  <2> HIDE DEF names
  <2>1. /\ DOMAIN put = DOMAIN decl \cup new
        /\ \A k \in new : put[k].from = {next}
        /\ \A k \in DOMAIN decl \ new : put[k] = decl[k]
    BY PutEntries
  <2> HIDE DEF put, new
  <2> QED
    BY <1>1, <2>1
<1> HIDE DEF names, new, put
<1>6. ASSUME NEW k \in DOMAIN decl, NEW o \in decl[k].from PROVE Kept(o, k)
  <2>1. o # next
    BY <1>0, <1>6 DEF Tracked, InPlace, TypeOK
  <2>2. CASE k \in new /\ config[next].type = "plain"
    <3>1. PutsSilently(next, k)
      BY <1>2, <2>2 DEF PutsSilently
    <3> QED
      BY <1>0, <2>1, <3>1 DEF Kept
  <2>3. CASE k \in new /\ config[next].type # "plain"
    BY <1>3, <2>3 DEF Kept
  <2>4. CASE k \notin new
    BY <1>5, <1>6, <2>4 DEF Kept
  <2> QED
    BY <2>2, <2>3, <2>4
<1>7. InPlace'
  <2>1. ASSUME NEW k \in DOMAIN decl', NEW o \in decl'[k].from
        PROVE  o < next' /\ k \in Spots(o)'
    <3>0. Spots(o)' = Spots(o)
      BY <1>0, OfConfigOnly
    <3>1. CASE k \in new
      <4>1. o = next
        BY <1>5, <2>1, <3>1
      <4>2. k \in Spots(o)
        BY <1>2, <3>1, <4>1 DEF Spots
      <4> QED
        BY <1>0, <3>0, <4>1, <4>2 DEF TypeOK
    <3>2. CASE k \notin new
      <4>1. k \in DOMAIN decl /\ decl'[k] = decl[k]
        BY <1>5, <3>2, <2>1
      <4>2. o < next /\ k \in Spots(o) /\ o \in Nat
        BY <2>1, <4>1 DEF Tracked, InPlace, TypeOK, Declaration
      <4> QED
        BY <1>0, <3>0, <4>2 DEF TypeOK
    <3> QED
      BY <3>1, <3>2
  <2> QED
    BY <2>1 DEF InPlace
<1>8. \A o \in DOMAIN config : o = next /\ Converts(o) => Accounted(o)'
  BY <1>4, <1>5 DEF Accounted
<1> QED
  BY <1>0, <1>6, <1>7, <1>8, Turn

LEMMA MergeAccount == TypeOK /\ Tracked /\ Merge => Tracked'
<1> SUFFICES ASSUME TypeOK, Tracked, Merge PROVE Tracked'
  OBVIOUS
<1> DEFINE at == OriginalPlace(next)
           new == PutPlaces(next, Reassigned(next))
           put == Put(next, Reassigned(next))
           merged == [decl[at] EXCEPT
                        !.type = config[next].type,
                        !.from = @ \cup {next},
                        !.addr = IF @ = NoAddress THEN config[next].addr ELSE @,
                        !.https = config[next].https]
<1>0. /\ Converting /\ NextKey /\ errors' = errors /\ warned' = warned
      /\ config' = config /\ next' = next + 1
      /\ config[next].type # "virtual-address"
      /\ next \in DOMAIN config /\ config[next] \in Object
      /\ Profile(config[next]) \in DOMAIN Original /\ at \in DOMAIN decl
  BY CurrentObject DEF Merge, IsCopy, Connecting, Placing, NextKey
<1>1. decl' = [k \in DOMAIN put |-> IF k = at THEN merged ELSE put[k]]
  BY DEF Merge
<1>2. merged.from = decl[at].from \cup {next}
  <2>1. decl[at] \in Declaration
    BY <1>0 DEF TypeOK
  <2> QED
    BY <2>1 DEF Declaration
<1>3. at \in Spots(next)
  BY <1>0 DEF Spots, MergedPlaces
<1>4. \A k \in new : PutsSilently(next, k)
  BY <1>0 DEF PutPlaces, PutsSilently
<1>5. new \subseteq Spots(next)
  <2>1. CASE config[next].type = "plain"
    <3>1. config[next].extras = {}
      BY <1>0, <2>1, ConfigsAssumption DEF Tracked
    <3>2. Returned(next) = {}
      BY <2>1, <3>1 DEF Returned
    <3> QED
      BY <3>2 DEF PutPlaces, Reassigned
  <2>2. CASE config[next].type # "plain"
    <3>1. PlacesOf(next) = {Place(config[next], n) : n \in Returned(next)}
      BY <1>0, <2>2 DEF PlacesOf
    <3> QED
      BY <3>1 DEF PutPlaces, Reassigned, Spots
  <2> QED
    BY <2>1, <2>2
<1>6. /\ DOMAIN put = DOMAIN decl \cup new
      /\ \A k \in new : put[k].from = {next}
      /\ \A k \in DOMAIN decl \ new : put[k] = decl[k]
  BY PutEntries
<1> HIDE DEF new, put, merged, at
<1>7. /\ DOMAIN decl' = DOMAIN decl \cup new
      /\ decl'[at].from = decl[at].from \cup {next}
      /\ \A k \in new : k # at => decl'[k].from = {next}
      /\ \A k \in DOMAIN decl \ new : k # at => decl'[k] = decl[k]
  BY <1>0, <1>1, <1>2, <1>6
<1>8. ASSUME NEW k \in DOMAIN decl, NEW o \in decl[k].from PROVE Kept(o, k)
  <2>1. o # next
    BY <1>8 DEF Tracked, InPlace, TypeOK
  <2>2. CASE k = at
    BY <1>0, <1>7, <1>8, <2>2 DEF Kept
  <2>3. CASE k \in new
    BY <1>0, <1>4, <2>1, <2>3 DEF Kept
  <2>4. CASE k \notin new /\ k # at
    BY <1>7, <1>8, <2>4 DEF Kept
  <2> QED
    BY <2>2, <2>3, <2>4
<1>9. InPlace'
  <2>1. ASSUME NEW k \in DOMAIN decl', NEW o \in decl'[k].from
        PROVE  o < next' /\ k \in Spots(o)'
    <3>0. Spots(o)' = Spots(o)
      BY <1>0, OfConfigOnly
    <3>1. CASE o = next
      <4>1. k \in Spots(o)
        <5>1. CASE k = at \/ k \in new
          BY <1>3, <1>5, <3>1, <5>1
        <5>2. CASE k # at /\ k \notin new
          BY <1>7, <2>1, <5>2 DEF Tracked, InPlace
        <5> QED
          BY <5>1, <5>2
      <4> QED
        BY <1>0, <3>0, <3>1, <4>1 DEF TypeOK
    <3>2. CASE o # next
      <4>1. k \in DOMAIN decl /\ o \in decl[k].from
        BY <1>0, <1>7, <2>1, <3>2
      <4>2. o < next /\ k \in Spots(o) /\ o \in Nat
        BY <4>1 DEF Tracked, InPlace, TypeOK, Declaration
      <4> QED
        BY <1>0, <3>0, <4>2 DEF TypeOK
    <3> QED
      BY <3>1, <3>2
  <2> QED
    BY <2>1 DEF InPlace
<1>10. \A o \in DOMAIN config : o = next /\ Converts(o) => Accounted(o)'
  BY <1>0, <1>7 DEF Accounted
<1> QED
  BY <1>0, <1>8, <1>9, <1>10, Turn

(* After the loop: no object has a turn any more.                          *)
LEMMA AfterLoop ==
    ASSUME Tracked, config' = config, next' = next, pc' # "loop" => next > Len(config),
           errors' = errors, removed \subseteq removed', warned' = warned,
           DOMAIN decl' \subseteq DOMAIN decl,
           \A k \in DOMAIN decl' : decl'[k].from = decl[k].from,
           \A k \in DOMAIN decl : \A o \in decl[k].from : Kept(o, k)
    PROVE  Tracked'
<1>1. InPlace'
  <2>1. ASSUME NEW k \in DOMAIN decl', NEW o \in decl'[k].from
        PROVE  o < next' /\ k \in Spots(o)'
    <3>1. Spots(o)' = Spots(o)
      BY OfConfigOnly
    <3> QED
      BY <2>1, <3>1 DEF Tracked, InPlace
  <2> QED
    BY <2>1 DEF InPlace
<1>2. AllAccounted'
  <2>1. ASSUME NEW o \in DOMAIN config', o < next', (Converts(o))' PROVE Accounted(o)'
    <3>1. Accounted(o)
      BY <2>1, OfConfigOnly DEF Tracked, AllAccounted
    <3> QED
      BY <3>1, AccountKept DEF Tracked
  <2> QED
    BY <2>1 DEF AllAccounted
<1> QED
  BY <1>1, <1>2 DEF Tracked

LEMMA UnchangedAccount ==
    ASSUME Tracked, config' = config, next' = next, pc' # "loop" => next > Len(config),
           errors' = errors, removed' = removed, warned' = warned, decl' = decl
    PROVE  Tracked'
<1>1. \A k \in DOMAIN decl : \A o \in decl[k].from : Kept(o, k)
  BY DEF Kept
<1> QED
  BY <1>1, AfterLoop

LEMMA CleanAccount == TypeOK /\ Tracked /\ CleanRedirect => Tracked'
<1> SUFFICES ASSUME TypeOK, Tracked, CleanRedirect PROVE Tracked'
  OBVIOUS
<1> DEFINE r == Head(redirects)
           gone == IF HttpsTwins(r) = {} THEN {}
                   ELSE {Place(config[r], Profile(config[r]))} \cap DOMAIN decl
           marked == [k \in DOMAIN decl |->
                        IF k \in HttpsTwins(r) THEN [decl[k] EXCEPT !.redirect80 = TRUE]
                        ELSE decl[k]]
<1>1. decl' = WithoutPlaces(marked, gone)
  BY DEF CleanRedirect
<1>2. removed' = removed \cup UNION {decl[k].from : k \in gone}
  BY DEF CleanRedirect
<1>3. \A k \in DOMAIN decl : marked[k].from = decl[k].from
  <2>1. \A k \in DOMAIN decl : decl[k] \in Declaration
    BY DEF TypeOK
  <2> QED
    BY <2>1 DEF Declaration
<1>4. DOMAIN marked = DOMAIN decl
  OBVIOUS
<1> HIDE DEF gone, marked
<1>5. /\ DOMAIN decl' = DOMAIN decl \ gone
      /\ \A k \in DOMAIN decl' : decl'[k].from = decl[k].from
  BY <1>1, <1>3, <1>4 DEF WithoutPlaces
<1>6. ASSUME NEW k \in DOMAIN decl, NEW o \in decl[k].from PROVE Kept(o, k)
  <2>1. CASE k \in gone
    BY <1>2, <1>6, <2>1 DEF Kept
  <2>2. CASE k \notin gone
    BY <1>5, <1>6, <2>2 DEF Kept
  <2> QED
    BY <2>1, <2>2
<1>7. /\ config' = config /\ next' = next /\ errors' = errors /\ warned' = warned
      /\ pc' = pc /\ removed \subseteq removed'
  BY <1>2 DEF CleanRedirect
<1>8. pc' # "loop" => next > Len(config)
  BY <1>7 DEF Tracked
<1> QED
  BY <1>5, <1>6, <1>7, <1>8, AfterLoop

LEMMA TrackedStep == TypeOK /\ Tracked /\ [Next]_vars => Tracked'
<1> SUFFICES ASSUME TypeOK, Tracked, [Next]_vars PROVE Tracked'
  OBVIOUS
<1>1. CASE ReportUnsupported \/ FailInEngine \/ Ignore \/ SkipAddress \/ FailInCustomMap
  BY <1>1, QuietAccount
<1>2. CASE AttachAddress
  BY <1>2, AddressAccount
<1>3. CASE Merge
  BY <1>3, MergeAccount
<1>4. CASE Attach
  BY <1>4, AttachAccount
<1>5. CASE RemoveCommon
  BY <1>5, UnchangedAccount DEF RemoveCommon
<1>6. CASE CleanRedirect
  BY <1>6, CleanAccount
<1>7. CASE Abort \/ Return
  <2>1. pc # "loop"
    BY <1>7 DEF Abort, Return
  <2>2. next > Len(config)
    BY <2>1 DEF Tracked
  <2> QED
    BY <1>7, <2>2, UnchangedAccount DEF Abort, Return
<1>8. CASE UNCHANGED vars
  <2>1. pc' # "loop" => next > Len(config)
    BY <1>8 DEF vars, Tracked
  <2> QED
    BY <1>8, <2>1, UnchangedAccount DEF vars
<1> QED
  BY <1>1, <1>2, <1>3, <1>4, <1>5, <1>6, <1>7, <1>8 DEF Next

(* Every object with a mapping is in the declaration that is returned, was *)
(* logged as an error, made way for an HTTPS service that redirects, or    *)
(* lost its place to another object, with a warning or to one of the kinds *)
(* that are put without, whatever the configuration.                       *)
THEOREM Completeness == Spec => []NothingVanishes
<1>1. Init => Tracked
  <2> SUFFICES ASSUME Init PROVE Tracked
    OBVIOUS
  <2>1. config \in Seq(Object)
    BY ConfigsAssumption DEF Init
  <2> QED
    BY <2>1 DEF Init, Tracked, InPlace, AllAccounted
<1>2. TypeOK /\ Tracked => NothingVanishes
  <2> SUFFICES ASSUME TypeOK, Tracked, pc = "done",
                      NEW o \in DOMAIN config, Converts(o)
               PROVE  Accounted(o)
    BY DEF NothingVanishes, Accounted, Spots
  <2>1. o < next
    BY DEF Tracked, TypeOK
  <2> QED
    BY <2>1 DEF Tracked, AllAccounted
<1> QED
  BY <1>1, <1>2, TrackedStep, TypeCorrect, PTL DEF Spec
-----------------------------------------------------------------------------
(* The clean-up of redirects.                                              *)
LoopLeavesAlone ==
    pc = "loop" => removed = {} /\ \A k \in DOMAIN decl : ~decl[k].redirect80

NotedRedirects == \A n \in DOMAIN redirects : redirects[n] \in Redirectors

HttpsByVirtual ==
    \A k \in DOMAIN decl : decl[k].https => \E u \in decl[k].from : config[u].https

(* An HTTPS service redirects for r, or such a service is gone itself.     *)
Replaced(r) ==
    \/ \E k \in DOMAIN decl :
           decl[k].redirect80 /\ <<decl[k].addr, config[r].addr>> \in Includes
    \/ \E u \in removed : config[u].https

RemovedReplaced ==
    \A o \in removed : \E r \in Redirectors : OwnPlace(r) \in Spots(o) /\ Replaced(r)

RedirectsOfHttps ==
    \A k \in DOMAIN decl : decl[k].redirect80 =>
        /\ decl[k].https
        /\ \E r \in Redirectors : <<decl[k].addr, config[r].addr>> \in Includes

Paired == /\ LoopLeavesAlone
          /\ NotedRedirects
          /\ HttpsByVirtual
          /\ RemovedReplaced
          /\ RedirectsOfHttps

LEMMA SameRedirectors ==
    ASSUME config' = config
    PROVE  Redirectors' = Redirectors /\ \A r : OwnPlace(r)' = OwnPlace(r)
<1>1. Virtuals' = Virtuals
  BY DEF Virtuals
<1> QED
  BY <1>1 DEF Redirectors, OwnPlace

(* A turn of the loop takes nothing away and lets nothing redirect.        *)
LEMMA TurnPaired ==
    ASSUME Paired, pc = "loop", config' = config, removed' = removed, NotedRedirects',
           HttpsByVirtual', \A k \in DOMAIN decl' : ~decl'[k].redirect80
    PROVE  Paired'
<1>1. removed' = {}
  BY DEF Paired, LoopLeavesAlone
<1> QED
  BY <1>1 DEF Paired, LoopLeavesAlone, RemovedReplaced, RedirectsOfHttps

(* What is declared for an object says whether the object is HTTPS.        *)
LEMMA PutPaired ==
    ASSUME Paired, pc = "loop", NEW o, NEW names
    PROVE  LET put == Put(o, names)
           IN  \A k \in DOMAIN put : /\ ~put[k].redirect80
                                     /\ put[k].https => \E u \in put[k].from : config[u].https
<1> DEFINE put == Put(o, names)
<1>1. \A k \in PutPlaces(o, names) :
          /\ put[k].redirect80 = FALSE /\ put[k].from = {o}
          /\ put[k].https = config[o].https
  BY DEF Put, PutPlaces, Entry
<1>2. /\ DOMAIN put = DOMAIN decl \cup PutPlaces(o, names)
      /\ \A k \in DOMAIN decl \ PutPlaces(o, names) : put[k] = decl[k]
  BY PutEntries
<1> HIDE DEF put
<1>3. ASSUME NEW k \in DOMAIN put
      PROVE  ~put[k].redirect80 /\ (put[k].https => \E u \in put[k].from : config[u].https)
  <2>1. CASE k \in PutPlaces(o, names)
    BY <1>1, <2>1
  <2>2. CASE k \notin PutPlaces(o, names)
    BY <1>2, <2>2 DEF Paired, LoopLeavesAlone, HttpsByVirtual
  <2> QED
    BY <2>1, <2>2
<1> QED
  BY <1>3 DEF put

(* Only a virtual that redirects is noted.                                 *)
LEMMA ConnectingPaired ==
    ASSUME TypeOK, Tracked, Paired, Connecting
    PROVE  NotedRedirects' /\ pc = "loop" /\ config' = config /\ removed' = removed
<1>1. /\ next \in DOMAIN config /\ config' = config /\ removed' = removed
      /\ redirects \in Seq(DOMAIN config) /\ pc = "loop"
  BY ConnectingTypes DEF TypeOK, Connecting, Placing, Converting
<1>2. config[next].redirect => next \in Redirectors
  BY <1>1, ConfigsAssumption DEF Tracked, Redirectors, Virtuals
<1>3. CASE config[next].redirect
  <2>1. redirects' = Append(redirects, next)
    BY <1>3 DEF Connecting
  <2>2. \A n \in DOMAIN redirects' :
            redirects'[n] = next \/ (n \in DOMAIN redirects /\ redirects'[n] = redirects[n])
    BY <1>1, <2>1
  <2>3. \A n \in DOMAIN redirects' : redirects'[n] \in Redirectors
    BY <1>2, <1>3, <2>2 DEF Paired, NotedRedirects
  <2> QED
    BY <1>1, <2>3, SameRedirectors DEF NotedRedirects
<1>4. CASE ~config[next].redirect
  <2>1. redirects' = redirects
    BY <1>4 DEF Connecting
  <2> QED
    BY <1>1, <2>1, SameRedirectors DEF Paired, NotedRedirects
<1> QED
  BY <1>1, <1>3, <1>4

LEMMA AttachPaired ==
    ASSUME TypeOK, Tracked, Paired, Attach
    PROVE  Paired'
<1>1. NotedRedirects' /\ pc = "loop" /\ config' = config /\ removed' = removed
  BY ConnectingPaired DEF Attach
<1>2. PICK names : decl' = Put(next, names)
  BY DEF Attach
<1>3. \A k \in DOMAIN decl' : /\ ~decl'[k].redirect80
                              /\ decl'[k].https => \E u \in decl'[k].from : config[u].https
  BY <1>1, <1>2, PutPaired
<1> QED
  BY <1>1, <1>3, TurnPaired DEF HttpsByVirtual

LEMMA AddressPaired ==
    ASSUME TypeOK, Tracked, Paired, AttachAddress
    PROVE  Paired'
<1> DEFINE k == <<Tenant(config[next]), Shared, Profile(config[next])>>
<1>1. /\ pc = "loop" /\ config' = config /\ removed' = removed /\ redirects' = redirects
      /\ decl' = [p \in DOMAIN decl \cup {k} |->
                      IF p = k THEN Entry(next, NoPort) ELSE decl[p]]
  BY DEF AttachAddress, Placing, Converting, NextKey
<1> HIDE DEF k
<1>2. /\ decl'[k].redirect80 = FALSE /\ decl'[k].https = config[next].https
      /\ decl'[k].from = {next}
  BY <1>1 DEF Entry
<1>3. \A p \in DOMAIN decl' : p # k => p \in DOMAIN decl /\ decl'[p] = decl[p]
  BY <1>1
<1>4. ASSUME NEW p \in DOMAIN decl'
      PROVE  /\ ~decl'[p].redirect80
             /\ decl'[p].https => \E u \in decl'[p].from : config[u].https
  BY <1>1, <1>2, <1>3 DEF Paired, LoopLeavesAlone, HttpsByVirtual
<1>5. NotedRedirects'
  BY <1>1, SameRedirectors DEF Paired, NotedRedirects
<1> QED
  BY <1>1, <1>4, <1>5, TurnPaired DEF HttpsByVirtual

LEMMA MergePaired ==
    ASSUME TypeOK, Tracked, Paired, Merge
    PROVE  Paired'
<1> DEFINE at == OriginalPlace(next)
           put == Put(next, Reassigned(next))
           merged == [decl[at] EXCEPT
                        !.type = config[next].type,
                        !.from = @ \cup {next},
                        !.addr = IF @ = NoAddress THEN config[next].addr ELSE @,
                        !.https = config[next].https]
<1>1. NotedRedirects' /\ pc = "loop" /\ config' = config /\ removed' = removed
  BY ConnectingPaired DEF Merge
<1>2. at \in DOMAIN decl /\ decl[at] \in Declaration
  BY DEF Merge, IsCopy, TypeOK
<1>3. /\ merged.redirect80 = decl[at].redirect80 /\ merged.https = config[next].https
      /\ next \in merged.from
  BY <1>2 DEF Declaration
<1>4. \A k \in DOMAIN put : /\ ~put[k].redirect80
                            /\ put[k].https => \E u \in put[k].from : config[u].https
  BY <1>1, PutPaired
<1>5. decl' = [k \in DOMAIN put |-> IF k = at THEN merged ELSE put[k]]
  BY DEF Merge
<1> HIDE DEF put, merged, at
<1>6. ASSUME NEW k \in DOMAIN decl'
      PROVE  /\ ~decl'[k].redirect80
             /\ decl'[k].https => \E u \in decl'[k].from : config[u].https
  <2>1. CASE k = at
    BY <1>1, <1>2, <1>3, <1>5, <2>1 DEF Paired, LoopLeavesAlone
  <2>2. CASE k # at
    BY <1>4, <1>5, <2>2
  <2> QED
    BY <2>1, <2>2
<1> QED
  BY <1>1, <1>6, TurnPaired DEF HttpsByVirtual

LEMMA CleanPaired ==
    ASSUME TypeOK, Tracked, Paired, CleanRedirect
    PROVE  Paired'
<1>0. PICK r : r = Head(redirects)
  OBVIOUS
<1> DEFINE gone == IF HttpsTwins(r) = {} THEN {}
                   ELSE {Place(config[r], Profile(config[r]))} \cap DOMAIN decl
           marked == [k \in DOMAIN decl |->
                        IF k \in HttpsTwins(r) THEN [decl[k] EXCEPT !.redirect80 = TRUE]
                        ELSE decl[k]]
<1>1. /\ decl' = WithoutPlaces(marked, gone)
      /\ removed' = removed \cup UNION {decl[k].from : k \in gone}
      /\ redirects' = Tail(redirects) /\ redirects # << >>
      /\ config' = config /\ pc = "redirects" /\ pc' = pc
  BY <1>0 DEF CleanRedirect
<1>2. r \in Redirectors /\ NotedRedirects'
  <2>1. redirects \in Seq(DOMAIN config)
    BY DEF TypeOK
  <2>2. /\ 1 \in DOMAIN redirects /\ r = redirects[1]
        /\ \A n \in DOMAIN redirects' :
               n + 1 \in DOMAIN redirects /\ redirects'[n] = redirects[n + 1]
    BY <1>0, <1>1, <2>1
  <2> QED
    BY <1>1, <2>2, SameRedirectors DEF Paired, NotedRedirects
<1>3. ASSUME NEW k \in DOMAIN decl
      PROVE  /\ marked[k].from = decl[k].from /\ marked[k].addr = decl[k].addr
             /\ marked[k].https = decl[k].https
             /\ marked[k].redirect80 <=> decl[k].redirect80 \/ k \in HttpsTwins(r)
  <2>1. decl[k] \in Declaration
    BY DEF TypeOK
  <2> QED
    BY <2>1 DEF Declaration
<1>4. /\ gone \subseteq DOMAIN decl /\ DOMAIN marked = DOMAIN decl
      /\ gone # {} => HttpsTwins(r) # {} /\ gone = {OwnPlace(r)}
  BY DEF OwnPlace
<1>5. \A k \in HttpsTwins(r) : /\ k \in DOMAIN decl /\ decl[k].https
                               /\ <<decl[k].addr, config[r].addr>> \in Includes
  BY DEF HttpsTwins
<1> HIDE DEF gone, marked
<1>6. /\ DOMAIN decl' = DOMAIN decl \ gone
      /\ \A k \in DOMAIN decl' : decl'[k] = marked[k]
  BY <1>1, <1>4 DEF WithoutPlaces
(* A service that redirects is left, or its HTTPS virtual is gone.         *)
<1>7. ASSUME NEW k \in DOMAIN decl, decl[k].redirect80 \/ k \in HttpsTwins(r),
             NEW q, <<decl[k].addr, config[q].addr>> \in Includes
      PROVE  Replaced(q)'
  <2>1. CASE k \in gone
    <3>1. decl[k].https
      BY <1>5, <1>7 DEF Paired, RedirectsOfHttps
    <3>2. PICK u \in decl[k].from : config[u].https
      BY <3>1 DEF Paired, HttpsByVirtual
    <3>3. u \in removed'
      BY <1>1, <2>1, <3>2
    <3> QED
      BY <1>1, <3>2, <3>3 DEF Replaced
  <2>2. CASE k \notin gone
    <3>1. k \in DOMAIN decl' /\ decl'[k].redirect80 /\ decl'[k].addr = decl[k].addr
      BY <1>3, <1>6, <1>7, <2>2
    <3> QED
      BY <1>1, <1>7, <3>1 DEF Replaced
  <2> QED
    BY <2>1, <2>2
<1>8. \A q : Replaced(q) => Replaced(q)'
  <2>1. ASSUME NEW q, NEW u \in removed, config[u].https PROVE Replaced(q)'
    BY <1>1, <2>1 DEF Replaced
  <2> QED
    BY <1>7, <2>1 DEF Replaced
<1>9. RemovedReplaced'
  <2>1. ASSUME NEW o \in removed
        PROVE  \E q \in Redirectors : OwnPlace(q) \in Spots(o) /\ Replaced(q)'
    BY <1>8 DEF Paired, RemovedReplaced
  <2>2. ASSUME NEW k \in gone, NEW o \in decl[k].from
        PROVE  \E q \in Redirectors : OwnPlace(q) \in Spots(o) /\ Replaced(q)'
    <3>1. k = OwnPlace(r) /\ HttpsTwins(r) # {} /\ k \in DOMAIN decl
      BY <1>4, <2>2
    <3>2. k \in Spots(o)
      BY <2>2, <3>1 DEF Tracked, InPlace
    <3>3. Replaced(r)'
      BY <1>5, <1>7, <3>1
    <3> QED
      BY <1>2, <3>1, <3>2, <3>3
  <2>3. \A o \in removed' : o \in removed \/ \E k \in gone : o \in decl[k].from
    BY <1>1
  <2>4. \A o \in removed' :
            \E q \in Redirectors : OwnPlace(q) \in Spots(o) /\ Replaced(q)'
    BY <2>1, <2>2, <2>3
  <2> QED
    BY <1>1, <2>4, SameRedirectors, OfConfigOnly DEF RemovedReplaced
<1>10. RedirectsOfHttps'
  <2>1. ASSUME NEW k \in DOMAIN decl', decl'[k].redirect80
        PROVE  /\ decl'[k].https
               /\ \E q \in Redirectors : <<decl'[k].addr, config[q].addr>> \in Includes
    <3>1. k \in DOMAIN decl /\ decl'[k] = marked[k]
      BY <1>6
    <3>2. decl[k].redirect80 \/ k \in HttpsTwins(r)
      BY <1>3, <2>1, <3>1
    <3>3. decl[k].https /\ \E q \in Redirectors : <<decl[k].addr, config[q].addr>> \in Includes
      BY <1>2, <1>5, <3>2, <3>1 DEF Paired, RedirectsOfHttps
    <3> QED
      BY <1>3, <3>1, <3>3
  <2> QED
    BY <1>1, <2>1, SameRedirectors DEF RedirectsOfHttps
<1>11. HttpsByVirtual'
  BY <1>1, <1>3, <1>6 DEF Paired, HttpsByVirtual
<1> QED
  BY <1>1, <1>2, <1>9, <1>10, <1>11 DEF Paired, LoopLeavesAlone

(* What leaves the declaration alone leaves the pairs alone.               *)
LEMMA QuietPaired ==
    ASSUME Paired, config' = config, decl' = decl, redirects' = redirects,
           removed' = removed, pc' = "loop" => pc = "loop"
    PROVE  Paired'
<1>1. Redirectors' = Redirectors /\ (\A r : OwnPlace(r)' = OwnPlace(r))
  BY SameRedirectors
<1>2. \A o : Spots(o)' = Spots(o)
  BY OfConfigOnly
<1>3. \A r : Replaced(r)' <=> Replaced(r)
  BY DEF Replaced
<1>4. LoopLeavesAlone' /\ NotedRedirects' /\ HttpsByVirtual'
  BY <1>1 DEF Paired, LoopLeavesAlone, NotedRedirects, HttpsByVirtual
<1>5. RemovedReplaced' /\ RedirectsOfHttps'
  BY <1>1, <1>2, <1>3 DEF Paired, RemovedReplaced, RedirectsOfHttps
<1> QED
  BY <1>4, <1>5 DEF Paired

LEMMA PairedStep == TypeOK /\ Tracked /\ Paired /\ [Next]_vars => Paired'
<1> SUFFICES ASSUME TypeOK, Tracked, Paired, [Next]_vars PROVE Paired'
  OBVIOUS
<1>1. CASE ReportUnsupported \/ FailInEngine \/ Ignore \/ SkipAddress \/ FailInCustomMap
  <2>1. /\ config' = config /\ decl' = decl /\ redirects' = redirects
        /\ removed' = removed /\ pc' = pc
    BY <1>1 DEF ReportUnsupported, FailInEngine, Ignore, SkipAddress, FailInCustomMap,
                Placing, NextKey
  <2> QED
    BY <2>1, QuietPaired
<1>2. CASE AttachAddress
  BY <1>2, AddressPaired
<1>3. CASE Merge
  BY <1>3, MergePaired
<1>4. CASE Attach
  BY <1>4, AttachPaired
<1>5. CASE RemoveCommon
  BY <1>5, QuietPaired DEF RemoveCommon
<1>6. CASE CleanRedirect
  BY <1>6, CleanPaired
<1>7. CASE Abort \/ Return
  BY <1>7, QuietPaired DEF Abort, Return
<1>8. CASE UNCHANGED vars
  BY <1>8, QuietPaired DEF vars
<1> QED
  BY <1>1, <1>2, <1>3, <1>4, <1>5, <1>6, <1>7, <1>8 DEF Next

(* The clean-up takes away only what stands at the place of a redirecting  *)
(* virtual for which an HTTPS service redirects, unless such a service is  *)
(* taken away as well; and only HTTPS services at the address of one       *)
(* redirect, whatever the configuration and whatever includes what.        *)
THEOREM RedirectsGoInPairs == Spec => []RedirectsPaired
<1>1. Init => Tracked
  <2> SUFFICES ASSUME Init PROVE Tracked
    OBVIOUS
  <2>1. config \in Seq(Object)
    BY ConfigsAssumption DEF Init
  <2> QED
    BY <2>1 DEF Init, Tracked, InPlace, AllAccounted
<1>2. Init => Paired
  BY DEF Init, Paired, LoopLeavesAlone, NotedRedirects, HttpsByVirtual, RemovedReplaced,
         RedirectsOfHttps
<1>3. Paired => RedirectsPaired
  BY DEF Paired, RemovedReplaced, RedirectsOfHttps, Replaced, Spots, RedirectsPaired
<1> QED
  BY <1>1, <1>2, <1>3, TrackedStep, PairedStep, TypeCorrect, PTL DEF Spec
=============================================================================
