------------------------ MODULE DeclarationDefaults -------------------------
(***************************************************************************)
(* What main does last with a declaration: it removes the values that AS3  *)
(* or DO would put in anyway (src/src/postConverter/removeDefaultValues-   *)
(* AS3.js, removeDefaultValuesDO.js) and counts what there is              *)
(* (src/src/lib/declarationStats.js).                                      *)
(*                                                                         *)
(* A declaration is a function from the paths of its objects, tenants and  *)
(* applications included, to their class and their properties.  A value is *)
(* a text, a list of texts or a pointer to an object every BIG-IP has.     *)
(***************************************************************************)
EXTENDS Naturals, Sequences, SequencesExt, FiniteSets

CONSTANTS
    Schema,         \* AS3: definition -> the definitions it extends (allOf)
                    \* and property -> where its default is
    DoSchema        \* DO: a sequence of classes with property -> default

Text(v) == [is |-> "text", of |-> <<v>>]
List(s) == [is |-> "list", of |-> s]
Bigip(p) == [is |-> "bigip", of |-> <<p>>]

(* A definition gives a property a default, or an 'if' whose branches      *)
(* refer to other definitions ("" when they do not), or neither.           *)
Own(v) == [own |-> {v}, then |-> "", else |-> ""]
Neither == [own |-> {}, then |-> "", else |-> ""]
Through(then, else) == [own |-> {}, then |-> then, else |-> else]
Extending(parents, props) == [parents |-> parents, props |-> props]

Object(class, props) == [class |-> class, props |-> props]
Containers == {"Tenant", "Application"}

DefaultProfilesPerService ==
    [Service_Forwarding |-> [profileL4 |-> "fastL4"],
     Service_Generic    |-> [profileIPOther |-> "ipother"],
     Service_HTTP       |-> [profileTCP |-> "f5-tcp-progressive", profileHTTP |-> "http"],
     Service_HTTPS      |-> [profileTCP |-> "f5-tcp-progressive", profileHTTP |-> "http"],
     Service_L4         |-> [profileL4 |-> "fastL4"],
     Service_SCTP       |-> [profileSCTP |-> "sctp"],
     Service_TCP        |-> [profileTCP |-> "f5-tcp-progressive"],
     Service_UDP        |-> [profileUDP |-> "udp"]]
-----------------------------------------------------------------------------
(* What the schema says of a property in one definition.                   *)
Entry(class, prop) ==
    IF class \in DOMAIN Schema /\ prop \in DOMAIN Schema[class].props
    THEN Schema[class].props[prop] ELSE Neither

(* Slips one could make in the definitions below, for the mutation runs.   *)
DefaultOfAnyLevel(class, prop) ==
    LET levels[c \in DOMAIN Schema] ==
            {c} \cup UNION {levels[p] : p \in Range(Schema[c].parents)}
    IN  UNION {Entry(c, prop).own : c \in {class} \cup UNION {levels[d] : d \in {class} \cap DOMAIN Schema}}
-----------------------------------------------------------------------------
(* The default of a property, as a set of at most one value: that of the   *)
(* first branch which refers to another definition, if it has none itself. *)
(* What the class extends is not looked at.                                *)
FindSchemaDefault(class, prop) ==
    LET entry == Entry(class, prop)
        branch == IF entry.then # "" THEN entry.then ELSE entry.else
    IN  IF entry.own # {} THEN entry.own ELSE Entry(branch, prop).own

(* Lists are compared element by element, but objects by identity.         *)
IsDefault(v, default) ==
    v = default /\ v.is # "bigip"

MatchDefaults(o) ==
    [o EXCEPT !.props = [p \in {q \in DOMAIN o.props :
                                   \A d \in FindSchemaDefault(o.class, q) : ~ IsDefault(o.props[q], d)} |->
                            o.props[p]]]

(* Profiles every BIG-IP has and the service would get.                    *)
DefaultProfile(class, prop) ==
    IF class \in DOMAIN DefaultProfilesPerService /\ prop \in DOMAIN DefaultProfilesPerService[class]
    THEN {Bigip(DefaultProfilesPerService[class][prop])} ELSE {}

RemoveDefaultProfiles(o) ==
    [o EXCEPT !.props = [p \in {q \in DOMAIN o.props : o.props[q] \notin DefaultProfile(o.class, q)} |->
                            o.props[p]]]

(* The walk goes through tenants and applications only, and leaves these   *)
(* as they are.                                                            *)
IsWalked(decl, p) ==
    /\ decl[p].class \notin Containers
    /\ \A n \in 1..(Len(p) - 1) : decl[SubSeq(p, 1, n)].class \in Containers

As3WithoutDefaults(decl) ==
    [p \in DOMAIN decl |->
        IF IsWalked(decl, p) THEN RemoveDefaultProfiles(MatchDefaults(decl[p])) ELSE decl[p]]

(* DO's are compared as they are: a list is never the default.             *)
DoWithoutDefaults(objects) ==
    LET IsDoDefault(o, p) ==
            \E k \in DOMAIN DoSchema :
                /\ DoSchema[k].class = o.class /\ p \in DOMAIN DoSchema[k].props
                /\ o.props[p] = DoSchema[k].props[p] /\ o.props[p].is = "text"
    IN  [n \in DOMAIN objects |->
            [objects[n] EXCEPT !.props = [p \in {q \in DOMAIN @ : ~ IsDoDefault(objects[n], q)} |-> @[p]]]]
-----------------------------------------------------------------------------
(* declarationStats: the objects in an application of a tenant.            *)
Counted(decl) ==
    {p \in DOMAIN decl : /\ Len(p) = 3
                         /\ decl[SubSeq(p, 1, 1)].class = "Tenant"
                         /\ decl[SubSeq(p, 1, 2)].class = "Application"}

DeclarationStats(decl) ==
    LET classes == {decl[p].class : p \in Counted(decl)}
    IN  [total   |-> Cardinality(Counted(decl)),
         objects |-> Counted(decl),
         classes |-> [c \in classes |-> Cardinality({p \in Counted(decl) : decl[p].class = c})]]
-----------------------------------------------------------------------------
(* The reference: what AS3 and DO read.  Where a property is missing,      *)
(* their validation (AJV with useDefaults) puts in the default the         *)
(* definition gives it or else the first one of those it extends.  A       *)
(* branch of a property's own 'if' is about the value and is not applied   *)
(* where there is none.                                                    *)
SchemaDefault(class, prop) ==
    LET default[c \in DOMAIN Schema] ==
            LET from == SelectSeq(Schema[c].parents, LAMBDA p : default[p] # {})
            IN  CASE Entry(c, prop).own # {} -> Entry(c, prop).own
                  [] Entry(c, prop).own = {} /\ from # <<>> -> default[from[1]]
                  [] OTHER -> {}
    IN  IF class \in DOMAIN Schema THEN default[class] ELSE {}

(* External: the profiles that AS3's words stand for.                      *)
BuiltIn == [profileTCP  |-> [normal |-> "f5-tcp-progressive"],
            profileUDP  |-> [normal |-> "udp"],
            profileHTTP |-> [basic |-> "http"],
            profileL4   |-> [basic |-> "fastL4"]]

Meant(prop, v) ==
    IF v.is = "text" /\ prop \in DOMAIN BuiltIn /\ v.of[1] \in DOMAIN BuiltIn[prop]
    THEN Bigip(BuiltIn[prop][v.of[1]]) ELSE v

As3Reads(o, prop) ==
    {Meant(prop, v) : v \in IF prop \in DOMAIN o.props THEN {o.props[prop]}
                            ELSE SchemaDefault(o.class, prop)}

DoReads(o, prop) ==
    LET items == SelectSeq(DoSchema, LAMBDA item : item.class = o.class /\ prop \in DOMAIN item.props)
    IN  CASE prop \in DOMAIN o.props -> {o.props[prop]}
          [] prop \notin DOMAIN o.props /\ items # <<>> -> {items[1].props[prop]}
          [] OTHER -> {}

(* Default profiles for which the schema has no default: AS3's schema does *)
(* not say that they come back.                                            *)
Unsaid(class) ==
    CASE class = "Service_Forwarding" -> {"profileL4"}
      [] class = "Service_SCTP" -> {"profileSCTP"}
      [] OTHER -> {}
=============================================================================
