---------------------------- MODULE As3Conversion ----------------------------
(***************************************************************************)
(* The conversion of src/src/engines/as3Converter.js (lines 293-527): the  *)
(* loop that places every object of a prepared configuration in a tenant   *)
(* and an application of the declaration, and the clean-up of redirecting  *)
(* virtual servers after it.                                               *)
(*                                                                         *)
(* Of an object the model keeps what decides where it ends up; where the   *)
(* references to it lead is the subject of References.  Which properties   *)
(* convertEngine and the custom maps give it is left out, but for their    *)
(* failing; so is certificate_default, which is the same whoever adds it,  *)
(* and the clean-up for AS3 Next.  The check for an application called     *)
(* ServiceDiscovery in Common (458) is never true: relocation has made the *)
(* application Shared by then.                                             *)
(***************************************************************************)
EXTENDS Naturals, Sequences, SequencesExt

CONSTANTS
    Names,          \* path segments
    Common, Shared, \* two of them
    IApps,          \* names that end in .app
    WordyIApps,     \* those with nothing but word characters before it
    AddressNames,   \* names that are IPv4 addresses
    Original,       \* the names x-1, x_1, x.1, x-1-, each with its x
    StartsWith,     \* pairs of names: the first starts with the second
    Ports, NoPort,
    PortName,       \* x and port p to the name x_p
    Addresses,
    Includes,       \* pairs of addresses: the first includes the second
    ByName,         \* the destination names a virtual address
    NoAddress,      \* a virtual without destination, and what is no virtual
    Defaults,       \* bigipDefaults.json: paths of BIG-IP's own objects
    Configs         \* the configurations considered: sequences of objects

Paths == {p \in Seq(Names) : Len(p) \in 1 .. 3}

(* The types told apart: monitor, pool and application service stand for   *)
(* those with a custom map, plain for those without, phantom for those of  *)
(* noDirectMap and unknown for those that are not in customDict.           *)
Custom == {"virtual", "virtual-address", "application service", "monitor", "pool"}
Types == Custom \cup {"plain", "phantom", "unknown"}

Object ==
    [type     : Types,
     path     : Paths,
     fails    : {"no", "engine", "custom"}, \* where its conversion throws
     emits    : BOOLEAN,        \* its custom map returns an object for it
     extras   : SUBSET Names,   \* and objects of these names besides
     addr     : Addresses \cup {ByName, NoAddress},
     ports    : Seq(Ports),
     https    : BOOLEAN,        \* class Service_HTTPS
     redirect : BOOLEAN]        \* Service_HTTP with _sys_https_redirect

ASSUME NamesAssumption ==
    /\ Common \in Names /\ Shared \in Names
    /\ DOMAIN Original \subseteq Names
    /\ \A n \in DOMAIN Original : Original[n] \in Names
    /\ PortName \in [Names -> [Ports -> Names]]
    /\ \A a \in Addresses : <<a, a>> \in Includes
    /\ \A n \in Names : <<n, n>> \in StartsWith
    /\ NoPort \notin Ports /\ NoAddress \notin Addresses /\ ByName \notin Addresses

ASSUME ConfigsAssumption ==
    \A c \in Configs :
        /\ c \in Seq(Object)
        /\ \A o \in DOMAIN c :
            /\ c[o].type = "virtual" => c[o].emits /\ Len(c[o].path) > 1
            /\ c[o].fails = "custom" => c[o].type \in Custom
            /\ c[o].redirect => c[o].type = "virtual" /\ ~c[o].https
                                 /\ c[o].addr # NoAddress
            /\ c[o].extras # {} => c[o].type = "pool"
            /\ c[o].addr # NoAddress => c[o].type = "virtual"
            /\ c[o].ports # << >> \/ c[o].https => c[o].type = "virtual"
            /\ \A p \in DOMAIN c : c[o].type = c[p].type /\ c[o].path = c[p].path => o = p

VARIABLES
    config,         \* json, in key order
    next,           \* the key the loop is at
    tenants,        \* keys of declObj
    apps,           \* <<tenant, application>> of declObj
    decl,           \* <<tenant, application, name>> to what is declared there
    redirects,      \* redirectVS
    unconverted,    \* unconvertedArr
    errors,         \* history: objects logged as errors
    warned,         \* history: places with a logged collision
    removed,        \* history: what the clean-up of redirects took away
    pc              \* loop, redirects, done or aborted

vars == <<config, next, tenants, apps, decl, redirects, unconverted, errors,
          warned, removed, pc>>
-----------------------------------------------------------------------------
Full(path) == IF Len(path) = 1 THEN <<Common>> \o path ELSE path

(* A slip, for the mutation runs: /Common/folder kept as an application.   *)
AppWithCommonFolders(o) == IF Len(Full(o.path)) = 2 THEN Shared ELSE Full(o.path)[2]

(* Lines 358-370: everything of Common, and what is in no application, is  *)
(* placed in Shared.                                                       *)
Tenant(o) == Full(o.path)[1]
App(o) == IF Len(Full(o.path)) = 2 \/ Tenant(o) = Common THEN Shared
          ELSE Full(o.path)[2]

Profile(o) == Last(Full(o.path))
Place(o, name) == <<Tenant(o), App(o), name>>

Mapped(o) == o.type \in Custom \cup {"plain"}

(* Lines 306-309: the iApp of a virtual whose path is made of word         *)
(* characters.                                                             *)
InSupportedIApp(o) ==
    /\ Len(o.path) > 1
    /\ \E v \in DOMAIN config :
        /\ config[v].type = "virtual"
        /\ config[v].path[2] \in WordyIApps
        /\ SubSeq(config[v].path, 1, 2) = SubSeq(o.path, 1, 2)

(* Lines 346-361.                                                          *)
Ignored(o) ==
    \/ o.type = "phantom"
    \/ Full(o.path) \in Defaults
    \/ /\ Full(o.path)[2] \in IApps
       /\ o.type # "application service"
       /\ ~InSupportedIApp(o)

Entry(o, port) ==
    [type |-> config[o].type, from |-> {o}, addr |-> config[o].addr, port |-> port,
     https |-> config[o].https, redirect80 |-> FALSE]

OnlyPort(o) == IF o.ports = << >> THEN NoPort ELSE Last(o.ports)

(* Lines 391-413: the objects the custom map returns; a virtual with       *)
(* several ports becomes one per port.                                     *)
Returned(o) ==
    LET obj == config[o]
        own == IF obj.type = "plain" \/ ~obj.emits THEN {}
               ELSE IF Len(obj.ports) > 1
               THEN {PortName[Profile(obj)][p] : p \in ToSet(obj.ports)}
               ELSE {Profile(obj)}
    IN  own \cup obj.extras

PortAt(o, name) ==
    LET mine == {p \in ToSet(config[o].ports) : PortName[Profile(config[o])][p] = name}
    IN  IF Len(config[o].ports) > 1 /\ mine # {} THEN CHOOSE p \in mine : TRUE
        ELSE OnlyPort(config[o])

(* declObj[tenant][app] with the objects of o under those names.           *)
Put(o, names) ==
    LET new == {Place(config[o], n) : n \in names}
    IN  [k \in DOMAIN decl \cup new |->
            IF k \in new THEN Entry(o, PortAt(o, k[3])) ELSE decl[k]]

WithoutPlaces(d, places) == [k \in DOMAIN d \ places |-> d[k]]
-----------------------------------------------------------------------------
Init == /\ config \in Configs
        /\ next = 1
        /\ tenants = {}
        /\ apps = {}
        /\ decl = << >>
        /\ redirects = << >>
        /\ unconverted = {}
        /\ errors = {}
        /\ warned = {}
        /\ removed = {}
        /\ pc = "loop"

Converting == pc = "loop" /\ next <= Len(config)

(* What the loop leaves alone whatever it does with an object.             *)
NextKey == next' = next + 1 /\ UNCHANGED <<config, removed, pc>>

AddTenant == tenants' = tenants \cup {Tenant(config[next])}

(* Lines 319, 478-481.                                                     *)
ReportUnsupported ==
    /\ Converting
    /\ config[next].type = "unknown"
    /\ unconverted' = unconverted \cup {next}
    /\ NextKey
    /\ UNCHANGED <<tenants, apps, decl, redirects, errors, warned>>

(* Lines 334, 482-484: nothing is in the declaration yet.                  *)
FailInEngine ==
    /\ Converting
    /\ Mapped(config[next]) /\ config[next].fails = "engine"
    /\ errors' = errors \cup {next}
    /\ NextKey
    /\ UNCHANGED <<tenants, apps, decl, redirects, unconverted, warned>>

Ignore ==
    /\ Converting
    /\ config[next].type # "unknown"
    /\ Mapped(config[next]) => config[next].fails # "engine"
    /\ Ignored(config[next])
    /\ NextKey
    /\ UNCHANGED <<tenants, apps, decl, redirects, unconverted, errors, warned>>

(* The object gets as far as its tenant (line 373).                        *)
Placing ==
    /\ Converting
    /\ Mapped(config[next]) /\ config[next].fails # "engine"
    /\ ~Ignored(config[next])
    /\ AddTenant
    /\ NextKey

(* Line 379: the address of a service.                                     *)
SkipAddress ==
    /\ Placing
    /\ config[next].type = "virtual-address"
    /\ Profile(config[next]) \in AddressNames
    /\ UNCHANGED <<apps, decl, redirects, unconverted, errors, warned>>

AddSharedOf(o) == apps' = apps \cup {<<Tenant(o), Shared>>}

(* Lines 382-388: another goes to its tenant's Shared, whatever is there.  *)
AttachAddress ==
    /\ Placing
    /\ config[next].type = "virtual-address"
    /\ Profile(config[next]) \notin AddressNames
    /\ config[next].fails = "no"
    /\ AddSharedOf(config[next])
    /\ LET k == <<Tenant(config[next]), Shared, Profile(config[next])>>
       IN  decl' = [p \in DOMAIN decl \cup {k} |->
                        IF p = k THEN Entry(next, NoPort) ELSE decl[p]]
    /\ UNCHANGED <<redirects, unconverted, errors, warned>>

(* Lines 386, 394, 482-484: the tenant stays, and Shared for an address.   *)
FailInCustomMap ==
    /\ Placing
    /\ config[next].fails = "custom"
    /\ IF config[next].type = "virtual-address"
       THEN /\ Profile(config[next]) \notin AddressNames
            /\ AddSharedOf(config[next])
       ELSE UNCHANGED apps
    /\ errors' = errors \cup {next}
    /\ UNCHANGED <<decl, redirects, unconverted, warned>>

(* Lines 390-395 went well: the virtual that redirects is noted (398-403). *)
Connecting ==
    /\ Placing
    /\ config[next].type # "virtual-address"
    /\ config[next].fails = "no"
    /\ redirects' = IF config[next].redirect THEN Append(redirects, next) ELSE redirects

(* Lines 417-431: the name is that of a copy, what it is a copy of is      *)
(* there and has the same port.                                            *)
OriginalPlace(o) == Place(config[o], Original[Profile(config[o])])

IsCopy(o) ==
    /\ Profile(config[o]) \in DOMAIN Original
    /\ OriginalPlace(o) \in DOMAIN decl
    /\ decl[OriginalPlace(o)].type # "monitor"
    /\ decl[OriginalPlace(o)].port = OnlyPort(config[o])

(* Lines 445-451: what else the custom map returned, by its name.          *)
Reassigned(o) ==
    {n \in Returned(o) : /\ Returned(o) # {n}
                         /\ <<n, Original[Profile(config[o])]>> \notin StartsWith}

(* Lines 434-453: arrays are joined, of anything else the copy's is kept.  *)
Merge ==
    /\ Connecting
    /\ IsCopy(next)
    /\ LET put == Put(next, Reassigned(next))
           merged == [decl[OriginalPlace(next)] EXCEPT
                        !.type = config[next].type,
                        !.from = @ \cup {next},
                        !.addr = IF @ = NoAddress THEN config[next].addr ELSE @,
                        !.https = config[next].https]
       IN  decl' = [k \in DOMAIN put |->
                        IF k = OriginalPlace(next) THEN merged ELSE put[k]]
    /\ UNCHANGED <<apps, unconverted, errors, warned>>

(* A slip: no warning for what is returned besides the object.             *)
AttachWarningOfItself ==
    /\ Connecting
    /\ ~IsCopy(next)
    /\ apps' = apps \cup {<<Tenant(config[next]), App(config[next])>>}
    /\ decl' = Put(next, IF config[next].type = "plain" THEN {Profile(config[next])}
                         ELSE Returned(next))
    /\ warned' = warned \cup
                 (DOMAIN decl \cap {Place(config[next], Profile(config[next]))})
    /\ UNCHANGED <<unconverted, errors>>

(* Lines 460-477: an object without a custom map is attached as it is;     *)
(* what a custom map returns is attached with a warning if something is    *)
(* there.                                                                  *)
Attach ==
    /\ Connecting
    /\ ~IsCopy(next)
    /\ apps' = apps \cup {<<Tenant(config[next]), App(config[next])>>}
    /\ decl' = Put(next, IF config[next].type = "plain" THEN {Profile(config[next])}
                         ELSE Returned(next))
    /\ warned' = warned \cup
                 (DOMAIN decl \cap {Place(config[next], n) : n \in Returned(next)})
    /\ UNCHANGED <<unconverted, errors>>

(* Lines 489-492: Common goes if there is nothing in it.                   *)
RemoveCommon ==
    /\ pc = "loop"
    /\ next > Len(config)
    /\ tenants' = IF \E a \in apps : a[1] = Common THEN tenants ELSE tenants \ {Common}
    /\ pc' = "redirects"
    /\ UNCHANGED <<config, next, apps, decl, redirects, unconverted, errors,
                   warned, removed>>

Virtuals == {v \in DOMAIN config : config[v].type = "virtual"}

(* Lines 500-514, for one virtual: its place is looked for where its path  *)
(* says, without relocation.  A tenant that is not there, an application   *)
(* in the place of a virtual, and an object without an address in the text *)
(* make it throw.                                                          *)
BreaksCleanup(v) ==
    LET path == config[v].path
    IN  \/ path[1] \notin tenants
        \/ Len(path) = 2 /\ path \in apps
        \/ path \in DOMAIN decl /\ decl[path].addr \notin Addresses

(* A slip: the type is not checked.                                        *)
TwinsOfAnyType(r) ==
    {k \in DOMAIN decl \cap {config[v].path : v \in Virtuals} :
        <<decl[k].addr, config[r].addr>> \in Includes}

(* Lines 514-517.                                                          *)
HttpsTwins(r) ==
    {k \in DOMAIN decl \cap {config[v].path : v \in Virtuals} :
        decl[k].https /\ <<decl[k].addr, config[r].addr>> \in Includes}

(* Lines 495-526, for one redirecting virtual.                             *)
CleanRedirect ==
    /\ pc = "redirects"
    /\ redirects # << >>
    /\ \A v \in Virtuals : ~BreaksCleanup(v)
    /\ LET r == Head(redirects)
           gone == IF HttpsTwins(r) = {} THEN {}
                   ELSE {Place(config[r], Profile(config[r]))} \cap DOMAIN decl
           marked == [k \in DOMAIN decl |->
                        IF k \in HttpsTwins(r) THEN [decl[k] EXCEPT !.redirect80 = TRUE]
                        ELSE decl[k]]
       IN  /\ decl' = WithoutPlaces(marked, gone)
           /\ removed' = removed \cup UNION {decl[k].from : k \in gone}
    /\ redirects' = Tail(redirects)
    /\ UNCHANGED <<config, next, tenants, apps, unconverted, errors, warned, pc>>

(* Lines 554-557: the exception is that of the whole conversion.           *)
Abort ==
    /\ pc = "redirects"
    /\ redirects # << >>
    /\ \E v \in Virtuals : BreaksCleanup(v)
    /\ pc' = "aborted"
    /\ UNCHANGED <<config, next, tenants, apps, decl, redirects, unconverted,
                   errors, warned, removed>>

Return ==
    /\ pc = "redirects"
    /\ redirects = << >>
    /\ pc' = "done"
    /\ UNCHANGED <<config, next, tenants, apps, decl, redirects, unconverted,
                   errors, warned, removed>>

Next == \/ ReportUnsupported \/ FailInEngine \/ Ignore \/ SkipAddress
        \/ AttachAddress \/ FailInCustomMap \/ Merge \/ Attach
        \/ RemoveCommon \/ CleanRedirect \/ Abort \/ Return

Spec == Init /\ [][Next]_vars
-----------------------------------------------------------------------------
Places == Names \X Names \X Names

Declaration ==
    [type : Types, from : SUBSET DOMAIN config, addr : Addresses \cup {ByName, NoAddress},
     port : Ports \cup {NoPort}, https : BOOLEAN, redirect80 : BOOLEAN]

TypeOK ==
    /\ config \in Seq(Object)
    /\ next \in Nat \ {0}
    /\ tenants \subseteq Names
    /\ apps \subseteq Names \X Names
    /\ DOMAIN decl \subseteq Places
    /\ \A k \in DOMAIN decl : decl[k] \in Declaration
    /\ redirects \in Seq(DOMAIN config)
    /\ unconverted \subseteq DOMAIN config /\ errors \subseteq DOMAIN config
    /\ removed \subseteq DOMAIN config
    /\ warned \subseteq Places
    /\ pc \in {"loop", "redirects", "done", "aborted"}

(* docs/userguide/faq.rst 97: what was in /Common is in /Common/Shared,    *)
(* and every object is in an application of a tenant the declaration has.  *)
CommonHoldsOnlyShared ==
    /\ \A a \in apps : a[1] \in tenants /\ (a[1] = Common => a[2] = Shared)
    /\ \A k \in DOMAIN decl : <<k[1], k[2]>> \in apps

(* Where a converted object is put.                                        *)
PlacesOf(o) ==
    LET obj == config[o]
    IN  CASE obj.type = "virtual-address" -> {<<Tenant(obj), Shared, Profile(obj)>>}
          [] obj.type = "plain" -> {Place(obj, Profile(obj))}
          [] OTHER -> {Place(obj, n) : n \in Returned(o)}

MergedPlaces(o) ==
    IF Profile(config[o]) \in DOMAIN Original THEN {OriginalPlace(o)} ELSE {}

(* What another object puts there without a warning.                       *)
PutsSilently(o, k) ==
    \/ config[o].type \in {"plain", "virtual-address"} /\ k \in PlacesOf(o)
    \/ /\ Profile(config[o]) \in DOMAIN Original
       /\ k \in {Place(config[o], n) : n \in Reassigned(o)}

Converts(o) ==
    /\ Mapped(config[o])
    /\ ~Ignored(config[o])
    /\ config[o].type = "plain" \/ config[o].emits
    /\ config[o].type = "virtual-address" => Profile(config[o]) \notin AddressNames

(* An object with a mapping that the declaration does not hold was logged  *)
(* as an error, or gave way to an object of the same name: with a warning, *)
(* or to one of the kinds that are put without.  (An object in an iApp     *)
(* that is not supported, one of a BIG-IP default and an application       *)
(* service of another template are left out on purpose.)                   *)
NothingVanishes ==
    pc = "done" =>
        \A o \in DOMAIN config : Converts(o) =>
            \/ o \in errors
            \/ o \in removed
            \/ \E k \in DOMAIN decl : o \in decl[k].from
            \/ \E k \in PlacesOf(o) \cup MergedPlaces(o) :
                   k \in warned \/ \E p \in DOMAIN config \ {o} : PutsSilently(p, k)

Redirectors == {r \in Virtuals : config[r].redirect}

OwnPlace(r) == Place(config[r], Profile(config[r]))

(* What the clean-up takes away stood at the place of a redirecting        *)
(* virtual, and an HTTPS service at that virtual's address redirects       *)
(* instead: unless an HTTPS service stood at the place of another and was  *)
(* taken away itself.  What is taken away may yet be lonely: of two        *)
(* redirects that move to one place the clean-up of the first, whose HTTPS *)
(* service takes over, deletes the second.  And no service redirects       *)
(* unless it is an HTTPS one at the address of a redirecting virtual.      *)
RedirectsPaired ==
    pc = "done" =>
        /\ \A o \in removed : \E r \in Redirectors :
               /\ OwnPlace(r) \in PlacesOf(o) \cup MergedPlaces(o)
               /\ \/ \E k \in DOMAIN decl :
                        decl[k].redirect80 /\ <<decl[k].addr, config[r].addr>> \in Includes
                  \/ \E u \in removed : config[u].https
        /\ \A k \in DOMAIN decl : decl[k].redirect80 =>
               /\ decl[k].https
               /\ \E r \in Redirectors : <<decl[k].addr, config[r].addr>> \in Includes

=============================================================================
