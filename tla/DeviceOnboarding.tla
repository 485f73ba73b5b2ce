-------------------------- MODULE DeviceOnboarding --------------------------
(***************************************************************************)
(* src/src/engines/doConverter.js with the handling of                     *)
(* src/src/lib/DO/doCustomMaps.js: from a configuration to the objects of  *)
(* declaration.Common of a Declarative Onboarding declaration.             *)
(*                                                                         *)
(* A stanza has a kind (the words of its key before the name), a name, the *)
(* set gives of the classes it has a property for, and the function lists  *)
(* from those of its properties that hold a list to the elements; a device *)
(* and a self IP have addresses, a device a hostname.  What an object of   *)
(* the declaration is made of is a set of pieces <<stanza, class, part>>:  *)
(* all that a stanza gives to a class, or one element of a list.           *)
(***************************************************************************)
EXTENDS Naturals, Sequences, FiniteSetsExt, Functions, DeviceMaps

CONSTANTS
    Configurations,     \* sequences of stanzas, in the order of their keys
    Items,              \* the items of configItems: the kinds of stanzas, the class
    IPv4, IPv6,         \* from the names that begin with an address to that
    Camel               \* from names to what recursiveCamelize makes of them

(* The kinds of stanzas that become sections of Authentication.            *)
AuthKinds == {"auth source", "auth remote-user", "auth ldap", "auth tacacs",
              "auth radius", "auth radius-server"}

(* A user matches no item, the stanzas of authentication one for their     *)
(* class and no other one, and devices none for a class that is referred   *)
(* to.  The last class is none; it stands for an object yet to be spread.  *)
ASSUME ItemsAssumption ==
    /\ Items \in Seq((SUBSET STRING) \X STRING)
    /\ \A n \in DOMAIN Items : \A kind \in Items[n][1] :
           /\ kind # "auth user"
           /\ kind \in AuthKinds <=> Items[n][2] = "Authentication"
           /\ kind = "cm device" => \A row \in DeviceReferences : Items[n][2] \notin row.to
           /\ Items[n][2] # "temporary"
    /\ \A kind \in AuthKinds : \E n \in DOMAIN Items : kind \in Items[n][1]

ASSUME ConfigurationsAssumption ==
    \A c \in Configurations :
        /\ c \in Seq(Range(c))
        /\ \A i \in DOMAIN c : \A l \in DOMAIN c[i].lists :
               c[i].lists[l] \in Seq(Range(c[i].lists[l]))

VARIABLES
    conf,               \* the configuration
    todo,               \* the stanzas still to convert, by their positions
    currentDevice,      \* the hostname of the device converted, "" if unknown
    item,               \* the item the first of them is compared with
    common,             \* declaration.Common, but for Authentication
    auth,               \* declaration.Common.Authentication
    status              \* "filtering", "converting", "done", "failed"

vars == <<conf, todo, currentDevice, item, common, auth, status>>
-----------------------------------------------------------------------------
(* The classes that a stanza is converted to; a user, for one, to none.    *)
Kinds == UNION {Items[n][1] : n \in DOMAIN Items}
PositionsByKind == [kind \in Kinds |-> {n \in DOMAIN Items : kind \in Items[n][1]}]
Positions(kind) == IF kind \in Kinds THEN PositionsByKind[kind] ELSE {}
ClassesOf(kind) == {Items[n][2] : n \in Positions(kind)}

(* Objects that every system has, by the names in configItems.  These are  *)
(* regular expressions there, but they are compared as they are, so that   *)
(* the one that is more than a name, ^datasync-.+-dg$, ignores nothing.    *)
Ignored ==
    {<<"DNS_Resolver", "f5-aws-dns">>, <<"DeviceGroup", "device_trust_group">>,
     <<"DeviceGroup", "dos-global-dg">>, <<"DeviceGroup", "gtm">>, <<"Tunnel", "http-tunnel">>,
     <<"Tunnel", "socks-tunnel">>, <<"FirewallPortList", "_sys_self_allow_tcp_defaults">>,
     <<"FirewallPortList", "_sys_self_allow_udp_defaults">>}

(* namedClass of doCustomMaps.                                             *)
NamedClasses ==
    {"Authentication", "ConfigSync", "DeviceGroup", "DNS_Resolver", "FailoverMulticast",
     "FailoverUnicast", "FirewallAddressList", "FirewallPolicy", "FirewallPortList",
     "GSLBDataCenter", "GSLBMonitor", "GSLBProberPool", "GSLBServer", "ManagementIp",
     "ManagementRoute", "MirrorIp", "Route", "RouteDomain", "RouteMap", "RoutingAccessList",
     "RoutingAsPath", "RoutingBGP", "RoutingPrefixList", "SelfIp", "SnmpCommunity",
     "SnmpTrapDestination", "TrafficGroup", "Trunk", "Tunnel", "VLAN"}

(* The classes of which objects with no property are deleted: their names  *)
(* contain one of the names listed.                                        *)
EmptyClasses ==
    {"TrafficGroup", "Route", "RouteDomain", "RouteMap", "ManagementRoute", "SnmpAgent",
     "SnmpTrapEvents", "ConfigSync", "FailoverUnicast", "FailoverMulticast", "MirrorIp"}
-----------------------------------------------------------------------------
Nothing == [key \in {} |-> {}]
Only(key, value) == [k \in {key} |-> value]
Without(f, keys) == [k \in DOMAIN f \ keys |-> f[k]]

(* Object.assign(g, f).                                                    *)
Over(f, g) == [k \in DOMAIN f \cup DOMAIN g |-> IF k \in DOMAIN f THEN f[k] ELSE g[k]]

(* A slip: every object is called after its class, too.                    *)
ClassAndName(class, s) ==
    CASE class \notin NamedClasses -> <<class>>
      [] class = "Authentication" -> <<s.name>>
      [] OTHER -> <<class, s.name>>

(* The key of an object in declaration.Common.                             *)
ClassName(class, s) ==
    CASE class \notin NamedClasses -> <<class>>
      [] class \in NamedClasses /\ s.name \in DOMAIN IPv4 ->
            IF class = "SelfIp" THEN <<class, IPv4[s.name], "IPv4">> ELSE <<class, "IPv4">>
      [] class \in NamedClasses /\ s.name \in DOMAIN IPv6 ->
            IF class = "SelfIp" THEN <<class, IPv6[s.name], "IPv6">> ELSE <<class, "IPv6">>
      [] OTHER -> IF class = "SelfIp" \/ s.kind = "cm device" THEN <<class, s.name>>
                                                              ELSE <<s.name>>

Gives(i, class) == IF class \in conf[i].gives THEN {<<i, class, "all">>} ELSE {}

HasList(i, list) == list \in DOMAIN conf[i].lists

(* The names of communities keep their hyphens.                            *)
Spelled(class, name) == IF class = "SnmpCommunity" THEN name ELSE Camel[name]

(* Objects of their own for the elements of a list; the last of two that   *)
(* have the same name once hyphens are gone overwrites the first.          *)
Scatter(i, class, list, as) ==
    LET elements == conf[i].lists[list]
        key(e) == <<Spelled(class, elements[e])>>
        last(k) == CHOOSE e \in DOMAIN elements :
                        key(e) = k /\ \A d \in DOMAIN elements : key(d) = k => d <= e
    IN  [k \in {key(e) : e \in DOMAIN elements} |->
            [class |-> as, from |-> {<<i, class, elements[last(k)]>>}]]

(* Object.assign(...list) of an empty list throws; so does Object.keys of  *)
(* a list that is not there.                                               *)
Empty(i, list) == HasList(i, list) /\ conf[i].lists[list] = <<>>
Missing(i, list) == ~ HasList(i, list)

(* customHandling, of the object made so far under the key.                *)
Roles(i) == Scatter(i, "RemoteAuthRole", "roleInfo", "RemoteAuthRole")

RemoteServers(i) == Scatter(i, "SyslogRemoteServer", "remoteServers", "SyslogRemoteServer")

Users(i) == IF HasList(i, "users") THEN Scatter(i, "SnmpUser", "users", "SnmpUser")
                                   ELSE Nothing

Traps(i, object) ==
    IF HasList(i, "traps") THEN Scatter(i, "SnmpTrapDestination", "traps", object.class)
                           ELSE Nothing

Communities(i, object) ==
    IF HasList(i, "communities")
    THEN Without(Scatter(i, "SnmpCommunity", "communities", object.class), {<<"comm-public">>})
    ELSE Nothing

RouteDomain(i, key, object) ==
    IF "id 0" \in conf[i].gives THEN Nothing ELSE Only(key, object)

(* The owner of a device group is this device, or the first member.        *)
Owner(i) ==
    LET members == conf[i].lists["members"]
    IN  IF currentDevice \in Range(members) THEN currentDevice ELSE members[1]

Handled(i, class, key, object) ==
    CASE class = "RemoteAuthRole" -> Roles(i)
      [] class = "SyslogRemoteServer" -> RemoteServers(i)
      [] class = "SnmpUser" -> Users(i)
      [] class = "SnmpTrapDestination" -> Traps(i, object)
      [] class = "SnmpCommunity" -> Communities(i, object)
      [] class = "RouteDomain" -> RouteDomain(i, key, object)
      [] OTHER -> Only(key, object)

(* A rule of a firewall needs a source, a destination and a description.   *)
HalfRules(i) == HasList(i, "rules") => "half" \in Range(conf[i].lists["rules"])

(* Members may also come from a prober pool of the same name.              *)
NoMembers(i, object) == \A p \in object.from \cup {<<i>>} : Missing(p[1], "members")

Throws(i, class, object) ==
    CASE class = "RemoteAuthRole" -> Missing(i, "roleInfo") \/ Empty(i, "roleInfo")
      [] class = "SyslogRemoteServer" -> Missing(i, "remoteServers") \/ Empty(i, "remoteServers")
      [] class = "SnmpUser" -> Empty(i, "users")
      [] class = "SnmpTrapDestination" -> Empty(i, "traps")
      [] class = "SnmpCommunity" -> Empty(i, "communities")
      [] class \in {"FirewallPolicy", "ManagementIpFirewall"} -> HalfRules(i)
      [] class = "DeviceGroup" -> NoMembers(i, object)
      [] OTHER -> FALSE
-----------------------------------------------------------------------------
Devices(c) == {i \in DOMAIN c : c[i].kind = "cm device"}
SelfAddresses(c) == UNION {c[i].addresses : i \in {j \in DOMAIN c : c[j].kind = "net self"}}

(* validateDevice: one of the addresses of a device is one of ours.        *)
ValidDevice(c, i) == c[i].addresses \cap SelfAddresses(c) # {}

Several(S) == \E i, j \in S : i # j
Filtered(c) == Several(Devices(c)) /\ SelfAddresses(c) # {}

(* A slip, for the mutation runs.                                          *)
EveryDevice(c) == DOMAIN c

(* The devices of a cluster are told from ours by the self addresses.      *)
Kept(c) == IF Filtered(c) THEN {i \in DOMAIN c : i \in Devices(c) => ValidDevice(c, i)}
                          ELSE DOMAIN c

(* The last device left; none when there are several and no self address.  *)
Current(c) ==
    LET left == Devices(c) \cap Kept(c)
    IN  IF left = {} \/ (Several(Devices(c)) /\ ~ Filtered(c)) THEN ""
        ELSE c[Max(left)].hostname
-----------------------------------------------------------------------------
Init == /\ conf \in Configurations
        /\ todo = {}
        /\ currentDevice = ""
        /\ item = 1
        /\ common = Nothing
        /\ auth = Nothing
        /\ status = "filtering"

FilterDevices ==
    /\ status = "filtering"
    /\ todo' = Kept(conf)
    /\ currentDevice' = Current(conf)
    /\ status' = "converting"
    /\ UNCHANGED <<conf, item, common, auth>>

(* The stanza whose turn it is, and the next item that it matches.         *)
At == Min(todo)
Stanza == conf[At]
Ahead == {n \in Positions(Stanza.kind) : item <= n}
Matched == Min(Ahead)
Class == Items[Matched][2]
Key == ClassName(Class, Stanza)
AtItem == status = "converting" /\ todo # {} /\ Ahead # {}

(* A slip: the object is made anew.                                        *)
MadeAnew == [class |-> Class, from |-> Gives(At, Class)]

(* { class: schemaClass, ...declaration.Common[className] }, and then the  *)
(* properties that the stanza gives.                                       *)
Before == IF Key \in DOMAIN common THEN common[Key] ELSE [class |-> Class, from |-> {}]
Made == [class |-> Before.class, from |-> Before.from \cup Gives(At, Class)]

IsEmpty(object) == object.from = {} /\ object.class \in EmptyClasses

SkipItem ==
    /\ AtItem
    /\ <<Class, Stanza.name>> \in Ignored
    /\ item' = Matched + 1
    /\ UNCHANGED <<conf, todo, currentDevice, common, auth, status>>

ConvertItem ==
    /\ AtItem
    /\ <<Class, Stanza.name>> \notin Ignored
    /\ ~ Throws(At, Class, Made)
    /\ LET made == Handled(At, Class, Key, Made)
           all == Over(made, Without(common, {Key}))
       IN  common' = IF Key \in DOMAIN all /\ IsEmpty(all[Key]) THEN Without(all, {Key}) ELSE all
    /\ item' = Matched + 1
    /\ UNCHANGED <<conf, todo, currentDevice, auth, status>>
-----------------------------------------------------------------------------
Ended == status = "converting" /\ todo # {} /\ Ahead = {}

(* The object that the items have made of a stanza of authentication goes  *)
(* by its name; for a name with an address it is not under it.             *)
Temporary == <<Stanza.name>>

Authentication == IF auth = Nothing THEN Only("class", "Authentication") ELSE auth

NextStanza == /\ todo' = todo \ {At}
              /\ item' = 1
              /\ UNCHANGED <<conf, currentDevice, status>>

(* What is not of auth; there is an Authentication from the first on.      *)
EndPlain ==
    /\ Ended
    /\ Stanza.kind \notin AuthKinds \cup {"auth user"}
    /\ auth' = Authentication
    /\ UNCHANGED common
    /\ NextStanza

EndUser ==
    /\ Ended /\ Stanza.kind = "auth user"
    /\ common' = Over(Only(<<Stanza.name>>, [class |-> "User", from |-> {<<At, "User", "all">>}]),
                      common)
    /\ auth' = Authentication
    /\ NextStanza

(* Object.assign(Authentication, source): its class as well.               *)
EndSource ==
    /\ Ended /\ Stanza.kind = "auth source"
    /\ Temporary \in DOMAIN common
    /\ LET source == common[Temporary]
           class == Over(Only("class", source.class), Authentication)
       IN  auth' = IF source.from = {} THEN class ELSE Over(Only("own", source.from), class)
    /\ common' = Without(common, {Temporary})
    /\ NextStanza

SectionOf(kind) ==
    CASE kind = "auth remote-user" -> "remoteUsersDefaults"
      [] kind = "auth ldap" -> "ldap"
      [] kind = "auth tacacs" -> "tacacs"
      [] OTHER -> "none"

EndSection ==
    /\ Ended /\ SectionOf(Stanza.kind) # "none"
    /\ Temporary \in DOMAIN common
    /\ auth' = Over(Only(SectionOf(Stanza.kind), common[Temporary].from), Authentication)
    /\ common' = Without(common, {Temporary})
    /\ NextStanza

(* The servers that have a stanza of their own: the first becomes primary, *)
(* and every later one secondary in place of the one before it.            *)
Server(name) == {j \in DOMAIN conf : conf[j].kind = "auth radius-server" /\ conf[j].name = name}
Configured(i) ==
    IF HasList(i, "servers") THEN {e \in DOMAIN conf[i].lists["servers"] :
                                      Server(conf[i].lists["servers"][e]) # {}}
                             ELSE {}
Pieces(stanzas) == {<<j, "Authentication", "all">> : j \in stanzas}
ServerPieces(i, e) == Pieces(Server(conf[i].lists["servers"][e]))

RadiusParts == {"radius", "primary", "secondary"}
Radius(i) ==
    LET servers == Configured(i)
    IN  [part \in {"radius"} \cup (IF servers # {} THEN {"primary"} ELSE {})
                              \cup (IF Several(servers) THEN {"secondary"} ELSE {}) |->
            CASE part = "radius" -> Pieces({i})
              [] part = "primary" -> ServerPieces(i, Min(servers))
              [] part = "secondary" -> ServerPieces(i, Max(servers))]

EndRadius ==
    /\ Ended /\ Stanza.kind = "auth radius"
    /\ auth' = Over(Radius(At), Without(Authentication, RadiusParts))
    /\ common' = Without(common, {Temporary})
    /\ NextStanza

(* A slip: what the items have made of a server stays.                     *)
LeaveRadiusServer ==
    /\ Ended /\ Stanza.kind = "auth radius-server"
    /\ auth' = Authentication
    /\ UNCHANGED common
    /\ NextStanza

EndRadiusServer ==
    /\ Ended /\ Stanza.kind = "auth radius-server"
    /\ auth' = Authentication
    /\ common' = Without(common, {Temporary})
    /\ NextStanza

(* An Authentication that has only its class is deleted; that there is one *)
(* is taken for granted.                                                   *)
Finish ==
    /\ status = "converting" /\ todo = {} /\ auth # Nothing
    /\ auth' = IF DOMAIN auth = {"class"} THEN Nothing ELSE auth
    /\ status' = "done"
    /\ UNCHANGED <<conf, todo, currentDevice, item, common>>

(* A TypeError ends the conversion, and there is no declaration.           *)
Fail ==
    /\ \/ AtItem /\ <<Class, Stanza.name>> \notin Ignored /\ Throws(At, Class, Made)
       \/ /\ Ended /\ Temporary \notin DOMAIN common
          /\ SectionOf(Stanza.kind) # "none" \/ Stanza.kind = "auth source"
       \/ status = "converting" /\ todo = {} /\ auth = Nothing
    /\ status' = "failed"
    /\ UNCHANGED <<conf, todo, currentDevice, item, common, auth>>

Next == \/ FilterDevices \/ SkipItem \/ ConvertItem
        \/ EndPlain \/ EndUser \/ EndSource \/ EndSection \/ EndRadius \/ EndRadiusServer
        \/ Finish \/ Fail

(* The function runs to its end without a pause.                           *)
Spec == Init /\ [][Next]_vars
-----------------------------------------------------------------------------
HasAddress(name) == name \in DOMAIN IPv4 \cup DOMAIN IPv6

(* Everything that the declaration holds: where, as what class, and which  *)
(* piece of the configuration.                                             *)
Declared ==
    (UNION {{<<k, common[k].class, p>> : p \in common[k].from} : k \in DOMAIN common})
    \cup (UNION {{<<<<"Authentication", x>>, "Authentication", p>> : p \in auth[x]} :
                    x \in DOMAIN auth \ {"class"}})

ListClasses == {"RemoteAuthRole", "SyslogRemoteServer", "SnmpUser", "SnmpTrapDestination",
                "SnmpCommunity"}
ListOf(class) ==
    CASE class = "RemoteAuthRole" -> "roleInfo"
      [] class = "SyslogRemoteServer" -> "remoteServers"
      [] class = "SnmpUser" -> "users"
      [] class = "SnmpTrapDestination" -> "traps"
      [] class = "SnmpCommunity" -> "communities"

Elements(i, class) ==
    IF ~ HasList(i, ListOf(class)) THEN {}
    ELSE {<<<<Spelled(class, n)>>, class, <<i, class, n>>>> :
             n \in Range(conf[i].lists[ListOf(class)])}
         \ {<<<<"comm-public">>, "SnmpCommunity", <<i, "SnmpCommunity", "comm-public">>>>}

(* What a class should make of a stanza, and what should become of it,     *)
(* whatever else the configuration holds.                                  *)
Becomes(i, class) ==
    LET s == conf[i]
    IN  CASE <<class, s.name>> \in Ignored -> {}
          [] <<class, s.name>> \notin Ignored /\ class \in ListClasses -> Elements(i, class)
          [] class = "RouteDomain" /\ "id 0" \in s.gives -> {}
          [] OTHER -> {<<ClassName(class, s), class, p>> : p \in Gives(i, class)}

Section(name, pieces) == {<<<<"Authentication", name>>, "Authentication", p>> : p \in pieces}

Sections(i) ==
    LET kind == conf[i].kind
    IN  CASE kind = "auth source" -> Section("own", Gives(i, "Authentication"))
          [] SectionOf(kind) # "none" -> Section(SectionOf(kind), Gives(i, "Authentication"))
          [] kind = "auth radius" ->
                Section("radius", Pieces({i}))
                \cup (UNION {Section(IF e = Min(Configured(i)) THEN "primary" ELSE "secondary",
                                    ServerPieces(i, e)) : e \in Configured(i)})
          [] OTHER -> {}

Own(i) ==
    LET s == conf[i]
    IN  IF s.kind = "auth user" THEN {<<<<s.name>>, "User", <<i, "User", "all">>>>}
        ELSE IF s.kind \in AuthKinds /\ ~ HasAddress(s.name) THEN {}
        ELSE UNION {Becomes(i, class) : class \in ClassesOf(s.kind)}

Wanted(i) == Own(i) \cup Sections(i)

(* The names that a stanza is converted under, for a moment or for good.   *)
Merging(class) == class \notin NamedClasses \cup ListClasses \cup {"User"}
Taken(i) ==
    LET s == conf[i]
        classes == ClassesOf(s.kind)
    IN  {<<ClassName(c, s), IF c \in ListClasses THEN "temporary" ELSE c, "whole">> : c \in classes}
        \cup (UNION {{<<x[1], x[2], x[3][3]>> : x \in Elements(i, c)} :
                        c \in classes \cap ListClasses})
        \cup (IF s.kind = "auth user" THEN {<<<<s.name>>, "User", "whole">>} ELSE {})
        \cup (IF s.kind \in AuthKinds THEN {<<<<s.name>>, "temporary", "whole">>} ELSE {})
Momentary(x) == \/ x[2] = "temporary"
                \/ x[2] = "Authentication" /\ Len(x[1]) = 1

(* No name is taken twice, but by settings of one class and by objects     *)
(* that are gone when the stanza is done; no section of authentication is  *)
(* there twice, and of three RADIUS servers the second is lost.            *)
Separate ==
    /\ \A i, j \in Kept(conf) :
           /\ conf[i].kind = conf[j].kind
           /\ conf[i].kind \in AuthKinds \ {"auth radius-server"}
           => i = j
    /\ \A i \in Kept(conf) :
           conf[i].kind = "auth radius" =>
               \A d, e, g \in Configured(i) : d = e \/ e = g \/ d = g
    /\ \A i, j \in Kept(conf) : \A x \in Taken(i), y \in Taken(j) :
           x[1] = y[1] => \/ i = j /\ x = y
                          \/ x[2] = y[2] /\ Merging(x[2])
                          \/ Momentary(x) /\ Momentary(y)
-----------------------------------------------------------------------------
(* doConverter.js:165.  Stanzas are merged into whatever object has their  *)
(* name, deleted, moved and overwritten, but where no name is taken twice  *)
(* the declaration is what the stanzas, each for itself, should become:    *)
(* nothing is lost, nothing is made up, nothing has the class of another.  *)
MadeOfTheConfiguration ==
    status = "done" /\ Separate => Declared = UNION {Wanted(i) : i \in Kept(conf)}

(* doConverter.js:245.  The objects that the items make of stanzas of      *)
(* authentication, and those that stand for a whole list, never outlive    *)
(* their stanza, whatever other objects are called; except when a RADIUS   *)
(* server is named after an address.                                       *)
TemporariesGo ==
    item = 1 => \A k \in DOMAIN common :
        LET all == {p \in common[k].from : p[2] = "Authentication"}
        IN  /\ common[k].class = "Authentication" => k[Len(k)] \in {"IPv4", "IPv6"}
            /\ all # {} => k[Len(k)] \in {"IPv4", "IPv6"}

(* doConverter.js:97.  In a cluster the self addresses tell this device    *)
(* from the others, whose addresses are not declared; the owner of a group *)
(* is then this device, if the group has it.  Were two devices ours, the   *)
(* group might have only the one that is not the last.                     *)
OneIsOurs == ~ Several(Devices(conf) \cap Kept(conf))
HAClasses == {"ConfigSync", "FailoverUnicast", "FailoverMulticast", "MirrorIp"}
OwnerIsDeclared ==
    status = "done" /\ Filtered(conf) =>
        LET own == {p[1] : p \in UNION {common[k].from :
                        k \in {x \in DOMAIN common : common[x].class \in HAClasses}}}
                   \cap Devices(conf)
            hosts == {conf[i].hostname : i \in own}
        IN  /\ \A i \in own : ValidDevice(conf, i)
            /\ OneIsOurs => \A g \in DOMAIN conf :
                    /\ conf[g].kind = "cm device-group" /\ HasList(g, "members")
                    /\ hosts \cap Range(conf[g].lists["members"]) # {}
                    => Owner(g) \in hosts

(* doCustomMaps.js:137.  Objects are converted under other names than they *)
(* had, and names are spelled anew where they are keys of an object that   *)
(* is camelized: still what refers to an object that is declared finds it, *)
(* if the name begins with no address and has no hyphen that goes.         *)
Survives(n) == ~ HasAddress(n) /\ Camel[n] = n
Written(row, n) == IF row.camel THEN Camel[n] ELSE n
DeclaredAs(n, classes) ==
    \E p \in UNION {common[k].from : k \in DOMAIN common} :
        conf[p[1]].name = n /\ p[2] \in classes
ReferencesAreFound ==
    status = "done" /\ Separate =>
        \A i \in Kept(conf), row \in DeviceReferences :
            row.class \in ClassesOf(conf[i].kind) /\ HasList(i, row.list) =>
                \A n \in Range(conf[i].lists[row.list]) :
                    Survives(n) /\ DeclaredAs(n, row.to) =>
                        /\ <<Written(row, n)>> \in DOMAIN common
                        /\ common[<<Written(row, n)>>].class \in row.to

=============================================================================
