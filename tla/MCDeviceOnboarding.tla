------------------------- MODULE MCDeviceOnboarding -------------------------
(***************************************************************************)
(* Configurations of up to three stanzas that compete for a few names, of  *)
(* RADIUS with up to three servers, and of a cluster of two devices.       *)
(***************************************************************************)
EXTENDS DeviceOnboarding, TLC

NoLists == [l \in {} |-> <<>>]
Stanza4(kind, name, gives, lists) ==
    [kind |-> kind, name |-> name, gives |-> gives, lists |-> lists,
     addresses |-> {}, hostname |-> ""]
Full(kind, name) == Stanza4(kind, name, ClassesOf(kind), NoLists)
Bare(kind, name) == Stanza4(kind, name, {}, NoLists)
Lists(kind, name, lists) == Stanza4(kind, name, ClassesOf(kind), lists)

MCIPv4 == "10.0.0.1" :> "10_0_0_1" @@ "10.0.0.1%1" :> "10_0_0_1" @@ "10.0.0.2" :> "10_0_0_2"
MCIPv6 == "fd::1" :> "fd__1"
MCCamel == [n \in {"a", "b", "my-x", "myX", "comm-public"} |->
               CASE n = "my-x" -> "myX" [] n = "comm-public" -> "commPublic" [] OTHER -> n]

Named4 ==
    {Full("net vlan", n) : n \in {"a", "source", "system-auth"}}
    \cup {Full("net route", n) : n \in {"10.0.0.1", "10.0.0.2"}} \cup {Bare("net route", "a")}
    \cup {Full("net self", n) : n \in {"a", "10.0.0.1", "10.0.0.1%1", "fd::1"}}
    \cup {Full("auth user", "a"), Full("sys management-ip", "10.0.0.1"),
          Full("gtm monitor https", "a"), Full("gtm monitor tcp", "a"),
          Full("net route-domain", "a"), Full("cli global-settings", "global-settings"),
          Full("sys global-settings", "global-settings"), Full("net dag-globals", "globals"),
          Stanza4("net route-domain", "0", {"RouteDomain", "id 0"}, NoLists)}

Listed ==
    {Lists("security firewall policy", "a", l) :
        l \in {NoLists, "rules" :> <<>>, "rules" :> <<"whole", "half">>}}
    \cup {Lists("auth remote-role", "remote-role", l) :
             l \in {NoLists, "roleInfo" :> <<>>, "roleInfo" :> <<"my-x", "a">>}}
    \cup {Lists("sys syslog", "syslog", l) : l \in {NoLists, "remoteServers" :> <<"myX">>}}
    \cup {Lists("sys snmp", "snmp", l) :
             l \in {"users" :> <<>>, "users" :> <<"my-x", "myX">> @@ "communities" :> <<"comm-public">>,
                    "traps" :> <<"a">> @@ "communities" :> <<"my-x", "comm-public">>}}
    \cup {Bare("sys snmp", "snmp"), Lists("cm device-group", "a", NoLists),
          Lists("cm device-group", "gtm", NoLists), Full("net tunnels tunnel", "http-tunnel")}
    \cup {Lists("gtm prober-pool", "a", "members" :> <<"a">>)}

Auth ==
    {Full("auth source", "source"), Bare("auth source", "source"),
     Full("auth remote-user", "remote-user"), Full("auth ldap", "system-auth"),
     Full("auth ldap", "10.0.0.1"), Full("auth ldap", "a"), Full("auth tacacs", "system-auth")}

Key2(s) == <<s.kind, s.name>>
Distinct(c) == \A i, j \in DOMAIN c : Key2(c[i]) = Key2(c[j]) => i = j
UpTo(n, stanzas) == {c \in UNION {[1 .. m -> stanzas] : m \in 0 .. n} : Distinct(c)}

RadiusOf(servers) == Lists("auth radius", "system-auth", "servers" :> servers)
RadiusStanzas ==
    {RadiusOf(<<>>), RadiusOf(<<"s1">>), RadiusOf(<<"s1", "s2">>), RadiusOf(<<"s2", "s3", "s1">>),
     Bare("auth radius", "system-auth"), Full("net vlan", "s1")}
    \cup {Full("auth radius-server", n) : n \in {"s1", "s2", "s3", "10.0.0.1"}}

Addressed ==
    {Full("auth user", "10.0.0.1"), Full("auth radius-server", "10.0.0.1"),
     Full("auth ldap", "10.0.0.1"),
     Lists("auth radius", "10.0.0.1", "servers" :> <<"10.0.0.1">>)}

Device(name, hostname, addresses) ==
    [Full("cm device", name) EXCEPT !.addresses = addresses, !.hostname = hostname]
SelfIp(name, address) == [Full("net self", name) EXCEPT !.addresses = {address}]
ClusterStanzas ==
    {Device("d1", "d1", {"n1", "n2"}), Device("d2", "d2", {"n3"}), Device("d1", "other", {"n1"}),
     [Bare("cm device", "d4") EXCEPT !.hostname = "d4"],
     SelfIp("a", "n1"), SelfIp("a", "n3"), SelfIp("b", "n4"),
     Lists("cm device-group", "g", "members" :> <<"d2", "d1">>),
     Bare("cm traffic-group", "t")}

TwoOfOurs == <<Device("d1", "d1", {"n1"}), Device("d2", "d2", {"n4"}),
               SelfIp("a", "n1"), SelfIp("b", "n4"),
               Lists("cm device-group", "g", "members" :> <<"d3", "d1">>)>>

(* An object that refers, and one it refers to, in either order.           *)
KindOf(class) == CHOOSE kind \in Kinds : class \in ClassesOf(kind)
Referrer(row, n) ==
    Stanza4(KindOf(row.class), "r", {row.class},
            row.list :> <<n, "b">> @@ "rules" :> <<"whole">> @@ "members" :> <<n>>)
RefStanzas ==
    UNION {{<<Referrer(r, n), Full(KindOf(c), n)>> : c \in r.to, n \in {"a", "my-x", "10.0.0.1"}} :
              r \in DeviceReferences}

MCConfigurations ==
    RefStanzas \cup {<<c[2], c[1]>> : c \in RefStanzas} \cup
    UpTo(2, Named4 \cup Listed \cup Auth) \cup UpTo(3, Named4) \cup UpTo(3, Auth \cup {Full("net vlan", "source")})
    \cup UpTo(4, RadiusStanzas) \cup UpTo(3, Addressed) \cup UpTo(4, ClusterStanzas) \cup {TwoOfOurs}
=============================================================================
