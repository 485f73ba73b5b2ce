------------------------ MODULE MCConversionHelpers -------------------------
(***************************************************************************)
(* The algorithms between the stages of a conversion, each beside its      *)
(* reference definition: an input is chosen, and one step computes what    *)
(* the code makes of it.                                                   *)
(***************************************************************************)
EXTENDS Naturals, Sequences, FiniteSets, TLC

CONSTANTS EndsOf, Schema, DoSchema

Blocks == INSTANCE StanzaBlocks
Html == INSTANCE HtmlRules
Tls == INSTANCE ServiceProfiles
Pool == INSTANCE PoolMembers
Clean == INSTANCE NextCleanUp
Mon == INSTANCE Monitors
Sec == INSTANCE SecurityProfiles
Def == INSTANCE DeclarationDefaults

(* The same without schemas, to write the schemas with.                    *)
Ask == INSTANCE DeclarationDefaults WITH Schema <- <<>>, DoSchema <- <<>>

VARIABLES stage, input, output

vars == <<stage, input, output>>

UpTo2(S) == {<<>>} \cup {<<x>> : x \in S} \cup {<<x, y>> : x \in S, y \in S}
-----------------------------------------------------------------------------
(* Stanzas: blocks down to the third level, unnamed ones, names that come  *)
(* twice, and strings whose lines look like something else.                *)
Last == Blocks!Line(0, "end", "", "t")
Texts == {<<Last>>} \cup {<<Blocks!Line(n, f, "", "x"), Last>> : n \in {0, 1, 2, 4, 8}, f \in {"close", "pair", "open"}}
Leaves == {Blocks!Item(t, "a", "v", <<>>) : t \in {"pair", "array", "empty", "word"}}
          \cup {Blocks!Item("string", "s", "v", x) : x \in Texts}
Few == {Blocks!Item("pair", "a", "v", <<>>), Blocks!Item("empty", "b", "v", <<>>),
        Blocks!Item("string", "s", "v", <<Blocks!Line(4, "close", "", "x"), Last>>),
        Blocks!Item("string", "s", "v", <<Blocks!Line(0, "close", "", "x"), Last>>)}
BlocksOf(S) == {Blocks!Item("block", k, "", s) : k \in {"", "a"}, s \in S}
Least == {Blocks!Item("block", "monitor min", "", <<Blocks!Item("word", k, "", <<>>)>>) : k \in {"m", "n"}}
Deep == BlocksOf(UpTo2(BlocksOf(UpTo2(Few))))
Defined == {Blocks!Item("pair", "user-defined", d, <<>>) : d \in {"d", "e"}}
Bodies == UpTo2(Leaves \cup BlocksOf(UpTo2(Few))) \cup {<<x>> : x \in Deep \cup Least \cup BlocksOf(UpTo2(Leaves))}
           \cup {<<y, x>> : x \in Least, y \in Few}
Stanzas == {<<"ltm pool", b>> : b \in Bodies}
           \cup {<<title, b>> : title \in {"ltm rule", "cli script"}, b \in UpTo2(Few)}
           \cup {<<"gtm monitor external", b>> : b \in UpTo2(Defined \cup Few) \cup {<<x>> \o b : x \in Few, b \in UpTo2(Defined)}}

(* HTML rules.                                                             *)
Attributes == UNION {[ps -> {"v"}] : ps \in SUBSET Html!MatchProperties}
ActionsOf(type) == CASE type \in Html!Inserts -> {[p \in {"text"} |-> "w"], Html!None}
                     [] type = Html!Attribute -> {[p \in {"attributeName"} |-> "w"], Html!None}
                     [] OTHER -> {}
HtmlStanzas(type) ==
    {[b \in {} |-> Html!None]}
    \cup {"action" :> a : a \in ActionsOf(type)}
    \cup (IF type \in Html!Comments THEN {}
          ELSE {"match" :> a : a \in Attributes}
               \cup {("action" :> a) @@ ("match" :> b) : a \in ActionsOf(type), b \in Attributes})

(* Up to four TLS profiles of one kind, with and without a number behind.  *)
Profile(part, name, dict, default, copy) ==
    [partition |-> part, name |-> name, dict |-> dict, default |-> default, copy |-> copy]
Profiles == {Profile("Common", "clientssl", TRUE, TRUE, FALSE), Profile("Common", "unlisted", TRUE, FALSE, FALSE),
             Profile("Common", "p", FALSE, FALSE, FALSE), Profile("Common", "p-1", FALSE, FALSE, TRUE),
             Profile("T", "q", FALSE, FALSE, FALSE), Profile("T", "q-1", FALSE, FALSE, TRUE)}
ProfileLists == UNION {{s \in [1..n -> Profiles] : \A i, j \in 1..n : s[i] = s[j] => i = j} : n \in 0..4}

(* Up to three members of a pool, each with some of two settings.          *)
Settings == UNION {[s -> 1..2] : s \in SUBSET {"port", "ratio"}}
Member(server, kind, settings) == [server |-> server, kind |-> kind, settings |-> settings]
MembersAt(server) == {Member(server, k, s) : k \in {"address", "named", "fqdn"}, s \in Settings}
MemberLists == {<<x>> : x \in MembersAt("s1")} \cup {<<x, y>> : x \in MembersAt("s1"), y \in MembersAt("s2")}
               \cup {<<x, y, z>> : x \in MembersAt("s1"), y \in MembersAt("s2"), z \in MembersAt("s3")}

(* Declarations from which AS3 Next drops one or two paths.                *)
Objects == {Clean!Obj([k \in s |-> Clean!Leaf(k)]) : s \in SUBSET {"c", "d"}}
Arrays == {Clean!Arr(s) : s \in UNION {[1..n -> Objects \cup {Clean!Leaf("l")}] : n \in 1..3}}
Declarations == {Clean!Obj(("x" :> v) @@ ("y" :> w)) :
                    v \in Objects \cup Arrays,
                    w \in {Clean!Leaf("l"), Clean!Obj([k \in {} |-> Clean!Leaf(k)]),
                           Clean!Arr(<<Clean!Leaf("l"), Clean!Leaf("k")>>)}}
Within(v) == CASE v.is = "object" -> DOMAIN v.of
               [] v.is = "array" -> {ToString(i - 1) : i \in DOMAIN v.of}
               [] OTHER -> {}
Paths(decl) == {<<k>> : k \in Within(decl)}
               \cup UNION {{<<k, j>> : j \in Within(decl.of[k])} : k \in Within(decl)}
               \cup UNION {UNION {{<<k, j, i>> : i \in Within(Clean!Child(decl.of[k], j))} :
                                  j \in Within(decl.of[k])} : k \in Within(decl)}

(* Stanzas of which some objects are dropped; 'ba' ends with 'a'.          *)
MCEndsOf == [n \in {"a", "ba", "c"} |-> IF n = "ba" THEN {"a", "ba"} ELSE {n}]
KeyPaths == {<<"Common", "a">>, <<"Common", "ba">>, <<"T", "a">>, <<"T", "c">>, <<"Common", "F", "c">>, <<"T", "A", "ba">>}
Keys == {[type |-> "pool", path |-> p] : p \in KeyPaths}
KeyLists == UNION {{s \in [1..n -> Keys] : \A i, j \in 1..n : Clean!Placed(s[i]) = Clean!Placed(s[j]) => i = j} : n \in 1..3}

(* Monitors: any target with two settings of the adaptive kind, and any    *)
(* texts with or without a target.                                         *)
Variants(p, vs) == {Mon!Empty} \cup {p :> v : v \in vs}
Products(S, T) == {f @@ g : f \in S, g \in T}
Targets == Variants("destination", {Mon!Destination("v4", "a", "80"), Mon!Destination("v4", "a", "http"),
                                    Mon!Destination("v6", "b", "80"), Mon!Destination("any", "*", "*"),
                                    Mon!Destination("any", "*", "80"), Mon!Destination("mapped", "c", "80")})
MayAdapt == {"dns", "http", "http2", "https", "gateway-icmp", "tcp", "udp"}
Adaptives(type) ==
    IF type \notin MayAdapt THEN {Mon!Empty}
    ELSE Products({"adaptive" :> v : v \in {"enabled", "disabled"}},
                  Products(Variants("adaptive-divergence-type", {"absolute", "relative"}),
                           Variants("adaptive-divergence-value", {"25"})))
TextIds(type) ==
    CASE type \in {"http", "tcp", "udp"} -> {"recv", "recv-disable", "send"}
      [] type = "http2" -> {"recv", "recv-disable", "send", "ssl-profile"}
      [] type = "https" -> {"recv", "recv-disable", "send", "ssl-profile"}
      [] type \in {"mysql", "postgresql"} -> {"recv", "send"}
      [] type = "dns" -> {"recv"}
      [] type = "sip" -> {"filter", "filter-neg"}
      [] OTHER -> {}
WordIds(type) ==
    CASE type \in {"http", "http2", "mysql", "postgresql"} -> {"password"}
      [] type = "https" -> {"password", "cert", "key"}
      [] type = "ftp" -> {"mode", "password"}
      [] type = "ldap" -> {"filter", "password"}
      [] type = "radius" -> {"secret", "password"}
      [] type = "sip" -> {"cert", "key", "mode"}
      [] type = "smtp" -> {"domain"}
      [] type = "external" -> {"run"}
      [] OTHER -> {"up-interval"}
MonitorTexts(type) ==
    Products(UNION {[ps -> {"none", "v"}] : ps \in SUBSET TextIds(type)},
             UNION {[ps -> {"w"}] : ps \in SUBSET WordIds(type)})
MonitorStanzas(type) ==
    Products(Targets, Adaptives(type))
    \cup Products(MonitorTexts(type), {Mon!Empty, "destination" :> Mon!Destination("v4", "a", "80")})

(* Profiles against denial of service: two settings of two sources, or up  *)
(* to two blocks of up to two vectors.                                     *)
Detected == {<<s, k>> : s \in {"ip", "url"}, k \in {"enable-heavy", "captcha-challenge", "maximum-tps", "minimum-tps"}}
Detections == UNION {[ks -> {"enabled", "disabled"}] : ks \in {S \in SUBSET Detected : Cardinality(S) <= 3}}
Bounds == Products(Variants("floor", {"infinite", "7"}), Variants("ceiling", {"infinite", "9"}))
Vectors == {[type |-> "t", has |-> h] :
               h \in Products(Bounds, Products(Variants("state", {"disabled"}), Variants("rate-increase", {"5"})))}
Few2 == {[type |-> "u", has |-> h] : h \in Bounds}
VectorBlocks == {<<<<v>>>> : v \in Vectors} \cup {<<<<v>>, <<w>>>> : v \in Vectors, w \in Few2}
                \cup {<<<<v, w>>>> : v \in Few2, w \in Few2}

(* SSH profiles: up to two rules of up to two sets of actions.             *)
SshActions == {[control |-> c, log |-> l] : c \in {"unspecified", "disallow"}, l \in {"yes", "no"}}
SshSets == {[name |-> n, actions |-> a] : n \in {"s1", "s2"}, a \in UNION {[ks -> SshActions] : ks \in SUBSET {"shell", "scp"}}}
SshRules(name) == {[name |-> name, sets |-> s] : s \in {<<x>> : x \in SshSets} \cup
                       {<<x, y>> : x \in {z \in SshSets : z.name = "s1"}, y \in {z \in SshSets : z.name = "s2"}}}
SshSingle == {[name |-> "r2", sets |-> <<x>>] : x \in SshSets}
SshAuth == [a |-> [server |-> [k \in {"private-key", "public-key"} |-> "k"], client |-> [k \in {"public-key"} |-> "k"]]]
SshProfiles == {[defaults |-> d, rules |-> r, auth |-> SshAuth] :
                   d \in {<<x>> : x \in SshSets},
                   r \in {<<>>} \cup {<<x>> : x \in SshSingle}}
               \cup {[defaults |-> <<x>>, rules |-> <<y>>, auth |-> SshAuth] :
                        x \in {z \in SshSets : DOMAIN z.actions = {}}, y \in SshRules("r1")}
               \cup {[defaults |-> <<x>>, rules |-> <<y, z>>, auth |-> SshAuth] :
                        x \in {z \in SshSets : DOMAIN z.actions = {}}, y \in SshSingle, z \in SshSingle}

(* An excerpt of AS3's schema: defaults of a class itself and of what it   *)
(* extends, which may differ (layer4), a list, a pointer that is also a    *)
(* default profile (profileIPOther), a branch that refers to another       *)
(* definition, and a profile without a default (profileSCTP).              *)
MCSchema ==
    LET Says(v) == Ask!Own(Ask!Text(v))
    IN  [Service_Core |-> Ask!Extending(<<>>, [snat |-> Says("auto")]),
         Service_TCP_Core |-> Ask!Extending(<<"Service_Core">>, [profileTCP |-> Says("normal"), layer4 |-> Says("tcp")]),
         Service_TCP |-> Ask!Extending(<<"Service_TCP_Core">>, [persistenceMethods |-> Ask!Own(Ask!List(<<"source-address">>))]),
         Service_HTTP_Core |-> Ask!Extending(<<"Service_TCP_Core">>,
                                   [profileHTTP |-> Says("basic"), persistenceMethods |-> Ask!Own(Ask!List(<<"cookie">>))]),
         Service_HTTP |-> Ask!Extending(<<"Service_HTTP_Core">>, [virtualPort |-> Says("80")]),
         Service_L4_Core |-> Ask!Extending(<<"Service_Core">>, [layer4 |-> Says("tcp"), profileL4 |-> Says("basic")]),
         Service_Generic |-> Ask!Extending(<<"Service_L4_Core">>,
                                 [layer4 |-> Says("any"), profileIPOther |-> Ask!Own(Ask!Bigip("ipother"))]),
         Service_Forwarding |-> Ask!Extending(<<"Service_Core">>,
                                    [layer4 |-> Says("any"), profileL4 |-> Ask!Through("", "Pointer_L4_Profile")]),
         Pointer_L4_Profile |-> Ask!Extending(<<>>, [bigip |-> Ask!Neither]),
         Service_SCTP |-> Ask!Extending(<<"Service_Core">>, [layer4 |-> Says("sctp"), profileSCTP |-> Ask!Neither])]
MCDoSchema == <<[class |-> "VLAN", props |-> [mtu |-> Ask!Text("1500")]],
                [class |-> "Tunnel", props |-> [mtu |-> Ask!Text("0")]],
                [class |-> "Trunk", props |-> [interfaces |-> Ask!List(<<>>)]]>>

(* Declarations with values that are defaults, nearly so, or of another    *)
(* class, and words for profiles.                                          *)
Pointers(prop, names, words) == Variants(prop, {Def!Bigip(n) : n \in names} \cup {Def!Text(w) : w \in words})
Tcps == Pointers("profileTCP", {"f5-tcp-progressive", "tcp-lan-optimized"}, {"normal"})
L4s == Pointers("profileL4", {"fastL4", "ipother"}, {"basic"})
Layers == Variants("layer4", {Def!Text("any"), Def!Text("tcp")})
Methods == Variants("persistenceMethods", {Def!List(<<"source-address">>), Def!List(<<"cookie">>), Def!List(<<>>),
                                           Def!Text("source-address")})
Snats == Variants("snat", {Def!Text("auto"), Def!Text("none")})
PropsOf ==
    [Service_TCP |-> Products(Products(Tcps, Methods), Snats),
     Service_HTTP |-> Products(Products(Tcps, Pointers("profileHTTP", {"http", "f5-tcp-progressive"}, {"basic"})),
                               Products(Methods, Variants("virtualPort", {Def!Text("80"), Def!Text("443")}))),
     Service_Generic |-> Products(Products(Layers, L4s), Pointers("profileIPOther", {"ipother", "fastL4"}, {})),
     Service_Forwarding |-> Products(Layers, L4s),
     Service_SCTP |-> Products(Layers, Pointers("profileSCTP", {"sctp", "fastL4"}, {})),
     Unlisted |-> Products(Layers, Tcps)]
Described == UNION {{Def!Object(c, ps) : ps \in PropsOf[c]} : c \in DOMAIN PropsOf}
Bare(class) == Def!Object(class, Mon!Empty)
Trees == {<<"T">> :> Bare("Tenant") @@ <<"T", "A">> :> Bare("Application") @@ <<"T", "A", "x">> :> o
              @@ <<"T", "A", "y">> :> q :
              o \in Described, q \in {Def!Object("Service_Generic", ps) : ps \in Layers}}
         \cup {<<"T">> :> Bare(c) @@ <<"T", "A">> :> Bare(d) @@ <<"T", "A", "x">> :> o :
              c \in {"Tenant", "Unlisted"}, d \in {"Application", "Unlisted"}, o \in Described}
DoProps == Products(Variants("mtu", {Def!Text("1500"), Def!Text("0")}),
                    Variants("interfaces", {Def!List(<<>>), Def!List(<<"1.1">>)}))
DoObjects == {"v" :> Def!Object(c, ps) @@ "w" :> Def!Object("VLAN", qs) :
                 c \in {"VLAN", "Tunnel", "Trunk", "Route"}, ps \in DoProps, qs \in DoProps}
-----------------------------------------------------------------------------
Init == /\ stage \in {"parse", "html", "tls", "pool", "delete", "report",
                       "monitor", "dos", "ssh", "defaults"}
        /\ CASE stage = "parse" -> input \in Stanzas
             [] stage = "html" -> \E t \in Html!RuleTypes : \E s \in HtmlStanzas(t) : input = <<t, s>>
             [] stage = "tls" -> input \in ProfileLists
             [] stage = "pool" -> input \in MemberLists
             [] stage = "delete" ->
                    \E d \in Declarations : \E p, q \in Paths(d) :
                        input = <<d, IF p = q THEN <<p>> ELSE <<p, q>>>>
             [] stage = "report" ->
                    \E s \in KeyLists : \E dropped \in SUBSET (1..Len(s)) :
                        \E order \in [1..Cardinality(dropped) -> dropped] :
                            /\ \A i \in dropped : \E j \in DOMAIN order : order[j] = i
                            /\ input = <<s, [j \in DOMAIN order |-> Clean!Placed(s[order[j]])]>>
             [] stage = "monitor" -> \E t \in Mon!Types : \E s \in MonitorStanzas(t) : input = <<t, s>>
             [] stage = "dos" -> \/ \E c \in Detections : input = <<"application", c>>
                                 \/ \E p \in {"dns", "sip"} : \E b \in VectorBlocks : input = <<p, b>>
             [] stage = "ssh" -> input \in SshProfiles
             [] stage = "defaults" -> \/ \E d \in Trees : input = <<"AS3", d>>
                                      \/ \E d \in DoObjects : input = <<"DO", d>>
        /\ output = <<>>

Step(from, result) == /\ stage = from
                      /\ stage' = from \o " done"
                      /\ output' = result
                      /\ UNCHANGED input

ParseStanza == Step("parse", Blocks!Orchestrate(input[1], Blocks!LinesOf(input[2], 1)))
ConvertRule == Step("html", Html!Converted(input[1], input[2]))
CollectProfiles == Step("tls", Tls!TlsOf(input))
MergeMembers == stage = "pool" /\ Step("pool", Pool!MembersOf(input))
DeletePaths == stage = "delete" /\ Step("delete", Clean!CleanedUp(input[1], input[2]))
ReportDropped == stage = "report" /\ Step("report", Clean!NextFiltered(input[1], Clean!NotSupported(input[2])))
ConvertMonitor == Step("monitor", Mon!Converted(input[1], input[2]))
ConvertDosProfile ==
    Step("dos", IF input[1] = "application" THEN Sec!Detection(input[2]) ELSE Sec!VectorsFrom(input[1], input[2]))
ConvertSshProfile == Step("ssh", Sec!SshProfile(input))
RemoveDefaults ==
    Step("defaults", IF input[1] = "AS3" THEN Def!As3WithoutDefaults(input[2]) ELSE Def!DoWithoutDefaults(input[2]))

Next == \/ ParseStanza \/ ConvertRule \/ CollectProfiles \/ MergeMembers
        \/ DeletePaths \/ ReportDropped
        \/ ConvertMonitor \/ ConvertDosProfile \/ ConvertSshProfile \/ RemoveDefaults

Spec == Init /\ [][Next]_vars
-----------------------------------------------------------------------------
(* A stanza comes back as what its text means, however its blocks nest,    *)
(* also the unnamed ones, and strings over several lines (parser.js 34-134)*)
(* -- unless a string of a nested block has lines that are indented.       *)
BlocksComeBack ==
    stage = "parse done" /\ Blocks!FlushIn(input[2], FALSE) =>
        output = (input[1] :> Blocks!Meant(input[1], input[2]))

(* The attribute an HTML rule removes and the one it looks for keep apart, *)
(* which is what the handlers are made for (html_rule.js 34-41) -- unless  *)
(* the rule looks for no attribute: it then looks for the one it removes.  *)
RuleKeepsItsAttributes ==
    stage = "html done" =>
        LET type == input[1]
            stanza == input[2]
            match == Html!BlockOf(stanza, "match")
        IN  IF type = Html!Attribute /\ ~ Html!Has(stanza, "action")
            THEN output.class = "thrown"
            ELSE /\ output.class = type
                 /\ output.own = Html!SaidByAction(type, stanza)
                 /\ \/ output.match = match
                    \/ /\ type = Html!Attribute /\ ~ Html!Has(match, "attributeName")
                       /\ Html!Except(output.match, {"attributeName"}) = match

(* Of several TLS profiles all that are no copies stay, in their order,    *)
(* though the loop takes elements out of the array it walks (service.js    *)
(* 164-174); the virtual server is given up only for a profile that looks  *)
(* like a copy in the first place, or a single one of which only           *)
(* getObjectType knows.                                                    *)
TlsProfilesStay ==
    stage = "tls done" =>
        IF output = <<"thrown">>
        THEN input[1].copy \/ (Len(input) = 1 /\ input[1].dict /\ ~ input[1].default)
        ELSE LET stay == IF Len(input) = 1 THEN input ELSE Tls!Originals(input)
             IN  Tls!NamesIn(output) = [i \in DOMAIN stay |-> stay[i].name]

(* Every server of a pool is in exactly one member of the result, and that *)
(* has all the settings the server had (pool.js 24-87).  The converse does *)
(* not hold: a member without a setting joins one that has it.             *)
ServersKeepTheirSettings ==
    stage = "pool done" =>
        \A i \in DOMAIN input :
            LET m == input[i]
                places == Pool!PlacesOf(m, output)
            IN  /\ Cardinality(places) = 1
                /\ \A e \in places : \A s \in DOMAIN m.settings :
                       s \in DOMAIN output[e].settings /\ output[e].settings[s] = m.settings[s]

(* Deleting the paths one after the other deletes these, what they leave   *)
(* empty and nothing else (deleteProperty.js 30-63), unless an earlier     *)
(* path has moved the elements of the array a later one leads into: then   *)
(* the later one deletes what has its number by then, and behind the end   *)
(* just leaves a hole.  Arrays with empty elements are left aside: of      *)
(* those others are deleted.                                               *)
OnlyTheDeletedGoes ==
    stage = "delete done" /\ ~ Clean!Holey(input[1], input[2]) =>
        /\ Clean!NoHoles(output) = Clean!OneByOne(input[1], input[2])
        /\ ~ Clean!Shifts(input[1], input[2]) =>
               output = Clean!Without(input[1], {input[2][i] : i \in DOMAIN input[2]})

(* Every object AS3 Next drops counts once, as a stanza or as of undefined *)
(* type, and where no name ends with another one it is the stanza it came  *)
(* from (main.js 48-89), though Common's folders are lost on the way.      *)
(* Where names do, a stanza that was not dropped is only reported in place *)
(* of one whose name its own ends with, which is then not reported; no     *)
(* stanza named exactly is missed, and nothing is of undefined type as     *)
(* long as a stanza is left that it could be.                              *)
ReportedUnderOwnKey ==
    stage = "report done" =>
        LET keys == {input[1][i] : i \in DOMAIN input[1]}
            left == {output.left[i] : i \in DOMAIN output.left}
            items == {input[2][i] : i \in DOMAIN input[2]}
            dropped == {k \in keys : Clean!Placed(k) \in items}
            EndsLike(k, name) == name \in EndsOf[Clean!NameOf(k.path)]
            clear == \A k, l \in keys : EndsLike(k, Clean!NameOf(l.path)) => k = l
        IN  /\ left = keys \ output.found
            /\ Cardinality(output.found) + Cardinality(output.undefined) = Len(input[2])
            /\ clear => output.found = dropped
            /\ \A k \in output.found \ dropped :
                   \E d \in dropped \ output.found : EndsLike(k, Clean!NameOf(d.path))
            /\ \A k \in dropped : k.path = Clean!InCommon(Clean!Placed(k)) => k \in output.found
            /\ \A item \in output.undefined : \A k \in left : ~ EndsLike(k, Clean!NameOf(item))

(* A monitor keeps its target, its texts, its keys and its divergence      *)
(* under the names AS3 has for them, whichever of the sixteen types it is  *)
(* (monitor.js 26-499) -- unless it has no target in AS3, the address is   *)
(* the wildcard (the port is lost) or an IPv6 address with dots, or it is  *)
(* an HTTP/2 monitor with an absolute divergence.                          *)
MonitorsReadBack ==
    stage = "monitor done" =>
        LET type == input[1]
            stanza == input[2]
            Says(id) == Mon!Has(stanza, id) /\ stanza[id] # "none"
            Name(id) == CASE id = "filter" /\ type = "ldap" -> "filter"
                          [] id = "mode" /\ type = "ftp" -> "mode"
                          [] OTHER -> Mon!NameOf(id)
            Value(id) == CASE id \in {"password", "secret"} -> "encrypted " \o stanza[id]
                           [] type = "sip" /\ id \in {"filter", "filter-neg"} -> "numbers " \o stanza[id]
                           [] OTHER -> stanza[id]
            certified == type \in {"https", "sip"} /\ Says("cert")
        IN  /\ IF type \in {"external", "smtp"} \/ ~ Mon!Has(stanza, "destination")
               THEN Mon!TargetIn(output) = <<>>
               ELSE LET d == stanza["destination"] IN
                    \/ d.form = "mapped"
                    \/ Mon!TargetIn(output) = IF d.form = "any" THEN <<"", "0">> ELSE <<d.address, d.port>>
            /\ \A id \in TextIds(type) \cup WordIds(type) :
                   Says(id) /\ ~ (id = "key" /\ certified) =>
                       Mon!Has(output, Name(id)) /\ output[Name(id)] = Value(id)
            /\ Mon!Has(stanza, "adaptive") /\ stanza["adaptive"] = "enabled" =>
                   \/ type = "http2"
                   \/ Mon!DivergenceIn(output) =
                          <<IF Says("adaptive-divergence-type") THEN stanza["adaptive-divergence-type"] ELSE "relative",
                            IF Says("adaptive-divergence-value") THEN stanza["adaptive-divergence-value"] ELSE "undefined">>

(* The settings of an application's detection come out under their source, *)
(* all but the switch for heavy URLs, which is looked up under a wrong     *)
(* name (security.js 219), and the first vector of each block keeps both   *)
(* its bounds, but for a finite floor of SIP (405).                        *)
DosSettingsAreKept ==
    stage = "dos done" =>
        IF input[1] = "application"
        THEN \A sk \in DOMAIN input[2] : sk[2] # "enable-heavy" =>
                output[Sec!SourceName[sk[1]]][Sec!SettingName[sk[2]]] =
                    CASE sk[2] \notin DOMAIN Sec!Switches -> input[2][sk]
                      [] input[2][sk] = "enabled" -> "true"
                      [] OTHER -> "false"
        ELSE /\ Len(output) = Len(input[2])
             /\ \A i \in DOMAIN output :
                    LET v == input[2][i][1]
                        out == output[i]
                    IN  /\ out["type"] = v.type
                        /\ Sec!Has(v.has, "ceiling") => out["autoAttackCeiling"] = Sec!Bound(v.has["ceiling"])
                        /\ Sec!Has(v.has, "floor") =>
                               \/ input[1] = "sip" /\ v.has["floor"] # "infinite" /\ "autoAttackFloor" \notin DOMAIN out
                               \/ Sec!Has(out, "autoAttackFloor") /\ out["autoAttackFloor"] = Sec!Bound(v.has["floor"])

(* What a rule for SSH controls and logs is in the profile, and what is in *)
(* the profile stands in the rule, as long as a rule has one set of        *)
(* actions; of several sets the last one stands for all, because they      *)
(* share one object (security.js 777-806).  What a rule controls without   *)
(* logging it is lost either way; the default actions are all there.       *)
SshActionsAreKept ==
    stage = "ssh done" =>
        LET Logged(a) == a.control = "disallow" /\ a.log = "yes"
            sets == [r \in DOMAIN input.rules |-> input.rules[r].sets]
            Entries(r) == {j \in DOMAIN output.rules : output.rules[j].rule = input.rules[r].name}
        IN  /\ DOMAIN output.defaults.actions = DOMAIN input.defaults[1].actions
            /\ \A r \in DOMAIN input.rules :
                   (\A q \in DOMAIN input.rules : input.rules[q].name = input.rules[r].name => q = r) =>
                   /\ Cardinality(Entries(r)) = Len(sets[r])
                   /\ \A j \in Entries(r) :
                          LET last == sets[r][Len(sets[r])]
                              actions == output.rules[j].actions
                          IN  /\ output.rules[j].set = (IF last.actions = <<>> THEN "" ELSE last.name)
                              /\ \A k \in DOMAIN last.actions :
                                     k \in DOMAIN actions <=> Logged(last.actions[k])
                              /\ DOMAIN actions \subseteq DOMAIN last.actions

(* Of the denial-of-service and SSH profiles nothing else is lost.         *)
SecuritySettingsAreKept == DosSettingsAreKept /\ SshActionsAreKept

(* AS3 and DO read the same declaration whether the defaults have been     *)
(* removed or not, by what their schemas put in where a property is        *)
(* missing, from whatever definition it comes, and the profiles they mean  *)
(* by it: so the three tables of the removal (the default of a class or of *)
(* a branch, lists, default profiles: removeDefaultValuesAS3.js 25-139)    *)
(* take nothing that reads back as something else, nor does DO's           *)
(* (removeDefaultValuesDO.js 28-58) -- unless the schema gives the profile *)
(* no default at all.  The statistics do not notice (declarationStats.js   *)
(* 19-64).                                                                 *)
DefaultsComeBack ==
    stage = "defaults done" =>
        LET before == input[2]
            Reads(o, q) == IF input[1] = "AS3" THEN Def!As3Reads(o, q) ELSE Def!DoReads(o, q)
        IN  /\ DOMAIN output = DOMAIN before
            /\ \A p \in DOMAIN before :
                   /\ output[p].class = before[p].class
                   /\ \A q \in DOMAIN before[p].props \ Def!Unsaid(before[p].class) :
                          Reads(output[p], q) = Reads(before[p], q)
                   /\ \A q \in DOMAIN output[p].props : output[p].props[q] = before[p].props[q]
            /\ input[1] = "AS3" => Def!DeclarationStats(output) = Def!DeclarationStats(before)
=============================================================================
