------------------------------ MODULE Monitors ------------------------------
(***************************************************************************)
(* Health monitors: src/src/lib/AS3/customMaps/monitor.js, sixteen types   *)
(* whose properties share one dictionary (lookupOverride 'ltm monitor').   *)
(*                                                                         *)
(* A stanza is a function from the properties it has to their values.  The *)
(* destination is a record of an address and a port, any other value is    *)
(* a text; "none" is BIG-IP's word for no text at all.                     *)
(***************************************************************************)
EXTENDS Naturals, Sequences, FiniteSets, TLC

(* A mapped IPv6 address has dots, as the port's separator is one.         *)
Destination(form, address, port) == [form |-> form, address |-> address, port |-> port]

(* The names the dictionary changes (external: autotoolDeps' properties).  *)
AltId == "adaptive-divergence-value" :> "adaptiveDivergencePercentage"
         @@ "cert" :> "clientCertificate" @@ "filter" :> "codesUp" @@ "filter-neg" :> "codesDown"
         @@ "mode" :> "protocol" @@ "recv" :> "receive" @@ "recv-disable" :> "receiveDown"
         @@ "ssl-profile" :> "clientTLS" @@ "password" :> "passphrase" @@ "run" :> "pathname"
         @@ "adaptive-divergence-type" :> "adaptiveDivergenceType" @@ "up-interval" :> "upInterval"
NameOf(id) == IF id \in DOMAIN AltId THEN AltId[id] ELSE id

Has(f, p) == p \in DOMAIN f
Except(f, ps) == [p \in DOMAIN f \ ps |-> f[p]]
Only(f, ps) == [p \in DOMAIN f \cap ps |-> f[p]]
Empty == [p \in {} |-> ""]
-----------------------------------------------------------------------------
(* What an entry of the map does: the names it gives properties, those of  *)
(* which "none" becomes the empty text, those that "none" removes, those   *)
(* that are encrypted, those that are lists of numbers, the defaults it    *)
(* puts in, and whether it looks at the target, adaptive or a certificate. *)
Entry(renames, emptied, dropped, secret, numbers, defaults, does) ==
    [renames |-> renames, emptied |-> emptied, dropped |-> dropped, secret |-> secret,
     numbers |-> numbers, defaults |-> defaults, does |-> does]

Quiet == "upInterval" :> "0" @@ "transparent" :> "false"
Watched == Quiet @@ "reverse" :> "false"
Passphrase == {"passphrase"}
Texts == {"receive", "send"}

PlainTypes ==
    "dns" :> Entry(Empty, {}, {}, {}, {}, Watched, {"target", "adaptive"})
    @@ "external" :> Entry(Empty, {}, {}, {}, {}, "pathname" :> "none", {})
    @@ "ftp" :> Entry("protocol" :> "mode", {}, {}, Passphrase, {}, Empty, {"target"})

WebTypes ==
    "http" :> Entry(Empty, Texts, {"receiveDown"}, Passphrase, {}, Empty, {"target", "adaptive"})
    @@ "http2" :> Entry(Empty, Texts, {"receiveDown", "clientTLS"}, Passphrase, {}, Empty, {"target"})
    @@ "https" :> Entry(Empty, Texts, {"receiveDown", "clientTLS"}, Passphrase, {}, Watched,
                        {"target", "adaptive", "certificate"})

QueryTypes ==
    "gateway-icmp" :> Entry(Empty, {}, {}, {}, {}, Quiet, {"target", "adaptive"})
    @@ "ldap" :> Entry("codesUp" :> "filter", {}, {}, Passphrase, {}, Empty, {"target"})
    @@ "mysql" :> Entry(Empty, {"send"}, {"receive"}, Passphrase, {}, Empty, {"target"})
    @@ "postgresql" :> Entry(Empty, {}, {}, Passphrase, {}, Empty, {"target"})
    @@ "radius" :> Entry(Empty, {}, {}, Passphrase \cup {"secret"}, {}, Empty, {"target"})

WireTypes ==
    "sip" :> Entry(Empty, {}, {}, {}, {"codesUp", "codesDown"}, Empty, {"target", "certificate"})
    @@ "smtp" :> Entry(Empty, {}, {}, {}, {}, "domain" :> "none", {})
    @@ "tcp" :> Entry(Empty, Texts \cup {"receiveDown"}, {}, {}, {}, Watched, {"target", "adaptive"})
    @@ "tcp-half-open" :> Entry(Empty, {}, {}, {}, {}, Quiet, {"target"})
    @@ "udp" :> Entry(Empty, Texts \cup {"receiveDown"}, {}, {}, {}, Watched, {"target", "adaptive"})

Entries == PlainTypes @@ WebTypes @@ QueryTypes @@ WireTypes
Types == DOMAIN Entries
-----------------------------------------------------------------------------
(* Slips one could make in the definitions below, for the mutation runs.   *)
PercentageKept(m) ==
    IF Has(m, "adaptiveDivergenceType") /\ m["adaptiveDivergenceType"] = "absolute"
    THEN [p \in DOMAIN m \cup {"adaptiveDivergenceMilliseconds"} |->
             IF p = "adaptiveDivergenceMilliseconds" THEN "100" ELSE m[p]]
    ELSE m
-----------------------------------------------------------------------------
(* keyValueRemaps, through customHandling: one property becomes one or none *)
Valued(e, key, value) ==
    CASE key \in DOMAIN e.renames -> e.renames[key] :> value
      [] key \in e.emptied /\ value = "none" -> key :> ""
      [] key \in e.dropped /\ value = "none" -> Empty
      [] key \in e.secret -> key :> "encrypted " \o value
      [] key \in e.numbers -> key :> (IF value = "none" THEN "not a number" ELSE "numbers " \o value)
      [] OTHER -> key :> value

Mapped(e, stanza) ==
    LET parts == {Valued(e, NameOf(id), stanza[id]) : id \in DOMAIN stanza}
    IN  [p \in UNION {DOMAIN f : f \in parts} |-> (CHOOSE f \in parts : p \in DOMAIN f)[p]]

(* An absolute divergence has come as a percentage; without a type it is   *)
(* relative, and the milliseconds are put beside it.                       *)
Adapted(m) ==
    CASE m["adaptive"] = "disabled" -> m
      [] ~ Has(m, "adaptiveDivergenceType") ->
            "adaptiveDivergenceType" :> "relative" @@ "adaptiveDivergenceMilliseconds" :> "100" @@ m
      [] m["adaptiveDivergenceType"] = "absolute" ->
            "adaptiveDivergenceMilliseconds" :>
                (IF Has(m, "adaptiveDivergencePercentage") THEN m["adaptiveDivergencePercentage"] ELSE "undefined")
            @@ Except(m, {"adaptiveDivergencePercentage"})
      [] OTHER -> m

(* Of a mapped address only what stands before the first dot is left.      *)
Aimed(m) ==
    LET d == m["destination"]
        address == CASE d.form = "any" -> "" [] d.form = "mapped" -> "beginning" [] OTHER -> d.address
        port == CASE d.form = "any" -> "0" [] d.form = "mapped" -> "octet" [] OTHER -> d.port
    IN  "targetAddress" :> address @@ "targetPort" :> port @@ Except(m, {"destination"})

(* customHandling of the type.                                             *)
Finished(e, m) ==
    LET certified == IF "certificate" \in e.does /\ Has(m, "clientCertificate") THEN Except(m, {"key"}) ELSE m
        aimed == CASE "target" \notin e.does -> Except(certified, {"destination"})
                   [] Has(certified, "destination") -> Aimed(certified)
                   [] OTHER -> certified
        filled == aimed @@ e.defaults
    IN  IF "adaptive" \in e.does /\ Has(filled, "adaptive") THEN Adapted(filled) ELSE filled

Converted(type, stanza) == Finished(Entries[type], Mapped(Entries[type], stanza))
-----------------------------------------------------------------------------
(* What a finished monitor says, in the words of the stanza.               *)
TargetIn(m) == IF Has(m, "targetAddress") THEN <<m["targetAddress"], m["targetPort"]>> ELSE <<>>

(* AS3 reads the milliseconds of an absolute divergence and the percentage *)
(* of a relative one.                                                      *)
DivergenceIn(m) ==
    LET type == IF Has(m, "adaptiveDivergenceType") THEN m["adaptiveDivergenceType"] ELSE "relative"
        value == IF type = "absolute" THEN "adaptiveDivergenceMilliseconds" ELSE "adaptiveDivergencePercentage"
    IN  <<type, IF Has(m, value) THEN m[value] ELSE "undefined">>
=============================================================================
