----------------------------- MODULE CustomMaps -----------------------------
(***************************************************************************)
(* The references that the custom maps of the AS3 converter make           *)
(* (src/src/lib/AS3/customMaps).  Each kind of stanza has an entry with    *)
(* two parts: keyValueRemaps, functions that rewrite single properties,    *)
(* and customHandling, a function that rewrites the object as a whole.     *)
(* Here an entry is the set of its references: every place where it writes *)
(* the name of another object, and how it writes it.  What an entry does   *)
(* to values that name nothing is left out, so that a definition below     *)
(* says: these, and no others, are the references this entry makes.        *)
(*                                                                         *)
(*   kind       the kind of stanza                                         *)
(*   property   the property of the AS3 object                             *)
(*   by         the convention the name is written in (References)         *)
(*   at         own: a property of the object itself;                      *)
(*              list: a property that is an array of references;           *)
(*              tail: one with plain values before the references;         *)
(*              mixed: one with plain values anywhere among them;          *)
(*              inner: below a property, where removeInvalidRefs does not  *)
(*              look                                                       *)
(*   skips      the values for which nothing is written                    *)
(*   to         object: a stanza converted under its own name; cert: one   *)
(*              whose object gets the name of the stored file; file: one   *)
(*              that has no object; beside: an object this entry makes     *)
(***************************************************************************)
At(at, kinds, properties, by) ==
    [kind : kinds, property : properties, by : {by}, at : {at},
     skips : {{}}, to : {"object"}]

Own(kinds, properties, by) == At("own", kinds, properties, by)
List(kinds, properties, by) == At("list", kinds, properties, by)
Inner(kinds, properties, by) == At("inner", kinds, properties, by)

(* returnEmptyObjIfNone, and the tests for 'none' written out.             *)
UnlessNone(rows) == {[r EXCEPT !.skips = @ \cup {"none"}] : r \in rows}

UnlessDefault(rows) == {[r EXCEPT !.skips = @ \cup {"default"}] : r \in rows}

To(what, rows) == {[r EXCEPT !.to = what] : r \in rows}
-----------------------------------------------------------------------------
(* profile.js                                                              *)
AdaptProfiles == UnlessNone(Own({"ltm profile request-adapt", "ltm profile response-adapt"},
                                {"internalService"}, "use"))

AnalyticsProfiles ==
    UnlessNone(Own({"ltm profile analytics", "ltm profile tcp-analytics"},
                   {"externalLoggingPublisher"}, "use"))

CaptureFilters ==
    Inner({"ltm profile analytics traffic-capture"}, {"virtualServers"}, "text")

ClassificationProfile ==
    Own({"ltm profile classification"},
        {"logPublisher", "parentProfile", "preset", "statisticsPublisher"}, "use")

DnsProfile ==
    UnlessNone(Own({"ltm profile dns"}, {"cache", "loggingProfile", "securityProfile"}, "bigip"))
    \cup Own({"ltm profile dns"}, {"parentProfile"}, "use")

FixProfile ==
    UnlessNone(Own({"ltm profile fix"}, {"messageLogPublisher", "reportLogPublisher"}, "use"))
    \cup Own({"ltm profile fix"}, {"parentProfile"}, "use")
    \cup Inner({"ltm profile fix"}, {"tagDataGroup"}, "use")

RadiusProfile == Own({"ltm profile radius"}, {"parentProfile", "protocolProfile"}, "use")

HtmlProfile == List({"ltm profile html"}, {"rules"}, "use")

WebAcceleration == Own({"ltm profile web-acceleration"}, {"parentProfile"}, "use")

HttpProfile == Own({"ltm profile http explicit-proxy"}, {"resolver"}, "bigip")

IpOtherProfile == Own({"ltm profile ipother"}, {"parentProfile"}, "use")

RequestLogProfile ==
    Own({"ltm profile request-log"}, {"parentProfile"}, "use")
    \cup UnlessNone(Inner({"ltm profile request-log"},
                          {"requestPool", "requestErrorPool", "responsePool", "responseErrorPool"},
                          "use"))

RewriteProfile ==
    To("cert", UnlessDefault(Own({"ltm profile rewrite"}, {"certificate"}, "bare"))
               \cup Own({"ltm profile rewrite"}, {"javaCaFile"}, "use"))

StreamProfile == Own({"ltm profile stream"}, {"parentProfile"}, "use")

ServerSslProfile ==
    LET kind == {"ltm profile server-ssl"}
    IN  To("cert", Own(kind, {"clientCertificate"}, "serverCert"))
        \cup To("cert", UnlessNone(Own(kind, {"trustCA"}, "trusted")))
        \cup UnlessNone(Own(kind, {"cipherGroup"}, "use"))
        \cup To("file", UnlessNone(Own(kind, {"crlFile", "c3dCACertificate", "c3dCAKey"}, "text")))

ClientSslProfile ==
    LET kind == {"ltm profile client-ssl"}
    IN  To("cert", Inner(kind, {"certificates"}, "clientCert"))
        \cup To("cert", UnlessNone(Own(kind, {"authenticationInviteCA", "authenticationTrustCA"}, "use")))
        \cup UnlessNone(Own(kind, {"cipherGroup", "forwardProxyBypassAllowlist"}, "use"))
        \cup To("file", UnlessNone(Own(kind, {"c3dOCSP", "crlFile"}, "text")))

ProfileRows ==
    AdaptProfiles \cup AnalyticsProfiles \cup CaptureFilters \cup ClassificationProfile
    \cup DnsProfile \cup FixProfile \cup RadiusProfile \cup HtmlProfile \cup WebAcceleration
    \cup HttpProfile \cup IpOtherProfile \cup RequestLogProfile \cup RewriteProfile
    \cup StreamProfile \cup ServerSslProfile \cup ClientSslProfile
-----------------------------------------------------------------------------
(* security.js                                                             *)
DosProfile == UnlessNone(Own({"security dos profile"}, {"allowlist", "applicationAllowlist"}, "use"))

DosApplication ==
    Inner({"security dos profile"}, {"profileAcceleration", "allowAndroidPublishers"}, "use")
    \cup Inner({"security dos profile"},
               {"disabledSignatures", "blockedCategories", "reportedCategories"}, "bigip")

DosNetwork == Inner({"security dos profile"}, {"scrubbingCategory", "category"}, "use")

NatPolicy == Inner({"security nat policy"},
                   {"securityLogProfile", "addressLists", "portLists", "sourceTranslation"}, "use")

NatSourceTranslation ==
    List({"security nat source-translation"}, {"allowEgressInterfaces"}, "use")
    \cup At("tail", {"security nat source-translation"}, {"excludeAddresses"}, "use")

SecurityLogProfile ==
    Inner({"security log profile"}, {"dosApplication"}, "inCommon")
    \cup Inner({"security log profile"}, {"network.publisher", "botDefense"}, "use")

SecurityRows == DosProfile \cup DosApplication \cup DosNetwork \cup NatPolicy
                \cup NatSourceTranslation \cup SecurityLogProfile
-----------------------------------------------------------------------------
(* gslb.js                                                                 *)
GslbMonitorHttps == To("cert", Own({"gtm monitor https"}, {"clientCertificate"}, "bare"))

Datacenter == Own({"gtm datacenter"}, {"proberPool"}, "use")

ProberPool == Inner({"gtm prober-pool"}, {"members.server"}, "wrap")

GtmRule == Inner({"gtm rule"}, {"iRule"}, "code")

GslbServer == Own({"gtm server"}, {"dataCenter"}, "use")

(* The monitors of a server: one name that is not '/Common/bigip' stays a  *)
(* string, which is no place where a reference is looked for.              *)
GslbServerMonitors == Own({"gtm server"}, {"monitors"}, "bigipOrText")

WideIps ==
    LET kinds == {"gtm wideip a", "gtm wideip aaaa", "gtm wideip cname", "gtm wideip mx"}
    IN  Own(kinds, {"lastResortPool"}, "use") \cup List(kinds, {"pools"}, "use")
        \cup List(kinds, {"iRules"}, "text")

PoolsOf(kinds) == Inner(kinds, {"members.server"}, "use") \cup List(kinds, {"monitors"}, "use")

AddressPools ==
    LET kinds == {"gtm pool a", "gtm pool aaaa"}
    IN  PoolsOf(kinds) \cup Inner(kinds, {"members.domainName"}, "domain")

CnamePool == PoolsOf({"gtm pool cname"})

MxPool == PoolsOf({"gtm pool mx"}) \cup Inner({"gtm pool mx"}, {"members.domainName"}, "domain")

GslbRows == GslbMonitorHttps \cup Datacenter \cup ProberPool \cup GtmRule \cup GslbServer
            \cup GslbServerMonitors \cup WideIps \cup AddressPools \cup CnamePool \cup MxPool
-----------------------------------------------------------------------------
(* enforcement.js                                                          *)
InterceptionEndpoint == Own({"pem interception-endpoint"}, {"pool"}, "use")

PemIrule == Inner({"pem irule"}, {"iRule"}, "code")

DiameterEndpoint == Own({"pem profile diameter-endpoint"}, {"parentProfile"}, "use")

ForwardingEndpoint == Own({"pem forwarding-endpoint"}, {"pool", "SNATPool"}, "use")

SubscriberManagement == Own({"pem profile subscriber-mgmt"}, {"parentProfile"}, "use")

RadiusAaa == Own({"pem profile radius-aaa"}, {"parentProfile"}, "use")

EnforcementProfile ==
    UnlessNone(Own({"pem profile spm"}, {"connectionOptimizationService"}, "use"))
    \cup Own({"pem profile spm"}, {"parentProfile"}, "use")
    \cup List({"pem profile spm"},
              {"policiesGlobalHighPrecedence", "policiesGlobalLowPrecedence",
               "policiesUnknownSubscribers"}, "use")

PemPolicyTargets ==
    Inner({"pem policy"}, {"serviceChain", "interceptionEndpoint", "tcpOptimizationDownlink",
                           "tcpOptimizationUplink", "classification.application"}, "use")

PemPolicyReports ==
    Inner({"pem policy"}, {"formatScript", "highSpeedLogPublisher",
                           "qosBandwidthController.policy", "url.category"}, "use")

PemListener == Own({"pem listener"}, {"enforcementProfile"}, "use")
               \cup List({"pem listener"}, {"services"}, "use")

EnforcementRows ==
    InterceptionEndpoint \cup PemIrule \cup DiameterEndpoint \cup ForwardingEndpoint
    \cup SubscriberManagement \cup RadiusAaa \cup EnforcementProfile
    \cup PemPolicyTargets \cup PemPolicyReports \cup PemListener
-----------------------------------------------------------------------------
(* firewall.js                                                             *)
FirewallAddressList == List({"security firewall address-list"}, {"addressLists"}, "use")

FirewallPolicy ==
    At("mixed", {"security firewall policy"}, {"rules"}, "use")
    \cup Inner({"security firewall policy"}, {"iRule", "addressLists", "portLists"}, "use")

FirewallPortList == List({"security firewall port-list"}, {"portLists"}, "use")

FirewallRuleList ==
    LET kind == {"security firewall rule-list"}
    IN  Inner(kind, {"iRule", "addressLists", "portLists"}, "use")
        \cup Inner(kind, {"vlans"}, "bigip")

(* Addresses and ports that stand in a rule itself become lists of their   *)
(* own beside the rule list, under a name made up for them.                *)
InlineLists == To("beside", Inner({"security firewall rule-list"},
                                  {"addresses", "ports"}, "generated"))

FirewallRows == FirewallAddressList \cup FirewallPolicy \cup FirewallPortList
                \cup FirewallRuleList \cup InlineLists
-----------------------------------------------------------------------------
(* policy.js, network.js, dns.js, log_config.js, cipher.js, irule.js,      *)
(* data_group.js                                                           *)
EndpointPolicy == Inner({"ltm policy"}, {"select.pool"}, "use")

NetAddressList == List({"net address-list"}, {"addressLists"}, "use")

BandwidthControl == Own({"net bwc policy"}, {"logPublisher"}, "use")

DnsNameserver == Own({"ltm dns nameserver"}, {"tsigKey"}, "use")

DnsZone == Own({"ltm dns zone"}, {"serverTsigKey"}, "use")
           \cup List({"ltm dns zone"}, {"transferClients"}, "use")
           \cup Inner({"ltm dns zone"}, {"dnsExpress.nameserver"}, "use")

HighSpeedLog == Own({"sys log-config destination remote-high-speed-log"}, {"pool"}, "use")

SyslogDestination == Own({"sys log-config destination remote-syslog"}, {"remoteHighSpeedLog"}, "use")

LogPublisher == List({"sys log-config publisher"}, {"destinations"}, "use")

CipherGroup == List({"ltm cipher group"},
                    {"allowCipherRules", "excludeCipherRules", "requireCipherRules"}, "use")

Irule == Inner({"ltm rule"}, {"iRule"}, "code")

ExternalDataGroup == To("file", Own({"ltm data-group external"}, {"dataGroupFile"}, "bigip"))

PolicyRows == EndpointPolicy \cup NetAddressList \cup BandwidthControl \cup DnsNameserver
              \cup DnsZone \cup HighSpeedLog \cup SyslogDestination \cup LogPublisher
              \cup CipherGroup \cup Irule \cup ExternalDataGroup
-----------------------------------------------------------------------------
(* monitor.js, persist.js, pool.js, certificate.js, service.js             *)
HttpsMonitors ==
    UnlessNone(Own({"ltm monitor http2", "ltm monitor https"}, {"clientTLS"}, "use"))
    \cup To("cert", Own({"ltm monitor https"}, {"clientCertificate"}, "stored"))

SipMonitor == To("cert", Own({"ltm monitor sip"}, {"clientCertificate"}, "stored"))

(* One entry for each of the eight kinds.                                  *)
PersistProfiles ==
    Own({"ltm persistence cookie", "ltm persistence dest-addr", "ltm persistence hash",
         "ltm persistence msrdp", "ltm persistence sip", "ltm persistence source-addr",
         "ltm persistence ssl", "ltm persistence universal"}, {"iRule"}, "irule")

Pool == List({"ltm pool"}, {"monitors"}, "use")
        \cup Inner({"ltm pool"}, {"members.monitors"}, "use")

OcspStapling == Own({"ltm profile ocsp-stapling-params"}, {"dnsResolver"}, "bigip")

ServiceProfiles ==
    Own({"ltm virtual"}, {"profile", "profileTCP", "profileHTTP2"}, "use")
    \cup Inner({"ltm virtual"}, {"profileTCP.ingress", "profileHTTP2.egress"}, "use")

ServiceTls == Own({"ltm virtual"}, {"clientTLS", "serverTLS"}, "tls")

ServiceReferences ==
    LET kind == {"ltm virtual"}
    IN  Inner(kind, {"clonePools"}, "use")
        \cup Own(kind, {"fallbackPersistenceMethod", "policyFirewallEnforced",
                        "policyFirewallStaged", "snat", "policyNAT",
                        "policyBandwidthControl", "policyIdleTimeout"}, "use")
        \cup Own(kind, {"pool"}, "pool")
        \cup Own(kind, {"policyEndpoint"}, "shared")
        \cup List(kind, {"virtualAddresses", "iRules", "securityLogProfiles"}, "use")
        \cup List(kind, {"persistenceMethods"}, "persist")
        \cup List(kind, {"allowVlans", "rejectVlans"}, "bigip")

ServiceRows == HttpsMonitors \cup SipMonitor \cup PersistProfiles \cup Pool \cup OcspStapling
               \cup ServiceProfiles \cup ServiceTls \cup ServiceReferences
-----------------------------------------------------------------------------
AllRows == ProfileRows \cup SecurityRows \cup GslbRows \cup EnforcementRows
           \cup FirewallRows \cup PolicyRows \cup ServiceRows
=============================================================================
