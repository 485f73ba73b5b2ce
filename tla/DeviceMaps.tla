----------------------------- MODULE DeviceMaps -----------------------------
(***************************************************************************)
(* The references between the objects of a Declarative Onboarding          *)
(* declaration, class by class as src/src/lib/DO/doCustomMaps.js (and,     *)
(* where it leaves a property alone, the table configItems) writes them:   *)
(*                                                                         *)
(*   class      the class of the object that refers                        *)
(*   list       the property, which holds names                            *)
(*   to         the classes of the objects that may be named               *)
(*   camel      whether recursiveCamelize, applied to the whole object,    *)
(*              spells the names anew: it does when they are keys          *)
(***************************************************************************)
Refers(class, lists, to) ==
    [class : {class}, list : lists, to : {to}, camel : {FALSE}]
Respelled(rows) == {[r EXCEPT !.camel = TRUE] : r \in rows}

(* routeDomain: '/Common/' is taken off.                                   *)
DnsResolverRefs == Refers("DNS_Resolver", {"routeDomain"}, {"RouteDomain"})

(* Lists of a rule's source and destination, by their keys.                *)
FirewallPolicyRefs ==
    Respelled(Refers("FirewallPolicy", {"addressLists"}, {"FirewallAddressList"})
              \cup Refers("FirewallPolicy", {"portLists"}, {"FirewallPortList"})
              \cup Refers("FirewallPolicy", {"vlans"}, {"VLAN"}))

ManagementIpFirewallRefs ==
    Respelled(Refers("ManagementIpFirewall", {"addressLists"}, {"FirewallAddressList"})
              \cup Refers("ManagementIpFirewall", {"portLists"}, {"FirewallPortList"}))

GslbDataCenterRefs == Refers("GSLBDataCenter", {"proberPool"}, {"GSLBProberPool"})

GslbProberPoolRefs == Refers("GSLBProberPool", {"members"}, {"GSLBServer"})

(* monitors: split at 'and'.                                               *)
GslbServerRefs ==
    Refers("GSLBServer", {"monitors"}, {"GSLBMonitor"})
    \cup Refers("GSLBServer", {"dataCenter"}, {"GSLBDataCenter"})
    \cup Refers("GSLBServer", {"proberPool"}, {"GSLBProberPool"})

RouteDomainRefs == Refers("RouteDomain", {"vlans"}, {"VLAN", "Tunnel"})

(* The match of an entry: names are values, which keep their spelling.     *)
RouteMapRefs ==
    Refers("RouteMap", {"asPath"}, {"RoutingAsPath"})
    \cup Refers("RouteMap", {"prefixList"}, {"RoutingPrefixList"})
    \cup Refers("RouteMap", {"accessList"}, {"RoutingAccessList"})

(* Redistribution of an address family, and routes of a peer group.        *)
BgpRouteMaps == Refers("RoutingBGP", {"routeMap"}, {"RouteMap"})

SelfIpRefs ==
    Refers("SelfIp", {"vlan"}, {"VLAN", "Tunnel"})
    \cup Refers("SelfIp", {"trafficGroup"}, {"TrafficGroup"})

(* Interfaces by their keys: a trunk is one.                               *)
VlanRefs == Refers("VLAN", {"interfaces"}, {"Trunk"})

DeviceReferences ==
    DnsResolverRefs \cup FirewallPolicyRefs \cup ManagementIpFirewallRefs \cup GslbDataCenterRefs
    \cup GslbProberPoolRefs \cup GslbServerRefs \cup RouteDomainRefs \cup RouteMapRefs
    \cup BgpRouteMaps \cup SelfIpRefs \cup VlanRefs
-----------------------------------------------------------------------------
(* The items of configItems, in order: the kinds of stanzas whose keys     *)
(* contain the path of the item, and the class.  A substring is enough, so *)
(* RADIUS matches the keys of RADIUS servers and http those of https;      *)
(* where customMaps reduces the path, several classes share one stanza.    *)
ConfigItems ==
  <<<<{"sys global-settings", "cli global-settings", "sys software update"}, "System">>,
    <<{"sys db"}, "DbVariables">>, <<{"sys management-ip"}, "ManagementIp">>,
    <<{"sys provision"}, "Provision">>, <<{"sys ntp"}, "NTP">>, <<{"sys dns"}, "DNS">>,
    <<{"net dns-resolver"}, "DNS_Resolver">>, <<{"net trunk"}, "Trunk">>,
    <<{"net vlan", "net vlan-group"}, "VLAN">>, <<{"net self"}, "SelfIp">>,
    <<{"net route"}, "Route">>, <<{"net routing access-list"}, "RoutingAccessList">>,
    <<{"net routing as-path"}, "RoutingAsPath">>,
    <<{"net routing prefix-list"}, "RoutingPrefixList">>,
    <<{"net routing route-map"}, "RouteMap">>, <<{"net routing bgp"}, "RoutingBGP">>,
    <<{"cm device"}, "ConfigSync">>, <<{"cm device"}, "FailoverUnicast">>,
    <<{"cm device"}, "FailoverMulticast">>, <<{"cm device"}, "MirrorIp">>,
    <<{"cm device-group"}, "DeviceGroup">>, <<{"cm traffic-group"}, "TrafficGroup">>,
    <<{"analytics global-settings"}, "Analytics">>,
    <<{"sys management-route"}, "ManagementRoute">>, <<{"sys syslog"}, "SyslogRemoteServer">>,
    <<{"auth source"}, "Authentication">>, <<{"auth remote-user"}, "Authentication">>,
    <<{"auth radius", "auth radius-server"}, "Authentication">>,
    <<{"auth radius-server"}, "Authentication">>, <<{"auth tacacs"}, "Authentication">>,
    <<{"net route-domain"}, "RouteDomain">>, <<{"auth remote-role"}, "RemoteAuthRole">>,
    <<{"auth ldap"}, "Authentication">>, <<{"sys snmp"}, "SnmpTrapEvents">>,
    <<{"sys snmp"}, "SnmpTrapDestination">>, <<{"sys snmp"}, "SnmpAgent">>,
    <<{"sys snmp"}, "SnmpUser">>, <<{"sys snmp"}, "SnmpCommunity">>,
    <<{"net dag-globals"}, "DagGlobals">>, <<{"sys httpd"}, "HTTPD">>,
    <<{"ltm global-settings traffic-control"}, "TrafficControl">>, <<{"sys sshd"}, "SSHD">>,
    <<{"net tunnels tunnel"}, "Tunnel">>, <<{"net tunnels vxlan"}, "Tunnel">>,
    <<{"gtm global-settings general"}, "GSLBGlobals">>, <<{"gtm datacenter"}, "GSLBDataCenter">>,
    <<{"gtm server"}, "GSLBServer">>, <<{"gtm monitor http", "gtm monitor https"}, "GSLBMonitor">>,
    <<{"gtm monitor https"}, "GSLBMonitor">>, <<{"gtm monitor gateway-icmp"}, "GSLBMonitor">>,
    <<{"gtm monitor tcp", "gtm monitor tcp-half-open"}, "GSLBMonitor">>, <<{"gtm monitor udp"}, "GSLBMonitor">>,
    <<{"gtm prober-pool"}, "GSLBProberPool">>, <<{"security firewall policy"}, "FirewallPolicy">>,
    <<{"security firewall address-list"}, "FirewallAddressList">>,
    <<{"security firewall port-list"}, "FirewallPortList">>,
    <<{"security firewall management-ip-rules"}, "ManagementIpFirewall">>>>
=============================================================================
