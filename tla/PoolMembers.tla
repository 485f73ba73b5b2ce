---------------------------- MODULE PoolMembers -----------------------------
(***************************************************************************)
(* The members of a pool: src/src/lib/AS3/customMaps/pool.js makes an      *)
(* entry of every member (114-163) and merges the entries that customDiff  *)
(* finds alike (24-87).                                                    *)
(*                                                                         *)
(* A member of the configuration is a record: its server, whether that has *)
(* a name of its own, an address, or is looked up (fqdn), and a function   *)
(* from those settings that the stanza has (port, ratio, monitor, ...) to  *)
(* their values.                                                           *)
(***************************************************************************)
EXTENDS Naturals, Sequences, SequencesExt

Entry(settings, addresses, servers) ==
    [settings |-> settings, addresses |-> addresses, servers |-> servers]

(* A member by its address goes to serverAddresses, one that has a name to *)
(* servers; what is looked up keeps its host name among the settings.      *)
MemberEntry(m) ==
    LET settings == ("discovery" :> IF m.kind = "fqdn" THEN "fqdn" ELSE "static") @@ m.settings
    IN  CASE m.kind = "address" -> Entry(settings, <<m.server>>, <<>>)
          [] m.kind = "named"   -> Entry(settings, <<>>, <<m.server>>)
          [] m.kind = "fqdn"    -> Entry(("hostname" :> m.server) @@ settings, <<>>, <<>>)
-----------------------------------------------------------------------------
(* Slips one could make in the definitions below, for the mutation runs.   *)
AlikeByCommon(e, f) ==
    \A s \in DOMAIN e.settings \cap DOMAIN f.settings : e.settings[s] = f.settings[s]
-----------------------------------------------------------------------------
(* customDiff (24-42) looks at the settings of the new entry only.         *)
Alike(e, f) ==
    \A s \in DOMAIN e.settings : s \in DOMAIN f.settings /\ e.settings[s] = f.settings[s]

(* The servers are added to the ones of the same form, or put beside those *)
(* of the other one (64-74).                                               *)
Merged(f, e) ==
    CASE f.addresses # <<>> /\ e.addresses # <<>> -> [f EXCEPT !.addresses = @ \o e.addresses]
      [] (f.addresses = <<>> \/ e.addresses = <<>>) /\ f.servers # <<>> /\ e.servers # <<>> ->
            [f EXCEPT !.servers = @ \o e.servers]
      [] (f.servers = <<>> \/ e.servers = <<>>) /\ f.addresses # <<>> /\ e.addresses = <<>> ->
            [f EXCEPT !.servers = e.servers]
      [] OTHER -> [f EXCEPT !.addresses = e.addresses]

(* The last of the entries that are alike counts (52-61).                  *)
Dedupe(entries) ==
    FoldLeft(LAMBDA new, e :
                 LET i == SelectLastInSeq(new, LAMBDA f : Alike(e, f))
                 IN  IF i = 0 THEN Append(new, e) ELSE [new EXCEPT ![i] = Merged(@, e)],
             <<>>, entries)

MembersOf(members) ==
    LET entries == [i \in DOMAIN members |-> MemberEntry(members[i])]
    IN  IF Len(entries) = 1 THEN entries ELSE Dedupe(entries)

(* The places of a server in the pool that is made.                        *)
PlacesOf(m, entries) ==
    {i \in DOMAIN entries :
        CASE m.kind = "address" -> Contains(entries[i].addresses, m.server)
          [] m.kind = "named"   -> Contains(entries[i].servers, m.server)
          [] m.kind = "fqdn"    -> "hostname" \in DOMAIN entries[i].settings
                                   /\ entries[i].settings["hostname"] = m.server}
=============================================================================
