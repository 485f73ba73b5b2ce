-------------------------- MODULE SecurityProfiles ---------------------------
(***************************************************************************)
(* Denial-of-service and SSH profiles of                                   *)
(* src/src/lib/AS3/customMaps/security.js: the detection by rate or stress *)
(* of an application (216-291), the attack vectors of DNS and SIP          *)
(* (339-411), and the rules, default actions and keys of an SSH profile    *)
(* (747-877).                                                              *)
(*                                                                         *)
(* A block of the configuration is a function from its keys to values;     *)
(* where the order counts it is the sequence of its entries.               *)
(***************************************************************************)
EXTENDS Naturals, Sequences, SequencesExt

Has(f, p) == p \in DOMAIN f
-----------------------------------------------------------------------------
(* Detection by rate or stress.  A setting is named <<source, key>>.       *)
SourceName == [ip |-> "sourceIP", device |-> "deviceID", geo |-> "geolocation",
               site |-> "site", url |-> "url"]

(* Those that are switches, and the name AS3 has for each.                 *)
Switches == "captcha-challenge" :> "captchaChallengeEnabled" @@ "rate-limiting" :> "rateLimitingEnabled"
            @@ "client-side-defense" :> "clientSideDefenseEnabled"
            @@ "enable-heavy" :> "heavyURLProtectionEnabled"
Amounts == "maximum-tps" :> "maximumTps" @@ "minimum-tps" :> "minimumTps"
           @@ "maximum-auto-tps" :> "maximumAutoTps" @@ "minimum-auto-tps" :> "minimumAutoTps"
           @@ "tps-increase-rate" :> "tpsIncreaseRate" @@ "minimum-share" :> "minimumShare"
           @@ "share-increase-rate" :> "shareIncreaseRate" @@ "request-blocking-mode" :> "rateLimitingMode"
SettingName == Switches @@ Amounts
-----------------------------------------------------------------------------
(* Slips one could make in the definitions below, for the mutation runs.   *)
ActionUnlessBoth(a) == a.control # "unspecified" \/ a.log # "no"
-----------------------------------------------------------------------------
(* dosProf: heavy protection is looked up under a name that nothing has.   *)
Setting(conf, source, key) ==
    CASE key = "enable-heavy"    -> "false"
      [] key \in DOMAIN Switches -> IF conf[<<source, key>>] = "enabled" THEN "true" ELSE "false"
      [] key \in DOMAIN Amounts  -> conf[<<source, key>>]

DosProf(conf, source) ==
    LET keys == {key \in DOMAIN SettingName : <<source, key>> \in DOMAIN conf}
    IN  [name \in {SettingName[key] : key \in keys} |->
            Setting(conf, source, CHOOSE key \in keys : SettingName[key] = name)]

(* Only the sources that have a setting are attached.                      *)
Detection(conf) ==
    LET sources == {s \in DOMAIN SourceName : DOMAIN DosProf(conf, s) # {}}
    IN  [name \in {SourceName[s] : s \in sources} |->
            DosProf(conf, CHOOSE s \in sources : SourceName[s] = name)]
-----------------------------------------------------------------------------
(* Attack vectors: records of a type and those of state, rate-increase,    *)
(* threshold-mode, ceiling and floor that the configuration has.           *)
Bound(value) == IF value = "infinite" THEN "4294967295" ELSE value

(* The finite floor of a SIP vector gets a name of its own (405).          *)
FloorName(protocol, bound) ==
    IF protocol = "sip" /\ bound # "infinite" THEN "AutoAttackFloor" ELSE "autoAttackFloor"

BoundOf(vector, key) == IF Has(vector.has, key) THEN vector.has[key] ELSE "NaN"

VectorFrom(protocol, vector) ==
    LET given == [k \in DOMAIN vector.has \cap {"rate-increase", "threshold-mode"} |-> vector.has[k]]
    IN  "type" :> vector.type
        @@ "state" :> (IF Has(vector.has, "state") THEN vector.has["state"] ELSE "mitigate")
        @@ FloorName(protocol, BoundOf(vector, "floor")) :> Bound(BoundOf(vector, "floor"))
        @@ "autoAttackCeiling" :> Bound(BoundOf(vector, "ceiling"))
        @@ given

(* A block has a sequence of vectors; the first of each block is taken.    *)
VectorsFrom(protocol, blocks) ==
    [i \in DOMAIN blocks |-> VectorFrom(protocol, blocks[i][1])]
-----------------------------------------------------------------------------
(* SSH.  An action has a control and says whether to log.                  *)
ActionCounts(a) == a.control # "unspecified" /\ a.log # "no"

Action(a) == [control |-> a.control, log |-> a.log = "yes"]

(* The entry of a rule is one object: every set of actions is written to   *)
(* it and it is pushed again, so that all of them are the last one.        *)
RuleEntries(rule) ==
    LET last == Last(rule.sets).actions
        counted == {k \in DOMAIN last : ActionCounts(last[k])}
    IN  [i \in DOMAIN rule.sets |->
            [rule |-> rule.name, set |-> IF last = <<>> THEN "" ELSE Last(rule.sets).name,
             actions |-> [k \in counted |-> Action(last[k])]]]

RuleSet(rules) == FlattenSeq([i \in DOMAIN rules |-> RuleEntries(rules[i])])

(* The default actions are the first block's, and none is left out.        *)
DefaultActions(sets) ==
    [name |-> sets[1].name, actions |-> [k \in DOMAIN sets[1].actions |-> Action(sets[1].actions[k])]]

(* The keys of an authentication: the private ones are encoded.            *)
AuthInfo(auth) ==
    [part \in DOMAIN auth |->
        [k \in DOMAIN auth[part] |-> IF k = "private-key" THEN "encoded " \o auth[part][k] ELSE auth[part][k]]]

SshProfile(profile) ==
    [defaults |-> DefaultActions(profile.defaults), rules |-> RuleSet(profile.rules),
     auth |-> [n \in DOMAIN profile.auth |-> AuthInfo(profile.auth[n])]]
=============================================================================
