-------------------------- MODULE ServiceProfiles ---------------------------
(***************************************************************************)
(* The TLS profiles of a virtual server: what getServiceType of            *)
(* src/src/lib/AS3/customMaps/service.js (57-178) makes of the profiles of *)
(* one kind, in the order of the configuration.                            *)
(*                                                                         *)
(* A profile is a record: its partition and name; dict says whether        *)
(* getObjectType knows it without the configuration, default whether       *)
(* bigipDefaults.json lists it, and copy whether its name ends in          *)
(* '-', '_' or '.' and a number.                                           *)
(***************************************************************************)
EXTENDS Naturals, Sequences, SequencesExt

Written(as, profile) == [as |-> as, profile |-> profile]
-----------------------------------------------------------------------------
(* Slips one could make in the definitions below, for the mutation runs.   *)
WithoutRest(list, i) == SubSeq(list, 1, i - 1)
-----------------------------------------------------------------------------
(* The entry of a profile (130-136): what getObjectType does not know by   *)
(* heart is a path, anything else what handleObjectRef makes of it.        *)
Entry(p) == Written(IF ~ p.dict \/ p.default THEN "bigip" ELSE "use", p)

(* A single profile (152-162).  The property bigip is read of an entry     *)
(* that has none, or startsWith of no string: the object is given up.      *)
Single(e) ==
    CASE e.as = "use" -> <<"thrown">>
      [] e.as = "bigip" /\ e.profile.dict -> <<"entry", e.profile.name>>
      [] e.as = "bigip" /\ ~ e.profile.dict /\ e.profile.partition = "Common" ->
            <<"path", e.profile.name>>
      [] OTHER -> <<"name", e.profile.name>>

(* One round of the loop over several (167-173): a copy is taken out, and  *)
(* the entry before it written once more, which fails when it is the first *)
WithoutCopy(list, i) == RemoveAt(list, i)

RECURSIVE Loop(_, _)
Loop(list, i) ==
    IF i > Len(list) THEN list
    ELSE IF list[i].profile.copy
         THEN IF i = 1 THEN <<>> ELSE Loop(WithoutCopy(list, i), i)
         ELSE Loop([list EXCEPT ![i].as = "bigip"], i + 1)

TlsOf(profiles) ==
    LET list == [i \in DOMAIN profiles |-> Entry(profiles[i])]
        looped == Loop(list, 1)
    IN  CASE Len(list) = 0 -> <<"none">>
          [] Len(list) = 1 -> Single(list[1])
          [] Len(list) > 1 /\ Len(looped) = 0 -> <<"thrown">>
          [] Len(list) > 1 /\ Len(looped) = 1 -> <<"path", looped[1].profile.name>>
          [] OTHER -> <<"list", [i \in DOMAIN looped |-> looped[i].profile.name]>>
-----------------------------------------------------------------------------
(* The reference: the names in the order of the configuration, copies left *)
(* out where there are several.                                            *)
Originals(profiles) == SelectSeq(profiles, LAMBDA p : ~ p.copy)

NamesIn(tls) == CASE tls[1] \in {"entry", "path", "name"} -> <<tls[2]>>
                  [] tls[1] = "list" -> tls[2]
                  [] OTHER -> <<>>
=============================================================================
