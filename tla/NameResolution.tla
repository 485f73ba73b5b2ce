--------------------------- MODULE NameResolution ---------------------------
(***************************************************************************)
(* The two passes with which src/src/engines/as3Converter.js prepares a    *)
(* parsed configuration: deDupeObjectNames (42-127) renames objects whose  *)
(* name another object has, or whose name starts with a digit, and the     *)
(* references to them; defaultsFromInheritance (129-168) copies into every *)
(* monitor and profile what its ancestors set.                             *)
(*                                                                         *)
(* An object is a record with its key (type and name), its references and  *)
(* the parameters it sets.  BIG-IP gives two objects of one type, and two  *)
(* monitors or two profiles of whatever kind, different names, so the kind *)
(* of a profile or monitor is left out of its key.                         *)
(***************************************************************************)
EXTENDS Naturals, Sequences, SequencesExt, FiniteSets

CONSTANTS
    Bases,          \* names as the administrator chose them
    Numeric,        \* those that start with a digit
    Params,         \* the parameters of profiles and monitors
    Defaults,       \* bigipDefaults.json: names of BIG-IP's own objects
    NoParent,       \* the object has no defaults-from
    Configs         \* the configurations considered: sequences of objects

Renamed == {"pool", "profile", "virtual", "rule", "policy", "monitor"}
Types == Renamed \cup {"virtual-address", "other"}

(* A name: the prefixes type_ put before it, and how often _dup after it.  *)
Name == [pre : Seq(Renamed), base : Bases, dup : Nat]
Named(b) == [pre |-> << >>, base |-> b, dup |-> 0]

Ref == [via : Renamed \cup {"rules", "profiles", "policies"}, to : Name]

Object == [type : Types, name : Name, refs : SUBSET Ref,
           parent : Name \cup {NoParent}, sets : SUBSET Params]

ASSUME ConfigsAssumption ==
    /\ Numeric \subseteq Bases /\ Defaults \subseteq Name /\ NoParent \notin Name
    /\ \A c \in Configs :
        /\ c \in Seq(Object)
        /\ \A a, b \in DOMAIN c :
               c[a].type = c[b].type /\ c[a].name = c[b].name => a = b

VARIABLES
    config,         \* the parsed configuration
    dupes,          \* dupeArray: objects whose name another object has
    ipNames,        \* ipNameArray: objects whose name starts with a digit
    todo,           \* what is left of tempArray: the objects to rename
    dict,           \* updatedDict, then json: names and objects, in key order
    refs,           \* the references of every object
    parent,         \* defaults-from of every object
    values,         \* who set the parameters an object has
    pos,            \* the key the loop over the keys looks at
    chain,          \* parentList
    cur,            \* tempObjName
    pc

vars == <<config, dupes, ipNames, todo, dict, refs, parent, values, pos, chain,
          cur, pc>>
-----------------------------------------------------------------------------
(* Slips one could make in the definitions below, for the mutation runs.   *)
NewNameWithoutType(c, o) ==
    [pre |-> << >>, base |-> c[o].name.base, dup |-> c[o].name.dup + 1]

-----------------------------------------------------------------------------
IsNumeric(name) == name.pre = << >> /\ name.base \in Numeric

(* Lines 50-61: the object shares its full name with one of another type,  *)
(* virtual addresses aside.                                                *)
IsDupe(c, o) ==
    /\ c[o].type \in Renamed
    /\ \E p \in DOMAIN c \ {o} : c[p].name = c[o].name /\ c[p].type # "virtual-address"

(* Lines 64-69.                                                            *)
HasIpName(c, o) ==
    c[o].type \in {"virtual", "pool", "monitor"} /\ IsNumeric(c[o].name) /\ ~IsDupe(c, o)

ToRename(c, o) == IsDupe(c, o) \/ HasIpName(c, o)

(* Lines 83-90: <type>_<name>, and _dup for a duplicate.                   *)
NewName(c, o) ==
    [pre |-> <<c[o].type>> \o c[o].name.pre, base |-> c[o].name.base,
     dup |-> c[o].name.dup + (IF IsDupe(c, o) THEN 1 ELSE 0)]

(* Lines 96-100: the property by which references to the type are found.   *)
PropertyOf(type) == CASE type = "rule" -> "rules"
                      [] type = "profile" -> "profiles"
                      [] OTHER -> type

(* dict[name] = o for the object's type: a new key goes to the end.        *)
Put(d, name, o) ==
    LET same == {k \in DOMAIN d : config[d[k].obj].type = config[o].type
                                    /\ d[k].name = name}
    IN  IF same = {} THEN Append(d, [name |-> name, obj |-> o])
        ELSE [k \in DOMAIN d |-> IF k \in same THEN [d[k] EXCEPT !.obj = o] ELSE d[k]]

Inheriting(o) == config[o].type \in {"monitor", "profile"}

(* The key confKey + ' ' + name of the object that inherits.               *)
Lookup(name) ==
    {k \in DOMAIN dict : config[dict[k].obj].type = config[dict[pos].obj].type
                           /\ dict[k].name = name}
-----------------------------------------------------------------------------
(* Slips in the steps below.                                               *)
RetargetByName(o, r, new) ==
    IF r.to = config[o].name THEN [r EXCEPT !.to = new] ELSE r

FartherWins(list) ==
    [p \in UNION {DOMAIN values[list[k]] : k \in DOMAIN list} |->
        LET setters == {k \in DOMAIN list : p \in DOMAIN values[list[k]]}
        IN  values[list[CHOOSE k \in setters : \A m \in setters : m <= k]][p]]

-----------------------------------------------------------------------------
Init == /\ config \in Configs
        /\ dupes = << >>
        /\ ipNames = << >>
        /\ todo = << >>
        /\ dict = << >>
        /\ refs = [o \in DOMAIN config |-> config[o].refs]
        /\ parent = [o \in DOMAIN config |-> config[o].parent]
        /\ values = [o \in DOMAIN config |-> [p \in config[o].sets |-> o]]
        /\ pos = 1
        /\ chain = << >>
        /\ cur = NoParent
        /\ pc = "scan"

(* Lines 49-70, for one key.                                               *)
ScanKey ==
    /\ pc = "scan"
    /\ pos <= Len(config)
    /\ dupes' = IF IsDupe(config, pos) THEN Append(dupes, pos) ELSE dupes
    /\ ipNames' = IF HasIpName(config, pos) THEN Append(ipNames, pos) ELSE ipNames
    /\ pos' = pos + 1
    /\ UNCHANGED <<config, todo, dict, refs, parent, values, chain, cur, pc>>

(* Lines 72-78: with nothing to rename the configuration stays as it is.   *)
ScanEnd ==
    /\ pc = "scan"
    /\ pos > Len(config)
    /\ todo' = dupes \o ipNames
    /\ dict' = IF todo' = << >>
               THEN [o \in DOMAIN config |-> [name |-> config[o].name, obj |-> o]]
               ELSE << >>
    /\ pos' = 1
    /\ pc' = IF todo' = << >> THEN "inherit" ELSE "rename"
    /\ UNCHANGED <<config, dupes, ipNames, refs, parent, values, chain, cur>>

(* Lines 104-115: a reference of that property to that name.               *)
Retarget(o, r, new) ==
    IF r.via = PropertyOf(config[o].type) /\ r.to = config[o].name
    THEN [r EXCEPT !.to = new] ELSE r

(* Lines 120-123: an object that is not renamed is put back unchanged.     *)
PutUntouched(d, o) == Put(d, config[o].name, o)

(* Lines 81-118: the object of this round gets its new name.               *)
RenameKey ==
    /\ pc = "rename"
    /\ pos <= Len(config)
    /\ pos = Head(todo)
    /\ LET new == NewName(config, pos)
       IN  /\ refs' = [q \in DOMAIN config |-> {Retarget(pos, r, new) : r \in refs[q]}]
           /\ dict' = Put(dict, new, pos)
    /\ pos' = pos + 1
    /\ UNCHANGED <<config, dupes, ipNames, todo, parent, values, chain, cur, pc>>

(* Line 119: every round puts all the objects that are not renamed into    *)
(* the dictionary again.                                                   *)
KeepKey ==
    /\ pc = "rename"
    /\ pos <= Len(config)
    /\ pos # Head(todo)
    /\ dict' = IF ToRename(config, pos) THEN dict ELSE PutUntouched(dict, pos)
    /\ pos' = pos + 1
    /\ UNCHANGED <<config, dupes, ipNames, todo, refs, parent, values, chain, cur, pc>>

(* Line 80: the next object to rename.                                     *)
EndRound ==
    /\ pc = "rename"
    /\ pos > Len(config)
    /\ todo' = Tail(todo)
    /\ pos' = 1
    /\ pc' = IF todo' = << >> THEN "inherit" ELSE "rename"
    /\ UNCHANGED <<config, dupes, ipNames, dict, refs, parent, values, chain, cur>>

(* Lines 133-141: other objects, and those whose parent is a default, stay *)
(* as they are.                                                            *)
SkipKey ==
    /\ pc = "inherit"
    /\ pos <= Len(dict)
    /\ LET o == dict[pos].obj IN ~Inheriting(o) \/ parent[o] \in Defaults
    /\ pos' = pos + 1
    /\ UNCHANGED <<config, dupes, ipNames, todo, dict, refs, parent, values, chain,
                   cur, pc>>

(* Lines 145-151, the first round: the object itself.                      *)
StartChain ==
    /\ pc = "inherit"
    /\ pos <= Len(dict)
    /\ LET o == dict[pos].obj
       IN  /\ Inheriting(o) /\ parent[o] \notin Defaults
           /\ chain' = <<o>>
           /\ cur' = parent[o]
    /\ pc' = "walk"
    /\ UNCHANGED <<config, dupes, ipNames, todo, dict, refs, parent, values, pos>>

(* Lines 149-152: the parent is in the configuration.                      *)
Walk ==
    /\ pc = "walk"
    /\ \E k \in Lookup(cur) :
        /\ chain' = Append(chain, dict[k].obj)
        /\ cur' = parent[dict[k].obj]
    /\ UNCHANGED <<config, dupes, ipNames, todo, dict, refs, parent, values, pos, pc>>

(* Lines 156-159: what is nearer in the list wins.                         *)
NearerWins(list) ==
    [p \in UNION {DOMAIN values[list[k]] : k \in DOMAIN list} |->
        LET setters == {k \in DOMAIN list : p \in DOMAIN values[list[k]]}
        IN  values[list[CHOOSE k \in setters : \A m \in setters : k <= m]][p]]

(* Lines 153-162: the merged object replaces the old one.                  *)
MergeChain ==
    /\ pc = "walk"
    /\ Lookup(cur) = {}
    /\ LET o == dict[pos].obj
       IN  /\ values' = [values EXCEPT ![o] = NearerWins(chain)]
           /\ parent' = [parent EXCEPT ![o] = NoParent]
    /\ chain' = << >>
    /\ cur' = NoParent
    /\ pos' = pos + 1
    /\ pc' = "inherit"
    /\ UNCHANGED <<config, dupes, ipNames, todo, dict, refs>>

Next == ScanKey \/ ScanEnd \/ RenameKey \/ KeepKey \/ EndRound
        \/ SkipKey \/ StartChain \/ Walk \/ MergeChain

(* Both passes are one synchronous call.                                   *)
Spec == Init /\ [][Next]_vars
-----------------------------------------------------------------------------
Objects == DOMAIN config

Renaming == pc \in {"scan", "rename"}
Done == pc = "inherit" /\ pos > Len(dict)

(* A new name that some object of the configuration already has, or that   *)
(* another one of the same type gets: the pools 1 and 1_dup both become    *)
(* pool_1_dup when a rule is called 1, too.                                *)
Clashing == \E o, p \in Objects :
    /\ ToRename(config, o)
    /\ \/ config[p].name = NewName(config, o)
       \/ /\ ToRename(config, p) /\ p # o
          /\ config[p].type = config[o].type
          /\ NewName(config, p) = NewName(config, o)

FinalName(o) == IF ToRename(config, o) THEN NewName(config, o) ELSE config[o].name

(* Renaming keeps every object, under one key each, and no object of the   *)
(* six types is left with a name that another object has, whatever the     *)
(* order of the keys: unless the administrator used a name it makes up.    *)
NamesAreUnique ==
    ~Renaming /\ ~Clashing =>
        /\ \A o \in Objects : \E k \in DOMAIN dict :
               dict[k] = [name |-> FinalName(o), obj |-> o]
        /\ \A k, m \in DOMAIN dict :
               /\ dict[k].obj = dict[m].obj => k = m
               /\ dict[k].name = dict[m].name /\ config[dict[k].obj].type \in Renamed
                      => k = m \/ config[dict[m].obj].type = "virtual-address"

(* The object a reference of the configuration means.                      *)
Means(r, t) == config[t].name = r.to /\ r.via = PropertyOf(config[t].type)

Followed(r) ==
    IF \E t \in Objects : Means(r, t)
    THEN [r EXCEPT !.to = FinalName(CHOOSE t \in Objects : Means(r, t))] ELSE r

(* The references the code looks for lead where they led before, and those *)
(* to objects that only share a renamed one's name stay.                   *)
RefsFollow ==
    ~Renaming /\ ~Clashing =>
        \A o \in Objects : refs[o] = {Followed(r) : r \in config[o].refs}

(* Ancestors in the configuration as written, nearest first.               *)
ParentOf(o) == {q \in Objects : config[q].type = config[o].type
                                /\ config[q].name = config[o].parent}

Extended(line) ==
    LET q == ParentOf(Last(line))
    IN  IF q = {} THEN line ELSE Append(line, CHOOSE a \in q : TRUE)

Lineage(o) ==
    LET up[k \in 0 .. Cardinality(Objects)] ==
            IF k = 0 THEN <<o>> ELSE Extended(up[k - 1])
    IN  up[Cardinality(Objects)]

Nearest(o, p) ==
    LET line == Lineage(o)
        setters == {k \in DOMAIN line : p \in config[line[k]].sets}
    IN  line[CHOOSE k \in setters : \A m \in setters : k <= m]

(* The name that the renaming gives to an object.                          *)
MadeUp(name) == \E o \in Objects : ToRename(config, o) /\ NewName(config, o) = name

(* Every monitor and profile that does not come straight from a default    *)
(* ends with the value its nearest ancestor sets, whichever of them was    *)
(* flattened first, when no ancestor has been renamed, and the parent that *)
(* the last of them names and the configuration lacks is none that the     *)
(* renaming makes up.                                                      *)
InheritedInAnyOrder ==
    Done /\ ~Clashing =>
        \A o \in Objects :
            /\ Inheriting(o)
            /\ config[o].parent \notin Defaults
            /\ \A k \in 2 .. Len(Lineage(o)) : ~ToRename(config, Lineage(o)[k])
            /\ ~MadeUp(config[Last(Lineage(o))].parent)
            => values[o] = [p \in UNION {config[q].sets : q \in ToSet(Lineage(o))}
                               |-> Nearest(o, p)]

=============================================================================
