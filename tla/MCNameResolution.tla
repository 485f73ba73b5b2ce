-------------------------- MODULE MCNameResolution --------------------------
(* Small configurations for NameResolution: every order of up to three     *)
(* objects that name and refer to each other, and every order of a family  *)
(* of profiles with an object that may have a name of theirs.              *)
EXTENDS NameResolution

CONSTANTS x, y, n, default

MCDefaults == {Named(default)}

Obj(type, name) == [type |-> type, name |-> name, refs |-> {},
                    parent |-> NoParent, sets |-> {}]
With(o, rs) == [o EXCEPT !.refs = rs]
To(via, name) == [via |-> via, to |-> name]

Names == {Named(x), Named(n), [pre |-> <<"pool">>, base |-> x, dup |-> 1],
          [Named(n) EXCEPT !.dup = 1]}

Candidates ==
    {Obj(t, m) : t \in {"pool", "monitor", "policy"}, m \in Names}
    \cup {Obj(t, Named(x)) : t \in {"rule", "other", "virtual-address"}}
    \cup {With(Obj("pool", m), {To("monitor", Named(x))}) : m \in Names}
    \cup {With(Obj("virtual", m), rs) : m \in {Named(x), Named(y), Named(n)},
             rs \in { {To("pool", Named(x)), To("rules", Named(x))},
                      {To("pool", Named(n)), To("policies", Named(x))},
                      {To("profiles", Named(x)), To("pool", [pre |-> <<"pool">>, base |-> x, dup |-> 1])} }}

Distinct(c) == \A a, b \in DOMAIN c :
    c[a].type = c[b].type /\ c[a].name = c[b].name => a = b

Referring == {c \in BoundedSeq(Candidates, 3) : Distinct(c)}

Acyclic(c) ==
    \E rank \in [DOMAIN c -> DOMAIN c] : \A a, b \in DOMAIN c :
        c[a].parent = c[b].name => rank[a] > rank[b]

Profiles(m) ==
    {[Obj("profile", m) EXCEPT !.parent = q, !.sets = s] :
        q \in {Named(default), Named(x), Named(y), Named(n), NoParent}, s \in SUBSET Params}

Families ==
    LET third == Profiles(Named(n)) \cup Profiles(Named(default))
                 \cup {Obj("other", Named(x)), Obj("monitor", Named(y))}
        lines == {<<a, b, d>> : a \in Profiles(Named(x)), b \in Profiles(Named(y)), d \in third}
        perms == {s \in [1 .. 3 -> 1 .. 3] : Cardinality({s[k] : k \in 1 .. 3}) = 3}
    IN  {[k \in 1 .. 3 |-> c[s[k]]] : c \in {l \in lines : Acyclic(l)}, s \in perms}

(* A parent that no object has the name of until the renaming makes it.    *)
MadeUpParents ==
    LET elder == [Obj("profile", Named(x)) EXCEPT !.sets = Params]
        younger == [Obj("profile", Named(y)) EXCEPT !.parent = [pre |-> <<"profile">>, base |-> x, dup |-> 1]]
        line == <<elder, Obj("other", Named(x)), younger>>
        perms == {s \in [1 .. 3 -> 1 .. 3] : Cardinality({s[k] : k \in 1 .. 3}) = 3}
    IN  {[k \in 1 .. 3 |-> line[s[k]]] : s \in perms}

MCConfigs == Referring \cup Families \cup MadeUpParents
=============================================================================
