------------------------ MODULE MCApplicationFilter -------------------------
(***************************************************************************)
(* A virtual server v with up to two references, a pool p beside it, a     *)
(* monitor m and a namesake of the pool in /Common/Shared, with up to one  *)
(* reference each, and an object n of a third application.                 *)
(***************************************************************************)
EXTENDS ApplicationFilter

V == <<"T", "A", "v">>
P == <<"T", "A", "p">>
M == <<"Common", "Shared", "m">>
P2 == <<"Common", "Shared", "p">>
N == <<"T", "B", "n">>

Value(refs) == [form : {"value"}, ref : refs]
Gone == <<"T", "A", "gone">>
Url == <<"http:", "", "x">>
OfV == Value({P, M, N, P2, <<"p">>, Url}) \cup [form : {"element"}, ref : {M, <<"p">>}]
       \cup [form : {"nested"}, ref : {M}]
OfP == Value({M, <<"m">>, V, Gone, Url}) \cup [form : {"element"}, ref : {M}]
OfM == Value({P, N})
AtMostOne(s) == {<<>>} \cup {<<x>> : x \in s}
MCObjects == {{V, P, M}, {V, P, M, N}, {V, P, M, P2}, {P, M}}
MCDeclarations ==
    UNION {{[o \in s |-> CASE o = V -> a [] o = P -> b [] o = M -> c [] OTHER -> <<>>] :
               a \in AtMostOne(OfV) \cup {<<x, y>> : x \in OfV, y \in OfV},
               b \in AtMostOne(OfP), c \in AtMostOne(OfM)} : s \in MCObjects}
MCVs == V
MCSegments == {"T", "A", "B", "U", "C", "Common", "Shared", "v", "p", "m", "n", "gone", "http:", "", "x"}
MCTargets == {<<"T", "A">>, <<"U", "C">>, <<"T", "B">>}
=============================================================================
