-------------------------- MODULE MCAs3Conversion --------------------------
(* Small configurations for As3Conversion: every order of up to three      *)
(* objects each of four families.                                          *)
EXTENDS As3Conversion

CONSTANTS T, f, app, odd, a, a1, b, ip, a_p, a_q, a1_p, a1_q, p, q, x, xy

MCOriginal == (a1 :> a) @@ (a_p :> a) @@ (a_q :> a)
MCStartsWith == {<<n, n>> : n \in Names}
                \cup {<<n, a>> : n \in {a1, a_p, a_q, a1_p, a1_q}}
                \cup {<<n, a1>> : n \in {a1_p, a1_q}}
MCPortName == [n \in Names |-> [r \in Ports |->
                 CASE n = a1 -> IF r = p THEN a1_p ELSE a1_q
                   [] OTHER -> IF r = p THEN a_p ELSE a_q]]
MCIncludes == {<<x, x>>, <<xy, xy>>, <<xy, x>>}
MCDefaults == {<<Common, b>>}

Obj(type, path) ==
    [type |-> type, path |-> path, fails |-> "no", emits |-> TRUE, extras |-> {},
     addr |-> NoAddress, ports |-> << >>, https |-> FALSE, redirect |-> FALSE]

Virtual(path, addr, ports) ==
    [Obj("virtual", path) EXCEPT !.addr = addr, !.ports = ports]
Https(v) == [v EXCEPT !.https = TRUE]
Redirect(v) == [v EXCEPT !.redirect = TRUE]
Failing(o, where) == [o EXCEPT !.fails = where]

Spots == {<<Common, a>>, <<Common, f, a>>, <<Common, app, a>>, <<Common, Shared, a>>,
          <<T, a>>, <<T, f>>, <<T, f, a>>, <<T, app, a>>}

(* Where objects go.                                                       *)
Placed ==
    {Obj(t, s) : t \in {"pool", "plain"}, s \in Spots}
    \cup {Obj("virtual-address", s) : s \in {<<T, a>>, <<T, f, a>>, <<Common, ip>>}}
Serving ==
    {Virtual(s, x, <<p>>) :
        s \in {<<Common, b>>, <<Common, f, b>>, <<Common, app, b>>, <<T, b>>,
               <<T, f, b>>, <<T, app, b>>, <<T, odd, b>>}}
Places2 == {<<u, v>> : u \in Placed, v \in Serving}
           \cup {<<u, v>> : u \in Serving, v \in Placed}

(* What is skipped, reported or fails.                                     *)
Troubled ==
    {Failing(Obj("pool", <<T, a>>), "engine"), Failing(Obj("pool", <<Common, a>>), "custom"),
     Failing(Obj("virtual-address", <<T, b>>), "custom"), Obj("virtual-address", <<T, ip>>),
     Failing(Virtual(<<Common, f>>, x, <<p>>), "custom"),
     Obj("unknown", <<T, a>>), Obj("phantom", <<T, a>>), Obj("plain", <<b>>),
     Obj("plain", <<a>>), Obj("plain", <<Common, a>>), Obj("pool", <<T, odd, a>>),
     [Obj("application service", <<T, app, a>>) EXCEPT !.emits = FALSE],
     Virtual(<<T, app, a>>, x, <<p>>), Virtual(<<Common, odd, b>>, x, <<p>>), Redirect(Virtual(<<T, f, a>>, x, <<p>>)),
     Redirect(Virtual(<<T, a>>, x, <<p>>))}

(* Copies and collisions.                                                  *)
Copied ==
    {Obj(t, <<T, f, n>>) : t \in {"pool", "monitor", "plain"}, n \in {a, a1}}
    \cup {[Obj("pool", <<T, f, n>>) EXCEPT !.extras = {e}] : n \in {a, a1}, e \in {b, a_p}}
    \cup {Virtual(<<T, f, n>>, x, ps) : n \in {a, a1, a_p}, ps \in {<<p>>, <<p, q>>}}
    \cup {Obj("virtual-address", <<T, a>>), Obj("pool", <<T, a>>)}

(* Redirects.                                                              *)
Redirecting ==
    {Https(Virtual(s, u, <<q>>)) : s \in {<<T, f, a>>, <<T, f, b>>, <<T, b>>}, u \in {x, xy}}
    \cup {Redirect(Virtual(s, u, ps)) :
              s \in {<<T, f, a>>, <<T, f, a1>>, <<T, f>>, <<Common, f, b>>, <<Common, Shared, b>>},
              u \in {x, xy}, ps \in {<<p>>}}
    \cup {Https(Virtual(<<T, f, a>>, x, <<p, q>>)), Https(Virtual(<<T, f, b>>, ByName, <<q>>)),
          Redirect(Virtual(<<T, f, a1>>, x, <<p, q>>)), Redirect(Virtual(<<T, f, b>>, ByName, <<p>>)),
          Obj("virtual", <<T, f, b>>), Failing(Virtual(<<Common, a>>, x, <<q>>), "custom"),
          Obj("pool", <<T, f, b>>), Obj("plain", <<T, f, a>>)}

Distinct(c) ==
    \A k, m \in DOMAIN c : c[k].type = c[m].type /\ c[k].path = c[m].path => k = m

MCConfigs ==
    Places2 \cup {c \in UNION {BoundedSeq(s, 3) : s \in {Troubled, Copied, Redirecting}} :
                      Distinct(c)}
=============================================================================
