---------------------------- MODULE NextCleanUp -----------------------------
(***************************************************************************)
(* What is done with the paths that AS3 Next does not support:             *)
(* as3NextCleanUp (src/src/engines/as3Converter.js 255-291) deletes them   *)
(* from the declaration one after the other with deleteProperty            *)
(* (src/src/util/convert/deleteProperty.js), and nextFilteredObjects       *)
(* (src/src/main.js 48-89) finds the stanzas the deleted objects came from *)
(*                                                                         *)
(* A path is the sequence of its segments, a segment a string, "0", "1",   *)
(* ... for an element of an array.                                         *)
(***************************************************************************)
EXTENDS Naturals, Sequences, SequencesExt

CONSTANT EndsOf     \* for each name the names it ends with, itself included

Leaf(x) == [is |-> "leaf", of |-> x]
Obj(f) == [is |-> "object", of |-> f]
Arr(s) == [is |-> "array", of |-> s]
Undefined == [is |-> "undefined", of |-> <<>>]
IsEmpty(v) == \/ v.is = "array" /\ v.of = <<>>
              \/ v.is = "object" /\ DOMAIN v.of = {}

Position == [k \in {ToString(n) : n \in 0..9} |-> CHOOSE n \in 1..10 : ToString(n - 1) = k]
-----------------------------------------------------------------------------
(* Slips one could make in the definitions below, for the mutation runs.   *)
TidyAll(v, k) ==
    IF v.is = "array" THEN Arr(SelectSeq(v.of, LAMBDA e : ~ IsEmpty(e) /\ e.is # "leaf"))
    ELSE Obj([j \in {j \in DOMAIN v.of : ~ IsEmpty(v.of[j])} |-> v.of[j]])

AnyKey(key, item) == TRUE
-----------------------------------------------------------------------------
Child(v, k) ==
    CASE v.is = "object" /\ k \in DOMAIN v.of -> v.of[k]
      [] v.is = "array" /\ Position[k] <= Len(v.of) -> v.of[Position[k]]
      [] OTHER -> Undefined

(* splice, or delete.                                                      *)
Dropped(v, k) ==
    IF v.is = "array"
    THEN IF Position[k] <= Len(v.of) THEN Arr(RemoveAt(v.of, Position[k])) ELSE v
    ELSE Obj([j \in DOMAIN v.of \ {k} |-> v.of[j]])

(* An element that is not there leaves a hole.                             *)
Put(v, k, w) ==
    CASE v.is = "array" ->
            Arr([i \in DOMAIN v.of \cup 1..Position[k] |->
                    CASE i = Position[k] -> w
                      [] i # Position[k] /\ i \in DOMAIN v.of -> v.of[i]
                      [] OTHER -> Undefined])
      [] v.is = "object" /\ w # Undefined -> Obj((k :> w) @@ v.of)
      [] OTHER -> v

(* Empty values go (46-59).  In an array it is the element at the index of *)
(* the path that goes, whichever one was found to be empty, and what was   *)
(* behind it moves up while the loop goes on.                              *)
Tidy(v, k) ==
    IF v.is = "array"
    THEN FoldLeft(LAMBDA w, i : IF i <= Len(w.of) /\ IsEmpty(w.of[i]) THEN Dropped(w, k) ELSE w,
                  v, [i \in DOMAIN v.of |-> i])
    ELSE Obj([j \in {j \in DOMAIN v.of : ~ IsEmpty(v.of[j])} |-> v.of[j]])

RECURSIVE DeleteProperty(_, _)
DeleteProperty(v, p) ==
    IF v.is \in {"undefined", "leaf"} THEN v
    ELSE Tidy(IF Len(p) = 1 THEN Dropped(v, p[1])
              ELSE Put(v, p[1], DeleteProperty(Child(v, p[1]), Tail(p))), p[1])

CleanedUp(decl, paths) == FoldLeft(DeleteProperty, decl, paths)

(* The objects among the paths, as names of stanzas (262-264).             *)
InCommon(p) == IF SubSeq(p, 1, 2) = <<"Common", "Shared">> THEN <<"Common", p[3]>> ELSE p
NotSupported(paths) ==
    LET objects == SelectSeq(paths, LAMBDA p : Len(p) = 3)
    IN  [i \in DOMAIN objects |-> InCommon(objects[i])]
-----------------------------------------------------------------------------
(* A stanza's key is its type and its path.                                *)
NameOf(p) == p[Len(p)]

(* The stanzas named exactly (54-62), in the order of the configuration,   *)
(* each of which uses up one of the items.                                 *)
Exactly(keys, items) ==
    FoldLeft(LAMBDA r, key :
                 IF key.path \in {r.items[i] : i \in DOMAIN r.items}
                 THEN [r EXCEPT !.found = @ \cup {key}, !.items = RemoveFirst(@, key.path)]
                 ELSE [r EXCEPT !.left = Append(@, key)],
             [found |-> {}, left |-> <<>>, items |-> items], keys)

EndsWith(key, item) == NameOf(item) \in EndsOf[NameOf(key.path)]

(* For each other item the first stanza left whose key ends with its name  *)
(* (70-86); the object counts as of undefined type if there is none.       *)
NextFiltered(keys, items) ==
    LET exact == Exactly(keys, items)
    IN  FoldLeft(LAMBDA r, item :
                     LET at == SelectInSeq(r.left, LAMBDA key : EndsWith(key, item))
                     IN  IF at = 0 THEN [r EXCEPT !.undefined = @ \cup {item}]
                         ELSE [r EXCEPT !.found = @ \cup {r.left[at]}, !.left = RemoveAt(@, at)],
                 [found |-> exact.found, left |-> exact.left, undefined |-> {}], exact.items)
-----------------------------------------------------------------------------
(* The reference: all paths are deleted at once, with what they leave      *)
(* empty, and with the empty objects beside them.                          *)
Below(paths, k) == {Tail(p) : p \in {p \in paths : p[1] = k /\ Len(p) > 1}}

RECURSIVE Without(_, _)
Without(v, paths) ==
    LET At(k) == IF Below(paths, k) = {} THEN Child(v, k) ELSE Without(Child(v, k), Below(paths, k))
        Stays(k) == <<k>> \notin paths /\ ~ IsEmpty(At(k))
    IN  IF v.is = "array"
        THEN LET kept == SelectSeq([i \in DOMAIN v.of |-> ToString(i - 1)], Stays)
             IN  Arr([i \in DOMAIN kept |-> At(kept[i])])
        ELSE IF v.is = "object" THEN Obj([k \in {k \in DOMAIN v.of : Stays(k)} |-> At(k)])
        ELSE v

(* Or one after the other, each by the numbers that the one before it has  *)
(* left.                                                                   *)
OneByOne(decl, paths) == FoldLeft(LAMBDA v, p : Without(v, {p}), decl, paths)

RECURSIVE NoHoles(_)
NoHoles(v) ==
    CASE v.is = "array" ->
            LET there == SelectSeq(v.of, LAMBDA e : e # Undefined)
            IN  Arr([i \in DOMAIN there |-> NoHoles(there[i])])
      [] v.is = "object" -> Obj([k \in DOMAIN v.of |-> NoHoles(v.of[k])])
      [] OTHER -> v

RECURSIVE ValueAt(_, _)
ValueAt(v, p) == IF p = <<>> THEN v ELSE ValueAt(Child(v, p[1]), Tail(p))

SharedPrefixes(p, q) ==
    {n \in 0..Len(p) - 1 : n < Len(q) /\ SubSeq(p, 1, n) = SubSeq(q, 1, n)}

(* A path into an array, with one into the same array before it that does  *)
(* not lie behind it.                                                      *)
Shifts(decl, paths) ==
    \E i, j \in DOMAIN paths : i < j /\ \E n \in SharedPrefixes(paths[i], paths[j]) :
        /\ ValueAt(decl, SubSeq(paths[i], 1, n)).is = "array"
        /\ Position[paths[i][n + 1]] <= Position[paths[j][n + 1]]

(* A path into an array that has empty elements already.                   *)
Holey(decl, paths) ==
    \E i \in DOMAIN paths : \E n \in 0..Len(paths[i]) - 1 :
        LET v == ValueAt(decl, SubSeq(paths[i], 1, n))
        IN  v.is = "array" /\ \E e \in DOMAIN v.of : IsEmpty(v.of[e])

(* Where the object of a stanza stands in the declaration.                 *)
Placed(key) ==
    LET p == key.path
    IN  IF Len(p) = 2 THEN <<p[1], "Shared", p[2]>>
        ELSE IF p[1] = "Common" THEN <<"Common", "Shared", p[3]>> ELSE p
=============================================================================
