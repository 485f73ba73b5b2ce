----------------------------- MODULE RefCleanup -----------------------------
(***************************************************************************)
(* src/src/postConverter/removeInvalidRefs.js, the last post-converter of  *)
(* an AS3 conversion: references to objects the declaration does not hold  *)
(* are taken out of every object that has a class.                         *)
(*                                                                         *)
(* The traversal of tenants and applications (23-34) reaches the objects   *)
(* one by one; here their properties stand in one sequence, in the order   *)
(* they are reached.  Removing a reference removes no object, so which     *)
(* references resolve does not change on the way.                          *)
(***************************************************************************)
EXTENDS Naturals, Sequences, SequencesExt

CONSTANTS
    Refs,           \* values a reference may have
    Existing,       \* the references to objects of the declaration
    Relative,       \* references without a '/'
    Plain,          \* a value that is no reference: a string or { bigip }
    Declarations    \* sequences of properties

ASSUME RefsAssumption ==
    /\ Existing \subseteq Refs /\ Relative \subseteq Refs
    /\ Plain \notin Refs

(* A property: an array of values, a wrapped reference { use }, a string   *)
(* of the form /tenant/application/object, something else, or deleted.     *)
Property == [kind : {"array", "use", "path", "other", "deleted"},
             elems : Seq(Refs \cup {Plain})]

ASSUME DeclarationsAssumption ==
    /\ Declarations \subseteq Seq(Property)
    /\ \A d \in Declarations : \A k \in DOMAIN d :
           /\ d[k].kind \in {"use", "path"} =>
                  Len(d[k].elems) = 1 /\ d[k].elems[1] \in Refs
           /\ d[k].kind # "deleted"

VARIABLES
    original,       \* the declaration the converter made
    decl,           \* the declaration under repair
    k,              \* the property that is visited
    i               \* the element of it that is visited

vars == <<original, decl, k, i>>
-----------------------------------------------------------------------------
(* Slips one could make in the definitions below, for the mutation runs.   *)
RemoveElementWith(elems, next) ==
    /\ k <= Len(decl) /\ decl[k].kind = "array"
    /\ i <= Len(decl[k].elems)
    /\ decl[k].elems[i] \in Refs \ (Existing \cup Relative)
    /\ decl' = [decl EXCEPT ![k].elems = elems]
    /\ i' = next
    /\ UNCHANGED <<original, k>>

RemoveElementAndSkip == RemoveElementWith(RemoveAt(decl[k].elems, i), i + 1)

RemoveElementAndRest == RemoveElementWith(SubSeq(decl[k].elems, 1, i - 1), i)

-----------------------------------------------------------------------------
(* getRefdObj (36-41): the path leads somewhere.  A reference without a    *)
(* '/' has the empty path, which leads to the whole declaration.           *)
Resolves(ref) == ref \in Existing \cup Relative

Deleted(p) == [p EXCEPT !.kind = "deleted"]

Init == /\ original \in Declarations
        /\ decl = original
        /\ k = 1
        /\ i = 1

NextProperty == k' = k + 1 /\ i' = 1 /\ UNCHANGED original

InArray == /\ k <= Len(decl)
           /\ decl[k].kind = "array"
           /\ i <= Len(decl[k].elems)

(* Line 52: an element without a use ends the visit of the whole property. *)
StopAtPlain ==
    /\ InArray
    /\ decl[k].elems[i] = Plain
    /\ NextProperty
    /\ UNCHANGED decl

KeepElement ==
    /\ InArray
    /\ decl[k].elems[i] \in Refs
    /\ Resolves(decl[k].elems[i])
    /\ i' = i + 1
    /\ UNCHANGED <<original, decl, k>>

(* Lines 54-58.                                                            *)
RemoveElement ==
    /\ InArray
    /\ decl[k].elems[i] \in Refs
    /\ ~Resolves(decl[k].elems[i])
    /\ decl' = [decl EXCEPT ![k].elems = RemoveAt(@, i)]
    /\ UNCHANGED <<original, k, i>>

(* Line 61: an array with nothing left goes.                               *)
EndArray ==
    /\ k <= Len(decl)
    /\ decl[k].kind = "array"
    /\ i > Len(decl[k].elems)
    /\ decl' = IF decl[k].elems = << >>
               THEN [decl EXCEPT ![k] = Deleted(@)] ELSE decl
    /\ NextProperty

(* Lines 62-76: a single reference, wrapped or not.                        *)
VisitSingle ==
    /\ k <= Len(decl)
    /\ decl[k].kind \in {"use", "path"}
    /\ decl' = IF Resolves(decl[k].elems[1]) THEN decl
               ELSE [decl EXCEPT ![k] = Deleted(@)]
    /\ NextProperty

VisitOther ==
    /\ k <= Len(decl)
    /\ decl[k].kind \in {"other", "deleted"}
    /\ NextProperty
    /\ UNCHANGED decl

Next == StopAtPlain \/ KeepElement \/ RemoveElement \/ EndArray
        \/ VisitSingle \/ VisitOther

Spec == Init /\ [][Next]_vars
-----------------------------------------------------------------------------
Done == k > Len(decl)

TypeOK ==
    /\ original \in Seq(Property)
    /\ decl \in Seq(Property)
    /\ Len(decl) = Len(original)
    /\ k \in Nat \ {0}
    /\ i \in Nat \ {0}

(* What may stay: values that are no reference, and references that        *)
(* resolve.                                                                *)
Sound(v) == v = Plain \/ Resolves(v)

(* What must stay: those, and whatever stands behind a value that is no    *)
(* reference, where the visit has ended.                                   *)
Stays(s, b) == Sound(s[b]) \/ \E c \in DOMAIN s : c < b /\ s[c] = Plain

(* What is left of a sequence when only values that need not stay were     *)
(* taken out: the rest stands in the order it stood in, and every value    *)
(* that must stay is there.                                                *)
IsLeftOf(elems, before) ==
    \E at \in [DOMAIN elems -> DOMAIN before] :
        /\ \A e, f \in DOMAIN elems : e < f => at[e] < at[f]
        /\ \A e \in DOMAIN elems : elems[e] = before[at[e]]
        /\ \A b \in DOMAIN before :
               Stays(before, b) => \E e \in DOMAIN elems : at[e] = b

(* The cleanup takes nothing else: the sound values of every property, and *)
(* all that stands behind one that is no reference, stay where they are,   *)
(* in their order (lines 51-58), and a property goes only when none of its *)
(* values must stay (61-74).                                               *)
OnlyDanglingRemoved ==
    \A p \in DOMAIN decl :
        /\ IsLeftOf(decl[p].elems, original[p].elems)
        /\ decl[p].kind # original[p].kind =>
              /\ decl[p].kind = "deleted"
              /\ \A e \in DOMAIN original[p].elems : ~Stays(original[p].elems, e)

IsRefProperty(p) == p.kind \in {"array", "use", "path"}

(* A property is clean once it has been visited: what is left in it        *)
(* resolves, up to the first value that is no reference (lines 51-76).  So *)
(* deleting elements while walking over them skips none, the exit of line  *)
(* 52 hides only what stands behind it, and no empty array is left.        *)
RefPropertiesClean ==
    \A p \in DOMAIN decl :
        p < k /\ IsRefProperty(decl[p]) =>
              /\ decl[p].elems # << >>
              /\ \A e \in DOMAIN decl[p].elems :
                     \/ Resolves(decl[p].elems[e])
                     \/ \E f \in DOMAIN decl[p].elems :
                            f <= e /\ decl[p].elems[f] = Plain

=============================================================================
