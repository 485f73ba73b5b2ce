---------------------------- MODULE MCRefCleanup ----------------------------
(* Every declaration of at most MaxProperties properties whose arrays have *)
(* at most MaxElems values.                                                *)
EXTENDS RefCleanup

CONSTANTS MaxProperties, MaxElems

MCDeclarations ==
    LET arrays == {[kind |-> "array", elems |-> s] :
                       s \in BoundedSeq(Refs \cup {Plain}, MaxElems)}
        singles == {[kind |-> t, elems |-> <<r>>] : t \in {"use", "path"}, r \in Refs}
        others == {[kind |-> "other", elems |-> <<Plain>>]}
    IN  BoundedSeq(arrays \cup singles \cup others, MaxProperties)
=============================================================================
