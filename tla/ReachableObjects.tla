-------------------------- MODULE ReachableObjects --------------------------
(***************************************************************************)
(* What filtering by a virtual server promises: starting from one object,  *)
(* exactly the objects that can be reached from it over references are     *)
(* collected, in whatever order, and the search is over when there is no   *)
(* further one, or when it gives up.                                       *)
(***************************************************************************)
VARIABLES
    graph,          \* for each object the set of objects it refers to
    start,          \* the object the search starts from
    collected,      \* the objects found so far
    outcome         \* "open", "done" or "failed"

vars == <<graph, start, collected, outcome>>

Init == collected = {start} /\ outcome = "open"

Collect == /\ outcome = "open"
           /\ \E o \in collected : \E d \in graph[o] \ collected :
                  collected' = collected \cup {d}
           /\ UNCHANGED <<graph, start, outcome>>

Finish == /\ outcome = "open"
          /\ \A o \in collected : graph[o] \subseteq collected
          /\ outcome' = "done"
          /\ UNCHANGED <<graph, start, collected>>

GiveUp == outcome = "open" /\ outcome' = "failed" /\ UNCHANGED <<graph, start, collected>>

Next == Collect \/ Finish \/ GiveUp

Spec == Init /\ [][Next]_vars
=============================================================================
