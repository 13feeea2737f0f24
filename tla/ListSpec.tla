------------------------------ MODULE ListSpec ------------------------------
(***************************************************************************)
(* What the kernel expects of kernel/lib/LinkedList.c: several lists that  *)
(* share one set of nodes (a PCB has a single link field for the ready,    *)
(* the sleep and the mutex lists), each list being a sequence on which     *)
(* the operators of module Lists act.                                      *)
(***************************************************************************)
EXTENDS Lists

CONSTANTS Nodes,      \* ids of the nodes
          ListNames   \* the lists

VARIABLES contents,   \* the sequence each list holds
          result      \* what the last call returned

Init == contents = [l \in ListNames |-> <<>>] /\ result = NULL

\* The caller's obligation: a node that is linked nowhere.
Insert(l, n) ==
    /\ \A k \in ListNames : n \notin Elems(contents[k])
    /\ contents' = [contents EXCEPT ![l] = insertList(@, n)]
    /\ UNCHANGED result

\* Removing by id is allowed for a node that is not on the list.
RemoveById(l, n) ==
    /\ contents' = [contents EXCEPT ![l] = removeList(@, n)]
    /\ result' = IF n \in Elems(contents[l]) THEN n ELSE NULL

RemoveHead(l) ==
    /\ contents' = [contents EXCEPT ![l] = HeadRemove(@)]
    /\ result' = HeadOf(contents[l])

Next ==
    \E l \in ListNames :
        \/ \E n \in Nodes : Insert(l, n) \/ RemoveById(l, n)
        \/ RemoveHead(l)

Spec == Init /\ [][Next]_<<contents, result>>
=============================================================================
