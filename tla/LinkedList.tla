----------------------------- MODULE LinkedList -----------------------------
(***************************************************************************)
(* kernel/lib/LinkedList.c with its pointers: every list has head, tail    *)
(* and count, every node one next field, whichever list it is on. A node   *)
(* that leaves a list keeps its next field until it is inserted again.     *)
(* A node is identified with its id (the link of the PCB with that pid).   *)
(***************************************************************************)
EXTENDS Lists, FiniteSets

CONSTANTS Nodes, ListNames

ASSUME LinkedListAssumption == IsFiniteSet(Nodes) /\ NULL \notin Nodes

VARIABLES head, tail, count,   \* the LinkedList structures
          next,                \* the next field of every node
          result               \* what the last call returned

listVars == <<head, tail, count, next, result>>

\* The node pointer cur of a walk along list l after k rounds of its loop, NULL
\* once it has left the list. No walk is longer than the number of nodes.
Walk(l) ==
    LET cur[k \in 0 .. Cardinality(Nodes)] ==
            IF k = 0 THEN head[l]
            ELSE IF cur[k - 1] = NULL THEN NULL ELSE next[cur[k - 1]]
    IN  cur

\* The rounds in which the walk looks at a node with this id.
Hits(l, id) == {k \in 0 .. Cardinality(Nodes) : Walk(l)[k] = id}

ListTypeOK ==
    /\ head \in [ListNames -> Nodes \cup {NULL}]
    /\ tail \in [ListNames -> Nodes \cup {NULL}]
    /\ count \in [ListNames -> Nat]
    /\ next \in [Nodes -> Nodes \cup {NULL}]
    /\ result \in Nodes \cup {NULL}

\* initList for every list; the nodes are zeroed memory.
initList ==
    /\ head = [l \in ListNames |-> NULL]
    /\ tail = [l \in ListNames |-> NULL]
    /\ count = [l \in ListNames |-> 0]
    /\ next = [n \in Nodes |-> NULL]
    /\ result = NULL

\* Mutant of insertNode: the next field of the new tail is not cleared.
insertKeepsNext(l, item) ==
    /\ head' = IF head[l] = NULL THEN [head EXCEPT ![l] = item] ELSE head
    /\ next' = IF head[l] = NULL THEN next ELSE [next EXCEPT ![tail[l]] = item]
    /\ tail' = [tail EXCEPT ![l] = item]
    /\ count' = [count EXCEPT ![l] = @ + 1]
    /\ UNCHANGED result

\* Mutant of insertNode: the node is linked in front of the head.
insertAtHead(l, item) ==
    /\ head' = [head EXCEPT ![l] = item]
    /\ next' = [next EXCEPT ![item] = head[l]]
    /\ tail' = IF tail[l] = NULL THEN [tail EXCEPT ![l] = item] ELSE tail
    /\ count' = [count EXCEPT ![l] = @ + 1]
    /\ UNCHANGED result

\* item->next = NULL comes first; the old tail is linked to it afterwards.
insertNode(l, item) ==
    /\ head' = IF head[l] = NULL THEN [head EXCEPT ![l] = item] ELSE head
    /\ next' = IF head[l] = NULL THEN [next EXCEPT ![item] = NULL]
               ELSE [next EXCEPT ![item] = NULL, ![tail[l]] = item]
    /\ tail' = [tail EXCEPT ![l] = item]
    /\ count' = [count EXCEPT ![l] = @ + 1]
    /\ UNCHANGED result

\* cur is unlinked from list l; pre is the node the walk visited before it.
unlink(l, pre, cur) ==
    /\ \/ /\ cur = head[l] /\ cur = tail[l]
          /\ head' = [head EXCEPT ![l] = NULL]
          /\ tail' = [tail EXCEPT ![l] = NULL]
          /\ UNCHANGED next
       \/ /\ cur = head[l] /\ cur # tail[l]
          /\ head' = [head EXCEPT ![l] = next[cur]]
          /\ UNCHANGED <<tail, next>>
       \/ /\ cur # head[l] /\ cur = tail[l]
          /\ tail' = [tail EXCEPT ![l] = pre]
          /\ next' = [next EXCEPT ![pre] = NULL]
          /\ UNCHANGED head
       \/ /\ cur # head[l] /\ cur # tail[l]
          /\ next' = [next EXCEPT ![pre] = next[cur]]
          /\ UNCHANGED <<head, tail>>
    /\ count' = [count EXCEPT ![l] = @ - 1]
    /\ result' = cur

removeNode(l, id) ==
    IF Hits(l, id) = {}
    THEN result' = NULL /\ UNCHANGED <<head, tail, count, next>>
    ELSE LET k == CHOOSE k \in Hits(l, id) : \A j \in Hits(l, id) : k <= j
         IN  unlink(l, Walk(l)[IF k = 0 THEN 0 ELSE k - 1], Walk(l)[k])

removeHead(l) ==
    IF count[l] = 0
    THEN result' = NULL /\ UNCHANGED <<head, tail, count, next>>
    ELSE removeNode(l, head[l])

\* The nodes a walk visits, in order: the sequence the list stands for.
ContentsOf(l) ==
    LET len == Cardinality({k \in 0 .. Cardinality(Nodes) - 1 : Walk(l)[k] # NULL})
    IN  [i \in 1 .. len |-> Walk(l)[i - 1]]

Contents == [l \in ListNames |-> ContentsOf(l)]

\* insertList is called only for a PCB that is linked nowhere (the property
\* OneHome of Scheduler).
ListNext ==
    \E l \in ListNames :
        \/ \E n \in Nodes :
             /\ \A k \in ListNames : n \notin Elems(Contents[k])
             /\ insertNode(l, n)
        \/ \E n \in Nodes : removeNode(l, n)
        \/ removeHead(l)

ListsSpec == initList /\ [][ListNext]_listVars

-----------------------------------------------------------------------------
\* The pointers stay consistent: a walk ends (no cycle through the stale next
\* field of a node that moved to another list), tail is the last node of the
\* walk, count is its length, and no node is reached from two lists.
ChainOK ==
    /\ ListTypeOK
    /\ \A l \in ListNames :
        /\ Walk(l)[Cardinality(Nodes)] = NULL
        /\ count[l] = Len(Contents[l])
        /\ tail[l] = IF Contents[l] = <<>> THEN NULL ELSE Last(Contents[l])
        /\ \A k \in ListNames \ {l} : Elems(Contents[l]) \cap Elems(Contents[k]) = {}

AbsLists == INSTANCE ListSpec WITH contents <- Contents

\* The pointer code computes the sequence operators the scheduler model uses.
ImplementsLists == AbsLists!Spec
=============================================================================
