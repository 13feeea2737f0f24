------------------------------- MODULE Lists -------------------------------
(***************************************************************************)
(* What kernel/lib/LinkedList.c computes, as operators on sequences of pids.*)
(* A list is intrusive: its nodes are the `link' fields of the PCBs, and   *)
(* link.id is the pid, so a list is the sequence of the pids it holds.     *)
(* Module LinkedList models the same code with its head, tail, next and    *)
(* count fields and checks that it computes these operators.               *)
(***************************************************************************)
EXTENDS Integers, Sequences, SequencesExt

\* The value of a PCB pointer or of Mutex.pid that names no process.
NULL == -1

\* The pids a list holds.
Elems(list) == {list[i] : i \in 1 .. Len(list)}

\* No node is on the list twice.
IsInjectiveList(list) ==
    \A i, j \in 1 .. Len(list) : list[i] = list[j] => i = j

\* The node is linked behind the tail.
insertList(list, pid) == Append(list, pid)

\* Position of the first node with this id: removeList walks from the head.
FirstAt(list, id) ==
    CHOOSE i \in 1 .. Len(list) :
        /\ list[i] = id
        /\ \A j \in 1 .. i - 1 : list[j] # id

\* The first node with this id is unlinked; nothing happens if there is none.
removeList(list, id) ==
    IF id \in Elems(list) THEN RemoveAt(list, FirstAt(list, id)) ELSE list

\* The node HeadRemove returns, NULL for an empty list.
HeadOf(list) == IF list = <<>> THEN NULL ELSE Head(list)

\* The list HeadRemove leaves: it removes by the id of the head node.
HeadRemove(list) == IF list = <<>> THEN list ELSE removeList(list, Head(list))

\* cur->next as the list is now: the node behind the first one with this id.
NextOf(list, id) ==
    LET i == FirstAt(list, id) IN IF i = Len(list) THEN NULL ELSE list[i + 1]
=============================================================================
