------------------------------ MODULE MCUnits ------------------------------
(***************************************************************************)
(* Instance for TLC of the units that share no state: the linked list, the *)
(* ring queue, the stopwatch and the boot sequence. One of them takes all  *)
(* the steps of a behaviour, the others rest in their initial state.       *)
(***************************************************************************)
EXTENDS LinkedList, RingQueue, Stopwatch, Boot

VARIABLE unit

vars == <<unit, listVars, queueVars, watchVars, bootVars>>

MCNodes == 0 .. 3

\* The stopwatch and boot start from one of many states: the first of them for
\* the units that rest.
Init ==
    /\ unit \in {"list", "queue", "stopwatch", "boot"}
    /\ initList /\ initQueue /\ WatchInit /\ BootInit
    /\ unit # "stopwatch" => counter = RELOAD
    /\ unit # "boot" => \A l \in LoaderSizes, k \in KernelSizes, b \in BssSizes :
                            loader <= l /\ kernel <= k /\ bss <= b

Next ==
    \/ unit = "list" /\ ListNext /\ UNCHANGED <<unit, queueVars, watchVars, bootVars>>
    \/ unit = "queue" /\ QueueNext /\ UNCHANGED <<unit, listVars, watchVars, bootVars>>
    \/ unit = "stopwatch" /\ WatchNext /\ UNCHANGED <<unit, listVars, queueVars, bootVars>>
    \/ unit = "boot" /\ BootNext /\ UNCHANGED <<unit, listVars, queueVars, watchVars>>

Spec == Init /\ [][Next]_vars
=============================================================================
