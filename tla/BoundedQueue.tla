---------------------------- MODULE BoundedQueue ----------------------------
(***************************************************************************)
(* What the callers of kernel/lib/Queue.c rely on: a FIFO that holds one   *)
(* item less than its buffer has slots, refuses an item when it is full    *)
(* and has none to give when it is empty.                                  *)
(***************************************************************************)
EXTENDS Integers, Sequences

CONSTANTS LEN,    \* slots of the buffer
          Data    \* the items

VARIABLES items,  \* the queued items, oldest first
          ret,    \* whether the last call succeeded
          out     \* the item the last successful Get delivered

TypeOK ==
    /\ items \in Seq(Data) /\ Len(items) < LEN
    /\ ret \in BOOLEAN /\ out \in Data

Init == items = <<>> /\ ret = TRUE /\ out \in Data

Put(d) ==
    /\ IF Len(items) = LEN - 1
       THEN ret' = FALSE /\ UNCHANGED items
       ELSE ret' = TRUE /\ items' = Append(items, d)
    /\ UNCHANGED out

Get ==
    IF items = <<>>
    THEN ret' = FALSE /\ UNCHANGED <<items, out>>
    ELSE ret' = TRUE /\ out' = Head(items) /\ items' = Tail(items)

Next == (\E d \in Data : Put(d)) \/ Get

Spec == Init /\ [][Next]_<<items, ret, out>>
=============================================================================
