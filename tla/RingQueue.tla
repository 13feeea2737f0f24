----------------------------- MODULE RingQueue -----------------------------
(***************************************************************************)
(* kernel/lib/Queue.c: a ring buffer of LEN slots with a front and a rear  *)
(* index, used for the key queue and for the pids of exited processes.     *)
(***************************************************************************)
EXTENDS Integers, Sequences

CONSTANTS LEN,    \* queue->len
          Data,   \* what the slots hold (memcpy of dataSize bytes is one copy)
          Zero    \* the content of a slot that was never written

ASSUME RingQueueAssumption == LEN \in Nat \ {0} /\ Zero \in Data

VARIABLES front, rear, queueArr,
          ret,     \* what the last call returned
          out      \* where the caller of deQueue wants the item

queueVars == <<front, rear, queueArr, ret, out>>

Slots == 0 .. LEN - 1

QueueTypeOK ==
    /\ front \in Slots /\ rear \in Slots
    /\ queueArr \in [Slots -> Data]
    /\ ret \in BOOLEAN /\ out \in Data

\* initQueue; the buffers are static and start as zeros.
initQueue ==
    /\ front = 0 /\ rear = 0
    /\ queueArr = [i \in Slots |-> Zero]
    /\ ret = TRUE /\ out = Zero

queueIsEmpty == front = rear

\* Mutant of queueIsFull: the index does not wrap.
fullNoWrap == front = rear + 1

queueIsFull == front = (rear + 1) % LEN

enQueue(data) ==
    \/ /\ queueIsFull
       /\ ret' = FALSE
       /\ UNCHANGED <<front, rear, queueArr, out>>
    \/ /\ ~queueIsFull
       /\ queueArr' = [queueArr EXCEPT ![rear] = data]
       /\ rear' = (rear + 1) % LEN
       /\ ret' = TRUE
       /\ UNCHANGED <<front, out>>

\* A failed call leaves the caller's item as it was.
deQueue ==
    \/ /\ queueIsEmpty
       /\ ret' = FALSE
       /\ UNCHANGED <<front, rear, queueArr, out>>
    \/ /\ ~queueIsEmpty
       /\ out' = queueArr[front]
       /\ front' = (front + 1) % LEN
       /\ ret' = TRUE
       /\ UNCHANGED <<rear, queueArr>>

QueueNext == (\E d \in Data : enQueue(d)) \/ deQueue

QueueSpec == initQueue /\ [][QueueNext]_queueVars

-----------------------------------------------------------------------------
\* The number of queued items, and the items from front up to rear.
Used == (rear - front) % LEN

Items == [i \in 1 .. Used |-> queueArr[(front + i - 1) % LEN]]

AbsQueue == INSTANCE BoundedQueue WITH items <- Items

\* The ring behaves as a FIFO that refuses the item number LEN: nothing is lost,
\* duplicated or reordered when the indices wrap.
ImplementsQueue == AbsQueue!Spec
=============================================================================
