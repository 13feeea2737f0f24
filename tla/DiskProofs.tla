----------------------------- MODULE DiskProofs -----------------------------
(***************************************************************************)
(* The driver of Disk for every set of clients, every sector count and     *)
(* every behaviour of the drive. DiskInv is the inductive invariant:       *)
(*   - the scheduler is consistent (ProcessProofs),                        *)
(*   - diskMutex has one holder, and its wait list the blocked callers,    *)
(*   - whoever is blocked in waitInterrupt sleeps, is the registered       *)
(*     waiter and has not been signalled,                                  *)
(*   - what the holder has moved and what the drive is doing belong        *)
(*     together: MovedInv and DriveInv, unless the drive ignored the       *)
(*     command, which it may do while it has DRQ set.                      *)
(***************************************************************************)
EXTENDS Disk, ProcessProofs

\* Who owns diskMutex and who waits for it.
LockInv ==
    /\ diskMutex \in [pid : Clients \cup {NULL}, count : Nat, waitList : Seq(Clients)]
    /\ IsInjectiveList(diskMutex.waitList)
    /\ diskMutex.pid = NULL => diskMutex.waitList = <<>>
    /\ diskMutex.pid # NULL => diskMutex.count = 1 /\ at[diskMutex.pid] # "run"
    /\ \A p \in Clients : at[p] \notin {"run", "lock"} => diskMutex.pid = p
    /\ \A p \in Clients :
         p \in Elems(diskMutex.waitList) <=> at[p] = "lock" /\ diskMutex.pid # p

\* Who is blocked, and that nobody who was signalled is.
BlockInv ==
    /\ diskWaiter \in Clients \cup {NULL}
    /\ occurFlag \in BOOLEAN
    /\ \A p \in Clients : diskWaiter = p <=> at[p] = "block"
    /\ \A p \in Clients : p \in Elems(sched.sleepList) => at[p] = "block"
    /\ \A p \in Clients : sched.state[p] = BLOCKED =>
         \/ p \in Elems(diskMutex.waitList)
         \/ p \in Elems(sched.sleepList) /\ ~occurFlag
    /\ \A p \in Elems(diskMutex.waitList) : sched.state[p] = BLOCKED

SyncInv ==
    /\ Consistent(sched, Clients)
    /\ at \in [Pids -> Points]
    /\ LockInv /\ BlockInv

\* The types of the data of the calls and of the drive.
DataOK ==
    /\ irq \in BOOLEAN
    /\ call \in [Pids -> [kind : Kinds, n : Nat, i : Nat, parity : {0, 1},
                          ignored : BOOLEAN]]
    /\ buf \in [Pids -> Seq(Tags \X Nat)]
    /\ dev \in [phase : {"idle", "busy", "drq", "err"}, kind : Kinds, tag : Tags,
                n : Nat, done : Nat]

\* How many sectors p has moved behind call[p].i complete rounds.
Moved(p) ==
    IF call[p].kind = "write" /\ at[p] \in {"wait", "block", "status"}
    THEN call[p].i + 1 ELSE call[p].i

\* Before the command, and outside of a call.
Before == {"run", "lock", "noBusy", "ready", "issue"}

\* The loop counter of a call against its sector count and what went through the
\* data port.
CallInv(p) ==
    /\ call[p].i <= call[p].n
    /\ at[p] \notin {"run", "release"} => call[p].i < call[p].n
    /\ call[p].i <= Len(buf[p])
    /\ at[p] \notin {"run", "release"} => Len(buf[p]) = Moved(p)
    /\ at[p] \in Before \cup {"drq"} => Len(buf[p]) = 0
    /\ at[p] \in {"drq", "status"} => call[p].kind = "write"
    /\ at[p] \in Before => ~call[p].ignored

\* What was moved for a call was moved by its own command, in order.
MovedInv(p) ==
    ~call[p].ignored => \A k \in 1 .. Len(buf[p]) : buf[p][k] = <<TagOf(p), k>>

\* The drive works for the call of p and is as far as p.
Serves(p) ==
    /\ dev.tag = TagOf(p) /\ dev.kind = call[p].kind
    /\ dev.n = call[p].n /\ dev.done = Len(buf[p])

\* The drive has answered the command, or the last sector of it.
Answered ==
    \/ dev.phase = "err"
    \/ dev.phase = "drq" /\ dev.done < dev.n
    \/ dev.phase = "idle" /\ dev.kind = "write" /\ dev.done = dev.n

\* What the drive does while p is at each point: it cannot raise an interrupt
\* between the test of BSY and the command, and each answer is signalled once.
DriveInv(p) == ~call[p].ignored =>
    /\ at[p] \in {"ready", "issue"} => dev.phase # "busy" /\ ~irq
    /\ at[p] \in {"issue", "data"} => ~occurFlag
    /\ at[p] \in {"drq", "clear", "data", "wait", "block", "status"} => Serves(p)
    /\ at[p] = "drq" => \/ dev.phase = "err"
                        \/ dev.phase \in {"busy", "drq"} /\ ~irq /\ ~occurFlag
    /\ at[p] \in {"clear", "data"} =>
         /\ ~irq
         /\ \/ dev.phase = "drq"
            \/ dev.phase = "err" /\ call[p].kind = "read"
    /\ at[p] \in {"wait", "block"} =>
         \/ dev.phase = "busy" /\ ~irq /\ ~occurFlag
         \/ Answered /\ irq # occurFlag
    /\ at[p] = "status" => ~irq /\ Answered

\* The part about the driver, and the part about the commands the drive took.
DriverInv == SyncInv /\ DataOK /\ \A p \in Pids : CallInv(p)

DiskInv == DriverInv /\ \A p \in Clients : MovedInv(p) /\ DriveInv(p)

-----------------------------------------------------------------------------
(* Who owns the driver and who is blocked in it.                           *)

\* The clients are processes the scheduler may run, and NULL is none of them.
LEMMA ClientFacts ==
    /\ Clients \in SUBSET (Pids \ {Idle})
    /\ Clients \in SUBSET (Pids \ {Collector, Idle})
    /\ Clients \subseteq Pids /\ Idle \notin Clients /\ NULL \notin Clients
    /\ Shell \in Clients
BY DiskAssumption, PidFacts

LEMMA SyncInit == Init => SyncInv
<1> SUFFICES ASSUME Init PROVE SyncInv
  OBVIOUS
<1>1. PICK ready \in SetToSeqs(Clients \ {Shell}) :
         sched = [initScheduler EXCEPT !.processList = ready,
                                       !.state[Collector] = BLOCKED]
  BY DEF Init
<1>2. /\ Consistent(sched, Clients) /\ sched.sleepList = <<>>
      /\ \A p \in Clients : sched.state[p] # BLOCKED
  BY <1>1, ClientFacts, ConsistentStart
<1>3. at = [p \in Pids |-> "run"] /\ at \in [Pids -> Points]
  BY DEF Init, Points
<1>4. \A p \in Clients : at[p] = "run"
  BY <1>3, ClientFacts
<1>5. diskMutex = [pid |-> NULL, count |-> 0, waitList |-> <<>>]
  BY DEF Init, initMutex
<1>6. /\ diskMutex.pid = NULL /\ diskMutex.waitList = <<>>
      /\ diskMutex \in [pid : Clients \cup {NULL}, count : Nat, waitList : Seq(Clients)]
  BY <1>5
<1>7. LockInv
  BY <1>4, <1>6, EmptyProperties DEF LockInv
<1>8. BlockInv
  BY <1>2, <1>4, <1>6, ClientFacts, EmptyProperties DEF BlockInv, Init
<1> QED BY <1>2, <1>3, <1>7, <1>8 DEF SyncInv

\* A step of p inside the driver, away from the mutex and from blocking.
LEMMA Inside ==
    ASSUME SyncInv, NEW p \in Clients,
           NEW from \in Points \ {"run", "lock", "block"}, at[p] = from,
           NEW point \in Points \ {"run", "lock", "block"}, goto(p, point),
           UNCHANGED <<sched, diskMutex, diskWaiter>>,
           occurFlag' \in {occurFlag, FALSE}
    PROVE  SyncInv'
<1>1. /\ at \in [Pids -> Points] /\ at' = [at EXCEPT ![p] = point] /\ p \in Pids
      /\ Consistent(sched, Clients)
  BY ClientFacts DEF SyncInv, goto
<1>2. at' \in [Pids -> Points] /\ at'[p] = point /\ \A q \in Pids : q # p => at'[q] = at[q]
  BY <1>1
<1>3. /\ diskMutex.pid = p
      /\ diskMutex \in [pid : Clients \cup {NULL}, count : Nat, waitList : Seq(Clients)]
  BY DEF SyncInv, LockInv
<1>4. LockInv'
  BY <1>1, <1>2, <1>3, ClientFacts DEF SyncInv, LockInv
<1>5. BlockInv'
  <2>1. occurFlag' \in BOOLEAN /\ (occurFlag' => occurFlag)
    <3>1. occurFlag \in BOOLEAN
      BY DEF SyncInv, BlockInv
    <3>2. occurFlag' = occurFlag \/ occurFlag' = FALSE
      OBVIOUS
    <3>3. CASE occurFlag' = occurFlag
      BY <3>1, <3>3, Zenon
    <3>4. CASE occurFlag' = FALSE
      BY <3>4, Zenon
    <3> QED BY <3>2, <3>3, <3>4, Zenon
  <2>2. \A q \in Clients : at'[q] = "block" <=> at[q] = "block"
    BY <1>1, <1>2, ClientFacts
  <2> QED BY <2>1, <2>2 DEF SyncInv, BlockInv
<1> QED BY <1>1, <1>2, <1>4, <1>5 DEF SyncInv

\* begin: the caller takes a free mutex or blocks at the end of its wait list.
LEMMA BeginKeepsSync ==
    ASSUME SyncInv, NEW p \in Clients, NEW kind, NEW n, begin(p, kind, n)
    PROVE  SyncInv'
<1>1. /\ at \in [Pids -> Points] /\ p \in Pids /\ at[p] = "run" /\ p = Running
      /\ Consistent(sched, Clients) /\ p # Idle /\ p # NULL
      /\ diskMutex \in [pid : Clients \cup {NULL}, count : Nat, waitList : Seq(Clients)]
      /\ UNCHANGED <<occurFlag, diskWaiter>>
  BY ClientFacts DEF SyncInv, LockInv, begin, Executes
<1>2. CASE diskMutex.pid = NULL
  <2>1. /\ diskMutex' = [diskMutex EXCEPT !.pid = p, !.count = 1]
        /\ at' = [at EXCEPT ![p] = "noBusy"] /\ UNCHANGED sched
    BY <1>2 DEF begin, goto
  <2>2. /\ at' \in [Pids -> Points] /\ at'[p] = "noBusy"
        /\ \A q \in Pids : q # p => at'[q] = at[q]
    BY <1>1, <2>1 DEF Points
  <2>3. /\ diskMutex' \in [pid : Clients \cup {NULL}, count : Nat, waitList : Seq(Clients)]
        /\ diskMutex'.pid = p /\ diskMutex'.count = 1
        /\ diskMutex.waitList = <<>> /\ diskMutex'.waitList = <<>>
    BY <1>1, <1>2, <2>1 DEF SyncInv, LockInv
  <2>4. \A q \in Clients : q # p => at[q] \in {"run"}
    BY <1>2, <2>3, ClientFacts, EmptyProperties DEF SyncInv, LockInv
  <2>5. LockInv'
    BY <1>1, <2>2, <2>3, <2>4, ClientFacts, EmptyProperties DEF LockInv
  <2>6. BlockInv'
    BY <1>1, <2>1, <2>2, <2>3, ClientFacts DEF SyncInv, BlockInv
  <2> QED BY <1>1, <2>1, <2>2, <2>5, <2>6 DEF SyncInv
<1>3. CASE diskMutex.pid # NULL
  <2>1. /\ diskMutex' = [diskMutex EXCEPT !.waitList = insertList(diskMutex.waitList, p)]
        /\ at' = [at EXCEPT ![p] = "lock"] /\ sched' = blockRunningProcess(sched)
    BY <1>3 DEF begin, goto
  <2>2. /\ at' \in [Pids -> Points] /\ at'[p] = "lock"
        /\ \A q \in Pids : q # p => at'[q] = at[q]
    BY <1>1, <2>1 DEF Points
  <2>3. p \notin Elems(diskMutex.waitList) /\ IsInjectiveList(diskMutex.waitList)
    BY <1>1 DEF SyncInv, LockInv
  <2>4. /\ diskMutex.waitList \in Seq(Clients)
        /\ insertList(diskMutex.waitList, p) \in Seq(Clients)
        /\ IsInjectiveList(insertList(diskMutex.waitList, p))
        /\ Elems(insertList(diskMutex.waitList, p)) = Elems(diskMutex.waitList) \cup {p}
    BY <1>1, <2>3, FreshInsert
  <2>5. /\ diskMutex' \in [pid : Clients \cup {NULL}, count : Nat, waitList : Seq(Clients)]
        /\ diskMutex'.pid = diskMutex.pid /\ diskMutex'.count = diskMutex.count
        /\ IsInjectiveList(diskMutex'.waitList)
        /\ Elems(diskMutex'.waitList) = Elems(diskMutex.waitList) \cup {p}
    BY <1>1, <2>1, <2>4
  <2>6. /\ Consistent(sched', Clients) /\ sched'.sleepList = sched.sleepList
        /\ sched'.state[p] = BLOCKED
        /\ \A q \in Clients : q # p =>
             (sched'.state[q] = BLOCKED <=> sched.state[q] = BLOCKED)
    <3>1. /\ Consistent(sched', Clients) /\ Blocks(sched, sched', Clients)
          /\ sched'.sleepList = sched.sleepList
      BY <1>1, <2>1, ClientFacts, ConsistentBlock DEF Running
    <3> QED BY <1>1, <3>1 DEF Blocks, Running
  <2>7. diskMutex.pid # p
    BY <1>1, <1>3 DEF SyncInv, LockInv
  <2>8. LockInv'
    BY <1>1, <1>3, <2>2, <2>5, <2>7, ClientFacts DEF SyncInv, LockInv
  <2>9. BlockInv'
    BY <1>1, <2>2, <2>5, <2>6, ClientFacts, ElemsInSet DEF SyncInv, BlockInv
  <2> QED BY <2>2, <2>6, <2>8, <2>9 DEF SyncInv
<1> QED BY <1>2, <1>3

\* acquireLock returns only to the process the mutex was handed to.
LEMMA LockReturnsKeepsSync ==
    ASSUME SyncInv, NEW p \in Clients, lockReturns(p)
    PROVE  SyncInv' /\ diskMutex.pid = p
<1>1. /\ at \in [Pids -> Points] /\ p \in Pids /\ at[p] = "lock" /\ p = Running
      /\ Consistent(sched, Clients) /\ at' = [at EXCEPT ![p] = "noBusy"]
      /\ UNCHANGED <<sched, diskMutex, occurFlag, diskWaiter>>
      /\ diskMutex \in [pid : Clients \cup {NULL}, count : Nat, waitList : Seq(Clients)]
  BY ClientFacts DEF SyncInv, LockInv, lockReturns, goto
<1>2. /\ at' \in [Pids -> Points] /\ at'[p] = "noBusy"
      /\ \A q \in Pids : q # p => at'[q] = at[q]
  BY <1>1 DEF Points
<1>3. sched.state[p] # BLOCKED
  BY <1>1, StateFacts DEF Consistent, Listed, Running
<1>4. diskMutex.pid = p
  BY <1>1, <1>3 DEF SyncInv, LockInv, BlockInv
<1>5. LockInv'
  BY <1>1, <1>2, <1>4, ClientFacts DEF SyncInv, LockInv
<1>6. BlockInv'
  BY <1>1, <1>2, ClientFacts DEF SyncInv, BlockInv
<1> QED BY <1>1, <1>2, <1>4, <1>5, <1>6 DEF SyncInv

\* waitInterrupt blocks: the holder of the mutex registers and sleeps.
LEMMA BlockForKeepsSync ==
    ASSUME SyncInv, NEW p \in Clients, p = Running, at[p] \in {"wait", "block"},
           NEW ticks \in Nat, blockFor(p, ticks), ~occurFlag,
           UNCHANGED <<diskMutex, occurFlag>>
    PROVE  SyncInv'
<1>1. /\ at \in [Pids -> Points] /\ p \in Pids
      /\ Consistent(sched, Clients) /\ at' = [at EXCEPT ![p] = "block"]
      /\ diskWaiter' = p /\ sched' = sleepUntilTick(sched, ticks)
      /\ sched.runningProcess = p /\ p # Idle /\ p # NULL
      /\ diskMutex \in [pid : Clients \cup {NULL}, count : Nat, waitList : Seq(Clients)]
  BY ClientFacts DEF SyncInv, LockInv, blockFor, goto, Running
<1>2. /\ at' \in [Pids -> Points] /\ at'[p] = "block"
      /\ \A q \in Pids : q # p => at'[q] = at[q]
  BY <1>1 DEF Points
<1>3. /\ Consistent(sched', Clients)
      /\ sched'.state[p] = BLOCKED
      /\ Elems(sched'.sleepList) = Elems(sched.sleepList) \cup {p}
      /\ \A q \in Clients : q # p =>
           (sched'.state[q] = BLOCKED <=> sched.state[q] = BLOCKED)
  <2>1. Consistent(sched', Clients) /\ Sleeps(sched, sched', Clients)
    BY <1>1, ClientFacts, ConsistentSleep
  <2> QED BY <1>1, <2>1 DEF Sleeps, Blocks
<1>4. diskMutex.pid = p
  BY DEF SyncInv, LockInv
<1>5. LockInv'
  BY <1>1, <1>2, <1>4, ClientFacts DEF SyncInv, LockInv
<1>6. \A q \in Clients : q # p => at[q] # "block"
  BY <1>4 DEF SyncInv, LockInv
<1>7. \A q \in Elems(diskMutex.waitList) : q \in Clients /\ q # p
  <2>1. diskMutex.waitList \in Seq(Clients)
    BY <1>1
  <2> QED BY <1>4, <2>1, ElemsInSet DEF SyncInv, LockInv
<1>8. BlockInv'
  BY <1>1, <1>2, <1>3, <1>6, <1>7, ClientFacts DEF SyncInv, BlockInv
<1> QED BY <1>2, <1>3, <1>5, <1>8 DEF SyncInv

\* waitInterrupt returns to its caller, which is no longer the waiter.
LEMMA WokenKeepsSync ==
    ASSUME SyncInv, NEW p \in Clients, p = Running, at[p] = "block",
           NEW point \in Points \ {"run", "lock", "block"}, goto(p, point),
           diskWaiter' = NULL, UNCHANGED <<sched, diskMutex, occurFlag>>
    PROVE  SyncInv'
<1>1. /\ at \in [Pids -> Points] /\ at' = [at EXCEPT ![p] = point] /\ p \in Pids
      /\ Consistent(sched, Clients) /\ p \notin Elems(sched.sleepList)
  BY ClientFacts, ListedFields DEF SyncInv, goto, Consistent, Running
<1>2. /\ at' \in [Pids -> Points] /\ at'[p] = point
      /\ \A q \in Pids : q # p => at'[q] = at[q]
  BY <1>1
<1>3. /\ diskMutex.pid = p
      /\ diskMutex \in [pid : Clients \cup {NULL}, count : Nat, waitList : Seq(Clients)]
  BY DEF SyncInv, LockInv
<1>4. LockInv'
  BY <1>1, <1>2, <1>3, ClientFacts DEF SyncInv, LockInv
<1>5. \A q \in Clients : q # p => at[q] # "block"
  BY <1>3 DEF SyncInv, LockInv
<1>6. BlockInv'
  BY <1>1, <1>2, <1>5, ClientFacts DEF SyncInv, BlockInv
<1> QED BY <1>1, <1>2, <1>4, <1>6 DEF SyncInv

\* releaseLock hands the mutex to the first waiter and wakes it, or frees it.
LEMMA ReleaseKeepsSync ==
    ASSUME SyncInv, NEW p \in Clients, releaseLock(p)
    PROVE  SyncInv'
<1> DEFINE first == HeadOf(diskMutex.waitList)
           rest == HeadRemove(diskMutex.waitList)
           Mutexes == [pid : Clients \cup {NULL}, count : Nat, waitList : Seq(Clients)]
<1>1. /\ at \in [Pids -> Points] /\ p \in Pids /\ at[p] = "release"
      /\ Consistent(sched, Clients) /\ at' = [at EXCEPT ![p] = "run"]
      /\ sched.runningProcess = p /\ p # Idle /\ p # NULL
      /\ diskMutex' = handOff(diskMutex) /\ sched' = wakeupProcess(sched, first)
      /\ UNCHANGED <<occurFlag, diskWaiter>>
      /\ diskMutex \in Mutexes /\ diskMutex.waitList \in Seq(Clients)
      /\ IsInjectiveList(diskMutex.waitList)
  BY ClientFacts DEF SyncInv, LockInv, releaseLock, Executes, goto, Running
<1>2. /\ at' \in [Pids -> Points] /\ at'[p] = "run"
      /\ \A q \in Pids : q # p => at'[q] = at[q]
  BY <1>1 DEF Points
<1>3. diskMutex.pid = p /\ \A q \in Clients : q # p => at[q] \in {"run", "lock"}
  BY <1>1 DEF SyncInv, LockInv
<1>4. first \in Clients \cup {NULL}
  BY <1>1, HeadProperties
<1>5. \A q \in Clients : q # p => (q \in Elems(diskMutex.waitList) <=> at[q] = "lock")
  BY <1>3 DEF SyncInv, LockInv
<1>6. p \notin Elems(diskMutex.waitList)
  BY <1>1 DEF SyncInv, LockInv
<1>7. Consistent(sched', Clients) /\ Wakes(sched, sched', Clients, first)
  BY <1>1, <1>4, ClientFacts, ConsistentWakeup
<1>8. CASE diskMutex.waitList = <<>>
  <2>1. diskMutex' = [diskMutex EXCEPT !.pid = NULL, !.count = 0] /\ first = NULL
    BY <1>1, <1>8 DEF handOff, HeadOf
  <2>2. diskMutex' \in Mutexes /\ diskMutex'.pid = NULL /\ diskMutex'.waitList = <<>>
    <3>1. diskMutex \in Mutexes /\ 0 \in Nat
      BY <1>1
    <3> QED BY <1>8, <2>1, <3>1
  <2>3. sched' = sched
    BY <1>7, <2>1 DEF Wakes
  <2>4. \A q \in Clients : at'[q] = "run"
    BY <1>2, <1>3, <1>5, <1>8, ClientFacts, EmptyProperties
  <2>5. LockInv'
    BY <2>2, <2>4, EmptyProperties DEF LockInv
  <2>6. BlockInv'
    BY <1>1, <1>2, <1>8, <2>2, <2>3, ClientFacts DEF SyncInv, BlockInv
  <2> QED BY <1>2, <1>7, <2>5, <2>6 DEF SyncInv
<1>9. CASE diskMutex.waitList # <<>>
  <2>1. diskMutex' = [diskMutex EXCEPT !.pid = first, !.count = 1, !.waitList = rest]
    BY <1>1, <1>9 DEF handOff
  <2>2. /\ rest \in Seq(Clients) /\ IsInjectiveList(rest)
        /\ Elems(rest) = Elems(diskMutex.waitList) \ {first}
        /\ first \in Elems(diskMutex.waitList) /\ first \in Clients
    BY <1>1, <1>9, HeadProperties
  <2> HIDE DEF first, rest
  <2>3. /\ diskMutex' \in Mutexes /\ diskMutex'.pid = first /\ diskMutex'.count = 1
        /\ diskMutex'.waitList = rest
    <3>1. diskMutex \in Mutexes /\ 1 \in Nat
      BY <1>1
    <3> QED BY <2>1, <2>2, <3>1
  <2>4. first # NULL /\ first # p /\ at[first] = "lock" /\ first \in Pids
    BY <1>5, <1>6, <2>2, ClientFacts
  <2>5. /\ sched'.state[first] # BLOCKED
        /\ Elems(sched'.sleepList) \subseteq Elems(sched.sleepList)
        /\ Elems(sched.sleepList) \ {first} \subseteq Elems(sched'.sleepList)
        /\ \A q \in Clients : sched'.state[q] = BLOCKED => sched.state[q] = BLOCKED
        /\ \A q \in Clients \ {first} :
             sched.state[q] = BLOCKED => sched'.state[q] = BLOCKED
    BY <1>7, <2>4 DEF Wakes, Unblocks
  <2>6. LockInv'
    BY <1>1, <1>2, <1>3, <1>5, <1>6, <2>2, <2>3, <2>4, ClientFacts DEF LockInv
  <2>7. BlockInv'
    <3>1. \A q \in Clients : at'[q] = "block" <=> at[q] = "block"
      BY <1>1, <1>2, ClientFacts
    <3>2. \A q \in Elems(rest) : q \in Clients /\ q # first
      BY <1>1, <2>2, ElemsInSet
    <3> QED BY <1>1, <2>2, <2>3, <2>5, <3>1, <3>2 DEF SyncInv, BlockInv
  <2> QED BY <1>2, <1>7, <2>6, <2>7 DEF SyncInv
<1> QED BY <1>8, <1>9

\* The completion interrupt wakes the registered waiter.
LEMMA PrimaryKeepsSync ==
    ASSUME SyncInv, primaryDiskInterruptHandler
    PROVE  SyncInv'
<1>1. /\ Consistent(sched, Clients) /\ diskWaiter \in Clients \cup {NULL}
      /\ sched' = wakeupProcessInInterrupt(sched, diskWaiter)
      /\ occurFlag' = TRUE /\ UNCHANGED <<diskMutex, diskWaiter, at>>
  BY DEF SyncInv, BlockInv, primaryDiskInterruptHandler
<1>2. Consistent(sched', Clients) /\ Wakes(sched, sched', Clients, diskWaiter)
  BY <1>1, ClientFacts, ConsistentWakeInInterrupt
<1>3. /\ diskWaiter # NULL => sched'.state[diskWaiter] # BLOCKED
      /\ Elems(sched'.sleepList) \subseteq Elems(sched.sleepList)
      /\ \A q \in Clients : sched'.state[q] = BLOCKED => sched.state[q] = BLOCKED
      /\ \A q \in Clients \ {diskWaiter} :
           sched.state[q] = BLOCKED => sched'.state[q] = BLOCKED
  BY <1>2 DEF Wakes, Unblocks
<1>4. \A q \in Elems(diskMutex.waitList) : q \in Clients /\ at[q] = "lock" /\ q # diskWaiter
  <2>1. diskMutex.waitList \in Seq(Clients)
    BY DEF SyncInv, LockInv
  <2> QED BY <2>1, ElemsInSet DEF SyncInv, LockInv, BlockInv
<1>5. BlockInv'
  <2>1. \A q \in Clients : sched'.state[q] = BLOCKED => q \in Elems(diskMutex.waitList)
    BY <1>3, ClientFacts DEF SyncInv, BlockInv
  <2> QED BY <1>1, <1>3, <1>4, <2>1 DEF SyncInv, BlockInv
<1>6. LockInv'
  BY <1>1 DEF SyncInv, LockInv
<1> QED BY <1>1, <1>2, <1>5, <1>6 DEF SyncInv

\* The timer may wake whoever sleeps in waitInterrupt, and no waiter of the mutex.
LEMMA TimerKeepsSync ==
    ASSUME SyncInv, timerInterruptHandler
    PROVE  SyncInv'
<1>1. /\ Consistent(sched, Clients)
      /\ sched' = timeoutSchedule(wakeExpiredProcess(tickCount(sched)))
      /\ UNCHANGED <<occurFlag, diskMutex, diskWaiter, at>>
  BY DEF SyncInv, timerInterruptHandler
<1>2. /\ Consistent(sched', Clients)
      /\ Unblocks(sched, sched', Clients, Elems(sched.sleepList))
      /\ \A q \in Elems(sched.sleepList) :
           sched'.state[q] = BLOCKED => q \in Elems(sched'.sleepList)
  BY <1>1, ClientFacts, ConsistentTimer
<1>3. /\ Elems(sched'.sleepList) \subseteq Elems(sched.sleepList)
      /\ \A q \in Clients : sched'.state[q] = BLOCKED => sched.state[q] = BLOCKED
      /\ \A q \in Clients \ Elems(sched.sleepList) :
           sched.state[q] = BLOCKED => sched'.state[q] = BLOCKED
  BY <1>2 DEF Unblocks
<1>4. \A q \in Elems(diskMutex.waitList) :
        q \in Clients /\ at[q] = "lock" /\ q \notin Elems(sched.sleepList)
  <2>1. diskMutex.waitList \in Seq(Clients)
    BY DEF SyncInv, LockInv
  <2> QED BY <2>1, ElemsInSet DEF SyncInv, LockInv, BlockInv
<1>5. BlockInv'
  BY <1>1, <1>2, <1>3, <1>4 DEF SyncInv, BlockInv
<1>6. LockInv'
  BY <1>1 DEF SyncInv, LockInv
<1> QED BY <1>1, <1>2, <1>5, <1>6 DEF SyncInv

\* wakeupTick of a process that stands in waitInterrupt is a number of ticks.
LEMMA DeadlineInNat ==
    ASSUME SyncInv, NEW p \in Clients
    PROVE  sched.wakeupTick[p] \in Nat
BY ClientFacts, SchedFields DEF SyncInv, Consistent, Listed

LEMMA SyncStep == SyncInv /\ [Next]_vars => SyncInv'
<1> SUFFICES ASSUME SyncInv, [Next]_vars PROVE SyncInv'
  OBVIOUS
<1> USE DEF Points
<1>1. CASE Interrupts
  BY <1>1, PrimaryKeepsSync, TimerKeepsSync DEF Interrupts
<1>2. CASE Drive
  BY <1>2 DEF Drive, driveAnswers, driveFails, SyncInv, LockInv, BlockInv
<1>3. ASSUME NEW p \in Clients, InCall(p) PROVE SyncInv'
  <2>1. CASE lockReturns(p)
    BY <2>1, LockReturnsKeepsSync
  <2>2. CASE waitNoBusy(p)
    BY <2>2, Inside DEF waitNoBusy, Executes
  <2>3. CASE waitReady(p)
    BY <2>3, Inside DEF waitReady, Executes
  <2>4. CASE command(p)
    BY <2>4, Inside DEF command, Executes
  <2>5. CASE waitDataRequest(p)
    BY <2>5, Inside DEF waitDataRequest, Executes
  <2>6. CASE pollTimeout(p)
    BY <2>6, Inside DEF pollTimeout, Executes
  <2>7. CASE clearDiskInterruptFlag(p)
    BY <2>7, Inside DEF clearDiskInterruptFlag, Executes
  <2>8. CASE dataPort(p)
    BY <2>8, Inside DEF dataPort, Executes, advance
  <2>9. CASE statusTest(p)
    BY <2>9, Inside DEF statusTest, Executes, advance
  <2>10. CASE waitInterrupt(p)
    <3>1. CASE occurFlag
      BY <2>10, <3>1, Inside DEF waitInterrupt, Executes, interrupted
    <3>2. CASE ~occurFlag
      BY <2>10, <3>2, BlockForKeepsSync, DiskAssumption DEF waitInterrupt, Executes
    <3> QED BY <3>1, <3>2
  <2>11. CASE waitInterruptWoken(p)
    <3>1. CASE occurFlag
      BY <2>11, <3>1, WokenKeepsSync DEF waitInterruptWoken, interrupted
    <3>2. CASE ~occurFlag /\ sched.wakeupTick[p] = 0
      BY <2>11, <3>2, WokenKeepsSync DEF waitInterruptWoken
    <3>3. CASE ~occurFlag /\ sched.wakeupTick[p] # 0
      BY <2>11, <3>3, BlockForKeepsSync, DeadlineInNat DEF waitInterruptWoken
    <3> QED BY <3>1, <3>2, <3>3
  <2>12. CASE releaseLock(p)
    BY <2>12, ReleaseKeepsSync
  <2> QED BY <1>3, <2>1, <2>2, <2>3, <2>4, <2>5, <2>6, <2>7, <2>8, <2>9, <2>10,
             <2>11, <2>12 DEF InCall
<1>4. ASSUME NEW p \in Clients, NEW kind \in Ops, NEW n \in SectorCounts,
             begin(p, kind, n)
      PROVE  SyncInv'
  BY <1>4, BeginKeepsSync
<1>5. CASE UNCHANGED vars
  BY <1>5 DEF vars, SyncInv, LockInv, BlockInv
<1> QED BY <1>1, <1>2, <1>3, <1>4, <1>5 DEF Next

-----------------------------------------------------------------------------
(* The data of the calls, whatever the drive does.                         *)

Calls == [kind : Kinds, n : Nat, i : Nat, parity : {0, 1}, ignored : BOOLEAN]
Drives == [phase : {"idle", "busy", "drq", "err"}, kind : Kinds, tag : Tags,
           n : Nat, done : Nat]

LEMMA DriverInit == Init => DriverInv
<1> SUFFICES ASSUME Init PROVE DriverInv
  OBVIOUS
<1>1. SyncInv
  BY SyncInit
<1>2. irq \in BOOLEAN
  BY DEF Init
<1>3. /\ call = [p \in Pids |-> noCall(0)]
      /\ at = [p \in Pids |-> "run"] /\ buf = [p \in Pids |-> <<>>]
  BY DEF Init
<1>4. call \in [Pids -> Calls] /\ buf \in [Pids -> Seq(Tags \X Nat)]
  BY <1>3 DEF Calls, Kinds, noCall
<1>5. dev \in Drives
  BY PidFacts DEF Init, Drives, Kinds, Tags
<1>6. \A p \in Pids : CallInv(p)
  BY <1>3 DEF CallInv, noCall, Moved, Before
<1> QED BY <1>1, <1>2, <1>4, <1>5, <1>6 DEF DriverInv, DataOK, Calls, Drives

\* A process that does nothing keeps its counter.
LEMMA CallKept ==
    ASSUME NEW q, CallInv(q), at'[q] = at[q], call'[q] = call[q], buf'[q] = buf[q]
    PROVE  CallInv(q)'
BY DEF CallInv, Moved

\* moveSector appends one entry for a sector of some command and keeps the types.
LEMMA MoveSectorTypes ==
    ASSUME DataOK, NEW p \in Pids, moveSector(p)
    PROVE  /\ buf' \in [Pids -> Seq(Tags \X Nat)] /\ dev' \in Drives
           /\ Len(buf'[p]) = Len(buf[p]) + 1
           /\ \A q \in Pids : q # p => buf'[q] = buf[q]
<1> DEFINE Entries == Tags \X Nat
           taken == dev.phase = "drq" /\ dev.kind = call[p].kind
           entry == IF taken THEN <<dev.tag, dev.done + 1>> ELSE <<dev.tag, 0>>
<1>1. dev \in Drives /\ dev.tag \in Tags /\ dev.done \in Nat /\ dev.done + 1 \in Nat
  BY DEF DataOK, Drives
<1>2. entry \in Entries /\ buf \in [Pids -> Seq(Entries)]
  BY <1>1 DEF DataOK
<1>3. /\ buf' = [buf EXCEPT ![p] = Append(buf[p], entry)]
      /\ \/ UNCHANGED dev
         \/ \E phase \in {"idle", "busy"} :
              dev' = [dev EXCEPT !.done = dev.done + 1, !.phase = phase]
  BY DEF moveSector
<1>4. dev' \in Drives
  BY <1>1, <1>3 DEF Drives
<1> HIDE DEF Entries, entry
<1>5. buf[p] \in Seq(Entries)
  BY <1>2
<1>6. Append(buf[p], entry) \in Seq(Entries) /\ Len(Append(buf[p], entry)) = Len(buf[p]) + 1
  BY <1>2, <1>5
<1>7. /\ buf' \in [Pids -> Seq(Entries)] /\ buf'[p] = Append(buf[p], entry)
      /\ \A q \in Pids : q # p => buf'[q] = buf[q]
  BY <1>2, <1>3, <1>6
<1> QED BY <1>4, <1>6, <1>7 DEF Entries

\* advance counts one sector, and leaves the loop when it was the last one.
LEMMA AdvanceCounts ==
    ASSUME at \in [Pids -> Points], call \in [Pids -> Calls], NEW p \in Pids,
           CallInv(p), at[p] \notin {"run", "release"},
           NEW point \in Points, advance(p, point)
    PROVE  /\ call' \in [Pids -> Calls] /\ call[p].i < call[p].n
           /\ \A q \in Pids : q # p => call'[q] = call[q] /\ at'[q] = at[q]
           /\ call'[p] = [call[p] EXCEPT !.i = call[p].i + 1]
           /\ at'[p] = IF call[p].i + 1 = call[p].n THEN "release" ELSE point
<1>1. /\ call[p] \in Calls /\ call[p].i \in Nat /\ call[p].n \in Nat
      /\ call[p].i < call[p].n
  BY DEF CallInv, Calls
<1>2. /\ call' = [call EXCEPT ![p] = [call[p] EXCEPT !.i = call[p].i + 1]]
      /\ at' = [at EXCEPT ![p] = IF call[p].i + 1 = call[p].n THEN "release" ELSE point]
  BY DEF advance, goto
<1>3. [call[p] EXCEPT !.i = call[p].i + 1] \in Calls
  BY <1>1 DEF Calls
<1> QED BY <1>1, <1>2, <1>3

LEMMA DriverStep == DriverInv /\ [Next]_vars => DriverInv'
<1> SUFFICES ASSUME DriverInv, [Next]_vars PROVE DriverInv'
  OBVIOUS
<1>1. SyncInv' /\ at' \in [Pids -> Points]
  BY SyncStep DEF DriverInv, SyncInv
<1>2. /\ at \in [Pids -> Points] /\ irq \in BOOLEAN /\ call \in [Pids -> Calls]
      /\ buf \in [Pids -> Seq(Tags \X Nat)] /\ dev \in Drives
      /\ \A q \in Pids : CallInv(q)
  BY DEF DriverInv, SyncInv, DataOK, Calls, Drives
<1> DEFINE Goal == /\ irq' \in BOOLEAN /\ call' \in [Pids -> Calls]
                   /\ buf' \in [Pids -> Seq(Tags \X Nat)] /\ dev' \in Drives
                   /\ \A q \in Pids : CallInv(q)'
<1> SUFFICES Goal
  BY <1>1 DEF DriverInv, DataOK, Calls, Drives
<1>3. CASE Interrupts
  <2>1. /\ UNCHANGED <<at, call, buf, dev>> /\ irq' \in BOOLEAN
    BY <1>2, <1>3 DEF Interrupts, primaryDiskInterruptHandler, timerInterruptHandler
  <2> QED BY <1>2, <2>1, CallKept
<1>4. CASE Drive
  <2>1. UNCHANGED <<at, call, buf>>
    BY <1>4 DEF Drive, driveAnswers, driveFails
  <2>2. irq' \in BOOLEAN
    <3>1. CASE driveAnswers
      BY <1>2, <3>1, Zenon DEF driveAnswers
    <3>2. CASE driveFails
      BY <1>2, <3>2 DEF driveFails
    <3> QED BY <1>4, <3>1, <3>2 DEF Drive
  <2>3. dev' \in Drives
    BY <1>2, <1>4 DEF Drive, driveAnswers, driveFails, Drives
  <2> QED BY <1>2, <2>1, <2>2, <2>3, CallKept
<1>5. ASSUME NEW p \in Clients, InCall(p) PROVE Goal
  <2>1. /\ p \in Pids /\ CallInv(p) /\ call[p] \in Calls /\ buf[p] \in Seq(Tags \X Nat)
        /\ call[p].kind \in {"read", "write"} /\ call[p].ignored \in BOOLEAN
        /\ call[p].i \in Nat /\ call[p].n \in Nat /\ Len(buf[p]) \in Nat
        /\ call[p].parity \in {0, 1}
    BY <1>2, ClientFacts DEF Calls, Kinds
  <2> USE <2>1
  <2>2. CASE \/ lockReturns(p) \/ waitNoBusy(p) \/ waitReady(p) \/ waitDataRequest(p)
             \/ clearDiskInterruptFlag(p) \/ pollTimeout(p)
    <3>1. /\ UNCHANGED <<call, buf, irq, dev>>
          /\ \/ at[p] = "lock" /\ at'[p] = "noBusy"
             \/ at[p] = "noBusy" /\ at'[p] = "ready"
             \/ at[p] = "ready" /\ at'[p] = "issue"
             \/ at[p] = "drq" /\ at'[p] = "clear"
             \/ at[p] = "clear" /\ at'[p] = "data"
             \/ at'[p] = "release"
          /\ \A q \in Pids : q # p => at'[q] = at[q]
      BY <1>2, <2>2 DEF lockReturns, waitNoBusy, waitReady, waitDataRequest,
           clearDiskInterruptFlag, pollTimeout, Executes, goto
    <3>2. CallInv(p)'
      BY <3>1 DEF CallInv, Moved, Before
    <3> QED BY <1>2, <3>1, <3>2, CallKept
  <2>3. CASE waitInterrupt(p) \/ waitInterruptWoken(p)
    <3>1. /\ UNCHANGED <<call, buf, irq, dev>> /\ at[p] \in {"wait", "block"}
          /\ \/ at'[p] \in {"block", "release"}
             \/ at'[p] = IF call[p].kind = "read" THEN "clear" ELSE "status"
          /\ \A q \in Pids : q # p => at'[q] = at[q]
      BY <1>2, <2>3 DEF waitInterrupt, waitInterruptWoken, Executes, goto, interrupted,
           blockFor
    <3>2. CallInv(p)'
      BY <3>1 DEF CallInv, Moved, Before
    <3> QED BY <1>2, <3>1, <3>2, CallKept
  <2>4. CASE releaseLock(p)
    <3>1. /\ call' = [call EXCEPT ![p] = noCall(call[p].parity)]
          /\ buf' = [buf EXCEPT ![p] = <<>>] /\ UNCHANGED <<irq, dev>>
          /\ at'[p] = "run" /\ \A q \in Pids : q # p => at'[q] = at[q]
      BY <1>2, <2>4 DEF releaseLock, goto
    <3>2. /\ noCall(call[p].parity) \in Calls /\ noCall(call[p].parity).i = 0
          /\ noCall(call[p].parity).n = 0 /\ noCall(call[p].parity).ignored = FALSE
      BY DEF noCall, Calls, Kinds
    <3>3. /\ call' \in [Pids -> Calls] /\ call'[p] = noCall(call[p].parity)
          /\ \A q \in Pids : q # p => call'[q] = call[q]
      BY <1>2, <3>1, <3>2
    <3>4. /\ buf' \in [Pids -> Seq(Tags \X Nat)] /\ buf'[p] = <<>>
          /\ \A q \in Pids : q # p => buf'[q] = buf[q]
      <4> DEFINE Entries == Tags \X Nat
      <4>1. <<>> \in Seq(Entries)
        OBVIOUS
      <4> HIDE DEF Entries
      <4>2. buf \in [Pids -> Seq(Entries)]
        BY <1>2 DEF Entries
      <4>3. /\ buf' \in [Pids -> Seq(Entries)] /\ buf'[p] = <<>>
            /\ \A q \in Pids : q # p => buf'[q] = buf[q]
        BY <3>1, <4>1, <4>2
      <4> QED BY <4>3 DEF Entries
    <3>5. CallInv(p)'
      BY <3>1, <3>2, <3>3, <3>4 DEF CallInv
    <3> QED BY <1>2, <3>1, <3>3, <3>4, <3>5, CallKept
  <2>5. CASE command(p)
    <3>1. /\ UNCHANGED <<buf, irq>> /\ at[p] = "issue"
          /\ at'[p] = IF call[p].kind = "read" THEN "wait" ELSE "drq"
          /\ \A q \in Pids : q # p => at'[q] = at[q]
      BY <1>2, <2>5 DEF command, Executes, goto
    <3>2. TagOf(p) \in Tags /\ call[p].kind \in Kinds
      BY DEF TagOf, Tags, Kinds
    <3>3. dev' \in Drives
      BY <1>2, <2>5, <3>2 DEF command, Drives
    <3>4. call' = call \/ call' = [call EXCEPT ![p] = [call[p] EXCEPT !.ignored = TRUE]]
      BY <2>5 DEF command
    <3>5. /\ call' \in [Pids -> Calls] /\ \A q \in Pids : q # p => call'[q] = call[q]
          /\ call'[p].kind = call[p].kind /\ call'[p].n = call[p].n
          /\ call'[p].i = call[p].i
      <4>1. CASE UNCHANGED call
        BY <1>2, <4>1
      <4>2. CASE call' = [call EXCEPT ![p] = [call[p] EXCEPT !.ignored = TRUE]]
        <5> DEFINE new == [call[p] EXCEPT !.ignored = TRUE]
        <5>1. /\ new \in Calls /\ new.kind = call[p].kind /\ new.n = call[p].n
              /\ new.i = call[p].i
          BY DEF Calls
        <5> HIDE DEF new
        <5>2. call' = [call EXCEPT ![p] = new]
          BY <4>2 DEF new
        <5> QED BY <1>2, <5>1, <5>2
      <4> QED BY <3>4, <4>1, <4>2
    <3>6. CallInv(p)'
      BY <3>1, <3>5 DEF CallInv, Moved, Before
    <3> QED BY <1>2, <3>1, <3>3, <3>5, <3>6, CallKept
  <2>6. CASE dataPort(p)
    <3>1. UNCHANGED irq /\ at[p] = "data"
      BY <2>6 DEF dataPort, Executes
    <3>2. call[p].i < call[p].n /\ Len(buf[p]) = call[p].i
      BY <3>1 DEF CallInv, Moved
    <3>3. CASE UNCHANGED <<call, buf, dev>> /\ goto(p, "release")
      BY <1>2, <3>1, <3>3 DEF goto, CallInv, Before, Moved
    <3>4. CASE moveSector(p) /\ advance(p, "wait") /\ call[p].kind = "read"
      <4>1. /\ buf' \in [Pids -> Seq(Tags \X Nat)] /\ dev' \in Drives
            /\ Len(buf'[p]) = call[p].i + 1 /\ \A q \in Pids : q # p => buf'[q] = buf[q]
        BY <3>2, <3>4, MoveSectorTypes DEF DriverInv
      <4>2. /\ call' \in [Pids -> Calls]
            /\ \A q \in Pids : q # p => call'[q] = call[q] /\ at'[q] = at[q]
            /\ call'[p] = [call[p] EXCEPT !.i = call[p].i + 1]
            /\ at'[p] = IF call[p].i + 1 = call[p].n THEN "release" ELSE "wait"
        BY <1>2, <3>1, <3>4, AdvanceCounts DEF Points
      <4>3. /\ call'[p].i = call[p].i + 1 /\ call'[p].n = call[p].n
            /\ call'[p].kind = "read"
        BY <3>4, <4>2 DEF Calls
      <4>4. CallInv(p)'
        BY <3>2, <4>1, <4>2, <4>3 DEF CallInv, Moved, Before
      <4> QED BY <1>2, <3>1, <4>1, <4>2, <4>4, CallKept
    <3>5. CASE moveSector(p) /\ goto(p, "wait") /\ call[p].kind = "write" /\ UNCHANGED call
      <4>1. /\ buf' \in [Pids -> Seq(Tags \X Nat)] /\ dev' \in Drives
            /\ Len(buf'[p]) = call[p].i + 1 /\ \A q \in Pids : q # p => buf'[q] = buf[q]
        BY <3>2, <3>5, MoveSectorTypes DEF DriverInv
      <4>2. at'[p] = "wait" /\ \A q \in Pids : q # p => at'[q] = at[q]
        BY <1>2, <3>5 DEF goto
      <4>3. CallInv(p)'
        BY <3>2, <3>5, <4>1, <4>2 DEF CallInv, Moved, Before
      <4> QED BY <1>2, <3>1, <3>5, <4>1, <4>2, <4>3, CallKept
    <3> QED BY <2>6, <3>3, <3>4, <3>5 DEF dataPort
  <2>7. CASE statusTest(p)
    <3>1. UNCHANGED <<buf, irq, dev>> /\ at[p] = "status"
      BY <2>7 DEF statusTest, Executes
    <3>2. /\ call[p].i < call[p].n /\ Len(buf[p]) = call[p].i + 1
          /\ call[p].kind = "write"
      BY <3>1 DEF CallInv, Moved
    <3>3. CASE UNCHANGED call /\ goto(p, "release")
      BY <1>2, <3>1, <3>3 DEF goto, CallInv, Before, Moved
    <3>4. CASE advance(p, "clear")
      <4>1. /\ call' \in [Pids -> Calls]
            /\ \A q \in Pids : q # p => call'[q] = call[q] /\ at'[q] = at[q]
            /\ call'[p] = [call[p] EXCEPT !.i = call[p].i + 1]
            /\ at'[p] = IF call[p].i + 1 = call[p].n THEN "release" ELSE "clear"
        BY <1>2, <3>1, <3>4, AdvanceCounts DEF Points
      <4>2. call'[p].i = call[p].i + 1 /\ call'[p].n = call[p].n
        BY <4>1 DEF Calls
      <4>3. CallInv(p)'
        BY <3>1, <3>2, <4>1, <4>2 DEF CallInv, Moved, Before
      <4> QED BY <1>2, <3>1, <4>1, <4>3, CallKept
    <3> QED BY <2>7, <3>3, <3>4 DEF statusTest
  <2> HIDE DEF Goal
  <2> QED BY <1>5, <2>2, <2>3, <2>4, <2>5, <2>6, <2>7 DEF InCall
<1>6. ASSUME NEW p \in Clients, NEW kind \in Ops, NEW n \in SectorCounts,
             begin(p, kind, n)
      PROVE  Goal
  <2>1. /\ p \in Pids /\ kind \in Kinds /\ n \in Nat /\ n # 0
        /\ 1 - call[p].parity \in {0, 1}
    <3>1. call[p].parity \in {0, 1}
      BY <1>2, ClientFacts DEF Calls
    <3> QED BY <3>1, ClientFacts, DiskAssumption DEF Kinds
  <2>2. /\ call' = [call EXCEPT ![p] = [kind |-> kind, n |-> n, i |-> 0,
                                        parity |-> 1 - call[p].parity,
                                        ignored |-> FALSE]]
        /\ UNCHANGED <<buf, irq, dev>> /\ at[p] = "run"
        /\ at'[p] \in {"lock", "noBusy"}
        /\ \A q \in Pids : q # p => at'[q] = at[q]
    BY <1>2, <1>6, <2>1 DEF begin, goto, Executes
  <2>3. /\ call' \in [Pids -> Calls] /\ call'[p].i = 0 /\ call'[p].n = n
        /\ call'[p].ignored = FALSE
    BY <1>2, <2>1, <2>2 DEF Calls
  <2>4. Len(buf[p]) = 0
    BY <1>2, <2>1, <2>2 DEF CallInv, Before
  <2>5. CallInv(p)'
    BY <2>1, <2>2, <2>3, <2>4 DEF CallInv, Moved
  <2>6. \A q \in Pids : q # p => call'[q] = call[q]
    BY <1>2, <2>2
  <2>7. \A q \in Pids : CallInv(q)'
    BY <1>2, <2>2, <2>5, <2>6, CallKept
  <2> QED BY <1>2, <2>2, <2>3, <2>7
<1>7. CASE UNCHANGED vars
  <2>1. UNCHANGED <<at, call, buf, irq, dev>>
    BY <1>7 DEF vars
  <2> QED BY <1>2, <2>1, CallKept
<1> HIDE DEF Goal
<1> QED BY <1>3, <1>4, <1>5, <1>6, <1>7 DEF Next

\* Inside Disk.c a process owns diskMutex, at every count of clients and sectors
\* and whatever the drive does.
THEOREM OneAtATheDriveAlways == Spec => []OneAtATheDrive
<1>1. DriverInv => OneAtATheDrive
  <2> SUFFICES ASSUME DriverInv PROVE OneAtATheDrive
    OBVIOUS
  <2>1. /\ diskMutex \in [pid : Clients \cup {NULL}, count : Nat, waitList : Seq(Clients)]
        /\ sched \in SchedType /\ occurFlag \in BOOLEAN
        /\ diskWaiter \in Clients \cup {NULL} /\ at \in [Pids -> Points]
    BY DEF DriverInv, SyncInv, LockInv, BlockInv, Consistent, Listed
  <2>2. diskMutex \in [pid : Pids \cup {NULL}, count : Nat, waitList : Seq(Pids)]
    BY <2>1, ClientFacts
  <2>3. TypeOK
    BY <2>1, <2>2, ClientFacts DEF TypeOK, DriverInv, DataOK, CallInv
  <2>4. \A p \in Clients :
          at[p] \notin {"run", "lock"} => diskMutex.pid = p /\ diskMutex.count = 1
    BY ClientFacts DEF DriverInv, SyncInv, LockInv
  <2> QED BY <2>3, <2>4 DEF OneAtATheDrive
<1> QED BY DriverInit, DriverStep, <1>1, PTL DEF Spec

\* A process asleep in waitInterrupt has not been signalled, will be found by the
\* handler, and by the timer.
THEOREM NoMissedInterruptAlways == Spec => []NoMissedInterrupt
<1>1. DriverInv => NoMissedInterrupt
  <2> SUFFICES ASSUME DriverInv, NEW p \in Clients,
                      at[p] = "block", sched.state[p] = BLOCKED
               PROVE  ~occurFlag /\ diskWaiter = p /\ p \in Elems(sched.sleepList)
    BY DEF NoMissedInterrupt
  <2>1. p \notin Elems(diskMutex.waitList)
    BY DEF DriverInv, SyncInv, LockInv
  <2> QED BY <2>1 DEF DriverInv, SyncInv, BlockInv
<1> QED BY DriverInit, DriverStep, <1>1, PTL DEF Spec

-----------------------------------------------------------------------------
(* What the holder of the mutex moves, and what the drive does meanwhile.  *)

\* A process that does nothing keeps what it has moved.
LEMMA MovedKept ==
    ASSUME NEW q, MovedInv(q), at'[q] = at[q], call'[q] = call[q], buf'[q] = buf[q]
    PROVE  MovedInv(q)'
BY DEF MovedInv, TagOf

\* Nothing is said of the sectors and the drive when the drive ignored the command.
LEMMA IgnoredIsFree ==
    ASSUME NEW q, call'[q].ignored
    PROVE  MovedInv(q)' /\ DriveInv(q)'
BY DEF MovedInv, DriveInv

\* Outside of the command and its answer nothing is said of the drive.
LEMMA DriveOutside ==
    ASSUME NEW q, at'[q] \in {"run", "lock", "noBusy", "release"}
    PROVE  DriveInv(q)'
BY DEF DriveInv

\* While one process is inside the driver, nobody else is.
LEMMA HolderAlone ==
    ASSUME SyncInv, NEW p \in Clients, at[p] \notin {"run", "lock"},
           NEW q \in Clients, q # p
    PROVE  at[q] \in {"run", "lock"}
BY DEF SyncInv, LockInv

\* A step of the process inside the driver concerns that process only.
LEMMA OnlyHolder ==
    ASSUME DiskInv, NEW p \in Clients, at[p] \notin {"run", "lock"},
           \A q \in Pids : q # p => /\ at'[q] = at[q] /\ call'[q] = call[q]
                                    /\ buf'[q] = buf[q],
           MovedInv(p)', DriveInv(p)'
    PROVE  \A q \in Clients : MovedInv(q)' /\ DriveInv(q)'
<1> SUFFICES ASSUME NEW q \in Clients, q # p PROVE MovedInv(q)' /\ DriveInv(q)'
  OBVIOUS
<1>1. q \in Pids /\ MovedInv(q) /\ SyncInv
  BY ClientFacts DEF DiskInv, DriverInv
<1>2. at'[q] = at[q] /\ call'[q] = call[q] /\ buf'[q] = buf[q]
  BY <1>1
<1>3. at'[q] \in {"run", "lock"}
  BY <1>1, <1>2, HolderAlone
<1> QED BY <1>1, <1>2, <1>3, MovedKept, DriveOutside

LEMMA TransferInit == Init => \A p \in Clients : MovedInv(p) /\ DriveInv(p)
<1> SUFFICES ASSUME Init, NEW p \in Clients PROVE MovedInv(p) /\ DriveInv(p)
  OBVIOUS
<1>1. at[p] = "run" /\ buf[p] = <<>>
  BY ClientFacts DEF Init
<1> QED BY <1>1 DEF MovedInv, DriveInv

\* The completion interrupt turns a pending answer into the flag.
LEMMA PrimaryKeepsTransfer ==
    ASSUME DiskInv, primaryDiskInterruptHandler, NEW p \in Clients
    PROVE  MovedInv(p)' /\ DriveInv(p)'
<1>1. /\ UNCHANGED <<at, call, buf, dev>> /\ irq /\ ~irq' /\ occurFlag'
      /\ MovedInv(p) /\ DriveInv(p)
  BY DEF DiskInv, primaryDiskInterruptHandler
<1>2. ASSUME ~call[p].ignored PROVE DriveInv(p)'
  <2> USE <1>2
  <2>1. at[p] \in {"wait", "block"} => Answered /\ ~occurFlag
    <3>1. irq # occurFlag => ~occurFlag
      BY <1>1, Zenon DEF DiskInv, DriverInv, SyncInv, BlockInv, DataOK
    <3> QED BY <1>1, <3>1 DEF DriveInv
  <2>2. at[p] \notin {"ready", "issue", "clear", "data", "status"}
    BY <1>1 DEF DriveInv
  <2>3. at[p] = "drq" => dev.phase = "err"
    BY <1>1 DEF DriveInv
  <2>4. Answered' <=> Answered
    BY <1>1 DEF Answered
  <2>5. Serves(p)' <=> Serves(p)
    BY <1>1 DEF Serves, TagOf
  <2>6. irq' # occurFlag'
    BY <1>1, Zenon
  <2> QED BY <1>1, <2>1, <2>2, <2>3, <2>4, <2>5, <2>6 DEF DriveInv
<1> QED BY <1>1, <1>2, MovedKept, IgnoredIsFree

\* The drive answers once, and the answer it gives is one that p expects.
LEMMA DriveKeepsTransfer ==
    ASSUME DiskInv, Drive, NEW p \in Clients
    PROVE  MovedInv(p)' /\ DriveInv(p)'
<1> SUFFICES ASSUME ~call[p].ignored PROVE MovedInv(p)' /\ DriveInv(p)'
  <2>1. UNCHANGED call
    BY DEF Drive, driveAnswers, driveFails
  <2> QED BY <2>1, IgnoredIsFree
<1>1. /\ UNCHANGED <<at, call, buf, occurFlag>> /\ dev.phase = "busy"
      /\ MovedInv(p) /\ DriveInv(p) /\ dev \in Drives
      /\ irq \in BOOLEAN /\ occurFlag \in BOOLEAN /\ call[p] \in Calls
  BY ClientFacts DEF DiskInv, DriverInv, SyncInv, BlockInv, DataOK, Drive, driveAnswers,
     driveFails, Drives, Calls
<1>2. MovedInv(p)'
  BY <1>1, MovedKept
<1>3. /\ at[p] \in {"run", "lock", "noBusy", "release", "drq", "wait", "block"}
      /\ at[p] \in {"drq", "wait", "block"} => ~irq /\ ~occurFlag /\ Serves(p)
  BY <1>1, ClientFacts DEF DriveInv, Answered, DiskInv, DriverInv, SyncInv, Points
<1>4. dev'.tag = dev.tag /\ dev'.kind = dev.kind /\ dev'.n = dev.n /\ dev'.done = dev.done
  BY <1>1 DEF Drive, driveAnswers, driveFails, Drives
<1>5. Serves(p)' <=> Serves(p)
  BY <1>1, <1>4 DEF Serves, TagOf
<1>6. CASE at[p] = "drq"
  <2>1. dev.done = 0 /\ call[p].kind = "write" /\ dev.kind = "write"
    BY <1>1, <1>3, <1>6, ClientFacts DEF DiskInv, DriverInv, CallInv, Serves
  <2>2. dev'.phase = "err" \/ (dev'.phase = "drq" /\ ~irq')
    <3>1. CASE driveAnswers
      <4>1. dev.n # 0
        BY <1>1, <1>3, <1>6, ClientFacts DEF Serves, DiskInv, DriverInv, CallInv, Calls
      <4>2. dev'.phase = "drq"
        BY <1>1, <2>1, <3>1, <4>1 DEF driveAnswers, Drives
      <4>3. ~irq'
        BY <1>3, <1>6, <2>1, <3>1, Zenon DEF driveAnswers
      <4> QED BY <4>2, <4>3
    <3>2. CASE driveFails
      BY <1>1, <3>2 DEF driveFails, Drives
    <3> QED BY <3>1, <3>2 DEF Drive
  <2> QED BY <1>1, <1>2, <1>3, <1>5, <1>6, <2>1, <2>2 DEF DriveInv
<1>7. CASE at[p] \in {"wait", "block"}
  <2>1. /\ dev.n = call[p].n /\ dev.done = Moved(p) /\ dev.kind = call[p].kind
        /\ call[p].i < call[p].n /\ call[p].i \in Nat /\ call[p].n \in Nat
    BY <1>1, <1>3, <1>7, ClientFacts
       DEF Serves, DiskInv, DriverInv, CallInv, Calls
  <2>2. /\ dev.done <= dev.n /\ dev.done \in Nat /\ dev.n \in Nat
        /\ dev.kind = "write" => dev.done # 0
        /\ dev.kind # "write" => dev.done # dev.n
    BY <1>7, <2>1 DEF Moved
  <2>3. Answered' /\ irq'
    <3>1. CASE driveAnswers
      <4>1. Answered'
        BY <1>1, <1>4, <2>2, <3>1 DEF driveAnswers, Drives, Answered
      <4>2. irq'
        BY <2>2, <3>1, Zenon DEF driveAnswers
      <4> QED BY <4>1, <4>2
    <3>2. CASE driveFails
      BY <1>1, <3>2 DEF driveFails, Drives, Answered
    <3> QED BY <3>1, <3>2 DEF Drive
  <2>4. irq' # occurFlag'
    BY <1>1, <1>3, <1>7, <2>3, Zenon
  <2> QED BY <1>1, <1>2, <1>3, <1>5, <1>7, <2>3, <2>4 DEF DriveInv
<1>8. CASE at[p] \in {"run", "lock", "noBusy", "release"}
  BY <1>1, <1>2, <1>8, DriveOutside
<1> QED BY <1>3, <1>6, <1>7, <1>8

\* What does not touch the drive, the flags or the call of a process.
LEMMA DriveKept ==
    ASSUME NEW q, DriveInv(q), at'[q] = at[q], call'[q] = call[q], buf'[q] = buf[q],
           UNCHANGED <<irq, occurFlag, dev>>
    PROVE  DriveInv(q)'
BY DEF DriveInv, Serves, Answered, TagOf

\* A call that gives up, or returns, keeps what it has moved.
LEMMA MovedLeaving ==
    ASSUME NEW p, MovedInv(p), at'[p] \in {"run", "release"},
           call'[p] = call[p], buf'[p] = buf[p]
    PROVE  MovedInv(p)' /\ DriveInv(p)'
BY DriveOutside DEF MovedInv, TagOf

\* The holder at work, as far as the proofs of its steps need it.
LEMMA HolderFacts ==
    ASSUME DiskInv, NEW p \in Clients
    PROVE  /\ p \in Pids /\ at \in [Pids -> Points] /\ call \in [Pids -> Calls]
           /\ buf \in [Pids -> Seq(Tags \X Nat)] /\ buf[p] \in Seq(Tags \X Nat)
           /\ dev \in Drives /\ irq \in BOOLEAN /\ occurFlag \in BOOLEAN
           /\ call[p] \in Calls /\ call[p].kind \in {"read", "write"}
           /\ call[p].i \in Nat /\ call[p].n \in Nat /\ call[p].ignored \in BOOLEAN
           /\ CallInv(p) /\ MovedInv(p) /\ DriveInv(p) /\ SyncInv
BY ClientFacts DEF DiskInv, DriverInv, SyncInv, BlockInv, DataOK, Calls, Drives, Kinds

\* Polling before the command: it is sent to a drive that can raise no interrupt.
LEMMA PollingKeepsTransfer ==
    ASSUME DiskInv, NEW p \in Clients, waitNoBusy(p) \/ waitReady(p) \/ lockReturns(p)
    PROVE  MovedInv(p)' /\ DriveInv(p)'
<1>1. /\ UNCHANGED <<call, buf, irq, dev>>
      /\ at[p] \in {"lock", "noBusy", "ready"}
      /\ at'[p] \in {"noBusy", "ready", "issue"}
      /\ at'[p] \in {"ready", "issue"} => dev.phase # "busy" /\ ~irq
      /\ at'[p] = "issue" => ~occurFlag'
  BY HolderFacts DEF waitNoBusy, waitReady, lockReturns, Executes, goto
<1>2. MovedInv(p)'
  BY <1>1, HolderFacts DEF MovedInv, TagOf
<1>3. DriveInv(p)'
  BY <1>1 DEF DriveInv
<1> QED BY <1>2, <1>3

\* The command: a drive that takes it starts on it with no interrupt pending or flagged.
LEMMA CommandKeepsTransfer ==
    ASSUME DiskInv, NEW p \in Clients, command(p)
    PROVE  /\ MovedInv(p)' /\ DriveInv(p)'
           /\ \A q \in Pids : q # p => /\ at'[q] = at[q] /\ call'[q] = call[q]
                                       /\ buf'[q] = buf[q]
<1>1. /\ UNCHANGED <<buf, irq, occurFlag>> /\ at[p] = "issue"
      /\ at'[p] = IF call[p].kind = "read" THEN "wait" ELSE "drq"
      /\ \A q \in Pids : q # p => at'[q] = at[q]
  BY HolderFacts DEF command, Executes, goto
<1>2. CASE /\ dev' = [phase |-> "busy", kind |-> call[p].kind, tag |-> TagOf(p),
                     n |-> call[p].n, done |-> 0]
           /\ UNCHANGED call
  <2>1. ~irq /\ ~occurFlag /\ Len(buf[p]) = 0
    BY <1>1, HolderFacts DEF DriveInv, CallInv, Before
  <2>2. MovedInv(p)'
    BY <1>1, <1>2, HolderFacts DEF MovedInv, TagOf
  <2>3. Serves(p)' /\ dev'.phase = "busy"
    BY <1>1, <1>2, <2>1 DEF Serves, TagOf
  <2>4. DriveInv(p)'
    BY <1>1, <2>1, <2>3 DEF DriveInv
  <2> QED BY <1>1, <1>2, <2>2, <2>4
<1>3. CASE call' = [call EXCEPT ![p] = [call[p] EXCEPT !.ignored = TRUE]]
  <2>1. call'[p].ignored /\ \A q \in Pids : q # p => call'[q] = call[q]
    BY <1>3, HolderFacts DEF Calls
  <2> QED BY <1>1, <2>1, IgnoredIsFree
<1> QED BY <1>2, <1>3 DEF command

\* DRQ for the first block of a write, and clearing the flag before each block.
LEMMA RequestKeepsTransfer ==
    ASSUME DiskInv, NEW p \in Clients, waitDataRequest(p) \/ clearDiskInterruptFlag(p)
    PROVE  MovedInv(p)' /\ DriveInv(p)'
<1>1. /\ UNCHANGED <<call, buf, irq, dev>> /\ at[p] \in {"drq", "clear"}
      /\ Serves(p)' <=> Serves(p)
  BY HolderFacts DEF waitDataRequest, clearDiskInterruptFlag, Executes, Serves, TagOf
<1> SUFFICES ASSUME ~call[p].ignored PROVE MovedInv(p)' /\ DriveInv(p)'
  BY <1>1, IgnoredIsFree
<1>2. CASE waitDataRequest(p)
  <2>1. /\ at[p] = "drq" /\ ~irq /\ dev.phase \in {"drq", "err"}
        /\ at'[p] = IF dev.phase = "err" THEN "release" ELSE "clear"
    BY <1>2, HolderFacts DEF waitDataRequest, Executes, goto
  <2>2. MovedInv(p)'
    BY <1>1, <2>1, HolderFacts DEF MovedInv, TagOf
  <2>3. DriveInv(p)'
    BY <1>1, <2>1, HolderFacts DEF DriveInv, CallInv
  <2> QED BY <2>2, <2>3
<1>3. CASE clearDiskInterruptFlag(p)
  <2>1. at[p] = "clear" /\ at'[p] = "data" /\ ~occurFlag'
    BY <1>3, HolderFacts DEF clearDiskInterruptFlag, Executes, goto
  <2>2. MovedInv(p)'
    BY <1>1, <2>1, HolderFacts DEF MovedInv, TagOf
  <2>3. DriveInv(p)'
    BY <1>1, <2>1, HolderFacts DEF DriveInv
  <2> QED BY <2>2, <2>3
<1> QED BY <1>2, <1>3

\* waitInterrupt returns TRUE only behind an answer, and times out without one.
LEMMA WaitKeepsTransfer ==
    ASSUME DiskInv, NEW p \in Clients, waitInterrupt(p) \/ waitInterruptWoken(p)
    PROVE  MovedInv(p)' /\ DriveInv(p)'
<1>1. /\ UNCHANGED <<call, buf, irq, dev, occurFlag>> /\ at[p] \in {"wait", "block"}
      /\ \/ at'[p] = "block" \/ at'[p] = "release"
         \/ occurFlag /\ at'[p] = IF call[p].kind = "read" THEN "clear" ELSE "status"
      /\ Serves(p)' <=> Serves(p)
      /\ Answered' <=> Answered
  BY HolderFacts DEF waitInterrupt, waitInterruptWoken, Executes, goto, interrupted,
     blockFor, Serves, TagOf, Answered
<1> SUFFICES ASSUME ~call[p].ignored PROVE MovedInv(p)' /\ DriveInv(p)'
  BY <1>1, IgnoredIsFree
<1>2. MovedInv(p)'
  BY <1>1, HolderFacts DEF MovedInv, TagOf
<1>3. CASE at'[p] = "release"
  BY <1>2, <1>3, DriveOutside
<1>4. CASE at'[p] = "block"
  BY <1>1, <1>2, <1>4, HolderFacts DEF DriveInv
<1>5. CASE occurFlag /\ at'[p] = IF call[p].kind = "read" THEN "clear" ELSE "status"
  <2>1. Answered /\ irq # occurFlag /\ Serves(p)
    BY <1>1, <1>5, HolderFacts DEF DriveInv
  <2>2. ~irq
    BY <1>5, <2>1, HolderFacts, Zenon
  <2>3. call[p].kind = "read" => dev.phase \in {"drq", "err"}
    BY <2>1 DEF Answered, Serves
  <2>4. call[p].kind # "read" => call[p].kind = "write"
    BY HolderFacts
  <2>5. DriveInv(p)'
    BY <1>1, <1>5, <2>1, <2>2, <2>3, <2>4 DEF DriveInv
  <2> QED BY <1>2, <2>5
<1> QED BY <1>1, <1>3, <1>4, <1>5

\* A sector through the data port belongs to the command of p and is the next one.
LEMMA DataKeepsTransfer ==
    ASSUME DiskInv, NEW p \in Clients, dataPort(p)
    PROVE  /\ MovedInv(p)' /\ DriveInv(p)'
           /\ \A q \in Pids : q # p => /\ at'[q] = at[q] /\ call'[q] = call[q]
                                       /\ buf'[q] = buf[q]
<1> DEFINE Others == \A q \in Pids : q # p => /\ at'[q] = at[q] /\ call'[q] = call[q]
                                              /\ buf'[q] = buf[q]
<1>0. CASE call[p].ignored
  <2>1. at[p] = "data" /\ DataOK
    BY DEF dataPort, Executes, DiskInv, DriverInv
  <2>2. \/ UNCHANGED call
        \/ call' = [call EXCEPT ![p] = [call[p] EXCEPT !.i = call[p].i + 1]]
    BY DEF dataPort, advance
  <2>3. call'[p].ignored /\ \A q \in Pids : q # p => call'[q] = call[q]
    BY <1>0, <2>2, HolderFacts DEF Calls
  <2>4. \A q \in Pids : q # p => at'[q] = at[q]
    BY HolderFacts DEF dataPort, advance, goto
  <2>5. \A q \in Pids : q # p => buf'[q] = buf[q]
    BY <2>1, HolderFacts, MoveSectorTypes DEF dataPort
  <2> QED BY <2>3, <2>4, <2>5, IgnoredIsFree
<1> SUFFICES ASSUME ~call[p].ignored PROVE MovedInv(p)' /\ DriveInv(p)' /\ Others
  BY <1>0
<1>1. /\ UNCHANGED <<irq, occurFlag>> /\ at[p] = "data" /\ ~irq /\ ~occurFlag
      /\ Serves(p)
      /\ \/ dev.phase = "drq"
         \/ dev.phase = "err" /\ call[p].kind = "read"
  BY HolderFacts DEF dataPort, Executes, DriveInv
<1>2. /\ Len(buf[p]) = call[p].i /\ call[p].i < call[p].n /\ dev.done = call[p].i
      /\ dev.n = call[p].n /\ dev.kind = call[p].kind /\ dev.tag = TagOf(p)
      /\ TagOf(p) \in Tags
      /\ \A k \in 1 .. Len(buf[p]) : buf[p][k] = <<TagOf(p), k>>
  BY <1>1, HolderFacts DEF MovedInv, Moved, CallInv, Serves, TagOf, Tags, Calls
<1>3. CASE dev.phase = "err"
  <2>1. UNCHANGED <<call, buf, dev>> /\ at' = [at EXCEPT ![p] = "release"]
    BY <1>1, <1>3 DEF dataPort, goto
  <2> QED BY <2>1, HolderFacts, MovedLeaving
<1>4. CASE dev.phase # "err"
  <2> DEFINE new == Append(buf[p], <<TagOf(p), call[p].i + 1>>)
  <2>1. moveSector(p)
    BY <1>1, <1>4 DEF dataPort
  <2>2. /\ buf' = [buf EXCEPT ![p] = new]
        /\ dev' = [dev EXCEPT !.done = call[p].i + 1,
                              !.phase = IF dev.kind = "read" /\ call[p].i + 1 = dev.n
                                        THEN "idle" ELSE "busy"]
    BY <1>1, <1>2, <1>4, <2>1 DEF moveSector
  <2>3. /\ Len(new) = call[p].i + 1
        /\ \A k \in 1 .. Len(new) : new[k] = <<TagOf(p), k>>
    <3> DEFINE entry == <<TagOf(p), call[p].i + 1>>
               old == buf[p]
    <3>1. entry \in Tags \X Nat /\ old \in Seq(Tags \X Nat) /\ Len(old) = call[p].i
      BY <1>2, HolderFacts
    <3>2. \A k \in 1 .. Len(old) : old[k] = <<TagOf(p), k>>
      BY <1>2
    <3>3. entry = <<TagOf(p), call[p].i + 1>>
      OBVIOUS
    <3> HIDE DEF entry, old
    <3>4. /\ Len(Append(old, entry)) = call[p].i + 1
          /\ \A k \in 1 .. Len(old) : Append(old, entry)[k] = old[k]
          /\ Append(old, entry)[call[p].i + 1] = entry
      BY <3>1
    <3>5. \A k \in 1 .. call[p].i + 1 : k \in 1 .. call[p].i \/ k = call[p].i + 1
      BY HolderFacts
    <3>6. \A k \in 1 .. Len(Append(old, entry)) : Append(old, entry)[k] = <<TagOf(p), k>>
      BY <3>1, <3>2, <3>3, <3>4, <3>5
    <3> QED BY <3>4, <3>6 DEF old, entry
  <2>4. buf'[p] = new /\ \A q \in Pids : q # p => buf'[q] = buf[q]
    BY <2>2, HolderFacts
  <2> HIDE DEF new
  <2>5. /\ dev'.tag = TagOf(p) /\ dev'.kind = call[p].kind /\ dev'.n = call[p].n
        /\ dev'.done = call[p].i + 1
        /\ call[p].kind = "write" \/ call[p].i + 1 # call[p].n => dev'.phase = "busy"
    BY <1>2, <2>2, HolderFacts DEF Drives
  <2>6. CASE call[p].kind = "read"
    <3>1. advance(p, "wait")
      BY <1>4, <2>6 DEF dataPort
    <3>2. /\ \A q \in Pids : q # p => call'[q] = call[q] /\ at'[q] = at[q]
          /\ call'[p] = [call[p] EXCEPT !.i = call[p].i + 1]
          /\ at'[p] = IF call[p].i + 1 = call[p].n THEN "release" ELSE "wait"
      BY <1>1, <3>1, HolderFacts, AdvanceCounts DEF Points
    <3>3. /\ call'[p].i = call[p].i + 1 /\ call'[p].kind = "read"
          /\ call'[p].n = call[p].n /\ call'[p].parity = call[p].parity
      BY <2>6, <3>2, HolderFacts DEF Calls
    <3>4. TagOf(p)' = TagOf(p)
      BY <3>3 DEF TagOf
    <3>5. MovedInv(p)'
      BY <2>3, <2>4, <3>2, <3>3, <3>4, HolderFacts DEF MovedInv
    <3>6. Serves(p)'
      BY <2>3, <2>4, <2>5, <2>6, <3>3, <3>4 DEF Serves
    <3>7. DriveInv(p)'
      BY <1>1, <2>5, <3>2, <3>6 DEF DriveInv
    <3> QED BY <2>4, <3>2, <3>5, <3>7
  <2>7. CASE call[p].kind # "read"
    <3>1. call[p].kind = "write"
      BY <2>7, HolderFacts
    <3>2. UNCHANGED call /\ at' = [at EXCEPT ![p] = "wait"]
      BY <2>7 DEF dataPort, goto
    <3>3. at'[p] = "wait" /\ \A q \in Pids : q # p => at'[q] = at[q]
      BY <3>2, HolderFacts
    <3>4. TagOf(p)' = TagOf(p)
      BY <3>2 DEF TagOf
    <3>5. MovedInv(p)'
      <4>1. \A k \in 1 .. Len(buf'[p]) : buf'[p][k] = <<TagOf(p)', k>>
        BY <2>3, <2>4, <3>4
      <4> QED BY <4>1 DEF MovedInv
    <3>6. Serves(p)'
      BY <2>3, <2>4, <2>5, <3>2, <3>4 DEF Serves
    <3>7. DriveInv(p)'
      BY <1>1, <2>5, <3>1, <3>3, <3>6 DEF DriveInv
    <3> QED BY <2>4, <3>2, <3>3, <3>5, <3>7
  <2> QED BY <2>6, <2>7
<1> QED BY <1>3, <1>4

\* The status test of writeSector: the next round finds DRQ.
LEMMA StatusKeepsTransfer ==
    ASSUME DiskInv, NEW p \in Clients, statusTest(p)
    PROVE  /\ MovedInv(p)' /\ DriveInv(p)'
           /\ \A q \in Pids : q # p => /\ at'[q] = at[q] /\ call'[q] = call[q]
                                       /\ buf'[q] = buf[q]
<1> DEFINE Others == \A q \in Pids : q # p => /\ at'[q] = at[q] /\ call'[q] = call[q]
                                              /\ buf'[q] = buf[q]
<1>0. CASE call[p].ignored
  <2>1. \/ UNCHANGED call
        \/ call' = [call EXCEPT ![p] = [call[p] EXCEPT !.i = call[p].i + 1]]
    BY DEF statusTest, advance
  <2>2. call'[p].ignored /\ \A q \in Pids : q # p => call'[q] = call[q]
    BY <1>0, <2>1, HolderFacts DEF Calls
  <2>3. UNCHANGED buf /\ \A q \in Pids : q # p => at'[q] = at[q]
    BY HolderFacts DEF statusTest, advance, goto
  <2> QED BY <2>2, <2>3, IgnoredIsFree
<1> SUFFICES ASSUME ~call[p].ignored PROVE MovedInv(p)' /\ DriveInv(p)' /\ Others
  BY <1>0
<1>1. /\ UNCHANGED <<irq, occurFlag, buf, dev>> /\ at[p] = "status" /\ ~irq
      /\ Serves(p) /\ Answered /\ call[p].kind = "write"
  BY HolderFacts DEF statusTest, Executes, DriveInv, CallInv
<1>2. /\ Len(buf[p]) = call[p].i + 1 /\ call[p].i < call[p].n
      /\ dev.done = call[p].i + 1 /\ dev.n = call[p].n
      /\ \A k \in 1 .. Len(buf[p]) : buf[p][k] = <<TagOf(p), k>>
  BY <1>1, HolderFacts DEF MovedInv, Moved, CallInv, Serves
<1>3. CASE UNCHANGED call /\ goto(p, "release")
  BY <1>1, <1>3, HolderFacts, MovedLeaving DEF goto
<1>4. CASE dev.phase # "err" /\ advance(p, "clear")
  <2>1. /\ \A q \in Pids : q # p => call'[q] = call[q] /\ at'[q] = at[q]
        /\ call'[p] = [call[p] EXCEPT !.i = call[p].i + 1]
        /\ at'[p] = IF call[p].i + 1 = call[p].n THEN "release" ELSE "clear"
    BY <1>1, <1>4, HolderFacts, AdvanceCounts DEF Points
  <2>2. /\ call'[p].i = call[p].i + 1 /\ call'[p].kind = "write"
        /\ call'[p].n = call[p].n /\ call'[p].parity = call[p].parity
    BY <1>1, <2>1, HolderFacts DEF Calls
  <2>3. TagOf(p)' = TagOf(p)
    BY <2>2 DEF TagOf
  <2>4. MovedInv(p)'
    BY <1>1, <1>2, <2>1, <2>2, <2>3, HolderFacts DEF MovedInv
  <2>5. Serves(p)'
    BY <1>1, <2>2, <2>3 DEF Serves
  <2>6. at'[p] = "clear" => dev.phase = "drq"
    BY <1>1, <1>2, <1>4, <2>1 DEF Answered
  <2>7. DriveInv(p)'
    BY <1>1, <2>1, <2>5, <2>6 DEF DriveInv
  <2> QED BY <1>1, <2>1, <2>4, <2>7
<1> QED BY <1>3, <1>4 DEF statusTest

LEMMA DiskStep == DiskInv /\ [Next]_vars => DiskInv'
<1> SUFFICES ASSUME DiskInv, [Next]_vars PROVE DiskInv'
  OBVIOUS
<1>1. DriverInv'
  BY DriverStep DEF DiskInv
<1> DEFINE Goal == \A q \in Clients : MovedInv(q)' /\ DriveInv(q)'
<1> SUFFICES Goal
  BY <1>1 DEF DiskInv
<1>2. CASE primaryDiskInterruptHandler
  BY <1>2, PrimaryKeepsTransfer
<1>3. CASE timerInterruptHandler \/ UNCHANGED vars
  <2>1. UNCHANGED <<at, call, buf, dev, irq, occurFlag>>
    BY <1>3 DEF timerInterruptHandler, vars
  <2> QED BY <2>1, HolderFacts, MovedKept, DriveKept
<1>4. CASE Drive
  BY <1>4, DriveKeepsTransfer
<1>5. ASSUME NEW p \in Clients, InCall(p) PROVE Goal
  <2> DEFINE Others == \A q \in Pids : q # p => /\ at'[q] = at[q] /\ call'[q] = call[q]
                                                /\ buf'[q] = buf[q]
  <2>1. CASE lockReturns(p)
    <3>1. UNCHANGED <<call, buf, irq, occurFlag, dev>> /\ Others
      BY <2>1, HolderFacts DEF lockReturns, goto
    <3>2. MovedInv(p)' /\ DriveInv(p)'
      BY <2>1, PollingKeepsTransfer
    <3> QED BY <3>1, <3>2, HolderFacts, MovedKept, DriveKept
  <2>2. CASE ~lockReturns(p)
    <3>1. at[p] \notin {"run", "lock"}
      BY <1>5, <2>2 DEF InCall, waitNoBusy, waitReady, command, waitDataRequest,
         pollTimeout, clearDiskInterruptFlag, dataPort, statusTest, waitInterrupt,
         waitInterruptWoken, releaseLock, Executes
    <3>2. Others /\ MovedInv(p)' /\ DriveInv(p)'
      <4>1. CASE waitNoBusy(p) \/ waitReady(p)
        <5>1. Others
          BY <4>1, HolderFacts DEF waitNoBusy, waitReady, goto
        <5> QED BY <4>1, <5>1, PollingKeepsTransfer
      <4>2. CASE command(p)
        BY <4>2, CommandKeepsTransfer
      <4>3. CASE waitDataRequest(p) \/ clearDiskInterruptFlag(p)
        <5>1. Others
          BY <4>3, HolderFacts DEF waitDataRequest, clearDiskInterruptFlag, goto
        <5> QED BY <4>3, <5>1, RequestKeepsTransfer
      <4>4. CASE pollTimeout(p)
        <5>1. Others /\ at'[p] = "release" /\ UNCHANGED <<call, buf>>
          BY <4>4, HolderFacts DEF pollTimeout, goto
        <5> QED BY <5>1, HolderFacts, MovedLeaving
      <4>8. CASE releaseLock(p)
        <5>1. Others /\ at'[p] = "run" /\ buf'[p] = <<>>
          BY <4>8, HolderFacts DEF releaseLock, goto
        <5> QED BY <5>1, DriveOutside DEF MovedInv
      <4>5. CASE waitInterrupt(p) \/ waitInterruptWoken(p)
        <5>1. Others
          BY <4>5, HolderFacts DEF waitInterrupt, waitInterruptWoken, goto, interrupted,
             blockFor
        <5> QED BY <4>5, <5>1, WaitKeepsTransfer
      <4>6. CASE dataPort(p)
        BY <4>6, DataKeepsTransfer
      <4>7. CASE statusTest(p)
        BY <4>7, StatusKeepsTransfer
      <4> QED BY <1>5, <2>2, <4>1, <4>2, <4>3, <4>4, <4>5, <4>6, <4>7, <4>8 DEF InCall
    <3> QED BY <3>1, <3>2, OnlyHolder
  <2> QED BY <2>1, <2>2
<1>6. ASSUME NEW p \in Clients, NEW kind \in Ops, NEW n \in SectorCounts,
             begin(p, kind, n)
      PROVE  Goal
  <2>1. /\ call' = [call EXCEPT ![p] = [kind |-> kind, n |-> n, i |-> 0,
                                        parity |-> 1 - call[p].parity,
                                        ignored |-> FALSE]]
        /\ UNCHANGED <<buf, irq, occurFlag, dev>> /\ Len(buf[p]) = 0
        /\ at'[p] \in {"lock", "noBusy"}
        /\ \A q \in Pids : q # p => at'[q] = at[q]
    BY <1>6, HolderFacts DEF begin, goto, Executes, CallInv, Before
  <2>2. DriveInv(p)'
    BY <2>1, DriveOutside
  <2>3. MovedInv(p)'
    BY <2>1 DEF MovedInv
  <2>4. ASSUME NEW q \in Clients, q # p PROVE MovedInv(q)' /\ DriveInv(q)'
    BY <2>1, <2>4, HolderFacts, MovedKept, DriveKept
  <2> QED BY <2>2, <2>3, <2>4
<1> HIDE DEF Goal
<1> QED BY <1>2, <1>3, <1>4, <1>5, <1>6 DEF Next, Interrupts

\* The answer of the drive to the command of a waiting process is pending or
\* flagged, whatever earlier calls timed out and whichever commands are ignored.
THEOREM AnswerSignalledAlways == Spec => []AnswerSignalled
<1>1. Init => DiskInv
  BY DriverInit, TransferInit DEF DiskInv
<1>2. DiskInv /\ [Next]_vars => DiskInv'
  BY DiskStep
<1>3. DiskInv => AnswerSignalled
  <2> SUFFICES ASSUME DiskInv, NEW p \in Clients, ~call[p].ignored,
                      at[p] \in {"wait", "block"}, dev.phase # "busy"
               PROVE  irq \/ occurFlag
    BY DEF AnswerSignalled
  <2>1. irq # occurFlag
    BY HolderFacts DEF DriveInv
  <2> QED BY <2>1, HolderFacts, Zenon
<1> QED BY <1>1, <1>2, <1>3, PTL DEF Spec

\* The sectors a call reports were moved for it, in order, however late the answers
\* to earlier calls were, for every call whose command the drive took.
THEOREM OwnSectorsAlways == Spec => []OwnSectors
<1>1. Init => DiskInv
  BY DriverInit, TransferInit DEF DiskInv
<1>2. DiskInv /\ [Next]_vars => DiskInv'
  BY DiskStep
<1>3. DiskInv => OwnSectors
  <2> SUFFICES ASSUME DiskInv, NEW p \in Clients, ~call[p].ignored,
                      NEW k \in 1 .. call[p].i
               PROVE  buf[p][k] = <<TagOf(p), k>>
    BY DEF OwnSectors
  <2>1. call[p].i \in Nat /\ Len(buf[p]) \in Nat /\ call[p].i <= Len(buf[p])
    BY HolderFacts DEF CallInv
  <2>2. k \in 1 .. Len(buf[p])
    BY <2>1
  <2> QED BY <2>2, HolderFacts DEF MovedInv
<1> QED BY <1>1, <1>2, <1>3, PTL DEF Spec
=============================================================================
