-------------------------------- MODULE Sync --------------------------------
(***************************************************************************)
(* The Mutex structure of kernel/proc/Sync.c: owner, depth and wait list.  *)
(* acquireLock and releaseLock are actions of the modules that use it.     *)
(***************************************************************************)
EXTENDS Process

initMutex == [pid |-> NULL, count |-> 0, waitList |-> <<>>]

\* Mutant of handOff: the waiter is woken but the mutex is only freed.
handOffToNobody(m) ==
    [m EXCEPT !.pid = NULL, !.count = 0, !.waitList = HeadRemove(m.waitList)]

\* Mutant of handOff: the last waiter is served first.
handOffToLast(m) ==
    IF m.waitList = <<>>
    THEN [m EXCEPT !.pid = NULL, !.count = 0]
    ELSE [m EXCEPT !.pid = Last(m.waitList), !.count = 1, !.waitList = Front(m.waitList)]

\* What --count == 0 does: free the mutex, or give it to the first waiter.
handOff(m) ==
    IF m.waitList = <<>>
    THEN [m EXCEPT !.pid = NULL, !.count = 0]
    ELSE [m EXCEPT !.pid = HeadOf(m.waitList), !.count = 1,
                   !.waitList = HeadRemove(m.waitList)]
=============================================================================
