------------------------------ MODULE Threads ------------------------------
(***************************************************************************)
(* The Pintos thread core of src/src/threads/thread.c with priority        *)
(* scheduling (thread_mlfqs = false): the TCB lifecycle, the ready and     *)
(* sleep queues, dispatch with the deferred free of a dying thread's page, *)
(* the timer tick, and priority donation.  The lock operations that drive  *)
(* donation live in synch.c, which is not part of this repository; they    *)
(* are modelled from the spec (section 4.4).                               *)
(*                                                                         *)
(* Each action is one call of the code with interrupts masked, so it is    *)
(* atomic.  The only thread-level call that is split in two is             *)
(* thread_sleep, which reads the tick before it masks interrupts.          *)
(***************************************************************************)
EXTENDS Integers, Sequences, SequencesExt, FiniteSets

CONSTANTS
    Main,         \* initial_thread: its page was not palloc'd, never freed
    Idle,         \* idle_thread, created by thread_start
    Pages,        \* palloc pages that can back a new TCB (thread identities)
    Locks,        \* struct lock instances of synch.c
    Nil,          \* the NULL lock / thread pointer
    PRI_MAX,      \* PRI_MAX (63 in thread.h), scaled down
    PRI_DEFAULT,  \* PRI_DEFAULT, priority of the initial thread
    TIME_SLICE,   \* TIME_SLICE: ticks before a forced yield
    SleepTicks,   \* durations passed to thread_sleep (timer_sleep rejects <= 0)
    MaxTick,      \* bound: the timer saturates at this tick
    MaxTid,       \* bound on allocate_tid's next_tid
    PoolSize      \* free pages in the kernel pool after thread_start

PRI_MIN == 0
Threads == {Main, Idle} \cup Pages
Status == {"RUNNING", "READY", "BLOCKED", "DYING", "FREE"}
\* thread_set_priority is called with any int; these include out-of-range ones
PriorityArgs == -1..PRI_MAX + 1

ASSUME /\ Main \notin Pages /\ Idle \notin Pages /\ Nil \notin Threads \cup Locks
       /\ PRI_DEFAULT \in PRI_MIN..PRI_MAX /\ TIME_SLICE \in Nat \ {0}
       /\ SleepTicks \subseteq Nat \ {0} /\ MaxTick \in Nat /\ PoolSize \in Nat

VARIABLES
    status,        \* t->status; "FREE" = the page is not allocated
    priority,      \* t->priority (effective priority)
    old_priority,  \* t->old_priority (base priority set by policy)
    wakeup_time,   \* t->wakeup_time
    in_sleep,      \* t is inside thread_sleep, wake tick read, not yet queued
    locks,         \* t->locks, ordered by lock_priority_more
    lock_waiting,  \* t->lock_waiting
    ready_list,    \* ready_list
    sleep_list,    \* sleep_list
    current,       \* running_thread ()
    all_list,      \* all_list, as a set
    ticks,         \* timer_ticks ()
    thread_ticks,  \* thread_ticks
    next_tid,      \* next_tid of allocate_tid
    free_pages,    \* pages left in the palloc kernel pool
    fault,         \* the kernel dereferenced NULL and panicked
    holder,        \* lock->holder (synch.c)
    max_priority,  \* lock->max_priority
    waiters        \* lock->semaphore.waiters, as a set

tcbVars  == <<priority, old_priority, wakeup_time, in_sleep, locks, lock_waiting>>
lockVars == <<holder, max_priority, waiters>>
vars == <<status, tcbVars, ready_list, sleep_list, current, all_list, ticks,
          thread_ticks, next_tid, free_pages, fault, lockVars>>

-----------------------------------------------------------------------------
(* Queue helpers.                                                          *)

\* list_insert_ordered: X goes before the first element E with Less(X, E).
ListInsertOrdered(s, x, Less(_, _)) ==
    LET after == {i \in 1..Len(s) : Less(x, s[i])}
    IN  IF after = {} THEN Append(s, x) ELSE InsertAt(s, Min(after), x)

\* Mutant: thread_priority_more written with >= (LIFO among equals).
InsertReady_ge(q, t, pri) == ListInsertOrdered(q, t, LAMBDA a, b : pri[a] >= pri[b])

\* list_insert_ordered (&ready_list, &t->elem, thread_priority_more, NULL)
InsertReady(q, t, pri) == ListInsertOrdered(q, t, LAMBDA a, b : pri[a] > pri[b])

\* wakeup_time_less: the sleep_list order, earliest wakeup first.
WakeupTimeLess(a, b) == wakeup_time[a] < wakeup_time[b]

\* lock_priority_more: a thread's held locks, by descending max_priority MP.
LockPriorityMore(mp, a, b) == mp[a] > mp[b]

\* Position of x in s.
Pos(s, x) == SelectInSeq(s, LAMBDA v : v = x)

\* The running thread is between calls: not inside thread_sleep or lock_acquire.
Busy(t) == in_sleep[t] \/ lock_waiting[t] # Nil

-----------------------------------------------------------------------------
(* Dispatch.  ST, RQ and FP are the status function, the ready queue and   *)
(* the free-page count as the calling handler leaves them; the caller has  *)
(* already moved the running thread out of RUNNING.                        *)

\* Mutant: thread_schedule_tail without the prev != initial_thread test.
Schedule_freeMain(st, rq, fp) ==
    LET next  == IF rq = <<>> THEN Idle ELSE Head(rq)
        prev  == current
        freed == next # prev /\ st[prev] = "DYING"
    IN  /\ ready_list' = IF rq = <<>> THEN rq ELSE Tail(rq)
        /\ current' = next
        /\ status' = [st EXCEPT ![prev] = IF freed THEN "FREE" ELSE @,
                                ![next] = "RUNNING"]
        /\ thread_ticks' = 0
        /\ free_pages' = IF freed THEN fp + 1 ELSE fp

\* Mutant: thread_schedule_tail without palloc_free_page of the dying page.
Schedule_noFree(st, rq, fp) ==
    LET next  == IF rq = <<>> THEN Idle ELSE Head(rq)
        prev  == current
        freed == next # prev /\ st[prev] = "DYING" /\ prev # Main
    IN  /\ ready_list' = IF rq = <<>> THEN rq ELSE Tail(rq)
        /\ current' = next
        /\ status' = [st EXCEPT ![prev] = IF freed THEN "FREE" ELSE @,
                                ![next] = "RUNNING"]
        /\ thread_ticks' = 0
        /\ free_pages' = fp

\* Mutant: next_thread_to_run reads list_front without popping it.
Schedule_front(st, rq, fp) ==
    LET next  == IF rq = <<>> THEN Idle ELSE Head(rq)
        prev  == current
        freed == next # prev /\ st[prev] = "DYING" /\ prev # Main
    IN  /\ ready_list' = rq
        /\ current' = next
        /\ status' = [st EXCEPT ![prev] = IF freed THEN "FREE" ELSE @,
                                ![next] = "RUNNING"]
        /\ thread_ticks' = 0
        /\ free_pages' = IF freed THEN fp + 1 ELSE fp

\* schedule + next_thread_to_run + thread_schedule_tail
Schedule(st, rq, fp) ==
    LET next  == IF rq = <<>> THEN Idle ELSE Head(rq)
        prev  == current
        freed == next # prev /\ st[prev] = "DYING" /\ prev # Main
    IN  /\ ready_list' = IF rq = <<>> THEN rq ELSE Tail(rq)
        /\ current' = next
        /\ status' = [st EXCEPT ![prev] = IF freed THEN "FREE" ELSE @,
                                ![next] = "RUNNING"]
        /\ thread_ticks' = 0
        /\ free_pages' = IF freed THEN fp + 1 ELSE fp

\* thread_block: the running thread becomes BLOCKED and schedule () runs,
\* with the ready queue RQ its caller has left.
ThreadBlock(rq) == Schedule([status EXCEPT ![current] = "BLOCKED"], rq, free_pages)

\* Mutant: thread_yield without the cur != idle_thread test.
ThreadYield_idle(st, pri, rq, fp) ==
    Schedule([st EXCEPT ![current] = "READY"], InsertReady(rq, current, pri), fp)

\* Mutant: thread_yield with list_push_back instead of the ordered insert.
ThreadYield_pushBack(st, pri, rq, fp) ==
    LET rq2 == IF current # Idle THEN Append(rq, current) ELSE rq
    IN  Schedule([st EXCEPT ![current] = "READY"], rq2, fp)

\* thread_yield: PRI is the priority function the comparator reads.
ThreadYield(st, pri, rq, fp) ==
    LET rq2 == IF current # Idle THEN InsertReady(rq, current, pri) ELSE rq
    IN  Schedule([st EXCEPT ![current] = "READY"], rq2, fp)

\* thread_cond_yield
ThreadCondYield(st, pri, rq, fp) ==
    IF current # Idle /\ rq # <<>> /\ pri[current] < pri[Head(rq)]
    THEN ThreadYield(st, pri, rq, fp)
    ELSE /\ status' = st /\ ready_list' = rq /\ free_pages' = fp
         /\ UNCHANGED <<current, thread_ticks>>

-----------------------------------------------------------------------------
(* Init: the state after thread_start returns.  main runs at PRI_DEFAULT;  *)
(* idle has run once, set idle_thread and blocked; tids 1 and 2 are used.  *)
\* PRI0 is the priority thread_start leaves main and idle at; init_thread
\* gave them PRI_DEFAULT and PRI_MIN as their base.
InitWith(pri0) ==
    /\ status = [t \in Threads |-> CASE t = Main -> "RUNNING"
                                     [] t = Idle -> "BLOCKED"
                                     [] OTHER    -> "FREE"]
    /\ priority = pri0
    /\ old_priority = [t \in Threads |-> IF t = Idle THEN PRI_MIN ELSE PRI_DEFAULT]
    /\ wakeup_time = [t \in Threads |-> 0]
    /\ in_sleep = [t \in Threads |-> FALSE]
    /\ locks = [t \in Threads |-> <<>>]
    /\ lock_waiting = [t \in Threads |-> Nil]
    /\ ready_list = <<>>
    /\ sleep_list = <<>>
    /\ current = Main
    /\ all_list = {Main, Idle}
    /\ ticks = 0
    /\ thread_ticks = 0
    /\ next_tid = 3
    /\ free_pages = PoolSize
    /\ fault = FALSE
    /\ holder = [l \in Locks |-> Nil]
    /\ max_priority = [l \in Locks |-> PRI_MIN]
    /\ waiters = [l \in Locks |-> {}]

Init == InitWith([t \in Threads |-> IF t = Idle THEN PRI_MIN ELSE PRI_DEFAULT])

-----------------------------------------------------------------------------
(* thread_create: init_thread + allocate_tid, the child_info page (no NULL *)
(* check), thread_unblock, thread_cond_yield.  A NULL first page returns   *)
(* TID_ERROR and changes nothing, so it is no step.                        *)
ThreadCreate(p, pri) ==
    /\ current # Idle /\ ~Busy(current)
    /\ status[p] = "FREE" /\ free_pages >= 1 /\ next_tid <= MaxTid
    /\ next_tid' = next_tid + 1
    /\ IF free_pages = 1
       THEN /\ fault' = TRUE          \* info->child_id = tid on a NULL info
            /\ free_pages' = 0
            /\ UNCHANGED <<status, tcbVars, ready_list, sleep_list, current,
                           all_list, ticks, thread_ticks, lockVars>>
       ELSE LET pr == [priority EXCEPT ![p] = pri]
            IN /\ priority' = pr
               /\ old_priority' = [old_priority EXCEPT ![p] = pri]
               /\ wakeup_time' = [wakeup_time EXCEPT ![p] = 0]
               /\ in_sleep' = [in_sleep EXCEPT ![p] = FALSE]
               /\ locks' = [locks EXCEPT ![p] = <<>>]
               /\ lock_waiting' = [lock_waiting EXCEPT ![p] = Nil]
               /\ all_list' = all_list \cup {p}
               /\ ThreadCondYield([status EXCEPT ![p] = "READY"], pr,
                                  InsertReady(ready_list, p, pr), free_pages - 2)
               /\ UNCHANGED <<sleep_list, ticks, fault, lockVars>>

\* Mutant: thread_exit without list_remove (&thread_current ()->allelem).
ThreadExit_keepAll ==
    /\ current # Idle /\ ~Busy(current) /\ locks[current] = <<>>
    /\ Schedule([status EXCEPT ![current] = "DYING"], ready_list, free_pages)
    /\ UNCHANGED <<tcbVars, sleep_list, all_list, ticks, next_tid, fault, lockVars>>

\* thread_exit (the USERPROG teardown is the Handshake model's concern).
\* A kernel thread returns from its function, and exits, holding no lock.
ThreadExit ==
    /\ current # Idle /\ ~Busy(current) /\ locks[current] = <<>>
    /\ all_list' = all_list \ {current}
    /\ Schedule([status EXCEPT ![current] = "DYING"], ready_list, free_pages)
    /\ UNCHANGED <<tcbVars, sleep_list, ticks, next_tid, fault, lockVars>>

\* Mutant: thread_set_priority without the range check.
ThreadSetPriority_noRange(np) ==
    /\ current # Idle /\ ~Busy(current)
    /\ old_priority' = [old_priority EXCEPT ![current] = np]
    /\ IF locks[current] = <<>> \/ np > priority[current]
       THEN LET pr == [priority EXCEPT ![current] = np]
            IN /\ priority' = pr
               /\ ThreadYield(status, pr, ready_list, free_pages)
       ELSE UNCHANGED <<priority, status, ready_list, current, thread_ticks, free_pages>>
    /\ UNCHANGED <<wakeup_time, in_sleep, locks, lock_waiting, sleep_list,
                   all_list, ticks, next_tid, fault, lockVars>>

\* thread_set_priority: out-of-range values and MLFQS return early.
ThreadSetPriority(np) ==
    /\ current # Idle /\ ~Busy(current)
    /\ np <= PRI_MAX /\ np >= PRI_MIN
    /\ old_priority' = [old_priority EXCEPT ![current] = np]
    /\ IF locks[current] = <<>> \/ np > priority[current]
       THEN LET pr == [priority EXCEPT ![current] = np]
            IN /\ priority' = pr
               /\ ThreadYield(status, pr, ready_list, free_pages)
       ELSE UNCHANGED <<priority, status, ready_list, current, thread_ticks, free_pages>>
    /\ UNCHANGED <<wakeup_time, in_sleep, locks, lock_waiting, sleep_list,
                   all_list, ticks, next_tid, fault, lockVars>>

\* idle: intr_disable (); thread_block ();
IdleLoop ==
    /\ current = Idle
    /\ Schedule([status EXCEPT ![Idle] = "BLOCKED"], ready_list, free_pages)
    /\ UNCHANGED <<tcbVars, sleep_list, all_list, ticks, next_tid, fault, lockVars>>

-----------------------------------------------------------------------------
(* Sleep and the timer tick.                                               *)

\* thread_sleep, line 182: wakeup_time = timer_ticks () + ticks, read while
\* interrupts are still enabled.
SleepStart(d) ==
    /\ current # Idle /\ ~Busy(current)
    /\ ticks + d <= MaxTick
    /\ wakeup_time' = [wakeup_time EXCEPT ![current] = ticks + d]
    /\ in_sleep' = [in_sleep EXCEPT ![current] = TRUE]
    /\ UNCHANGED <<status, priority, old_priority, locks, lock_waiting, ready_list,
                   sleep_list, current, all_list, ticks, thread_ticks, next_tid,
                   free_pages, fault, lockVars>>

\* Mutant: the sleeper is appended (list_push_back) instead of inserted in order.
SleepBlock_append ==
    /\ in_sleep[current]
    /\ in_sleep' = [in_sleep EXCEPT ![current] = FALSE]
    /\ sleep_list' = Append(sleep_list, current)
    /\ ThreadBlock(ready_list)
    /\ UNCHANGED <<priority, old_priority, wakeup_time, locks, lock_waiting,
                   all_list, ticks, next_tid, fault, lockVars>>

\* thread_sleep, lines 184-187: insert into sleep_list and thread_block.
SleepBlock ==
    /\ in_sleep[current]
    /\ in_sleep' = [in_sleep EXCEPT ![current] = FALSE]
    /\ sleep_list' = ListInsertOrdered(sleep_list, current,
                        WakeupTimeLess)
    /\ ThreadBlock(ready_list)
    /\ UNCHANGED <<priority, old_priority, wakeup_time, locks, lock_waiting,
                   all_list, ticks, next_tid, fault, lockVars>>

\* thread_wakeup: the scan from the front stops at the first entry whose
\* wakeup_time > timer_ticks (); this is how many entries it removes.
DueCount(now) ==
    LET late == {i \in 1..Len(sleep_list) : wakeup_time[sleep_list[i]] > now}
    IN  IF late = {} THEN Len(sleep_list) ELSE Min(late) - 1

\* One timer interrupt: timer.c advances the tick, then thread_tick counts
\* the slice and runs thread_wakeup; on interrupt return the yield that
\* intr_yield_on_return requested happens.  The clock saturates at MaxTick:
\* every wake tick is at most MaxTick, so later ticks are all alike.
Tick ==
    LET now   == IF ticks < MaxTick THEN ticks + 1 ELSE MaxTick
        k     == DueCount(now)
        woken == SubSeq(sleep_list, 1, k)
        st    == [t \in Threads |-> IF t \in Range(woken) THEN "READY" ELSE status[t]]
        rq    == FoldLeft(LAMBDA q, t : InsertReady(q, t, priority), ready_list, woken)
    IN  /\ ticks' = now
        /\ sleep_list' = SubSeq(sleep_list, k + 1, Len(sleep_list))
        /\ wakeup_time' = [t \in Threads |-> IF t \in Range(woken) THEN 0 ELSE wakeup_time[t]]
        /\ IF thread_ticks + 1 >= TIME_SLICE
           THEN ThreadYield(st, priority, rq, free_pages)
           ELSE /\ status' = st /\ ready_list' = rq
                /\ thread_ticks' = thread_ticks + 1
                /\ UNCHANGED <<current, free_pages>>
        /\ UNCHANGED <<priority, old_priority, in_sleep, locks, lock_waiting,
                       all_list, next_tid, fault, lockVars>>

-----------------------------------------------------------------------------
(* Priority donation.  S is a record [pri, mp, rq] of the priorities, the  *)
(* locks' max_priority and the ready queue, threaded through the chain.    *)

\* thread_donate_priority (h): h->priority = current's priority; a READY h is
\* moved to its new place in ready_list.  (A RUNNING h is the donor itself,
\* whose priority does not change, so its thread_cond_yield is left out.)
ThreadDonatePriority(h, s) ==
    LET pri2 == [s.pri EXCEPT ![h] = s.pri[current]]
    IN  [pri |-> pri2, mp |-> s.mp,
         rq  |-> IF status[h] = "READY"
                 THEN InsertReady(Remove(s.rq, h), h, pri2) ELSE s.rq]

\* lock_acquire's donation loop (synch.c, from the spec): while the lock's
\* max_priority is below the donor's priority, raise it, donate to its
\* holder, and follow the lock that holder is waiting on.  The chain ends at a
\* lock with no holder: one released whose woken waiter has not yet retried.
RECURSIVE DonateChain(_, _)
DonateChain(l, s) ==
    IF l = Nil \/ holder[l] = Nil \/ s.pri[current] <= s.mp[l] THEN s
    ELSE LET s2 == ThreadDonatePriority(holder[l],
                        [s EXCEPT !.mp = [s.mp EXCEPT ![l] = s.pri[current]]])
         IN  DonateChain(lock_waiting[holder[l]], s2)

\* thread_hold_the_lock (l) with l's max_priority given by MP.
ThreadHoldTheLock(t, l, mp) ==
    ListInsertOrdered(locks[t], l, LAMBDA a, b : LockPriorityMore(mp, a, b))

\* The end of lock_acquire once sema_down succeeds (synch.c, from the spec):
\* the lock's max_priority restarts at the new holder's priority.
TakeLock(l) ==
    LET mp == [max_priority EXCEPT ![l] = priority[current]]
    IN  /\ holder' = [holder EXCEPT ![l] = current]
        /\ max_priority' = mp
        /\ locks' = [locks EXCEPT ![current] = ThreadHoldTheLock(current, l, mp)]
        /\ lock_waiting' = [lock_waiting EXCEPT ![current] = Nil]

\* sema_down finds the value 0: join the waiters and thread_block.
WaitForLock(l, s) ==
    /\ lock_waiting' = [lock_waiting EXCEPT ![current] = l]
    /\ waiters' = [waiters EXCEPT ![l] = @ \cup {current}]
    /\ ThreadBlock(s.rq)

\* lock_acquire (l) called by the running thread.
LockAcquire(l) ==
    /\ current # Idle /\ ~Busy(current) /\ holder[l] # current
    /\ IF holder[l] = Nil
       THEN /\ TakeLock(l)
            /\ UNCHANGED <<status, priority, ready_list, current, thread_ticks,
                           free_pages, waiters>>
       ELSE LET s == DonateChain(l, [pri |-> priority, mp |-> max_priority,
                                     rq |-> ready_list])
            IN /\ priority' = s.pri
               /\ max_priority' = s.mp
               /\ WaitForLock(l, s)
               /\ UNCHANGED <<holder, locks>>
    /\ UNCHANGED <<old_priority, wakeup_time, in_sleep, sleep_list, all_list,
                   ticks, next_tid, fault>>

\* A waiter woken by lock_release runs again inside sema_down's loop: it takes
\* the lock, or blocks again if another thread took it first.
AcquireResume ==
    LET l == lock_waiting[current]
    IN  /\ l # Nil /\ current \notin waiters[l]
        /\ IF holder[l] = Nil
           THEN /\ TakeLock(l)
                /\ UNCHANGED <<status, ready_list, current, thread_ticks,
                               free_pages, waiters>>
           ELSE /\ WaitForLock(l, [rq |-> ready_list])
                /\ UNCHANGED <<holder, max_priority, locks>>
        /\ UNCHANGED <<priority, old_priority, wakeup_time, in_sleep, sleep_list,
                       all_list, ticks, next_tid, fault>>

\* thread_remove_lock: T's priority after L leaves its list.
ThreadRemoveLock(t, l) ==
    LET rest == Remove(locks[t], l)
    IN  IF rest = <<>> THEN old_priority[t]
        ELSE IF max_priority[Head(rest)] > old_priority[t]
             THEN max_priority[Head(rest)]
             ELSE priority[t]

\* Mutant: sema_up takes the waiter off the list but never unblocks it.
LockRelease_noUnblock(l) ==
    /\ current # Idle /\ ~Busy(current) /\ holder[l] = current
    /\ LET pr == [priority EXCEPT ![current] = ThreadRemoveLock(current, l)]
       IN  /\ priority' = pr
           /\ locks' = [locks EXCEPT ![current] = Remove(@, l)]
           /\ holder' = [holder EXCEPT ![l] = Nil]
           /\ waiters' = [waiters EXCEPT ![l] = {}]
           /\ ThreadCondYield(status, pr, ready_list, free_pages)
    /\ UNCHANGED <<old_priority, wakeup_time, in_sleep, lock_waiting, sleep_list,
                   all_list, ticks, next_tid, fault, max_priority>>

\* lock_release (l) (synch.c, from the spec): thread_remove_lock, clear the
\* holder, sema_up wakes a highest-priority waiter, then thread_cond_yield.
LockRelease(l) ==
    /\ current # Idle /\ ~Busy(current) /\ holder[l] = current
    /\ LET pr == [priority EXCEPT ![current] = ThreadRemoveLock(current, l)]
       IN  /\ priority' = pr
           /\ locks' = [locks EXCEPT ![current] = Remove(@, l)]
           /\ holder' = [holder EXCEPT ![l] = Nil]
           /\ IF waiters[l] = {}
              THEN /\ UNCHANGED waiters
                   /\ ThreadCondYield(status, pr, ready_list, free_pages)
              ELSE \E w \in waiters[l] :
                     /\ \A v \in waiters[l] : pr[v] <= pr[w]
                     /\ waiters' = [waiters EXCEPT ![l] = @ \ {w}]
                     /\ ThreadCondYield([status EXCEPT ![w] = "READY"], pr,
                                        InsertReady(ready_list, w, pr), free_pages)
    /\ UNCHANGED <<old_priority, wakeup_time, in_sleep, lock_waiting, sleep_list,
                   all_list, ticks, next_tid, fault, max_priority>>

-----------------------------------------------------------------------------
Next ==
    /\ ~fault
    /\ \/ \E p \in Pages, pri \in PRI_MIN..PRI_MAX : ThreadCreate(p, pri)
       \/ ThreadExit
       \/ \E np \in PriorityArgs : ThreadSetPriority(np)
       \/ IdleLoop
       \/ \E d \in SleepTicks : SleepStart(d)
       \/ SleepBlock
       \/ Tick
       \/ \E l \in Locks : LockAcquire(l)
       \/ AcquireResume
       \/ \E l \in Locks : LockRelease(l)

Spec == Init /\ [][Next]_vars

-----------------------------------------------------------------------------
(* Properties.                                                             *)

TypeOK ==
    /\ status \in [Threads -> Status]
    /\ priority \in [Threads -> PRI_MIN..PRI_MAX]
    /\ old_priority \in [Threads -> PRI_MIN..PRI_MAX]
    /\ wakeup_time \in [Threads -> 0..MaxTick]
    /\ in_sleep \in [Threads -> BOOLEAN]
    /\ locks \in [Threads -> Seq(Locks)]
    /\ lock_waiting \in [Threads -> Locks \cup {Nil}]
    /\ ready_list \in Seq(Threads) /\ sleep_list \in Seq(Threads)
    /\ current \in Threads /\ all_list \subseteq Threads
    /\ ticks \in 0..MaxTick /\ thread_ticks \in 0..TIME_SLICE
    /\ next_tid \in 3..MaxTid + 1 /\ free_pages \in Nat /\ fault \in BOOLEAN
    /\ holder \in [Locks -> Threads \cup {Nil}]
    /\ max_priority \in [Locks -> PRI_MIN..PRI_MAX]
    /\ waiters \in [Locks -> SUBSET Threads]

\* Exactly one thread (the one running_thread finds) is RUNNING; ready_list
\* holds exactly the READY threads other than idle, once each; and every
\* BLOCKED thread but idle waits in exactly one place that can wake it (the
\* sleep list or one lock's waiters), so no blocked thread is lost.  Breaks
\* if a yield, block, wakeup or sema_up path forgets a queue or a status.
StatusMatchesQueues ==
    /\ \A t \in Threads : status[t] = "RUNNING" <=> t = current
    /\ IsInjective(ready_list) /\ IsInjective(sleep_list)
    /\ Range(ready_list) = {t \in Threads \ {Idle} : status[t] = "READY"}
    /\ \A t \in Threads \ {Idle} :
         status[t] = "BLOCKED" <=>
           Cardinality({l \in Locks : t \in waiters[l]})
             + (IF t \in Range(sleep_list) THEN 1 ELSE 0) = 1
    /\ \A l \in Locks : \A t \in waiters[l] : lock_waiting[t] = l

\* A thread whose page thread_schedule_tail has freed, or that is DYING, is
\* reachable from no scheduler structure: not running, not queued, not in
\* all_list, holding and awaiting no lock.  Only main stays DYING (its page
\* is never freed); every other dying page is freed by the next thread.
FreedPageUnreferenced ==
    \A t \in Threads :
       status[t] \in {"FREE", "DYING"} =>
         /\ t # current /\ t \notin all_list
         /\ t \notin Range(ready_list) \cup Range(sleep_list)
         /\ \A l \in Locks : holder[l] # t /\ t \notin waiters[l]
         /\ status[t] = "DYING" => t = Main

\* ready_list stays sorted by descending priority, also when donation,
\* thread_set_priority or lock release change a priority.
ReadySorted == IsSorted(ready_list, LAMBDA a, b : priority[a] >= priority[b])

\* Among READY threads of equal priority, one already waiting (and whose
\* priority did not change) is never overtaken by a newcomer, and two such
\* waiting threads keep their order: ready_list is FIFO within a priority.
ReadyFifo ==
    [][\A a, b \in Range(ready_list') :
         LET Old(x) == x \in Range(ready_list) /\ priority[x] = priority'[x]
         IN  (/\ priority'[a] = priority'[b] /\ Old(b)
              /\ Pos(ready_list', a) < Pos(ready_list', b))
               => Old(a) /\ Pos(ready_list, a) < Pos(ready_list, b)]_vars

\* A timer tick removes from the sleep list exactly the sleepers whose wake
\* tick has arrived: the early break of thread_wakeup is sound only because
\* sleep_list is kept in wake-tick order.
WakeupOnTime ==
    [][Tick => \A t \in Range(sleep_list) :
                 t \notin Range(sleep_list') <=> wakeup_time[t] <= ticks']_vars

\* Spec 4.2: a thread that becomes READY with a higher priority than the
\* running thread makes it yield promptly; so no READY thread outranks a
\* running thread other than idle.
PromptPreemption ==
    current # Idle => \A t \in Range(ready_list) : priority[t] <= priority[current]

\* Spec 8: a thread that sleeps N ticks from tick T is READY at the first
\* tick >= T + N; so no thread in sleep_list is already due.
NoOversleep == \A t \in Range(sleep_list) : wakeup_time[t] > ticks

\* Spec 4.4: releasing a lock sets the releaser's priority to the maximum of
\* its base priority and the max_priority of the locks it still holds.
ReleaseRestoresPriority ==
    [][\A t \in Threads :
         Len(locks'[t]) < Len(locks[t]) =>
           priority'[t] = Max({old_priority'[t]} \cup
                              {max_priority'[k] : k \in Range(locks'[t])})]_vars

\* Spec 3: priority equals old_priority unless raised by a donation, so a
\* live thread never runs below its own base priority.
PriorityAtLeastBase ==
    \A t \in Threads : status[t] # "FREE" => priority[t] >= old_priority[t]

\* Spec 4.4: donation prevents priority inversion: a thread blocked on a
\* lock never has a higher priority than the lock's holder.
HolderOutranksWaiters ==
    \A l \in Locks : \A w \in waiters[l] :
        holder[l] # Nil => priority[holder[l]] >= priority[w]

\* Spec 7: thread_create reports page exhaustion as TID_ERROR; the kernel
\* never dereferences a failed allocation.
NoKernelFault == ~fault

\* Every page taken from the pool is a live or dying TCB, or the child_info
\* page of a past thread_create, which nothing frees: each create costs the
\* pool one page for good, and the deferred free in thread_schedule_tail
\* returns exactly the TCB page of each thread that exits.
PagesAccounted ==
    ~fault =>
        free_pages + Cardinality({p \in Pages : status[p] # "FREE"}) + (next_tid - 3)
            = PoolSize

\* The lifecycle of ThreadLifecycle, seen through status and current.
Lifecycle == INSTANCE ThreadLifecycle WITH running <- current

\* Spec 3: every masked section moves threads only along the lifecycle:
\* new threads start READY, only blocked threads are woken, the CPU passes
\* from the running thread to a READY one, or to idle only when no other
\* thread is READY, and a page is reclaimed only by the switch away from
\* its dying thread, never the initial thread's.  Threads implements
\* ThreadLifecycle under the mapping status <- status, running <- current.
LifecycleRefined == Lifecycle!Spec

=============================================================================
