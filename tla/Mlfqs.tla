------------------------------- MODULE Mlfqs -------------------------------
(* The multi-level feedback scheduler (thread_mlfqs) composed with the     *)
(* scheduler core of Threads: nice, recent_cpu and load_avg, recomputed    *)
(* from the timer interrupt, at thread creation and by thread_set_nice,    *)
(* over the same ready queue and dispatch.  The fixed-point macros of      *)
(* threads/fixed_point.h and the calls made by devices/timer.c are not in  *)
(* this repository; they follow the spec (17.14 fixed point, C integer     *)
(* division, 32-bit int results).  Under mlfqs thread_set_priority returns *)
(* at once, and this composition leaves out locks and sleep.               *)
EXTENDS Threads

CONSTANTS
    TIMER_FREQ,      \* ticks per second (devices/timer.h)
    NiceArgs,        \* arguments given to thread_set_nice
    CreatePriorities \* priorities passed to thread_create

NICE_MIN == -20
NICE_MAX == 20

VARIABLES nice, recent_cpu, load_avg

mlfqsVars == <<nice, recent_cpu, load_avg>>
allVars == <<vars, mlfqsVars>>

-----------------------------------------------------------------------------
(* fixed_point.h (from the spec): 17.14 fixed point.                       *)

FP == 2^14

INT_MIN == -2147483647 - 1
INT_MAX == 2147483647

\* An int result.  TLC's own integers are 32-bit and TLC stops with an
\* overflow error when a value leaves that range, so a wrap of the C int
\* cannot pass unnoticed; within the range the value is the C value.
Int32(x) == x

\* C integer division, which truncates toward zero.
CDiv(a, b) == IF (a >= 0) = (b > 0) THEN (IF a >= 0 THEN a ELSE -a) \div (IF b > 0 THEN b ELSE -b)
              ELSE -((IF a >= 0 THEN a ELSE -a) \div (IF b > 0 THEN b ELSE -b))

\* (int64_t) x * y / FP, with y split as yh * FP + yl so that no
\* intermediate leaves the 32-bit range for the operands of this model.
MulDivFP(x, y) ==
    LET ax == IF x >= 0 THEN x ELSE -x
        ay == IF y >= 0 THEN y ELSE -y
        q  == ax * (ay \div FP) + (ax * (ay % FP)) \div FP
    IN  IF (x >= 0) = (y >= 0) THEN q ELSE -q

CONVERT_TO_FP(n) == Int32(n * FP)
CONVERT_TO_INT_ROUND(x) == IF x >= 0 THEN CDiv(x + FP \div 2, FP) ELSE CDiv(x - FP \div 2, FP)
ADD_INT(x, n) == Int32(x + n * FP)
MULT_INT(x, n) == Int32(x * n)
DIV_INT(x, n) == CDiv(x, n)
MULT(x, y) == Int32(MulDivFP(x, y))        \* the product is taken in int64_t
DIV(x, y) == Int32(CDiv(x * FP, y))        \* x is widened to int64_t first

-----------------------------------------------------------------------------
(* The statistics of thread.c.                                             *)

\* update_priority (t): t's new priority, from RC and NI; idle keeps PRI.
UpdatePriority(t, rc, ni, pri) ==
    IF t = Idle THEN pri[t]
    ELSE LET p  == PRI_MAX - CONVERT_TO_INT_ROUND(DIV_INT(rc[t], 4)) - ni[t] * 2
             p1 == IF p < PRI_MIN THEN PRI_MIN ELSE p
         IN  IF p1 > PRI_MAX THEN PRI_MAX ELSE p1

\* update_recent_cpu (t): the once-a-second decay, with load average LA.
UpdateRecentCpu(t, rc, ni, la) ==
    IF t = Idle THEN rc[t]
    ELSE LET coefficient == DIV(MULT_INT(la, 2), ADD_INT(MULT_INT(la, 2), 1))
         IN  ADD_INT(MULT(coefficient, rc[t]), ni[t])

\* update_load_avg: ready_threads counts the running thread unless idle.
UpdateLoadAvg ==
    LET ready_threads == Len(ready_list) + (IF current # Idle THEN 1 ELSE 0)
    IN  MULT(DIV_INT(CONVERT_TO_FP(59), 60), load_avg)
          + MULT_INT(DIV_INT(CONVERT_TO_FP(1), 60), ready_threads)

\* thread_get_recent_cpu: 100 times the running thread's recent_cpu, rounded.
ThreadGetRecentCpu == CONVERT_TO_INT_ROUND(MULT_INT(recent_cpu[current], 100))

\* list_sort (&ready_list, thread_priority_more, NULL): a stable merge sort.
ListSort(q, pri) == FoldLeft(LAMBDA s, t : InsertReady(s, t, pri), <<>>, q)

\* Mutant: update_priority_for_each without the list_sort.
UpdatePriorityForEach_noSort(rc) ==
    LET pr == [t \in Threads |-> IF t \in all_list THEN UpdatePriority(t, rc, nice, priority)
                                 ELSE priority[t]]
    IN  [pri |-> pr, rq |-> ready_list]

\* update_priority_for_each: thread_foreach over all_list, then list_sort.
\* RC is recent_cpu as the same interrupt has left it.
UpdatePriorityForEach(rc) ==
    LET pr == [t \in Threads |-> IF t \in all_list THEN UpdatePriority(t, rc, nice, priority)
                                 ELSE priority[t]]
    IN  [pri |-> pr, rq |-> ListSort(ready_list, pr)]

-----------------------------------------------------------------------------
(* Init: after thread_start with thread_mlfqs.  Creating idle ran the      *)
(* mlfqs block of thread_create while idle_thread was still NULL, so both  *)
(* main and idle got PRI_MAX - 0 - 0; nice and recent_cpu start at 0.      *)
MlfqsInit ==
    /\ InitWith([t \in Threads |-> PRI_MAX])
    /\ nice = [t \in Threads |-> 0]
    /\ recent_cpu = [t \in Threads |-> 0]
    /\ load_avg = 0

\* thread_create under thread_mlfqs: init_thread copies the creator's nice
\* and thread_get_recent_cpu (); thread_unblock inserts the child by the
\* PRIORITY argument; then recent_cpu and priority of the child and of the
\* creator are recomputed, and thread_cond_yield compares the new values.
MlfqsThreadCreate(p, pri) ==
    /\ current # Idle /\ ~Busy(current)
    /\ status[p] = "FREE" /\ free_pages >= 1 /\ next_tid <= MaxTid
    /\ next_tid' = next_tid + 1
    /\ IF free_pages = 1
       THEN /\ fault' = TRUE
            /\ free_pages' = 0
            /\ UNCHANGED <<status, tcbVars, ready_list, sleep_list, current,
                           all_list, ticks, thread_ticks, lockVars, mlfqsVars>>
       ELSE LET ni  == [nice EXCEPT ![p] = nice[current]]
                rc1 == [recent_cpu EXCEPT ![p] = ThreadGetRecentCpu]
                rc2 == [rc1 EXCEPT ![p] = UpdateRecentCpu(p, rc1, ni, load_avg)]
                pr0 == [priority EXCEPT ![p] = pri]
                pr1 == [pr0 EXCEPT ![p] = UpdatePriority(p, rc2, ni, pr0)]
                rc3 == [rc2 EXCEPT ![current] = UpdateRecentCpu(current, rc2, ni, load_avg)]
                pr2 == [pr1 EXCEPT ![current] = UpdatePriority(current, rc3, ni, pr1)]
            IN /\ nice' = ni
               /\ recent_cpu' = rc3
               /\ priority' = pr2
               /\ old_priority' = [old_priority EXCEPT ![p] = pri]
               /\ wakeup_time' = [wakeup_time EXCEPT ![p] = 0]
               /\ in_sleep' = [in_sleep EXCEPT ![p] = FALSE]
               /\ locks' = [locks EXCEPT ![p] = <<>>]
               /\ lock_waiting' = [lock_waiting EXCEPT ![p] = Nil]
               /\ all_list' = all_list \cup {p}
               /\ ThreadCondYield([status EXCEPT ![p] = "READY"], pr2,
                                  InsertReady(ready_list, p, pr0), free_pages - 2)
               /\ UNCHANGED <<sleep_list, ticks, fault, lockVars, load_avg>>

\* Mutant: thread_set_nice without the range check.
ThreadSetNice_noRange(n) ==
    /\ current # Idle /\ ~Busy(current)
    /\ LET ni == [nice EXCEPT ![current] = n]
           pr == [priority EXCEPT ![current] = UpdatePriority(current, recent_cpu, ni, priority)]
       IN  /\ nice' = ni
           /\ priority' = pr
           /\ ThreadCondYield(status, pr, ready_list, free_pages)
    /\ UNCHANGED <<old_priority, wakeup_time, in_sleep, locks, lock_waiting, sleep_list,
                   all_list, ticks, next_tid, fault, lockVars, recent_cpu, load_avg>>

\* thread_set_nice: out-of-range values return early, which is no step;
\* the caller is the running thread, so the READY branch is never taken.
ThreadSetNice(n) ==
    /\ current # Idle /\ ~Busy(current)
    /\ n <= NICE_MAX /\ n >= NICE_MIN
    /\ LET ni == [nice EXCEPT ![current] = n]
           pr == [priority EXCEPT ![current] = UpdatePriority(current, recent_cpu, ni, priority)]
       IN  /\ nice' = ni
           /\ priority' = pr
           /\ ThreadCondYield(status, pr, ready_list, free_pages)
    /\ UNCHANGED <<old_priority, wakeup_time, in_sleep, locks, lock_waiting, sleep_list,
                   all_list, ticks, next_tid, fault, lockVars, recent_cpu, load_avg>>

\* One timer interrupt under thread_mlfqs (the calls are made by timer.c,
\* which is not in this repository; their order follows the spec): the
\* running thread is charged a tick; at a whole second load_avg and then
\* every recent_cpu are recomputed; every fourth tick every priority is
\* recomputed and ready_list re-sorted; thread_tick ends the time slice.
\* There are no sleepers in this composition, so thread_wakeup does nothing.
MlfqsTick ==
    /\ ticks < MaxTick
    /\ LET now  == ticks + 1
           sec  == now % TIMER_FREQ = 0
           rc1  == IF current # Idle /\ status[current] = "RUNNING"
                   THEN [recent_cpu EXCEPT ![current] = ADD_INT(@, 1)] ELSE recent_cpu
           la   == IF sec THEN UpdateLoadAvg ELSE load_avg
           rc2  == IF sec
                   THEN [t \in Threads |-> IF t \in all_list THEN UpdateRecentCpu(t, rc1, nice, la)
                                           ELSE rc1[t]]
                   ELSE rc1
           upd  == IF now % 4 = 0 THEN UpdatePriorityForEach(rc2)
                   ELSE [pri |-> priority, rq |-> ready_list]
       IN  /\ ticks' = now
           /\ load_avg' = la
           /\ recent_cpu' = rc2
           /\ priority' = upd.pri
           /\ IF thread_ticks + 1 >= TIME_SLICE
              THEN ThreadYield(status, upd.pri, upd.rq, free_pages)
              ELSE /\ ready_list' = upd.rq
                   /\ thread_ticks' = thread_ticks + 1
                   /\ UNCHANGED <<status, current, free_pages>>
    /\ UNCHANGED <<old_priority, wakeup_time, in_sleep, locks, lock_waiting, sleep_list,
                   all_list, next_tid, fault, lockVars, nice>>

MlfqsNext ==
    /\ ~fault
    /\ \/ \E p \in Pages, pri \in CreatePriorities : MlfqsThreadCreate(p, pri)
       \/ ThreadExit /\ UNCHANGED mlfqsVars
       \/ \E n \in NiceArgs : ThreadSetNice(n)
       \/ IdleLoop /\ UNCHANGED mlfqsVars
       \/ MlfqsTick

MlfqsSpec == MlfqsInit /\ [][MlfqsNext]_allVars

-----------------------------------------------------------------------------
(* Properties.                                                             *)

MlfqsTypeOK ==
    /\ TypeOK
    /\ nice \in [Threads -> NICE_MIN..NICE_MAX]
    /\ DOMAIN recent_cpu = Threads
    /\ \A t \in Threads : recent_cpu[t] \in INT_MIN..INT_MAX
    /\ load_avg \in INT_MIN..INT_MAX

\* Spec 4.5: every fourth tick the bulk recompute leaves every live thread
\* but idle at PRI_MAX - recent_cpu/4 - 2*nice (clamped) and ready_list
\* re-sorted by the new priorities, the running thread's yield included.
RecomputeRestoresOrder ==
    [][ticks' # ticks /\ ticks' % 4 = 0 =>
         /\ \A t \in all_list' \ {Idle} :
              priority'[t] = UpdatePriority(t, recent_cpu', nice', priority')
         /\ IsSorted(ready_list', LAMBDA a, b : priority'[a] >= priority'[b])]_allVars

\* Spec 4.5: recent_cpu changes only by the timer: +1 for the thread
\* running at a tick, and the decay (2la)/(2la+1)*rc + nice once per whole
\* second.  Compared for threads alive before and after the step.
RecentCpuDecaysOncePerSecond ==
    [][\A t \in (all_list \cap all_list') \ {Idle} :
         recent_cpu'[t] # recent_cpu[t] =>
           /\ ticks' # ticks
           /\ \/ t = current /\ ticks' % TIMER_FREQ # 0
                 /\ recent_cpu'[t] = ADD_INT(recent_cpu[t], 1)
              \/ ticks' % TIMER_FREQ = 0]_allVars

\* A new thread starts from its creator's state: init_thread copies the
\* creator's nice and recent_cpu, and thread_create then decays the
\* child's copy once (thread.c:753-754, 309).
ChildInheritsRecentCpu ==
    [][\A p \in Pages :
         status[p] = "FREE" /\ status'[p] # "FREE" =>
           recent_cpu'[p] = UpdateRecentCpu(p, [recent_cpu EXCEPT ![p] = recent_cpu[current]],
                                            nice', load_avg)]_allVars

\* ready_list stays sorted by descending priority under thread_mlfqs.
MlfqsReadySorted == IsSorted(ready_list, LAMBDA a, b : priority[a] >= priority[b])

====
