----------------------------- MODULE Handshake -----------------------------
(***************************************************************************)
(* The process handshake of thread.c on top of the scheduler of Threads:   *)
(* thread_create registers a child_info record on the global child_list    *)
(* whose sema_finish pointer is &t->sema_finish, a semaphore inside the    *)
(* child's TCB page; thread_exit signals it; the parent's wait blocks on   *)
(* it.  process_wait (process.c) and the semaphores (synch.c) are not in   *)
(* the repository: the wait follows spec section 4.6 (look up the record,  *)
(* refuse a second wait, sema_down the finish semaphore, read the value),  *)
(* and sema_down / sema_up follow the spec's interface.  The TCB page is   *)
(* freed by the switch after the exit and may back the next thread_create, *)
(* whose init_thread re-initialises the semaphores in it.                  *)
(***************************************************************************)
EXTENDS Threads

NoTid == 0   \* TID_ERROR is never a child's tid; 0 marks "not waiting"

VARIABLES
    tid,          \* t->tid
    child_list,   \* the global child_list of child_info records, in order
    sema_value,   \* t->sema_finish.value, per TCB page
    sema_waiters, \* t->sema_finish.waiters, per TCB page
    wait_for,     \* the tid a thread blocked in process_wait waits for
    waited        \* tids some parent has already waited for

hsVars == <<tid, child_list, sema_value, sema_waiters, wait_for, waited>>
allVars == <<vars, hsVars>>

\* A child_info record: child_id, the page that child_thread, sema_start and
\* sema_finish point into, and the parent that keeps it (spec 4.6).
Info == [child_id : Nat, page : Pages, parent : Nat]

-----------------------------------------------------------------------------
\* get_child_info: the first record on child_list with this child_id, or
\* an empty set for NULL.
GetChildInfo(c) ==
    LET hits == {i \in 1..Len(child_list) : child_list[i].child_id = c}
    IN  IF hits = {} THEN {} ELSE {child_list[Min(hits)]}

HsInit ==
    /\ Init
    /\ tid = [t \in Threads |-> CASE t = Main -> 1 [] t = Idle -> 2 [] OTHER -> NoTid]
    /\ child_list = <<>>
    /\ sema_value = [t \in Threads |-> 0]
    /\ sema_waiters = [t \in Threads |-> {}]
    /\ wait_for = [t \in Threads |-> NoTid]
    /\ waited = {}

\* thread_create, with the child_info page: when palloc_get_page returns
\* NULL for it, the stores through info fault (Threads); otherwise the
\* record is filled and pushed on child_list.  init_thread has given the
\* new TCB a fresh tid and sema_init'ed its semaphores, whatever a waiter
\* on the old thread of that page had queued there.
HsCreate(p, pri) ==
    /\ ThreadCreate(p, pri)
    /\ IF free_pages = 1
       THEN UNCHANGED hsVars
       ELSE /\ tid' = [tid EXCEPT ![p] = next_tid]
            /\ sema_value' = [sema_value EXCEPT ![p] = 0]
            /\ sema_waiters' = [sema_waiters EXCEPT ![p] = {}]
            /\ child_list' = Append(child_list,
                   [child_id |-> next_tid, page |-> p, parent |-> tid[current]])
            /\ UNCHANGED <<wait_for, waited>>

\* thread_exit under USERPROG: sema_up (&cur->sema_finish) wakes one waiter
\* (which takes the signal) or raises the value; then the thread leaves
\* all_list, becomes DYING and schedules.  A kernel thread exits holding no
\* lock.
HsExit ==
    LET cur == current
        ws  == sema_waiters[cur]
    IN  /\ current # Idle /\ ~Busy(current) /\ locks[current] = <<>>
        /\ all_list' = all_list \ {cur}
        /\ \/ /\ ws = {}
              /\ sema_value' = [sema_value EXCEPT ![cur] = @ + 1]
              /\ Schedule([status EXCEPT ![cur] = "DYING"], ready_list, free_pages)
              /\ UNCHANGED <<sema_waiters, wait_for>>
           \/ \E w \in ws :
              /\ sema_waiters' = [sema_waiters EXCEPT ![cur] = @ \ {w}]
              /\ wait_for' = [wait_for EXCEPT ![w] = NoTid]
              /\ Schedule([status EXCEPT ![cur] = "DYING", ![w] = "READY"],
                          InsertReady(ready_list, w, priority), free_pages)
              /\ UNCHANGED sema_value
        /\ UNCHANGED <<tcbVars, sleep_list, ticks, next_tid, fault, lockVars,
                       tid, child_list, waited>>

\* process_wait (c), from the spec: the record of child C kept by the
\* running thread; a second wait, or no such child, returns -1 at once.
\* Otherwise sema_down on the record's sema_finish: a positive value is
\* taken and the value read; zero blocks the caller on that semaphore.
HsWait(c) ==
    LET r == GetChildInfo(c)
    IN  /\ current # Idle /\ ~Busy(current)
        /\ \E info \in r :
             /\ info.parent = tid[current]
             /\ c \notin waited
             /\ waited' = waited \cup {c}
             /\ IF sema_value[info.page] > 0
                THEN /\ sema_value' = [sema_value EXCEPT ![info.page] = @ - 1]
                     /\ UNCHANGED <<vars, sema_waiters, wait_for>>
                ELSE /\ sema_waiters' = [sema_waiters EXCEPT ![info.page] = @ \cup {current}]
                     /\ wait_for' = [wait_for EXCEPT ![current] = c]
                     /\ ThreadBlock(ready_list)
                     /\ UNCHANGED <<tcbVars, sleep_list, all_list, ticks, next_tid,
                                    fault, lockVars, sema_value>>
        /\ UNCHANGED <<tid, child_list>>

\* The thread calls of Threads that do not touch the handshake.
OtherStep ==
    /\ \/ \E np \in PriorityArgs : ThreadSetPriority(np)
       \/ IdleLoop
       \/ \E d \in SleepTicks : SleepStart(d)
       \/ SleepBlock
       \/ Tick
       \/ \E l \in Locks : LockAcquire(l)
       \/ AcquireResume
       \/ \E l \in Locks : LockRelease(l)
    /\ UNCHANGED hsVars

HsNext ==
    /\ ~fault
    /\ \/ \E p \in Pages, pri \in PRI_MIN..PRI_MAX : HsCreate(p, pri)
       \/ HsExit
       \/ \E c \in 3..MaxTid : HsWait(c)
       \/ OtherStep

HsSpec == HsInit /\ [][HsNext]_allVars

-----------------------------------------------------------------------------
(* Properties.                                                             *)

\* Spec 4.6 and section 8: a parent that waits for a child, before or after
\* the child has exited, is blocked only while that child is still alive:
\* the finish semaphore it sleeps on is the child's own.  The code keeps
\* the semaphore in the child's TCB page, which the switch after
\* thread_exit frees and thread_create hands to a new thread.
WaitBlocksOnlyOnLiveChild ==
    \A t \in Threads :
        wait_for[t] # NoTid =>
            \E p \in Pages : tid[p] = wait_for[t] /\ status[p] \in {"RUNNING", "READY", "BLOCKED"}

====
