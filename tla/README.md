# TLA+ model of the Pintos thread core (ApolloLiZhaoyu/Pintos)

This directory holds TLA+ modules that model the source under `src/src/`. It
also holds the TLC configurations that check those modules. `PROJECT.json`
lists the components, the runs, the mutants, the map from definitions to
source lines, the findings and the hazards.

## 1. Inventory

| Component | Source | State it keeps | Operations |
|---|---|---|---|
| Scheduler core (TCB lifecycle, dispatch) | `threads/thread.c`, `threads/thread.h` | `status`, `current` (the running thread, found by masking `esp`), `all_list`, `thread_ticks`, `next_tid`, and the palloc pages backing the TCBs | `thread_create`, `thread_block`, `thread_unblock`, `thread_yield`, `thread_cond_yield`, `thread_exit`, `schedule`, `next_thread_to_run`, `thread_schedule_tail`, `idle`, `allocate_tid`, `init_thread` |
| Queue discipline | `thread.c` (`ready_list`, `sleep_list`, and the comparators `thread_priority_more`, `wakeup_time_less`, `lock_priority_more`) | the ready queue sorted by descending priority, the sleep queue sorted by ascending wake tick, and each thread's held-lock list | `list_insert_ordered` and `list_sort` with those comparators |
| Sleep / wakeup and the tick | `thread_tick`, `thread_sleep`, `thread_wakeup` | `wakeup_time`, `sleep_list`, the timer tick | the tick handler (wakeup scan plus time-slice preemption) and the sleep call |
| Priority donation | `thread_set_priority`, `thread_hold_the_lock`, `thread_donate_priority`, `thread_remove_lock`; callers in `synch.c`, which is not in this repository | `priority`, `old_priority` (the base priority), `locks`, `lock_waiting`, and each lock's `max_priority` | set priority; acquire a lock (hold or donate-then-block); release a lock |
| MLFQS engine | `update_priority`, `update_priority_for_each`, `thread_set_nice`, `update_load_avg`, `update_recent_cpu`, `increase_recent_cpu`, and the `thread_get_*` readouts; the fixed-point macros (`fixed_point.h`, not in this repository) | `nice`, `recent_cpu`, `load_avg` (17.14 fixed point) | per-tick, per-4-tick and per-second recomputation; set nice |
| Process handshake | `thread_create` (the `child_info` record), `get_child_info`, `thread_exit` (`sema_up(&sema_finish)`) | global `child_list` of `child_info` records; `sema_start` and `sema_finish` inside the child's TCB page | spawn, exit, and the parent's wait (`process.c`, not in this repository) |
| Frame table (VM) | `vm/frame.c` | `frame_table` hash, `frame_clock_list`, `current_frame` (the clock hand), `all_lock` | `frame_get` (with second-chance eviction), `frame_free`, `frame_set_unswapable`, `frame_swap_next` |
| Swap allocator (VM) | `vm/swap.c` | `top_index`, `swap_free_list` | `swap_store`, `swap_free`, `swap_load` |
| Directory layer | `filesys/directory.c` | directory entries on inodes, with the parent stored in slot 0 | `dir_create`, `dir_open`/`dir_open_path`/`dir_reopen`/`dir_close`, `lookup`, `dir_lookup`, `dir_add`, `dir_remove`, `dir_readdir`, `dir_is_empty`, `dir_parser` |
| Open-file bookkeeping | `get_file_info`, `add_file_list`, and the file loop in `thread_exit` | global `file_list` | add, look up, and close on exit |

**How the parts interact.** The timer interrupt calls `thread_tick`. That
function wakes due sleepers with `thread_unblock` and asks for a yield on
interrupt return once `TIME_SLICE` ticks have passed. Every voluntary
transition masks interrupts and ends in `schedule`, which pops the head of
`ready_list` (or picks `idle_thread`) and switches to it. The new thread then
runs `thread_schedule_tail`, which frees the page of a DYING predecessor.

The lock code in `synch.c` calls three functions here:
`thread_hold_the_lock`, `thread_donate_priority` on the holder chain, and
`thread_remove_lock` on release. Donation re-sorts a READY holder within
`ready_list`.

Under `-o mlfqs`, `timer.c` drives the statistics. It calls
`increase_recent_cpu` on every tick, `update_priority_for_each` every 4
ticks, and `update_load_avg` plus `update_recent_cpu_for_each` every second.
`thread_create` records the child in the global `child_list`, and
`thread_exit` ups the child's `sema_finish`. `frame.c` evicts pages through
`swap.c`. A thread's `cwd` is a `dir` handle that `thread_create` reopens for
the child. The open system call (`syscall.c`, not in the repository) pushes a
`file_info` record on the global `file_list` with `add_file_list`, and
`thread_exit` walks that list to close and free the exiting thread's records.

**What makes this code hard.** There is one CPU, and interrupts are the only
source of concurrency. The interrupt-context tick interleaves with every
thread-level call, and in particular with the two halves of `thread_sleep`,
which reads the tick before it masks interrupts. Priorities change while
threads sit in sorted queues: through donation, `set_priority`,
`remove_lock` and the MLFQS recompute. A TCB page is freed by the *next*
thread. Page allocation can fail halfway through `thread_create`. The
global `file_list` is walked and changed with interrupts on and no lock. Lock
handoff lets another thread barge in between `sema_up` and the woken
waiter's retry.

**What makes each part correct.**
- Scheduler: exactly one thread is RUNNING. The ready queue holds exactly the
  READY threads and never the idle thread. Every BLOCKED thread is waiting on
  something that can wake it. A freed TCB is referenced by no queue, lock or
  registry.
- Queues: `ready_list` is sorted by descending priority and is FIFO among
  equal priorities. `sleep_list` is sorted by ascending wake tick.
- Sleep: every sleeper wakes, and none wakes early or late.
- Donation: a holder runs at least at the priority of every waiter it blocks.
  Release restores `max(base, the remaining donations)`. A priority never
  drops below its base.
- MLFQS: the priority stays in `[PRI_MIN, PRI_MAX]`, and the ready queue stays
  sorted after every recompute.
- Handshake: the parent collects the child's exit value exactly once, even
  after the child's page is freed.
- Frame/swap: `all_lock` is released on every path, and no swap slot is
  handed out twice.
- Open files: a walk of `file_list` never reads a freed record.

## 2. Plan

Modules, in order of importance (✓ = built):

1. ✓ `Threads`: the scheduler core, the queue discipline, sleep/wakeup with
   the tick, and priority donation, with the lock operations of `synch.c`
   modelled from the spec. This single module holds all the TCB state,
   because donation, the ready queue and dispatch read and write the same
   fields. `MC_Threads` gives its constants values, and the runs are:
   - `sched`: no locks; ticks, sleep, create, exit, yield and set-priority
     (safety and refinement only; see Fairness in §4);
   - `donation`: two locks and no ticks;
   - violation runs for each disagreement found (see §4 and §5).
2. ✓ `ThreadLifecycle`: the abstract lifecycle. `Threads` is shown to
   refine it through `INSTANCE ThreadLifecycle WITH running <- current`.
3. ✓ `Mlfqs`: the 17.14 fixed-point operators and
   `update_priority`/`update_recent_cpu`/`update_load_avg`, composed with the
   ready queue of `Threads`. It checks that the bulk recompute leaves the
   ready queue sorted, and it finds that creation does not.
4. ✓ `Handshake`: `child_info` records, `sema_finish` living in the child's
   TCB page, page reuse, and a spec-modelled `process_wait`. It checks that
   a waiting parent sleeps only on its own, live child's semaphore, and it
   finds that page reuse breaks this.
5. ✓ `FrameSwap`: the clock eviction in `frame_get`, `frame_free`,
   `frame_set_unswapable`, and the `swap.c` slot allocator. It checks that
   the lock is released on every path and that no slot is handed out twice.
6. ✓ `Directory`: the directory entries of `dir_add`/`dir_remove`/`lookup`,
   with slot 0 as the parent, the open `struct dir` handles and the inode
   open counts. The path parser `dir_parser` is left out (see §6).
7. ✓ `OpenFiles`: `file_list` by its `next`/`prev` pointers, `add_file_list`,
   the close loop of `thread_exit` statement by statement, and the walk of
   `get_file_info`. It finds that two exiting processes can free a record
   under each other's cursor.

## 3. Modules as built

### `Threads` (`Threads.tla`, instantiated by `MC_Threads.tla`)

The TCB fields become functions over `Threads == {Main, Idle} \cup Pages`.
`Pages` are model values for the TCB pages that `thread_create` can hand
out, and a page whose thread has died and been freed is reused by a later
create. Other state:
- `ready_list`, `sleep_list` and each thread's `locks` are sequences kept in
  the order `list_insert_ordered` gives them;
- `current` is `running_thread ()`;
- `free_pages` counts palloc pages;
- `fault` records a NULL dereference;
- `holder`, `max_priority` and `waiters` are the lock state of `synch.c`.

Each action is one atomic step. Most are a section the kernel runs with
interrupts masked. `ThreadCreate` is not: `thread_create` runs with
interrupts on, and `init_thread` puts the child on `all_list` (777) before
`thread_unblock` (305) makes it READY. The model takes the whole call as one
step, so a tick or a switch inside that window is not explored; no property
reads `all_list` there.


| Action | Code | Notes |
|---|---|---|
| `ThreadCreate(p, pri)` | `thread_create` 248-323 | TCB page, child_info page (fault if it is missing), `init_thread`, unblock, `thread_cond_yield` |
| `ThreadExit` | `thread_exit` 436-440 | leaves `all_list`, DYING, `schedule` |
| `ThreadSetPriority(np)` | 489-504 | range check, `old_priority`, deferred lowering while holding locks, `thread_yield` |
| `IdleLoop` | `idle` 668-695 | |
| `SleepStart(d)`, `SleepBlock` | `thread_sleep` 177-188 | split at `intr_disable`, because the tick read happens before it |
| `Tick` | `thread_tick` + `thread_wakeup` 153-212 | the wakeup scan and the time-slice yield on interrupt return |
| `LockAcquire(l)`, `AcquireResume`, `LockRelease(l)` | `synch.c` (from the spec) | they call `ThreadDonatePriority`, `ThreadHoldTheLock` and `ThreadRemoveLock`, which are translated from 614-657 |

`Schedule` is `schedule` together with `next_thread_to_run` and
`thread_schedule_tail`. The page of a DYING predecessor is freed there.
`ThreadBlock(rq)` is `thread_block` (332-339), which sleep, lock waits and
the handshake's wait all end in. The queue orders are named after their
comparators: `InsertReady` uses `thread_priority_more`, `WakeupTimeLess` is
`wakeup_time_less` for `sleep_list`, and `LockPriorityMore` is
`lock_priority_more` for the held-lock lists.

`MaxTick` caps the clock: every wake tick is at most `MaxTick`, and later
ticks saturate. `MaxTid` caps `allocate_tid`, and `PoolSize` sets the palloc
pool.

### `ThreadLifecycle` (`ThreadLifecycle.tla`): the abstract lifecycle

This module states what the scheduler core promises, without queues,
priorities or locks. Its variables are `status` and `running`. One step is
one masked section of kernel code, `Section(born, woken, out, next)`. In it:
- FREE pages may become READY threads;
- BLOCKED threads other than idle may be woken;
- the running thread may leave RUNNING for READY, BLOCKED or DYING;
- if it does, the CPU goes to a READY thread, or to idle only when no other
  thread is READY;
- a DYING thread's page becomes FREE in the switch away from it, and main's
  page never does.

Batching is sound for the masked sections. `thread_create` followed by
its `thread_cond_yield` is taken as one step too (see the caveat above), and so is a tick that wakes
sleepers and ends the time slice.

`Threads` defines `Lifecycle == INSTANCE ThreadLifecycle WITH running <-
current` (`status` maps to itself). The run `sched` checks `Lifecycle!Spec`
as the property `LifecycleRefined`.

### `FrameSwap` (`FrameSwap.tla`, instantiated by `MC_FrameSwap.tla`)

`table` is the frame hash (frame to upage), `swapable` is the item flag, and
`clock` is `frame_clock_list`. The hand is `current_frame`. `Dangling` stands
for a hand left on a freed item or on the list tail. `accessed` holds the PTE
accessed bits, and `top_index` and `swap_free_list` are the swap state. The
page table's swap record is `in_swap`, and `req` is a page-in between
`frame_get` and `frame_set_unswapable`.

Every `frame.c` call holds `all_lock` throughout, so each call is one action.
`Locked` waits for `all_lock`; a second acquire by the holder panics.

| Action | Code |
|---|---|
| `FrameGet(p, u)` | `frame_get` 48-94; the eviction half is `Evict` (53-80), with `Victim`/`Passed` for the second-chance loop and `HandAfterEvict` for 73-75 |
| `FrameFree(p, f)` | 105-120 |
| `FrameSetUnswapable(p)` | 122-138 |
| `SwapLoad(p)` | `swap_load` + `swap_free` |
| `Touch(f)` | the MMU setting an accessed bit |

`page.c` is not in the repository. The model follows its order:
1. `frame_get`;
2. `swap_load`, if the page is in swap;
3. `frame_set_unswapable`.

Other processes' calls can come in between.

### `Mlfqs` (`Mlfqs.tla`, instantiated by `MC_Mlfqs.tla`)

`Mlfqs` EXTENDS `Threads` and adds three variables:
- `nice` and `recent_cpu`, the TCB fields;
- `load_avg`, the global of `thread.c`.

The fixed-point macros follow the spec, because `threads/fixed_point.h` is
not in the repository. `FP` is 2^14. `CDiv` is C division, which truncates
toward zero. `MULT` and `DIV` widen to 64 bits, as the macros do.

TLC's integers are 32-bit and TLC stops with an error on overflow. An int
overflow of the C code would therefore show up as a TLC error rather than
pass silently, so `Int32` is the identity within the range. No run hits that
error. `MULT` splits its product so that the model's intermediate values stay
in range where the C code's 64-bit product does.

| Action | Code | Notes |
|---|---|---|
| `MlfqsThreadCreate(p, pri)` | `thread_create` 248-323 with `init_thread` 748-755 | the child copies `nice` and `thread_get_recent_cpu ()`; it is inserted by `pri`; then the child and the creator are recomputed; `thread_cond_yield` |
| `ThreadSetNice(n)` | 531-548 | an out-of-range `n` returns early (no step); `update_priority`; `thread_cond_yield` |
| `MlfqsTick` | 581-611, with the calls of `timer.c` (absent) | `increase_recent_cpu`; at `ticks % TIMER_FREQ = 0`, `update_load_avg` then `update_recent_cpu_for_each`; at `ticks % 4 = 0`, `update_priority_for_each` (recompute, then `list_sort`); then the time-slice yield |
| `ThreadExit`, `IdleLoop` | from `Threads` | the MLFQS fields are unchanged |

`MlfqsInit` is the state after `thread_start`. Creating idle ran the mlfqs
block of `thread_create` while `idle_thread` was still NULL, so both main and
idle start at `PRI_MAX`.

`list_sort` (`lib/kernel/list.c`, absent) is a stable merge sort, modelled
as `ListSort`: ordered insertion of each element in turn.

The composition leaves out locks and sleep. Their code does not change under
`thread_mlfqs`, and it is checked in `Threads`.

### `Handshake` (`Handshake.tla`, instantiated by `MC_Handshake.tla`)

`Handshake` EXTENDS `Threads`, so creation, exit, the deferred page free and
the priority scheduling are those of the scheduler model. It adds:
- `tid`, and `child_list`, the global list of `child_info` records
  (`child_id`, the child's page that `child_thread`, `sema_start` and
  `sema_finish` point into, and the parent that keeps the record);
- `sema_value` and `sema_waiters`, the `sema_finish` semaphore inside each
  TCB page;
- `wait_for` and `waited`, the state of the parents' waits.

| Action | Code | Notes |
|---|---|---|
| `HsCreate(p, pri)` | `thread_create` 270-280 with `init_thread` 766-767 | `ThreadCreate`, a fresh `tid`, the page's semaphore re-initialised, the record appended; a NULL info page is the fault of `Threads` |
| `HsExit` | `thread_exit` 404-408, then `ThreadExit`'s 436-440 | `sema_up (&cur->sema_finish)`, which wakes one waiter or raises the value, then `ThreadExit` |
| `HsWait(c)` | `process_wait` (absent; spec 4.6) | `get_child_info`, one wait per child, `sema_down` on the record's `sema_finish`; like the spec's description it always does `sema_down` and does not consult `child_info.exited` |

The other thread calls of `Threads` leave the handshake unchanged.
`sema_up` hands the signal to the woken waiter. It does not raise the value,
because the waiter's `sema_down` loop would take it back at once. `sema_start` is
left out: only `process.c` signals or waits on it.

### `OpenFiles` (`OpenFiles.tla`, configured by `file_list_race.cfg`)

State: `next` and `prev`, the `elem` pointers of `file_list.head`,
`file_list.tail` (the model values `Head` and `Tail`) and of every
`file_info` block, exactly as `lib/kernel/list.c` keeps them. `list_remove`
relinks the neighbours and leaves the removed block's own pointers alone.
`owner` is each block's `thread_num`, and `live` and `used` are the blocks
malloc'ed and not yet freed, and ever handed out. A freed block is not
handed out again, so a stale pointer always points into freed memory.
`pc`, `e` and `fdp` are each process's place in a walk, its cursor, and the
record being closed.

| Action | Code | Notes |
|---|---|---|
| `AddFileList(p, n)` | `add_file_list` 945-948 | `list_push_back` of a fresh block owned by `p`; the malloc and fill are in `syscall.c` |
| `ExitBegin(p)` | `thread_exit` 414-416 | skip an empty list, else `e = list_begin` |
| `LoopTest(p)` | 416-419 | `e != list_end`, then read `fd->thread_num` |
| `CloseStep(p)` | 420-421 | `close_file` (I/O, no state), `e = list_prev (e)` |
| `RemoveStep(p)` | 422 | `list_remove (&fd->elem)` |
| `FreeStep(p)` | 423 | `free (fd)` |
| `NextStep(p)` | 416 | `e = list_next (e)` |
| `GetFileInfoBegin(p)`, `GetFileInfoStep(p)` | `get_file_info` 930-942 | the same walk; it stops at `list_end` or at a record whose `fd` matches |

Each statement is a step of its own. The walk runs with interrupts on, so the
timer can switch to another process of equal priority between any two
statements, and `close_file` may block in the file system. The fds that
`open` gives records, and the fd a lookup asks for, come from `syscall.c`,
which is not in the repository. They decide only where a lookup stops, so a
lookup may stop at any record it reads.

### `Directory` (`Directory.tla`, instantiated by `MC_Directory.tla`)

State, per disk sector: `kind` (free, a file inode or a directory inode),
`ents` (the inode's data as `struct dir_entry` slots; slot 1 is offset 0, the
parent), `open_cnt` and `removed` (the in-memory `struct inode`). Per
handle: `handle`, the `struct dir` (`inode`, `pos`, and `ok`, which turns
FALSE when the `struct inode` it points to is freed under it: `Stale`). A
stale handle can only be closed, and that close sets `uaf`. `uaf` records an
`inode_*` call on a `struct inode` already freed.

`inode.c`, `free-map.c` and `filesys.c` are not in the repository.
`InodeClose` follows the `inode_close` interface (the last close frees the
struct, and releases the sector of a removed inode), and `Create` wraps
`dir_add` in the creation path of `filesys_create`/`filesys_mkdir`: allocate
a free sector, create the inode (with `dir_create` for a directory), add
the entry, and release the sector if the add fails. Each call runs to
completion, because the callers serialise file-system calls.

| Action | Code | Notes |
|---|---|---|
| `DirOpenRoot(h)` | `dir_open_root` 69-73, `dir_open` 49-65 | |
| `DirReopen(h, g)` | `dir_reopen` 128-132 | `inode_reopen` then `dir_open` |
| `DirOpenPath(h, p)` | `dir_open_path` 76-124 | `p` is the `strtok_r` token list; `Walk` follows `dir_lookup` from the root (no thread has a cwd here; see §6); a missing component or a removed last inode fails |
| `DirClose(h)` | `dir_close` 135-143 | `inode_close` |
| `DirReaddir(h)` | `dir_readdir` 339-354 | the next in-use slot from `pos` |
| `Create(h, n, isdir)` | `dir_add` 238-289 | `lookup`; for a directory, the parent written into the child's slot 0; the free-slot scan from offset 0 (`FreeSlot`); the write |
| `DirRemove(h, n)` | `dir_remove` 294-334 | `lookup`, `inode_open` (+1), the `dir_is_empty` test through `dir_open`/`dir_close` (-1), the erase (`EraseEntry`), `inode_remove`, `inode_close` (-1): a directory nets -1 on its count, a file 0 (`RemoveRefs`). If the `dir_close` freed the struct, the rest is a use after free; if the final close frees it, the handles still on it go stale |

Reads of uninitialised memory are choices: the `in_use` byte of the parent
entry that `dir_create` and `dir_add` write from an unset `struct
dir_entry`, and the sector that `dir_lookup ("..")` opens after a short
read.

## 4. Runs

| Run | Expect | Checks | Result |
|---|---|---|---|
| `sched` | pass | TypeOK, StatusMatchesQueues, FreedPageUnreferenced, PagesAccounted, ReadyFifo, WakeupOnTime, LifecycleRefined (refinement of `ThreadLifecycle`) | 80,748 distinct states, about 2 min |
| `donation` | pass | StatusMatchesQueues, ReadySorted | 765,780 distinct states, about 90 s |
| `frames` | pass | TypeOK, SwapSlotsConserved, FrameTableConsistent | 2,840 distinct states, 10 s |
| `oversleep` | violation | NoOversleep | a tick inside `thread_sleep` makes the wakeup one tick late |
| `release` | violation | ReleaseRestoresPriority | a donation survives the release of the lock that carried it |
| `clock_hand` | violation | HandOnClock | the clock hand is left on freed memory |
| `mlfqs` | pass | MlfqsTypeOK, StatusMatchesQueues, RecomputeRestoresOrder | 3,279,659 distinct states, about 2-3 min |
| `mlfqs_sorted` | violation | MlfqsReadySorted | `thread_create` recomputes the child's priority after inserting it |
| `directory` | pass | DirTypeOK, EntriesNameLiveInodes | 674,566 distinct states, about 2 min |
| `dir_uaf` | violation | NoUseAfterFree | `dir_remove` of a directory drops one reference too many and works on, or leaves a handle on, a freed `struct inode` |
| `handshake_reuse` | violation | WaitBlocksOnlyOnLiveChild | a parent waiting for an exited child sleeps on the semaphore of the thread that reused its page |
| `file_list_race` | violation | CursorNotFreed | an exiting process frees the record under another exiting process's cursor |

`PagesAccounted` (`sched`) makes the `child_info` leak of `thread.c:279`
exact. Every page taken from the pool is a live or dying TCB, or the info page
of a past `thread_create`. Nothing returns the info pages, so each create
costs the pool one page for good.

Nine properties are stated in the modules and fail, but no run keeps them.
The runs go to the code bugs, and each property's hazard in `PROJECT.json`
says how to reproduce its failure:
- `PromptPreemption`: a woken higher-priority sleeper waits for the time
  slice;
- `PriorityAtLeastBase`: donation lowers a holder below its base priority;
- `HolderOutranksWaiters`: a thread that barges in at the hand-off holds the
  lock with a lower priority than a waiter;
- `SwapFailsOnlyWhenFull`: the last swap slot is never used;
- `NoKernelFault` (`Threads`): `thread_create` with exactly one free page
  dereferences a NULL child_info;
- `OpenCountsMatchHandles` (`Directory`): with three handles, removing a
  non-empty directory that two other handles hold leaves its count at one;
- `AddedNameFound` (`Directory`): the first `dir_add` into the root
  overwrites the parent slot, where `lookup` never looks;
- `ChildInheritsRecentCpu` (`Mlfqs`): a child starts with about 1/164 of its
  creator's `recent_cpu`;
- `LockReleasedOnReturn` (`FrameSwap`): `frame_get` returns NULL after a
  failed `swap_store` still holding `all_lock`. Its run gave way to
  `file_list_race`; the bug is on the one failure path of `frame_get`.

`RecentCpuDecaysOncePerSecond` (`Mlfqs`) is in the same position. Creation
applies the once-a-second decay, plus nice, to the creator.

Every property of a passing run has a mutant in `PROJECT.json`: an operator
defined just before the definition it replaces, which models a plausible
slip in that code. Examples are `list_push_back` instead of the ordered
insert, a `dir_remove` that never writes the erased entry back, a dropped `list_remove`, and a
`swap_store` that reads the free list without popping it. TLC finds each
mutant's property violated under the run's own configuration.

**Bounds.**
- `sched` and `donation` use two TCB pages besides main and idle. That is
  enough for page reuse after an exit, for two threads of equal priority
  (FIFO), for one donor and one holder with a third thread barging in, and for
  a two-lock chain. It is not enough to see `thread_donate_priority`
  re-insert a READY holder behind its equal-priority peers (628-629): that
  needs a fourth non-idle thread, and three pages put `donation` past its
  time budget, so `ReadyFifo` is checked only in `sched`.
- Priorities range over 0..2, which gives below, equal and above the default
  of 1.
- `TIME_SLICE` is 4, so sleeps of 1-2 ticks end both inside and at a slice
  boundary.
- `MaxTid` allows three creates.
- `frames` uses three frames, so the clock can have a middle, a back and a
  single element. It uses five anonymous pages, enough to fill every swap
  slot, and one file page for the write-back branch. It has three swap slots
  and two processes, so one process can be between `frame_get` and
  `frame_set_unswapable` while the other evicts.
- `mlfqs` uses the real `PRI_MAX` (63) and `PRI_DEFAULT` (31), two pages
  and two creates. `TIMER_FREQ` is 6 and `MaxTick` is 12, so the run covers:
  - two whole-second updates of `load_avg` and `recent_cpu`;
  - three bulk priority recomputes, one of them in the same tick as a
    second;
  - slice expiries.

  `nice` takes the values 5 and 21 (the latter out of range).
- `directory` uses three sectors (the root and two more), two names, two
  handles, and paths of up to two tokens over the names, `.` and `..`. Each
  directory is created with two slots and can grow to three. This is enough
  for:
  - a nested directory and a file beside it;
  - a full disk, where the sector allocation fails;
  - a full directory, where `dir_add` fails and the sector is released;
  - a directory removed while the other handle keeps it open, which frees
    it under that handle (the `dir_uaf` finding).

  `directory` checks that no in-use entry names a free sector
  (`EntriesNameLiveInodes`) across these sequences.
- `file_list_race` uses two processes and three `file_info` blocks: enough
  for each process to own a record and to be in its close loop while the
  other is in its own. It sets `CHECK_DEADLOCK FALSE`, because every
  process exits in the end and the system stops there.
- `handshake_reuse` uses two pages, priorities 0..2 and four creates. That
  is enough for one page to back two threads in turn. No locks or sleeps are
  used, because the handshake does not touch them.
- Symmetry is used only for the safety-only runs, over interchangeable pages,
  processes and frames.

**Fairness.** No liveness property is checked, and no fairness is assumed.
The one candidate, that every sleeper eventually wakes under weak fairness
of the tick, holds by construction here: `MaxTick` saturates the clock, so
the tick is enabled forever and every wake time is reached, whatever the
wakeup code does. A "READY thread eventually runs" property fails
legitimately, because strict priority scheduling starves a lower-priority
thread. The timing of wakeups is checked as safety instead (`WakeupOnTime`,
`NoOversleep`).

**Deadlock.** The `Threads` and `Mlfqs` runs check deadlock: idle and the tick can always
step. `directory` checks it too: a handle can always be opened or read. `frames` sets `CHECK_DEADLOCK FALSE`, because the kernel really stops
there. A panic is a terminal `fault` state, and after the `all_lock` leak
every frame call of the other process blocks forever.

## 5. Findings

Runs that show each finding are listed below. Those marked "no run" fail
the named property, but the project keeps no run for them (see §4).

1. **Wakeup does not preempt** (`thread.c:206`, `PromptPreemption`, no run).
   A sleeper of higher priority woken by the tick waits up to `TIME_SLICE`
   ticks.
2. **Tick read before masking** (`thread.c:182`, run `oversleep`). A thread is
   queued already due and wakes one tick late.
3. **Stale priority after a partial release** (`thread.c:650-655`, run
   `release`). Trace:
   1. main holds l1 and l2;
   2. p1 (priority 2) donates through l1;
   3. main releases l1 and keeps priority 2, because l2's `max_priority` (1)
      is not above `old_priority` (1).
4. **Donation can lower a priority** (`thread.c:625`, `PriorityAtLeastBase`,
   no run). `t->priority = donor priority` is unconditional.
5. **Inversion at the lock handoff** (spec gap, `HolderOutranksWaiters`, no
   run). Between `sema_up` and the woken waiter's retry, another thread can
   take the lock, and no one donates to it.
6. **NULL child_info** (`thread.c:270-271`, `NoKernelFault`, no run). Page
   exhaustion between the two allocations of `thread_create` faults instead of
   returning `TID_ERROR`.
7. **Dangling clock hand** (`frame.c:24,74-75,110-112`, run `clock_hand`).
8. **Swap off-by-one** (`swap.c:23`, `SwapFailsOnlyWhenFull`, no run).
9. **`all_lock` leak** (`frame.c:67`, `LockReleasedOnReturn`, no run).
10. **MLFQS creation leaves `ready_list` unsorted** (`thread.c:307-312`, run
    `mlfqs_sorted`). The child is inserted by its priority argument and then
    recomputed. Trace:
    1. main, at nice 5 (priority 53), creates p1, which preempts it;
    2. p1 creates p2 at `PRI_DEFAULT`;
    3. p2 is queued behind main and then raised to 63.
11. **recent_cpu inherited in the wrong unit** (`thread.c:754`,
    `ChildInheritsRecentCpu`, no run). `thread_get_recent_cpu ()` returns `round(100 * rc)` as an
    int, and `init_thread` stores it as a 17.14 value.
12. **Creation decays recent_cpu** (`thread.c:309,311`,
    `RecentCpuDecaysOncePerSecond`, no run). This diverges from the spec's
    "decayed once per second".
13. **Use after free in `dir_remove`** (`directory.c:316-332`, run
    `dir_uaf`). `inode_open` returns the `struct inode` with one more
    reference. `dir_open` takes that reference, and the `dir_close` after
    `dir_is_empty` drops it; the `inode_close` at `done` then drops a second
    one, so removing a directory nets -1 on its count.
    - When nobody else has the directory open, `dir_close` frees the struct,
      and `inode_remove` and `inode_close` write freed memory: the directory
      is never marked removed and its sector is never released.
    - When one other handle has it open, the final `inode_close` frees the
      struct (and releases the sector of an empty directory) under that
      handle, whose `dir_close` later works on freed memory.
    - With two other handles the count is left one short
      (`OpenCountsMatchHandles`, no run; it needs three handles).
14. **`dir_add` overwrites the parent slot** (`directory.c:276`,
    `AddedNameFound`, no run). The free-slot scan starts at offset 0. The
    parent entry there was written with an uninitialised `in_use`, so it can
    be taken by the new entry. `lookup` starts at the second slot and never
    finds the name, and `..` then leads to the new inode.
15. **A wait after the child's page was reused** (`thread.c:276-277`, run
    `handshake_reuse`). `info->sema_finish` points into the child's TCB page.
    Trace:
    1. main creates tid 3 at a higher priority, and it runs and exits, raising
       the semaphore to 1;
    2. the switch frees the page, and main's next `thread_create` puts tid 4
       on it, and `init_thread` resets the semaphore to 0;
    3. main waits for tid 3 and blocks on tid 4's semaphore. When tid 4 exits,
       main takes the signal that tid 4's own parent needed.

    The spec (4.6, 8) says the record outlives the child and that a late wait
    returns the value without deadlock.
16. **Exiting processes free records under each other's cursor**
    (`thread.c:414-423`, run `file_list_race`). The close loop walks the
    global `file_list` with no lock and interrupts on. Trace:
    1. a opens a file and starts to exit, and reaches its own record;
    2. b starts to exit, and its cursor `e` rests on a's record;
    3. a closes, unlinks and frees the record, and b then reads
       `fd->thread_num` and `e->next` from freed memory.

    A debug build fills freed blocks with `0xcc`, so b follows a garbage
    `next` pointer and faults. `get_file_info`, called from system calls,
    walks the list in the same unguarded way.

## 6. Not modelled (yet)

- `sema_start` and the exit/load flags of `child_info`: only `process.c`,
  which is not in the repository, signals, waits on or writes them.
- `dir_parser`, a pure string split. TLC evaluates a constant-level check of
  it only once, and the model has no state in which to check it per path.
  Its copy of the last token into `name`, without the `NAME_MAX` check that
  `dir_add` makes, is left unchecked.
- A thread's working directory: `dir_open_path` always starts at the root
  here. `cwd` is set only by the `chdir` system call (not in the repository),
  and `thread_create` passes it on with `dir_reopen`.
- The `thread_get_*` readouts other than `thread_get_recent_cpu` (used by
  `init_thread`). They change no state.
- What `close_file`, `file_allow_write` and the `exec_file` close do in the
  file system: they are I/O, and no walk of `file_list` reads their effect.
- Reuse of a freed `file_info` block by a later malloc: a stale cursor into
  a reused block would read a valid-looking record, which `CursorNotFreed`
  does not tell apart from a live one.
- Names, stacks, the context switch, statistics and printing, and the block
  reads and writes of swap. They are data the properties do not tell apart.
- Preemption inside `swap_free`/`swap_store` list operations, because the
  locking of the absent `page.c` is unknown.
