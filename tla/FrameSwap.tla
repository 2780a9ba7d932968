----------------------------- MODULE FrameSwap -----------------------------
(* The user frame table of vm/frame.c with its second-chance clock, and    *)
(* the swap slot allocator of vm/swap.c.  Every frame.c operation runs     *)
(* under all_lock, so each is one atomic action; the page-fault path of    *)
(* page.c (not in this repository) is split, as it is in the kernel, into  *)
(* frame_get, swap_load and frame_set_unswapable, with other processes'    *)
(* calls in between.  Swap slots are counted in pages: slot k is sector    *)
(* index k * BLOCK_PER_PAGE.                                               *)
EXTENDS Integers, Sequences, SequencesExt, FiniteSets

CONSTANTS
    Procs,       \* processes that fault pages in and free them
    Frames,      \* the pages of palloc's user pool
    UPages,      \* user virtual pages
    MmapPages,   \* the pages backed by a file (written back, not swapped)
    NSlots,      \* block_size (swap_block) / BLOCK_PER_PAGE
    Nil,         \* NULL
    Dangling     \* a current_frame pointing at a freed frame_item or the list tail

ASSUME MmapPages \subseteq UPages /\ NSlots \in Nat \ {0}

Slots == 0..NSlots - 1

VARIABLES
    all_lock,      \* holder of all_lock
    palloc_free,   \* free pages of the user pool
    table,         \* frame_table: frame -> upage of its frame_item, Nil if none
    swapable,      \* frame_item.swapable
    clock,         \* frame_clock_list
    current_frame, \* the clock hand
    accessed,      \* accessed bit of the PTE mapping each frame
    top_index,     \* swap.c top_index, in slots
    swap_free_list,
    in_swap,       \* the page table's record: upage -> slot holding it, or Nil
    req,           \* a page-in in progress: [u, f] once frame_get returned f
    fault          \* the kernel has panicked or dereferenced a freed pointer

vars == <<all_lock, palloc_free, table, swapable, clock, current_frame, accessed,
          top_index, swap_free_list, in_swap, req, fault>>

Resident == {table[f] : f \in {g \in Frames : table[g] # Nil}}
Installed == {f \in Frames : table[f] # Nil /\ ~swapable[f]}
Pending == {req[p].f : p \in {q \in Procs : req[q] # Nil}}

Init ==
    /\ all_lock = Nil
    /\ palloc_free = Frames
    /\ table = [f \in Frames |-> Nil]
    /\ swapable = [f \in Frames |-> TRUE]
    /\ clock = <<>>
    /\ current_frame = Nil
    /\ accessed = [f \in Frames |-> FALSE]
    /\ top_index = 0
    /\ swap_free_list = <<>>
    /\ in_swap = [u \in UPages |-> Nil]
    /\ req = [p \in Procs |-> Nil]
    /\ fault = FALSE

-----------------------------------------------------------------------------
(* swap.c                                                                  *)

\* Mutant: swap_store reads the front of swap_free_list without removing it.
SwapStore_noRemove ==
    IF swap_free_list # <<>>
    THEN [index |-> Head(swap_free_list), top |-> top_index, list |-> swap_free_list]
    ELSE IF top_index + 1 < NSlots
         THEN [index |-> top_index, top |-> top_index + 1, list |-> swap_free_list]
         ELSE [index |-> Nil, top |-> top_index, list |-> swap_free_list]

\* Mutant: the space test ignores the page's span (top_index < block_size).
SwapStore_noSpan ==
    IF swap_free_list # <<>>
    THEN [index |-> Head(swap_free_list), top |-> top_index, list |-> Tail(swap_free_list)]
    ELSE IF top_index < NSlots + 1
         THEN [index |-> top_index, top |-> top_index + 1, list |-> swap_free_list]
         ELSE [index |-> Nil, top |-> top_index, list |-> swap_free_list]

\* swap_store: the front of swap_free_list, else a fresh slot at top_index if
\* top_index + BLOCK_PER_PAGE < block_size, else (index_t) -1 (here Nil).
SwapStore ==
    IF swap_free_list # <<>>
    THEN [index |-> Head(swap_free_list), top |-> top_index, list |-> Tail(swap_free_list)]
    ELSE IF top_index + 1 < NSlots
         THEN [index |-> top_index, top |-> top_index + 1, list |-> swap_free_list]
         ELSE [index |-> Nil, top |-> top_index, list |-> swap_free_list]

\* swap_free: give back the slot at the top by lowering top_index, any other
\* slot by appending it to swap_free_list.
SwapFree(i) ==
    IF top_index = i + 1
    THEN /\ top_index' = i /\ UNCHANGED swap_free_list
    ELSE /\ swap_free_list' = Append(swap_free_list, i) /\ UNCHANGED top_index

-----------------------------------------------------------------------------
(* frame.c                                                                 *)

\* Position in a sequence.
Pos(s, x) == SelectInSeq(s, LAMBDA v : v = x)

\* The clock list read from the hand onwards, wrapping at the back as
\* frame_swap_next does.
FromHand == LET n == Len(clock)
                i == Pos(clock, current_frame)
            IN  [k \in 1..n |-> clock[((i - 1 + k - 1) % n) + 1]]

\* frame_get's second-chance loop: the first frame from the hand whose
\* accessed bit is clear, or the hand itself after a full turn.
Victim == LET r == FromHand
              clear == {k \in 1..Len(r) : ~accessed[r[k]]}
          IN  IF clear = {} THEN r[1] ELSE r[Min(clear)]

\* The frames whose accessed bit the loop cleared on its way to the victim.
Passed == LET r == FromHand
              clear == {k \in 1..Len(r) : ~accessed[r[k]]}
          IN  IF clear = {} THEN Range(r) ELSE {r[k] : k \in 1..Min(clear) - 1}

\* current_frame after list_remove of the victim V at the hand and, if the
\* list is not empty, frame_swap_next: with one frame left the call returns
\* at once and the hand stays on V, which is then freed; otherwise it moves
\* to V's old successor, the list tail when V was at the back.
HandAfterEvict(v) ==
    LET rest == Remove(clock, v)
    IN  IF rest = <<>> THEN Nil
        ELSE IF Len(rest) = 1 \/ v = Last(clock) THEN Dangling
        ELSE clock[Pos(clock, v) + 1]

\* lock_acquire (&all_lock) on entry to a frame.c call: the caller waits while
\* another process holds it; a process that kept it from an earlier call
\* fails lock_acquire's ASSERT (!lock_held_by_current_thread).
Acquire(p) == all_lock \in {Nil, p}
Relock(p) == all_lock = p

\* Mutant: frame_free without list_remove of an unswapable frame.
FrameFree_noRemove(p, f) ==
    /\ req' = IF req[p] # Nil /\ f = req[p].f THEN [req EXCEPT ![p] = Nil] ELSE req
    /\ current_frame' = IF current_frame # f THEN current_frame
                        ELSE IF Len(clock) > 1 THEN FromHand[2] ELSE Dangling
    /\ UNCHANGED clock
    /\ table' = [table EXCEPT ![f] = Nil]
    /\ palloc_free' = palloc_free \cup {f}
    /\ UNCHANGED <<all_lock, swapable, accessed, top_index, swap_free_list, in_swap, fault>>

\* frame_free (f), lines 105-120, for a frame whose page is installed, or by
\* the process that got it from frame_get and abandons the page-in: an
\* unswapable frame first moves the hand off itself (frame_swap_next, which
\* does nothing when it is the only one, so the hand is left on the freed
\* item) and leaves the clock list; the item is deleted and the page goes
\* back to palloc.
FrameFree(p, f) ==
    /\ req' = IF req[p] # Nil /\ f = req[p].f THEN [req EXCEPT ![p] = Nil] ELSE req
    /\ current_frame' = IF current_frame # f THEN current_frame
                        ELSE IF Len(clock) > 1 THEN FromHand[2] ELSE Dangling
    /\ clock' = IF ~swapable[f] THEN Remove(clock, f) ELSE clock
    /\ table' = [table EXCEPT ![f] = Nil]
    /\ palloc_free' = palloc_free \cup {f}
    /\ UNCHANGED <<all_lock, swapable, accessed, top_index, swap_free_list, in_swap, fault>>

\* The eviction half of frame_get, lines 53-79, when palloc has no page: the
\* second-chance loop picks the victim at the hand; an anonymous page goes
\* to swap_store, whose failure returns NULL at line 67 with all_lock still
\* held; a file page is written back; the victim leaves the clock list and
\* the hash, and its frame is reused for U.
Evict(p, u) ==
    LET v  == Victim
        pu == table[v]
        st == SwapStore
        acc == [f \in Frames |-> IF f \in Passed THEN FALSE ELSE accessed[f]]
    IN  /\ current_frame \notin {Nil, Dangling}
        /\ IF pu \notin MmapPages /\ st.index = Nil
           THEN /\ all_lock' = p
                /\ accessed' = acc /\ current_frame' = v
                /\ UNCHANGED <<clock, table, swapable, top_index, swap_free_list,
                               in_swap, req, fault>>
           ELSE /\ IF pu \in MmapPages
                   THEN UNCHANGED <<top_index, swap_free_list, in_swap>>
                   ELSE /\ top_index' = st.top /\ swap_free_list' = st.list
                        /\ in_swap' = [in_swap EXCEPT ![pu] = st.index]
                /\ clock' = Remove(clock, v)
                /\ current_frame' = HandAfterEvict(v)
                /\ table' = [table EXCEPT ![v] = u]
                /\ swapable' = [swapable EXCEPT ![v] = TRUE]
                /\ accessed' = [acc EXCEPT ![v] = FALSE]
                /\ req' = [req EXCEPT ![p] = [u |-> u, f |-> v]]
                /\ UNCHANGED all_lock
    /\ UNCHANGED <<palloc_free, fault>>

\* frame_get (flags, u), lines 48-94, called by page.c to fault U in.
\* An empty clock list (line 54) and a hand left on freed memory are both
\* kernel failures.
FrameGet(p, u) ==
    /\ req[p] = Nil /\ u \notin Resident
    /\ IF palloc_free # {}
       THEN \E f \in palloc_free :
              /\ palloc_free' = palloc_free \ {f}
              /\ table' = [table EXCEPT ![f] = u]
              /\ swapable' = [swapable EXCEPT ![f] = TRUE]
              /\ accessed' = [accessed EXCEPT ![f] = FALSE]
              /\ req' = [req EXCEPT ![p] = [u |-> u, f |-> f]]
              /\ UNCHANGED <<all_lock, clock, current_frame, top_index,
                             swap_free_list, in_swap, fault>>
       ELSE IF current_frame \in {Nil, Dangling}
            THEN /\ fault' = TRUE
                 /\ UNCHANGED <<all_lock, palloc_free, table, swapable, clock,
                                current_frame, accessed, top_index, swap_free_list,
                                in_swap, req>>
            ELSE Evict(p, u)

\* page.c (from the spec): the page read back by swap_load, which ends in
\* swap_free.  It runs after frame_get has released all_lock.
SwapLoad(p) ==
    LET u == req[p].u
    IN  /\ req[p] # Nil /\ in_swap[u] # Nil
        /\ SwapFree(in_swap[u])
        /\ in_swap' = [in_swap EXCEPT ![u] = Nil]
        /\ UNCHANGED <<all_lock, palloc_free, table, swapable, clock,
                       current_frame, accessed, req, fault>>

\* frame_set_unswapable (f), lines 122-138, once page.c has installed the
\* page: the frame joins the back of the clock list, and becomes the hand
\* if it is alone there.  (The NULL and already-unswapable returns do not
\* happen on this path.)
FrameSetUnswapable(p) ==
    LET f == req[p].f
    IN  /\ req[p] # Nil /\ in_swap[req[p].u] = Nil
        /\ swapable' = [swapable EXCEPT ![f] = FALSE]
        /\ clock' = Append(clock, f)
        /\ current_frame' = IF clock = <<>> THEN f ELSE current_frame
        /\ req' = [req EXCEPT ![p] = Nil]
        /\ UNCHANGED <<all_lock, palloc_free, table, accessed, top_index,
                       swap_free_list, in_swap, fault>>

\* The MMU sets the accessed bit of a mapped page the process touches.
Touch(f) ==
    /\ f \in Installed /\ ~accessed[f]
    /\ accessed' = [accessed EXCEPT ![f] = TRUE]
    /\ UNCHANGED <<all_lock, palloc_free, table, swapable, clock, current_frame,
                   top_index, swap_free_list, in_swap, req, fault>>

\* Enter a frame.c call: wait for all_lock, or panic on a second acquire.
Locked(p, Op) ==
    /\ Acquire(p)
    /\ IF Relock(p)
       THEN fault' = TRUE /\ UNCHANGED <<all_lock, palloc_free, table, swapable,
                              clock, current_frame, accessed, top_index,
                              swap_free_list, in_swap, req>>
       ELSE Op

Next ==
    /\ ~fault
    /\ \/ \E p \in Procs, u \in UPages : Locked(p, FrameGet(p, u))
       \/ \E p \in Procs : SwapLoad(p)
       \/ \E p \in Procs : Locked(p, FrameSetUnswapable(p))
       \/ \E p \in Procs, f \in Frames :
             /\ f \in Installed \/ (req[p] # Nil /\ f = req[p].f)
             /\ Locked(p, FrameFree(p, f))
       \/ \E f \in Frames : Touch(f)

Spec == Init /\ [][Next]_vars

-----------------------------------------------------------------------------
(* Properties.                                                             *)

TypeOK ==
    /\ all_lock \in Procs \cup {Nil}
    /\ palloc_free \subseteq Frames
    /\ table \in [Frames -> UPages \cup {Nil}]
    /\ swapable \in [Frames -> BOOLEAN]
    /\ clock \in Seq(Frames)
    /\ current_frame \in Frames \cup {Nil, Dangling}
    /\ accessed \in [Frames -> BOOLEAN]
    /\ top_index \in 0..NSlots /\ swap_free_list \in Seq(Slots)
    /\ in_swap \in [UPages -> Slots \cup {Nil}]
    /\ req \in [Procs -> {Nil} \cup [u : UPages, f : Frames]]
    /\ fault \in BOOLEAN

\* The pages stored in swap.
Stored == {in_swap[u] : u \in {v \in UPages : in_swap[v] # Nil}}

\* No swap slot is lost or handed out twice: the slots below top_index are
\* exactly the ones holding a page and the ones on swap_free_list, a slot
\* holds one page, and swap_free_list names a slot once.  This is what
\* swap_free's shortcut (lowering top_index instead of listing the slot)
\* and swap_store's two sources of slots must keep between them, across
\* evictions of several processes and page-ins that free slots after
\* frame_get has dropped all_lock.
SwapSlotsConserved ==
    /\ IsInjective(swap_free_list)
    /\ \A u, v \in UPages : u # v /\ in_swap[u] # Nil => in_swap[u] # in_swap[v]
    /\ Stored \cap Range(swap_free_list) = {}
    /\ Stored \cup Range(swap_free_list) = 0..top_index - 1

\* Every user frame is either free in palloc or owned by exactly one
\* frame_item; the clock list holds each installed (unswapable) frame once
\* and nothing else; a page is in one frame at most, and an installed page
\* has no copy left in swap.  frame_get's eviction, frame_free and
\* frame_set_unswapable must all keep the hash, the clock list and palloc
\* in step.
FrameTableConsistent ==
    /\ \A f \in Frames : f \in palloc_free <=> table[f] = Nil
    /\ IsInjective(clock) /\ Range(clock) = Installed
    /\ \A f, g \in Frames : f # g /\ table[f] # Nil => table[f] # table[g]
    /\ \A f \in Installed : in_swap[table[f]] = Nil

\* The clock hand points into the clock list whenever the list is not empty
\* (and is NULL when it is): frame_get's eviction dereferences it.
HandOnClock ==
    IF clock = <<>> THEN current_frame = Nil ELSE current_frame \in Range(clock)

\* Every frame.c call releases all_lock before it returns.
LockReleasedOnReturn == all_lock = Nil

\* swap_store fails (and frame_get gives up) only when every slot of the
\* swap device holds a page.
SwapFailsOnlyWhenFull ==
    [][all_lock = Nil /\ all_lock' # Nil => Cardinality(Stored) = NSlots]_vars


=============================================================================
