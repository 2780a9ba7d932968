----------------------------- MODULE OpenFiles -----------------------------
(***************************************************************************)
(* The open-file bookkeeping of thread.c: one global file_list of struct   *)
(* file_info records, each naming its owner in thread_num.  add_file_list  *)
(* pushes a record; thread_exit walks the whole list, closing, unlinking   *)
(* and freeing the records of the exiting thread.  The walk holds no lock  *)
(* and runs with interrupts on, so the timer may switch to another process *)
(* between any two of its statements, and that process may be exiting     *)
(* too.  The list is modelled by its elem.next and elem.prev pointers, as  *)
(* lib/kernel/list.c keeps them: list_remove relinks the neighbours and    *)
(* leaves the removed element's own pointers as they were.  A freed block  *)
(* is not handed out again, so a stale pointer is one into freed memory.   *)
(* get_file_info walks the same list from a system call.  The record's fd  *)
(* and file are data: the fd a lookup asks for, and the fds open gave the  *)
(* records (syscall.c, not in the repository), decide only where a lookup  *)
(* stops, so a lookup may stop at any record it reads.                     *)
(***************************************************************************)
EXTENDS FiniteSets

CONSTANTS
    Procs,   \* user processes, the owners (thread_num) of records
    Nodes,   \* the struct file_info blocks malloc can hand out
    Head,    \* &file_list.head
    Tail     \* &file_list.tail

NoProc == "none"

VARIABLES
    next,    \* elem.next of file_list.head and of every block
    prev,    \* elem.prev of file_list.tail and of every block
    owner,   \* thread_num of every block handed out
    live,    \* blocks malloc'ed and not yet freed
    used,    \* blocks ever handed out
    pc,      \* where each process is: running, or a statement of the loop
    e,       \* the cursor: e of the close loop, i of get_file_info
    fdp      \* the loop's fd, the record being closed

vars == <<next, prev, owner, live, used, pc, e, fdp>>

Init ==
    /\ next = [x \in Nodes \cup {Head} |-> Tail]   \* list_init: head.next = &tail
    /\ prev = [x \in Nodes \cup {Tail} |-> Head]   \* and tail.prev = &head
    /\ owner = [n \in Nodes |-> NoProc]
    /\ live = {}
    /\ used = {}
    /\ pc = [p \in Procs |-> "live"]
    /\ e = [p \in Procs |-> Head]
    /\ fdp = [p \in Procs |-> Head]

-----------------------------------------------------------------------------
\* add_file_list (info): list_push_back of a record the open system call
\* (syscall.c) has malloc'ed and filled with thread_num = thread_current ().
AddFileList(p, n) ==
    /\ pc[p] = "live"
    /\ n \in Nodes \ used
    /\ owner' = [owner EXCEPT ![n] = p]
    /\ live' = live \cup {n}
    /\ used' = used \cup {n}
    /\ next' = [next EXCEPT ![n] = Tail, ![prev[Tail]] = n]
    /\ prev' = [prev EXCEPT ![n] = prev[Tail], ![Tail] = n]
    /\ UNCHANGED <<pc, e, fdp>>

\* thread_exit, on entry to the close loop: an empty list skips it (the
\* process then closes exec_file and dies); otherwise e = list_begin.
ExitBegin(p) ==
    /\ pc[p] = "live"
    /\ IF next[Head] = Tail
       THEN /\ pc' = [pc EXCEPT ![p] = "dead"]
            /\ UNCHANGED e
       ELSE /\ pc' = [pc EXCEPT ![p] = "test"]
            /\ e' = [e EXCEPT ![p] = next[Head]]
    /\ UNCHANGED <<next, prev, owner, live, used, fdp>>

\* The loop test e != list_end, then fd = list_entry (e) and the test
\* fd->thread_num == cur, which reads the block e points to.
LoopTest(p) ==
    /\ pc[p] = "test"
    /\ IF e[p] = Tail
       THEN /\ pc' = [pc EXCEPT ![p] = "dead"]
            /\ UNCHANGED fdp
       ELSE /\ pc' = [pc EXCEPT ![p] = IF owner[e[p]] = p THEN "close" ELSE "next"]
            /\ fdp' = [fdp EXCEPT ![p] = e[p]]
    /\ UNCHANGED <<next, prev, owner, live, used, e>>

\* close_file (fd->opened_file), then e = list_prev (e).
CloseStep(p) ==
    /\ pc[p] = "close"
    /\ e' = [e EXCEPT ![p] = prev[e[p]]]
    /\ pc' = [pc EXCEPT ![p] = "remove"]
    /\ UNCHANGED <<next, prev, owner, live, used, fdp>>

\* list_remove (&fd->elem).
RemoveStep(p) ==
    LET x == fdp[p]
    IN  /\ pc[p] = "remove"
        /\ next' = [next EXCEPT ![prev[x]] = next[x]]
        /\ prev' = [prev EXCEPT ![next[x]] = prev[x]]
        /\ pc' = [pc EXCEPT ![p] = "free"]
        /\ UNCHANGED <<owner, live, used, e, fdp>>

\* free (fd).
FreeStep(p) ==
    /\ pc[p] = "free"
    /\ live' = live \ {fdp[p]}
    /\ pc' = [pc EXCEPT ![p] = "next"]
    /\ UNCHANGED <<next, prev, owner, used, e, fdp>>

\* The loop increment e = list_next (e), which reads e->next.
NextStep(p) ==
    /\ pc[p] = "next"
    /\ e' = [e EXCEPT ![p] = next[e[p]]]
    /\ pc' = [pc EXCEPT ![p] = "test"]
    /\ UNCHANGED <<next, prev, owner, live, used, fdp>>

\* get_file_info (fd), called by a running process: i = list_begin.
GetFileInfoBegin(p) ==
    /\ pc[p] = "live"
    /\ pc' = [pc EXCEPT ![p] = "lookup"]
    /\ e' = [e EXCEPT ![p] = next[Head]]
    /\ UNCHANGED <<next, prev, owner, live, used, fdp>>

\* One turn of its loop: at list_end it returns NULL; otherwise it reads
\* l->fd, and on a match returns l or NULL by l->thread_num, else moves to
\* list_next (i).
GetFileInfoStep(p) ==
    /\ pc[p] = "lookup"
    /\ \/ /\ pc' = [pc EXCEPT ![p] = "live"]   \* at list_end, or on a match
          /\ UNCHANGED e
       \/ /\ e[p] # Tail
          /\ e' = [e EXCEPT ![p] = next[e[p]]]
          /\ UNCHANGED pc
    /\ UNCHANGED <<next, prev, owner, live, used, fdp>>

Next ==
    \E p \in Procs :
        \/ GetFileInfoBegin(p)
        \/ GetFileInfoStep(p)
        \/ \E n \in Nodes : AddFileList(p, n)
        \/ ExitBegin(p)
        \/ LoopTest(p)
        \/ CloseStep(p)
        \/ RemoveStep(p)
        \/ FreeStep(p)
        \/ NextStep(p)

Spec == Init /\ [][Next]_vars

-----------------------------------------------------------------------------
(* Properties.                                                             *)

\* The walks of file_list only read records that are still allocated:
\* whenever the close loop of thread_exit or get_file_info is about to read
\* the block its cursor points to (fd->thread_num or l->fd, and the next
\* pointer in list_next), that block has not been freed, by this process or
\* by another one exiting at the same time.
CursorNotFreed ==
    \A p \in Procs :
        pc[p] \in {"test", "next", "lookup"} /\ e[p] \in Nodes => e[p] \in live

====
