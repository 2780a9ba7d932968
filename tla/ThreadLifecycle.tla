--------------------------- MODULE ThreadLifecycle ---------------------------
(* What the Pintos scheduler core promises about thread lifecycles (spec   *)
(* sections 3 and 4.1), without queues, priorities or locks.  A step is    *)
(* one section of kernel code run with interrupts masked: in it, pages may *)
(* become new READY threads, BLOCKED threads may be woken, and the running *)
(* thread may give up the CPU (to READY, BLOCKED or DYING) to a READY      *)
(* thread, or to idle when no other thread is READY.  A dying thread's     *)
(* page is reclaimed by the switch away from it, never earlier, and the    *)
(* initial thread's page, which was never allocated, is never reclaimed.   *)
EXTENDS FiniteSets

CONSTANTS Threads, Main, Idle

VARIABLES status, running

lifeVars == <<status, running>>

Init ==
    /\ status = [t \in Threads |-> CASE t = Main -> "RUNNING"
                                     [] t = Idle -> "BLOCKED"
                                     [] OTHER    -> "FREE"]
    /\ running = Main

\* The status a section leaves: BORN new, WOKEN woken, the running thread
\* moved to OUT ("RUNNING" if it keeps the CPU) and NEXT running.
After(born, woken, out, next) ==
    [t \in Threads |->
        CASE t = next -> "RUNNING"
          [] t = running -> IF out = "DYING" /\ t # Main THEN "FREE" ELSE out
          [] t \in born \cup woken -> "READY"
          [] OTHER -> status[t]]

\* One masked section of the kernel.
Section(born, woken, out, next) ==
    LET ready == {t \in Threads \ {Idle} :
                    status[t] = "READY" \/ t \in born \cup woken
                    \/ (t = running /\ out = "READY")}
    IN  /\ born \subseteq {t \in Threads : status[t] = "FREE"}
        /\ woken \subseteq {t \in Threads \ {Idle} : status[t] = "BLOCKED"}
        /\ IF out = "RUNNING"
           THEN next = running
           ELSE /\ next \in ready \cup {Idle}
                /\ next = Idle => ready = {}
        /\ status' = After(born, woken, out, next)
        /\ running' = next

Next ==
    \E born \in SUBSET {t \in Threads : status[t] = "FREE"},
       woken \in SUBSET {t \in Threads \ {Idle} : status[t] = "BLOCKED"},
       next \in Threads,
       out \in {"RUNNING", "READY", "BLOCKED", "DYING"} :
        Section(born, woken, out, next)

Spec == Init /\ [][Next]_lifeVars

=============================================================================
