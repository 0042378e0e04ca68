------------------------------ MODULE Scheduler ------------------------------
(***************************************************************************)
(* Kernel threads: start-up, thread_create(), scheduler_set_ready() and    *)
(* the timer interrupt that calls schedule(), on one processor.            *)
(*                                                                         *)
(* The boot code of roentgenium_main() is what runs, on its own stack, as  *)
(* the thread Idle: threading_setup() makes Idle the current thread and    *)
(* the boot code is never left other than by a timer interrupt.  It makes  *)
(* the threads BootThreads one after the other; those in Masked are made   *)
(* by a caller that has turned interrupts off around the calls, the way    *)
(* test_kernel_threads() does.                                             *)
(*                                                                         *)
(* Interrupt gates turn interrupts off, so a whole timer interrupt is one  *)
(* step; it may fall between any two stores of the boot code that runs     *)
(* with interrupts on.  Contexts follow `current`: schedule() switches the *)
(* processor to exactly the thread it has just made current.               *)
(***************************************************************************)
EXTENDS TailQueue, FiniteSets

CONSTANTS Idle,         \* the thread declared by threading_setup()
          BootThreads,  \* the threads the boot code makes, in order
          Masked,       \* those of them made with interrupts turned off
          ReadyQ,       \* &ready_threads_queue
          KernelQ       \* &kernel_threads

Boots  == {BootThreads[i] : i \in DOMAIN BootThreads}
Thread == Boots \cup {Idle}
Queues == {ReadyQ, KernelQ}

ASSUME SchedulerAssumption ==
  /\ BootThreads \in Seq(Boots)
  /\ BootThreads # <<>>
  /\ \A i, j \in DOMAIN BootThreads : BootThreads[i] = BootThreads[j] => i = j
  /\ Idle \notin Boots
  /\ Masked \subseteq Boots
  /\ ReadyQ # KernelQ
  /\ Thread \cap Queues = {}
  /\ NULL \notin Thread \cup Queues

VARIABLES
  links,     \* the links of the two queues
  state,     \* thr->state; "NONE" for memory that is not a thread yet
  current,   \* g_current_thread
  intr,      \* the interrupt flag of the processor
  pc,        \* what the boot code executes next
  k,         \* which of BootThreads it is making
  addr,      \* the register the third store of TAILQ_INSERT_TAIL goes through
  made,      \* history: the threads put on kernel_threads, in order
  halted     \* an assert() failed: cli, then hlt for ever

bootVars == <<pc, k, addr, made>>
vars     == <<links, state, current, intr, bootVars, halted>>

States == {"NONE", "CREATED", "READY", "RUNNING", "BLOCKED", "ZOMBIE"}

Init ==
  /\ links = ZeroLinks(Thread, Queues)
  /\ state = [t \in Thread |-> "NONE"]
  /\ current = NULL
  /\ intr = FALSE
  /\ pc = "threading_setup"
  /\ k = 1
  /\ addr = NULL
  /\ made = <<>>
  /\ halted = FALSE

(* The boot code only moves while its thread has the processor. *)
BootAt(label) == pc = label /\ current \in {NULL, Idle} /\ ~halted

(* The thread that is being made. *)
T == BootThreads[k]

-----------------------------------------------------------------------------
(* threading_setup(), with interrupts off: thread_create("idle") puts Idle *)
(* on kernel_threads and on a ready queue whose head nobody has set up, so *)
(* the store through tqh_last goes to address 0; then Idle is current.     *)
ThreadingSetup ==
  /\ BootAt("threading_setup")
  /\ LET listed == InsertTail(InitHead(links, KernelQ), KernelQ, Idle)
     IN  links' = InsertTail(listed, ReadyQ, Idle)
  /\ state' = [state EXCEPT ![Idle] = "RUNNING"]
  /\ current' = Idle
  /\ pc' = "scheduler_setup"
  /\ UNCHANGED <<intr, k, addr, made, halted>>

(* Mutant: tqh_first is cleared, tqh_last is not. *)
SchedulerSetup_HalfInit ==
  /\ BootAt("scheduler_setup")
  /\ links' = [links EXCEPT !.next[ReadyQ] = NULL]
  /\ intr' = TRUE
  /\ pc' = "create"
  /\ UNCHANGED <<state, current, k, addr, made, halted>>

(* scheduler_setup() empties the ready queue, with Idle on it; then sti. *)
SchedulerSetup ==
  /\ BootAt("scheduler_setup")
  /\ links' = InitHead(links, ReadyQ)
  /\ intr' = TRUE
  /\ pc' = "create"
  /\ UNCHANGED <<state, current, k, addr, made, halted>>

(* The caller's own X86_IRQs_DISABLE, before the first of the threads it   *)
(* makes with interrupts off, and its X86_IRQs_ENABLE after the last.      *)
MaskedNext == k <= Len(BootThreads) /\ T \in Masked

DisableIRQs ==
  /\ BootAt("create")
  /\ MaskedNext /\ intr
  /\ intr' = FALSE
  /\ UNCHANGED <<links, state, current, bootVars, halted>>

EnableIRQs ==
  /\ BootAt("create")
  /\ ~MaskedNext /\ ~intr
  /\ intr' = TRUE
  /\ UNCHANGED <<links, state, current, bootVars, halted>>

(* Mutant: the caller does not wait for interrupts to be off. *)
CallerReady_Unmasked == k <= Len(BootThreads)

CallerReady == k <= Len(BootThreads) /\ intr = (T \notin Masked)

(* thread_create(): both allocations succeed, the thread is CREATED and    *)
(* its first context is built; nothing else can see it yet.                *)
Allocate ==
  /\ BootAt("create") /\ CallerReady
  /\ state' = [state EXCEPT ![T] = "CREATED"]
  /\ pc' = "link"
  /\ UNCHANGED <<links, current, intr, k, addr, made, halted>>

(* Mutant: the failure path also passes over the next thread. *)
AllocateFails_PassesOver ==
  /\ BootAt("create") /\ CallerReady
  /\ k' = k + 2
  /\ UNCHANGED <<links, state, current, intr, pc, addr, made, halted>>

(* One of the allocations fails: what was allocated is freed, thread_create *)
(* returns NULL and the boot code goes on without the thread.              *)
AllocateFails ==
  /\ BootAt("create") /\ CallerReady
  /\ k' = k + 1
  /\ UNCHANGED <<links, state, current, intr, pc, addr, made, halted>>

(* The insertion in kernel_threads, between X86_IRQs_DISABLE and           *)
(* X86_IRQs_ENABLE, which puts the flag back the way it was.               *)
LinkKernel ==
  /\ BootAt("link")
  /\ links' = InsertTail(links, KernelQ, T)
  /\ made' = Append(made, T)
  /\ pc' = "set_ready"
  /\ UNCHANGED <<state, current, intr, k, addr, halted>>

(* scheduler_set_ready() and add_in_ready_queue(): the state first, ...    *)
SetReady ==
  /\ BootAt("set_ready")
  /\ state' = [state EXCEPT ![T] = "READY"]
  /\ pc' = "clear_next"
  /\ UNCHANGED <<links, current, intr, k, addr, made, halted>>

(* ... then TAILQ_INSERT_TAIL, store by store, with interrupts as they are. *)
InsClearNext ==
  /\ BootAt("clear_next")
  /\ links' = ClearNext(links, T)
  /\ pc' = "set_prev"
  /\ UNCHANGED <<state, current, intr, k, addr, made, halted>>

(* Mutant: tqe_prev is not written. *)
InsSetPrev_Skipped ==
  /\ BootAt("set_prev")
  /\ pc' = "load_last"
  /\ UNCHANGED <<links, state, current, intr, k, addr, made, halted>>

InsSetPrev ==
  /\ BootAt("set_prev")
  /\ links' = SetPrev(links, ReadyQ, T)
  /\ pc' = "load_last"
  /\ UNCHANGED <<state, current, intr, k, addr, made, halted>>

InsLoadLast ==
  /\ BootAt("load_last")
  /\ addr' = links.last[ReadyQ]
  /\ pc' = "store"
  /\ UNCHANGED <<links, state, current, intr, k, made, halted>>

InsStore ==
  /\ BootAt("store")
  /\ links' = StoreAt(links, addr, T)
  /\ pc' = "set_last"
  /\ UNCHANGED <<state, current, intr, k, addr, made, halted>>

(* Mutant: tqh_last is left pointing at the former last element. *)
InsSetLast_Stale ==
  /\ BootAt("set_last")
  /\ addr' = NULL
  /\ k' = k + 1
  /\ pc' = "create"
  /\ UNCHANGED <<links, state, current, intr, made, halted>>

InsSetLast ==
  /\ BootAt("set_last")
  /\ links' = SetLast(links, ReadyQ, T)
  /\ addr' = NULL    \* the register is dead
  /\ k' = k + 1
  /\ pc' = "create"
  /\ UNCHANGED <<state, current, intr, made, halted>>

(* roentgenium_main() returns into the hlt loop of multiboot_entry. *)
Return ==
  /\ BootAt("create")
  /\ k > Len(BootThreads) /\ intr
  /\ pc' = "hang"
  /\ UNCHANGED <<links, state, current, intr, k, addr, made, halted>>

BootStep ==
  \/ ThreadingSetup \/ SchedulerSetup \/ DisableIRQs \/ EnableIRQs
  \/ Allocate \/ AllocateFails \/ LinkKernel \/ SetReady
  \/ InsClearNext \/ InsSetPrev \/ InsLoadLast \/ InsStore \/ InsSetLast
  \/ Return

-----------------------------------------------------------------------------
(* schedule().  The current thread goes to the tail of the ready queue     *)
(* (whether or not it is on it already); the thread at the head is taken   *)
(* off, put back at the tail, and made current.                            *)
Preempted  == state[current] # "BLOCKED"
Requeued   == IF Preempted THEN InsertTail(links, ReadyQ, current) ELSE links
StateAfter == IF Preempted THEN [state EXCEPT ![current] = "READY"] ELSE state
NextThread == First(Requeued, ReadyQ)
Rotated    == InsertTail(Remove(Requeued, ReadyQ, NextThread), ReadyQ, NextThread)

(* The asserts of thread_get_current(), schedule() and thread_set_current(). *)
AssertsHold ==
  /\ state[current] = "RUNNING"
  /\ NextThread # NULL
  /\ StateAfter[NextThread] = "READY"

(* Mutant: the state of the preempted thread is not written back. *)
Tick_Unmarked ==
  /\ intr /\ ~halted /\ current # NULL
  /\ halted' = ~AssertsHold
  /\ IF AssertsHold
     THEN /\ links' = Rotated
          /\ state' = [state EXCEPT ![NextThread] = "RUNNING"]
          /\ current' = NextThread
     ELSE UNCHANGED <<links, state, current>>
  /\ UNCHANGED <<intr, bootVars>>

(* A failed assert stops the machine, so what the handler had stored       *)
(* before it is not kept.                                                  *)
Tick ==
  /\ intr /\ ~halted /\ current # NULL
  /\ halted' = ~AssertsHold
  /\ IF AssertsHold
     THEN /\ links' = Rotated
          /\ state' = [StateAfter EXCEPT ![NextThread] = "RUNNING"]
          /\ current' = NextThread
     ELSE UNCHANGED <<links, state, current>>
  /\ UNCHANGED <<intr, bootVars>>

Next == BootStep \/ Tick

(* Timer interrupts keep coming; and however often the boot code is        *)
(* preempted, it executes instructions each time it gets the processor.    *)
Spec     == Init /\ [][Next]_vars
FairSpec == Spec /\ WF_vars(Tick) /\ SF_vars(BootStep)

(* The schedule the kernel relies on: no timer interrupt between the sti   *)
(* and the insertion of the first thread, nor inside a thread_create().    *)
(* Nothing in the code enforces it.  The boot code has a whole timer       *)
(* period (10 ms from x86_pit_set_frequency(100)) to get there.            *)
QuietTick == Tick /\ (pc = "hang" \/ (pc = "create" /\ made # <<>>))
QuietNext == BootStep \/ QuietTick

QuietSpec     == Init /\ [][QuietNext]_vars
FairQuietSpec == QuietSpec /\ WF_vars(QuietTick) /\ SF_vars(BootStep)

-----------------------------------------------------------------------------
TypeOK ==
  /\ links \in Links(Thread, Queues)
  /\ state \in [Thread -> States]
  /\ current \in Thread \cup {NULL}
  /\ intr \in BOOLEAN
  /\ pc \in {"threading_setup", "scheduler_setup", "create", "link", "set_ready",
             "clear_next", "set_prev", "load_last", "store", "set_last", "hang"}
  /\ k \in 1 .. Len(BootThreads) + 1
  /\ addr \in Cell(Thread, Queues)
  /\ made \in Seq(Boots)
  /\ halted \in BOOLEAN

(* Whatever the interleaving of creations and timer interrupts, the state  *)
(* RUNNING belongs to the current thread and to no other (thread.c:19-25). *)
OneRunning == {t \in Thread : state[t] = "RUNNING"} = {current} \ {NULL}

(* No assert() of the scheduler ever fails (thread.c:21, thread.c:29,      *)
(* scheduler.c:61).                                                        *)
NoAssertionFails == ~halted

(* Between two creations the ready queue, up to the running thread, holds  *)
(* every READY thread, each of them once: although schedule() leaves the   *)
(* running thread on the queue and inserts it a second time, no thread is  *)
(* dropped and none is duplicated (scheduler.c:51-67).                     *)
Waiting == Walk(links, ReadyQ, current, Cardinality(Thread) + 1)

ReadyQueueComplete ==
  pc \in {"create", "hang"} =>
    LET ready == {t \in Thread : state[t] = "READY"}
    IN  /\ {Waiting[i] : i \in DOMAIN Waiting} = ready
        /\ Len(Waiting) = Cardinality(ready)

(* The threads in the order of creation, Idle first, closed into a ring.   *)
Node(i)       == IF i = 0 THEN Idle ELSE made[i]
Successor(i)  == IF i = Len(made) THEN 0 ELSE i + 1

(* A timer interrupt gives the processor to the thread created next after  *)
(* the one that had it, and from the last one back to Idle.                *)
TurnsInOrder ==
  [][Tick => \A i \in 0 .. Len(made) :
               current = Node(i) => current' = Node(Successor(i))]_vars

(* A thread that is ready gets the processor (thread.h:27, "waiting for    *)
(* CPU"; scheduler.c:29, "thread is now really ready to be (re)started").  *)
EveryThreadRuns ==
  \A t \in Thread : state[t] = "READY" ~> state[t] = "RUNNING"

(* The queues implement the first-come first-served line of RoundRobin.    *)
RR == INSTANCE RoundRobin WITH
        Thread <- Boots,
        run    <- IF current = NULL THEN Idle ELSE current,
        wait   <- Waiting

ImplementsRoundRobin == RR!Spec
=============================================================================
