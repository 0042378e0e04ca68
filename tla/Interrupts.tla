------------------------------ MODULE Interrupts ------------------------------
(***************************************************************************)
(* Interrupts on the way from a device to a handler and back: the masks of *)
(* the PIC, the gates of the IDT, the wrappers of irq-stubs.asm, the macros *)
(* X86_IRQs_DISABLE and X86_IRQs_ENABLE, and the timer's handler, which    *)
(* leaves on the stack of another thread (cpu_context_switch).             *)
(*                                                                         *)
(* One line is one of the timer and the keyboard; the lower number has the *)
(* higher priority.  Which thread schedule() takes is left open: Scheduler *)
(* has the queues.  An instruction that is not listed changes nothing that *)
(* is modelled here, and a pending interrupt may be taken before any step. *)
(***************************************************************************)
EXTENDS Integers, Sequences, FiniteSets, SequencesExt

CONSTANTS
  Thread,     \* the threads
  Boot,       \* the one that runs from the start, roentgenium_main()
  Callers,    \* the threads that call thread_create() or the like
  MaxDepth    \* bound: how deep critical sections are nested

ASSUME InterruptsAssumption ==
  /\ Boot \in Callers
  /\ Callers \subseteq Thread
  /\ MaxDepth \in Nat \ {0}

Timer == 0
Keyboard == 1
Lines == {Timer, Keyboard}
Bit == {0, 1}

VARIABLES
  irr, isr, imr,  \* the PIC: lines requested, in service, masked
  gate,           \* the lines with a gate in the IDT and a routine
  intr,           \* the interrupt flag, 1 or 0
  cpu,            \* the thread on whose stack the processor is
  current,        \* g_current_thread
  code,           \* where the own code of each thread is
  flags,          \* the locals `flags` of its open critical sections
  frames,         \* the interrupts it is inside of, the innermost last
  ctx,            \* eflags.IF in thr->cpu_state
  stage,          \* how far roentgenium_main() is
  halted          \* an exception: its handler never returns

pic   == <<irr, isr, imr>>
stack == <<code, flags, frames>>
vars  == <<pic, gate, intr, cpu, current, stack, ctx, stage, halted>>

(* Mutant: no line is masked. *)
ClosedAtSetup_None == {}

(* x86_pic_setup(): every line is masked (the cascade apart). *)
ClosedAtSetup == Lines

Init ==
  /\ irr = {} /\ isr = {} /\ imr = ClosedAtSetup
  /\ gate = {}
  /\ intr = 0
  /\ cpu = Boot /\ current = Boot
  /\ code = [t \in Thread |-> IF t = Boot THEN "run" ELSE "none"]
  /\ flags = [t \in Thread |-> <<>>]
  /\ frames = [t \in Thread |-> <<>>]
  /\ ctx = [t \in Thread |-> 0]
  /\ stage = "timer"
  /\ halted = FALSE

-----------------------------------------------------------------------------
(* The devices: a line is requested, again or for the first time. *)
Raise(l) ==
  /\ l \notin irr
  /\ irr' = irr \cup {l}
  /\ UNCHANGED <<isr, imr, gate, intr, cpu, current, stack, ctx, stage, halted>>

(* The lines the PIC would pass on: not masked, and of a higher priority   *)
(* than any in service.                                                    *)
Offered == {l \in irr \ imr : \A s \in isr : l < s}

(* Mutant: the gate's offset is that of the next wrapper. *)
Frame_NextWrapper(l) == [line |-> l + 1, at |-> "entry", flags |-> 0, next |-> Boot]

(* What an interrupt leaves on the stack: which wrapper runs, where it is, *)
(* and the locals of the handler.  eflags had IF set, or it could not have *)
(* been taken.                                                             *)
Frame(l) == [line |-> l, at |-> "entry", flags |-> 0, next |-> Boot]

(* The processor takes an interrupt: through an interrupt gate, which      *)
(* clears IF, or, if the gate is not present, into an exception.           *)
Deliver ==
  \E l \in Offered :
    /\ intr = 1 /\ ~halted
    /\ \A m \in Offered : l <= m
    /\ irr' = irr \ {l}
    /\ isr' = isr \cup {l}
    /\ intr' = 0
    /\ IF l \in gate
       THEN frames' = [frames EXCEPT ![cpu] = Append(@, Frame(l))] /\ UNCHANGED halted
       ELSE halted' = TRUE /\ UNCHANGED frames
    /\ UNCHANGED <<imr, gate, cpu, current, code, flags, ctx, stage>>

Top == frames[cpu][Len(frames[cpu])]

InHandler(at) == ~halted /\ frames[cpu] # <<>> /\ Top.at = at

Goto(f) == frames' = [frames EXCEPT ![cpu][Len(frames[cpu])] = f]

(* Mutant: the wrapper sends its EOI after the handler. *)
Acknowledged_Late(at) ==
  IF at = "iret" THEN {s \in isr : \E m \in isr : m < s} ELSE isr

(* What is in service after the wrapper's code at this point: EOI, without *)
(* a line number, ends the highest priority, and is sent on entry.         *)
Acknowledged(at) ==
  IF at = "entry" THEN {s \in isr : \E m \in isr : m < s} ELSE isr

(* X86_IRQ_WRAPPER up to the call: EOI first, then the handler. *)
Enter ==
  /\ InHandler("entry")
  /\ isr' = Acknowledged("entry")
  /\ Goto([Top EXCEPT !.at = IF Top.line = Timer THEN "disable" ELSE "iret"])
  /\ UNCHANGED <<irr, imr, gate, intr, cpu, current, code, flags, ctx, stage, halted>>

(* timer_interrupt_handler(): X86_IRQs_DISABLE, ... *)
HandlerDisable ==
  /\ InHandler("disable")
  /\ Goto([Top EXCEPT !.flags = intr, !.at = "schedule"])
  /\ intr' = 0
  /\ UNCHANGED <<pic, gate, cpu, current, code, flags, ctx, stage, halted>>

(* Mutant: schedule() does not call thread_set_current(). *)
Choose_NotStored ==
  /\ InHandler("schedule")
  /\ \E t \in Thread :
       /\ code[t] # "none"
       /\ Goto([Top EXCEPT !.next = t, !.at = IF t = cpu THEN "enable" ELSE "switch"])
       /\ UNCHANGED current
  /\ UNCHANGED <<pic, gate, intr, cpu, code, flags, ctx, stage, halted>>

(* ... schedule() takes a thread and makes it current, ... *)
Choose ==
  /\ InHandler("schedule")
  /\ \E t \in Thread :
       /\ code[t] # "none"
       /\ Goto([Top EXCEPT !.next = t, !.at = IF t = cpu THEN "enable" ELSE "switch"])
       /\ current' = t
  /\ UNCHANGED <<pic, gate, intr, cpu, code, flags, ctx, stage, halted>>

(* ... cpu_context_switch() saves eflags with the rest, goes to the other  *)
(* stack and takes eflags from there, ...                                  *)
Switch ==
  /\ InHandler("switch")
  /\ ctx' = [ctx EXCEPT ![cpu] = intr]
  /\ Goto([Top EXCEPT !.at = "enable"])
  /\ cpu' = Top.next
  /\ intr' = ctx[Top.next]
  /\ UNCHANGED <<pic, gate, current, code, flags, stage, halted>>

(* Mutant: the handler ends its critical section with sti. *)
HandlerEnable_Sti ==
  /\ InHandler("enable")
  /\ intr' = 1
  /\ Goto([Top EXCEPT !.at = "iret"])
  /\ UNCHANGED <<pic, gate, cpu, current, code, flags, ctx, stage, halted>>

(* ... and X86_IRQs_ENABLE, when the thread is back. *)
HandlerEnable ==
  /\ InHandler("enable")
  /\ intr' = Top.flags
  /\ Goto([Top EXCEPT !.at = "iret"])
  /\ UNCHANGED <<pic, gate, cpu, current, code, flags, ctx, stage, halted>>

(* The end of the wrapper. *)
Iret ==
  /\ InHandler("iret")
  /\ isr' = Acknowledged("iret")
  /\ frames' = [frames EXCEPT ![cpu] = Front(@)]
  /\ intr' = 1
  /\ UNCHANGED <<irr, imr, gate, cpu, current, code, flags, ctx, stage, halted>>

Handler == Enter \/ HandlerDisable \/ Choose \/ Switch \/ HandlerEnable \/ Iret

-----------------------------------------------------------------------------
(* The own code of the thread that has the processor. *)
Own(at) == ~halted /\ frames[cpu] = <<>> /\ code[cpu] = at

(* X86_IRQs_DISABLE: pushfl and popl, ... *)
SaveFlags ==
  /\ Own("run") /\ cpu \in Callers
  /\ Len(flags[cpu]) < MaxDepth
  /\ flags' = [flags EXCEPT ![cpu] = Append(@, intr)]
  /\ code' = [code EXCEPT ![cpu] = "cli"]
  /\ UNCHANGED <<pic, gate, intr, cpu, current, frames, ctx, stage, halted>>

(* ... then cli. *)
Cli ==
  /\ Own("cli")
  /\ intr' = 0
  /\ code' = [code EXCEPT ![cpu] = "run"]
  /\ UNCHANGED <<pic, gate, cpu, current, flags, frames, ctx, stage, halted>>

(* Mutant: interrupts are turned on whatever the flags were. *)
Restore_Sti ==
  /\ Own("run") /\ flags[cpu] # <<>>
  /\ intr' = 1
  /\ flags' = [flags EXCEPT ![cpu] = Front(@)]
  /\ UNCHANGED <<pic, gate, cpu, current, code, frames, ctx, stage, halted>>

(* X86_IRQs_ENABLE *)
Restore ==
  /\ Own("run") /\ flags[cpu] # <<>>
  /\ intr' = Last(flags[cpu])
  /\ flags' = [flags EXCEPT ![cpu] = Front(@)]
  /\ UNCHANGED <<pic, gate, cpu, current, code, frames, ctx, stage, halted>>

(* x86_irq_set_routine(), in its critical section: the routine and the     *)
(* gate are set and the line is opened.  The timer's comes before the sti, *)
(* the keyboard's after it.  No caller sets a routine to NULL.             *)
SetRoutine(l, from, to) ==
  /\ Own("run") /\ cpu = Boot /\ flags[Boot] # <<>>
  /\ stage = from
  /\ stage' = to
  /\ gate' = gate \cup {l}
  /\ imr' = imr \ {l}
  /\ UNCHANGED <<irr, isr, intr, cpu, current, stack, ctx, halted>>

(* roentgenium_main() turns interrupts on. *)
Sti ==
  /\ Own("run") /\ cpu = Boot /\ flags[Boot] = <<>>
  /\ stage = "sti"
  /\ stage' = "keyboard"
  /\ intr' = 1
  /\ UNCHANGED <<pic, gate, cpu, current, stack, ctx, halted>>

(* Mutant: the first eflags of a thread have IF clear. *)
FreshFlags_Off == 0

(* cpu_kstate_init(): "the newly created context is initially interruptible". *)
FreshFlags == 1

(* thread_create() has made a thread that schedule() may take. *)
Create(t) ==
  /\ Own("run") /\ cpu \in Callers
  /\ stage = "threads"
  /\ code[t] = "none"
  /\ code' = [code EXCEPT ![t] = "run"]
  /\ ctx' = [ctx EXCEPT ![t] = FreshFlags]
  /\ UNCHANGED <<pic, gate, intr, cpu, current, flags, frames, stage, halted>>

OwnCode ==
  \/ SaveFlags \/ Cli \/ Restore
  \/ SetRoutine(Timer, "timer", "sti") \/ Sti
  \/ SetRoutine(Keyboard, "keyboard", "threads")
  \/ \E t \in Thread : Create(t)

Next == (\E l \in Lines : Raise(l)) \/ Deliver \/ Handler \/ OwnCode

Spec == Init /\ [][Next]_vars

(* The timer goes on requesting; handlers and the boot code go on; a       *)
(* critical section that is not inside another ends; and an interrupt that *)
(* is offered again and again while IF is set is taken (the processor      *)
(* looks at every instruction boundary).                                   *)
OutermostEnds(t) == cpu = t /\ Len(flags[t]) = 1 /\ Restore

FairSpec ==
  /\ Spec
  /\ WF_vars(Raise(Timer)) /\ SF_vars(Deliver) /\ WF_vars(Handler)
  /\ \A t \in Callers : /\ SF_vars(cpu = t /\ Cli)
                        /\ SF_vars(cpu = t /\ Restore) /\ SF_vars(OutermostEnds(t))

-----------------------------------------------------------------------------
FrameType == [line : Lines, at : {"entry", "disable", "schedule", "switch", "enable", "iret"},
              flags : Bit, next : Thread]

TypeOK ==
  /\ irr \subseteq Lines /\ isr \subseteq Lines /\ imr \subseteq Lines
  /\ gate \subseteq Lines
  /\ intr \in Bit
  /\ cpu \in Thread /\ current \in Thread
  /\ code \in [Thread -> {"none", "run", "cli"}]
  /\ flags \in [Thread -> Seq(Bit)]
  /\ frames \in [Thread -> Seq(FrameType)]
  /\ ctx \in [Thread -> Bit]
  /\ stage \in {"timer", "sti", "keyboard", "threads"}
  /\ halted \in BOOLEAN

(* Interrupts do not pile up: no stack ever holds two interrupt frames,    *)
(* although the wrappers acknowledge an interrupt before they handle it    *)
(* and a timer interrupt is left half-way for another thread               *)
(* (irq-stubs.asm:60-68, pit.c:87-89).                                     *)
OneFrame == \A t \in Thread : Len(frames[t]) <= 1

(* roentgenium_main() has turned interrupts on. *)
Started == stage \in {"keyboard", "threads"}

(* How many critical sections a thread is inside of; one that has read the *)
(* flags but not executed cli is not inside yet.                           *)
Inside(t) == Len(flags[t]) - (IF code[t] = "cli" THEN 1 ELSE 0)

(* Nested or not, a critical section belongs to the thread that has the    *)
(* processor: no other thread is inside of one (irq.h:33-37).              *)
NotPreemptedInside == \A t \in Thread : t # cpu => Inside(t) = 0

(* Outside of critical sections and handlers every thread is interruptible *)
(* once the kernel has started: sections and switches put IF back the way  *)
(* it was, and a new thread starts with it set (cpu-context.c:98).         *)
Interruptible ==
  ~halted /\ Started /\ frames[cpu] = <<>> /\ Inside(cpu) = 0
    => intr = 1

(* The processor is on the stack of the thread that the kernel takes for   *)
(* the current one, except on the way to the switch; a thread that comes   *)
(* back finds itself current (the assert of scheduler.c:74).               *)
ContextFollowsCurrent == InHandler("switch") \/ cpu = current

(* An interrupt that is taken finds its gate (irq.c:52-55: a line is open  *)
(* only when it has a routine).                                            *)
NoMissingGate == ~halted

(* A timer interrupt that is pending is taken in the end: no thread and no *)
(* handler, left half-way or not, keeps the timer out for good.            *)
TimerServed ==
  Started /\ Timer \in irr ~> Timer \notin irr
=============================================================================
