--------------------------- MODULE InterruptsProofs ---------------------------
(***************************************************************************)
(* Proofs about Interrupts for any threads and any depth of nesting: the   *)
(* stacks, the interrupt flag and the critical sections of all threads     *)
(* stay consistent through every preemption.                               *)
(***************************************************************************)
EXTENDS Interrupts, TLAPS

(* The first of the nested sections has found IF set, once the kernel has  *)
(* started, and the inner ones have found it clear.                        *)
Saved(i) == IF Started /\ i = 1 THEN 1 ELSE 0

CodeInv ==
  \A t \in Thread :
    /\ \A i \in 1 .. Len(flags[t]) : flags[t][i] = Saved(i)
    /\ code[t] = "none" => flags[t] = <<>> /\ frames[t] = <<>>
    /\ code[t] = "cli" => Len(flags[t]) > 0

EarlyInv ==
  /\ code[cpu] # "none"
  /\ ~Started => cpu = Boot /\ \A t \in Thread : t # Boot => code[t] = "none"

(* The thread that has the processor, in its own code ... *)
OwnInv ==
  frames[cpu] = <<>> =>
    /\ intr = IF Started /\ Inside(cpu) = 0 THEN 1 ELSE 0
    /\ current = cpu

(* ... or in the handler. *)
HandlerInv ==
  frames[cpu] # <<>> =>
    /\ Started /\ intr = 0
    /\ Len(frames[cpu]) = 1 /\ Inside(cpu) = 0
    /\ frames[cpu][1].flags = 0
    /\ frames[cpu][1].at # "switch" => current = cpu
    /\ frames[cpu][1].at = "switch" =>
         LET next == frames[cpu][1].next
         IN  next = current /\ next # cpu /\ code[next] # "none"

(* A thread that does not have it: new, or left in the timer's handler.    *)
AwayInv ==
  \A t \in Thread : t # cpu /\ code[t] # "none" =>
    /\ Inside(t) = 0
    /\ \/ frames[t] = <<>> /\ ctx[t] = 1
       \/ /\ Len(frames[t]) = 1 /\ ctx[t] = 0
          /\ frames[t][1].at = "enable" /\ frames[t][1].flags = 0

GateInv == ~halted /\ Lines \ imr \subseteq gate

Inv == TypeOK /\ CodeInv /\ EarlyInv /\ OwnInv /\ HandlerInv /\ AwayInv /\ GateInv

-----------------------------------------------------------------------------
LEMMA FrontElements ==
  ASSUME NEW S, NEW s \in Seq(S), s # <<>>
  PROVE  /\ Front(s) \in Seq(S)
         /\ Len(s) > 0
         /\ Len(Front(s)) = Len(s) - 1
         /\ \A i \in 1 .. Len(s) - 1 : Front(s)[i] = s[i]
<1>1. Len(s) \in Nat /\ Len(s) > 0 /\ \A i \in 1 .. Len(s) : s[i] \in S
  OBVIOUS
<1>2. Front(s) = [i \in 1 .. Len(s) - 1 |-> s[i]]
  BY <1>1 DEF Front
<1> QED
  BY <1>1, <1>2

LEMMA AppendElements ==
  ASSUME NEW S, NEW s \in Seq(S), NEW x \in S
  PROVE  /\ Append(s, x) \in Seq(S) /\ Len(s) \in Nat
         /\ Len(Append(s, x)) = Len(s) + 1
         /\ \A i \in 1 .. Len(s) : Append(s, x)[i] = s[i]
         /\ Append(s, x)[Len(s) + 1] = x
OBVIOUS

(* The innermost frame of a thread that is in the handler is its only one. *)
LEMMA TopFrame ==
  ASSUME Inv, frames[cpu] # <<>>
  PROVE  /\ Top = frames[cpu][1] /\ Top \in FrameType
         /\ Len(frames[cpu]) = 1 /\ frames[cpu] \in Seq(FrameType)
         /\ cpu \in Thread
<1>1. Len(frames[cpu]) = 1 /\ frames[cpu] \in Seq(FrameType) /\ cpu \in Thread
  BY DEF Inv, HandlerInv, TypeOK
<1> QED
  BY <1>1 DEF Top

(* A step of the handler replaces that frame and nothing else. *)
LEMMA GotoEffect ==
  ASSUME Inv, frames[cpu] # <<>>, NEW f \in FrameType, Goto(f)
  PROVE  /\ frames' \in [Thread -> Seq(FrameType)]
         /\ \A t \in Thread : t # cpu => frames'[t] = frames[t]
         /\ frames'[cpu] # <<>> /\ Len(frames'[cpu]) = 1 /\ frames'[cpu][1] = f
<1>1. /\ Len(frames[cpu]) = 1 /\ frames[cpu] \in Seq(FrameType) /\ cpu \in Thread
      /\ frames \in [Thread -> Seq(FrameType)]
  BY TopFrame DEF Inv, TypeOK
<1> DEFINE s == [frames[cpu] EXCEPT ![1] = f]
<1>2. s \in Seq(FrameType) /\ Len(s) = 1 /\ s[1] = f /\ s # <<>>
  BY <1>1
<1>3. frames' = [frames EXCEPT ![cpu] = s]
  BY <1>1 DEF Goto
<1> HIDE DEF s
<1> QED
  BY <1>1, <1>2, <1>3

-----------------------------------------------------------------------------
THEOREM InitCorrect == Init => Inv
<1> SUFFICES ASSUME Init PROVE Inv
  OBVIOUS
<1> USE InterruptsAssumption
<1>1. TypeOK
  <2>1. Boot \in Thread /\ <<>> \in Seq(Bit) /\ <<>> \in Seq(FrameType)
    OBVIOUS
  <2>2. flags \in [Thread -> Seq(Bit)] /\ frames \in [Thread -> Seq(FrameType)]
    BY <2>1 DEF Init
  <2>3. code \in [Thread -> {"none", "run", "cli"}] /\ ctx \in [Thread -> Bit]
    BY DEF Init, Bit
  <2> QED
    BY <2>1, <2>2, <2>3 DEF Init, TypeOK, ClosedAtSetup, Bit
<1>2. \A t \in Thread : flags[t] = <<>> /\ frames[t] = <<>> /\ Inside(t) = 0
  BY DEF Init, Inside
<1>3. CodeInv /\ EarlyInv
  <2>1. \A t \in Thread : Len(flags[t]) = 0 /\ code[t] # "cli"
    BY <1>2 DEF Init
  <2> QED
    BY <1>2, <2>1 DEF Init, CodeInv, EarlyInv, Started
<1>4. OwnInv /\ HandlerInv /\ AwayInv
  BY <1>2 DEF Init, OwnInv, HandlerInv, AwayInv, Started
<1>5. GateInv
  BY DEF Init, GateInv, ClosedAtSetup
<1> QED
  BY <1>1, <1>3, <1>4, <1>5 DEF Inv

LEMMA RaiseCorrect ==
  ASSUME Inv, NEW l \in Lines, Raise(l)
  PROVE  Inv'
<1> USE DEF Raise, stack
<1>1. TypeOK'
  BY DEF Inv, TypeOK
<1>2. \A t \in Thread : (Inside(t))' = Inside(t)
  BY DEF Inside
<1>3. CodeInv' /\ EarlyInv'
  BY DEF Inv, CodeInv, EarlyInv, Started, Saved
<1>4. OwnInv' /\ HandlerInv' /\ AwayInv' /\ GateInv'
  BY <1>2 DEF Inv, TypeOK, OwnInv, HandlerInv, AwayInv, GateInv, Started
<1> QED
  BY <1>1, <1>3, <1>4 DEF Inv

(* An interrupt is only taken outside of handlers and critical sections.   *)
LEMMA DeliverCorrect ==
  ASSUME Inv, Deliver
  PROVE  Inv'
<1>1. PICK l \in Offered :
        /\ intr = 1 /\ ~halted /\ irr' = irr \ {l} /\ isr' = isr \cup {l} /\ intr' = 0
        /\ IF l \in gate
           THEN frames' = [frames EXCEPT ![cpu] = Append(@, Frame(l))] /\ UNCHANGED halted
           ELSE halted' = TRUE /\ UNCHANGED frames
        /\ UNCHANGED <<imr, gate, cpu, current, code, flags, ctx, stage>>
  BY DEF Deliver
<1>2. /\ l \in Lines /\ l \in gate
      /\ cpu \in Thread /\ current \in Thread /\ Boot \in Thread
      /\ frames \in [Thread -> Seq(FrameType)]
  BY <1>1, InterruptsAssumption DEF Inv, TypeOK, GateInv, Offered
<1>3. /\ frames[cpu] = <<>> /\ current = cpu /\ Started /\ Inside(cpu) = 0
  BY <1>1 DEF Inv, HandlerInv, OwnInv
<1>4. Frame(l) \in FrameType /\ Frame(l).flags = 0 /\ Frame(l).at = "entry"
  BY <1>2 DEF Frame, FrameType, Bit
<1> DEFINE s == Append(<<>>, Frame(l))
<1>5. s \in Seq(FrameType) /\ Len(s) = 1 /\ s[1] = Frame(l) /\ s # <<>>
  BY <1>4
<1>6. frames' = [frames EXCEPT ![cpu] = s]
  BY <1>1, <1>2, <1>3
<1> HIDE DEF s
<1>7. /\ frames' \in [Thread -> Seq(FrameType)]
      /\ \A t \in Thread : t # cpu => frames'[t] = frames[t]
      /\ frames'[cpu] = s
  BY <1>2, <1>5, <1>6
<1>8. TypeOK'
  BY <1>1, <1>2, <1>7 DEF Inv, TypeOK, Bit
<1>9. (\A t \in Thread : (Inside(t))' = Inside(t)) /\ Started'
  BY <1>1, <1>3 DEF Inside, Started
<1>10. CodeInv' /\ EarlyInv'
  BY <1>1, <1>2, <1>7 DEF Inv, CodeInv, EarlyInv, Started, Saved
<1>11. OwnInv' /\ HandlerInv'
  BY <1>1, <1>2, <1>3, <1>4, <1>5, <1>7, <1>9 DEF OwnInv, HandlerInv
<1>12. AwayInv' /\ GateInv'
  BY <1>1, <1>2, <1>7, <1>9 DEF Inv, AwayInv, GateInv
<1> QED
  BY <1>8, <1>10, <1>11, <1>12 DEF Inv

(* The steps of the handler that stay on the stack they are on. *)
LEMMA StayCorrect ==
  ASSUME Inv, frames[cpu] # <<>>, NEW f \in FrameType, Goto(f),
         f.flags = 0, intr' = 0, isr' \subseteq Lines,
         current' \in Thread,
         IF f.at = "switch"
         THEN f.next = current' /\ f.next # cpu /\ code[f.next] # "none"
         ELSE current' = cpu,
         UNCHANGED <<irr, imr, gate, cpu, code, flags, ctx, stage, halted>>
  PROVE  Inv'
<1>1. cpu \in Thread
  BY DEF Inv, TypeOK
<1>2. /\ frames' \in [Thread -> Seq(FrameType)]
      /\ \A t \in Thread : t # cpu => frames'[t] = frames[t]
      /\ frames'[cpu] # <<>> /\ Len(frames'[cpu]) = 1 /\ frames'[cpu][1] = f
  BY GotoEffect
<1>3. TypeOK'
  BY <1>2 DEF Inv, TypeOK, Bit
<1>4. Started /\ Inside(cpu) = 0 /\ code[cpu] # "none"
  BY DEF Inv, HandlerInv, EarlyInv
<1>5. (\A t \in Thread : (Inside(t))' = Inside(t)) /\ Started'
  BY <1>4 DEF Inside, Started
<1>6. CodeInv' /\ EarlyInv'
  BY <1>1, <1>2, <1>4 DEF Inv, CodeInv, EarlyInv, Started, Saved
<1>7. OwnInv' /\ HandlerInv'
  BY <1>1, <1>2, <1>4, <1>5 DEF OwnInv, HandlerInv
<1>8. AwayInv' /\ GateInv'
  BY <1>1, <1>2, <1>5 DEF Inv, AwayInv, GateInv
<1> QED
  BY <1>3, <1>6, <1>7, <1>8 DEF Inv

LEMMA EnterCorrect ==
  ASSUME Inv, Enter
  PROVE  Inv'
<1>1. frames[cpu] # <<>> /\ Top.at = "entry"
  BY DEF Enter, InHandler
<1>2. /\ Top = frames[cpu][1] /\ Top \in FrameType
      /\ Top.flags = 0 /\ intr = 0 /\ current = cpu
  BY <1>1, TopFrame DEF Inv, HandlerInv
<1> DEFINE f == [Top EXCEPT !.at = IF Top.line = Timer THEN "disable" ELSE "iret"]
<1>3. f \in FrameType /\ f.flags = 0 /\ f.at # "switch"
  BY <1>2 DEF FrameType
<1>4. Goto(f) /\ isr' \subseteq Lines
  BY DEF Enter, Acknowledged, Inv, TypeOK
<1>5. current' \in Thread /\ current' = cpu /\ intr' = 0
  BY <1>2 DEF Enter, Inv, TypeOK
<1> HIDE DEF f
<1> QED
  BY <1>1, <1>3, <1>4, <1>5, StayCorrect DEF Enter

LEMMA HandlerDisableCorrect ==
  ASSUME Inv, HandlerDisable
  PROVE  Inv'
<1>1. frames[cpu] # <<>> /\ Top.at = "disable"
  BY DEF HandlerDisable, InHandler
<1>2. /\ Top = frames[cpu][1] /\ Top \in FrameType
      /\ Top.flags = 0 /\ intr = 0 /\ current = cpu
  BY <1>1, TopFrame DEF Inv, HandlerInv
<1> DEFINE f == [Top EXCEPT !.flags = intr, !.at = "schedule"]
<1>3. f \in FrameType /\ f.flags = 0 /\ f.at # "switch"
  BY <1>2 DEF FrameType, Bit
<1>4. Goto(f) /\ isr' \subseteq Lines
  BY DEF HandlerDisable, pic, Inv, TypeOK
<1>5. current' \in Thread /\ current' = cpu /\ intr' = 0
  BY <1>2 DEF HandlerDisable, Inv, TypeOK
<1> HIDE DEF f
<1> QED
  BY <1>1, <1>3, <1>4, <1>5, StayCorrect DEF HandlerDisable, pic

LEMMA ChooseCorrect ==
  ASSUME Inv, Choose
  PROVE  Inv'
<1>1. frames[cpu] # <<>> /\ Top.at = "schedule"
  BY DEF Choose, InHandler
<1>2. /\ Top = frames[cpu][1] /\ Top \in FrameType
      /\ Top.flags = 0 /\ intr = 0 /\ current = cpu
  BY <1>1, TopFrame DEF Inv, HandlerInv
<1>3. PICK t \in Thread :
        /\ code[t] # "none"
        /\ Goto([Top EXCEPT !.next = t, !.at = IF t = cpu THEN "enable" ELSE "switch"])
        /\ current' = t
  BY DEF Choose
<1> DEFINE f == [Top EXCEPT !.next = t, !.at = IF t = cpu THEN "enable" ELSE "switch"]
<1>4. /\ f \in FrameType /\ f.flags = 0 /\ f.next = t
      /\ f.at = IF t = cpu THEN "enable" ELSE "switch"
  BY <1>2 DEF FrameType
<1>5. Goto(f) /\ isr' \subseteq Lines /\ intr' = 0
  BY <1>2, <1>3 DEF Choose, pic, Inv, TypeOK
<1> HIDE DEF f
<1> QED
  BY <1>1, <1>3, <1>4, <1>5, StayCorrect DEF Choose, pic

LEMMA HandlerEnableCorrect ==
  ASSUME Inv, HandlerEnable
  PROVE  Inv'
<1>1. frames[cpu] # <<>> /\ Top.at = "enable"
  BY DEF HandlerEnable, InHandler
<1>2. /\ Top = frames[cpu][1] /\ Top \in FrameType
      /\ Top.flags = 0 /\ intr = 0 /\ current = cpu
  BY <1>1, TopFrame DEF Inv, HandlerInv
<1> DEFINE f == [Top EXCEPT !.at = "iret"]
<1>3. f \in FrameType /\ f.flags = 0 /\ f.at # "switch"
  BY <1>2 DEF FrameType
<1>4. Goto(f) /\ isr' \subseteq Lines
  BY DEF HandlerEnable, pic, Inv, TypeOK
<1>5. current' \in Thread /\ current' = cpu /\ intr' = 0
  BY <1>2 DEF HandlerEnable, Inv, TypeOK
<1> HIDE DEF f
<1> QED
  BY <1>1, <1>3, <1>4, <1>5, StayCorrect DEF HandlerEnable, pic

-----------------------------------------------------------------------------
(* cpu_context_switch(): the thread that leaves is left in the handler with *)
(* IF clear; the one that comes back is in its own handler, or is new.     *)
LEMMA SwitchCorrect ==
  ASSUME Inv, Switch
  PROVE  Inv'
<1>1. frames[cpu] # <<>> /\ Top.at = "switch"
  BY DEF Switch, InHandler
<1>2. /\ Top = frames[cpu][1] /\ Top \in FrameType /\ cpu \in Thread
      /\ Top.flags = 0 /\ intr = 0 /\ Started
      /\ Top.next = current /\ current # cpu /\ code[current] # "none"
  BY <1>1, TopFrame DEF Inv, HandlerInv
<1> DEFINE f == [Top EXCEPT !.at = "enable"]
<1>3. f \in FrameType /\ f.flags = 0 /\ f.at = "enable"
  BY <1>2 DEF FrameType
<1>4. Goto(f)
  BY DEF Switch
<1> HIDE DEF f
<1>5. /\ frames' \in [Thread -> Seq(FrameType)]
      /\ \A t \in Thread : t # cpu => frames'[t] = frames[t]
      /\ frames'[cpu] # <<>> /\ Len(frames'[cpu]) = 1 /\ frames'[cpu][1] = f
  BY <1>1, <1>3, <1>4, GotoEffect
<1>6. /\ cpu' = current /\ intr' = ctx[current] /\ ctx' = [ctx EXCEPT ![cpu] = 0]
      /\ UNCHANGED <<pic, gate, current, code, flags, stage, halted>>
  BY <1>2 DEF Switch
<1>7. current \in Thread /\ ctx \in [Thread -> Bit]
  BY DEF Inv, TypeOK
<1>8. TypeOK'
  BY <1>5, <1>6, <1>7 DEF Inv, TypeOK, Bit, pic
<1>9. (\A t \in Thread : (Inside(t))' = Inside(t)) /\ Started'
  BY <1>2, <1>6 DEF Inside, Started
<1>10. CodeInv' /\ EarlyInv'
  BY <1>1, <1>2, <1>5, <1>6 DEF Inv, CodeInv, EarlyInv, Started, Saved
<1>11. /\ Inside(current) = 0 /\ Inside(cpu) = 0 /\ code[cpu] # "none"
       /\ \/ frames[current] = <<>> /\ ctx[current] = 1
          \/ /\ Len(frames[current]) = 1 /\ ctx[current] = 0
             /\ frames[current][1].at = "enable" /\ frames[current][1].flags = 0
  BY <1>1, <1>2, <1>7 DEF Inv, AwayInv, HandlerInv, EarlyInv
<1>12. frames'[current] = frames[current]
  BY <1>2, <1>5, <1>7
<1>13. OwnInv'
  BY <1>6, <1>7, <1>9, <1>11, <1>12 DEF OwnInv
<1>14. HandlerInv'
  BY <1>6, <1>7, <1>9, <1>11, <1>12 DEF HandlerInv
<1>15. AwayInv'
  <2> SUFFICES ASSUME NEW t \in Thread, t # current, code[t] # "none"
               PROVE  /\ (Inside(t))' = 0
                      /\ \/ frames'[t] = <<>> /\ ctx'[t] = 1
                         \/ /\ Len(frames'[t]) = 1 /\ ctx'[t] = 0
                            /\ frames'[t][1].at = "enable" /\ frames'[t][1].flags = 0
    BY <1>6 DEF AwayInv
  <2>1. CASE t = cpu
    BY <2>1, <1>3, <1>5, <1>6, <1>7, <1>9, <1>11
  <2>2. CASE t # cpu
    BY <2>2, <1>5, <1>6, <1>7, <1>9 DEF Inv, AwayInv
  <2> QED
    BY <2>1, <2>2
<1>16. GateInv'
  BY <1>6 DEF Inv, GateInv, pic
<1> QED
  BY <1>8, <1>10, <1>13, <1>14, <1>15, <1>16 DEF Inv

(* The interrupted code goes on with IF set, as it was. *)
LEMMA IretCorrect ==
  ASSUME Inv, Iret
  PROVE  Inv'
<1>1. frames[cpu] # <<>> /\ Top.at = "iret"
  BY DEF Iret, InHandler
<1>2. /\ Top = frames[cpu][1] /\ Len(frames[cpu]) = 1 /\ frames[cpu] \in Seq(FrameType)
      /\ cpu \in Thread /\ current = cpu /\ Started /\ Inside(cpu) = 0
  BY <1>1, TopFrame DEF Inv, HandlerInv
<1>3. Front(frames[cpu]) = <<>> /\ <<>> \in Seq(FrameType)
  <2>1. Front(frames[cpu]) \in Seq(FrameType) /\ Len(Front(frames[cpu])) = 0
    BY <1>1, <1>2, FrontElements
  <2> QED
    BY <2>1
<1>4. frames' = [frames EXCEPT ![cpu] = <<>>] /\ frames \in [Thread -> Seq(FrameType)]
  BY <1>3 DEF Iret, Inv, TypeOK
<1>5. /\ frames' \in [Thread -> Seq(FrameType)] /\ frames'[cpu] = <<>>
      /\ \A t \in Thread : t # cpu => frames'[t] = frames[t]
  BY <1>2, <1>3, <1>4
<1>6. /\ intr' = 1 /\ isr' \subseteq Lines
      /\ UNCHANGED <<irr, imr, gate, cpu, current, code, flags, ctx, stage, halted>>
  BY DEF Iret, Acknowledged, Inv, TypeOK
<1>7. TypeOK'
  BY <1>5, <1>6 DEF Inv, TypeOK, Bit
<1>8. (\A t \in Thread : (Inside(t))' = Inside(t)) /\ Started'
  BY <1>2, <1>6 DEF Inside, Started
<1>9. CodeInv' /\ EarlyInv'
  BY <1>2, <1>5, <1>6 DEF Inv, CodeInv, EarlyInv, Started, Saved
<1>10. OwnInv' /\ HandlerInv'
  BY <1>2, <1>5, <1>6, <1>8 DEF OwnInv, HandlerInv
<1>11. AwayInv' /\ GateInv'
  BY <1>5, <1>6, <1>8 DEF Inv, AwayInv, GateInv
<1> QED
  BY <1>7, <1>9, <1>10, <1>11 DEF Inv

-----------------------------------------------------------------------------
(* The own code of a thread changes its own flags and its own place only.  *)
LEMMA OwnFacts ==
  ASSUME Inv, frames[cpu] = <<>>
  PROVE  /\ cpu \in Thread /\ Boot \in Thread /\ current = cpu /\ code[cpu] # "none"
         /\ flags[cpu] \in Seq(Bit) /\ Len(flags[cpu]) \in Nat
         /\ intr = IF Started /\ Inside(cpu) = 0 THEN 1 ELSE 0
BY InterruptsAssumption DEF Inv, TypeOK, OwnInv, EarlyInv

LEMMA SaveFlagsCorrect ==
  ASSUME Inv, SaveFlags
  PROVE  Inv'
<1>1. /\ frames[cpu] = <<>> /\ code[cpu] = "run"
      /\ flags' = [flags EXCEPT ![cpu] = Append(@, intr)]
      /\ code' = [code EXCEPT ![cpu] = "cli"]
      /\ UNCHANGED <<pic, gate, intr, cpu, current, frames, ctx, stage, halted>>
  BY DEF SaveFlags, Own
<1>2. /\ cpu \in Thread /\ current = cpu
      /\ flags[cpu] \in Seq(Bit) /\ Len(flags[cpu]) \in Nat
      /\ intr = IF Started /\ Inside(cpu) = 0 THEN 1 ELSE 0
  BY <1>1, OwnFacts
<1>3. /\ intr \in Bit /\ flags \in [Thread -> Seq(Bit)]
      /\ code \in [Thread -> {"none", "run", "cli"}]
  BY DEF Inv, TypeOK
<1> DEFINE s == Append(flags[cpu], intr)
<1>4. /\ s \in Seq(Bit) /\ Len(s) = Len(flags[cpu]) + 1
      /\ \A i \in 1 .. Len(flags[cpu]) : s[i] = flags[cpu][i]
      /\ s[Len(flags[cpu]) + 1] = intr
  BY <1>2, <1>3, AppendElements
<1>5. /\ flags' = [flags EXCEPT ![cpu] = s]
  BY <1>1
<1> HIDE DEF s
<1>6. /\ flags'[cpu] = s /\ code'[cpu] = "cli"
      /\ \A t \in Thread : t # cpu => flags'[t] = flags[t] /\ code'[t] = code[t]
  BY <1>1, <1>2, <1>3, <1>4, <1>5
<1>7. TypeOK'
  BY <1>1, <1>2, <1>3, <1>4, <1>5 DEF Inv, TypeOK, pic
<1>8. (\A t \in Thread : (Inside(t))' = Inside(t)) /\ Started' = Started
  <2>1. Inside(cpu) = Len(flags[cpu])
    BY <1>1, <1>2 DEF Inside
  <2>2. (Inside(cpu))' = Len(s) - 1
    BY <1>1, <1>6 DEF Inside
  <2>3. \A t \in Thread : t # cpu => (Inside(t))' = Inside(t)
    BY <1>1, <1>6 DEF Inside
  <2>4. (Inside(cpu))' = Inside(cpu)
    BY <2>1, <2>2, <1>2, <1>4
  <2> QED
    BY <2>3, <2>4, <1>1 DEF Started
<1>9. \A i \in 1 .. Len(s) : s[i] = Saved(i)
  <2>1. \A i \in 1 .. Len(flags[cpu]) : flags[cpu][i] = Saved(i)
    BY <1>2 DEF Inv, CodeInv
  <2>2. intr = Saved(Len(flags[cpu]) + 1)
    BY <1>1, <1>2 DEF Inside, Saved
  <2> QED
    BY <1>2, <1>4, <2>1, <2>2
<1>10. CodeInv' /\ EarlyInv'
  <2>1. \A i : (Saved(i))' = Saved(i)
    BY <1>8 DEF Saved
  <2>2. CodeInv'
    BY <1>1, <1>2, <1>4, <1>6, <1>9, <2>1 DEF Inv, CodeInv
  <2>3. EarlyInv'
    BY <1>1, <1>2, <1>6, <1>8 DEF Inv, EarlyInv
  <2> QED
    BY <2>2, <2>3
<1>11. OwnInv' /\ HandlerInv'
  BY <1>1, <1>2, <1>8 DEF Inv, OwnInv, HandlerInv
<1>12. AwayInv' /\ GateInv'
  BY <1>1, <1>6, <1>8 DEF Inv, AwayInv, GateInv, pic
<1> QED
  BY <1>7, <1>10, <1>11, <1>12 DEF Inv

LEMMA CliCorrect ==
  ASSUME Inv, Cli
  PROVE  Inv'
<1>1. /\ frames[cpu] = <<>> /\ code[cpu] = "cli" /\ intr' = 0
      /\ code' = [code EXCEPT ![cpu] = "run"]
      /\ UNCHANGED <<pic, gate, cpu, current, flags, frames, ctx, stage, halted>>
  BY DEF Cli, Own
<1>2. /\ cpu \in Thread /\ current = cpu
      /\ Len(flags[cpu]) \in Nat /\ Len(flags[cpu]) > 0
      /\ code \in [Thread -> {"none", "run", "cli"}]
  BY <1>1, OwnFacts DEF Inv, CodeInv, TypeOK
<1>3. /\ code'[cpu] = "run"
      /\ \A t \in Thread : t # cpu => code'[t] = code[t]
  BY <1>1, <1>2
<1>4. TypeOK'
  BY <1>1, <1>2 DEF Inv, TypeOK, pic, Bit
<1>5. /\ (Inside(cpu))' # 0 /\ Started' = Started
      /\ \A t \in Thread : t # cpu => (Inside(t))' = Inside(t)
  BY <1>1, <1>2, <1>3 DEF Inside, Started
<1>6. CodeInv' /\ EarlyInv'
  <2>1. \A i : (Saved(i))' = Saved(i)
    BY <1>5 DEF Saved
  <2>2. CodeInv'
    BY <1>1, <1>2, <1>3, <2>1 DEF Inv, CodeInv
  <2>3. EarlyInv'
    BY <1>1, <1>2, <1>3, <1>5 DEF Inv, EarlyInv
  <2> QED
    BY <2>2, <2>3
<1>7. OwnInv' /\ HandlerInv'
  BY <1>1, <1>2, <1>5 DEF Inv, OwnInv, HandlerInv
<1>8. AwayInv' /\ GateInv'
  BY <1>1, <1>3, <1>5 DEF Inv, AwayInv, GateInv, pic
<1> QED
  BY <1>4, <1>6, <1>7, <1>8 DEF Inv

(* Leaving a section: IF is set again exactly when it was the outermost.   *)
LEMMA RestoreCorrect ==
  ASSUME Inv, Restore
  PROVE  Inv'
<1>1. /\ frames[cpu] = <<>> /\ code[cpu] = "run" /\ flags[cpu] # <<>>
      /\ intr' = Last(flags[cpu])
      /\ flags' = [flags EXCEPT ![cpu] = Front(@)]
      /\ UNCHANGED <<pic, gate, cpu, current, code, frames, ctx, stage, halted>>
  BY DEF Restore, Own
<1>2. /\ cpu \in Thread /\ current = cpu
      /\ flags[cpu] \in Seq(Bit) /\ Len(flags[cpu]) \in Nat
      /\ flags \in [Thread -> Seq(Bit)]
  BY <1>1, OwnFacts DEF Inv, TypeOK
<1> DEFINE s == Front(flags[cpu])
<1>3. /\ s \in Seq(Bit) /\ Len(s) = Len(flags[cpu]) - 1 /\ Len(flags[cpu]) > 0
      /\ \A i \in 1 .. Len(flags[cpu]) - 1 : s[i] = flags[cpu][i]
  BY <1>1, <1>2, FrontElements
<1>4. flags' = [flags EXCEPT ![cpu] = s]
  BY <1>1
<1> HIDE DEF s
<1>5. /\ flags'[cpu] = s
      /\ \A t \in Thread : t # cpu => flags'[t] = flags[t]
  BY <1>2, <1>3, <1>4
<1>6. \A i \in 1 .. Len(flags[cpu]) : flags[cpu][i] = Saved(i)
  BY <1>2 DEF Inv, CodeInv
<1>7. intr' = Saved(Len(flags[cpu]))
  BY <1>1, <1>2, <1>3, <1>6 DEF Last
<1>8. TypeOK'
  BY <1>1, <1>2, <1>3, <1>4, <1>7 DEF Inv, TypeOK, pic, Bit, Saved
<1>9. /\ (Inside(cpu))' = Len(flags[cpu]) - 1 /\ Started' = Started
      /\ \A t \in Thread : t # cpu => (Inside(t))' = Inside(t)
  BY <1>1, <1>2, <1>3, <1>5 DEF Inside, Started
<1>10. CodeInv' /\ EarlyInv'
  <2>1. \A i : (Saved(i))' = Saved(i)
    BY <1>9 DEF Saved
  <2>2. \A i \in 1 .. Len(s) : s[i] = Saved(i)
    BY <1>2, <1>3, <1>6
  <2>3. CodeInv'
    BY <1>1, <1>2, <1>5, <2>1, <2>2 DEF Inv, CodeInv
  <2>4. EarlyInv'
    BY <1>1, <1>9 DEF Inv, EarlyInv
  <2> QED
    BY <2>3, <2>4
<1>11. OwnInv' /\ HandlerInv'
  BY <1>1, <1>2, <1>3, <1>7, <1>9 DEF Inv, OwnInv, HandlerInv, Saved
<1>12. AwayInv' /\ GateInv'
  BY <1>1, <1>5, <1>9 DEF Inv, AwayInv, GateInv, pic
<1> QED
  BY <1>8, <1>10, <1>11, <1>12 DEF Inv

LEMMA SetRoutineCorrect ==
  ASSUME Inv, NEW l \in Lines, NEW from, NEW to, SetRoutine(l, from, to),
         \/ from = "timer" /\ to = "sti"
         \/ from = "keyboard" /\ to = "threads"
  PROVE  Inv'
<1>1. /\ frames[cpu] = <<>> /\ stage = from /\ stage' = to
      /\ gate' = gate \cup {l} /\ imr' = imr \ {l}
      /\ UNCHANGED <<irr, isr, intr, cpu, current, stack, ctx, halted>>
  BY DEF SetRoutine, Own
<1>2. Started' = Started
  BY <1>1 DEF Started
<1>3. TypeOK'
  BY <1>1 DEF Inv, TypeOK, stack
<1>4. (\A t \in Thread : (Inside(t))' = Inside(t)) /\ (\A i : (Saved(i))' = Saved(i))
  BY <1>1, <1>2 DEF Inside, Saved, stack
<1>5. CodeInv' /\ EarlyInv'
  BY <1>1, <1>2, <1>4 DEF Inv, CodeInv, EarlyInv, stack
<1>6. OwnInv' /\ HandlerInv' /\ AwayInv'
  BY <1>1, <1>2, <1>4, OwnFacts DEF Inv, OwnInv, HandlerInv, AwayInv, stack
<1>7. GateInv'
  BY <1>1 DEF Inv, GateInv
<1> QED
  BY <1>3, <1>5, <1>6, <1>7 DEF Inv

LEMMA StiCorrect ==
  ASSUME Inv, Sti
  PROVE  Inv'
<1>1. /\ frames[cpu] = <<>> /\ code[cpu] = "run" /\ cpu = Boot /\ flags[Boot] = <<>>
      /\ stage = "sti" /\ stage' = "keyboard" /\ intr' = 1
      /\ UNCHANGED <<pic, gate, cpu, current, stack, ctx, halted>>
  BY DEF Sti, Own
<1>2. Boot \in Thread /\ Started' /\ ~Started
  BY <1>1, OwnFacts DEF Started
<1>3. \A t \in Thread : flags[t] = <<>> /\ (t # Boot => code[t] = "none")
  BY <1>1, <1>2 DEF Inv, EarlyInv, CodeInv
<1>4. TypeOK'
  BY <1>1 DEF Inv, TypeOK, stack, pic, Bit
<1>5. (\A t \in Thread : (Inside(t))' = Inside(t)) /\ Inside(Boot) = 0
  BY <1>1, <1>2, <1>3 DEF Inside, stack
<1>6. CodeInv' /\ EarlyInv'
  <2>1. \A t \in Thread : Len(flags[t]) = 0
    BY <1>3
  <2> QED
    BY <1>1, <1>2, <1>3, <2>1 DEF Inv, CodeInv, EarlyInv, stack
<1>7. OwnInv' /\ HandlerInv' /\ AwayInv'
  BY <1>1, <1>2, <1>3, <1>5, OwnFacts DEF Inv, OwnInv, HandlerInv, AwayInv, stack
<1>8. GateInv'
  BY <1>1 DEF Inv, GateInv, pic
<1> QED
  BY <1>4, <1>6, <1>7, <1>8 DEF Inv

(* A new thread is away, and interruptible. *)
LEMMA CreateCorrect ==
  ASSUME Inv, NEW t \in Thread, Create(t)
  PROVE  Inv'
<1>1. /\ frames[cpu] = <<>> /\ code[cpu] = "run" /\ code[t] = "none"
      /\ stage = "threads"
      /\ code' = [code EXCEPT ![t] = "run"] /\ ctx' = [ctx EXCEPT ![t] = 1]
      /\ UNCHANGED <<pic, gate, intr, cpu, current, flags, frames, stage, halted>>
  BY DEF Create, Own, FreshFlags
<1>2. /\ code \in [Thread -> {"none", "run", "cli"}] /\ ctx \in [Thread -> Bit]
      /\ flags[t] = <<>> /\ frames[t] = <<>> /\ t # cpu /\ cpu \in Thread
  BY <1>1 DEF Inv, TypeOK, CodeInv
<1>3. TypeOK'
  BY <1>1, <1>2 DEF Inv, TypeOK, pic, Bit
<1>4. /\ code'[t] = "run" /\ ctx'[t] = 1
      /\ \A u \in Thread : u # t => code'[u] = code[u] /\ ctx'[u] = ctx[u]
  BY <1>1, <1>2
<1>5. /\ (Inside(t))' = 0 /\ Started /\ Started'
      /\ \A u \in Thread : u # t => (Inside(u))' = Inside(u)
  BY <1>1, <1>2, <1>4 DEF Inside, Started
<1>6. CodeInv' /\ EarlyInv'
  <2>1. \A i : (Saved(i))' = Saved(i)
    BY <1>5 DEF Saved
  <2> QED
    BY <1>1, <1>2, <1>4, <1>5, <2>1 DEF Inv, CodeInv, EarlyInv
<1>7. OwnInv' /\ HandlerInv'
  BY <1>1, <1>2, <1>5 DEF Inv, OwnInv, HandlerInv
<1>8. AwayInv' /\ GateInv'
  BY <1>1, <1>2, <1>4, <1>5 DEF Inv, AwayInv, GateInv, pic
<1> QED
  BY <1>3, <1>6, <1>7, <1>8 DEF Inv

-----------------------------------------------------------------------------
LEMMA StutterCorrect ==
  ASSUME Inv, UNCHANGED vars
  PROVE  Inv'
BY DEF Inv, TypeOK, CodeInv, EarlyInv, OwnInv, HandlerInv, AwayInv, GateInv, Started,
       Saved, Inside, vars, pic, stack

THEOREM NextCorrect == Inv /\ [Next]_vars => Inv'
<1> SUFFICES ASSUME Inv, [Next]_vars PROVE Inv'
  OBVIOUS
<1>1. CASE \E l \in Lines : Raise(l)
  BY <1>1, RaiseCorrect
<1>2. CASE Deliver
  BY <1>2, DeliverCorrect
<1>3. CASE Handler
  BY <1>3, EnterCorrect, HandlerDisableCorrect, ChooseCorrect, SwitchCorrect,
     HandlerEnableCorrect, IretCorrect DEF Handler
<1>4. CASE SaveFlags \/ Cli \/ Restore
  BY <1>4, SaveFlagsCorrect, CliCorrect, RestoreCorrect
<1>5. CASE Sti
  BY <1>5, StiCorrect
<1>6. CASE SetRoutine(Timer, "timer", "sti")
  <2>1. Timer \in Lines
    BY DEF Lines
  <2> HIDE DEF Timer
  <2> QED
    BY <1>6, <2>1, SetRoutineCorrect
<1>7. CASE SetRoutine(Keyboard, "keyboard", "threads")
  <2>1. Keyboard \in Lines
    BY DEF Lines
  <2> QED
    BY <1>7, <2>1, SetRoutineCorrect
<1>8. CASE \E t \in Thread : Create(t)
  BY <1>8, CreateCorrect
<1>9. CASE UNCHANGED vars
  BY <1>9, StutterCorrect
<1> QED
  BY <1>1, <1>2, <1>3, <1>4, <1>5, <1>6, <1>7, <1>8, <1>9 DEF Next, OwnCode

THEOREM InvHolds == Spec => []Inv
BY InitCorrect, NextCorrect, PTL DEF Spec

(* The types of the state, whatever the threads do. *)
THEOREM TypeCorrect == Spec => []TypeOK
<1>1. Inv => TypeOK
  BY DEF Inv
<1> QED
  BY <1>1, InvHolds, PTL

(* No stack ever holds two interrupt frames: the acknowledgement on entry  *)
(* never lets a second interrupt in (irq-stubs.asm:60-68).                 *)
THEOREM FramesDoNotPileUp == Spec => []OneFrame
<1>1. Inv => OneFrame
  <2> SUFFICES ASSUME Inv, NEW t \in Thread PROVE Len(frames[t]) <= 1
    BY DEF OneFrame
  <2>1. CASE frames[t] = <<>>
    BY <2>1
  <2>2. CASE frames[t] # <<>>
    <3>1. Len(frames[t]) = 1
      BY <2>2 DEF Inv, HandlerInv, AwayInv, CodeInv
    <3> QED
      BY <3>1
  <2> QED
    BY <2>1, <2>2
<1> QED
  BY <1>1, InvHolds, PTL

(* Critical sections exclude each other: only the thread that has the      *)
(* processor can be inside of one (irq.h:33-37).                           *)
THEOREM SectionsAreKept == Spec => []NotPreemptedInside
<1>1. Inv => NotPreemptedInside
  <2> SUFFICES ASSUME Inv, NEW t \in Thread, t # cpu PROVE Inside(t) = 0
    BY DEF NotPreemptedInside
  <2>1. CASE code[t] = "none"
    <3>1. flags[t] = <<>> /\ code[t] # "cli"
      BY <2>1 DEF Inv, CodeInv
    <3>2. Len(flags[t]) = 0
      BY <3>1
    <3> QED
      BY <3>1, <3>2 DEF Inside
  <2>2. CASE code[t] # "none"
    BY <2>2 DEF Inv, AwayInv
  <2> QED
    BY <2>1, <2>2
<1> QED
  BY <1>1, InvHolds, PTL

(* Outside of sections and handlers every thread can be interrupted.       *)
THEOREM ThreadsAreInterruptible == Spec => []Interruptible
<1>1. Inv => Interruptible
  BY DEF Inv, OwnInv, Interruptible
<1> QED
  BY <1>1, InvHolds, PTL

(* The stack the processor is on is that of the current thread, and the    *)
(* assert of scheduler.c:74 holds.                                         *)
THEOREM CurrentHasTheStack == Spec => []ContextFollowsCurrent
<1>1. Inv => ContextFollowsCurrent
  <2> SUFFICES ASSUME Inv, ~InHandler("switch") PROVE cpu = current
    BY DEF ContextFollowsCurrent
  <2>1. CASE frames[cpu] = <<>>
    BY <2>1 DEF Inv, OwnInv
  <2>2. CASE frames[cpu] # <<>>
    <3>1. Top = frames[cpu][1] /\ Top.at # "switch"
      BY <2>2, TopFrame DEF Inv, InHandler, GateInv
    <3> QED
      BY <2>2, <3>1 DEF Inv, HandlerInv
  <2> QED
    BY <2>1, <2>2
<1> QED
  BY <1>1, InvHolds, PTL

(* No interrupt is taken for which there is no gate. *)
THEOREM GatesAreThere == Spec => []NoMissingGate
<1>1. Inv => NoMissingGate
  BY DEF Inv, GateInv, NoMissingGate
<1> QED
  BY <1>1, InvHolds, PTL
=============================================================================
