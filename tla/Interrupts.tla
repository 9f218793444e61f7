------------------------------ MODULE Interrupts ------------------------------
(***************************************************************************)
(* The interrupts of the Game Boy core: EI, DI, RETI and HALT (gb/Cpu.cpp),*)
(* ServiceInterrupts, the timer and the joypad (gb/Memory.cpp), in the     *)
(* order in which RunInstruction calls them (gb/System.cpp).               *)
(*                                                                         *)
(* One instruction passes the phases "cpu", "service", "lcd" and "timer";  *)
(* at VBlank RunFrame returns to the "host", which presses keys and loads  *)
(* states.  IF and IE are sets of interrupts: the other bits of the two    *)
(* bytes raise nothing.  DIV, which no interrupt depends on, is left out.  *)
(* The stack is assumed not to lie over the I/O registers.                 *)
(***************************************************************************)
EXTENDS Integers, Sequences

CONSTANTS
  Priority,    \* the interrupts in the order ServiceInterrupts looks at them
  Periods,     \* kTimaPeriods: ticks per TIMA step, the slowest first
  Speeds,      \* what the game writes to the low two bits of TAC
  TimaSize,    \* 256: TIMA is a byte
  TmaValues,   \* what the game writes to TIMA and TMA
  StepTicks,   \* the durations of an instruction
  HaltTicks,   \* 4: the duration of a step of the halted CPU
  EntryTicks,  \* 20: the duration of an interrupt entry
  Keys,        \* the buttons
  MaxLoads     \* bound: save states loaded in a behaviour

None == "none"
Interrupts == {Priority[n] : n \in DOMAIN Priority}

ASSUME InterruptsAssumption ==
  /\ Priority \in Seq(STRING)
  /\ {"VBlank", "Joypad", "Timer"} \subseteq Interrupts /\ None \notin Interrupts
  /\ TimaSize \in Nat \ {0} /\ TmaValues \subseteq 0 .. TimaSize - 1
  /\ Periods \in [0 .. 3 -> Nat \ {0}] /\ \A s \in 0 .. 3 : Periods[s] <= Periods[0]
  /\ Speeds \subseteq 0 .. 3
  /\ StepTicks \subseteq Nat \ {0}
  /\ HaltTicks \in Nat \ {0} /\ EntryTicks \in Nat
  /\ MaxLoads \in Nat

VARIABLES
  phase,      \* where RunInstruction is, or "host" between two frames
  ctl,        \* ime, imeRequest, eiDelay and halted
  intFlags,   \* IF
  intEnable,  \* IE
  timer,      \* TAC (on, speed), TIMA, TMA and timaAccum
  pressed,    \* the buttons that are down
  ticks,      \* what RunInstruction has counted so far
  frameDone,  \* LcdStep has reached VBlank
  entered,    \* the interrupt entered in this instruction, or None
  window,     \* what the program has asked for, see InterruptsAsAsked
  loads       \* states loaded so far

vars == <<phase, ctl, intFlags, intEnable, timer, pressed, ticks, frameDone,
          entered, window, loads>>

Ctl == [ime: BOOLEAN, imeRequest: BOOLEAN, eiDelay: BOOLEAN, halted: BOOLEAN]
Timer == [on: BOOLEAN, speed: 0 .. 3, tima: 0 .. TimaSize - 1, tma: 0 .. TimaSize - 1,
          accum: 0 .. Periods[0] - 1]

\* The program starts with cleared memory; a launch and a reset change nothing here.
Init ==
  /\ phase = "cpu"
  /\ ctl = [ime |-> FALSE, imeRequest |-> FALSE, eiDelay |-> FALSE, halted |-> FALSE]
  /\ intFlags = {} /\ intEnable = {}
  /\ timer = [on |-> FALSE, speed |-> 0, tima |-> 0, tma |-> 0, accum |-> 0]
  /\ pressed = {} /\ ticks = 0 /\ frameDone = FALSE
  /\ entered = None /\ window = "closed" /\ loads = 0

-----------------------------------------------------------------------------
(* CpuStep *)

\* The interrupt state after an instruction.
Executed(op) ==
  CASE op = "EI"   -> [ctl EXCEPT !.imeRequest = TRUE, !.eiDelay = TRUE]
    [] op = "DI"   -> [ctl EXCEPT !.imeRequest = FALSE, !.eiDelay = TRUE]
    [] op = "RETI" -> [ctl EXCEPT !.imeRequest = TRUE, !.ime = TRUE]
    [] op = "HALT" -> [ctl EXCEPT !.halted = TRUE]
    [] OTHER       -> ctl

\* What the program has asked for, told from its instructions alone: EI takes
\* effect after one more instruction, and so does DI; RETI at once.
Asked(op) ==
  CASE op = "RETI" -> "open"
    [] op = "EI" -> IF window \in {"open", "closing"} THEN "open" ELSE "opening"
    [] op = "DI" -> IF window \in {"open", "closing"} THEN "closing" ELSE "closed"
    [] OTHER -> IF window = "opening" THEN "open"
                ELSE IF window = "closing" THEN "closed" ELSE window

\* One instruction of the game: op, with what it stores in the registers.
Instruction(op, flags, enable, tmr, t) ==
  /\ phase = "cpu" /\ ~ctl.halted
  /\ ctl' = Executed(op)
  /\ window' = Asked(op)
  /\ intFlags' = flags /\ intEnable' = enable /\ timer' = tmr
  /\ ticks' = t
  /\ phase' = "service" /\ entered' = None
  /\ UNCHANGED <<pressed, frameDone, loads>>

Control == \E op \in {"EI", "DI", "RETI", "HALT", "other"}, t \in StepTicks :
             Instruction(op, intFlags, intEnable, timer, t)
WriteFlags == \E f \in SUBSET Interrupts, t \in StepTicks :
                Instruction("other", f, intEnable, timer, t)
WriteEnable == \E e \in SUBSET Interrupts, t \in StepTicks :
                 Instruction("other", intFlags, e, timer, t)

\* TimerWrite: the accumulator is not reset, whichever register is written.
TimerWrites ==
  {[timer EXCEPT !.tima = v] : v \in TmaValues} \cup
  {[timer EXCEPT !.tma = v] : v \in TmaValues} \cup
  {[timer EXCEPT !.on = tac[1], !.speed = tac[2]] : tac \in BOOLEAN \X Speeds}
TimerWrite == \E w \in TimerWrites, t \in StepTicks :
                Instruction("other", intFlags, intEnable, w, t)

HaltedStep ==
  /\ phase = "cpu" /\ ctl.halted
  /\ ticks' = HaltTicks
  /\ window' = Asked("other")
  /\ phase' = "service" /\ entered' = None
  /\ UNCHANGED <<ctl, intFlags, intEnable, timer, pressed, frameDone, loads>>

-----------------------------------------------------------------------------
(* ServiceInterrupts *)

Pending == intFlags \cap intEnable
IsFirst(n) == Priority[n] \in Pending /\ \A m \in 1 .. n - 1 : Priority[m] \notin Pending

\* The master enable that this call works with; the delay is over after it.
UpdatedIme == IF ctl.eiDelay THEN ctl.ime ELSE ctl.imeRequest

\* Vector's effect on the interrupt state.  A mutant keeps the request.
VectorKeepsRequest == [ime |-> FALSE, imeRequest |-> ctl.imeRequest, eiDelay |-> FALSE, halted |-> FALSE]
Vectored == [ime |-> FALSE, imeRequest |-> FALSE, eiDelay |-> FALSE, halted |-> FALSE]

\* The flags after the entry.  A mutant clears all that were pending.
AcknowledgedAll(i) == intFlags \ Pending
Acknowledged(i) == intFlags \ {i}

\* A pending interrupt ends HALT, with the interrupts disabled too.
WokenIfEnabled == ctl.halted /\ (Pending = {} \/ ~UpdatedIme)
StillHalted == ctl.halted /\ Pending = {}

Serviced(i) ==
  /\ ctl' = Vectored
  /\ intFlags' = Acknowledged(i)
  /\ entered' = i /\ window' = "closed"
  /\ ticks' = ticks + EntryTicks

NotServiced ==
  /\ ctl' = [ime |-> UpdatedIme, imeRequest |-> ctl.imeRequest, eiDelay |-> FALSE,
             halted |-> StillHalted]
  /\ UNCHANGED <<intFlags, entered, window, ticks>>

ServiceInterrupts ==
  /\ phase = "service"
  /\ IF Pending # {} /\ UpdatedIme
     THEN \E n \in DOMAIN Priority : IsFirst(n) /\ Serviced(Priority[n])
     ELSE NotServiced
  /\ phase' = "lcd"
  /\ UNCHANGED <<intEnable, timer, pressed, frameDone, loads>>

-----------------------------------------------------------------------------
(* LcdStep, as far as interrupts go, and TimerStep *)

LcdStep ==
  /\ phase = "lcd"
  /\ \E raised \in SUBSET ({"VBlank", "STAT"} \cap Interrupts) :
       /\ intFlags' = intFlags \cup raised
       /\ frameDone' = ("VBlank" \in raised)
  /\ phase' = "timer"
  /\ UNCHANGED <<ctl, intEnable, timer, pressed, ticks, entered, window, loads>>

\* TIMA after an overflow.  A mutant forgets TMA.
ReloadZero(tma) == 0
Reload(tma) == tma

\* The loop of TimerStep over the accumulated ticks.
Counter == [accum: Nat, tima: 0 .. TimaSize - 1, overflow: BOOLEAN]

Count(period, tma) ==
  LET loop[c \in Counter] ==
        IF c.accum < period THEN c
        ELSE LET w == (c.tima + 1) % TimaSize IN
             loop[[accum |-> c.accum - period, tima |-> IF w = 0 THEN Reload(tma) ELSE w,
                   overflow |-> c.overflow \/ w = 0]]
  IN  loop

Counted == Count(Periods[timer.speed], timer.tma)
             [[accum |-> timer.accum + ticks, tima |-> timer.tima, overflow |-> FALSE]]
TimerAfter == [timer EXCEPT !.accum = Counted.accum, !.tima = Counted.tima]
TimerRequest == IF Counted.overflow THEN {"Timer"} ELSE {}

TimerStep ==
  /\ phase = "timer"
  /\ IF timer.on
     THEN timer' = TimerAfter /\ intFlags' = intFlags \cup TimerRequest
     ELSE UNCHANGED <<timer, intFlags>>
  /\ ticks' = 0 /\ entered' = None
  /\ phase' = IF frameDone THEN "host" ELSE "cpu"
  /\ frameDone' = FALSE
  /\ UNCHANGED <<ctl, intEnable, pressed, window, loads>>

-----------------------------------------------------------------------------
(* Between two frames *)

\* App calls KeyDown again in every frame in which the button is held.  Whether
\* the game has selected the key's group, and whether an unused bit makes IE
\* nonzero, is left open.
KeyDown(k) ==
  /\ phase = "host"
  /\ pressed' = pressed \cup {k}
  /\ \E selected \in BOOLEAN, unused \in BOOLEAN :
       intFlags' = IF selected /\ k \notin pressed /\ (intEnable # {} \/ unused)
                   THEN intFlags \cup {"Joypad"} ELSE intFlags
  /\ UNCHANGED <<phase, ctl, intEnable, timer, ticks, frameDone, entered, window, loads>>

KeyUp(k) ==
  /\ phase = "host"
  /\ pressed' = pressed \ {k}
  /\ UNCHANGED <<phase, ctl, intFlags, intEnable, timer, ticks, frameDone, entered,
                 window, loads>>

\* The file holds IF, IE and the four timer registers, and neither ime,
\* imeRequest, eiDelay and halted nor the timer's accumulator.
LoadState ==
  /\ phase = "host" /\ loads < MaxLoads
  /\ loads' = loads + 1
  /\ intFlags' \in SUBSET Interrupts /\ intEnable' \in SUBSET Interrupts
  /\ \E b \in BOOLEAN, s \in Speeds, v \in TmaValues, m \in TmaValues :
       timer' = [on |-> b, speed |-> s, tima |-> v, tma |-> m, accum |-> timer.accum]
  /\ UNCHANGED <<phase, ctl, pressed, ticks, frameDone, entered, window>>

RunFrame ==
  /\ phase = "host"
  /\ phase' = "cpu"
  /\ UNCHANGED <<ctl, intFlags, intEnable, timer, pressed, ticks, frameDone, entered,
                 window, loads>>

-----------------------------------------------------------------------------
Program == Control \/ WriteFlags \/ WriteEnable \/ TimerWrite
Core == HaltedStep \/ ServiceInterrupts \/ LcdStep \/ TimerStep
Host == RunFrame \/ LoadState \/ \E k \in Keys : KeyDown(k) \/ KeyUp(k)
Next == Program \/ Core \/ Host

\* RunFrame's loop never stops by itself; the host need not call it again.
Spec == Init /\ [][Next]_vars /\ WF_vars(Program \/ Core)

-----------------------------------------------------------------------------
(* Properties *)

\* Types; among them that TimerStep always works its accumulator off, so that
\* it never holds a whole step of the slowest speed.
TypeOK ==
  /\ phase \in {"cpu", "service", "lcd", "timer", "host"}
  /\ ctl \in Ctl
  /\ intFlags \subseteq Interrupts /\ intEnable \subseteq Interrupts
  /\ timer \in Timer
  /\ pressed \subseteq Keys
  /\ ticks \in Nat /\ frameDone \in BOOLEAN
  /\ entered \in Interrupts \cup {None}
  /\ window \in {"open", "opening", "closing", "closed"}
  /\ loads \in 0 .. MaxLoads

\* A handler is entered exactly when an enabled request is pending and the
\* program's own EI, DI, RETI and earlier entries allow it: not in the shadow of
\* EI, not in a handler that has not enabled interrupts again, not after DI and
\* one more instruction, also when the CPU is halted or a state is loaded.
InterruptsAsAsked ==
  [][phase = "service" =>
       (entered' # None <=> Pending # {} /\ window \in {"open", "closing"})]_vars

\* ServiceInterrupts takes away the request it serves and no other, and the LCD
\* and the timer only add requests.
RequestsSurvive ==
  [][/\ phase = "service" => (intFlags \ intFlags') = ({entered'} \ {None})
     /\ phase \in {"lcd", "timer"} => intFlags \subseteq intFlags']_vars

\* The loop of TimerStep agrees with the closed form, whatever speed was switched
\* with whatever rest in the accumulator, and however often TIMA overflows.
TimerIsExact ==
  [][phase = "timer" /\ timer.on =>
       LET p == Periods[timer.speed]
           n == timer.tima + (timer.accum + ticks) \div p
       IN  /\ timer'.accum = (timer.accum + ticks) % p
           /\ timer'.tima = IF n < TimaSize THEN n
                            ELSE timer.tma + ((n - TimaSize) % (TimaSize - timer.tma))
           /\ ("Timer" \in intFlags') = ("Timer" \in intFlags \/ n >= TimaSize)]_vars

\* HALT ends: while the game runs, a CPU cannot stay halted for ever with the
\* timer counting and its interrupt enabled, the master enable on or off.
HaltEnds ==
  []<>(phase = "cpu") => ~<>[](ctl.halted /\ timer.on /\ "Timer" \in intEnable)

=============================================================================
