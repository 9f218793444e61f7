------------------------------ MODULE CoreProofs ------------------------------
(***************************************************************************)
(* The core of the Game Boy in two views.  Within a frame: interrupts are  *)
(* taken as the program asked, and the timer counts exactly, for every     *)
(* choice of interrupts, priorities, periods and keys (Interrupts).        *)
(* Between frames: a state file that was cut short has the registers, the  *)
(* LCD and the interrupts of one moment, for every number of slots and     *)
(* saves and every size of the C library's buffer in which the head of a   *)
(* file fits (Session).                                                    *)
(*                                                                         *)
(* Within a frame, the program's own view, window, is told from its        *)
(* instructions alone.  MasterInv ties it to the three flags of the core:  *)
(* imeRequest is what was asked last, and ime (while the delay runs, what  *)
(* ServiceInterrupts will make of it) is what is in force.                 *)
(*                                                                         *)
(* The loop of TimerStep is a recursive function, of which TLA+ only says  *)
(* that it satisfies its equation, if anything does.  The closed form does *)
(* (ClosedIsLoop), and nothing else: where two solutions differ there is a *)
(* least accumulator in which they do, and the turn before it is the same  *)
(* in both (OneLoop).                                                      *)
(*                                                                         *)
(* Between frames, a write that is cut short reaches the whole head of the *)
(* file or nothing of it (CutHead).  That a load never looks at a torn     *)
(* block, and so keeps the types, needs this property and is proved with   *)
(* it.  Nothing links Session's state with that of Interrupts.             *)
(***************************************************************************)
EXTENDS Interrupts, Session, SequenceTheorems, WellFoundedInduction, TLAPS

InForce == window \in {"open", "closing"}

\* The inductive invariant.
MasterInv ==
  /\ ctl \in Ctl
  /\ window \in {"open", "opening", "closing", "closed"}
  /\ ctl.imeRequest <=> window \in {"open", "opening"}
  /\ phase = "service" => (UpdatedIme <=> InForce) /\ entered = None
  /\ phase # "service" => ~ctl.eiDelay /\ (ctl.ime <=> InForce)

-----------------------------------------------------------------------------
LEMMA CtlTypes ==
  ASSUME NEW c \in Ctl
  PROVE  c.ime \in BOOLEAN /\ c.imeRequest \in BOOLEAN /\ c.eiDelay \in BOOLEAN
           /\ c.halted \in BOOLEAN
BY DEF Ctl

LEMMA InitMaster == Init => MasterInv
BY DEF Init, MasterInv, Ctl, InForce

\* An instruction changes the flags the way it changes what is asked.
LEMMA InstructionMaster ==
  ASSUME MasterInv,
         NEW op \in {"EI", "DI", "RETI", "HALT", "other"}, NEW f, NEW e, NEW w, NEW t,
         Instruction(op, f, e, w, t)
  PROVE  MasterInv'
<1>1. phase = "cpu" /\ phase' = "service" /\ entered' = None /\ ~ctl.halted
  BY DEF Instruction
<1>2. ctl' = Executed(op) /\ window' = Asked(op)
  BY DEF Instruction
<1>3. ctl \in Ctl /\ ~ctl.eiDelay /\ (ctl.ime <=> InForce)
      /\ (ctl.imeRequest <=> window \in {"open", "opening"})
      /\ window \in {"open", "opening", "closing", "closed"}
  BY <1>1 DEF MasterInv
<1> SUFFICES /\ ctl' \in Ctl
             /\ window' \in {"open", "opening", "closing", "closed"}
             /\ ctl'.imeRequest <=> window' \in {"open", "opening"}
             /\ UpdatedIme' <=> window' \in {"open", "closing"}
  BY <1>1 DEF MasterInv, InForce
<1>4. CASE op = "EI"
  BY <1>2, <1>3, <1>4 DEF Executed, Asked, Ctl, UpdatedIme, InForce
<1>5. CASE op = "DI"
  BY <1>2, <1>3, <1>5 DEF Executed, Asked, Ctl, UpdatedIme, InForce
<1>6. CASE op = "RETI"
  BY <1>2, <1>3, <1>6 DEF Executed, Asked, Ctl, UpdatedIme, InForce
<1>7. CASE op \in {"HALT", "other"}
  BY <1>2, <1>3, <1>7 DEF Executed, Asked, Ctl, UpdatedIme, InForce
<1> QED BY <1>4, <1>5, <1>6, <1>7

LEMMA ProgramMaster == ASSUME MasterInv, Program PROVE MasterInv'
<1>1. CASE Control
  BY <1>1, InstructionMaster DEF Control
<1>2. CASE WriteFlags
  BY <1>2, InstructionMaster DEF WriteFlags
<1>3. CASE WriteEnable
  BY <1>3, InstructionMaster DEF WriteEnable
<1>4. CASE TimerWrite
  BY <1>4, InstructionMaster DEF TimerWrite
<1> QED BY <1>1, <1>2, <1>3, <1>4 DEF Program

LEMMA HaltedMaster == ASSUME MasterInv, HaltedStep PROVE MasterInv'
<1>1. phase = "cpu" /\ phase' = "service" /\ entered' = None
      /\ ctl' = ctl /\ window' = Asked("other")
  BY DEF HaltedStep
<1>2. ctl \in Ctl /\ ~ctl.eiDelay /\ (ctl.ime <=> InForce)
      /\ (ctl.imeRequest <=> window \in {"open", "opening"})
      /\ window \in {"open", "opening", "closing", "closed"}
  BY <1>1 DEF MasterInv
<1> QED BY <1>1, <1>2 DEF MasterInv, Asked, UpdatedIme, InForce, Ctl

LEMMA ServiceMaster == ASSUME MasterInv, ServiceInterrupts PROVE MasterInv'
<1>1. phase = "service" /\ phase' = "lcd" /\ (UpdatedIme <=> InForce)
  BY DEF ServiceInterrupts, MasterInv
<1>2. CASE \E n \in DOMAIN Priority : Serviced(Priority[n])
  <2>1. ctl' = Vectored /\ window' = "closed"
    BY <1>2 DEF Serviced
  <2> QED BY <1>1, <2>1 DEF MasterInv, Vectored, Ctl, InForce
<1>3. CASE NotServiced
  <2>1. ctl' = [ime |-> UpdatedIme, imeRequest |-> ctl.imeRequest, eiDelay |-> FALSE,
                halted |-> StillHalted] /\ window' = window
    BY <1>3 DEF NotServiced
  <2>2. UpdatedIme \in BOOLEAN /\ StillHalted \in BOOLEAN /\ ctl.imeRequest \in BOOLEAN
    BY CtlTypes DEF UpdatedIme, StillHalted, MasterInv
  <2> QED BY <1>1, <2>1, <2>2 DEF MasterInv, Ctl, InForce
<1> QED BY <1>2, <1>3 DEF ServiceInterrupts

LEMMA NextMaster == MasterInv /\ [Next]_vars => MasterInv'
<1> SUFFICES ASSUME MasterInv, [Next]_vars PROVE MasterInv'
  OBVIOUS
<1>1. CASE Program
  BY <1>1, ProgramMaster
<1>2. CASE HaltedStep
  BY <1>2, HaltedMaster
<1>3. CASE ServiceInterrupts
  BY <1>3, ServiceMaster
<1>4. CASE /\ phase # "service" /\ phase' # "service" /\ UNCHANGED <<ctl, window>>
  BY <1>4 DEF MasterInv, InForce
<1>5. CASE LcdStep \/ TimerStep \/ Host
  <2>1. phase # "service" /\ phase' # "service" /\ UNCHANGED <<ctl, window>>
    BY <1>5 DEF LcdStep, TimerStep, Host, RunFrame, LoadState, KeyDown, KeyUp
  <2> QED BY <2>1, <1>4
<1>6. CASE UNCHANGED vars
  BY <1>6 DEF vars, MasterInv, InForce, UpdatedIme
<1> QED BY <1>1, <1>2, <1>3, <1>5, <1>6 DEF Next, Core

-----------------------------------------------------------------------------
\* The program's view and the core's flags always agree.
THEOREM Invariance == Spec => []MasterInv
BY InitMaster, NextMaster, PTL DEF Spec

\* Handlers are entered exactly when a request is pending and the instructions
\* of the program allow it.
THEOREM TakenAsAsked == Spec => InterruptsAsAsked
<1> DEFINE Step == phase = "service" =>
                     (entered' # None <=> Pending # {} /\ window \in {"open", "closing"})
<1>1. MasterInv /\ [Next]_vars => [Step]_vars
  <2> SUFFICES ASSUME MasterInv, Next, phase = "service" PROVE Step
    OBVIOUS
  <2>1. ServiceInterrupts
    BY DEF Next, Program, Control, WriteFlags, WriteEnable, TimerWrite, Instruction, Core,
           HaltedStep, LcdStep, TimerStep, Host, RunFrame, LoadState, KeyDown, KeyUp
  <2>2. (UpdatedIme <=> window \in {"open", "closing"}) /\ entered = None
    BY DEF MasterInv, InForce
  <2>3. CASE Pending # {} /\ UpdatedIme
    <3>1. PICK n \in DOMAIN Priority : Serviced(Priority[n])
      BY <2>1, <2>3 DEF ServiceInterrupts
    <3>2. entered' = Priority[n] /\ Priority[n] # None
      BY <3>1, InterruptsAssumption DEF Serviced, Interrupts
    <3> QED BY <3>2, <2>2, <2>3
  <2>4. CASE ~(Pending # {} /\ UpdatedIme)
    <3>1. entered' = entered
      BY <2>1, <2>4 DEF ServiceInterrupts, NotServiced
    <3> QED BY <3>1, <2>2, <2>4
  <2> QED BY <2>3, <2>4
<1> QED BY <1>1, Invariance, PTL DEF Spec, InterruptsAsAsked

\* No request gets lost on the way to its handler.
THEOREM RequestsKept == Spec => RequestsSurvive
<1> DEFINE Step == /\ phase = "service" => (intFlags \ intFlags') = ({entered'} \ {None})
                   /\ phase \in {"lcd", "timer"} => intFlags \subseteq intFlags'
<1>1. MasterInv /\ [Next]_vars => [Step]_vars
  <2> SUFFICES ASSUME MasterInv, Next PROVE Step
    OBVIOUS
  <2>1. phase = "service" => (intFlags \ intFlags') = ({entered'} \ {None})
    <3> SUFFICES ASSUME phase = "service"
                 PROVE  (intFlags \ intFlags') = ({entered'} \ {None})
      OBVIOUS
    <3>1. ServiceInterrupts /\ entered = None
      BY DEF Next, Program, Control, WriteFlags, WriteEnable, TimerWrite, Instruction, Core,
             HaltedStep, LcdStep, TimerStep, Host, RunFrame, LoadState, KeyDown, KeyUp,
             MasterInv
    <3>2. CASE \E n \in DOMAIN Priority : IsFirst(n) /\ Serviced(Priority[n])
      <4>1. PICK n \in DOMAIN Priority : IsFirst(n) /\ Serviced(Priority[n])
        BY <3>2
      <4>2. Priority[n] \in intFlags /\ Priority[n] # None
        BY <4>1, InterruptsAssumption DEF IsFirst, Pending, Interrupts
      <4>3. intFlags' = intFlags \ {Priority[n]} /\ entered' = Priority[n]
        BY <4>1 DEF Serviced, Acknowledged
      <4> QED BY <4>2, <4>3
    <3>3. CASE NotServiced
      BY <3>1, <3>3 DEF NotServiced
    <3> QED BY <3>1, <3>2, <3>3 DEF ServiceInterrupts
  <2>2. phase \in {"lcd", "timer"} => intFlags \subseteq intFlags'
    <3> SUFFICES ASSUME phase \in {"lcd", "timer"} PROVE intFlags \subseteq intFlags'
      OBVIOUS
    <3>1. LcdStep \/ TimerStep
      BY DEF Next, Program, Control, WriteFlags, WriteEnable, TimerWrite, Instruction, Core,
             HaltedStep, ServiceInterrupts, Host, RunFrame, LoadState, KeyDown, KeyUp
    <3>2. CASE LcdStep
      BY <3>2 DEF LcdStep
    <3>3. CASE TimerStep
      BY <3>3 DEF TimerStep
    <3> QED BY <3>1, <3>2, <3>3
  <2> QED BY <2>1, <2>2
<1> QED BY <1>1, Invariance, PTL DEF Spec, RequestsSurvive

-----------------------------------------------------------------------------
(* Arithmetic: the loop of TimerStep is division with remainder. *)

\* A set of natural numbers has a least one.
LEMMA LessThan == IsWellFoundedOn({ss \in Nat \X Nat : ss[1] < ss[2]}, Nat)
BY NatLessThanWellFounded DEF OpToRel

LEMMA Least ==
  ASSUME NEW T \in SUBSET Nat, T # {}
  PROVE  \E n \in T : \A m \in T : n <= m
<1> DEFINE R == {ss \in Nat \X Nat : ss[1] < ss[2]}
<1>1. \A i, j \in Nat : <<i, j>> \in R <=> i < j
  OBVIOUS
<1>2. IsWellFoundedOn(R, Nat)
  BY LessThan
<1> HIDE DEF R
<1>3. PICK n \in T : \A m \in T : ~ (<<m, n>> \in R)
  BY <1>2, WFMin
<1>4. \A m \in T : ~ (m < n)
  BY <1>1, <1>3
<1> QED BY <1>4

LEMMA Division ==
  ASSUME NEW a \in Nat, NEW p \in Nat \ {0}
  PROVE  /\ a \div p \in Nat /\ a % p \in 0 .. p - 1
         /\ a = p * (a \div p) + (a % p)
OBVIOUS

\* Quotient and remainder are the only ones.
LEMMA Quotient ==
  ASSUME NEW q \in Nat, NEW p \in Nat \ {0}, NEW r \in 0 .. p - 1, NEW a \in Nat,
         a = p * q + r
  PROVE  a \div p = q /\ a % p = r
<1> DEFINE d == a \div p
           m == a % p
<1>1. d \in Nat /\ m \in 0 .. p - 1 /\ a = p * d + m
  BY Division
<1> HIDE DEF d, m
<1>2. CASE d < q
  <2>1. PICK k \in Nat : q = d + 1 + k
    <3>1. q - d - 1 \in Nat /\ q = d + 1 + (q - d - 1)
      BY <1>1, <1>2
    <3> QED BY <3>1
  <2>2. p * q = p * d + p + p * k /\ p * k \in Nat
    BY <1>1, <2>1
  <2> QED BY <1>1, <2>2
<1>3. CASE q < d
  <2>1. PICK k \in Nat : d = q + 1 + k
    <3>1. d - q - 1 \in Nat /\ d = q + 1 + (d - q - 1)
      BY <1>1, <1>3
    <3> QED BY <3>1
  <2>2. p * d = p * q + p + p * k /\ p * k \in Nat
    BY <1>1, <2>1
  <2> QED BY <1>1, <2>2
<1>4. d = q
  BY <1>1, <1>2, <1>3
<1> QED BY <1>1, <1>4 DEF d, m

\* The quotient and the remainder of one period less.
LEMMA DivideLess ==
  ASSUME NEW a \in Nat, NEW p \in Nat \ {0}
  PROVE  /\ a < p => a \div p = 0 /\ a % p = a
         /\ a >= p => /\ a - p \in Nat
                      /\ (a - p) \div p = a \div p - 1 /\ (a - p) % p = a % p
                      /\ a \div p >= 1
<1>1. ASSUME a < p PROVE a \div p = 0 /\ a % p = a
  BY <1>1, Quotient, a = p * 0 + a
<1>2. ASSUME a >= p PROVE /\ a - p \in Nat
                      /\ (a - p) \div p = a \div p - 1 /\ (a - p) % p = a % p
                      /\ a \div p >= 1
  <2> DEFINE q == (a - p) \div p
             r == (a - p) % p
  <2>1. a - p \in Nat
    BY <1>2
  <2>2. q \in Nat /\ r \in 0 .. p - 1 /\ a - p = p * q + r
    BY <2>1, Division
  <2> HIDE DEF q, r
  <2>3. a = p * (q + 1) + r
    BY <2>2
  <2>4. a \div p = q + 1 /\ a % p = r
    BY <2>2, <2>3, Quotient
  <2> QED BY <2>1, <2>2, <2>4 DEF q, r
<1> QED BY <1>1, <1>2

Bytes == 0 .. TimaSize - 1

\* TIMA after n steps from zero, with as many reloads as fit in.
TimaAt(n, tma) ==
  IF n < TimaSize THEN n ELSE tma + ((n - TimaSize) % (TimaSize - tma))

\* What the loop comes to.
Closed(period, tma) ==
  [c \in Counter |->
     LET n == c.tima + (c.accum \div period)
     IN  [accum |-> c.accum % period, tima |-> TimaAt(n, tma),
          overflow |-> c.overflow \/ n >= TimaSize]]

\* What the loop of TimerStep does once.
Once(c, period, tma) ==
  LET w == (c.tima + 1) % TimaSize
  IN  [accum |-> c.accum - period, tima |-> IF w = 0 THEN Reload(tma) ELSE w,
       overflow |-> c.overflow \/ w = 0]

\* The equation of the loop.
IsLoop(loop, period, tma) ==
  loop = [c \in Counter |-> IF c.accum < period THEN c ELSE loop[Once(c, period, tma)]]

LEMMA StepUp ==
  ASSUME NEW v \in Bytes
  PROVE  (v + 1) % TimaSize = IF v = TimaSize - 1 THEN 0 ELSE v + 1
<1>1. TimaSize \in Nat \ {0}
  BY InterruptsAssumption
<1>2. CASE v = TimaSize - 1
  BY <1>1, <1>2, v + 1 = TimaSize * 1 + 0, Quotient DEF Bytes
<1>3. CASE v # TimaSize - 1
  BY <1>1, <1>3, v + 1 \in Nat, v + 1 < TimaSize, DivideLess DEF Bytes
<1> QED BY <1>2, <1>3

LEMMA TimaAtTyped ==
  ASSUME NEW n \in Nat, NEW tma \in Bytes PROVE TimaAt(n, tma) \in Bytes
<1>1. TimaSize \in Nat \ {0}
  BY InterruptsAssumption
<1>2. CASE n >= TimaSize
  <2>1. n - TimaSize \in Nat /\ TimaSize - tma \in Nat \ {0}
    BY <1>1, <1>2 DEF Bytes
  <2>2. (n - TimaSize) % (TimaSize - tma) \in 0 .. TimaSize - tma - 1
    BY <2>1, Division
  <2> QED BY <1>1, <1>2, <2>2 DEF TimaAt, Bytes
<1> QED BY <1>1, <1>2 DEF TimaAt, Bytes

\* The step that overflows goes on from TMA.
LEMMA TimaAtReload ==
  ASSUME NEW tma \in Bytes, NEW n \in Nat, n >= TimaSize
  PROVE  TimaAt(n, tma) = TimaAt(tma + (n - TimaSize), tma)
<1> DEFINE p == TimaSize - tma
           k == n - TimaSize
<1>1. TimaSize \in Nat \ {0} /\ p \in Nat \ {0} /\ k \in Nat /\ tma \in Nat
  BY InterruptsAssumption DEF Bytes
<1>2. TimaAt(n, tma) = tma + (k % p)
  BY <1>1 DEF TimaAt
<1>3. CASE k < p
  <2>1. tma + k < TimaSize
    BY <1>1, <1>3
  <2>2. k % p = k
    BY <1>1, <1>3, DivideLess
  <2> QED BY <1>2, <2>1, <2>2 DEF TimaAt
<1>4. CASE k >= p
  <2>1. ~(tma + k < TimaSize) /\ (tma + k) - TimaSize = k - p
    BY <1>1, <1>4
  <2>2. (k - p) % p = k % p
    BY <1>1, <1>4, DivideLess
  <2> QED BY <1>2, <2>1, <2>2 DEF TimaAt
<1> QED BY <1>1, <1>3, <1>4

LEMMA OnceTyped ==
  ASSUME NEW p \in Nat \ {0}, NEW tma \in Bytes, NEW c \in Counter, c.accum >= p
  PROVE  Once(c, p, tma) \in Counter /\ Once(c, p, tma).accum = c.accum - p
<1>1. c.accum - p \in Nat /\ c.tima \in Bytes /\ c.overflow \in BOOLEAN
  BY DEF Counter, Bytes
<1>2. (c.tima + 1) % TimaSize \in Bytes
  BY <1>1, StepUp, InterruptsAssumption DEF Bytes
<1> QED BY <1>1, <1>2 DEF Once, Counter, Bytes, Reload

LEMMA ClosedIsLoop ==
  ASSUME NEW p \in Nat \ {0}, NEW tma \in Bytes
  PROVE  IsLoop(Closed(p, tma), p, tma)
<1> DEFINE f == Closed(p, tma)
           n(c) == c.tima + (c.accum \div p)
<1>0. TimaSize \in Nat \ {0}
  BY InterruptsAssumption
<1>1. \A c \in Counter : f[c] = [accum |-> c.accum % p, tima |-> TimaAt(n(c), tma),
                                 overflow |-> c.overflow \/ n(c) >= TimaSize]
  BY DEF Closed
<1> HIDE DEF f
<1>2. ASSUME NEW c \in Counter, c.accum < p PROVE f[c] = c
  <2>1. c.accum \in Nat /\ c.tima \in Bytes /\ c.overflow \in BOOLEAN
        /\ c = [accum |-> c.accum, tima |-> c.tima, overflow |-> c.overflow]
    BY DEF Counter, Bytes
  <2>2. c.accum % p = c.accum /\ n(c) = c.tima
    BY <1>2, <2>1, DivideLess DEF Bytes
  <2>3. TimaAt(c.tima, tma) = c.tima /\ ~(c.tima >= TimaSize)
    BY <1>0, <2>1 DEF Bytes, TimaAt
  <2> QED BY <1>1, <2>1, <2>2, <2>3
<1>3. ASSUME NEW c \in Counter, c.accum >= p PROVE f[c] = f[Once(c, p, tma)]
  <2> DEFINE d == Once(c, p, tma)
             q == c.accum \div p
  <2>1. c.accum \in Nat /\ c.tima \in Bytes /\ c.overflow \in BOOLEAN
    BY DEF Counter, Bytes
  <2>2. (c.accum - p) \div p = q - 1 /\ (c.accum - p) % p = c.accum % p /\ q >= 1 /\ q \in Nat
    BY <1>3, <2>1, DivideLess, Division
  <2>3. d \in Counter /\ d.accum = c.accum - p
    BY <1>3, OnceTyped
  <2>4. CASE c.tima = TimaSize - 1
    <3>1. d.tima = tma /\ d.overflow = TRUE
      BY <2>1, <2>4, StepUp DEF Once, Reload
    <3>2. n(d) = tma + (q - 1) /\ n(c) - TimaSize = q - 1 /\ n(c) \in Nat /\ n(c) >= TimaSize
      BY <1>0, <2>1, <2>2, <2>3, <2>4, <3>1 DEF Bytes
    <3>3. TimaAt(n(c), tma) = TimaAt(n(d), tma)
      BY <3>2, TimaAtReload
    <3> QED BY <1>1, <2>2, <2>3, <3>1, <3>2, <3>3
  <2>5. CASE c.tima # TimaSize - 1
    <3>1. d.tima = c.tima + 1 /\ d.overflow = c.overflow
      BY <1>0, <2>1, <2>5, StepUp DEF Once, Bytes
    <3>2. n(d) = n(c)
      BY <1>0, <2>1, <2>2, <2>3, <3>1 DEF Bytes
    <3> QED BY <1>1, <2>2, <2>3, <3>1, <3>2
  <2> QED BY <2>4, <2>5
<1>4. \A c \in Counter : f[c] = IF c.accum < p THEN c ELSE f[Once(c, p, tma)]
  BY <1>2, <1>3 DEF Counter
<1>5. f = [c \in Counter |-> f[c]]
  BY DEF f, Closed
<1>6. IsLoop(f, p, tma)
  BY <1>4, <1>5 DEF IsLoop
<1> QED BY <1>6 DEF f

\* There is one such function only: take the least accumulator in which two differ.
LEMMA OneLoop ==
  ASSUME NEW p \in Nat \ {0}, NEW tma \in Bytes, NEW f, NEW g,
         IsLoop(f, p, tma), IsLoop(g, p, tma), NEW c \in Counter
  PROVE  f[c] = g[c]
<1> DEFINE T == {a \in Nat : \E d \in Counter : d.accum = a /\ f[d] # g[d]}
<1>1. ASSUME T # {} PROVE FALSE
  <2>1. PICK a \in T : \A b \in T : a <= b
    BY <1>1, Least, T \in SUBSET Nat
  <2>2. PICK d \in Counter : d.accum = a /\ f[d] # g[d]
    BY <2>1
  <2>3. /\ f[d] = IF d.accum < p THEN d ELSE f[Once(d, p, tma)]
        /\ g[d] = IF d.accum < p THEN d ELSE g[Once(d, p, tma)]
    BY DEF IsLoop
  <2>4. d.accum >= p /\ a \in Nat
    BY <2>1, <2>2, <2>3 DEF Counter
  <2>5. Once(d, p, tma) \in Counter /\ Once(d, p, tma).accum = a - p /\ a - p \in Nat
    BY <2>2, <2>4, OnceTyped
  <2>6. a - p \in T
    BY <2>2, <2>3, <2>4, <2>5
  <2> QED BY <2>1, <2>4, <2>6
<1>2. c.accum \in Nat
  BY DEF Counter
<1> QED BY <1>1, <1>2

LEMMA CountExact ==
  ASSUME NEW p \in Nat \ {0}, NEW tma \in Bytes, NEW c \in Counter
  PROVE  Count(p, tma)[c] = Closed(p, tma)[c]
<1>1. Count(p, tma) = CHOOSE loop : IsLoop(loop, p, tma)
  BY DEF Count, IsLoop, Once
<1>2. IsLoop(Count(p, tma), p, tma)
  BY <1>1, ClosedIsLoop
<1> QED BY <1>2, ClosedIsLoop, OneLoop

-----------------------------------------------------------------------------
(* The types of Interrupts, and the timer. *)

\* What the loop leaves.
LEMMA CountedExact ==
  ASSUME TypeOK
  PROVE  LET p == Periods[timer.speed]
             n == timer.tima + ((timer.accum + ticks) \div p)
         IN  /\ Counted.accum = (timer.accum + ticks) % p
             /\ Counted.tima = TimaAt(n, timer.tma)
             /\ Counted.overflow = (n >= TimaSize)
             /\ n \in Nat /\ p \in Nat \ {0} /\ p <= Periods[0]
<1> DEFINE p == Periods[timer.speed]
           c == [accum |-> timer.accum + ticks, tima |-> timer.tima, overflow |-> FALSE]
<1>1. /\ timer.accum + ticks \in Nat /\ timer.tima \in Bytes /\ timer.tma \in Bytes
      /\ timer.speed \in 0 .. 3
  BY InterruptsAssumption DEF TypeOK, Timer, Bytes
<1>2. p \in Nat \ {0} /\ p <= Periods[0]
  BY <1>1, InterruptsAssumption
<1>3. c \in Counter
  BY <1>1 DEF Counter, Bytes
<1>4. Counted = Closed(p, timer.tma)[c]
  BY <1>1, <1>2, <1>3, CountExact DEF Counted
<1>5. (timer.accum + ticks) \div p \in Nat
  BY <1>1, <1>2, Division
<1> HIDE DEF p
<1>6. Closed(p, timer.tma)[c] =
        [accum |-> c.accum % p, tima |-> TimaAt(c.tima + (c.accum \div p), timer.tma),
         overflow |-> c.overflow \/ c.tima + (c.accum \div p) >= TimaSize]
  BY <1>3 DEF Closed
<1>7. timer.tima + ((timer.accum + ticks) \div p) \in Nat
  BY <1>1, <1>5 DEF Bytes
<1> QED BY <1>2, <1>4, <1>6, <1>7 DEF p

LEMMA TimerAfterTyped == ASSUME TypeOK PROVE TimerAfter \in Timer
<1> DEFINE p == Periods[timer.speed]
           n == timer.tima + ((timer.accum + ticks) \div p)
<1>1. /\ Counted.accum = (timer.accum + ticks) % p
      /\ Counted.tima = TimaAt(n, timer.tma)
      /\ n \in Nat /\ p \in Nat \ {0} /\ p <= Periods[0]
  BY CountedExact
<1>2. timer \in Timer /\ timer.accum + ticks \in Nat /\ timer.tma \in Bytes
  BY InterruptsAssumption DEF TypeOK, Timer, Bytes
<1> HIDE DEF p, n
<1>3. Counted.tima \in Bytes
  BY <1>1, <1>2, TimaAtTyped
<1>4. Counted.accum \in 0 .. p - 1
  BY <1>1, <1>2, Division
<1>5. Periods[0] \in Nat
  BY InterruptsAssumption
<1>6. Counted.accum \in 0 .. Periods[0] - 1
  BY <1>1, <1>4, <1>5
<1> QED BY <1>2, <1>3, <1>6 DEF TimerAfter, Timer, Bytes

LEMMA InstructionTyped ==
  ASSUME TypeOK, NEW op \in {"EI", "DI", "RETI", "HALT", "other"},
         NEW f \in SUBSET Interrupts, NEW e \in SUBSET Interrupts, NEW w \in Timer,
         NEW t \in StepTicks, Instruction(op, f, e, w, t)
  PROVE  TypeOK'
<1>1. Executed(op) \in Ctl
  BY DEF TypeOK, Executed, Ctl
<1>2. Asked(op) \in {"open", "opening", "closing", "closed"}
  BY DEF TypeOK, Asked
<1>3. t \in Nat
  BY InterruptsAssumption
<1> QED BY <1>1, <1>2, <1>3 DEF TypeOK, Instruction

LEMMA TimerWritesTyped == ASSUME TypeOK, NEW w \in TimerWrites PROVE w \in Timer
<1>1. timer \in Timer
  BY DEF TypeOK
<1>2. CASE \E v \in TmaValues : w = [timer EXCEPT !.tima = v] \/ w = [timer EXCEPT !.tma = v]
  BY <1>1, <1>2, InterruptsAssumption DEF Timer
<1>3. CASE \E tac \in BOOLEAN \X Speeds : w = [timer EXCEPT !.on = tac[1], !.speed = tac[2]]
  <2>1. PICK tac \in BOOLEAN \X Speeds : w = [timer EXCEPT !.on = tac[1], !.speed = tac[2]]
    BY <1>3
  <2>2. tac[1] \in BOOLEAN /\ tac[2] \in 0 .. 3
    BY InterruptsAssumption
  <2> QED BY <1>1, <2>1, <2>2 DEF Timer
<1> QED BY <1>2, <1>3 DEF TimerWrites

LEMMA ServiceTyped == ASSUME TypeOK, ServiceInterrupts PROVE TypeOK'
<1>1. CASE \E n \in DOMAIN Priority : Serviced(Priority[n])
  <2>1. PICK n \in DOMAIN Priority : Serviced(Priority[n])
    BY <1>1
  <2>2. /\ ctl' = Vectored /\ intFlags' = intFlags \ {Priority[n]}
        /\ entered' = Priority[n] /\ window' = "closed" /\ ticks' = ticks + EntryTicks
    BY <2>1 DEF Serviced, Acknowledged
  <2>3. Priority[n] \in Interrupts /\ ticks + EntryTicks \in Nat /\ Vectored \in Ctl
    BY InterruptsAssumption DEF Interrupts, TypeOK, Vectored, Ctl
  <2> QED BY <2>2, <2>3 DEF ServiceInterrupts, TypeOK
<1>2. CASE NotServiced
  <2>1. ctl' \in Ctl
    <3>1. UpdatedIme \in BOOLEAN /\ StillHalted \in BOOLEAN /\ ctl.imeRequest \in BOOLEAN
      BY CtlTypes DEF UpdatedIme, StillHalted, TypeOK
    <3> QED BY <1>2, <3>1 DEF NotServiced, Ctl
  <2> QED BY <1>2, <2>1 DEF NotServiced, ServiceInterrupts, TypeOK
<1> QED BY <1>1, <1>2 DEF ServiceInterrupts

LEMMA TimerStepTyped == ASSUME TypeOK, TimerStep PROVE TypeOK'
<1>1. timer' \in Timer
  BY TimerAfterTyped DEF TimerStep, TypeOK
<1>2. intFlags' \subseteq Interrupts
  BY InterruptsAssumption DEF TimerStep, TimerRequest, TypeOK
<1> QED BY <1>1, <1>2 DEF TimerStep, TypeOK

LEMMA HostTyped == ASSUME TypeOK, Host PROVE TypeOK'
<1>1. CASE RunFrame
  BY <1>1 DEF RunFrame, TypeOK
<1>2. CASE LoadState
  <2>1. timer' \in Timer
    BY <1>2, InterruptsAssumption DEF LoadState, TypeOK, Timer
  <2>2. loads' \in 0 .. MaxLoads
    BY <1>2, InterruptsAssumption DEF LoadState, TypeOK
  <2> QED BY <1>2, <2>1, <2>2 DEF LoadState, TypeOK
<1>3. ASSUME NEW k \in Keys, KeyDown(k) PROVE TypeOK'
  <2>1. intFlags' \subseteq Interrupts
    BY <1>3, InterruptsAssumption DEF KeyDown, TypeOK
  <2> QED BY <1>3, <2>1 DEF KeyDown, TypeOK
<1>4. ASSUME NEW k \in Keys, KeyUp(k) PROVE TypeOK'
  BY <1>4 DEF KeyUp, TypeOK
<1> QED BY <1>1, <1>2, <1>3, <1>4 DEF Host

LEMMA TypedStart == Init => TypeOK
<1> SUFFICES ASSUME Init PROVE TypeOK
  OBVIOUS
<1>1. /\ 0 \in 0 .. TimaSize - 1 /\ 0 \in 0 .. Periods[0] - 1 /\ 0 \in 0 .. MaxLoads
      /\ 0 \in 0 .. 3
  BY InterruptsAssumption
<1> QED BY <1>1 DEF Init, TypeOK, Ctl, Timer

LEMMA TypedNext == TypeOK /\ [Next]_vars => TypeOK'
<1> SUFFICES ASSUME TypeOK, [Next]_vars PROVE TypeOK'
  OBVIOUS
<1>1. intFlags \in SUBSET Interrupts /\ intEnable \in SUBSET Interrupts /\ timer \in Timer
  BY DEF TypeOK
<1>2. CASE Control \/ WriteFlags \/ WriteEnable
  BY <1>1, <1>2, InstructionTyped DEF Control, WriteFlags, WriteEnable
<1>3. CASE TimerWrite
  BY <1>1, <1>3, InstructionTyped, TimerWritesTyped DEF TimerWrite
<1>4. CASE HaltedStep
  BY <1>4, InterruptsAssumption DEF HaltedStep, TypeOK, Asked
<1>5. CASE ServiceInterrupts
  BY <1>5, ServiceTyped
<1>6. CASE LcdStep
  <2>1. PICK raised \in SUBSET ({"VBlank", "STAT"} \cap Interrupts) :
          intFlags' = intFlags \cup raised /\ frameDone' = ("VBlank" \in raised)
    BY <1>6 DEF LcdStep
  <2>2. intFlags' \subseteq Interrupts /\ frameDone' \in BOOLEAN
    <3>1. ("VBlank" \in raised) \in BOOLEAN
      OBVIOUS
    <3> QED BY <1>1, <2>1, <3>1
  <2> QED BY <1>6, <2>2 DEF LcdStep, TypeOK
<1>7. CASE TimerStep
  BY <1>7, TimerStepTyped
<1>8. CASE Host
  BY <1>8, HostTyped
<1>9. CASE UNCHANGED vars
  BY <1>9 DEF vars, TypeOK
<1> QED BY <1>2, <1>3, <1>4, <1>5, <1>6, <1>7, <1>8, <1>9 DEF Next, Program, Core

\* Every variable keeps its type; in particular the loop of TimerStep leaves less than a
\* step of the slowest speed in the accumulator, whatever speeds the game switches between.
THEOREM TypeCorrect == Spec => []TypeOK
BY TypedStart, TypedNext, PTL DEF Spec

\* The loop of TimerStep computes the quotient and the remainder, with as many reloads
\* from TMA as overflows, for every size of TIMA and every period.
THEOREM TimerExact == Spec => TimerIsExact
<1> DEFINE Step ==
      phase = "timer" /\ timer.on =>
        LET p == Periods[timer.speed]
            n == timer.tima + (timer.accum + ticks) \div p
        IN  /\ timer'.accum = (timer.accum + ticks) % p
            /\ timer'.tima = IF n < TimaSize THEN n
                             ELSE timer.tma + ((n - TimaSize) % (TimaSize - timer.tma))
            /\ ("Timer" \in intFlags') = ("Timer" \in intFlags \/ n >= TimaSize)
<1>1. TypeOK /\ [Next]_vars => [Step]_vars
  <2> SUFFICES ASSUME TypeOK, Next, phase = "timer", timer.on PROVE Step
    OBVIOUS
  <2> DEFINE p == Periods[timer.speed]
             n == timer.tima + ((timer.accum + ticks) \div p)
  <2>1. TimerStep
    BY DEF Next, Program, Control, WriteFlags, WriteEnable, TimerWrite, Instruction, Core,
           HaltedStep, ServiceInterrupts, LcdStep, Host, RunFrame, LoadState, KeyDown, KeyUp
  <2>2. timer' = TimerAfter /\ intFlags' = intFlags \cup TimerRequest /\ timer \in Timer
    BY <2>1 DEF TimerStep, TypeOK
  <2>3. timer'.accum = Counted.accum /\ timer'.tima = Counted.tima
    BY <2>2 DEF TimerAfter, Timer
  <2>4. /\ Counted.accum = (timer.accum + ticks) % p
        /\ Counted.tima = TimaAt(n, timer.tma)
        /\ Counted.overflow = (n >= TimaSize)
    BY CountedExact
  <2>5. ("Timer" \in intFlags') = ("Timer" \in intFlags \/ n >= TimaSize)
    <3>1. CASE n >= TimaSize
      BY <2>2, <2>4, <3>1 DEF TimerRequest
    <3>2. CASE ~(n >= TimaSize)
      <4>1. TimerRequest = {}
        BY <2>4, <3>2 DEF TimerRequest
      <4>2. intFlags' = intFlags
        BY <2>2, <4>1
      <4>3. (n >= TimaSize) = FALSE
        BY <3>2
      <4> QED BY <4>2, <4>3, SMT
    <3> QED BY <3>1, <3>2
  <2>6. TimaAt(n, timer.tma) = IF n < TimaSize THEN n
                               ELSE timer.tma + ((n - TimaSize) % (TimaSize - timer.tma))
    BY DEF TimaAt
  <2> HIDE DEF n
  <2>7. timer'.accum = (timer.accum + ticks) % p
    BY <2>3, <2>4
  <2>8. timer'.tima = IF n < TimaSize THEN n
                      ELSE timer.tma + ((n - TimaSize) % (TimaSize - timer.tma))
    BY <2>3, <2>4, <2>6
  <2> QED BY <2>5, <2>7, <2>8 DEF n
<1> QED BY <1>1, TypeCorrect, PTL DEF Spec, TimerIsExact

-----------------------------------------------------------------------------
(* Session: between two frames. *)

\* A file: the moment of each block.
FileTable == [Blocks -> {Absent, Mixed} \union (1 .. MaxSaves)]

\* The blocks at the head of a file are those of one of the moments, or of none.
HeadOf(f) ==
  f # NoFile => /\ f["registers"] \in 0 .. Len(moments)
                /\ f["video"] = f["registers"]
                /\ f["interrupts"] = f["registers"]

SessionInv == SessionTypeOK /\ \A s \in Slots : HeadOf(file[s])

LEMMA BlockNames ==
  Blocks = {"registers", "video", "interrupts", "memory", "timer", "mappers"}
BY DEF Blocks, StateBlocks, Table

LEMMA SessionStarts == ASSUME SessionInit PROVE SessionInv
<1>1. cpu \in Cpu
  BY DEF SessionInit, Fresh, Cpu
<1>2. moments \in Seq(Moment) /\ Len(moments) <= MaxSaves
  BY SessionAssumption, EmptySeq DEF SessionInit
<1>3. file \in [Slots -> FileTable \union {NoFile}]
  BY DEF SessionInit
<1>4. \A s \in Slots : file[s] = NoFile
  BY DEF SessionInit
<1> QED BY <1>1, <1>2, <1>3, <1>4 DEF SessionInit, SessionTypeOK, SessionInv, HeadOf

\* Whatever the CPU was, it is one after RunInstruction.
LEMMA SteppedTyped ==
  ASSUME NEW executed \in SUBSET Cpu
  PROVE  Stepped(executed) \subseteq Cpu
<1>1. \A e \in Cpu : AfterService(e) \subseteq Cpu
  <2> SUFFICES ASSUME NEW e \in Cpu, NEW c \in AfterService(e) PROVE c \in Cpu
    OBVIOUS
  <2>1. \A ime \in BOOLEAN, flags \in SUBSET Sources :
          [e EXCEPT !.halted = FALSE, !.ime = ime, !.flags = flags] \in Cpu
    BY DEF Cpu
  <2>2. [e EXCEPT !.halted = FALSE] \in Cpu
    BY DEF Cpu
  <2>3. \A i : e.flags \ {i} \in SUBSET Sources
    BY DEF Cpu
  <2>4. \/ c = e
        \/ c = [e EXCEPT !.halted = FALSE]
        \/ \E i : c = [e EXCEPT !.halted = FALSE, !.ime = FALSE, !.flags = e.flags \ {i}]
    BY DEF AfterService
  <2> QED BY <2>1, <2>2, <2>3, <2>4
<1>2. \A c \in Cpu : Raised(c) \subseteq Cpu
  BY DEF Raised, Cpu
<1> QED BY <1>1, <1>2 DEF Stepped

LEMMA RunCpuTyped ==
  ASSUME cpu \in Cpu PROVE RunCpu \subseteq Cpu
<1>1. {cpu} \in SUBSET Cpu /\ Cpu \in SUBSET Cpu
  OBVIOUS
<1>2. Stepped({cpu}) \subseteq Cpu /\ Stepped(Cpu) \subseteq Cpu
  BY <1>1, SteppedTyped
<1> QED BY <1>2 DEF RunCpu, AnyStepped

\* A write that is cut short reaches all of the head or nothing of it.
LEMMA CutHead ==
  ASSUME SessionInv, NEW s \in Slots,
         NEW bytes \in CutPoints \union {StateSize},
         Len(moments) < MaxSaves
  PROVE  LET f == Cut(file[s], bytes)
         IN  /\ f \in FileTable
             /\ f["registers"] \in 0 .. Len(moments) + 1
             /\ f["video"] = f["registers"]
             /\ f["interrupts"] = f["registers"]
<1> DEFINE f == Cut(file[s], bytes)
           old(b) == IF file[s] = NoFile THEN Absent ELSE file[s][b]
<1>1. bytes \in Nat /\ (bytes = 0 \/ bytes >= 216)
  <2>1. CASE bytes = StateSize
    BY <2>1 DEF StateSize
  <2>2. CASE bytes \in CutPoints
    <3>1. PICK k \in Nat : bytes = k * Chunk
      BY <2>2 DEF CutPoints
    <3>2. Chunk \in Nat /\ Chunk >= 216
      BY SessionAssumption
    <3>3. k = 0 \/ k * Chunk >= Chunk
      <4>1. CASE k # 0
        <5>1. k - 1 \in Nat /\ k * Chunk = (k - 1) * Chunk + Chunk
          BY <3>2, <4>1
        <5>2. (k - 1) * Chunk \in Nat
          BY <3>2, <5>1
        <5> QED BY <3>2, <5>1, <5>2
      <4> QED BY <4>1
    <3> QED BY <3>1, <3>2, <3>3
  <2> QED BY <2>1, <2>2
<1>2. /\ Len(moments) \in Nat
      /\ file[s] = NoFile \/ file[s] \in FileTable
  BY LenProperties DEF SessionInv, SessionTypeOK, FileTable
<1>3. \A b \in Blocks : old(b) \in {Absent, Mixed} \union (1 .. MaxSaves)
  BY <1>2 DEF FileTable
<1>4. MaxSaves \in Nat /\ Len(moments) + 1 \in 1 .. MaxSaves
  BY <1>2, SessionAssumption
<1>5. f \in FileTable
  BY <1>3, <1>4 DEF Cut, FileTable
<1>6. /\ StateBlocks["registers"] = <<50, 12>>
      /\ StateBlocks["video"] = <<62, 152>>
      /\ StateBlocks["interrupts"] = <<214, 2>>
  BY DEF StateBlocks, Table
<1>7. /\ f["registers"] = IF 62 <= bytes THEN Len(moments) + 1
                         ELSE IF 50 >= bytes THEN old("registers") ELSE Mixed
      /\ f["video"] = IF 214 <= bytes THEN Len(moments) + 1
                      ELSE IF 62 >= bytes THEN old("video") ELSE Mixed
      /\ f["interrupts"] = IF 216 <= bytes THEN Len(moments) + 1
                           ELSE IF 214 >= bytes THEN old("interrupts") ELSE Mixed
  BY <1>6, BlockNames DEF Cut
<1>8. /\ old("registers") \in 0 .. Len(moments)
      /\ old("video") = old("registers") /\ old("interrupts") = old("registers")
  BY <1>2 DEF SessionInv, HeadOf, Absent
<1> HIDE DEF f, old
<1>9. /\ f["registers"] \in 0 .. Len(moments) + 1
      /\ f["video"] = f["registers"] /\ f["interrupts"] = f["registers"]
  <2>1. CASE bytes = 0
    BY <1>2, <1>7, <1>8, <2>1
  <2>2. CASE bytes >= 216
    BY <1>1, <1>2, <1>7, <2>2
  <2> QED BY <1>1, <2>1, <2>2
<1> QED BY <1>5, <1>9 DEF f

\* Every write, whole or not, leaves the head of the file one moment.
LEMMA WrittenInv ==
  ASSUME SessionInv, NEW s \in Slots,
         NEW bytes \in CutPoints \union {StateSize}, Written(s, bytes),
         where' \in {"menu", "frame", "host"}, cpu' \in Cpu, lcdOn' \in BOOLEAN,
         start' \in {"none", "launched", "reset", "loaded"}
  PROVE  SessionInv'
<1> DEFINE f == Cut(file[s], bytes)
<1>1. /\ Len(moments) < MaxSaves
      /\ moments' = Append(moments, [lcdOn |-> lcdOn, ie |-> cpu.ie, flags |-> cpu.flags])
      /\ file' = [file EXCEPT ![s] = f]
  BY DEF Written
<1>2. /\ f \in FileTable
      /\ f["registers"] \in 0 .. Len(moments) + 1
      /\ f["video"] = f["registers"]
      /\ f["interrupts"] = f["registers"]
  BY <1>1, CutHead
<1> HIDE DEF f
<1>3. [lcdOn |-> lcdOn, ie |-> cpu.ie, flags |-> cpu.flags] \in Moment
  BY DEF SessionInv, SessionTypeOK, Cpu, Moment
<1>4. moments \in Seq(Moment) /\ Len(moments) \in Nat /\ MaxSaves \in Nat
  BY SessionAssumption, LenProperties DEF SessionInv, SessionTypeOK
<1>5. /\ moments' \in Seq(Moment) /\ Len(moments') = Len(moments) + 1
      /\ Len(moments') <= MaxSaves
  BY <1>1, <1>3, <1>4, AppendProperties
<1>6. file \in [Slots -> FileTable \union {NoFile}]
  BY DEF SessionInv, SessionTypeOK, FileTable
<1>7. file' \in [Slots -> FileTable \union {NoFile}]
  BY <1>1, <1>2, <1>6
<1>8. SessionTypeOK'
  BY <1>5, <1>7 DEF SessionTypeOK, Moment, Cpu, Blocks, StateBlocks,
         Table, Absent, Mixed, FileTable
<1>9. ASSUME NEW t \in Slots PROVE HeadOf(file[t])'
  <2>1. CASE t = s
    <3>1. file'[t] = f
      BY <1>1, <1>6, <2>1
    <3> QED BY <1>2, <1>5, <3>1 DEF HeadOf
  <2>2. CASE t # s
    <3>1. file'[t] = file[t] /\ HeadOf(file[t])
      BY <1>1, <1>6, <2>2 DEF SessionInv
    <3> QED BY <1>4, <1>5, <3>1 DEF HeadOf
  <2> QED BY <2>1, <2>2
<1> QED BY <1>8, <1>9 DEF SessionInv

\* Steps that leave the files alone.
LEMMA FilesStay ==
  ASSUME SessionInv, UNCHANGED <<moments, file>>,
         where' \in {"menu", "frame", "host"}, cpu' \in Cpu, lcdOn' \in BOOLEAN,
         start' \in {"none", "launched", "reset", "loaded"}
  PROVE  SessionInv'
BY DEF SessionInv, SessionTypeOK, HeadOf, Moment, Cpu, Blocks,
       StateBlocks, Table, Absent, Mixed

\* What a load finds: no block that it looks at is torn.
LEMMA LoadInv ==
  ASSUME SessionInv, NEW s \in Slots, ReadState(s)
  PROVE  SessionInv'
<1>1. /\ file[s] # NoFile /\ where' = where /\ moments' = moments /\ file' = file
      /\ lcdOn' = IF file[s]["video"] = Absent THEN lcdOn
                  ELSE moments[file[s]["video"]].lcdOn
      /\ cpu' = IF file[s]["interrupts"] = Absent THEN cpu
                ELSE [cpu EXCEPT !.ie = moments[file[s]["interrupts"]].ie,
                                 !.flags = moments[file[s]["interrupts"]].flags]
      /\ start' = IF file[s]["registers"] = Absent THEN start ELSE "loaded"
  BY DEF ReadState
<1>2. /\ file[s]["registers"] \in 0 .. Len(moments)
      /\ file[s]["video"] = file[s]["registers"]
      /\ file[s]["interrupts"] = file[s]["registers"]
  BY <1>1 DEF SessionInv, HeadOf
<1>3. moments \in Seq(Moment) /\ cpu \in Cpu /\ lcdOn \in BOOLEAN
  BY DEF SessionInv, SessionTypeOK
<1>4. \A n \in 1 .. Len(moments) : moments[n] \in Moment
  BY <1>3, ElementOfSeq
<1>5. \A n \in 1 .. Len(moments) :
        /\ moments[n].lcdOn \in BOOLEAN
        /\ [cpu EXCEPT !.ie = moments[n].ie, !.flags = moments[n].flags] \in Cpu
  BY <1>3, <1>4 DEF Moment, Cpu
<1>6. lcdOn' \in BOOLEAN /\ cpu' \in Cpu
  <2>1. CASE file[s]["registers"] = 0
    BY <1>1, <1>2, <1>3, <2>1 DEF Absent
  <2>2. CASE file[s]["registers"] \in 1 .. Len(moments)
    <3> DEFINE n == file[s]["registers"]
    <3>1. n # Absent
      BY <2>2 DEF Absent
    <3>2. /\ lcdOn' = moments[n].lcdOn
          /\ cpu' = [cpu EXCEPT !.ie = moments[n].ie, !.flags = moments[n].flags]
      BY <1>1, <1>2, <3>1
    <3> QED BY <1>5, <2>2, <3>2
  <2>3. Len(moments) \in Nat
    BY <1>3, LenProperties
  <2> QED BY <1>2, <2>1, <2>2, <2>3
<1>7. /\ where' \in {"menu", "frame", "host"}
      /\ start' \in {"none", "launched", "reset", "loaded"}
  BY <1>1 DEF SessionInv, SessionTypeOK
<1> QED BY <1>1, <1>6, <1>7, FilesStay

LEMMA SessionStep ==
  ASSUME SessionInv, [SessionNext]_sessionVars PROVE SessionInv'
<1> USE DEF SessionTypeOK
<1>0. /\ where \in {"menu", "frame", "host"} /\ cpu \in Cpu /\ lcdOn \in BOOLEAN
      /\ start \in {"none", "launched", "reset", "loaded"}
  BY DEF SessionInv
<1>1. Fresh \in Cpu
  BY DEF Fresh, Cpu
<1>2. RunCpu \subseteq Cpu
  BY <1>0, RunCpuTyped
<1>3. CASE FrameGoesOn
  <2>1. cpu' \in Cpu /\ lcdOn' \in BOOLEAN /\ start' \in {start, "none"}
        /\ UNCHANGED <<where, moments, file>>
    BY <1>0, <1>2, <1>3 DEF FrameGoesOn, CpuStep
  <2> QED BY <1>0, <2>1, FilesStay
<1>4. CASE FrameIsDone
  <2>1. \A c \in Cpu : [c EXCEPT !.flags = FlagsAtEnd(c)] \in Cpu
    BY SessionAssumption DEF Cpu, FlagsAtEnd
  <2>2. cpu' \in Cpu /\ lcdOn' \in BOOLEAN /\ start' \in {start, "none"}
        /\ where' = "host" /\ UNCHANGED <<moments, file>>
    BY <1>0, <1>2, <1>4, <2>1 DEF FrameIsDone, CpuStep
  <2> QED BY <1>0, <2>2, FilesStay
<1>5. CASE BeginFrame \/ Launch \/ Reset \/ ExitToMenu \/ Restart
  BY <1>0, <1>1, <1>5, FilesStay 
  DEF BeginFrame, Launch, Reset, ExitToMenu, Restart
<1>6. ASSUME NEW s \in Slots, SaveState(s) PROVE SessionInv'
  BY <1>0, <1>6, WrittenInv DEF SaveState
<1>7. ASSUME NEW s \in Slots, SaveFallsShort(s) PROVE SessionInv'
  BY <1>0, <1>7, WrittenInv DEF SaveFallsShort
<1>8. ASSUME NEW s \in Slots, SaveCutShort(s) PROVE SessionInv'
  BY <1>1, <1>8, WrittenInv DEF SaveCutShort
<1>9. CASE UNCHANGED sessionVars
  BY <1>0, <1>9, FilesStay DEF sessionVars
<1> QED BY <1>3, <1>4, <1>5, <1>6, <1>7, <1>8, <1>9, LoadInv DEF SessionNext, HostStep

\* The invariant holds in every state.
THEOREM SessionInvariance == SessionSpec => []SessionInv
<1>1. SessionInit => SessionInv
  BY SessionStarts
<1>2. SessionInv /\ [SessionNext]_sessionVars => SessionInv'
  BY SessionStep
<1> QED BY <1>1, <1>2, PTL DEF SessionSpec

\* Every variable keeps its type; in particular a load takes nothing from a block that
\* is torn.
THEOREM SessionTypes == SessionSpec => []SessionTypeOK
<1>1. SessionInv => SessionTypeOK
  BY DEF SessionInv
<1> QED BY <1>1, SessionInvariance, PTL

\* A save that is cut short, by a full disk or by a crash, leaves registers, LCD and
\* interrupts of one moment in the file, or what was there before.
THEOREM HeadSafety == SessionSpec => []HeadIsOneMoment
<1>1. SessionInv => HeadIsOneMoment
  BY LenProperties DEF SessionInv, HeadOf, HeadIsOneMoment, Mixed, SessionTypeOK
<1> QED BY <1>1, SessionInvariance, PTL

=============================================================================
