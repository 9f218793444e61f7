------------------------------- MODULE LcdProofs -------------------------------
(***************************************************************************)
(* The LCD invariants of module Lcd for every number of lines, every mode  *)
(* duration that an instruction cannot outrun, and every register value.   *)
(*                                                                         *)
(* RenderInBounds is not inductive: mode 3 follows mode 2, mode 2 follows  *)
(* HBlank or VBlank, and VBlank can be entered by loading a state file.    *)
(* LcdInv says where LY may be in each mode, what every state file holds,  *)
(* and that the accumulator is inside the mode.                            *)
(***************************************************************************)
EXTENDS Lcd, TLAPS

\* Where LY and the window row may be in each mode.
Position(c) ==
  /\ c.mode # 1 => c.ly < VisibleLines
  /\ c.mode = 1 => c.ly = 0 \/ (VisibleLines <= c.ly /\ c.ly <= LastLine)
  /\ c.mode \in {2, 3} => c.windowLine <= c.ly
  /\ c.mode = 0 => c.windowLine <= c.ly + 1
  /\ c.mode = 1 /\ c.ly = 0 => c.windowLine = 0

\* The DMA registers of a video block and the number of blocks owed.
Owes(h, n) == IF h.active THEN n = h.length + 1 ELSE n = 0

\* The start of VBlank, with its interrupt pending.
AtVBlank(c, flags) == c.mode = 1 /\ c.ly = VisibleLines /\ "vblank" \in flags

\* Every state file was written between two frames.
FilesAtVBlank ==
  \A s \in Slots : saved[s] # NoState =>
    AtVBlank(saved[s].lcd, saved[s].intFlags) /\ Owes(saved[s].hdma, saved[s].owed)

FramePhase ==
  /\ frameDone => pc = "frame"
  /\ frameDone \/ pc = "host" => AtVBlank(lcd, intFlags)
  /\ frameDone \/ pc # "frame" => lcdTickAccum < MaxTicks

\* The row last drawn and the line the controller is at.
RowOrder ==
  /\ lcd.mode \in {2, 3} => lcd.ly = row + 1 \/ lcd.ly <= 1
  /\ lcd.mode = 0 => lcd.ly = row \/ lcd.ly = 0

LcdInv ==
  /\ TypeOK
  /\ Position(lcd) /\ RowOrder
  /\ Owes(hdma, owed)
  /\ AccumInMode
  /\ FilesAtVBlank
  /\ FramePhase

-----------------------------------------------------------------------------

LEMMA Arithmetic == \A a, b, c \in Nat : a <= b + 1 /\ b <= c => a <= c + 1
OBVIOUS

LEMMA DurationIs ==
  /\ Duration(0) = HBlankTicks /\ Duration(1) = LineTicks
  /\ Duration(2) = OamTicks /\ Duration(3) = DrawTicks
BY DEF Duration

LEMMA DurationBound == ASSUME NEW m \in 0 .. 3 PROVE Duration(m) \in Nat /\ MaxTicks <= Duration(m)
BY DurationIs, LcdAssumption

LEMMA ByteFacts == 0 \in Byte /\ \A n \in Byte : n \in Nat /\ (n + 1) % 256 \in Byte
BY DEF Byte

LEMMA CounterTypes ==
  ASSUME NEW c \in Counters
  PROVE  /\ c.mode \in 0 .. 3 /\ c.ly \in Byte /\ c.windowLine \in Byte
         /\ c.ly \in 0 .. 255 /\ c.windowLine \in 0 .. 255
         /\ c.coincidence \in BOOLEAN
BY DEF Counters, Byte

\* The initial state satisfies the invariant.
LEMMA InitInv == Init => LcdInv
<1> SUFFICES ASSUME Init PROVE LcdInv
  OBVIOUS
<1> USE DEF Init, ClearedCounters, Counter, ClearedRegisters, NoTransfer
<1>1. /\ lcd \in Counters
      /\ reg \in Registers
      /\ hdma \in Transfer
  <2>1. lcd \in Counters
    BY DEF Counters, Byte
  <2>2. reg \in Registers
    BY DEF Registers, Byte
  <2>3. hdma \in Transfer
    BY DEF Transfer
  <2> QED BY <2>1, <2>2, <2>3
<1> USE LcdAssumption, NoStateAssumption
<1>2. TypeOK
  <2>1. pc \in {"menu", "frame", "host"} /\ frameDone \in BOOLEAN
    OBVIOUS
  <2>2. intFlags \in SUBSET IrqBits
    OBVIOUS
  <2>3. lcdTickAccum \in Nat /\ row \in -1 .. 255 /\ owed \in 0 .. 128
    OBVIOUS
  <2>4. saved \in [Slots -> SavedState \cup {NoState}]
    OBVIOUS
  <2> QED BY <1>1, <2>1, <2>2, <2>3, <2>4 DEF TypeOK
<1>3. Position(lcd) /\ Owes(hdma, owed) /\ FilesAtVBlank /\ FramePhase /\ RowOrder
  BY DEF Position, Owes, FilesAtVBlank, FramePhase, RowOrder
<1>4. AccumInMode
  BY DurationBound DEF AccumInMode
<1> QED BY <1>2, <1>3, <1>4 DEF LcdInv

\* A register write keeps the mode and lowers LY at most to 0.
LEMMA GameWriteInv == ASSUME LcdInv, GameWrite PROVE LcdInv'
<1> USE LcdAssumption DEF LcdInv, InInstruction, HostUnchanged
<1>1. ASSUME NEW r \in Registers, WriteReg(r) PROVE LcdInv'
  BY <1>1 DEF WriteReg, TypeOK, Position, Owes, FilesAtVBlank, FramePhase, AtVBlank,
              AccumInMode, RowOrder
<1>2. reg \in Registers
  BY DEF TypeOK
<1>3. ASSUME NEW on \in BOOLEAN, NEW window \in BOOLEAN, WriteLcdc(on, window) PROVE LcdInv'
  <2>1. [reg EXCEPT !.on = on, !.window = window] \in Registers
    BY <1>2 DEF Registers
  <2> QED BY <1>1, <1>3, <2>1 DEF WriteLcdc
<1>4. ASSUME NEW sources \in StatValues, WriteStat(sources) PROVE LcdInv'
  <2>1. [reg EXCEPT !.stat = sources] \in Registers
    BY <1>2 DEF Registers
  <2> QED BY <1>1, <1>4, <2>1 DEF WriteStat
<1>5. ASSUME NEW v \in LycValues, WriteLyc(v) PROVE LcdInv'
  <2>1. [reg EXCEPT !.lyc = v] \in Registers
    BY <1>2 DEF Registers, Byte
  <2> QED BY <1>1, <1>5, <2>1 DEF WriteLyc
<1>6. ASSUME NEW v \in WyValues, WriteWy(v) PROVE LcdInv'
  <2>1. [reg EXCEPT !.wy = v] \in Registers
    BY <1>2 DEF Registers, Byte
  <2> QED BY <1>1, <1>6, <2>1 DEF WriteWy
<1>7. CASE WriteLy
  <2>1. /\ lcd' \in Counters
        /\ lcd'.mode = lcd.mode /\ lcd'.ly = 0 /\ lcd'.windowLine = 0
        /\ lcd.mode \in 0 .. 3
    BY <1>7, CounterTypes, ByteFacts DEF WriteLy, TypeOK, Counter, Counters
  <2> QED BY <1>7, <2>1 DEF WriteLy, TypeOK, Position, Owes, FilesAtVBlank, FramePhase, AtVBlank,
                            AccumInMode, RowOrder
<1>8. ASSUME NEW h \in Transfer, NEW n \in 0 .. 128, WriteHdma(h, n), Owes(h, n) PROVE LcdInv'
  BY <1>8 DEF WriteHdma, TypeOK, Position, FilesAtVBlank, FramePhase, AtVBlank,
              AccumInMode, RowOrder
<1>9. ASSUME NEW len \in HdmaLengths, StartHdma(len) PROVE LcdInv'
  <2> DEFINE h == [active |-> TRUE, length |-> len]
  <2>1. len \in 0 .. 127
    OBVIOUS
  <2>2. h \in Transfer
    BY <2>1 DEF Transfer
  <2>3. Owes(h, len + 1) /\ len + 1 \in 0 .. 128
    BY <2>1 DEF Owes
  <2> QED BY <1>8, <1>9, <2>2, <2>3 DEF StartHdma
<1>10. ASSUME NEW len \in HdmaLengths, CancelHdma(len) PROVE LcdInv'
  <2> DEFINE h == [active |-> FALSE, length |-> len]
  <2>1. len \in 0 .. 127
    OBVIOUS
  <2>2. h \in Transfer
    BY <2>1 DEF Transfer
  <2>3. Owes(h, 0)
    BY DEF Owes
  <2> QED BY <1>8, <1>10, <2>2, <2>3 DEF CancelHdma
<1>11. CASE GeneralDma
  <2> DEFINE h == [active |-> FALSE, length |-> 127]
  <2>1. ~hdma.active /\ owed = 0
    BY <1>11 DEF GeneralDma, Owes
  <2>2. h \in Transfer
    BY DEF Transfer
  <2>3. Owes(h, owed) /\ owed \in 0 .. 128
    BY <2>1 DEF Owes
  <2> QED BY <1>8, <1>11, <2>2, <2>3 DEF GeneralDma
<1>12. ASSUME NEW flags \in SUBSET IrqBits, WriteIf(flags) PROVE LcdInv'
  BY <1>12 DEF WriteIf, TypeOK, Position, Owes, FilesAtVBlank, FramePhase, AtVBlank,
               AccumInMode, RowOrder
<1> QED BY <1>3, <1>4, <1>5, <1>6, <1>7, <1>9, <1>10, <1>11, <1>12 DEF GameWrite

\* Each branch of LcdStep enters a mode with less than MaxTicks on the clock.
LEMMA LeaveModeAccum ==
  ASSUME LcdInv, NEW m \in 0 .. 3, NEW t \in 1 .. MaxTicks, LeaveMode(m, t)
  PROVE  lcdTickAccum' \in Nat /\ lcdTickAccum' < MaxTicks
<1>1. lcdTickAccum \in Nat /\ lcdTickAccum < Duration(m)
  BY DEF LcdInv, TypeOK, AccumInMode, LeaveMode
<1>2. Duration(m) \in Nat /\ lcdTickAccum + t >= Duration(m)
  BY DurationBound DEF LeaveMode
<1> QED BY <1>1, <1>2, LcdAssumption DEF LeaveMode

\* What every branch except the end of mode 3 leaves alone, and the invariant
\* follows from where the branch puts the counters.
LEMMA LcdStepInv == ASSUME LcdInv, NEW t \in 1 .. MaxTicks, LcdStep(t) PROVE LcdInv'
<1> USE LcdAssumption
<1>1. /\ TypeOK /\ Position(lcd) /\ RowOrder /\ Owes(hdma, owed) /\ AccumInMode
      /\ FilesAtVBlank /\ FramePhase
  BY DEF LcdInv
<1>2. /\ pc = "frame" /\ ~frameDone
      /\ pc' = pc /\ reg' = reg /\ saved' = saved
  BY DEF LcdStep, InInstruction
<1>3. FilesAtVBlank' /\ reg' \in Registers /\ saved' \in [Slots -> SavedState \cup {NoState}]
  BY <1>1, <1>2 DEF FilesAtVBlank, TypeOK
<1>4. /\ lcd \in Counters
      /\ lcd.mode \in 0 .. 3 /\ lcd.ly \in Byte /\ lcd.windowLine \in Byte
      /\ lcd.ly \in 0 .. 255 /\ lcd.windowLine \in 0 .. 255
  BY <1>1, CounterTypes DEF TypeOK
<1>5. NextLine \in Byte /\ (lcd.ly < 255 => NextLine = lcd.ly + 1)
  <2>1. NextLine \in Byte
    BY <1>4, ByteFacts DEF NextLine
  <2>2. ASSUME lcd.ly < 255 PROVE NextLine = lcd.ly + 1
    BY <1>4, <2>2 DEF NextLine
  <2> QED BY <2>1, <2>2
<1>6. \A n \in 0 .. 256 : \A sources : StatIrq(n, sources) \in SUBSET IrqBits
  BY DEF StatIrq, IrqBits
\* The branches that keep hdma, owed and row, end before VBlank and leave the clock in the mode.
<1>7. ASSUME lcd' \in Counters, intFlags' \in SUBSET IrqBits,
             UNCHANGED <<hdma, frameDone, row, owed>>,
             Position(lcd)', RowOrder', lcdTickAccum' \in Nat, AccumInMode'
      PROVE  LcdInv'
  <2>1. TypeOK'
    BY <1>1, <1>2, <1>3, <1>7 DEF TypeOK
  <2>2. FramePhase'
    BY <1>2, <1>7 DEF FramePhase
  <2>3. Owes(hdma, owed)'
    BY <1>1, <1>7 DEF Owes
  <2> QED BY <1>3, <1>7, <2>1, <2>2, <2>3 DEF LcdInv
<1>8. ASSUME lcd' \in Counters, lcdTickAccum' \in Nat, lcdTickAccum' < MaxTicks PROVE AccumInMode'
  BY <1>8, DurationBound, CounterTypes DEF AccumInMode
<1>9. CASE LcdOff
  <2>1. lcd' \in Counters /\ lcd'.mode = 0 /\ lcd'.ly = 0 /\ lcd'.windowLine = 0
    BY <1>4, <1>9, ByteFacts DEF LcdOff, Counter, Counters
  <2>2. Position(lcd)' /\ RowOrder'
    BY <2>1 DEF Position, RowOrder
  <2>3. lcdTickAccum' = 0 /\ intFlags' \in SUBSET IrqBits
    BY <1>1, <1>9 DEF LcdOff, TypeOK
  <2>4. AccumInMode'
    BY <1>8, <2>1, <2>3
  <2> QED BY <1>7, <1>9, <2>1, <2>2, <2>3, <2>4 DEF LcdOff
<1>10. CASE StayInMode(t)
  <2>1. lcd' = lcd /\ intFlags' = intFlags /\ row' = row /\ lcdTickAccum' = lcdTickAccum + t
    BY <1>10 DEF StayInMode
  <2>2. Position(lcd)' /\ RowOrder'
    BY <1>1, <2>1 DEF Position, RowOrder
  <2>3. AccumInMode' /\ lcdTickAccum' \in Nat
    <3>1. Duration(lcd'.mode) = Duration(lcd.mode) /\ lcdTickAccum \in Nat
      BY <1>1, <2>1 DEF TypeOK
    <3> QED BY <1>10, <2>1, <3>1 DEF StayInMode, AccumInMode
  <2>4. intFlags' \in SUBSET IrqBits
    BY <1>1, <2>1 DEF TypeOK
  <2> QED BY <1>4, <1>7, <1>10, <2>1, <2>2, <2>3, <2>4 DEF StayInMode
<1>11. CASE VBlankEnd(t)
  <2>1. /\ lcd' \in Counters
        /\ lcd'.mode = 2 /\ lcd'.ly = 0 /\ lcd'.windowLine = lcd.windowLine
    BY <1>4, <1>11, ByteFacts DEF VBlankEnd, Counter, Counters
  <2>2. lcd.ly = 0 /\ lcd.windowLine = 0
    BY <1>1, <1>11 DEF VBlankEnd, LeaveMode, Position
  <2>3. Position(lcd)' /\ RowOrder'
    BY <2>1, <2>2 DEF Position, RowOrder
  <2>4. intFlags' \in SUBSET IrqBits
    BY <1>1, <1>5, <1>6, <1>11 DEF VBlankEnd, TypeOK, Byte
  <2>5. lcdTickAccum' \in Nat /\ lcdTickAccum' < MaxTicks
    BY <1>11, LeaveModeAccum DEF VBlankEnd
  <2> QED BY <1>7, <1>8, <1>11, <2>1, <2>3, <2>4, <2>5 DEF VBlankEnd
<1>12. CASE VBlankLine(t)
  <2>1. /\ lcd' \in Counters
        /\ lcd'.mode = 1 /\ lcd'.ly = NextLine /\ lcd'.windowLine = lcd.windowLine
    BY <1>4, <1>5, <1>12, ByteFacts DEF VBlankLine, Counter, Counters
  <2>2. lcd.mode = 1 /\ VisibleLines <= lcd.ly /\ lcd.ly < LastLine
    BY <1>1, <1>4, <1>12 DEF VBlankLine, LeaveMode, Position
  <2>6. NextLine = lcd.ly + 1 /\ lcd.ly \in Nat
    BY <1>4, <1>5, <2>2
  <2>3. Position(lcd)' /\ RowOrder'
    BY <2>1, <2>2, <2>6 DEF Position, RowOrder
  <2>4. intFlags' \in SUBSET IrqBits
    BY <1>1, <1>5, <1>6, <1>12 DEF VBlankLine, TypeOK, Byte
  <2>5. lcdTickAccum' \in Nat /\ lcdTickAccum' < MaxTicks
    BY <1>12, LeaveModeAccum DEF VBlankLine
  <2> QED BY <1>7, <1>8, <1>12, <2>1, <2>3, <2>4, <2>5 DEF VBlankLine
<1>13. CASE VBlankWrap(t)
  <2>1. lcd' \in Counters /\ lcd'.mode = 1 /\ lcd'.ly = 0 /\ lcd'.windowLine = 0
    BY <1>4, <1>13, ByteFacts DEF VBlankWrap, Counter, Counters
  <2>2. Position(lcd)' /\ RowOrder'
    BY <1>13, <2>1 DEF Position, RowOrder, VBlankWrap, LeaveMode
  <2>3. intFlags' \in SUBSET IrqBits
    BY <1>1, <1>5, <1>6, <1>13 DEF VBlankWrap, TypeOK, Byte
  <2>4. lcdTickAccum' \in Nat /\ lcdTickAccum' < MaxTicks
    BY <1>13, LeaveModeAccum DEF VBlankWrap
  <2> QED BY <1>7, <1>8, <1>13, <2>1, <2>2, <2>3, <2>4 DEF VBlankWrap
<1>14. CASE OamDone(t)
  <2>1. /\ lcd' \in Counters
        /\ lcd'.mode = 3 /\ lcd'.ly = lcd.ly /\ lcd'.windowLine = lcd.windowLine
    BY <1>4, <1>14, ByteFacts DEF OamDone, Counter, Counters
  <2>2. lcd.mode = 2 /\ row' = row
    BY <1>14 DEF OamDone, LeaveMode
  <2>3. Position(lcd)' /\ RowOrder'
    BY <1>1, <2>1, <2>2 DEF Position, RowOrder
  <2>4. intFlags' \in SUBSET IrqBits
    BY <1>1, <1>14 DEF OamDone, TypeOK
  <2>5. lcdTickAccum' \in Nat /\ lcdTickAccum' < MaxTicks
    BY <1>14, LeaveModeAccum DEF OamDone
  <2> QED BY <1>7, <1>8, <1>14, <2>1, <2>3, <2>4, <2>5 DEF OamDone
<1>15. CASE NextVisibleLine(t)
  <2>1. /\ lcd' \in Counters
        /\ lcd'.mode = 2 /\ lcd'.ly = NextLine /\ lcd'.windowLine = lcd.windowLine
    BY <1>4, <1>5, <1>15, ByteFacts DEF NextVisibleLine, Counter, Counters
  <2>2. lcd.mode = 0 /\ row' = row /\ NextLine # VisibleLines
    BY <1>15 DEF NextVisibleLine, LeaveMode, FrameEnds
  <2>3. NextLine = lcd.ly + 1 /\ NextLine < VisibleLines
    BY <1>1, <1>4, <1>5, <2>2 DEF Position
  <2>4. Position(lcd)' /\ RowOrder'
    BY <1>1, <1>4, <2>1, <2>2, <2>3 DEF Position, RowOrder
  <2>5. intFlags' \in SUBSET IrqBits
    BY <1>1, <1>5, <1>6, <1>15 DEF NextVisibleLine, TypeOK, Byte
  <2>6. lcdTickAccum' \in Nat /\ lcdTickAccum' < MaxTicks
    BY <1>15, LeaveModeAccum DEF NextVisibleLine
  <2> QED BY <1>7, <1>8, <1>15, <2>1, <2>4, <2>5, <2>6 DEF NextVisibleLine
<1>16. CASE VBlankStart(t)
  <2>1. /\ lcd' \in Counters
        /\ lcd'.mode = 1 /\ lcd'.ly = VisibleLines /\ lcd'.windowLine = lcd.windowLine
    BY <1>4, <1>5, <1>16, ByteFacts DEF VBlankStart, FrameEnds, Counter, Counters
  <2>2. Position(lcd)' /\ RowOrder'
    BY <2>1 DEF Position, RowOrder
  <2>3. intFlags' \in SUBSET IrqBits /\ "vblank" \in intFlags'
    <3>1. intFlags' = intFlags \cup StatIrq(NextLine, {"vblank"}) \cup {"vblank"}
      BY <1>16 DEF VBlankStart
    <3>2. intFlags \in SUBSET IrqBits /\ StatIrq(NextLine, {"vblank"}) \in SUBSET IrqBits
      BY <1>1, <1>5, <1>6 DEF TypeOK, Byte
    <3> QED BY <3>1, <3>2 DEF IrqBits
  <2>4. lcdTickAccum' \in Nat /\ lcdTickAccum' < MaxTicks /\ AccumInMode'
    BY <1>8, <1>16, <2>1, LeaveModeAccum DEF VBlankStart
  <2>5. frameDone' = TRUE /\ hdma' = hdma /\ owed' = owed /\ row' = row
    BY <1>16 DEF VBlankStart
  <2>6. TypeOK'
    BY <1>1, <1>2, <1>3, <2>1, <2>3, <2>4, <2>5 DEF TypeOK
  <2>7. FramePhase'
    BY <1>2, <2>1, <2>3, <2>4, <2>5 DEF FramePhase, AtVBlank
  <2>8. Owes(hdma, owed)'
    BY <1>1, <2>5 DEF Owes
  <2> QED BY <1>3, <2>2, <2>4, <2>6, <2>7, <2>8 DEF LcdInv
<1>17. CASE DrawDone(t)
  <2>1. WindowLineAfter \in Byte /\ WindowLineAfter <= lcd.windowLine + 1
    BY <1>4, ByteFacts DEF WindowLineAfter, WindowShown
  <2>2. /\ lcd' \in Counters
        /\ lcd'.mode = 0 /\ lcd'.ly = lcd.ly /\ lcd'.windowLine = WindowLineAfter
    BY <1>4, <1>17, <2>1, ByteFacts DEF DrawDone, Counter, Counters
  <2>3. lcd.mode = 3 /\ row' = lcd.ly /\ frameDone' = frameDone
    BY <1>17 DEF DrawDone, LeaveMode
  <2>4. WindowLineAfter \in Nat
    BY <2>1 DEF Byte
  <2>5. Position(lcd)' /\ RowOrder'
    <3>1. lcd.ly < VisibleLines /\ lcd.windowLine <= lcd.ly
      BY <1>1, <2>3 DEF Position
    <3>2. lcd.windowLine \in Nat /\ lcd.ly \in Nat
      BY <1>4
    <3>3. WindowLineAfter <= lcd.ly + 1
      BY <2>1, <2>4, <3>1, <3>2, Arithmetic
    <3> QED BY <2>2, <2>3, <3>1, <3>3 DEF Position, RowOrder
  <2>6. intFlags' \in SUBSET IrqBits
    BY <1>1, <1>17 DEF DrawDone, TypeOK, IrqBits
  <2>7. lcdTickAccum' \in Nat /\ lcdTickAccum' < MaxTicks /\ AccumInMode'
    BY <1>8, <1>17, <2>2, LeaveModeAccum DEF DrawDone
  <2>8. Owes(hdma, owed)' /\ hdma' \in Transfer /\ owed' \in 0 .. 128
    <3>1. CASE ~hdma.active
      BY <1>1, <1>17, <3>1 DEF DrawDone, Owes, TypeOK
    <3>2. CASE hdma.active
      <4>1. hdma \in Transfer /\ owed = hdma.length + 1
        BY <1>1, <3>2 DEF TypeOK, Owes
      <4>2. hdma.length \in 0 .. 127
        BY <4>1 DEF Transfer
      <4> DEFINE len == (hdma.length - 1) % 128
      <4>3. len \in 0 .. 127 /\ (hdma.length # 0 => len = hdma.length - 1)
        BY <4>2
      <4>4. hdma' = [active |-> hdma.length # 0, length |-> len] /\ owed' = owed - 1
        BY <1>17, <3>2 DEF DrawDone, TransferGoesOn, LengthAfterBlock
      <4> HIDE DEF len
      <4>5. hdma' \in Transfer /\ hdma'.active = (hdma.length # 0) /\ hdma'.length = len
        BY <4>3, <4>4 DEF Transfer
      <4>6. owed' = hdma.length
        BY <4>1, <4>2, <4>4
      <4>7. owed' \in 0 .. 128
        BY <4>2, <4>6
      <4>8. CASE hdma.length = 0
        BY <4>5, <4>6, <4>7, <4>8 DEF Owes
      <4>9. CASE hdma.length # 0
        <5>1. hdma'.active
          BY <4>5, <4>9
        <5>2. hdma'.length = hdma.length - 1
          BY <4>3, <4>5, <4>9
        <5>3. owed' = hdma'.length + 1
          BY <4>2, <4>6, <5>2
        <5> QED BY <4>5, <4>7, <5>1, <5>3 DEF Owes
      <4> QED BY <4>8, <4>9
    <3> QED BY <3>1, <3>2
  <2>9. TypeOK'
    <3>1. row' \in -1 .. 255
      BY <1>4, <2>3
    <3> QED BY <1>1, <1>2, <1>3, <2>2, <2>3, <2>6, <2>7, <2>8, <3>1 DEF TypeOK
  <2>10. FramePhase'
    BY <1>2, <2>3 DEF FramePhase
  <2> QED BY <1>3, <2>5, <2>7, <2>8, <2>9, <2>10 DEF LcdInv
<1> QED BY <1>9, <1>10, <1>11, <1>12, <1>13, <1>14, <1>15, <1>16, <1>17 DEF LcdStep

\* Everything the host does between frames happens at the start of VBlank.
LEMMA HostInv == ASSUME LcdInv, Host PROVE LcdInv'
<1> USE LcdAssumption
<1>1. /\ TypeOK /\ Position(lcd) /\ RowOrder /\ Owes(hdma, owed) /\ AccumInMode
      /\ FilesAtVBlank /\ FramePhase
  BY DEF LcdInv
<1>2. /\ ClearedCounters \in Counters /\ ClearedRegisters \in Registers /\ NoTransfer \in Transfer
      /\ Position(ClearedCounters) /\ ClearedCounters.mode = 0 /\ ClearedCounters.ly = 0
      /\ Owes(NoTransfer, 0)
  <2>1. ClearedCounters \in Counters /\ NoTransfer \in Transfer
    BY DEF ClearedCounters, Counter, Counters, NoTransfer, Transfer, Byte
  <2>2. ClearedRegisters \in Registers
    BY DEF ClearedRegisters, Registers, Byte
  <2>3. Position(ClearedCounters) /\ ClearedCounters.mode = 0 /\ ClearedCounters.ly = 0
    BY DEF ClearedCounters, Counter, Position
  <2>4. Owes(NoTransfer, 0)
    BY DEF NoTransfer, Owes
  <2> QED BY <2>1, <2>2, <2>3, <2>4
<1>3. ASSUME VideoReset, UNCHANGED saved, pc' \in {"menu", "frame"}, frameDone' = FALSE,
             intFlags' \in SUBSET IrqBits, lcdTickAccum' \in Nat, lcdTickAccum' < MaxTicks
      PROVE  LcdInv'
  <2>1. lcd' = ClearedCounters /\ reg' = ClearedRegisters /\ hdma' = NoTransfer /\ row' = -1 /\ owed' = 0
    BY <1>3 DEF VideoReset
  <2>2. /\ row' \in -1 .. 255 /\ owed' \in 0 .. 128
        /\ frameDone' \in BOOLEAN
        /\ pc' \in {"menu", "frame", "host"}
    <3>1. row' \in -1 .. 255 /\ owed' \in 0 .. 128
      BY <2>1
    <3>2. pc' \in {"menu", "frame", "host"}
      BY <1>3
    <3>3. frameDone' \in BOOLEAN
      BY <1>3
    <3> QED BY <3>1, <3>2, <3>3
  <2>3. saved' \in [Slots -> SavedState \cup {NoState}] /\ FilesAtVBlank'
    BY <1>1, <1>3 DEF TypeOK, FilesAtVBlank
  <2>4. TypeOK'
    BY <1>2, <1>3, <2>1, <2>2, <2>3 DEF TypeOK
  <2>5. Position(lcd)' /\ RowOrder' /\ Owes(hdma, owed)'
    BY <1>2, <2>1 DEF Position, RowOrder, Owes
  <2>6. AccumInMode'
    BY <1>2, <1>3, <2>1, DurationBound DEF AccumInMode
  <2>7. FramePhase'
    BY <1>3 DEF FramePhase
  <2> QED BY <2>3, <2>4, <2>5, <2>6, <2>7 DEF LcdInv
<1>4. CASE Launch
  <2>1. lcdTickAccum < MaxTicks /\ ~frameDone
    BY <1>1, <1>4 DEF Launch, FramePhase
  <2> QED BY <1>1, <1>3, <1>4, <2>1 DEF Launch, TypeOK
<1>5. CASE Restart
  <2>1. pc' \in {"menu", "frame"} /\ frameDone' = FALSE
    BY <1>5 DEF Restart
  <2>2. intFlags' \in SUBSET IrqBits
    BY <1>5 DEF Restart
  <2>3. lcdTickAccum' \in Nat /\ lcdTickAccum' < MaxTicks
    BY <1>5 DEF Restart
  <2> QED BY <1>3, <1>5, <2>1, <2>2, <2>3 DEF Restart
<1>6. CASE RunFrame \/ ExitToMenu \/ FrameReturns
  <2>1. /\ UNCHANGED <<lcd, reg, hdma, intFlags, lcdTickAccum, row, owed, saved>>
        /\ frameDone' \in BOOLEAN /\ pc' \in {"menu", "frame", "host"}
    BY <1>1, <1>6 DEF RunFrame, ExitToMenu, FrameReturns, VideoUnchanged, TypeOK
  <2>2. TypeOK'
    BY <1>1, <2>1 DEF TypeOK
  <2>3. FramePhase'
    BY <1>1, <1>6, <2>1 DEF RunFrame, ExitToMenu, FrameReturns, FramePhase
  <2>4. Position(lcd)' /\ RowOrder' /\ Owes(hdma, owed)' /\ AccumInMode' /\ FilesAtVBlank'
    BY <1>1, <2>1 DEF Position, RowOrder, Owes, AccumInMode, FilesAtVBlank
  <2> QED BY <2>2, <2>3, <2>4 DEF LcdInv
<1>7. CASE Reset
  <2>1. UNCHANGED <<pc, lcd, hdma, intFlags, lcdTickAccum, frameDone, row, owed, saved>>
    BY <1>7 DEF Reset
  <2>2. reg' \in Registers
    <3>1. reg \in Registers /\ reg' = [reg EXCEPT !.on = TRUE, !.window = FALSE, !.stat = {}]
      BY <1>1, <1>7 DEF Reset, TypeOK
    <3> QED BY <3>1 DEF Registers
  <2>3. TypeOK'
    BY <1>1, <2>1, <2>2 DEF TypeOK
  <2>4. FramePhase' /\ Position(lcd)' /\ RowOrder' /\ Owes(hdma, owed)' /\ AccumInMode'
        /\ FilesAtVBlank'
    BY <1>1, <2>1 DEF FramePhase, Position, RowOrder, Owes, AccumInMode, FilesAtVBlank
  <2> QED BY <2>3, <2>4 DEF LcdInv
<1>8. ASSUME NEW s \in Slots, SaveState(s) PROVE LcdInv'
  <2> DEFINE f == [lcd |-> lcd, reg |-> reg, hdma |-> hdma, intFlags |-> intFlags, owed |-> owed]
  <2>1. /\ UNCHANGED <<pc, lcd, reg, hdma, intFlags, lcdTickAccum, frameDone, row, owed>>
        /\ saved' = [saved EXCEPT ![s] = f] /\ pc = "host"
    BY <1>8 DEF SaveState, VideoUnchanged
  <2>2. f \in SavedState
    BY <1>1 DEF SavedState, TypeOK
  <2>3. f.lcd = lcd /\ f.intFlags = intFlags /\ f.hdma = hdma /\ f.owed = owed
    OBVIOUS
  <2>4. AtVBlank(lcd, intFlags)
    BY <1>1, <2>1 DEF FramePhase
  <2> HIDE DEF f
  <2>5. saved \in [Slots -> SavedState \cup {NoState}]
    BY <1>1 DEF TypeOK
  <2>6. saved' \in [Slots -> SavedState \cup {NoState}]
    BY <2>1, <2>2, <2>5
  <2>7. FilesAtVBlank'
    <3> SUFFICES ASSUME NEW u \in Slots, saved'[u] # NoState
                 PROVE  /\ AtVBlank(saved'[u].lcd, saved'[u].intFlags)
                        /\ Owes(saved'[u].hdma, saved'[u].owed)
      BY DEF FilesAtVBlank
    <3>1. CASE u = s
      <4>1. saved'[u] = f
        BY <2>1, <2>5, <3>1
      <4> QED BY <1>1, <2>3, <2>4, <4>1
    <3>2. CASE u # s
      <4>1. saved'[u] = saved[u]
        BY <2>1, <2>5, <3>2
      <4> QED BY <1>1, <4>1 DEF FilesAtVBlank
    <3> QED BY <3>1, <3>2
  <2>8. TypeOK'
    BY <1>1, <2>1, <2>6 DEF TypeOK
  <2>9. FramePhase' /\ Position(lcd)' /\ RowOrder' /\ Owes(hdma, owed)' /\ AccumInMode'
    BY <1>1, <2>1 DEF FramePhase, Position, RowOrder, Owes, AccumInMode
  <2> QED BY <2>7, <2>8, <2>9 DEF LcdInv
<1>9. ASSUME NEW s \in Slots, LoadState(s) PROVE LcdInv'
  <2>1. saved[s] \in SavedState
    BY <1>1, <1>9 DEF LoadState, TypeOK
  <2>2. /\ pc = "host" /\ UNCHANGED <<pc, lcdTickAccum, frameDone, saved, row>>
        /\ lcd' \in Counters /\ reg' \in Registers /\ hdma' \in Transfer
        /\ intFlags' \in SUBSET IrqBits /\ owed' \in 0 .. 128
    BY <1>9, <2>1 DEF LoadState, SavedState
  <2>3. AtVBlank(lcd', intFlags') /\ Owes(hdma', owed')
    BY <1>1, <1>9 DEF LoadState, FilesAtVBlank
  <2>4. lcdTickAccum < MaxTicks /\ lcdTickAccum \in Nat
    BY <1>1, <2>2 DEF FramePhase, TypeOK
  <2>5. TypeOK'
    BY <1>1, <2>2 DEF TypeOK
  <2>6. Position(lcd)' /\ RowOrder'
    BY <2>3 DEF AtVBlank, Position, RowOrder
  <2>7. AccumInMode'
    BY <2>2, <2>3, <2>4, DurationBound DEF AccumInMode, AtVBlank
  <2>8. FilesAtVBlank'
    BY <1>1, <2>2 DEF FilesAtVBlank
  <2>9. FramePhase' /\ Owes(hdma, owed)'
    BY <1>1, <2>2, <2>3, <2>4 DEF FramePhase, Owes
  <2> QED BY <2>5, <2>6, <2>7, <2>8, <2>9 DEF LcdInv
<1> QED BY <1>4, <1>5, <1>6, <1>7, <1>8, <1>9 DEF Host

LEMMA NextInv == LcdInv /\ [Next]_vars => LcdInv'
<1> SUFFICES ASSUME LcdInv, [Next]_vars PROVE LcdInv'
  OBVIOUS
<1>1. CASE UNCHANGED vars
  BY <1>1 DEF vars, LcdInv, TypeOK, Position, RowOrder, Owes, AccumInMode, FilesAtVBlank, FramePhase
<1>2. CASE Next
  BY <1>2, GameWriteInv, LcdStepInv, HostInv DEF Next, Step
<1> QED BY <1>1, <1>2

\* The strengthened invariant holds of the whole system.
THEOREM Invariance == Spec => []LcdInv
BY InitInv, NextInv, PTL DEF Spec

-----------------------------------------------------------------------------

\* Type correctness of every register, counter and state file.
THEOREM TypeCorrect == Spec => []TypeOK
BY Invariance, PTL DEF LcdInv

\* No instruction sequence and no loaded state makes RenderScanline write
\* outside the framebuffer (LineStart indexes it by LY without a check).
THEOREM RenderSafety == Spec => []RenderInBounds
<1>1. LcdInv => RenderInBounds
  BY DEF LcdInv, Position, RenderInBounds
<1> QED BY <1>1, Invariance, PTL

\* The window's row counter never runs ahead of LY.
THEOREM WindowSafety == Spec => []WindowBehindLine
<1>1. LcdInv => WindowBehindLine
  BY DEF LcdInv, Position, WindowBehindLine
<1> QED BY <1>1, Invariance, PTL

\* RunFrame returns, and states are saved and loaded, only at the start of VBlank.
THEOREM BoundarySafety == Spec => []BoundaryAtVBlank
<1>1. LcdInv => BoundaryAtVBlank
  BY DEF LcdInv, FramePhase, AtVBlank, BoundaryAtVBlank
<1> QED BY <1>1, Invariance, PTL

\* The tick accumulator stays inside the mode although no state file holds it.
THEOREM AccumSafety == Spec => []AccumInMode
<1>1. LcdInv => AccumInMode
  BY DEF LcdInv
<1> QED BY <1>1, Invariance, PTL

\* HBlank DMA copies exactly the number of blocks asked for in FF55.
THEOREM HdmaSafety == Spec => []HdmaOwed
<1>1. LcdInv => HdmaOwed
  BY DEF LcdInv, Owes, HdmaOwed
<1> QED BY <1>1, Invariance, PTL

\* Only mode 3 draws, and it draws the row after the last one unless the line
\* counter was restarted.
THEOREM RowsInOrder == Spec => NoRowSkipped
<1>1. LcdInv /\ [Next]_vars => [row' # row => row' = row + 1 \/ row' <= 1]_vars
  <2> SUFFICES ASSUME LcdInv, Next, row' # row PROVE row' = row + 1 \/ row' <= 1
    BY DEF vars
  <2>1. CASE GameWrite
    BY <2>1 DEF GameWrite, WriteReg, WriteLcdc, WriteStat, WriteLyc, WriteWy, WriteLy, WriteHdma,
                StartHdma, CancelHdma, GeneralDma, WriteIf
  <2>2. CASE Host
    BY <2>2 DEF Host, Launch, VideoReset, RunFrame, FrameReturns, Reset, ExitToMenu, Restart,
                SaveState, LoadState, VideoUnchanged
  <2>3. ASSUME NEW t \in 1 .. MaxTicks, LcdStep(t) PROVE row' = row + 1 \/ row' <= 1
    <3>1. DrawDone(t)
      BY <2>3 DEF LcdStep, LcdOff, StayInMode, VBlankEnd, VBlankLine, VBlankWrap, OamDone,
                  NextVisibleLine, VBlankStart
    <3> QED BY <3>1 DEF DrawDone, LeaveMode, LcdInv, RowOrder
  <2> QED BY <2>1, <2>2, <2>3 DEF Next, Step
<1> QED BY <1>1, Invariance, PTL DEF Spec, NoRowSkipped

\* When frameDone is raised the last row has been drawn.
THEOREM CompleteFrames == Spec => FrameIsComplete
<1>1. LcdInv /\ [Next]_vars => [frameDone' /\ ~frameDone => row = VisibleLines - 1]_vars
  <2> SUFFICES ASSUME LcdInv, Next, frameDone', ~frameDone PROVE row = VisibleLines - 1
    BY DEF vars
  <2>1. CASE GameWrite
    BY <2>1 DEF GameWrite, WriteReg, WriteLcdc, WriteStat, WriteLyc, WriteWy, WriteLy, WriteHdma,
                StartHdma, CancelHdma, GeneralDma, WriteIf, HostUnchanged
  <2>2. CASE Host
    BY <2>2 DEF Host, Launch, RunFrame, FrameReturns, Reset, ExitToMenu, Restart, SaveState, LoadState
  <2>3. ASSUME NEW t \in 1 .. MaxTicks, LcdStep(t) PROVE row = VisibleLines - 1
    <3>1. VBlankStart(t)
      BY <2>3 DEF LcdStep, LcdOff, StayInMode, VBlankEnd, VBlankLine, VBlankWrap, OamDone,
                  DrawDone, NextVisibleLine
    <3>2. lcd.mode = 0 /\ NextLine = VisibleLines
      BY <3>1 DEF VBlankStart, LeaveMode, FrameEnds
    <3>3. lcd.ly \in 0 .. 255 /\ lcd.ly < VisibleLines /\ (lcd.ly = row \/ lcd.ly = 0)
      BY <3>2, CounterTypes DEF LcdInv, TypeOK, Position, RowOrder
    <3>4. NextLine = lcd.ly + 1
      BY <3>3, LcdAssumption DEF NextLine
    <3> QED BY <3>2, <3>3, <3>4, LcdAssumption
  <2> QED BY <2>1, <2>2, <2>3 DEF Next, Step
<1> QED BY <1>1, Invariance, PTL DEF Spec, FrameIsComplete

=============================================================================
