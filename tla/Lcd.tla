---------------------------------- MODULE Lcd ----------------------------------
(***************************************************************************)
(* The Game Boy LCD controller and the frame loop that drives it           *)
(* (gb/Video.cpp, gb/System.cpp), with the save states that copy the video *)
(* block in and out of it.                                                 *)
(*                                                                         *)
(* RunFrame executes instructions until LcdStep raises frameDone.  Between *)
(* two LcdSteps the game may write any LCD register; between two frames    *)
(* the host may save, load, reset or leave.  The picture is abstracted to  *)
(* the number of the last row drawn, and HDMA to the number of blocks that *)
(* are still owed.                                                         *)
(***************************************************************************)
EXTENDS Integers

CONSTANTS
  VisibleLines,  \* 0x90: rows of the framebuffer, and LY at which VBlank starts
  LastLine,      \* 0x98: the last line that VBlank counts before it shows LY 0
  OamTicks,      \* 80: duration of mode 2
  DrawTicks,     \* 172: duration of mode 3
  HBlankTicks,   \* 204: duration of mode 0
  LineTicks,     \* 456: duration of one line of mode 1
  MaxTicks,      \* the most ticks one instruction and its interrupt entry take
  LycValues,     \* what the game writes to FF45
  WyValues,      \* what the game writes to FF4A
  HdmaLengths,   \* what the game writes to the low 7 bits of FF55
  StatValues,    \* the sets of interrupt sources the game enables in FF41
  Slots,         \* the save-state slots
  NoState        \* a slot without a file

StatSources == {"lyc", "oam", "vblank", "hblank"}

ASSUME LcdAssumption ==
  /\ VisibleLines \in Nat \ {0, 1} /\ LastLine \in Nat
  /\ VisibleLines < LastLine /\ LastLine < 255
  /\ MaxTicks \in Nat \ {0}
  /\ OamTicks \in Nat /\ DrawTicks \in Nat /\ HBlankTicks \in Nat /\ LineTicks \in Nat
  /\ MaxTicks <= OamTicks /\ MaxTicks <= DrawTicks
  /\ MaxTicks <= HBlankTicks /\ MaxTicks <= LineTicks
  /\ LycValues \subseteq 0 .. 255 /\ WyValues \subseteq 0 .. 255
  /\ HdmaLengths \subseteq 0 .. 127
  /\ StatValues \subseteq SUBSET StatSources

VARIABLES
  pc,            \* "menu": no game; "frame": inside RunFrame; "host": between frames
  lcd,           \* the part of IoBlock that LcdStep counts with
  reg,           \* the part of IoBlock that only the game writes
  hdma,          \* the HBlank-DMA part of IoBlock
  intFlags,      \* IF, reduced to the two bits the LCD raises
  lcdTickAccum,  \* ticks into the current mode; no save state holds it
  frameDone,     \* raised at line VisibleLines, lowered when RunFrame returns
  saved,         \* per slot: the video block and IF on disk, or NoState
  row,           \* the last framebuffer row drawn, -1 before the first
  owed           \* 16-byte blocks the running HBlank DMA still has to copy

vars == <<pc, lcd, reg, hdma, intFlags, lcdTickAccum, frameDone, saved, row, owed>>

Byte == 0 .. 255
Counters == [mode: 0 .. 3, ly: Byte, windowLine: Byte, coincidence: BOOLEAN]
Registers == [on: BOOLEAN, window: BOOLEAN, wy: Byte, lyc: Byte, stat: SUBSET StatSources]
Transfer == [active: BOOLEAN, length: 0 .. 127]  \* only 7 bits of the length are used

Counter(m, line, window, coincides) ==
  [mode |-> m, ly |-> line, windowLine |-> window, coincidence |-> coincides]

IrqBits == {"vblank", "stat"}

\* What a state file holds of this component; owed goes with the DMA length.
SavedState == [lcd: Counters, reg: Registers, hdma: Transfer,
               intFlags: SUBSET IrqBits, owed: 0 .. 128]

ASSUME NoStateAssumption == NoState \notin SavedState

TypeOK ==
  /\ pc \in {"menu", "frame", "host"}
  /\ lcd \in Counters
  /\ reg \in Registers
  /\ hdma \in Transfer
  /\ intFlags \in SUBSET IrqBits
  /\ lcdTickAccum \in Nat
  /\ frameDone \in BOOLEAN
  /\ saved \in [Slots -> SavedState \cup {NoState}]
  /\ row \in -1 .. 255
  /\ owed \in 0 .. 128

\* VideoReset clears every register from LY on, LCDC included: the LCD is off.
ClearedCounters == Counter(0, 0, 0, FALSE)
ClearedRegisters == [on |-> FALSE, window |-> FALSE, wy |-> 0, lyc |-> 0, stat |-> {}]
NoTransfer == [active |-> FALSE, length |-> 0]

VideoReset ==
  /\ lcd' = ClearedCounters
  /\ reg' = ClearedRegisters
  /\ hdma' = NoTransfer
  /\ row' = -1
  /\ owed' = 0

Init ==
  /\ pc = "menu"
  /\ lcd = ClearedCounters
  /\ reg = ClearedRegisters
  /\ hdma = NoTransfer
  /\ intFlags = {}
  /\ lcdTickAccum = 0
  /\ frameDone = FALSE
  /\ saved = [s \in Slots |-> NoState]
  /\ row = -1
  /\ owed = 0

-----------------------------------------------------------------------------
(* Register writes of the game (VideoIoWrite), any number per instruction. *)

InInstruction == pc = "frame" /\ ~frameDone
HostUnchanged == UNCHANGED <<pc, frameDone, saved>>

WriteReg(newReg) ==
  /\ InInstruction
  /\ reg' = newReg
  /\ HostUnchanged
  /\ UNCHANGED <<lcd, hdma, intFlags, lcdTickAccum, row, owed>>

\* FF40: bit 7 switches the LCD, bit 5 the window (which WX in FF4B can push
\* off the right edge, so that "window" may also change on its own).
WriteLcdc(on, window) == WriteReg([reg EXCEPT !.on = on, !.window = window])

\* FF41: the interrupt enables change, the mode and coincidence bits stay.
WriteStat(sources) == WriteReg([reg EXCEPT !.stat = sources])

\* FF45 and FF4A.
WriteLyc(v) == WriteReg([reg EXCEPT !.lyc = v])
WriteWy(v) == WriteReg([reg EXCEPT !.wy = v])

\* Mutant: the window's row counter survives the write.
WriteLyKeepsWindow ==
  /\ InInstruction
  /\ lcd' = Counter(lcd.mode, 0, lcd.windowLine, lcd.coincidence)
  /\ HostUnchanged
  /\ UNCHANGED <<reg, hdma, intFlags, lcdTickAccum, row, owed>>

\* FF44: any write restarts the line counter and the window.
WriteLy ==
  /\ InInstruction
  /\ lcd' = Counter(lcd.mode, 0, 0, lcd.coincidence)
  /\ HostUnchanged
  /\ UNCHANGED <<reg, hdma, intFlags, lcdTickAccum, row, owed>>

WriteHdma(newHdma, newOwed) ==
  /\ InInstruction
  /\ hdma' = newHdma
  /\ owed' = newOwed
  /\ HostUnchanged
  /\ UNCHANGED <<lcd, reg, intFlags, lcdTickAccum, row>>

\* FF55 with bit 7: a transfer of len + 1 blocks, one per HBlank, (re)starts.
StartHdma(len) == WriteHdma([active |-> TRUE, length |-> len], len + 1)

\* FF55 without bit 7 while one runs: it is cancelled.
CancelHdma(len) == hdma.active /\ WriteHdma([active |-> FALSE, length |-> len], 0)

\* FF55 without bit 7 otherwise: all blocks are copied at once.
GeneralDma == ~hdma.active /\ WriteHdma([active |-> FALSE, length |-> 127], owed)

\* The game acknowledges or forges interrupt flags (FF0F, ServiceInterrupts).
WriteIf(flags) ==
  /\ InInstruction
  /\ intFlags' = flags
  /\ HostUnchanged
  /\ UNCHANGED <<lcd, reg, hdma, lcdTickAccum, row, owed>>

GameWrite ==
  \/ \E on, window \in BOOLEAN : WriteLcdc(on, window)
  \/ \E sources \in StatValues : WriteStat(sources)
  \/ WriteLy
  \/ \E v \in LycValues : WriteLyc(v)
  \/ \E v \in WyValues : WriteWy(v)
  \/ \E len \in HdmaLengths : StartHdma(len) \/ CancelHdma(len)
  \/ GeneralDma
  \/ \E flags \in SUBSET IrqBits : WriteIf(flags)

-----------------------------------------------------------------------------
(* LcdStep(t), one disjunct per branch of the code. *)

Duration(m) ==
  CASE m = 0 -> HBlankTicks [] m = 1 -> LineTicks
    [] m = 2 -> OamTicks    [] m = 3 -> DrawTicks

\* The STAT bit of IF: LYC compares equal, or one of the sources is enabled.
StatIrq(line, sources) ==
  IF (line = reg.lyc /\ "lyc" \in reg.stat) \/ sources \cap reg.stat # {}
  THEN {"stat"} ELSE {}

\* Mutant: switching the LCD off leaves LY where it is.
LcdOffKeepsLine ==
  /\ ~reg.on
  /\ lcd' = Counter(0, lcd.ly, 0, lcd.coincidence)
  /\ lcdTickAccum' = 0
  /\ UNCHANGED <<hdma, intFlags, frameDone, row, owed>>

LcdOff ==
  /\ ~reg.on
  /\ lcd' = Counter(0, 0, 0, lcd.coincidence)
  /\ lcdTickAccum' = 0
  /\ UNCHANGED <<hdma, intFlags, frameDone, row, owed>>

\* Mutant: the mode's last tick is compared with <= instead of <.
StayInModeLate(t) ==
  /\ reg.on
  /\ lcdTickAccum + t <= Duration(lcd.mode)
  /\ lcdTickAccum' = lcdTickAccum + t
  /\ UNCHANGED <<lcd, hdma, intFlags, frameDone, row, owed>>

StayInMode(t) ==
  /\ reg.on
  /\ lcdTickAccum + t < Duration(lcd.mode)
  /\ lcdTickAccum' = lcdTickAccum + t
  /\ UNCHANGED <<lcd, hdma, intFlags, frameDone, row, owed>>

LeaveMode(m, t) ==
  /\ reg.on
  /\ lcd.mode = m
  /\ lcdTickAccum + t >= Duration(m)
  /\ lcdTickAccum' = lcdTickAccum + t - Duration(m)

NextLine == (lcd.ly + 1) % 256

\* Mutants: VBlank starts one line late, one line early.
LateVBlank == NextLine = VisibleLines + 1
EarlyVBlank == NextLine = VisibleLines - 1

FrameEnds == NextLine = VisibleLines

\* Mutant: mode 2 is not entered.
VBlankEndKeepsMode(t) ==
  /\ LeaveMode(1, t)
  /\ lcd.ly = 0
  /\ lcd' = Counter(1, 0, lcd.windowLine, reg.lyc = NextLine)
  /\ intFlags' = intFlags \cup StatIrq(NextLine, {"oam"})
  /\ UNCHANGED <<hdma, frameDone, row, owed>>

\* Mode 1, LY already 0: the new frame starts (LYC compares with line 1).
VBlankEnd(t) ==
  /\ LeaveMode(1, t)
  /\ lcd.ly = 0
  /\ lcd' = Counter(2, 0, lcd.windowLine, reg.lyc = NextLine)
  /\ intFlags' = intFlags \cup StatIrq(NextLine, {"oam"})
  /\ UNCHANGED <<hdma, frameDone, row, owed>>

\* Mode 1: the next VBlank line.
VBlankLine(t) ==
  /\ LeaveMode(1, t)
  /\ lcd.ly \notin {0, LastLine}
  /\ lcd' = Counter(1, NextLine, lcd.windowLine, reg.lyc = NextLine)
  /\ intFlags' = intFlags \cup StatIrq(NextLine, {})
  /\ UNCHANGED <<hdma, frameDone, row, owed>>

\* Mode 1, after LastLine: LY shows 0 for one more line of VBlank.
VBlankWrap(t) ==
  /\ LeaveMode(1, t)
  /\ lcd.ly = LastLine
  /\ lcd' = Counter(1, 0, 0, reg.lyc = 0)
  /\ intFlags' = intFlags \cup StatIrq(NextLine, {}) \cup StatIrq(0, {})
  /\ UNCHANGED <<hdma, frameDone, row, owed>>

OamDone(t) ==
  /\ LeaveMode(2, t)
  /\ lcd' = Counter(3, lcd.ly, lcd.windowLine, lcd.coincidence)
  /\ UNCHANGED <<hdma, intFlags, frameDone, row, owed>>

\* CgbRenderWindow advances its row counter on the lines it is shown on.
WindowShown == reg.window /\ reg.wy <= lcd.ly
WindowLineAfter == IF WindowShown THEN (lcd.windowLine + 1) % 256 ELSE lcd.windowLine

\* Mutant: the last block ends the transfer early.
TransferGoesOnShort == hdma.length > 1

LengthAfterBlock == (hdma.length - 1) % 128
TransferGoesOn == hdma.length # 0

\* Mode 3: RenderScanline, then one HBlank-DMA block if a transfer runs.
DrawDone(t) ==
  /\ LeaveMode(3, t)
  /\ lcd' = Counter(0, lcd.ly, WindowLineAfter, lcd.coincidence)
  /\ row' = lcd.ly
  /\ intFlags' = IF "hblank" \in reg.stat THEN intFlags \cup {"stat"} ELSE intFlags
  /\ IF hdma.active
     THEN /\ hdma' = [active |-> TransferGoesOn, length |-> LengthAfterBlock]
          /\ owed' = owed - 1
     ELSE UNCHANGED <<hdma, owed>>
  /\ UNCHANGED frameDone

\* Mode 0: another line to draw.
NextVisibleLine(t) ==
  /\ LeaveMode(0, t)
  /\ ~FrameEnds
  /\ lcd' = Counter(2, NextLine, lcd.windowLine, reg.lyc = NextLine)
  /\ intFlags' = intFlags \cup StatIrq(NextLine, {"oam"})
  /\ UNCHANGED <<hdma, frameDone, row, owed>>

\* Mutant: VBlank is only flagged where FF41 enables it.
VBlankStartUnflagged(t) ==
  /\ LeaveMode(0, t)
  /\ FrameEnds
  /\ lcd' = Counter(1, NextLine, lcd.windowLine, reg.lyc = NextLine)
  /\ intFlags' = intFlags \cup StatIrq(NextLine, {"vblank"})
  /\ frameDone' = TRUE
  /\ UNCHANGED <<hdma, row, owed>>

\* Mode 0 of the last row: VBlank, and the frame is done.
VBlankStart(t) ==
  /\ LeaveMode(0, t)
  /\ FrameEnds
  /\ lcd' = Counter(1, NextLine, lcd.windowLine, reg.lyc = NextLine)
  /\ intFlags' = intFlags \cup StatIrq(NextLine, {"vblank"}) \cup {"vblank"}
  /\ frameDone' = TRUE
  /\ UNCHANGED <<hdma, row, owed>>

LcdStep(t) ==
  /\ InInstruction
  /\ \/ LcdOff \/ StayInMode(t)
     \/ VBlankEnd(t) \/ VBlankLine(t) \/ VBlankWrap(t)
     \/ OamDone(t) \/ DrawDone(t)
     \/ NextVisibleLine(t) \/ VBlankStart(t)
  /\ UNCHANGED <<pc, reg, saved>>

-----------------------------------------------------------------------------
(* The host around the frame loop. *)

VideoUnchanged == UNCHANGED <<lcd, reg, hdma, intFlags, lcdTickAccum, row, owed>>

\* LaunchGame: gb::Init, then the same loop iteration enters RunFrame.
Launch ==
  /\ pc = "menu"
  /\ pc' = "frame"
  /\ VideoReset
  /\ UNCHANGED <<intFlags, lcdTickAccum, frameDone, saved>>

RunFrame ==
  /\ pc = "host"
  /\ pc' = "frame"
  /\ VideoUnchanged /\ UNCHANGED <<frameDone, saved>>

FrameReturns ==
  /\ pc = "frame" /\ frameDone
  /\ pc' = "host"
  /\ frameDone' = FALSE
  /\ VideoUnchanged /\ UNCHANGED saved

\* WriteState: the video block and IF go to the slot's file.
SaveState(s) ==
  /\ pc = "host"
  /\ saved' = [saved EXCEPT ![s] = [lcd |-> lcd, reg |-> reg, hdma |-> hdma,
                                    intFlags |-> intFlags, owed |-> owed]]
  /\ VideoUnchanged /\ UNCHANGED <<pc, frameDone>>

\* ReadState: a missing file leaves everything untouched.
LoadState(s) ==
  /\ pc = "host"
  /\ saved[s] # NoState
  /\ lcd' = saved[s].lcd
  /\ reg' = saved[s].reg
  /\ hdma' = saved[s].hdma
  /\ intFlags' = saved[s].intFlags
  /\ owed' = saved[s].owed
  /\ UNCHANGED <<pc, lcdTickAccum, frameDone, saved, row>>

\* gb::Reset: CpuReset switches the LCD on and disables the STAT sources.
Reset ==
  /\ pc = "host"
  /\ reg' = [reg EXCEPT !.on = TRUE, !.window = FALSE, !.stat = {}]
  /\ UNCHANGED <<pc, lcd, hdma, intFlags, lcdTickAccum, frameDone, saved, row, owed>>

ExitToMenu ==
  /\ pc = "host"
  /\ pc' = "menu"
  /\ VideoUnchanged /\ UNCHANGED <<frameDone, saved>>

\* The process is killed or closed, and started again: only the files are left.
Restart ==
  /\ pc' = "menu"
  /\ VideoReset
  /\ intFlags' = {}
  /\ lcdTickAccum' = 0
  /\ frameDone' = FALSE
  /\ UNCHANGED saved

Host ==
  \/ Launch \/ RunFrame \/ FrameReturns \/ Reset \/ ExitToMenu \/ Restart
  \/ \E s \in Slots : SaveState(s) \/ LoadState(s)

Step == \E t \in 1 .. MaxTicks : LcdStep(t)

Next == GameWrite \/ Step \/ Host

Spec == Init /\ [][Next]_vars

\* RunFrame's loop keeps executing instructions and returns once frameDone is up.
FairSpec == Spec /\ WF_vars(Step) /\ WF_vars(FrameReturns)

-----------------------------------------------------------------------------
(* Properties. *)

\* RenderScanline writes 160 pixels at row LY of a framebuffer of VisibleLines
\* rows, without a bounds check (LineStart): whatever the game writes to LCDC,
\* STAT and LY, and whatever state was loaded, mode 3 never reaches past it.
RenderInBounds == lcd.mode = 3 => lcd.ly < VisibleLines

\* The window's own row counter never runs ahead of the lines drawn, so the
\* window never shows a map row below the one the line deserves.
WindowBehindLine ==
  /\ lcd.mode \in {2, 3} => lcd.windowLine <= lcd.ly
  /\ lcd.mode = 0 => lcd.windowLine <= lcd.ly + 1

\* Between frames the LCD is always at the first tick of VBlank with its
\* interrupt pending.  Save states are taken and loaded only there, which is
\* why they can leave out lcdTickAccum and lose no VBlank.
BoundaryAtVBlank ==
  pc = "host" =>
    /\ lcd.mode = 1 /\ lcd.ly = VisibleLines
    /\ "vblank" \in intFlags
    /\ lcdTickAccum < MaxTicks

\* The accumulator is always inside the current mode, also when a mode was
\* loaded from a file that does not hold it: no step ever crosses two modes.
AccumInMode == lcdTickAccum < Duration(lcd.mode)

\* The DMA registers and the transfer agree: HBlank DMA is active exactly while
\* blocks are owed, and FF55 reads back one less than what is owed.
HdmaOwed ==
  IF hdma.active THEN owed = hdma.length + 1 ELSE owed = 0

\* Rows are drawn top to bottom without a gap; a lower row follows a higher one
\* only where the line counter was restarted (row 0, or row 1 when the restart
\* came in HBlank or with the LCD switched on).
NoRowSkipped == [][row' # row => row' = row + 1 \/ row' <= 1]_vars

\* When VBlank is announced, the last row of the framebuffer has been drawn.
FrameIsComplete == [][frameDone' /\ ~frameDone => row = VisibleLines - 1]_vars

\* As long as the game leaves the LCD on and stops resetting LY, frames keep
\* finishing (RunFrame has no other way out of its loop).
FramesFinish ==
  (<>[](reg.on) /\ <>[][~WriteLy]_vars) => []<>(pc # "frame")

=============================================================================
