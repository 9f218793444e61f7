-------------------------------- MODULE Session --------------------------------
(***************************************************************************)
(* What a game finds when it is launched, reset or loaded.  CpuReset and a *)
(* save state (gb/System.cpp) each set only a part of the core's globals:  *)
(* neither touches the HALT flag and the interrupt master enable, and only *)
(* the file holds IF and IE.  The rest is what the process was left with,  *)
(* perhaps by another game.                                                *)
(*                                                                         *)
(* A state file is overwritten in place and nobody looks whether the write *)
(* succeeded: a crash or a full disk leaves a prefix of it.  The C library *)
(* hands it to the system in multiples of its buffer.  Of what a block of  *)
(* the file holds, only the saved moment that it comes from is kept.       *)
(*                                                                         *)
(* One action is one iteration of RunFrame's loop.  The delays of EI and   *)
(* DI are in Interrupts, the position of the LCD in a frame is in Lcd.     *)
(* CoreProofs reads Interrupts and this module together, so that no name   *)
(* is in both: where is the phase, SessionInit the initial state.          *)
(***************************************************************************)
EXTENDS Integers, Sequences

CONSTANTS
  Slots,
  Sources,  \* interrupts; "vblank" is one of them
  Chunk,    \* the C library's buffer: 4096 bytes, where the head of the file has 216
  MaxSaves, \* bound: how often a state is saved
  NoFile

ASSUME SessionAssumption ==
  /\ "vblank" \in Sources /\ Chunk \in Nat /\ Chunk >= 216 /\ MaxSaves \in Nat

VARIABLES
  where,   \* "menu"; with a game "frame", inside RunFrame, or "host", between frames
  cpu,     \* halted, ime; ie and flags are IE and IF
  lcdOn,   \* LCDC bit 7
  moments, \* history: what was saved, in this order
  file,    \* by slot, the moment each block comes from: Absent, Mixed, or its number
  start    \* history: what the game waits to execute its first instruction after

sessionVars == <<where, cpu, lcdOn, moments, file, start>>

\* StateBlocks: offset and size.  The areas of memory, which lie one after the
\* other, are one block here.
Table ==
  [registers |-> <<50, 12>>, video |-> <<62, 152>>, interrupts |-> <<214, 2>>,
   memory |-> <<216, 106943>>, timer |-> <<107159, 4>>, mappers |-> <<107163, 18>>]

\* Mutant: IF and IE follow the timer's registers, as they do in the core.
TableByCore ==
  [registers |-> <<50, 12>>, video |-> <<62, 152>>, interrupts |-> <<107163, 2>>,
   memory |-> <<216, 106943>>, timer |-> <<107159, 4>>, mappers |-> <<107165, 18>>]

StateBlocks == Table
StateSize == 107181

Blocks == DOMAIN StateBlocks
Absent == 0
Mixed == -1

Cpu == [halted: BOOLEAN, ime: BOOLEAN, ie: SUBSET Sources, flags: SUBSET Sources]
Moment == [lcdOn: BOOLEAN, ie: SUBSET Sources, flags: SUBSET Sources]

SessionTypeOK ==
  /\ where \in {"menu", "frame", "host"}
  /\ cpu \in Cpu /\ lcdOn \in BOOLEAN
  /\ moments \in Seq(Moment) /\ Len(moments) <= MaxSaves
  /\ file \in [Slots -> [Blocks -> {Absent, Mixed} \union (1 .. MaxSaves)] \union {NoFile}]
  /\ start \in {"none", "launched", "reset", "loaded"}

\* ResetStateToImageDefaults: a process that has just started.
Fresh == [halted |-> FALSE, ime |-> FALSE, ie |-> {}, flags |-> {}]

SessionInit ==
  /\ where = "menu"
  /\ cpu = Fresh /\ lcdOn = FALSE
  /\ moments = <<>>
  /\ file = [s \in Slots |-> NoFile]
  /\ start = "none"

-----------------------------------------------------------------------------
(* RunFrame. *)

\* ServiceInterrupts: whatever is pending wakes the CPU, and the first is entered
\* if the master enable is on.
AfterService(c) ==
  LET pending == c.ie \intersect c.flags
  IN  IF pending = {} THEN {c}
      ELSE IF ~c.ime THEN {[c EXCEPT !.halted = FALSE]}
      ELSE {[c EXCEPT !.halted = FALSE, !.ime = FALSE, !.flags = @ \ {i}] :
              i \in IF "vblank" \in pending THEN {"vblank"} ELSE pending}

\* LcdStep and TimerStep raise the other sources in some steps.  (KeyDown runs
\* between two frames, and nothing there depends on it.)
Raised(c) == {[c EXCEPT !.flags = @ \union more] : more \in SUBSET (Sources \ {"vblank"})}

\* What RunInstruction makes of one of these states of the CPU.
Stepped(executed) == UNION {Raised(c) : c \in UNION {AfterService(e) : e \in executed}}

\* An instruction leaves anything behind.
AnyStepped == Stepped(Cpu)

\* CpuStep executes nothing while the CPU is halted.
RunCpu == IF cpu.halted THEN Stepped({cpu}) ELSE AnyStepped

CpuStep ==
  /\ lcdOn' \in IF cpu.halted THEN {lcdOn} ELSE BOOLEAN
  /\ start' = IF cpu.halted THEN start ELSE "none"

\* Mutant: VBlank is not requested with the end of the frame.
FlagsAtEndKept(c) == c.flags

\* LcdStep at the start of VBlank.
FlagsAtEnd(c) == c.flags \union {"vblank"}

\* RunInstruction; the frame goes on.
FrameGoesOn ==
  /\ where = "frame"
  /\ CpuStep /\ cpu' \in RunCpu
  /\ UNCHANGED <<where, moments, file>>

\* RunInstruction; LcdStep raises frameDone, and RunFrame returns.
FrameIsDone ==
  /\ where = "frame"
  /\ CpuStep /\ lcdOn'
  /\ \E c \in RunCpu : cpu' = [c EXCEPT !.flags = FlagsAtEnd(c)]
  /\ where' = "host"
  /\ UNCHANGED <<moments, file>>

\* The host calls RunFrame.
BeginFrame ==
  /\ where = "host"
  /\ where' = "frame"
  /\ UNCHANGED <<cpu, lcdOn, moments, file, start>>

-----------------------------------------------------------------------------
(* The host. *)

\* gb::Init: CpuReset switches the LCD on and VideoReset off again.  The first
\* frame follows at once.
Launch ==
  /\ where = "menu"
  /\ where' = "frame"
  /\ lcdOn' = FALSE
  /\ start' = "launched"
  /\ UNCHANGED <<cpu, moments, file>>

\* gb::Reset: CpuReset alone.
Reset ==
  /\ where = "host"
  /\ lcdOn' = TRUE
  /\ start' = "reset"
  /\ UNCHANGED <<where, cpu, moments, file>>

ExitToMenu ==
  /\ where = "host"
  /\ where' = "menu"
  /\ start' = "none"
  /\ UNCHANGED <<cpu, lcdOn, moments, file>>

\* The program ends, or crashes, and is started again.
Restart ==
  /\ where' = "menu"
  /\ cpu' = Fresh /\ lcdOn' = FALSE
  /\ start' = "none"
  /\ UNCHANGED <<moments, file>>

-----------------------------------------------------------------------------
(* Save states. *)

\* A file of which the first bytes are new.
Cut(old, bytes) ==
  [b \in Blocks |->
     LET first == StateBlocks[b][1]
         end == first + StateBlocks[b][2]
     IN  IF end <= bytes THEN Len(moments) + 1
         ELSE IF first >= bytes THEN IF old = NoFile THEN Absent ELSE old[b]
         ELSE Mixed]

Written(s, bytes) ==
  /\ Len(moments) < MaxSaves
  /\ moments' = Append(moments, [lcdOn |-> lcdOn, ie |-> cpu.ie, flags |-> cpu.flags])
  /\ file' = [file EXCEPT ![s] = Cut(file[s], bytes)]

\* WriteState; the pause screen is only there between two frames.
SaveState(s) ==
  /\ where = "host"
  /\ Written(s, StateSize)
  /\ UNCHANGED <<where, cpu, lcdOn, start>>

CutPoints == {k * Chunk : k \in 0 .. StateSize \div Chunk}

\* The disk is full: nobody looks at the result of the write.
SaveFallsShort(s) ==
  /\ where = "host"
  /\ \E bytes \in CutPoints : Written(s, bytes)
  /\ UNCHANGED <<where, cpu, lcdOn, start>>

\* The program dies in the middle of the write.
SaveCutShort(s) ==
  /\ where = "host"
  /\ \E bytes \in CutPoints : Written(s, bytes)
  /\ where' = "menu"
  /\ cpu' = Fresh /\ lcdOn' = FALSE
  /\ start' = "none"

\* Blocks that the file does not reach stay as they are.
ReadState(s) ==
  /\ where = "host" /\ file[s] # NoFile
  /\ LET from(b) == file[s][b]
     IN  /\ lcdOn' = IF from("video") = Absent THEN lcdOn ELSE moments[from("video")].lcdOn
         /\ cpu' = IF from("interrupts") = Absent THEN cpu
                   ELSE [cpu EXCEPT !.ie = moments[from("interrupts")].ie,
                                    !.flags = moments[from("interrupts")].flags]
         /\ start' = IF from("registers") = Absent THEN start ELSE "loaded"
  /\ UNCHANGED <<where, moments, file>>

-----------------------------------------------------------------------------
HostStep ==
  \/ Launch \/ Reset \/ ExitToMenu \/ Restart
  \/ \E s \in Slots : SaveState(s) \/ SaveFallsShort(s) \/ SaveCutShort(s) \/ ReadState(s)

SessionNext == BeginFrame \/ FrameGoesOn \/ FrameIsDone \/ HostStep

SessionSpec == SessionInit /\ [][SessionNext]_sessionVars

\* The loop of RunFrame runs, the LCD gets to its VBlank if it is left on, and the
\* host draws the game again when the user leaves it alone.
FairSpec ==
  /\ SessionSpec
  /\ WF_sessionVars(FrameGoesOn \/ FrameIsDone) /\ WF_sessionVars(FrameIsDone) /\ WF_sessionVars(BeginFrame)

-----------------------------------------------------------------------------
(* Properties. *)

\* The HALT flag is in no file and is not reset either.  But states are only saved
\* at the start of VBlank: a game that asks for VBlank goes on after it was loaded,
\* launched or reset, whatever the CPU was doing before.
GameGoesOn ==
  (start # "none" /\ "vblank" \in cpu.ie)
    ~> (start = "none" \/ "vblank" \notin cpu.ie)

\* A write that was cut short leaves a mixture of two states; the registers, the
\* position of the LCD and the interrupts are still those of one moment.
HeadIsOneMoment ==
  \A s \in Slots :
    file[s] # NoFile =>
      /\ file[s]["registers"] = file[s]["video"]
      /\ file[s]["registers"] = file[s]["interrupts"]
      /\ file[s]["registers"] # Mixed

\* CpuReset is said to be the "HLE post-boot register state", after which the LCD
\* "starts off, and the game has to enable it": a game that was launched executes.
LaunchedGameStarts == start = "launched" ~> start # "launched"

================================================================================
