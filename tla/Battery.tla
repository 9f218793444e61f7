-------------------------------- MODULE Battery --------------------------------
(***************************************************************************)
(* Cartridge RAM and its .sav file (gb/Cartridge.cpp), with what the save  *)
(* states of gb/System.cpp do to the mappers' flags.                       *)
(*                                                                         *)
(* The MBC5 flags and half of the MBC1 flags are globals (CoreBlock): they *)
(* outlive the cartridge object, and a save state holds them.  The image   *)
(* in the cartridge RAM is in no save state.  An image is one value of     *)
(* Contents; ROM and RAM banks only choose which part of it is written and *)
(* are left out, and so is the clock of MBC3.                              *)
(***************************************************************************)
EXTENDS Integers

CONSTANTS
  Games,     \* one ROM file each, so one .sav and one set of state files each
  CartType,  \* header byte 0x147 of each ROM
  Contents,  \* the images of a cartridge RAM
  Blank,     \* all zeros
  Missing,   \* no file
  Short,     \* a file that does not have the size of the RAM
  Slots,     \* the save-state slots
  NoState,   \* a slot without a file
  NoGame

Mbc1Types == 1 .. 3
Mbc3Types == 15 .. 19
Mbc5Types == 25 .. 30
RamTypes == {2, 3, 16, 18, 19, 26, 27, 29, 30}
LoadSramTypes == {16, 19, 27, 30}  \* the types cart_load calls LoadSram for

\* cart_load aborts on any other type.
ASSUME CartAssumption ==
  /\ CartType \in [Games -> {0} \cup Mbc1Types \cup Mbc3Types \cup Mbc5Types]
  /\ Blank \in Contents
  /\ Missing \notin Contents /\ Short \notin Contents /\ Missing # Short
  /\ NoGame \notin Games

VARIABLES
  pc,      \* "off": no cartridge; "running"; "flushing": inside SaveSramFile
  game,    \* carts::current
  sram,    \* the image in the cartridge
  core,    \* the mapper flags that are globals
  cart,    \* the mapper flags that are members of the cartridge object
  sav,     \* per game: the .sav file
  states,  \* per game and slot: the flags in the state file
  touched, \* history: since the launch SRAM was written or a set dirty flag loaded
  causes   \* history: why the image may differ from the file unnoticed

vars == <<pc, game, sram, core, cart, sav, states, touched, causes>>

Core == [mbc1RamEnable: BOOLEAN, mbc5RamEnable: BOOLEAN, mbc5Dirty: BOOLEAN]
Cart == [sramLoaded: BOOLEAN, sramDirty: BOOLEAN, ramEnable: BOOLEAN]
Causes == {"state", "disk"}

ASSUME NoStateAssumption == NoState \notin Core

TypeOK ==
  /\ pc \in {"off", "running", "flushing"}
  /\ game \in Games \cup {NoGame}
  /\ pc = "off" <=> game = NoGame
  /\ sram \in Contents
  /\ core \in Core
  /\ cart \in Cart
  /\ sav \in [Games -> Contents \cup {Missing, Short}]
  /\ states \in [Games \X Slots -> Core \cup {NoState}]
  /\ touched \in BOOLEAN
  /\ causes \in SUBSET Causes

ZeroCore == [mbc1RamEnable |-> FALSE, mbc5RamEnable |-> FALSE, mbc5Dirty |-> FALSE]
NewCart(loaded) == [sramLoaded |-> loaded, sramDirty |-> FALSE, ramEnable |-> FALSE]

HasMbc1(g) == CartType[g] \in Mbc1Types
HasMbc3(g) == CartType[g] \in Mbc3Types
HasMbc5(g) == CartType[g] \in Mbc5Types

\* Mutant: MBC3 has a LoadSram of its own.
SavesWithMbc3(g) == CartType[g] \in LoadSramTypes

\* LoadSram is an empty function for MBC3.
Saves(g) == CartType[g] \in LoadSramTypes /\ ~HasMbc3(g)

\* A .sav may be left by earlier versions or copied there by the player, but
\* only a game that saves looks at it.
Init ==
  /\ pc = "off"
  /\ game = NoGame
  /\ sram = Blank
  /\ core = ZeroCore
  /\ cart = NewCart(FALSE)
  /\ sav \in [Games -> Contents \cup {Missing, Short}]
  /\ \A g \in Games : ~Saves(g) => sav[g] = Missing
  /\ states = [gs \in Games \X Slots |-> NoState]
  /\ touched = FALSE
  /\ causes = {}

-----------------------------------------------------------------------------
(* The flags of the mapper that is plugged in. *)

RamEnable ==
  \/ HasMbc1(game) /\ core.mbc1RamEnable
  \/ HasMbc3(game) /\ cart.ramEnable
  \/ HasMbc5(game) /\ core.mbc5RamEnable

Dirty == IF HasMbc5(game) THEN core.mbc5Dirty ELSE cart.sramDirty

\* Mutant: an enable flag per mapper, but one dirty flag in the object for all.
SetFlagsInObject(enable, dirty) ==
  /\ core' = [core EXCEPT !.mbc1RamEnable = IF HasMbc1(game) THEN enable ELSE @,
                          !.mbc5RamEnable = IF HasMbc5(game) THEN enable ELSE @]
  /\ cart' = [cart EXCEPT !.sramDirty = dirty,
                          !.ramEnable = IF HasMbc3(game) THEN enable ELSE @]

SetFlags(enable, dirty) ==
  /\ core' = [mbc1RamEnable |-> IF HasMbc1(game) THEN enable ELSE core.mbc1RamEnable,
              mbc5RamEnable |-> IF HasMbc5(game) THEN enable ELSE core.mbc5RamEnable,
              mbc5Dirty |-> IF HasMbc5(game) THEN dirty ELSE core.mbc5Dirty]
  /\ cart' = [sramLoaded |-> cart.sramLoaded,
              sramDirty |-> IF HasMbc5(game) THEN cart.sramDirty ELSE dirty,
              ramEnable |-> IF HasMbc3(game) THEN enable ELSE cart.ramEnable]

-----------------------------------------------------------------------------
(* The game's writes to the cartridge. *)

\* A000-BFFF.
WriteSram(image) ==
  /\ pc = "running"
  /\ RamEnable /\ CartType[game] \in RamTypes
  /\ sram' = image
  /\ SetFlags(TRUE, TRUE)
  /\ touched' = TRUE
  /\ causes' = {}
  /\ UNCHANGED <<pc, game, sav, states>>

\* 0000-1FFF with 0x0A in the low bits.
EnableRam ==
  /\ pc = "running"
  /\ SetFlags(TRUE, Dirty)
  /\ UNCHANGED <<pc, game, sram, sav, states, touched, causes>>

MustFlush == Dirty /\ RamEnable /\ cart.sramLoaded

\* 0000-1FFF with anything else, and nothing to save.
DisableRam ==
  /\ pc = "running"
  /\ ~MustFlush
  /\ SetFlags(FALSE, Dirty)
  /\ UNCHANGED <<pc, game, sram, sav, states, touched, causes>>

\* The same with changes to save: SaveSramFile truncates the file first ...
BeginFlush ==
  /\ pc = "running"
  /\ MustFlush
  /\ pc' = "flushing"
  /\ sav' = [sav EXCEPT ![game] = Short]
  /\ UNCHANGED <<game, sram, core, cart, states, touched, causes>>

\* ... and has then written every byte of the image,
EndFlush ==
  /\ pc = "flushing"
  /\ pc' = "running"
  /\ sav' = [sav EXCEPT ![game] = sram]
  /\ SetFlags(FALSE, FALSE)
  /\ causes' = {}
  /\ UNCHANGED <<game, sram, states, touched>>

\* or could not write all of it (the disk is full), which nobody notices.
FlushCutShort ==
  /\ pc = "flushing"
  /\ pc' = "running"
  /\ SetFlags(FALSE, FALSE)
  /\ causes' = causes \cup {"disk"}
  /\ UNCHANGED <<game, sram, sav, states, touched>>

\* The file cannot be opened: SaveSramFile returns, and the flag is cleared.
FlushFails ==
  /\ pc = "running"
  /\ MustFlush
  /\ SetFlags(FALSE, FALSE)
  /\ causes' = causes \cup {"disk"}
  /\ UNCHANGED <<pc, game, sram, sav, states, touched>>

-----------------------------------------------------------------------------
(* The host: launches, save states, exits. *)

\* Mutant: the MBC5 constructor leaves its globals alone, as MBC1's does.
ConstructMbc5Lazily(g) == core

\* Mbc1::Mbc1, Mbc3::Mbc3, Mbc5::Mbc5: which globals a new cartridge resets.
Construct(g) == IF HasMbc5(g) THEN [core EXCEPT !.mbc5Dirty = FALSE] ELSE core

\* Mutant: a file of the wrong size counts as loaded.
LoadSucceedsAlways(g) == Saves(g)

LoadSucceeds(g) == Saves(g) /\ sav[g] # Short

\* cart_load and LoadSram: a missing file and one of the wrong size both start
\* the game with a blank image.
Launch(g) ==
  /\ pc = "off"
  /\ pc' = "running"
  /\ game' = g
  /\ core' = Construct(g)
  /\ cart' = NewCart(LoadSucceeds(g))
  /\ sram' = IF Saves(g) /\ sav[g] \in Contents THEN sav[g] ELSE Blank
  /\ touched' = FALSE
  /\ causes' = {}
  /\ UNCHANGED <<sav, states>>

\* WriteState: of the mappers, only the globals go to the file.
SaveState(s) ==
  /\ pc = "running"
  /\ states' = [states EXCEPT ![<<game, s>>] = core]
  /\ UNCHANGED <<pc, game, sram, core, cart, sav, touched, causes>>

\* ReadState.  The history variables note a dirty flag that comes or goes.
LoadState(s) ==
  /\ pc = "running"
  /\ states[<<game, s>>] # NoState
  /\ core' = states[<<game, s>>]
  /\ touched' = (touched \/ core'.mbc5Dirty)
  /\ causes' = IF core.mbc5Dirty /\ ~core'.mbc5Dirty
                THEN causes \cup {"state"} ELSE causes
  /\ UNCHANGED <<pc, game, sram, cart, sav, states>>

Unplugged ==
  /\ pc' = "off"
  /\ game' = NoGame
  /\ sram' = Blank
  /\ cart' = NewCart(FALSE)
  /\ touched' = FALSE
  /\ causes' = {}
  /\ UNCHANGED <<sav, states>>

\* FreeBuffers frees the image; nothing is flushed, and the globals stay.
ExitToMenu == pc = "running" /\ Unplugged /\ UNCHANGED core

\* The window is closed or the process dies, and is started again.
Restart == Unplugged /\ core' = ZeroCore

Next ==
  \/ \E image \in Contents : WriteSram(image)
  \/ EnableRam \/ DisableRam
  \/ BeginFlush \/ EndFlush \/ FlushCutShort \/ FlushFails
  \/ \E g \in Games : Launch(g)
  \/ \E s \in Slots : SaveState(s) \/ LoadState(s)
  \/ ExitToMenu \/ Restart

Spec == Init /\ [][Next]_vars

-----------------------------------------------------------------------------
(* Properties. *)

\* The image a launch would find; a missing file is as good as a blank one.
OnDisk(g) == IF sav[g] = Missing THEN Blank ELSE sav[g]

\* While a game with a battery runs, an image that is not on disk will be saved by the
\* next RAM disable, or it was lost track of in one of the two known ways: a write that
\* failed, or a save state whose mbc5Dirty was clear.  So leaving the game, which
\* flushes nothing, loses only what was written since the game last disabled the RAM:
\* a game that closes its SRAM after each save can be left at any other time.
LossHasCause ==
  pc = "running" /\ cart.sramLoaded /\ OnDisk(game) # sram => MustFlush \/ causes # {}

\* Only the types whose LoadSram does something ever get a .sav file: MBC1 and
\* MBC3 games write their SRAM, but no flush of theirs reaches the disk.
OnlyBatteryIsSaved == \A g \in Games : ~Saves(g) => sav[g] = Missing

\* A .sav file changes only in a session that wrote SRAM, or loaded a state that
\* says so: no flag left over from the previous cartridge flushes a new one.
FileFollowsSession == [][sav' # sav => touched]_vars

\* Seen through the files, the cartridge is the battery-backed store.
Store == INSTANCE BatteryStore WITH
  BatteryGames <- {g \in Games : Saves(g)},
  Damaged <- Short,
  ram <- sram,
  sealed <- ~cart.sramLoaded,
  disk <- [g \in Games |-> OnDisk(g)]

ImplementsStore == Store!Spec

=============================================================================
