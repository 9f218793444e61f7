----------------------------- MODULE BatteryProofs -----------------------------
(***************************************************************************)
(* For every set of cartridges, images and slots: what is not on disk will *)
(* be saved by the next RAM disable or has a known cause, only battery     *)
(* cartridges are saved, and the mappers implement the battery-backed      *)
(* store.                                                                  *)
(*                                                                         *)
(* The inductive invariant adds that only MBC5 cartridges ever load a      *)
(* .sav, so that the flag that decides a flush is the global one, and that *)
(* this flag is only set in a session that touched SRAM.  A second one     *)
(* says that it is only set while the RAM is enabled, also in the states   *)
(* that may still be loaded next to an image that can be saved.            *)
(***************************************************************************)
EXTENDS Battery, TLAPS

Plugged ==
  cart.sramLoaded => game \in Games /\ Saves(game) /\ HasMbc5(game)

Flushing ==
  pc = "flushing" => cart.sramLoaded /\ touched

DirtyIsTouched ==
  cart.sramLoaded /\ core.mbc5Dirty => touched

Marked ==
  pc = "running" /\ cart.sramLoaded /\ OnDisk(game) # sram => Dirty \/ causes # {}

BatteryInv ==
  /\ TypeOK
  /\ Plugged /\ Flushing /\ DirtyIsTouched
  /\ OnlyBatteryIsSaved
  /\ Marked

\* The only mapper with a LoadSram that cart_load ever calls is MBC5.
LEMMA SavesAreMbc5 == ASSUME NEW g \in Games, Saves(g) PROVE HasMbc5(g)
<1>1. CartType[g] \in {16, 19, 27, 30} /\ ~(CartType[g] \in 15 .. 19)
  BY DEF Saves, LoadSramTypes, HasMbc3, Mbc3Types
<1> QED BY <1>1 DEF HasMbc5, Mbc5Types

LEMMA CoreTypes ==
  ASSUME NEW c \in Core
  PROVE  c.mbc1RamEnable \in BOOLEAN /\ c.mbc5RamEnable \in BOOLEAN /\ c.mbc5Dirty \in BOOLEAN
BY DEF Core

LEMMA FlagsTyped ==
  ASSUME core \in Core, cart \in Cart, NEW e \in BOOLEAN, NEW d \in BOOLEAN, SetFlags(e, d)
  PROVE  core' \in Core /\ cart' \in Cart /\ cart'.sramLoaded = cart.sramLoaded
         /\ (HasMbc5(game) => core'.mbc5Dirty = d /\ core'.mbc5RamEnable = e)
<1>1. core' \in Core /\ (HasMbc5(game) => core'.mbc5Dirty = d /\ core'.mbc5RamEnable = e)
  BY DEF SetFlags, Core
<1>2. cart' \in Cart /\ cart'.sramLoaded = cart.sramLoaded
  BY DEF SetFlags, Cart
<1> QED BY <1>1, <1>2

LEMMA NewCartTyped ==
  ASSUME NEW b \in BOOLEAN PROVE NewCart(b) \in Cart /\ NewCart(b).sramLoaded = b
BY DEF NewCart, Cart

LEMMA DirtyTyped == ASSUME core \in Core, cart \in Cart PROVE Dirty \in BOOLEAN
BY DEF Core, Cart, Dirty

LEMMA InitInv == Init => BatteryInv
<1> SUFFICES ASSUME Init PROVE BatteryInv
  OBVIOUS
<1>1. core \in Core
  BY DEF Init, ZeroCore, Core
<1>2. cart \in Cart /\ cart.sramLoaded = FALSE
  BY NewCartTyped DEF Init
<1>3. sav \in [Games -> Contents \cup {Missing, Short}] /\ sram \in Contents
  BY CartAssumption DEF Init
<1>4. TypeOK
  BY <1>1, <1>2, <1>3, CartAssumption DEF Init, TypeOK
<1>5. OnlyBatteryIsSaved
  BY DEF Init, OnlyBatteryIsSaved
<1> QED
  BY <1>2, <1>4, <1>5 DEF BatteryInv, Plugged, Flushing, DirtyIsTouched, Marked, Init

LEMMA StepInv == BatteryInv /\ [Next]_vars => BatteryInv'
<1> SUFFICES ASSUME BatteryInv, [Next]_vars PROVE BatteryInv'
  OBVIOUS
<1>1. /\ TypeOK /\ Plugged /\ Flushing /\ DirtyIsTouched /\ OnlyBatteryIsSaved /\ Marked
      /\ core \in Core /\ cart \in Cart
      /\ sav \in [Games -> Contents \cup {Missing, Short}]
  BY DEF BatteryInv, TypeOK
<1>2. Dirty \in BOOLEAN
  BY <1>1, DirtyTyped
<1>3. HasMbc5(game) => Dirty = core.mbc5Dirty
  BY DEF Dirty
<1>4. game' = game /\ HasMbc5(game) => Dirty' = core'.mbc5Dirty
  BY DEF Dirty, HasMbc5
<1>5. ASSUME NEW image \in Contents, WriteSram(image) PROVE BatteryInv'
  <2>1. core' \in Core /\ cart' \in Cart /\ cart'.sramLoaded = cart.sramLoaded
        /\ (HasMbc5(game) => core'.mbc5Dirty = TRUE)
    BY <1>1, <1>5, FlagsTyped DEF WriteSram
  <2>2. TypeOK'
    BY <1>1, <1>5, <2>1 DEF TypeOK, WriteSram
  <2>3. Plugged' /\ Flushing' /\ DirtyIsTouched' /\ OnlyBatteryIsSaved'
    BY <1>1, <1>5, <2>1 DEF WriteSram, Plugged, Flushing, DirtyIsTouched, OnlyBatteryIsSaved,
                            Saves, HasMbc3, HasMbc5
  <2>4. Marked'
    BY <1>1, <1>4, <1>5, <2>1 DEF WriteSram, Marked, Plugged
  <2> QED BY <2>2, <2>3, <2>4 DEF BatteryInv
<1>6. CASE EnableRam
  <2>1. /\ core' \in Core /\ cart' \in Cart /\ cart'.sramLoaded = cart.sramLoaded
        /\ (HasMbc5(game) => core'.mbc5Dirty = core.mbc5Dirty)
    BY <1>1, <1>2, <1>3, <1>6, FlagsTyped DEF EnableRam
  <2>2. TypeOK'
    BY <1>1, <1>6, <2>1 DEF TypeOK, EnableRam
  <2>3. Plugged' /\ Flushing' /\ DirtyIsTouched' /\ OnlyBatteryIsSaved'
    BY <1>1, <1>6, <2>1 DEF EnableRam, Plugged, Flushing, DirtyIsTouched, OnlyBatteryIsSaved
  <2>4. Marked'
    BY <1>1, <1>3, <1>4, <1>6, <2>1 DEF EnableRam, Marked, Plugged, OnDisk
  <2> QED BY <2>2, <2>3, <2>4 DEF BatteryInv
<1>7. CASE DisableRam
  <2>1. /\ core' \in Core /\ cart' \in Cart /\ cart'.sramLoaded = cart.sramLoaded
        /\ (HasMbc5(game) => core'.mbc5Dirty = core.mbc5Dirty)
    BY <1>1, <1>2, <1>3, <1>7, FlagsTyped DEF DisableRam
  <2>2. TypeOK'
    BY <1>1, <1>7, <2>1 DEF TypeOK, DisableRam
  <2>3. Plugged' /\ Flushing' /\ DirtyIsTouched' /\ OnlyBatteryIsSaved'
    BY <1>1, <1>7, <2>1 DEF DisableRam, Plugged, Flushing, DirtyIsTouched, OnlyBatteryIsSaved
  <2>4. Marked'
    BY <1>1, <1>3, <1>4, <1>7, <2>1 DEF DisableRam, Marked, Plugged, OnDisk
  <2> QED BY <2>2, <2>3, <2>4 DEF BatteryInv
<1>8. CASE BeginFlush
  <2>1. cart.sramLoaded /\ core.mbc5Dirty /\ game \in Games /\ Saves(game)
    BY <1>1, <1>3, <1>8 DEF BeginFlush, MustFlush, Plugged
  <2>2. TypeOK'
    BY <1>1, <1>8, <2>1, CartAssumption DEF TypeOK, BeginFlush
  <2>3. Plugged' /\ Flushing' /\ DirtyIsTouched'
    BY <1>1, <1>8, <2>1 DEF BeginFlush, Plugged, Flushing, DirtyIsTouched
  <2>4. OnlyBatteryIsSaved'
    BY <1>1, <1>8, <2>1 DEF BeginFlush, OnlyBatteryIsSaved
  <2>5. Marked'
    BY <1>8 DEF BeginFlush, Marked
  <2> QED BY <2>2, <2>3, <2>4, <2>5 DEF BatteryInv
<1>9. CASE EndFlush
  <2>1. cart.sramLoaded /\ game \in Games /\ Saves(game)
    BY <1>1, <1>9 DEF EndFlush, Flushing, Plugged
  <2>2. /\ core' \in Core /\ cart' \in Cart /\ cart'.sramLoaded = cart.sramLoaded
        /\ (HasMbc5(game) => core'.mbc5Dirty = FALSE)
    BY <1>1, <1>9, FlagsTyped DEF EndFlush
  <2>3. TypeOK'
    BY <1>1, <1>9, <2>1, <2>2 DEF TypeOK, EndFlush
  <2>4. Plugged' /\ Flushing' /\ DirtyIsTouched'
    BY <1>1, <1>9, <2>2 DEF EndFlush, Plugged, Flushing, DirtyIsTouched
  <2>5. OnlyBatteryIsSaved'
    BY <1>1, <1>9, <2>1 DEF EndFlush, OnlyBatteryIsSaved
  <2>6. Marked'
    <3>1. sav'[game] = sram /\ sram' = sram /\ game' = game /\ sram \in Contents
      BY <1>1, <1>9, <2>1 DEF EndFlush, TypeOK
    <3> QED BY <3>1, CartAssumption DEF Marked, OnDisk
  <2> QED BY <2>3, <2>4, <2>5, <2>6 DEF BatteryInv
<1>10. CASE FlushCutShort \/ FlushFails
  <2>1. /\ SetFlags(FALSE, FALSE) /\ causes' = causes \cup {"disk"} /\ pc' = "running"
        /\ UNCHANGED <<game, sram, sav, states, touched>>
        /\ pc # "off"
    BY <1>10 DEF FlushCutShort, FlushFails
  <2>2. /\ core' \in Core /\ cart' \in Cart /\ cart'.sramLoaded = cart.sramLoaded
        /\ (HasMbc5(game) => core'.mbc5Dirty = FALSE)
    BY <1>1, <2>1, FlagsTyped
  <2>3. TypeOK'
    BY <1>1, <2>1, <2>2 DEF TypeOK, Causes
  <2>4. Plugged' /\ Flushing' /\ DirtyIsTouched' /\ OnlyBatteryIsSaved'
    BY <1>1, <2>1, <2>2 DEF Plugged, Flushing, DirtyIsTouched, OnlyBatteryIsSaved
  <2>5. Marked'
    BY <2>1 DEF Marked
  <2> QED BY <2>3, <2>4, <2>5 DEF BatteryInv
<1>11. ASSUME NEW g \in Games, Launch(g) PROVE BatteryInv'
  <2>1. core' \in Core /\ (HasMbc5(g) => core'.mbc5Dirty = FALSE)
    BY <1>1, <1>11 DEF Launch, Construct, Core
  <2>2. cart' \in Cart /\ cart'.sramLoaded = LoadSucceeds(g)
    BY <1>11, NewCartTyped DEF Launch, LoadSucceeds, Saves
  <2>3. sram' \in Contents
    BY <1>11, CartAssumption DEF Launch
  <2>4. TypeOK'
    BY <1>1, <1>11, <2>1, <2>2, <2>3, CartAssumption DEF TypeOK, Launch
  <2>5. Plugged'
    BY <1>11, <2>2, SavesAreMbc5 DEF Launch, Plugged, LoadSucceeds
  <2>6. Flushing' /\ OnlyBatteryIsSaved'
    BY <1>1, <1>11 DEF Launch, Flushing, OnlyBatteryIsSaved
  <2>7. DirtyIsTouched'
    BY <1>11, <2>1, <2>2, SavesAreMbc5 DEF Launch, DirtyIsTouched, LoadSucceeds
  <2>8. Marked'
    <3> SUFFICES ASSUME LoadSucceeds(g) PROVE OnDisk(g)' = sram'
      BY <1>11, <2>2 DEF Marked, Launch
    <3>1. Saves(g) /\ sav[g] \in Contents \cup {Missing}
      BY <1>1 DEF LoadSucceeds
    <3> QED BY <1>11, <3>1, CartAssumption DEF Launch, OnDisk
  <2> QED BY <2>4, <2>5, <2>6, <2>7, <2>8 DEF BatteryInv
<1>12. ASSUME NEW s \in Slots, SaveState(s) PROVE BatteryInv'
  <2>1. TypeOK'
    <3>1. pc = "running" /\ game \in Games
      BY <1>1, <1>12 DEF SaveState, TypeOK
    <3> QED BY <1>1, <1>12, <3>1 DEF TypeOK, SaveState
  <2>2. Plugged' /\ Flushing' /\ DirtyIsTouched' /\ OnlyBatteryIsSaved' /\ Marked'
    BY <1>1, <1>12 DEF SaveState, Plugged, Flushing, DirtyIsTouched, OnlyBatteryIsSaved,
                       Marked, OnDisk, Dirty
  <2> QED BY <2>1, <2>2 DEF BatteryInv
<1>13. ASSUME NEW s \in Slots, LoadState(s) PROVE BatteryInv'
  <2>1. /\ core' \in Core /\ core'.mbc5Dirty \in BOOLEAN
    <3>1. game \in Games
      BY <1>1, <1>13 DEF LoadState, TypeOK
    <3>2. states[<<game, s>>] \in Core \cup {NoState}
      BY <1>1, <3>1 DEF TypeOK
    <3> QED BY <1>13, <3>2, CoreTypes DEF LoadState
  <2>2. causes' \in SUBSET Causes /\ touched' \in BOOLEAN
    BY <1>1, <1>13, <2>1 DEF LoadState, TypeOK, Causes
  <2>3. TypeOK'
    BY <1>1, <1>13, <2>1, <2>2 DEF TypeOK, LoadState
  <2>4. Plugged' /\ Flushing' /\ DirtyIsTouched' /\ OnlyBatteryIsSaved'
    BY <1>1, <1>13 DEF LoadState, Plugged, Flushing, DirtyIsTouched, OnlyBatteryIsSaved
  <2>5. Marked'
    <3> SUFFICES ASSUME cart.sramLoaded, OnDisk(game) # sram, ~core'.mbc5Dirty
                 PROVE  causes' # {}
      BY <1>1, <1>4, <1>13, <2>1 DEF LoadState, Marked, Plugged, OnDisk
    <3>1. core.mbc5Dirty \/ causes # {}
      BY <1>1, <1>3, <1>13 DEF LoadState, Marked, Plugged
    <3> QED BY <1>13, <3>1 DEF LoadState
  <2> QED BY <2>3, <2>4, <2>5 DEF BatteryInv
<1>14. CASE ExitToMenu \/ Restart
  <2>1. Unplugged /\ core' \in Core
    <3>1. ZeroCore \in Core
      BY DEF ZeroCore, Core
    <3> QED BY <1>1, <1>14, <3>1 DEF ExitToMenu, Restart
  <2>2. cart' \in Cart /\ cart'.sramLoaded = FALSE
    BY <2>1, NewCartTyped DEF Unplugged
  <2>3. TypeOK'
    BY <1>1, <2>1, <2>2, CartAssumption DEF TypeOK, Unplugged
  <2> QED
    BY <1>1, <2>1, <2>2, <2>3 DEF BatteryInv, Unplugged, Plugged, Flushing, DirtyIsTouched,
                                  OnlyBatteryIsSaved, Marked
<1>15. CASE UNCHANGED vars
  BY <1>1, <1>15 DEF vars, BatteryInv, TypeOK, Plugged, Flushing, DirtyIsTouched,
                     OnlyBatteryIsSaved, Marked, OnDisk, Dirty
<1> QED
  BY <1>5, <1>6, <1>7, <1>8, <1>9, <1>10, <1>11, <1>12, <1>13, <1>14, <1>15 DEF Next

-----------------------------------------------------------------------------
(* A dirty flag is only set while the RAM is enabled. *)

\* In a session that can save, a RAM disable clears the flag, one way or another.
DirtyEnabled ==
  cart.sramLoaded /\ core.mbc5Dirty => core.mbc5RamEnable

\* A cartridge that could not load its .sav leaves it as it is, so that no later
\* session of it can save either: its states may hold the flag alone.
SealedStays ==
  game \in Games /\ Saves(game) /\ ~cart.sramLoaded => sav[game] = Short

CanSave(g) == Saves(g) /\ IF game = g THEN cart.sramLoaded ELSE sav[g] # Short

StatesEnabled ==
  \A g \in Games, s \in Slots :
    CanSave(g) /\ states[<<g, s>>] # NoState /\ states[<<g, s>>].mbc5Dirty
      => states[<<g, s>>].mbc5RamEnable

EnabledInv == DirtyEnabled /\ SealedStays /\ StatesEnabled

LEMMA EnabledStart == Init => EnabledInv
<1> SUFFICES ASSUME Init PROVE EnabledInv
  OBVIOUS
<1>1. cart.sramLoaded = FALSE /\ game \notin Games
  BY NewCartTyped, CartAssumption DEF Init
<1> QED BY <1>1 DEF Init, EnabledInv, DirtyEnabled, SealedStays, StatesEnabled

\* Steps that change at most the flags of the game, and its file only if it can save.
LEMMA FlagStep ==
  ASSUME BatteryInv, EnabledInv, UNCHANGED <<game, states>>,
         cart'.sramLoaded = cart.sramLoaded, DirtyEnabled',
         sav' = sav \/ (cart.sramLoaded /\ \E file : sav' = [sav EXCEPT ![game] = file])
  PROVE  EnabledInv'
<1>1. \A g \in Games : g # game => sav'[g] = sav[g]
  BY DEF BatteryInv, TypeOK
<1>2. ~cart.sramLoaded => sav' = sav
  OBVIOUS
<1>3. SealedStays'
  BY <1>2 DEF EnabledInv, SealedStays, Saves, HasMbc3
<1>4. \A g \in Games : CanSave(g)' => CanSave(g)
  BY <1>1 DEF CanSave, Saves, HasMbc3
<1>5. StatesEnabled'
  BY <1>4 DEF EnabledInv, StatesEnabled
<1> QED BY <1>3, <1>5 DEF EnabledInv

LEMMA EnabledStep == BatteryInv /\ EnabledInv /\ [Next]_vars => EnabledInv'
<1> SUFFICES ASSUME BatteryInv, EnabledInv, [Next]_vars PROVE EnabledInv'
  OBVIOUS
<1>1. /\ TypeOK /\ Plugged /\ Flushing /\ DirtyEnabled /\ SealedStays /\ StatesEnabled
      /\ core \in Core /\ cart \in Cart
  BY DEF BatteryInv, TypeOK, EnabledInv
<1>2. Dirty \in BOOLEAN
  BY <1>1, DirtyTyped
<1>3. ASSUME NEW image \in Contents, WriteSram(image) PROVE EnabledInv'
  <2>1. cart'.sramLoaded = cart.sramLoaded /\ (HasMbc5(game) => core'.mbc5RamEnable = TRUE)
    BY <1>1, <1>3, FlagsTyped DEF WriteSram
  <2>2. DirtyEnabled'
    BY <1>1, <2>1 DEF DirtyEnabled, Plugged
  <2> QED BY <1>3, <2>1, <2>2, FlagStep DEF WriteSram
<1>4. CASE EnableRam
  <2>1. cart'.sramLoaded = cart.sramLoaded /\ (HasMbc5(game) => core'.mbc5RamEnable = TRUE)
    BY <1>1, <1>2, <1>4, FlagsTyped DEF EnableRam
  <2>2. DirtyEnabled'
    BY <1>1, <2>1 DEF DirtyEnabled, Plugged
  <2> QED BY <1>4, <2>1, <2>2, FlagStep DEF EnableRam
<1>5. CASE DisableRam
  <2>1. /\ cart'.sramLoaded = cart.sramLoaded
        /\ (HasMbc5(game) => core'.mbc5Dirty = Dirty)
    BY <1>1, <1>2, <1>5, FlagsTyped DEF DisableRam
  <2>2. cart.sramLoaded => HasMbc5(game) /\ ~Dirty
    BY <1>1, <1>5 DEF DisableRam, MustFlush, RamEnable, Dirty, Plugged, DirtyEnabled
  <2>3. DirtyEnabled'
    BY <2>1, <2>2 DEF DirtyEnabled
  <2> QED BY <1>5, <2>1, <2>3, FlagStep DEF DisableRam
<1>6. CASE BeginFlush
  <2>1. cart.sramLoaded /\ DirtyEnabled'
    BY <1>1, <1>6 DEF BeginFlush, MustFlush, DirtyEnabled
  <2> QED BY <1>6, <2>1, FlagStep DEF BeginFlush
<1>7. CASE EndFlush \/ FlushCutShort \/ FlushFails
  <2>1. /\ SetFlags(FALSE, FALSE) /\ UNCHANGED <<game, states>> /\ cart.sramLoaded
        /\ sav' = sav \/ sav' = [sav EXCEPT ![game] = sram]
    BY <1>1, <1>7 DEF EndFlush, FlushCutShort, FlushFails, MustFlush, Flushing
  <2>2. /\ cart'.sramLoaded = cart.sramLoaded
        /\ (HasMbc5(game) => core'.mbc5Dirty = FALSE)
    BY <1>1, <2>1, FlagsTyped
  <2>3. DirtyEnabled'
    BY <1>1, <2>1, <2>2 DEF DirtyEnabled, Plugged
  <2> QED BY <2>1, <2>2, <2>3, FlagStep
<1>8. ASSUME NEW g \in Games, Launch(g) PROVE EnabledInv'
  <2>1. cart'.sramLoaded = LoadSucceeds(g) /\ game' = g /\ UNCHANGED <<sav, states>>
    BY <1>8, NewCartTyped DEF Launch, LoadSucceeds, Saves
  <2>2. HasMbc5(g) => core'.mbc5Dirty = FALSE
    BY <1>1, <1>8 DEF Launch, Construct, Core
  <2>3. DirtyEnabled'
    BY <2>1, <2>2, SavesAreMbc5 DEF DirtyEnabled, LoadSucceeds
  <2>4. SealedStays'
    BY <2>1 DEF SealedStays, LoadSucceeds, Saves, HasMbc3
  <2>5. \A h \in Games : CanSave(h)' => CanSave(h)
    <3>1. game = NoGame
      BY <1>1, <1>8 DEF Launch, TypeOK
    <3> QED BY <2>1, <3>1, CartAssumption DEF CanSave, LoadSucceeds, Saves, HasMbc3
  <2>6. StatesEnabled'
    BY <1>1, <2>1, <2>5 DEF StatesEnabled
  <2> QED BY <2>3, <2>4, <2>6 DEF EnabledInv
<1>9. ASSUME NEW s \in Slots, SaveState(s) PROVE EnabledInv'
  <2>1. DirtyEnabled' /\ SealedStays'
    BY <1>1, <1>9 DEF SaveState, DirtyEnabled, SealedStays, Saves, HasMbc3
  <2>2. ASSUME NEW g \in Games, NEW t \in Slots, CanSave(g)', states'[<<g, t>>] # NoState,
               states'[<<g, t>>].mbc5Dirty
        PROVE  states'[<<g, t>>].mbc5RamEnable
    <3>1. CanSave(g)
      BY <1>9, <2>2 DEF SaveState, CanSave, Saves, HasMbc3
    <3>2. CASE g = game /\ t = s
      <4>1. states'[<<g, t>>] = core /\ cart.sramLoaded
        BY <1>1, <1>9, <3>1, <3>2 DEF SaveState, CanSave, TypeOK
      <4> QED BY <1>1, <2>2, <4>1 DEF DirtyEnabled
    <3>3. CASE ~(g = game /\ t = s)
      <4>1. states'[<<g, t>>] = states[<<g, t>>]
        BY <1>1, <1>9, <3>3 DEF SaveState, TypeOK
      <4> QED BY <1>1, <2>2, <3>1, <4>1 DEF StatesEnabled
    <3> QED BY <3>2, <3>3
  <2>3. StatesEnabled'
    BY <2>2 DEF StatesEnabled
  <2> QED BY <2>1, <2>3 DEF EnabledInv
<1>10. ASSUME NEW s \in Slots, LoadState(s) PROVE EnabledInv'
  <2>1. cart.sramLoaded => game \in Games /\ CanSave(game)
    BY <1>1 DEF Plugged, CanSave
  <2>2. DirtyEnabled'
    BY <1>1, <1>10, <2>1 DEF LoadState, DirtyEnabled, StatesEnabled
  <2> QED BY <1>10, <2>2, FlagStep DEF LoadState
<1>11. CASE ExitToMenu \/ Restart
  <2>1. Unplugged
    BY <1>11 DEF ExitToMenu, Restart
  <2>2. cart'.sramLoaded = FALSE /\ game' \notin Games /\ UNCHANGED <<sav, states>>
    BY <2>1, NewCartTyped, CartAssumption DEF Unplugged
  <2>3. \A g \in Games : CanSave(g)' => CanSave(g)
    BY <1>1, <2>2 DEF CanSave, SealedStays, Saves, HasMbc3
  <2>4. StatesEnabled'
    BY <1>1, <2>2, <2>3 DEF StatesEnabled
  <2> QED BY <2>2, <2>4 DEF EnabledInv, DirtyEnabled, SealedStays
<1>12. CASE UNCHANGED vars
  BY <1>1, <1>12, FlagStep DEF vars, DirtyEnabled
<1> QED
  BY <1>3, <1>4, <1>5, <1>6, <1>7, <1>8, <1>9, <1>10, <1>11, <1>12 DEF Next

-----------------------------------------------------------------------------

\* The invariant holds in every state of every session.
THEOREM Invariance == Spec => []BatteryInv
BY InitInv, StepInv, PTL DEF Spec

\* The flags and files keep their types.
THEOREM TypeCorrect == Spec => []TypeOK
<1>1. BatteryInv => TypeOK
  BY DEF BatteryInv
<1> QED BY <1>1, Invariance, PTL

\* Nor does a dirty flag ever outlast the RAM's being enabled.
THEOREM EnabledInvariance == Spec => [](BatteryInv /\ EnabledInv)
BY Invariance, EnabledStart, EnabledStep, PTL DEF Spec

\* An image that is not on disk is saved by the next RAM disable, or was lost for a
\* known cause: leaving a game loses no more than that.
THEOREM LossSafety == Spec => []LossHasCause
<1>1. BatteryInv /\ EnabledInv => LossHasCause
  <2> SUFFICES ASSUME BatteryInv, DirtyEnabled, cart.sramLoaded, Dirty PROVE MustFlush
    BY DEF BatteryInv, EnabledInv, Marked, LossHasCause
  <2>1. HasMbc5(game) /\ core.mbc5Dirty
    BY DEF BatteryInv, Plugged, Dirty
  <2> QED BY <2>1 DEF DirtyEnabled, MustFlush, RamEnable
<1> QED BY <1>1, EnabledInvariance, PTL

\* MBC1 and MBC3 games never reach the disk.
THEOREM BatterySafety == Spec => []OnlyBatteryIsSaved
<1>1. BatteryInv => OnlyBatteryIsSaved
  BY DEF BatteryInv
<1> QED BY <1>1, Invariance, PTL

\* A .sav changes only in a session that wrote SRAM or loaded a set dirty flag.
THEOREM FileSafety == Spec => FileFollowsSession
<1>1. BatteryInv /\ [Next]_vars => [sav' # sav => touched]_vars
  <2> SUFFICES ASSUME BatteryInv, Next, sav' # sav PROVE touched
    BY DEF vars
  <2>1. BeginFlush \/ EndFlush
    BY DEF Next, WriteSram, EnableRam, DisableRam, FlushCutShort, FlushFails, Launch,
           SaveState, LoadState, ExitToMenu, Restart, Unplugged
  <2>2. CASE BeginFlush
    BY <2>2 DEF BeginFlush, MustFlush, Dirty, BatteryInv, Plugged, DirtyIsTouched
  <2>3. CASE EndFlush
    BY <2>3 DEF EndFlush, BatteryInv, Flushing
  <2> QED BY <2>1, <2>2, <2>3
<1> QED BY <1>1, Invariance, PTL DEF Spec, FileFollowsSession

-----------------------------------------------------------------------------
(* Refinement of the battery-backed store. *)

Disk == [g \in Games |-> OnDisk(g)]

LEMMA InitRefines == Init => Store!Init
<1> SUFFICES ASSUME Init PROVE Store!Init
  OBVIOUS
<1>1. \A g \in Games : OnDisk(g) \in Contents \cup {Short}
  BY CartAssumption DEF Init, OnDisk
<1>2. \A g \in Games : ~Saves(g) => OnDisk(g) = Blank
  BY DEF Init, OnDisk
<1>3. cart.sramLoaded = FALSE
  BY NewCartTyped DEF Init
<1> QED BY <1>1, <1>2, <1>3 DEF Init, Store!Init

LEMMA StepRefines == BatteryInv /\ [Next]_vars => [Store!Next]_(Store!vars)
<1> SUFFICES ASSUME BatteryInv, [Next]_vars PROVE [Store!Next]_(Store!vars)
  OBVIOUS
<1>1. /\ TypeOK /\ Plugged /\ Flushing /\ OnlyBatteryIsSaved
      /\ core \in Core /\ cart \in Cart
      /\ sav \in [Games -> Contents \cup {Missing, Short}]
  BY DEF BatteryInv, TypeOK
<1>2. sav' = sav => Disk' = Disk
  BY DEF Disk, OnDisk
<1>3. ASSUME NEW file \in Contents \cup {Short}, game \in Games, sav' = [sav EXCEPT ![game] = file]
      PROVE  Disk' = [Disk EXCEPT ![game] = file]
  <2>1. \A g \in Games : sav'[g] = IF g = game THEN file ELSE sav[g]
    BY <1>1, <1>3
  <2> QED BY <2>1, CartAssumption DEF Disk, OnDisk
<1>4. cart.sramLoaded \in BOOLEAN
  BY <1>1 DEF Cart
<1>5. ASSUME NEW image \in Contents, WriteSram(image) PROVE Store!Next
  <2>1. cart'.sramLoaded = cart.sramLoaded
    BY <1>1, <1>5, FlagsTyped DEF WriteSram
  <2>2. game # NoGame /\ game' = game /\ sram' = image /\ Disk' = Disk
    BY <1>1, <1>2, <1>5 DEF WriteSram, TypeOK
  <2>3. Store!Write(image)
    BY <2>1, <2>2 DEF Store!Write, Disk
  <2> QED BY <2>3 DEF Store!Next
<1>6. ASSUME EnableRam \/ DisableRam \/ FlushCutShort \/ FlushFails PROVE UNCHANGED Store!vars
  <2>1. /\ UNCHANGED <<game, sram, sav>>
        /\ \E e, d \in BOOLEAN : SetFlags(e, d)
    BY <1>1, <1>6, DirtyTyped DEF EnableRam, DisableRam, FlushCutShort, FlushFails
  <2>2. cart'.sramLoaded = cart.sramLoaded
    BY <1>1, <2>1, FlagsTyped
  <2> QED BY <1>2, <2>1, <2>2 DEF Store!vars, Disk
<1>7. ASSUME BeginFlush PROVE Store!Damage
  <2>1. game \in Games /\ game # NoGame /\ cart.sramLoaded
    BY <1>1, <1>7 DEF BeginFlush, MustFlush, Plugged, TypeOK
  <2>2. Disk' = [Disk EXCEPT ![game] = Short]
    BY <1>3, <1>7, <2>1 DEF BeginFlush
  <2> QED BY <1>7, <2>1, <2>2 DEF BeginFlush, Store!Damage, Disk
<1>8. ASSUME EndFlush PROVE Store!Commit
  <2>1. game \in Games /\ game # NoGame /\ cart.sramLoaded /\ sram \in Contents
    BY <1>1, <1>8 DEF EndFlush, Flushing, Plugged, TypeOK
  <2>2. Disk' = [Disk EXCEPT ![game] = sram]
    BY <1>3, <1>8, <2>1 DEF EndFlush
  <2>3. cart'.sramLoaded = cart.sramLoaded
    BY <1>1, <1>8, FlagsTyped DEF EndFlush
  <2> QED BY <1>8, <2>1, <2>2, <2>3 DEF EndFlush, Store!Commit, Disk
<1>9. ASSUME NEW g \in Games, Launch(g) PROVE Store!PowerOn(g)
  <2>1. cart'.sramLoaded = LoadSucceeds(g)
    BY <1>9, NewCartTyped DEF Launch, LoadSucceeds, Saves
  <2>2. game = NoGame
    BY <1>1, <1>9 DEF Launch, TypeOK
  <2>3. sram' = IF Disk[g] = Short THEN Blank ELSE Disk[g]
    <3>1. sav[g] \in Contents \cup {Missing, Short} /\ Disk[g] = OnDisk(g)
      BY <1>1 DEF Disk
    <3>2. ~Saves(g) => sav[g] = Missing
      BY <1>1 DEF OnlyBatteryIsSaved
    <3> QED BY <1>9, <3>1, <3>2, CartAssumption DEF Launch, OnDisk
  <2>4. (~cart.sramLoaded)' = (g \notin {h \in Games : Saves(h)} \/ Disk[g] = Short)
    BY <2>1, CartAssumption DEF LoadSucceeds, Disk, OnDisk
  <2>5. Disk' = Disk
    BY <1>2, <1>9 DEF Launch
  <2> QED BY <1>9, <2>2, <2>3, <2>4, <2>5 DEF Launch, Store!PowerOn, Disk
<1>10. ASSUME NEW s \in Slots, SaveState(s) \/ LoadState(s) PROVE UNCHANGED Store!vars
  BY <1>2, <1>10 DEF SaveState, LoadState, Store!vars, Disk
<1>11. ASSUME ExitToMenu \/ Restart PROVE Store!PowerOff
  <2>1. Unplugged /\ Disk' = Disk
    BY <1>2, <1>11 DEF ExitToMenu, Restart, Unplugged
  <2>2. cart'.sramLoaded = FALSE
    BY <2>1, NewCartTyped DEF Unplugged
  <2> QED BY <2>1, <2>2 DEF Unplugged, Store!PowerOff, Disk
<1>12. CASE UNCHANGED vars
  BY <1>2, <1>12 DEF vars, Store!vars, Disk
<1> QED
  BY <1>5, <1>6, <1>7, <1>8, <1>9, <1>10, <1>11, <1>12 DEF Next, Store!Next

\* Whatever mapper is plugged in, the cartridges behave as battery-backed store.
THEOREM Refinement == Spec => ImplementsStore
BY InitRefines, StepRefines, Invariance, PTL DEF Spec, ImplementsStore, Store!Spec

=============================================================================
