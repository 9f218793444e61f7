---------------------------- MODULE AppStatesProofs ----------------------------
(***************************************************************************)
(* The application's states, for every set of pads and every length of the *)
(* animations: a cartridge is used only while there is one, save states go *)
(* to a slot of the pause menu and to the game that runs, and no key of    *)
(* the Game Boy is stuck when a game is resumed.                           *)
(*                                                                         *)
(* What has to be added to the three properties is where the values come   *)
(* from that they rely on: what the menu pointed at when a launch began,   *)
(* which submenus have a slot, and where the keys were released.           *)
(***************************************************************************)
EXTENDS AppStates, FiniteSetTheorems, TLAPS

\* A launch, which goes on for many frames, still has its game selected.
LaunchNamesGame == state = "LaunchGame" => menuSelection \in Titles

\* Calls are made in the first half of a pass and forgotten in the second.
NoCallYet == phase = "input" => stateCall = NoCall

\* A slot is only hidden (-1) in the list of options.
SlotChosen == pause.sub # 0 => pause.slot \in 0 .. 2

\* Every way out of the pause screen that the player chooses releases the keys.
KeysReleased ==
  /\ state = "Pause" /\ ~paused => keys = {}
  /\ state \notin {"InGame", "Pause"} => keys = {}

AppInv ==
  /\ TypeOK
  /\ LaunchNamesGame /\ NoCallYet /\ SlotChosen /\ KeysReleased
  /\ CartMatchesState /\ CallsUseSlots /\ KeysFollowPad

-----------------------------------------------------------------------------
(* The menus' operators. *)

LEMMA Entries == Extras = 2 /\ Credits = 3
<1>1. IsFiniteSet({0}) /\ Cardinality({0}) = 1
  BY FS_Singleton
<1>2. Cardinality({0} \cup {1}) = 2
  BY <1>1, FS_AddElement
<1>3. Titles = {0} \cup {1}
  BY AppAssumption
<1> QED BY <1>2, <1>3 DEF Extras, Credits

LEMMA AnimateTyped ==
  ASSUME NEW stage \in 0 .. 3, Animate(stage)
  PROVE  menuAnimState' \in 0 .. 3 /\ animLeft' \in 0 .. AnimFrames
BY AppAssumption DEF Animate

LEMMA LaunchStageTyped ==
  ASSUME TypeOK, LaunchStage
  PROVE  menuAnimState' \in 0 .. 3 /\ animLeft' \in 0 .. AnimFrames /\ transitionActive' \in BOOLEAN
<1>1. menuAnimState \in 0 .. 3 /\ animLeft \in 0 .. AnimFrames /\ transitionActive \in BOOLEAN
  BY DEF TypeOK
<1>2. CASE menuAnimState < 2 /\ animLeft > 1 /\ animLeft' = animLeft - 1
           /\ UNCHANGED <<menuAnimState, transitionActive>>
  BY <1>1, <1>2, AppAssumption
<1>3. CASE menuAnimState < 2 /\ Animate(menuAnimState + 1) /\ UNCHANGED transitionActive
  BY <1>1, <1>3, AnimateTyped
<1>4. CASE menuAnimState = 2 /\ Animate(3) /\ UNCHANGED transitionActive
  BY <1>1, <1>4, AnimateTyped
<1>5. CASE transitionActive' = FALSE /\ UNCHANGED <<menuAnimState, animLeft>>
  BY <1>1, <1>5
<1> QED BY <1>2, <1>3, <1>4, <1>5 DEF LaunchStage

LEMMA OpenSlotsTyped ==
  ASSUME NEW m \in PauseMenu, m.sub # 0 => m.slot \in 0 .. 2
  PROVE  /\ OpenSlots(m) \in PauseMenu
         /\ OpenSlots(m).sub # 0 => OpenSlots(m).slot \in 0 .. 2
<1>1. CASE m.sel \in {1, 2}
  <2>1. m.sel \in Submenus /\ 0 \in -1 .. 2
    BY <1>1 DEF Submenus
  <2>2. OpenSlots(m) = [m EXCEPT !.sub = m.sel, !.slot = 0]
    BY <1>1 DEF OpenSlots
  <2>3. OpenSlots(m) \in PauseMenu /\ OpenSlots(m).slot = 0
    BY <2>1, <2>2 DEF PauseMenu
  <2> QED BY <2>3
<1>2. CASE m.sel \notin {1, 2}
  BY <1>2 DEF OpenSlots
<1> QED BY <1>1, <1>2

\* Up, down and right never take the slot out of its list, nor hide it.
LEMMA MovedTyped ==
  ASSUME pause \in PauseMenu, SlotChosen, NEW p
  PROVE  /\ Moved(p) \in PauseMenu
         /\ Moved(p).sub # 0 => Moved(p).slot \in 0 .. 2
<1> DEFINE vertical == IF "up" \in p THEN MoveUp(pause)
                       ELSE IF "down" \in p THEN MoveDown(pause) ELSE pause
<1>1. /\ MoveUp(pause) \in PauseMenu
      /\ MoveUp(pause).sub # 0 => MoveUp(pause).slot \in 0 .. 2
  BY DEF MoveUp, InSlots, PauseMenu, Submenus, SlotChosen
<1>2. /\ MoveDown(pause) \in PauseMenu
      /\ MoveDown(pause).sub # 0 => MoveDown(pause).slot \in 0 .. 2
  BY DEF MoveDown, InSlots, PauseMenu, Submenus, SlotChosen
<1>3. vertical \in PauseMenu /\ (vertical.sub # 0 => vertical.slot \in 0 .. 2)
  BY <1>1, <1>2 DEF SlotChosen
<1> HIDE DEF vertical
<1>4. /\ OpenSlots(vertical) \in PauseMenu
      /\ OpenSlots(vertical).sub # 0 => OpenSlots(vertical).slot \in 0 .. 2
  BY <1>3, OpenSlotsTyped
<1>5. Moved(p) = IF "right" \in p THEN OpenSlots(vertical) ELSE vertical
  BY DEF Moved, vertical
<1> QED BY <1>3, <1>4, <1>5

-----------------------------------------------------------------------------
(* The invariant. *)

LEMMA InitInv == Init => AppInv
<1> SUFFICES ASSUME Init PROVE AppInv
  OBVIOUS
<1>1. pause \in PauseMenu /\ stateCall \in StateCalls /\ animLeft \in 0 .. AnimFrames
  BY Entries, AppAssumption DEF Init, PauseMenu, Submenus, StateCalls, NoCall
<1>2. /\ held \in Pads /\ keys \in SUBSET Buttons /\ cart \in Titles \cup {NoCart}
      /\ menuSelection \in 0 .. Credits /\ menuAnimState \in 0 .. 3
      /\ pauseSlideX \in 0 .. SlideFrames
  BY Entries, AppAssumption DEF Init
<1>3. {transitionActive, pauseClosing, paused} \subseteq BOOLEAN
  BY DEF Init
<1>4. phase = "input" /\ state = "MainMenu" /\ cart = NoCart /\ stateCall = NoCall
      /\ keys = {} /\ pause.sub = 0
  BY DEF Init
<1>5. TypeOK
  BY <1>1, <1>2, <1>3, <1>4 DEF TypeOK, States
<1> QED
  BY <1>4, <1>5 DEF AppInv, LaunchNamesGame, NoCallYet, SlotChosen, KeysReleased,
                    CartMatchesState, CallsUseSlots, KeysFollowPad, GameStates, NoCall

\* One half of a pass, in which pad is held and the state-save functions are not
\* called, keeps the invariant if it keeps these.
LEMMA WithoutCall ==
  ASSUME AppInv, stateCall' = NoCall, phase' \in {"input", "draw"}, TypeOK',
         LaunchNamesGame', SlotChosen', KeysReleased', CartMatchesState', KeysFollowPad'
  PROVE  AppInv'
BY DEF AppInv, NoCallYet, CallsUseSlots, NoCall

HandledBy(pad) == phase = "input" /\ phase' = "draw" /\ pad \in Pads /\ held' = pad

LEMMA MainMenuInv ==
  ASSUME AppInv, NEW pad, HandledBy(pad), MainMenuInput(pad) PROVE AppInv'
<1> USE DEF AppInv
<1> DEFINE p == Pressed(pad)
<1>1. /\ state = "MainMenu" /\ MoveSelection(p)
      /\ UNCHANGED <<pause, pauseClosing, pauseSlideX, paused, cart, keys, stateCall>>
  BY DEF MainMenuInput, PauseUnchanged, GameUnchanged, pauseScreen
<1>2. menuSelection \in 0 .. 3 /\ menuSelection' \in 0 .. 3
  BY <1>1, Entries DEF TypeOK, MoveSelection
<1>3. Selects(p) => menuSelection' = menuSelection
  BY <1>1 DEF Selects, MoveSelection
<1>4. /\ state' \in {"MainMenu", "Artwork", "LaunchGame", "Credits"}
      /\ state' = "LaunchGame" => menuSelection' \in Titles
      /\ menuAnimState' \in 0 .. 3 /\ animLeft' \in 0 .. AnimFrames
      /\ transitionActive' \in BOOLEAN
  <2>1. CASE UNCHANGED <<state, menuAnimState, animLeft, transitionActive>>
    BY <1>1, <2>1 DEF TypeOK
  <2>2. CASE /\ Selects(p) /\ menuSelection # Credits
             /\ state' = IF menuSelection = Extras THEN "Artwork" ELSE "LaunchGame"
             /\ Animate(0)
             /\ transitionActive' = TRUE
    BY <1>2, <1>3, <2>2, Entries, AnimateTyped, AppAssumption
  <2>3. CASE state' = "Credits" /\ UNCHANGED <<menuAnimState, animLeft, transitionActive>>
    BY <2>3 DEF TypeOK
  <2> QED BY <2>1, <2>2, <2>3 DEF MainMenuInput
<1>5. TypeOK'
  BY <1>1, <1>2, <1>4, Entries DEF TypeOK, HandledBy, States
<1>6. cart = NoCart /\ keys = {}
  BY <1>1 DEF CartMatchesState, KeysReleased, HandledBy, GameStates
<1>7. stateCall' = NoCall
  BY <1>1 DEF NoCallYet, HandledBy
<1>8. LaunchNamesGame' /\ SlotChosen' /\ KeysReleased' /\ CartMatchesState' /\ KeysFollowPad'
  BY <1>1, <1>4, <1>6 DEF LaunchNamesGame, SlotChosen, KeysReleased, CartMatchesState,
                          KeysFollowPad, GameStates
<1> QED BY <1>5, <1>7, <1>8, WithoutCall DEF HandledBy

LEMMA OutsideInv ==
  ASSUME AppInv, NEW pad, HandledBy(pad), CreditsInput \/ ArtworkInput(pad) PROVE AppInv'
<1> USE DEF AppInv
<1>1. /\ state \in {"Credits", "Artwork"} /\ state' \in {"MainMenu", "Artwork"}
      /\ UNCHANGED <<menuSelection, pause, pauseClosing, pauseSlideX, paused, cart, keys, stateCall>>
  BY DEF CreditsInput, ArtworkInput, PauseUnchanged, GameUnchanged, ScreenUnchanged, screen,
         pauseScreen
<1>2. /\ menuAnimState' \in 0 .. 3 /\ animLeft' \in 0 .. AnimFrames
      /\ transitionActive' \in BOOLEAN
  BY LaunchStageTyped DEF CreditsInput, ArtworkInput, ScreenUnchanged, screen, TypeOK
<1>3. TypeOK'
  BY <1>1, <1>2 DEF TypeOK, HandledBy, States
<1>4. cart = NoCart /\ keys = {}
  BY <1>1 DEF CartMatchesState, KeysReleased, HandledBy, GameStates
<1>5. stateCall' = NoCall
  BY <1>1 DEF NoCallYet, HandledBy
<1>6. LaunchNamesGame' /\ SlotChosen' /\ KeysReleased' /\ CartMatchesState' /\ KeysFollowPad'
  BY <1>1, <1>4 DEF LaunchNamesGame, SlotChosen, KeysReleased, CartMatchesState,
                    KeysFollowPad, GameStates
<1> QED BY <1>3, <1>5, <1>6, WithoutCall DEF HandledBy

LEMMA LaunchInv ==
  ASSUME AppInv, NEW pad, HandledBy(pad), LaunchGameInput PROVE AppInv'
<1> USE DEF AppInv
<1>1. /\ state = "LaunchGame" /\ menuSelection \in Titles
      /\ UNCHANGED <<menuSelection, menuAnimState, animLeft, transitionActive,
                     pause, pauseClosing, pauseSlideX, paused, keys, stateCall>>
      /\ \/ UNCHANGED <<state, cart>>
         \/ state' = "InGame" /\ cart' = menuSelection
  BY DEF LaunchGameInput, PauseUnchanged, ScreenUnchanged, screen, pauseScreen, LaunchNamesGame
<1>2. TypeOK'
  BY <1>1 DEF TypeOK, HandledBy, States
<1>3. cart = NoCart /\ keys = {}
  BY <1>1 DEF CartMatchesState, KeysReleased, HandledBy, GameStates
<1>4. stateCall' = NoCall
  BY <1>1 DEF NoCallYet, HandledBy
<1>5. LaunchNamesGame' /\ SlotChosen' /\ KeysReleased' /\ CartMatchesState' /\ KeysFollowPad'
  BY <1>1, <1>3, AppAssumption DEF LaunchNamesGame, SlotChosen, KeysReleased,
     CartMatchesState, KeysFollowPad, GameStates
<1> QED BY <1>2, <1>4, <1>5, WithoutCall DEF HandledBy

LEMMA ExitInv ==
  ASSUME AppInv, NEW pad, HandledBy(pad), ExitToMenuInput PROVE AppInv'
<1> USE DEF AppInv
<1>1. /\ state = "ExitToMenu" /\ state' = "MainMenu" /\ cart' = NoCart /\ Animate(0)
      /\ UNCHANGED <<menuSelection, transitionActive, pause, pauseClosing, pauseSlideX, paused,
                     keys, stateCall>>
  BY DEF ExitToMenuInput, PauseUnchanged, pauseScreen
<1>2. menuAnimState' \in 0 .. 3 /\ animLeft' \in 0 .. AnimFrames
  BY <1>1, AnimateTyped
<1>3. TypeOK'
  BY <1>1, <1>2 DEF TypeOK, HandledBy, States
<1>4. keys = {} /\ stateCall' = NoCall
  BY <1>1 DEF KeysReleased, NoCallYet, HandledBy
<1>5. LaunchNamesGame' /\ SlotChosen' /\ KeysReleased' /\ CartMatchesState' /\ KeysFollowPad'
  BY <1>1, <1>4 DEF LaunchNamesGame, SlotChosen, KeysReleased, CartMatchesState,
                    KeysFollowPad, GameStates
<1> QED BY <1>3, <1>4, <1>5, WithoutCall DEF HandledBy

\* Keys go down with their buttons, and up with them.
LEMMA InGameInv ==
  ASSUME AppInv, NEW pad, HandledBy(pad), InGameInput(pad) PROVE AppInv'
<1> USE DEF AppInv
<1> DEFINE down == (pad \cap {"up", "down", "right"}) \cup (Pressed(pad) \cap {"left", "a", "b"})
<1>1. /\ state = "InGame" /\ keys' = (keys \cup down) \ Released(pad)
      /\ UNCHANGED <<menuSelection, menuAnimState, animLeft, transitionActive,
                     pauseClosing, pauseSlideX, cart, stateCall>>
  BY DEF InGameInput, ScreenUnchanged, screen
<1>2. \/ /\ state' = "Pause" /\ paused' = TRUE
         /\ pause' = [pause EXCEPT !.sub = 0, !.sel = 0]
      \/ UNCHANGED <<state, pause, paused>>
  BY DEF InGameInput
<1>3. pad \subseteq Buttons /\ pad \in Pads /\ down \subseteq pad
  BY AppAssumption DEF HandledBy, Pressed
<1> HIDE DEF down
<1>4. pause' \in PauseMenu /\ SlotChosen'
  <2>1. pause \in PauseMenu
    BY DEF TypeOK
  <2>2. 0 \in Submenus /\ 0 \in 0 .. 5
    BY DEF Submenus
  <2>3. CASE pause' = [pause EXCEPT !.sub = 0, !.sel = 0]
    BY <2>1, <2>2, <2>3 DEF SlotChosen, PauseMenu
  <2> QED BY <1>2, <2>1, <2>3 DEF SlotChosen
<1>5. TypeOK'
  BY <1>1, <1>2, <1>3, <1>4 DEF TypeOK, HandledBy, States
<1>6. stateCall' = NoCall
  BY <1>1 DEF NoCallYet, HandledBy
<1>7. LaunchNamesGame' /\ CartMatchesState' /\ KeysReleased'
  BY <1>1, <1>2 DEF LaunchNamesGame, CartMatchesState, KeysReleased, GameStates, HandledBy
<1>8. KeysFollowPad'
  BY <1>1, <1>2, <1>3 DEF KeysFollowPad, Released, HandledBy
<1> QED BY <1>4, <1>5, <1>6, <1>7, <1>8, WithoutCall DEF HandledBy

\* A state is saved or loaded from a submenu, and every submenu has a slot.
LEMMA PauseInv ==
  ASSUME AppInv, NEW pad, HandledBy(pad), PauseInput(pad) PROVE AppInv'
<1> USE DEF AppInv
<1> DEFINE m == Moved(Pressed(pad))
<1>1. /\ state = "Pause"
      /\ UNCHANGED <<menuSelection, menuAnimState, animLeft, transitionActive, pauseSlideX, cart>>
      /\ PauseLeft(m) \/ PauseIdle(m) \/ PauseBack(m) \/ PauseConfirm(m) \/ PauseChoose(m)
  BY DEF PauseInput, ScreenUnchanged, screen
<1>2. m \in PauseMenu /\ (m.sub # 0 => m.slot \in 0 .. 2)
  BY MovedTyped DEF TypeOK
<1> HIDE DEF m
<1>3. stateCall = NoCall /\ cart # NoCart /\ cart = menuSelection
  BY <1>1 DEF NoCallYet, CartMatchesState, GameStates, HandledBy
<1>4. /\ pause' \in PauseMenu /\ SlotChosen'
      /\ pauseClosing' \in BOOLEAN /\ paused' \in BOOLEAN
      /\ state' \in {"Pause", "ExitToMenu"}
      /\ keys' = {} \/ UNCHANGED <<state, paused, keys>>
  <2>1. pauseClosing \in BOOLEAN /\ paused \in BOOLEAN
    BY DEF TypeOK
  <2>2. StayOpen \/ StartClosing => pauseClosing' \in BOOLEAN /\ paused' \in BOOLEAN
    BY <2>1 DEF StayOpen, StartClosing
  <2>3. {0, 2, 4} \subseteq Submenus /\ -1 \in -1 .. 2
    BY DEF Submenus
  <2>4. CASE PauseLeft(m)
    <3>1. pause' \in PauseMenu /\ (pause'.sub # 0 => pause'.slot \in 0 .. 2)
      BY <1>2, <2>3, <2>4 DEF PauseLeft, PauseMenu
    <3> QED BY <1>1, <2>2, <2>4, <3>1 DEF PauseLeft, SlotChosen, StayOpen
  <2>5. CASE PauseIdle(m)
    BY <1>1, <1>2, <2>2, <2>5 DEF PauseIdle, SlotChosen, StayOpen
  <2>6. CASE PauseBack(m)
    <3>1. pause' \in PauseMenu /\ (pause'.sub # 0 => pause'.slot \in 0 .. 2)
      BY <1>2, <2>3, <2>6 DEF PauseBack, PauseMenu
    <3> QED BY <1>1, <2>2, <2>6, <3>1 DEF PauseBack, SlotChosen
  <2>7. CASE PauseConfirm(m)
    <3>1. pause' \in PauseMenu /\ (pause'.sub # 0 => pause'.slot \in 0 .. 2)
      BY <1>2, <2>3, <2>7 DEF PauseConfirm, PauseMenu
    <3> QED BY <1>1, <2>2, <2>7, <3>1 DEF PauseConfirm, SlotChosen
  <2>8. CASE PauseChoose(m)
    <3>1. pause' \in PauseMenu /\ (pause'.sub # 0 => pause'.slot \in 0 .. 2)
      BY <1>2, <2>8, OpenSlotsTyped DEF PauseChoose
    <3>2. pauseClosing' \in BOOLEAN /\ paused' \in BOOLEAN
      BY <2>1, <2>2, <2>8 DEF PauseChoose
    <3> QED BY <1>1, <2>8, <3>1, <3>2 DEF PauseChoose, SlotChosen
  <2> QED BY <1>1, <2>4, <2>5, <2>6, <2>7, <2>8
<1>5. \/ stateCall' = NoCall
      \/ /\ state' = "Pause" /\ pause'.slot \in 0 .. 2
         /\ \E op \in {"save", "load"} :
              stateCall' = [op |-> op, slot |-> pause'.slot, game |-> menuSelection]
  <2>1. CASE PauseConfirm(m)
    <3>1. /\ UNCHANGED state /\ pause' \in PauseMenu /\ m.sub # 0
          /\ pause'.slot = m.slot
          /\ \/ UNCHANGED stateCall
             \/ \E op \in {"save", "load"} : Call(op)
      <4>1. {2, 4} \subseteq Submenus
        BY DEF Submenus
      <4> QED BY <1>2, <1>4, <2>1, <4>1 DEF PauseConfirm, PauseMenu
    <3> QED BY <1>1, <1>2, <1>3, <3>1 DEF Call
  <2> QED BY <1>1, <1>3, <2>1 DEF PauseLeft, PauseIdle, PauseBack, PauseChoose
<1>6. stateCall' \in StateCalls
  BY <1>3, <1>5, Entries DEF TypeOK, StateCalls
<1>7. TypeOK'
  BY <1>1, <1>4, <1>6 DEF TypeOK, HandledBy, States
<1>8. LaunchNamesGame' /\ NoCallYet' /\ CartMatchesState' /\ KeysReleased' /\ KeysFollowPad'
  BY <1>1, <1>3, <1>4 DEF LaunchNamesGame, NoCallYet, CartMatchesState, KeysReleased,
                          KeysFollowPad, GameStates, HandledBy
<1>9. CallsUseSlots'
  BY <1>1, <1>3, <1>5 DEF CallsUseSlots, NoCall
<1> QED BY <1>4, <1>7, <1>8, <1>9

\* Drawing moves the animations on, and closes the pause screen in the end.
LEMMA DrawInv == ASSUME AppInv, Draw \/ DrawInGame PROVE AppInv'
<1> USE DEF AppInv
<1>1. /\ phase = "draw" /\ phase' = "input" /\ stateCall' = NoCall
      /\ UNCHANGED <<held, cart, keys, menuSelection, pause, paused>>
  BY DEF Draw, DrawInGame, DrawMainMenu, DrawLaunch, DrawPause, DrawNothing, ScreenUnchanged,
         PauseUnchanged, screen, pauseScreen
<1>2. NoCall \in StateCalls
  BY Entries DEF NoCall, StateCalls
<1>3. state' = state \/ (state = "Pause" /\ state' = "InGame")
  BY DEF Draw, DrawInGame, DrawMainMenu, DrawLaunch, DrawPause, DrawNothing
<1>4. /\ menuAnimState' \in 0 .. 3 /\ animLeft' \in 0 .. AnimFrames
      /\ transitionActive' \in BOOLEAN
      /\ pauseSlideX' \in 0 .. SlideFrames /\ pauseClosing' \in BOOLEAN
  <2>1. /\ menuAnimState \in 0 .. 3 /\ animLeft \in 0 .. AnimFrames
        /\ transitionActive \in BOOLEAN
        /\ pauseSlideX \in 0 .. SlideFrames /\ pauseClosing \in BOOLEAN
    BY DEF TypeOK
  <2>2. CASE DrawMainMenu
    <3>1. menuAnimState' \in 0 .. 3 /\ animLeft' \in 0 .. AnimFrames
      BY <2>1, <2>2, AnimateTyped, AppAssumption DEF DrawMainMenu
    <3> QED BY <2>1, <2>2, <3>1 DEF DrawMainMenu, PauseUnchanged, pauseScreen
  <2>3. CASE DrawLaunch
    <3>1. /\ menuAnimState' \in 0 .. 3 /\ animLeft' \in 0 .. AnimFrames
          /\ transitionActive' \in BOOLEAN
      BY <2>1, <2>3, LaunchStageTyped DEF DrawLaunch
    <3> QED BY <2>1, <2>3, <3>1 DEF DrawLaunch, PauseUnchanged, pauseScreen
  <2>4. CASE DrawPause
    <3>1. pauseSlideX' \in 0 .. SlideFrames
      BY <2>1, <2>4, AppAssumption DEF DrawPause
    <3>2. pauseClosing' \in BOOLEAN
      BY <2>1, <2>4 DEF DrawPause
    <3> QED BY <2>1, <2>4, <3>1, <3>2 DEF DrawPause, ScreenUnchanged, screen
  <2>5. CASE DrawNothing \/ DrawInGame
    BY <2>1, <2>5 DEF DrawNothing, DrawInGame, ScreenUnchanged, PauseUnchanged, screen, pauseScreen
  <2> QED BY <2>2, <2>3, <2>4, <2>5 DEF Draw
<1>5. TypeOK'
  BY <1>1, <1>2, <1>3, <1>4 DEF TypeOK, States
<1>6. LaunchNamesGame' /\ SlotChosen' /\ CartMatchesState'
  BY <1>1, <1>3 DEF LaunchNamesGame, SlotChosen, CartMatchesState, GameStates
<1>7. KeysReleased' /\ KeysFollowPad'
  BY <1>1, <1>3 DEF KeysReleased, KeysFollowPad
<1> QED BY <1>1, <1>5, <1>6, <1>7, WithoutCall

LEMMA EndInv == ASSUME AppInv, ExitRequest PROVE AppInv'
<1> USE DEF AppInv
<1>1. /\ phase' = "ended" /\ cart' = NoCart
      /\ UNCHANGED <<state, held, keys, menuSelection, menuAnimState, animLeft,
                     transitionActive, pause, pauseClosing, pauseSlideX, paused>>
  BY DEF ExitRequest, ScreenUnchanged, PauseUnchanged, screen, pauseScreen
<1>2. stateCall' \in StateCalls
  BY Entries DEF ExitRequest, TypeOK, StateCalls
<1>3. TypeOK'
  BY <1>1, <1>2 DEF TypeOK
<1> QED
  BY <1>1, <1>3 DEF LaunchNamesGame, NoCallYet, SlotChosen, KeysReleased, CartMatchesState,
                    CallsUseSlots, KeysFollowPad

LEMMA StepInv == AppInv /\ [Next]_vars => AppInv'
<1> SUFFICES ASSUME AppInv, [Next]_vars PROVE AppInv'
  OBVIOUS
<1>1. CASE UpdateInput
  <2>1. PICK pad \in Pads :
          /\ HandledBy(pad)
          /\ \/ MainMenuInput(pad) \/ CreditsInput \/ ArtworkInput(pad) \/ LaunchGameInput
             \/ ExitToMenuInput \/ InGameInput(pad) \/ PauseInput(pad)
    BY <1>1 DEF UpdateInput, HandledBy
  <2> QED
    BY <2>1, MainMenuInv, OutsideInv, LaunchInv, ExitInv, InGameInv, PauseInv
<1>2. CASE UNCHANGED vars
  BY <1>2 DEF vars, screen, pauseScreen, AppInv, TypeOK, LaunchNamesGame, NoCallYet,
              SlotChosen, KeysReleased, CartMatchesState, CallsUseSlots, KeysFollowPad
<1> QED BY <1>1, <1>2, DrawInv, EndInv DEF Next, Ended

-----------------------------------------------------------------------------
(* What follows. *)

\* The invariant holds in every state of every session.
THEOREM Invariance == Spec => []AppInv
BY InitInv, StepInv, PTL DEF Spec

\* Selections, slots, stages and positions stay in their ranges.
THEOREM TypeCorrect == Spec => []TypeOK
<1>1. AppInv => TypeOK
  BY DEF AppInv
<1> QED BY <1>1, Invariance, PTL

\* The states of a game have its cartridge, no other state has one, and the menu
\* still points at the game.
THEOREM CartSafety == Spec => []CartMatchesState
<1>1. AppInv => CartMatchesState
  BY DEF AppInv
<1> QED BY <1>1, Invariance, PTL

\* The pause menu saves and loads slots 0 to 2 of the game that runs.
THEOREM SlotSafety == Spec => []CallsUseSlots
<1>1. AppInv => CallsUseSlots
  BY DEF AppInv
<1> QED BY <1>1, Invariance, PTL

\* No key is stuck in a game that was resumed.
THEOREM KeySafety == Spec => []KeysFollowPad
<1>1. AppInv => KeysFollowPad
  BY DEF AppInv
<1> QED BY <1>1, Invariance, PTL

=============================================================================
