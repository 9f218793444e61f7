------------------------------- MODULE AppStates -------------------------------
(***************************************************************************)
(* The state machine above the emulator (app/App.cpp): menus, launch,      *)
(* game, pause screen, and back.                                           *)
(*                                                                         *)
(* One pass of App::Run polls the exit request, lets UpdateInput handle    *)
(* the pad and then draws the state it ends in; both halves change the     *)
(* state.  The positions and colours that the drawing code animates are    *)
(* reduced to the number of frames they have left.  The states 6, 10, 13   *)
(* and 15 are never entered, the titles are Game Boy games, and the        *)
(* display filter, the artwork's position and the sounds are left out.     *)
(***************************************************************************)
EXTENDS Integers, FiniteSets

CONSTANTS
  Titles,      \* the ids of the games in the gamedef
  Pads,        \* the sets of buttons that may be held at once
  AnimFrames,  \* the most frames a stage of a menu animation takes
  SlideFrames, \* 30: the frames the pause screen takes to slide out
  NoCart       \* carts::current is null

Buttons == {"up", "down", "left", "right", "a", "b", "zlzr"}

\* The entries of the main menu are the titles, EXTRAS and CREDITS; what they do
\* is "hard-coded for exactly two titles".
ASSUME AppAssumption ==
  /\ Titles = {0, 1}
  /\ Pads \subseteq SUBSET Buttons /\ {} \in Pads
  /\ AnimFrames \in Nat \ {0, 1} /\ SlideFrames \in Nat \ {0}
  /\ NoCart \notin Titles

Extras == Cardinality(Titles)
Credits == Extras + 1

VARIABLES
  phase,            \* which half of the loop is next: "input", "draw"; or "ended"
  state,            \* App::state
  held,             \* Input::held
  menuSelection,
  menuAnimState,
  animLeft,         \* frames left of the present stage of the animation
  transitionActive,
  pause,            \* pauseSub[0], pauseSub[1] and pauseSelection
  pauseClosing,
  pauseSlideX,      \* 0: out (-720 pixels) .. SlideFrames: in (0 pixels)
  paused,
  cart,             \* the id of carts::current
  keys,             \* the Game Boy's keys that are down
  stateCall         \* the save or load this pass has made

screen == <<menuSelection, menuAnimState, animLeft, transitionActive>>
pauseScreen == <<pause, pauseClosing, pauseSlideX, paused>>
vars == <<phase, state, held, screen, pauseScreen, cart, keys, stateCall>>

States == {"MainMenu", "Credits", "Artwork", "InGame", "Pause", "ExitToMenu", "LaunchGame"}
GameStates == {"InGame", "Pause", "ExitToMenu"}
Submenus == 0 .. 4  \* 0: the options; 1: load slot; 2: save slot; 3, 4: confirm
PauseMenu == [sub: Submenus, slot: -1 .. 2, sel: 0 .. 5]
NoCall == [op |-> "none", slot |-> 0, game |-> 0]
StateCalls == [op: {"none", "save", "load"}, slot: -1 .. 4, game: 0 .. Credits]

TypeOK ==
  /\ phase \in {"input", "draw", "ended"}
  /\ state \in States
  /\ held \in Pads
  /\ menuSelection \in 0 .. Credits
  /\ menuAnimState \in 0 .. 3
  /\ animLeft \in 0 .. AnimFrames
  /\ {transitionActive, pauseClosing, paused} \subseteq BOOLEAN
  /\ pause \in PauseMenu
  /\ pauseSlideX \in 0 .. SlideFrames
  /\ cart \in Titles \cup {NoCart}
  /\ keys \in SUBSET Buttons
  /\ stateCall \in StateCalls

\* pauseSlideX starts somewhere in between.
Init ==
  /\ phase = "input"
  /\ state = "MainMenu"
  /\ held = {}
  /\ menuSelection = 0 /\ menuAnimState = 0
  /\ animLeft \in 1 .. AnimFrames
  /\ transitionActive = FALSE
  /\ pause = [sub |-> 0, slot |-> 0, sel |-> 0]
  /\ pauseClosing = FALSE
  /\ pauseSlideX \in 0 .. SlideFrames
  /\ paused = FALSE
  /\ cart = NoCart
  /\ keys = {}
  /\ stateCall = NoCall

Pressed(pad) == pad \ held
Released(pad) == held \ pad

ScreenUnchanged == UNCHANGED screen
PauseUnchanged == UNCHANGED pauseScreen
GameUnchanged == UNCHANGED <<cart, keys, stateCall>>

\* A stage of an animation, of some length, begins; the first is never over at once.
Animate(stage) ==
  /\ menuAnimState' = stage
  /\ animLeft' \in (IF stage = 0 THEN 2 ELSE 1) .. AnimFrames

-----------------------------------------------------------------------------
(* UpdateInput outside a game; p are the buttons that went down. *)

MoveSelection(p) ==
  \/ /\ "up" \in p
     /\ menuSelection' = IF menuSelection = 0 THEN Credits ELSE menuSelection - 1
  \/ /\ "up" \notin p /\ "down" \in p
     /\ menuSelection' = IF menuSelection = Credits THEN 0 ELSE menuSelection + 1
  \/ p \cap {"up", "down"} = {} /\ UNCHANGED menuSelection

Selects(p) == p \cap {"up", "down", "a"} = {"a"} /\ menuAnimState = 2

MainMenuInput(pad) ==
  LET p == Pressed(pad)
  IN  /\ state = "MainMenu"
      /\ MoveSelection(p)
      /\ \/ /\ ~Selects(p)
            /\ UNCHANGED <<state, menuAnimState, animLeft, transitionActive>>
         \/ /\ Selects(p) /\ menuSelection # Credits
            /\ state' = IF menuSelection = Extras THEN "Artwork" ELSE "LaunchGame"
            /\ Animate(0)
            /\ transitionActive' = TRUE
         \/ /\ Selects(p) /\ menuSelection = Credits
            /\ state' = "Credits"
            /\ UNCHANGED <<menuAnimState, animLeft, transitionActive>>
      /\ PauseUnchanged /\ GameUnchanged

\* ShowCredits blocks until the page is closed.
CreditsInput ==
  /\ state = "Credits"
  /\ state' = "MainMenu"
  /\ ScreenUnchanged /\ PauseUnchanged /\ GameUnchanged

\* Mutant: the last stage does not end the transition.
LaunchStageKeepsFlag ==
  /\ IF menuAnimState < 3 /\ animLeft <= 1
     THEN Animate(menuAnimState + 1)
     ELSE animLeft' = (IF animLeft > 1 THEN animLeft - 1 ELSE animLeft) /\ UNCHANGED menuAnimState
  /\ UNCHANGED transitionActive

\* DrawLaunchTransition: one frame of the animation that leads to a game.
LaunchStage ==
  \/ /\ menuAnimState < 2 /\ animLeft > 1
     /\ animLeft' = animLeft - 1
     /\ UNCHANGED <<menuAnimState, transitionActive>>
  \/ /\ menuAnimState < 2 /\ animLeft <= 1
     /\ Animate(menuAnimState + 1)
     /\ UNCHANGED transitionActive
  \/ /\ menuAnimState = 2
     /\ Animate(3)
     /\ UNCHANGED transitionActive
  \/ /\ menuAnimState = 3
     /\ transitionActive' = FALSE
     /\ UNCHANGED <<menuAnimState, animLeft>>

\* B draws one frame of the launch animation on its way out.
ArtworkInput(pad) ==
  /\ state = "Artwork"
  /\ IF "b" \in Pressed(pad)
     THEN state' = "MainMenu" /\ LaunchStage
     ELSE UNCHANGED <<state, menuAnimState, animLeft, transitionActive>>
  /\ UNCHANGED menuSelection
  /\ PauseUnchanged /\ GameUnchanged

\* The animation is over: cart_load, gb_init.
LaunchGameInput ==
  /\ state = "LaunchGame"
  /\ IF transitionActive
     THEN UNCHANGED <<state, cart>>
     ELSE state' = "InGame" /\ cart' = menuSelection
  /\ ScreenUnchanged /\ PauseUnchanged
  /\ UNCHANGED <<keys, stateCall>>

\* Mutant: the menu's animation is not started again.
ExitToMenuQuietly ==
  /\ state = "ExitToMenu"
  /\ cart' = NoCart
  /\ state' = "MainMenu"
  /\ ScreenUnchanged /\ PauseUnchanged
  /\ UNCHANGED <<keys, stateCall>>

\* Mutant: the cartridge stays plugged in.
ExitToMenuKeepsCart ==
  /\ state = "ExitToMenu"
  /\ state' = "MainMenu"
  /\ Animate(0)
  /\ UNCHANGED <<menuSelection, transitionActive>>
  /\ PauseUnchanged
  /\ UNCHANGED <<cart, keys, stateCall>>

\* gb::Shutdown, and the cartridge goes; pauseClosing stays what it was.
ExitToMenuInput ==
  /\ state = "ExitToMenu"
  /\ cart' = NoCart
  /\ state' = "MainMenu"
  /\ Animate(0)
  /\ UNCHANGED <<menuSelection, transitionActive>>
  /\ PauseUnchanged
  /\ UNCHANGED <<keys, stateCall>>

-----------------------------------------------------------------------------
(* UpdateInput in a game. *)

\* Up, down and right follow the button, the others its edges.
InGameInput(pad) ==
  LET down == (pad \cap {"up", "down", "right"}) \cup (Pressed(pad) \cap {"left", "a", "b"})
  IN  /\ state = "InGame"
      /\ keys' = (keys \cup down) \ Released(pad)
      /\ IF "zlzr" \in pad
         THEN /\ state' = "Pause"
              /\ pause' = [pause EXCEPT !.sub = 0, !.sel = 0]
              /\ paused' = TRUE
         ELSE UNCHANGED <<state, pause, paused>>
      /\ ScreenUnchanged
      /\ UNCHANGED <<pauseClosing, pauseSlideX, cart, stateCall>>

\* In the slot lists, up and down move the slot, elsewhere the option.
InSlots(m) == m.sub \in {1, 2}

MoveUp(m) ==
  IF InSlots(m) THEN [m EXCEPT !.slot = IF @ <= 0 THEN 0 ELSE @ - 1]
                ELSE [m EXCEPT !.sel = IF @ = 0 THEN 5 ELSE @ - 1]

MoveDown(m) ==
  IF InSlots(m) THEN [m EXCEPT !.slot = IF @ >= 2 THEN 2 ELSE @ + 1]
                ELSE [m EXCEPT !.sel = IF @ = 5 THEN 0 ELSE @ + 1]

\* Mutant: a slot list opens at the slot it was left with.
OpenSlotsKeepSlot(m) == IF m.sel \in {1, 2} THEN [m EXCEPT !.sub = m.sel] ELSE m

OpenSlots(m) == IF m.sel \in {1, 2} THEN [m EXCEPT !.sub = m.sel, !.slot = 0] ELSE m

\* The menu after the directions but LEFT, which are looked at first.
Moved(p) ==
  LET vertical == IF "up" \in p THEN MoveUp(pause)
                  ELSE IF "down" \in p THEN MoveDown(pause) ELSE pause
  IN  IF "right" \in p THEN OpenSlots(vertical) ELSE vertical

StartClosing == pauseClosing' = TRUE /\ paused' = FALSE
StayOpen == UNCHANGED <<pauseClosing, paused>>
Call(op) == stateCall' = [op |-> op, slot |-> pause'.slot, game |-> menuSelection]

\* LEFT leaves a slot list and hides A and B.
PauseLeft(m) ==
  /\ pause' = IF InSlots(m) THEN [m EXCEPT !.slot = -1, !.sub = 0] ELSE m
  /\ StayOpen
  /\ UNCHANGED <<state, keys, stateCall>>

PauseIdle(m) ==
  /\ pause' = m
  /\ StayOpen
  /\ UNCHANGED <<state, keys, stateCall>>

\* Mutant: B returns before the keys are released.
PauseBackKeepsKeys(m) ==
  /\ IF m.sub \in {3, 4}
     THEN pause' = [m EXCEPT !.sub = 2] /\ StayOpen
     ELSE pause' = m /\ StartClosing
  /\ UNCHANGED <<state, keys, stateCall>>

\* B goes back from a dialog, and from anywhere else to the game.
PauseBack(m) ==
  /\ IF m.sub \in {3, 4}
     THEN pause' = [m EXCEPT !.sub = 2] /\ StayOpen
     ELSE pause' = m /\ StartClosing
  /\ keys' = {}
  /\ UNCHANGED <<state, stateCall>>

\* A in a list of slots or in a dialog ...
PauseConfirm(m) ==
  /\ \/ /\ m.sub \in {1, 3}
        /\ pause' = m
        /\ Call("load") /\ StartClosing
     \/ /\ m.sub = 2
        /\ pause' = [m EXCEPT !.sub = 4]
        /\ StayOpen /\ UNCHANGED stateCall
     \/ /\ m.sub = 4
        /\ pause' = [m EXCEPT !.sub = 2]
        /\ Call("save") /\ StayOpen
  /\ keys' = {}
  /\ UNCHANGED state

\* ... and in the list of options: resume, load, save, reset, filter, exit.
PauseChoose(m) ==
  /\ m.sub = 0
  /\ pause' = OpenSlots(m)
  /\ IF m.sel \in {0, 3} THEN StartClosing
     ELSE /\ UNCHANGED pauseClosing
          /\ paused' = IF m.sel = 5 THEN FALSE ELSE paused
  /\ state' = IF m.sel = 5 THEN "ExitToMenu" ELSE state
  /\ keys' = {}
  /\ UNCHANGED stateCall

\* Nothing here asks whether the screen is closing already.
PauseInput(pad) ==
  LET p == Pressed(pad)
      m == Moved(p)
  IN  /\ state = "Pause"
      /\ \/ "left" \in p /\ PauseLeft(m)
         \/ p \cap {"left", "a", "b"} = {} /\ PauseIdle(m)
         \/ p \cap {"left", "a", "b"} = {"b"} /\ PauseBack(m)
         \/ "left" \notin p /\ "a" \in p /\ (PauseConfirm(m) \/ PauseChoose(m))
      /\ ScreenUnchanged
      /\ UNCHANGED <<pauseSlideX, cart>>

UpdateInput ==
  /\ phase = "input"
  /\ \E pad \in Pads :
       /\ held' = pad
       /\ \/ MainMenuInput(pad) \/ CreditsInput \/ ArtworkInput(pad) \/ LaunchGameInput
          \/ ExitToMenuInput \/ InGameInput(pad) \/ PauseInput(pad)
  /\ phase' = "draw"

-----------------------------------------------------------------------------
(* Drawing. *)

\* DrawMainMenu: the sprite comes in, then the colours; then nothing changes.
DrawMainMenu ==
  /\ state = "MainMenu"
  /\ \/ menuAnimState < 2 /\ animLeft > 1 /\ animLeft' = animLeft - 1 /\ UNCHANGED menuAnimState
     \/ menuAnimState < 2 /\ animLeft <= 1 /\ Animate(menuAnimState + 1)
     \/ menuAnimState >= 2 /\ UNCHANGED <<menuAnimState, animLeft>>
  /\ UNCHANGED <<state, menuSelection, transitionActive>>
  /\ PauseUnchanged

DrawLaunch ==
  /\ state = "LaunchGame"
  /\ IF transitionActive THEN LaunchStage
     ELSE UNCHANGED <<menuAnimState, animLeft, transitionActive>>
  /\ UNCHANGED <<state, menuSelection>>
  /\ PauseUnchanged

\* Mutant: the position that DrawPauseMenu stops at is not far enough.
SlidOutNever(x) == x < 0

SlidOut(x) == x <= 0

\* DrawPauseMenu, and what Run makes of it.
DrawPause ==
  /\ state = "Pause"
  /\ pauseSlideX' = IF pauseClosing
                    THEN IF pauseSlideX > 0 THEN pauseSlideX - 1 ELSE 0
                    ELSE IF pauseSlideX < SlideFrames THEN pauseSlideX + 1 ELSE SlideFrames
  /\ IF pauseClosing /\ SlidOut(pauseSlideX')
     THEN state' = "InGame" /\ pauseClosing' = FALSE
     ELSE UNCHANGED <<state, pauseClosing>>
  /\ UNCHANGED <<pause, paused>>
  /\ ScreenUnchanged

DrawNothing ==
  /\ state \in {"Credits", "Artwork", "ExitToMenu"}
  /\ UNCHANGED state
  /\ ScreenUnchanged /\ PauseUnchanged

\* The next pass begins.
Draw ==
  /\ phase = "draw"
  /\ DrawMainMenu \/ DrawLaunch \/ DrawPause \/ DrawNothing
  /\ phase' = "input"
  /\ stateCall' = NoCall
  /\ UNCHANGED <<held, cart, keys>>

\* RunFrame, which does not return while the game keeps the LCD off.
DrawInGame ==
  /\ phase = "draw" /\ state = "InGame"
  /\ phase' = "input"
  /\ stateCall' = NoCall
  /\ UNCHANGED <<state, held, cart, keys>>
  /\ ScreenUnchanged /\ PauseUnchanged

\* CloseGameOnExitRequest: the hidden slot 4 of game 0, whatever the game is.
ExitRequest ==
  /\ phase = "input"
  /\ phase' = "ended"
  /\ stateCall' = IF cart = NoCart THEN stateCall ELSE [op |-> "save", slot |-> 4, game |-> 0]
  /\ cart' = NoCart
  /\ UNCHANGED <<state, held, keys>>
  /\ ScreenUnchanged /\ PauseUnchanged

Ended == phase = "ended" /\ UNCHANGED vars

Next == UpdateInput \/ Draw \/ DrawInGame \/ ExitRequest \/ Ended

Spec == Init /\ [][Next]_vars

\* The loop goes on, except perhaps inside the game's frame.
FairSpec == Spec /\ WF_vars(UpdateInput) /\ WF_vars(Draw)

-----------------------------------------------------------------------------
(* Properties. *)

\* A cartridge is plugged in exactly while a state that uses it without asking is
\* current, and menuSelection, which names the directory of its save states,
\* still names the game that was launched.
CartMatchesState ==
  phase # "ended" =>
    /\ cart # NoCart <=> state \in GameStates
    /\ cart # NoCart => cart = menuSelection

\* Whatever was pressed before or at the same time, the pause menu saves and loads
\* one of the three slots, and never another game's.
CallsUseSlots ==
  phase # "ended" /\ stateCall.op # "none" =>
    /\ state = "Pause" /\ stateCall.slot \in 0 .. 2
    /\ stateCall.game = cart

\* In a game that was resumed no key of the Game Boy is down whose button is not
\* held: keys that go up while the pause screen is shown do not get stuck.
\* (paused is still set in the one case where they do: a session left while the
\* screen slides out makes the next pause close itself, without any A or B.)
KeysFollowPad == state = "InGame" /\ ~paused => keys \subseteq held

\* The main menu always becomes responsive: its A is ignored until stage 2.
MenuAwakens == state = "MainMenu" ~> (menuAnimState = 2 \/ phase = "ended")

\* A launch arrives in the game.
LaunchArrives == state = "LaunchGame" ~> (state = "InGame" \/ phase = "ended")

\* A pause screen that slides out is left, whatever is pressed meanwhile.
ClosingEnds == (state = "Pause" /\ pauseClosing) ~> (state # "Pause" \/ phase = "ended")

================================================================================
