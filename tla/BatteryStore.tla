------------------------------ MODULE BatteryStore ------------------------------
(***************************************************************************)
(* What a battery-backed cartridge promises its player, whatever mapper it *)
(* has: a game starts from the image that was committed last, only the     *)
(* image in the cartridge is ever committed, and a game that was started   *)
(* over a damaged file (or has no battery) leaves that file alone.         *)
(***************************************************************************)
CONSTANTS
  Games,
  BatteryGames,  \* the games whose image is kept
  Contents,      \* the images of a cartridge RAM
  Blank,         \* the image of a cartridge without a past
  Damaged,       \* a file that is not an image
  NoGame

VARIABLES
  game,    \* the game that is powered, or NoGame
  ram,     \* the image in the powered cartridge
  sealed,  \* the powered game must not commit
  disk     \* per game: the image that outlives the power

vars == <<game, ram, sealed, disk>>

Init ==
  /\ game = NoGame
  /\ ram = Blank
  /\ sealed = TRUE
  /\ disk \in [Games -> Contents \cup {Damaged}]
  /\ \A g \in Games \ BatteryGames : disk[g] = Blank

PowerOn(g) ==
  /\ game = NoGame
  /\ game' = g
  /\ ram' = IF disk[g] = Damaged THEN Blank ELSE disk[g]
  /\ sealed' = (g \notin BatteryGames \/ disk[g] = Damaged)
  /\ UNCHANGED disk

Write(image) ==
  /\ game # NoGame
  /\ ram' = image
  /\ UNCHANGED <<game, sealed, disk>>

Commit ==
  /\ game # NoGame /\ ~sealed
  /\ disk' = [disk EXCEPT ![game] = ram]
  /\ UNCHANGED <<game, ram, sealed>>

\* A commit that is interrupted.
Damage ==
  /\ game # NoGame /\ ~sealed
  /\ disk' = [disk EXCEPT ![game] = Damaged]
  /\ UNCHANGED <<game, ram, sealed>>

PowerOff ==
  /\ game' = NoGame
  /\ ram' = Blank
  /\ sealed' = TRUE
  /\ UNCHANGED disk

Next ==
  \/ \E g \in Games : PowerOn(g)
  \/ \E image \in Contents : Write(image)
  \/ Commit \/ Damage \/ PowerOff

Spec == Init /\ [][Next]_vars

=============================================================================
