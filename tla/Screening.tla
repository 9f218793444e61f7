------------------------------- MODULE Screening -------------------------------
(***************************************************************************)
(* What the startup movie promises its viewer, whatever its threads do.    *)
(* The frames arrive in the order of the movie, a few ahead of the screen, *)
(* and leave in this order.  A frame is shown in its time.  One is skipped *)
(* only because its time is over, and the first of all never is.  The end  *)
(* comes after the last frame, and nothing comes after the end.            *)
(***************************************************************************)
EXTENDS Sequences, Naturals

CONSTANTS
  LastFrame,  \* the frames are numbered and stamped 1 .. LastFrame
  Ahead,      \* frames that may wait for the screen
  Patience    \* the time of a frame lasts from its stamp to its stamp + Patience

VARIABLES
  queue,      \* the frames that wait for the screen
  shown,      \* how many were shown
  skipped,    \* how many were not
  time,
  ended

vars == <<queue, shown, skipped, time, ended>>

Init ==
  /\ queue = <<>> /\ shown = 0 /\ skipped = 0
  /\ time = 0
  /\ ended = FALSE

NextFrame == shown + skipped + Len(queue) + 1

Arrive ==
  /\ ~ended
  /\ NextFrame <= LastFrame /\ Len(queue) < Ahead
  /\ queue' = Append(queue, NextFrame)
  /\ UNCHANGED <<shown, skipped, time, ended>>

IsOver(frame) == time >= frame + Patience

\* Some frames at the front are skipped, or one of them is shown, or both.
Leave(over, seen) ==
  /\ ~ended
  /\ over + seen <= Len(queue)
  /\ \A i \in 1 .. over : IsOver(queue[i]) /\ queue[i] # 1
  /\ \A i \in over + 1 .. over + seen :
       queue[i] = 1 \/ (queue[i] <= time /\ ~IsOver(queue[i]))
  /\ skipped' = skipped + over
  /\ shown' = shown + seen
  /\ queue' = SubSeq(queue, over + seen + 1, Len(queue))
  /\ UNCHANGED <<time, ended>>

Tick ==
  /\ ~ended
  /\ time' = time + 1
  /\ UNCHANGED <<queue, shown, skipped, ended>>

End ==
  /\ ~ended /\ queue = <<>>
  /\ ended' = TRUE
  /\ UNCHANGED <<queue, shown, skipped, time>>

Next ==
  \/ Arrive \/ Tick \/ End
  \/ \E over \in 0 .. Len(queue), seen \in {0, 1} : Leave(over, seen)

Spec == Init /\ [][Next]_vars

================================================================================
