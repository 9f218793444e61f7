------------------------------ MODULE MCMenuAudio ------------------------------
(* Two sounds of two blocks. *)
EXTENDS MenuAudio

MCSounds == <<"toggle", "move">>

================================================================================
