--------------------------------- MODULE MCLcd ---------------------------------
(* Small instances of Lcd: a frame of a few lines with short modes. *)
EXTENDS Lcd

\* Every interrupt source on its own, and all together with none.
MCStatValues == {{}, {"lyc"}, {"oam", "vblank", "hblank"}}
MCNoStat == {{}}

=============================================================================
