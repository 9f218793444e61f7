-------------------------------- MODULE MCGbAudio --------------------------------
(* Ring and buffers in units of a few hundred frames. *)
EXTENDS GbAudio

MCBuffers == {bufA, bufB}
MCTags == {"heap", "silence", "game", "old"}

=============================================================================
