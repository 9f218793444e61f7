-------------------------------- MODULE MCBattery --------------------------------
(* Three cartridges: MBC5 with a battery, MBC1 with RAM, MBC3 with a battery. *)
EXTENDS Battery

CONSTANTS shantae, mono, crystal

MCGames == {shantae, mono, crystal}
MCCartType == [g \in MCGames |-> CASE g = shantae -> 27 [] g = mono -> 3 [] g = crystal -> 19]

\* One cartridge is enough to lose an image.
MCOneGame == {shantae}
MCOneCartType == [g \in MCOneGame |-> 27]

=============================================================================
