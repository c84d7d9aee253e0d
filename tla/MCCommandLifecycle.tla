------------------------- MODULE MCCommandLifecycle -------------------------
(* Small instances of CommandLifecycle for TLC.                            *)
EXTENDS CommandLifecycle, TLC

CONSTANTS c1, c2

MCCommands == {c1, c2}

\* One command for a device; the other refreshes the network.
MCOne == {c1}

\* Each poster gave an id of its own.
MCOwnIds == c1 :> 1 @@ c2 :> 257

\* Two posters, each counting from 1, gave the same id.
MCSameIds == c1 :> 1 @@ c2 :> 1

=============================================================================
