----------------------- MODULE MCKnownNetworkFreshness -----------------------
(* Model-checking instance of KnownNetworkFreshness: one reader reporting  *)
(* the same connection again after it has aged past the cutoff.            *)
EXTENDS KnownNetworkFreshness

CONSTANTS r1, mainLoop

MCReaders == {r1}
=============================================================================
