------------------------------- MODULE MCNode -------------------------------
(* Model-checking instance of Node: a fixture of three testnet blocks,     *)
(* and every initial action a test uses.                                   *)
EXTENDS Node

Act(k, n) == [kind |-> k, n |-> n]

\* The initial actions of the tests: none, WaitForConnection, and seeding
\* the whole fixture.
MCInitialActions ==
    {Act("None", 0), Act("WaitForConnection", 0), Act("Seed", 3)}

\* SeedWithTestnetBlocks(1): the genesis block only.
MCSeedOne == {Act("Seed", 1)}
=============================================================================
