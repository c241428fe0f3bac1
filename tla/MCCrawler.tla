------------------------------ MODULE MCCrawler ------------------------------
(* Model-checking instance of Crawler: two addresses, one of them a seed, *)
(* answers of one address, and a clock long enough for the seed wait to   *)
(* time out and for a connection to age past the cutoff.                   *)
EXTENDS Crawler

CONSTANTS mainLoop

MCReaders == 1 .. NumAddrs
MCSeedAddrs == <<1>>
=============================================================================
