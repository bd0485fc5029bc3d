------------------------------ MODULE MCRaces -------------------------------
(* Races with one directory that has a block on storage and one without.   *)
EXTENDS Races
MCStoredDir == [d \in {11} |-> 3]
=============================================================================
