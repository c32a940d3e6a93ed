-------------------------- MODULE MCMultiVirusEngine --------------------------
(* Small instances of MultiVirusEngine for TLC. *)
EXTENDS MultiVirusEngine
CONSTANTS f1, f2, f3
MCTrees == {<<>>, <<f1>>, <<f1, f2, f3>>}
=============================================================================
