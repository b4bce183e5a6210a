---------------------------- MODULE MCCellBuild -----------------------------
(* Small instances of CellBuild for TLC: no tile reserves memory. *)
EXTENDS CellBuild

NoBytes == [j \in Jobs |-> 0]
OneScan == <<"scan1">>
TwoScans == <<"scan1", "scan2">>
=============================================================================
