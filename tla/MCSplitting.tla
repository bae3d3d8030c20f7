------------------------------ MODULE MCSplitting ------------------------------
(***************************************************************************)
(* Splitting for TLC: worlds of one to MaxSize processes.                  *)
(***************************************************************************)
EXTENDS Splitting

MCArguments == {1, 2, 3, 4, 7}
MCShapes == {<<0>>, <<0, 0>>, <<0, 2>>, <<3, 0>>, <<0, 2, 1>>, <<2, 0, 2>>, <<3>>, <<2, 2>>}
MCOffsets == {-2, -1, 0, 1, 2}
=============================================================================
