--------------------------- MODULE MCCommunicator ---------------------------
(***************************************************************************)
(* Communicator for TLC: the world instance and a few objects.             *)
(***************************************************************************)
EXTENDS Communicator

CONSTANTS world, a, b, x, y

MCObjects == {world, a, b}
MCValues == {x, y}
=============================================================================
