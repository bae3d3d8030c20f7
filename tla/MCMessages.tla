------------------------------ MODULE MCMessages ------------------------------
(***************************************************************************)
(* Messages for TLC: one or two messages from each of two ranks, with one  *)
(* value, none or two.                                                     *)
(***************************************************************************)
EXTENDS Messages

MCSenders == {1, 2}
MCTypes == {"basic", "int", "string", "vector", "variant", "packed"}

\* Strings and vectors with no elements and with some; messages of no values.
MCPlans == {<<<<2>>>>, <<<<>>, <<1, 0>>>>}
=============================================================================
