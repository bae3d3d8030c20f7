------------------------------ MODULE MCExchange ------------------------------
(***************************************************************************)
(* Exchange for TLC: packages that are empty and packages that are not.    *)
(***************************************************************************)
EXTENDS ExchangeProofs

MCSizes == {0, 1}
=============================================================================
