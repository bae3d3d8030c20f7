----------------------------- MODULE MCFakeMPI -----------------------------
(* Instances of FakeMPI: two kinds of data. *)
EXTENDS FakeMPI

SomeData == {1, 2}
=============================================================================
