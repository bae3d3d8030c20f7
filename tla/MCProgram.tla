------------------------------- MODULE MCProgram -------------------------------
(***************************************************************************)
(* Program under names that leave those of FakeMPI free: ProgramProofs     *)
(* extends both.                                                           *)
(***************************************************************************)
EXTENDS Naturals

CONSTANT N    \* the number of processes that the launcher starts

ASSUME SizeAssumption == N \in Nat \ {0}

VARIABLES launch, mainPc, entered, key, mainHandler, failed, aborting, misuse

Main == INSTANCE Program WITH pc <- mainPc, handler <- mainHandler

MainSpec == Main!FairSpec

\* A rank gets to finalize(), and so to a regular exit, only when no rank of its world
\* failed.
NormalExitIsUnanimous == Main!NormalExitIsUnanimous

\* No rank calls MPI after MPI_Finalize.
NoCallAfterFinalize == Main!NoCallAfterFinalize

\* Whatever subset of the ranks throws, and when, every process comes to an end, unless
\* rank 0 of a world of several ranks was told another size: then none gets started.
RunEnds == Main!RunEnds
=============================================================================
