------------------------------- MODULE MCRequest -------------------------------
(***************************************************************************)
(* Request for TLC: two objects and two buffers.  What a scope of requests *)
(* has in common with Communicator goes by another name, because           *)
(* ObjectProofs extends both.                                              *)
(***************************************************************************)
EXTENDS Naturals

CONSTANTS
    Posters,     \* the request objects of the scope
    Buffers,     \* the buffers of the program
    NoBuffer,    \* not a buffer
    MaxRequests  \* bound: requests MPI can allocate at a time

ASSUME BufferAssumption == NoBuffer \notin Buffers
ASSUME RequestAssumption == MaxRequests \in Nat

VARIABLES handle, op, awaited, dropped, uses, outcome, scope

Waiting == INSTANCE Request WITH Objects <- Posters, impl <- handle

WaitingSpec == Waiting!FairSpec

\* Every request MPI allocated is held by one object, or by the temporary or
\* destructor that waits for it.
OneHolder == Waiting!OneHolder

\* MPI uses no buffer after the scope is left, and no buffer for two operations at a time.
BuffersQuiet == Waiting!BuffersQuiet

\* A program that counts what it collected never asks when nothing is under way.
CallsDefined == Waiting!CallsDefined

\* A scope that is left is unwound.
ScopeIsLeft == Waiting!ScopeIsLeft
-----------------------------------------------------------------------------
CONSTANTS req1, req2, buf1, buf2, nobuf

MCPosters == {req1, req2}
MCBuffers == {buf1, buf2}
=============================================================================
