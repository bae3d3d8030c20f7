------------------------------ MODULE MCShmMutex ------------------------------
(***************************************************************************)
(* ShmMutex under names that leave those of RmaMutex free: MutexProofs     *)
(* extends both.                                                           *)
(***************************************************************************)
EXTENDS Naturals

CONSTANT Spinners    \* the number of ranks

ASSUME SpinnersAssumption == Spinners \in Nat \ {0}

VARIABLES spinPc, spinFlag, spinMemory

Spin == INSTANCE ShmMutex WITH N <- Spinners, pc <- spinPc, flag <- spinFlag, memory <- spinMemory

SpinSpec == Spin!FairSpec

\* No rank touches the shared memory before the root has constructed the flag,
\* or after the memory was released.  (Nothing keeps them from it after the root
\* destroyed the flag, before the barrier of its destructor.)
FlagMapped == Spin!FlagMapped

\* The spin lock implements the same abstract mutual-exclusion object as
\* mpi3::mutex: lock() returns only while no rank is inside.
SpinImplementsMutex == Spin!ImplementsMutex

\* The spin lock is not fair to a single rank, but it always lets some rank in.
SomeRankEnters == Spin!SomeRankEnters
=============================================================================
