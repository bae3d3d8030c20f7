------------------------------- MODULE ShmMutex -------------------------------
(***************************************************************************)
(* mpi3::shm::mutex (shm/mutex.hpp): a spin lock on one std::atomic_flag   *)
(* in memory that the ranks of a shared_communicator map together.  The    *)
(* constructor allocates it collectively (shm/allocator.hpp, over          *)
(* MPI_Win_allocate_shared), the root initialises it, a barrier follows.   *)
(* The destructor destroys the flag at the root, meets the others in a     *)
(* barrier and releases the memory.                                        *)
(***************************************************************************)
EXTENDS Naturals

CONSTANT N    \* scomm_.size()

Root == 0
Ranks == 0 .. N-1

VARIABLES
    pc,       \* where each rank is in the life of its mutex object
    flag,     \* the flag in the shared memory is set
    memory    \* state of that memory

vars == <<pc, flag, memory>>

PC == {"outside", "built", "idle", "spinning", "critical", "leaving", "gone"}

TypeOK ==
    /\ pc \in [Ranks -> PC]
    /\ flag \in BOOLEAN
    /\ memory \in {"raw", "constructed", "destroyed", "released"}

Init ==
    /\ pc = [r \in Ranks |-> "outside"]
    /\ flag \in BOOLEAN          \* fresh memory: any contents
    /\ memory = "raw"
-----------------------------------------------------------------------------
\* The constructor up to its barrier; the root clears the flag.
Construct(r) ==
    /\ pc[r] = "outside"
    /\ pc' = [pc EXCEPT ![r] = "built"]
    /\ IF r = Root THEN flag' = FALSE /\ memory' = "constructed"
                   ELSE UNCHANGED <<flag, memory>>

\* scomm_.barrier() lets r through once every rank has come to it.
ConstructorBarrier(r) ==
    /\ pc[r] = "built"
    /\ \A q \in Ranks : pc[q] # "outside"
    /\ pc' = [pc EXCEPT ![r] = "idle"]
    /\ UNCHANGED <<flag, memory>>

\* lock() is called, and starts to spin.
Lock(r) ==
    /\ pc[r] = "idle"
    /\ pc' = [pc EXCEPT ![r] = "spinning"]
    /\ UNCHANGED <<flag, memory>>

\* Mutant: the flag is tested but not set.
TestOnly(r) ==
    /\ pc[r] = "spinning" /\ ~flag
    /\ pc' = [pc EXCEPT ![r] = "critical"]
    /\ UNCHANGED <<flag, memory>>

\* test_and_set finds the flag clear: lock() returns.  (While it finds the flag
\* set it changes nothing.)
TestAndSet(r) ==
    /\ pc[r] = "spinning" /\ ~flag
    /\ flag' = TRUE
    /\ pc' = [pc EXCEPT ![r] = "critical"]
    /\ UNCHANGED memory

\* Mutant: unlock() does not clear the flag.
UnlockSet(r) ==
    /\ pc[r] = "critical"
    /\ flag' = TRUE
    /\ pc' = [pc EXCEPT ![r] = "idle"]
    /\ UNCHANGED memory

Unlock(r) ==
    /\ pc[r] = "critical"
    /\ flag' = FALSE
    /\ pc' = [pc EXCEPT ![r] = "idle"]
    /\ UNCHANGED memory

\* The destructor up to its barrier: the root destroys the flag, which being
\* trivially destructible keeps its value.
EnterDestructor(r) ==
    /\ pc[r] = "idle"
    /\ pc' = [pc EXCEPT ![r] = "leaving"]
    /\ memory' = IF r = Root THEN "destroyed" ELSE memory
    /\ UNCHANGED flag

\* Mutant: the memory is released before the barrier.
ReleaseAtOnce(r) ==
    /\ pc[r] = "leaving"
    /\ pc' = [pc EXCEPT ![r] = "gone"]
    /\ memory' = "released"
    /\ UNCHANGED flag

\* After the barrier the window that holds the memory is freed.
Release(r) ==
    /\ pc[r] = "leaving"
    /\ \A q \in Ranks : pc[q] \in {"leaving", "gone"}
    /\ pc' = [pc EXCEPT ![r] = "gone"]
    /\ memory' = "released"
    /\ UNCHANGED flag
-----------------------------------------------------------------------------
Finished == (\A r \in Ranks : pc[r] = "gone") /\ UNCHANGED vars

Step(r) ==
    \/ Construct(r) \/ ConstructorBarrier(r) \/ EnterDestructor(r) \/ Release(r)
    \/ Lock(r) \/ TestAndSet(r) \/ Unlock(r)

Next == (\E r \in Ranks : Step(r)) \/ Finished

Spec == Init /\ [][Next]_vars

\* A spinning rank keeps testing, and a holder unlocks in the end.
Fairness == \A r \in Ranks : WF_vars(TestAndSet(r)) /\ WF_vars(Unlock(r))

FairSpec == Spec /\ Fairness
-----------------------------------------------------------------------------
(* Properties                                                              *)

\* From the time the root constructed it the flag is set exactly while some rank
\* is inside: no rank finds it set by nobody and spins forever, none finds it
\* clear while another is inside.
FlagMeansHeld ==
    pc[Root] # "outside" => (flag <=> \E r \in Ranks : pc[r] = "critical")

\* No rank touches the shared memory before the root has constructed the flag,
\* or after the memory was released.  (Nothing keeps them from it after the root
\* destroyed the flag, before the barrier of its destructor.)
FlagMapped ==
    \A r \in Ranks :
        pc[r] \in {"spinning", "critical"} => memory \in {"constructed", "destroyed"}

\* The spin lock is not fair to a single rank, but it always lets some rank in.
SomeRankEnters ==
    (\E r \in Ranks : pc[r] = "spinning") ~> (\E r \in Ranks : pc[r] = "critical")

\* What clients see of the mutex.
ClientState ==
    [r \in Ranks |->
        CASE pc[r] = "spinning" -> "waiting"
          [] pc[r] = "critical" -> "holding"
          [] OTHER -> "out"]

Abstract == INSTANCE MutexSpec WITH state <- ClientState

\* The spin lock implements the same abstract mutual-exclusion object as
\* mpi3::mutex: lock() returns only while no rank is inside.
ImplementsMutex == Abstract!Spec
=============================================================================
