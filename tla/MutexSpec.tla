------------------------------ MODULE MutexSpec ------------------------------
(***************************************************************************)
(* What a mutual-exclusion object of b-mpi3 promises its users: a process  *)
(* that called lock() waits until nobody holds the mutex, then holds it    *)
(* until its own unlock(); one that called try_lock() may be refused       *)
(* instead.  RmaMutex (mpi3::mutex) and ShmMutex            *)
(* (mpi3::shm::mutex) are shown to implement it.                           *)
(***************************************************************************)
CONSTANT Ranks   \* the processes that share the mutex

VARIABLE state   \* what each process is doing with the mutex

Init == state = [r \in Ranks |-> "out"]

\* A process calls lock().
Request(r) ==
    /\ state[r] = "out"
    /\ state' = [state EXCEPT ![r] = "waiting"]

\* A process calls try_lock().
Try(r) ==
    /\ state[r] = "out"
    /\ state' = [state EXCEPT ![r] = "trying"]

\* try_lock() returns false, whatever the others do.
Refuse(r) ==
    /\ state[r] = "trying"
    /\ state' = [state EXCEPT ![r] = "out"]

\* lock() returns, or try_lock() true: only while no process holds the mutex.
Acquire(r) ==
    /\ state[r] \in {"waiting", "trying"}
    /\ \A s \in Ranks : state[s] # "holding"
    /\ state' = [state EXCEPT ![r] = "holding"]

\* The holder calls unlock().
Release(r) ==
    /\ state[r] = "holding"
    /\ state' = [state EXCEPT ![r] = "out"]

Next == \E r \in Ranks : Request(r) \/ Try(r) \/ Refuse(r) \/ Acquire(r) \/ Release(r)

Spec == Init /\ [][Next]_state
=============================================================================
