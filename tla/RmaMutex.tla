------------------------------- MODULE RmaMutex -------------------------------
(***************************************************************************)
(* mpi3::mutex (mutex.hpp): a mutex over MPI one-sided communication.  The *)
(* home rank exposes one flag per rank in an RMA window.  lock() raises    *)
(* the caller's flag and reads all of them in one access epoch; if another *)
(* flag was up it blocks in a receive of an empty message.  unlock()       *)
(* lowers the flag, reads the others and hands the mutex to the next rank, *)
(* in ring order, whose flag was up, by sending it that message.           *)
(*                                                                         *)
(* An epoch is the code between window::lock_exclusive and window::unlock. *)
(* The put and the get it issues are completed by MPI in steps of their    *)
(* own.  lock_exclusive passes MPI_MODE_NOCHECK, with which an MPI library *)
(* may skip taking the lock, and MPI does not order a put and a get of one *)
(* epoch: what the library does is the choice of the two BOOLEANs below.   *)
(***************************************************************************)
EXTENDS Integers

CONSTANTS
    N,                \* comm_.size()
    Home,             \* rank_, the rank that owns the flags
    ExclusiveEpochs,  \* the library takes the window lock in spite of NOCHECK
    OrderedEpochs     \* the library completes a put before a later get

ASSUME NAssumption == N \in Nat \ {0}
ASSUME HomeAssumption == Home \in 0 .. N-1
ASSUME LibraryAssumption == ExclusiveEpochs \in BOOLEAN /\ OrderedEpochs \in BOOLEAN

Ranks == 0 .. N-1
Ops == {"put", "get"}
Down == [r \in Ranks |-> 0]

VARIABLES
    pc,         \* where each rank is in the life of its mutex object
    flags,      \* addr_[0 .. N-1] at the home rank
    memory,     \* state of the block addr_ points to
    pending,    \* operations each rank has issued in its epoch, not yet done
    waitList,   \* wait_list of each rank
    mail        \* empty messages sent to each rank and not yet received

vars == <<pc, flags, memory, pending, waitList, mail>>

\* The control points; "trying" is the epoch of try_lock, the others are
\* those of the constructor, lock, unlock and the destructor, in that order.
PC == {"outside", "built", "idle", "locking", "blocked", "critical",
       "unlocking", "handing", "trying", "leaving", "gone"}

InEpoch(r) == pc[r] \in {"locking", "unlocking", "trying"}

TypeOK ==
    /\ pc \in [Ranks -> PC]
    /\ flags \in [Ranks -> {0, 1}]
    /\ memory \in {"raw", "zeroed", "freed"}
    /\ pending \in [Ranks -> SUBSET Ops]
    /\ waitList \in [Ranks -> [Ranks -> {0, 1}]]
    /\ mail \in [Ranks -> Nat]

Init ==
    /\ pc = [r \in Ranks |-> "outside"]
    /\ flags \in [Ranks -> {0, 1}]     \* malloc'ed: any contents
    /\ memory = "raw"
    /\ pending = [r \in Ranks |-> {}]
    /\ waitList = [r \in Ranks |-> Down]
    /\ mail = [r \in Ranks |-> 0]
-----------------------------------------------------------------------------
(* Construction and destruction: both meet the other ranks in a barrier.   *)

\* The constructor up to its barrier: the home rank clears the flags.
Construct(r) ==
    /\ pc[r] = "outside"
    /\ pc' = [pc EXCEPT ![r] = "built"]
    /\ IF r = Home THEN flags' = Down /\ memory' = "zeroed"
                   ELSE UNCHANGED <<flags, memory>>
    /\ UNCHANGED <<pending, waitList, mail>>

\* comm.barrier() of the constructor lets r through once every rank reached it.
ConstructorBarrier(r) ==
    /\ pc[r] = "built"
    /\ \A q \in Ranks : pc[q] # "outside"
    /\ pc' = [pc EXCEPT ![r] = "idle"]
    /\ UNCHANGED <<flags, memory, pending, waitList, mail>>

\* The destructor up to its barrier.
EnterDestructor(r) ==
    /\ pc[r] = "idle"
    /\ pc' = [pc EXCEPT ![r] = "leaving"]
    /\ UNCHANGED <<flags, memory, pending, waitList, mail>>

\* After the barrier of the destructor the home rank frees the flags.
Destroy(r) ==
    /\ pc[r] = "leaving"
    /\ \A q \in Ranks : pc[q] \in {"leaving", "gone"}
    /\ pc' = [pc EXCEPT ![r] = "gone"]
    /\ memory' = IF r = Home THEN "freed" ELSE memory
    /\ UNCHANGED <<flags, pending, waitList, mail>>
-----------------------------------------------------------------------------
(* Access epochs on the window of the home rank.                           *)

\* wait_list is cleared, the epoch opened, a put and a get issued.
OpenEpoch(r, before, during) ==
    /\ pc[r] = before
    /\ ExclusiveEpochs => \A q \in Ranks : ~InEpoch(q)
    /\ pc' = [pc EXCEPT ![r] = during]
    /\ waitList' = [waitList EXCEPT ![r] = Down]
    /\ pending' = [pending EXCEPT ![r] = Ops]
    /\ UNCHANGED <<flags, memory, mail>>

\* The put reaches the home rank: up in lock and try_lock, down in unlock.
CompletePut(r) ==
    /\ InEpoch(r)
    /\ "put" \in pending[r]
    /\ flags' = [flags EXCEPT ![r] = IF pc[r] = "unlocking" THEN 0 ELSE 1]
    /\ pending' = [pending EXCEPT ![r] = @ \ {"put"}]
    /\ UNCHANGED <<pc, memory, waitList, mail>>

\* The get copies all the flags into wait_list.
CompleteGet(r) ==
    /\ InEpoch(r)
    /\ "get" \in pending[r]
    /\ OrderedEpochs => "put" \notin pending[r]
    /\ waitList' = [waitList EXCEPT ![r] = flags]
    /\ pending' = [pending EXCEPT ![r] = @ \ {"get"}]
    /\ UNCHANGED <<pc, flags, memory, mail>>

\* win_.unlock returns once both operations are done.
CloseEpoch(r, during, after) ==
    /\ pc[r] = during
    /\ pending[r] = {}
    /\ pc' = [pc EXCEPT ![r] = after]
    /\ UNCHANGED <<flags, memory, pending, waitList, mail>>

\* The scan after the epoch: another rank's flag was up.
OthersUp(r) == \E q \in Ranks \ {r} : waitList[r][q] = 1
-----------------------------------------------------------------------------
(* lock() *)

BeginLock(r) == OpenEpoch(r, "idle", "locking")

EndLockEpoch(r) ==
    CloseEpoch(r, "locking", IF OthersUp(r) THEN "blocked" ELSE "critical")

\* The dummy receive, from any source and with any tag.
Receive(r) ==
    /\ pc[r] = "blocked"
    /\ mail[r] > 0
    /\ mail' = [mail EXCEPT ![r] = @ - 1]
    /\ pc' = [pc EXCEPT ![r] = "critical"]
    /\ UNCHANGED <<flags, memory, pending, waitList>>

(* unlock() *)

BeginUnlock(r) == OpenEpoch(r, "critical", "unlocking")

EndUnlockEpoch(r) == CloseEpoch(r, "unlocking", "handing")

\* Mutant: the scan of unlock() starts at rank 0, as that of lock() does.
RankInOrder(r, i) == i

\* The i-th rank of the scan: the ring from the caller's successor to itself.
RingRank(r, i) == (r + i + 1) % N

\* Mutant: the loop of unlock() lacks its break.
HandOverToAll(r) ==
    /\ pc[r] = "handing"
    /\ \E q \in Ranks : waitList[r][q] = 1
    /\ mail' = [q \in Ranks |-> mail[q] + waitList[r][q]]
    /\ pc' = [pc EXCEPT ![r] = "idle"]
    /\ UNCHANGED <<flags, memory, pending, waitList>>

\* The send to the first rank of the ring whose flag was up.
HandOver(r) ==
    /\ pc[r] = "handing"
    /\ \E i \in 0 .. N-1 :
          /\ waitList[r][RingRank(r, i)] = 1
          /\ \A j \in 0 .. i-1 : waitList[r][RingRank(r, j)] = 0
          /\ mail' = [mail EXCEPT ![RingRank(r, i)] = @ + 1]
    /\ pc' = [pc EXCEPT ![r] = "idle"]
    /\ UNCHANGED <<flags, memory, pending, waitList>>

\* The scan found no flag up: nothing is sent.
HandToNobody(r) ==
    /\ pc[r] = "handing"
    /\ \A q \in Ranks : waitList[r][q] = 0
    /\ pc' = [pc EXCEPT ![r] = "idle"]
    /\ UNCHANGED <<flags, memory, pending, waitList, mail>>

(* try_lock(): the epoch of lock(), and "false" without a second epoch     *)
(* that would lower the flag again.                                        *)

BeginTryLock(r) == OpenEpoch(r, "idle", "trying")

EndTryLock(r) ==
    CloseEpoch(r, "trying", IF OthersUp(r) THEN "idle" ELSE "critical")
-----------------------------------------------------------------------------
\* Every rank is done with its mutex.
Finished == (\A r \in Ranks : pc[r] = "gone") /\ UNCHANGED vars

LockStep(r) == BeginLock(r) \/ EndLockEpoch(r) \/ Receive(r)
UnlockStep(r) ==
    BeginUnlock(r) \/ EndUnlockEpoch(r) \/ HandOver(r) \/ HandToNobody(r)
TryLockStep(r) == BeginTryLock(r) \/ EndTryLock(r)
LifeStep(r) ==
    Construct(r) \/ ConstructorBarrier(r) \/ EnterDestructor(r) \/ Destroy(r)

Step(r) ==
    \/ LifeStep(r) \/ LockStep(r) \/ UnlockStep(r)
    \/ CompletePut(r) \/ CompleteGet(r)

Next == (\E r \in Ranks : Step(r)) \/ Finished

\* Clients that call lock and unlock only.
Spec == Init /\ [][Next]_vars

\* A rank in a call runs until it blocks, MPI completes what was issued, and a
\* client leaves its critical section; it need not ever call lock or destroy
\* the mutex.  No fairness of the window lock between competing ranks is used.
Fairness ==
    \A r \in Ranks :
        /\ WF_vars(CompletePut(r)) /\ WF_vars(CompleteGet(r))
        /\ WF_vars(EndLockEpoch(r)) /\ WF_vars(Receive(r))
        /\ WF_vars(BeginUnlock(r)) /\ WF_vars(EndUnlockEpoch(r))
        /\ WF_vars(HandOver(r)) /\ WF_vars(HandToNobody(r))

FairSpec == Spec /\ Fairness

\* Clients that call try_lock and unlock only.
TryNext ==
    \/ \E r \in Ranks :
          LifeStep(r) \/ TryLockStep(r) \/ UnlockStep(r) \/ CompletePut(r) \/ CompleteGet(r)
    \/ Finished
-----------------------------------------------------------------------------
(* Properties                                                              *)

\* README, "Mutex": the mutex "prevents certain blocks of code to be executed
\* by more than one process (rank) at a time" -- no two ranks are between the
\* return of lock() (or of a successful try_lock()) and the call of unlock().
MutualExclusion ==
    \A r, q \in Ranks : pc[r] = "critical" /\ pc[q] = "critical" => r = q

\* An empty message is in flight only to a rank that is blocked in lock(), and
\* never two: a message left over would let a later lock() return too early.
NoStrayMessage == \A r \in Ranks : mail[r] > 0 => mail[r] = 1 /\ pc[r] = "blocked"

\* The barriers of constructor and destructor keep every access epoch within
\* the time in which the home rank's flags are initialised and allocated.
FlagsAliveInEpoch == \A r \in Ranks : InEpoch(r) => memory = "zeroed"

\* A rank carries the mutex: it is inside, on its way out with somebody to
\* hand over to, or the message that lets it in is waiting for it.
Carries(r) ==
    \/ pc[r] \in {"critical", "unlocking"}
    \/ pc[r] = "handing" /\ \E q \in Ranks : waitList[r][q] = 1
    \/ mail[r] > 0

\* A rank blocked in lock() is never forgotten: somebody carries the mutex, so
\* that a message to wake it up is still to come.
BlockedIsRemembered ==
    (\E r \in Ranks : pc[r] = "blocked") => \E q \in Ranks : Carries(q)

\* No starvation: a rank blocked in lock() enters its critical section.
LockReturns == \A r \in Ranks : pc[r] = "blocked" ~> pc[r] = "critical"

\* What clients see of the mutex.
ClientState ==
    [r \in Ranks |->
        CASE pc[r] \in {"locking", "blocked"} -> "waiting"
          [] pc[r] = "trying" -> "trying"
          [] pc[r] = "critical" -> "holding"
          [] OTHER -> "out"]

Abstract == INSTANCE MutexSpec WITH state <- ClientState

\* The mutex implements the abstract mutual-exclusion object.
ImplementsMutex == Abstract!Spec
=============================================================================
