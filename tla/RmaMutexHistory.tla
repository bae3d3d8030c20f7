---------------------------- MODULE RmaMutexHistory ----------------------------
(***************************************************************************)
(* RmaMutex with the choice of what its clients call, and with a history:  *)
(* who entered the critical section while a rank was blocked, and whether  *)
(* the library used the freedom that mutex leaves it.  By MPI_MODE_NOCHECK *)
(* lock_exclusive tells MPI that epochs of two ranks do not meet, and      *)
(* unlock counts on its get not to overtake its put.                       *)
(***************************************************************************)
EXTENDS RmaMutex

VARIABLES
    calls,      \* what every client calls to enter: "lock" or "try_lock"
    overtook,   \* the ranks that entered since each rank was blocked
    disturbed   \* two epochs met, or a get of unlock overtook its put

hvars == <<vars, calls, overtook, disturbed>>

Enters(q) == pc[q] # "critical" /\ pc'[q] = "critical"
StaysBlocked(r) == pc[r] = "blocked" /\ pc'[r] = "blocked"

\* Two ranks are in epochs at the same time.
EpochsMeet == \E r, q \in Ranks : r # q /\ InEpoch(r) /\ InEpoch(q)

\* The get of unlock() reads the flags before its put has lowered the caller's.
GetOvertakesPut ==
    \E r \in Ranks :
        pc[r] = "unlocking" /\ "put" \in pending[r] /\ "get" \in pending[r] \ pending'[r]

HInit ==
    /\ Init
    /\ calls \in {"lock", "try_lock"}
    /\ overtook = [r \in Ranks |-> {}]
    /\ disturbed = FALSE

\* The step of the mutex with the clients that there are.
ClientStep ==
    \/ calls = "lock" /\ Next
    \/ calls = "try_lock" /\ TryNext

HNext ==
    /\ ClientStep
    /\ calls' = calls
    /\ overtook' = [r \in Ranks |->
          IF StaysBlocked(r) THEN overtook[r] \cup {q \in Ranks : Enters(q)} ELSE {}]
    /\ disturbed' = (disturbed \/ EpochsMeet' \/ GetOvertakesPut)

HSpec == HInit /\ [][HNext]_hvars
-----------------------------------------------------------------------------
\* unlock() scans the ring from its own successor, so that the mutex goes
\* around: while a rank is blocked, every other rank enters at most once.
OvertakenOnceByEach ==
    [][\A r, q \in Ranks : StaysBlocked(r) /\ Enters(q) => q \notin overtook[r]]_hvars
=============================================================================
