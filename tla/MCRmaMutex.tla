------------------------------ MODULE MCRmaMutex ------------------------------
(***************************************************************************)
(* RmaMutexHistory for TLC, with the fairness of RmaMutex.                 *)
(***************************************************************************)
EXTENDS RmaMutexHistory

\* Bound: messages to a rank that was refused, which nobody takes; the rank calls
\* try_lock while there are fewer.
MaxStray == 2

BoundedNext ==
    /\ HNext
    /\ \A r \in Ranks : BeginTryLock(r) /\ calls = "try_lock" => mail[r] < MaxStray

MCSpec == HInit /\ [][BoundedNext]_hvars /\ Fairness
=============================================================================
