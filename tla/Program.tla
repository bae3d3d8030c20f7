------------------------------- MODULE Program -------------------------------
(***************************************************************************)
(* The life of a program whose ranks run the main() of main.hpp: the       *)
(* environment initialises MPI, a terminate handler is installed, a copy   *)
(* of the world goes to the user's main, a barrier follows its return and  *)
(* the environment finalises MPI.  An exception that leaves the user's     *)
(* main at one rank ends in that rank's timed_terminate, which waits for   *)
(* the others to fail too and then aborts them all.                        *)
(*                                                                         *)
(* MPI_Ibarrier of a failing rank does not match MPI_Barrier of the ranks  *)
(* that returned (MPI forbids it, and the libraries keep the two apart):   *)
(* they are two collectives here.                                          *)
(***************************************************************************)
EXTENDS Naturals

CONSTANT N    \* the number of processes that the launcher starts

Ranks == 0 .. N-1

\* What the ranks do together: the barrier of initialize(), the duplication of the world, a collective of the
\* user's main, the release of the duplicate, the barrier of ::main,
\* MPI_Finalize, and the ibarrier of timed_terminate.
Collectives == {"launch", "dup", "user", "disconnect", "barrier", "finalize", "ibarrier"}

VARIABLES
    launch,    \* whether the library joins the processes in one world, and the processes to
               \* which the environment variables of the launcher announce that they are
               \* rank 0 of a number of processes other than the size of their world
    pc,        \* where each rank is
    entered,   \* the ranks that have called each collective
    key,       \* whether the key of the named attributes is there
    handler,   \* the std::terminate handler of each rank
    failed,    \* the ranks whose user main threw
    aborting,  \* MPI_Abort was called, or a process died and the launcher acts
    misuse     \* the ranks that called MPI after MPI_Finalize

vars == <<launch, pc, entered, key, handler, failed, aborting, misuse>>

\* MPI_COMM_WORLD of rank r: if the library does not know the launcher, for being of
\* another implementation of MPI, each process is alone in one.
World(r) == IF launch.joined THEN Ranks ELSE {r}
RankInWorld(r) == IF launch.joined THEN r ELSE 0

PC == {"start", "launching", "constructing", "initialized", "duplicating", "user", "meeting", "working",
       "disconnecting", "barrier", "finalizing", "statics", "exited",
       "spinning", "checking", "dead"}

TypeOK ==
    /\ launch \in [joined : BOOLEAN, misled : SUBSET Ranks]
    /\ pc \in [Ranks -> PC]
    /\ entered \in [Collectives -> SUBSET Ranks]
    /\ key \in [Ranks -> BOOLEAN]
    /\ handler \in [Ranks -> {"abort", "timed"}]
    /\ failed \subseteq Ranks
    /\ aborting \in BOOLEAN
    /\ misuse \subseteq Ranks

Init ==
    /\ launch \in [joined : BOOLEAN, misled : SUBSET Ranks]
    /\ pc = [r \in Ranks |-> "start"]
    /\ entered = [c \in Collectives |-> {}]
    /\ key = [r \in Ranks |-> FALSE]
    /\ handler = [r \in Ranks |-> "abort"]
    /\ failed = {} /\ misuse = {}
    /\ aborting = FALSE

\* Rank r calls collective c, and goes from one control point to the next.
Call(r, c, from, to) ==
    /\ pc[r] = from
    /\ pc' = [pc EXCEPT ![r] = to]
    /\ entered' = [entered EXCEPT ![c] = @ \cup {r}]

\* All ranks of r's world have called collective c.
Met(c, r) == World(r) \subseteq entered[c]

\* Rank r returns from a collective that all ranks must have called.
Return(r, c, from, to) ==
    /\ pc[r] = from
    /\ Met(c, r)
    /\ pc' = [pc EXCEPT ![r] = to]
    /\ UNCHANGED <<launch, key, entered, handler, failed, aborting, misuse>>
-----------------------------------------------------------------------------
(* ::main without exceptions.                                              *)

\* The launcher's announcement does not fit the world: its rank 0 says so, and no other.
Warns(r) == r \in launch.misled /\ RankInWorld(r) = 0

\* initialize(argc, argv): MPI_Init, and a barrier of the world for the rank that warns,
\* which no other rank of a larger world calls.
Initialize(r) ==
    /\ ~Warns(r)
    /\ pc[r] = "start"
    /\ pc' = [pc EXCEPT ![r] = "constructing"]
    /\ UNCHANGED <<launch, key, entered, handler, failed, aborting, misuse>>
InitializeWarning(r) ==
    /\ Warns(r)
    /\ Call(r, "launch", "start", "launching")
    /\ UNCHANGED <<launch, key, handler, failed, aborting, misuse>>
Warned(r) == Return(r, "launch", "launching", "constructing")

\* The environment makes the key of the named attributes; then the terminate handler
\* is set.
Construct(r) ==
    /\ pc[r] = "constructing"
    /\ pc' = [pc EXCEPT ![r] = "initialized"]
    /\ key' = [key EXCEPT ![r] = TRUE]
    /\ handler' = [handler EXCEPT ![r] = "timed"]
    /\ UNCHANGED <<launch, entered, failed, aborting, misuse>>

\* The world is copied into the argument of the user's main.
Duplicate(r) ==
    /\ Call(r, "dup", "initialized", "duplicating")
    /\ UNCHANGED <<launch, key, handler, failed, aborting, misuse>>

EnterUserMain(r) == Return(r, "dup", "duplicating", "user")

\* The user's main waits for the other ranks once, for example in a barrier.
MeetOthers(r) ==
    /\ Call(r, "user", "user", "meeting")
    /\ UNCHANGED <<launch, key, handler, failed, aborting, misuse>>

MetOthers(r) == Return(r, "user", "meeting", "working")

\* The user's main returns, and its argument is disconnected.
ReturnFromUserMain(r) ==
    /\ Call(r, "disconnect", "working", "disconnecting")
    /\ UNCHANGED <<launch, key, handler, failed, aborting, misuse>>

\* MPI_Comm_disconnect is collective, but a library may let a rank go early.
EnterBarrier(r) ==
    /\ Call(r, "barrier", "disconnecting", "barrier")
    /\ UNCHANGED <<launch, key, handler, failed, aborting, misuse>>

\* Mutant: ::main returns without the barrier.
FinalizeWithoutBarrier(r) ==
    /\ Call(r, "finalize", "barrier", "finalizing")
    /\ key' = [key EXCEPT ![r] = FALSE]
    /\ handler' = [handler EXCEPT ![r] = "abort"]
    /\ UNCHANGED <<launch, failed, aborting, misuse>>

\* Mutant: the environment leaves the key to the end of the program.
FinalizeKeepingKey(r) ==
    /\ Met("barrier", r)
    /\ Call(r, "finalize", "barrier", "finalizing")
    /\ handler' = [handler EXCEPT ![r] = "abort"]
    /\ UNCHANGED <<launch, key, failed, aborting, misuse>>

\* Past the barrier the environment is destroyed: the key is freed, the terminate
\* handler becomes std::abort, and MPI_Finalize is called.
Finalize(r) ==
    /\ Met("barrier", r)
    /\ Call(r, "finalize", "barrier", "finalizing")
    /\ key' = [key EXCEPT ![r] = FALSE]
    /\ handler' = [handler EXCEPT ![r] = "abort"]
    /\ UNCHANGED <<launch, failed, aborting, misuse>>

\* MPI_Finalize is collective, but a library may let a rank go early.
Finalized(r) ==
    /\ pc[r] = "finalizing"
    /\ pc' = [pc EXCEPT ![r] = "statics"]
    /\ UNCHANGED <<launch, key, entered, handler, failed, aborting, misuse>>

\* ~communicator disconnects neither the predefined communicators nor null.
Disconnects(comm) == comm \notin {"world", "null", "self"}

\* The static objects are destroyed after finalize(): the instance that holds
\* MPI_COMM_WORLD, and the pointer to the key, which would free it.
DestroyStatics(r) ==
    /\ pc[r] = "statics"
    /\ pc' = [pc EXCEPT ![r] = "exited"]
    /\ misuse' = IF Disconnects("world") \/ key[r] THEN misuse \cup {r} ELSE misuse
    /\ UNCHANGED <<launch, key, entered, handler, failed, aborting>>
-----------------------------------------------------------------------------
(* std::terminate                                                          *)

\* An exception leaves the user's main, before or after it met the others:
\* timed_terminate posts an ibarrier and starts to spin.
Throw(r) ==
    /\ pc[r] \in {"user", "working"}
    /\ Call(r, "ibarrier", pc[r], "spinning")
    /\ failed' = failed \cup {r}
    /\ UNCHANGED <<launch, key, handler, aborting, misuse>>

\* An exception after finalize(), from the destructor of a static object of the
\* user: what the terminate handler does depends on which one is set.
ThrowLate(r) ==
    /\ pc[r] = "statics"
    /\ pc' = [pc EXCEPT ![r] = "dead"]
    /\ misuse' = IF handler[r] = "timed" THEN misuse \cup {r} ELSE misuse
    /\ aborting' = TRUE
    /\ UNCHANGED <<launch, key, entered, handler, failed>>

\* The rank aborts all processes and itself.
AbortAll(r) ==
    /\ pc' = [pc EXCEPT ![r] = "dead"]
    /\ aborting' = TRUE
    /\ UNCHANGED <<launch, key, entered, handler, failed, misuse>>

\* The loop ends because the ibarrier is complete: all ranks have failed.
SeeAllFailed(r) ==
    /\ pc[r] = "spinning" /\ Met("ibarrier", r)
    /\ AbortAll(r)

\* Mutant: no limit on the time spent in the loop.
TimeOutNever(r) ==
    /\ pc[r] = "spinning" /\ Met("ibarrier", r)
    /\ pc' = [pc EXCEPT ![r] = "checking"]
    /\ UNCHANGED <<launch, key, entered, handler, failed, aborting, misuse>>

\* The loop ends because the time is over.
TimeOut(r) ==
    /\ pc[r] = "spinning"
    /\ pc' = [pc EXCEPT ![r] = "checking"]
    /\ UNCHANGED <<launch, key, entered, handler, failed, aborting, misuse>>

\* The ibarrier is looked at again, for nothing but the message that is printed or not:
\* all processes are aborted either way.
CheckAgain(r) == pc[r] = "checking" /\ AbortAll(r)

\* MPI_Abort takes the other processes down, sooner or later.
Killed(r) ==
    /\ aborting /\ pc[r] \notin {"dead", "exited"}
    /\ pc' = [pc EXCEPT ![r] = "dead"]
    /\ UNCHANGED <<launch, key, entered, handler, failed, aborting, misuse>>
-----------------------------------------------------------------------------
AllEnded == \A r \in Ranks : pc[r] \in {"exited", "dead"}

\* Rank 0 of a world of several ranks was told another size: it waits in the barrier that
\* it alone calls, and the others in the duplication of the world.
Stranded == launch.joined /\ N > 1 /\ 0 \in launch.misled
AllWaitForever == \A r \in Ranks : pc[r] = IF r = 0 THEN "launching" ELSE "duplicating"

\* Nothing is left to do, or to be waited for.
Ended == (AllEnded \/ (Stranded /\ AllWaitForever)) /\ UNCHANGED vars

MainStep(r) ==
    \/ Initialize(r) \/ InitializeWarning(r) \/ Warned(r) \/ Construct(r)
    \/ Duplicate(r) \/ EnterUserMain(r)
    \/ MeetOthers(r) \/ MetOthers(r) \/ ReturnFromUserMain(r)
    \/ EnterBarrier(r) \/ Finalize(r) \/ Finalized(r) \/ DestroyStatics(r)

TerminateStep(r) ==
    \/ Throw(r) \/ ThrowLate(r) \/ SeeAllFailed(r) \/ TimeOut(r) \/ CheckAgain(r)
    \/ Killed(r)

Next == (\E r \in Ranks : MainStep(r) \/ TerminateStep(r)) \/ Ended

Spec == Init /\ [][Next]_vars

\* Each rank goes on with main; the user's main returns or throws in the end;
\* a collective that must complete does, those that may complete early only when
\* all ranks have called them; clocks advance; MPI_Abort works.
Fairness ==
    \A r \in Ranks :
        /\ WF_vars(Initialize(r) \/ InitializeWarning(r)) /\ WF_vars(Warned(r))
        /\ WF_vars(Construct(r)) /\ WF_vars(Duplicate(r)) /\ WF_vars(EnterUserMain(r))
        /\ WF_vars(MeetOthers(r) \/ Throw(r)) /\ WF_vars(MetOthers(r))
        /\ WF_vars(ReturnFromUserMain(r) \/ Throw(r))
        /\ WF_vars(EnterBarrier(r) /\ Met("disconnect", r))
        /\ WF_vars(Finalize(r)) /\ WF_vars(DestroyStatics(r) \/ ThrowLate(r))
        /\ WF_vars(Finalized(r) /\ Met("finalize", r))
        /\ WF_vars(TimeOut(r)) /\ WF_vars(CheckAgain(r)) /\ WF_vars(Killed(r))

FairSpec == Spec /\ Fairness
-----------------------------------------------------------------------------
(* Properties                                                              *)

\* A rank gets to finalize(), and so to a regular exit with the user's return
\* value, only when no rank of its world failed: a failed job is never taken for a good one
\* by any rank, although nothing tells a rank that another one threw.
NormalExitIsUnanimous ==
    \A r \in Ranks : pc[r] \in {"finalizing", "statics", "exited"} => failed \cap World(r) = {}

\* No rank calls MPI after MPI_Finalize: neither the static world instance, nor the
\* static pointer to the key, nor the terminate handler when it runs that late.
NoCallAfterFinalize == misuse = {}

\* If rank 0 of a world of several ranks was told another size, no rank reaches the user's
\* main.
StrandedNeverStarts ==
    Stranded => \A r \in Ranks : pc[r] \in {"start", "launching", "constructing", "initialized", "duplicating"}

\* Whatever subset of the ranks throws, and when, every process comes to an end: no rank
\* waits forever for one that failed.  The one exception does not depend on the user: if
\* the launcher's variables announce another size to rank 0 of a world of several ranks,
\* the barrier of initialize() is entered by rank 0 alone, and no rank ever reaches the
\* user's main.
RunEnds ==
    /\ ~Stranded => <>AllEnded
    /\ Stranded => <>[]AllWaitForever
=============================================================================
