-------------------------------- MODULE Request --------------------------------
(***************************************************************************)
(* mpi3::request (request.hpp): C++ objects that hold MPI requests.  A     *)
(* process keeps a few of them in a scope, as in test/request_wait_all.cpp *)
(* and its neighbours: it posts operations on its buffers, moves and swaps *)
(* the objects, collects what completed by wait, wait_all, wait_any,       *)
(* wait_some, completed_some and test_some, and leaves the scope, at the   *)
(* end or by an exception.  MPI completes the operations meanwhile.        *)
(*                                                                         *)
(* The program keeps its own record of what it posted and did not collect, *)
(* from the values those functions return; it reuses a buffer and asks for *)
(* more completions by that record.                                        *)
(***************************************************************************)
EXTENDS Naturals

CONSTANTS
    Objects,     \* the request objects of the scope
    Buffers,     \* the buffers of the program
    NoBuffer,    \* not a buffer
    MaxRequests  \* bound: requests MPI can allocate at a time

\* Values of the handle impl_; NoObject says that the object was destroyed.
Requests == 1 .. MaxRequests
Null == 0
NoObject == MaxRequests + 1

VARIABLES
    impl,      \* impl_ of each object
    op,        \* the MPI requests
    awaited,   \* the requests that the call under way waits for
    dropped,   \* those among them whose object is destroyed after the wait
    uses,      \* the program's record: the buffer of the operation each object holds
    outcome,   \* what became of the last call
    scope      \* of the objects: "open", "leaving" or "left"

vars == <<impl, op, awaited, dropped, uses, outcome, scope>>

\* A persistent request is inactive before its first start and after each wait.
Free == [state |-> "free", persistent |-> FALSE, buffer |-> NoBuffer]
Ops == [state : {"free", "inactive", "active", "complete"},
        persistent : BOOLEAN, buffer : Buffers \cup {NoBuffer}]

TypeOK ==
    /\ impl \in [Objects -> Requests \cup {Null, NoObject}]
    /\ \A h \in Objects : impl[h] \in Requests => op[impl[h]].state # "free"
    /\ op \in [Requests -> Ops]
    /\ dropped \subseteq awaited /\ awaited \subseteq Requests
    /\ uses \in [Objects -> Buffers \cup {NoBuffer}]
    /\ outcome \in {"defined", "undefined"}
    /\ scope \in {"open", "leaving", "left"}

Init ==
    /\ impl = [h \in Objects |-> Null]
    /\ op = [r \in Requests |-> Free]
    /\ awaited = {} /\ dropped = {}
    /\ uses = [h \in Objects |-> NoBuffer]
    /\ outcome = "defined"
    /\ scope = "open"

\* The program may call: no call is under way.
Ready == scope = "open" /\ awaited = {}

\* The request an object holds, if it holds one.
HeldBy(h) == {impl[h]} \cap Requests
Holds(h, state) == impl[h] \in Requests /\ op[impl[h]].state = state
Active(r) == op[r].state \in {"active", "complete"}
-----------------------------------------------------------------------------
(* The MPI library.                                                        *)

\* The peers take part: a message is sent or received.
Complete(r) ==
    /\ op[r].state = "active"
    /\ op' = [op EXCEPT ![r].state = "complete"]
    /\ UNCHANGED <<impl, awaited, dropped, uses, outcome, scope>>

\* What a completed request becomes when MPI reports it.
Collected(o) == IF o.persistent THEN [o EXCEPT !.state = "inactive"] ELSE Free

\* MPI sets the handles of collected requests to null unless they are persistent.
Handle(r) == IF op[r].persistent THEN r ELSE Null

\* Collecting the completed requests of objects S.
Collect(S) ==
    /\ op' = [r \in Requests |->
                IF \E h \in S : impl[h] = r THEN Collected(op[r]) ELSE op[r]]
    /\ impl' = [h \in Objects |-> IF h \in S THEN Handle(impl[h]) ELSE impl[h]]

\* The program strikes the operations of objects S off its record.
Strike(S) == uses' = [h \in Objects |-> IF h \in S THEN NoBuffer ELSE uses[h]]

FreshRequests == {r \in Requests : op[r].state = "free"}
NewRequest == CHOOSE r \in FreshRequests : TRUE
-----------------------------------------------------------------------------
(* Objects: request's constructors, assignments, swap and destructor.      *)

\* An object gets a handle; what it held goes to a temporary, whose destructor
\* waits for it and frees it.
Release(h) == awaited' = HeldBy(h) /\ dropped' = HeldBy(h)

\* h = comm.isend_n(...) or the like, on a buffer that is not in use.  The new
\* operation is under way before the old one is waited for.
Post(h, b) ==
    /\ Ready /\ FreshRequests # {}
    /\ \A k \in Objects : uses[k] # b
    /\ op' = [op EXCEPT ![NewRequest] =
                [state |-> "active", persistent |-> FALSE, buffer |-> b]]
    /\ impl' = [impl EXCEPT ![h] = NewRequest]
    /\ uses' = [uses EXCEPT ![h] = b]
    /\ Release(h)
    /\ UNCHANGED <<outcome, scope>>

\* h = comm.bsend_init_n(...): a persistent request, not started.
PostPersistent(h, b) ==
    /\ Ready /\ FreshRequests # {}
    /\ op' = [op EXCEPT ![NewRequest] =
                [state |-> "inactive", persistent |-> TRUE, buffer |-> b]]
    /\ impl' = [impl EXCEPT ![h] = NewRequest]
    /\ uses' = [uses EXCEPT ![h] = NoBuffer]
    /\ Release(h)
    /\ UNCHANGED <<outcome, scope>>

\* start(), on a buffer that is not in use.
Start(h) ==
    /\ Ready /\ Holds(h, "inactive")
    /\ \A k \in Objects : uses[k] # op[impl[h]].buffer
    /\ op' = [op EXCEPT ![impl[h]].state = "active"]
    /\ uses' = [uses EXCEPT ![h] = op[impl[h]].buffer]
    /\ UNCHANGED <<impl, awaited, dropped, outcome, scope>>

\* Mutant: the handle is overwritten.
MoveOverwriting(h, g) ==
    /\ Ready /\ h # g
    /\ impl' = [impl EXCEPT ![h] = impl[g], ![g] = Null]
    /\ uses' = [uses EXCEPT ![h] = uses[g], ![g] = NoBuffer]
    /\ UNCHANGED <<op, awaited, dropped, outcome, scope>>

\* h = std::move(g): through a temporary that takes g's handle, is swapped with h
\* and destroyed.  Nothing happens when h is g.
Move(h, g) ==
    /\ Ready /\ h # g
    /\ impl' = [impl EXCEPT ![h] = impl[g], ![g] = Null]
    /\ uses' = [uses EXCEPT ![h] = uses[g], ![g] = NoBuffer]
    /\ Release(h)
    /\ UNCHANGED <<op, outcome, scope>>

Swap(h, g) ==
    /\ Ready
    /\ impl' = [impl EXCEPT ![h] = impl[g], ![g] = impl[h]]
    /\ uses' = [uses EXCEPT ![h] = uses[g], ![g] = uses[h]]
    /\ UNCHANGED <<op, awaited, dropped, outcome, scope>>
-----------------------------------------------------------------------------
(* Waiting.                                                                *)

\* wait() and get() of one object.
Wait(h) ==
    /\ Ready /\ HeldBy(h) # {}
    /\ awaited' = HeldBy(h)
    /\ UNCHANGED <<impl, op, dropped, uses, outcome, scope>>

\* wait_all of all objects.
WaitAll ==
    /\ Ready /\ UNION {HeldBy(h) : h \in Objects} # {}
    /\ awaited' = UNION {HeldBy(h) : h \in Objects}
    /\ UNCHANGED <<impl, op, dropped, uses, outcome, scope>>

\* wait(args...): the handles are taken out of the objects first.  Persistent
\* requests would have nobody to free them: programs do not pass them.
WaitArgs(S) ==
    /\ Ready /\ UNION {HeldBy(h) : h \in S} # {}
    /\ \A h \in S : \A r \in HeldBy(h) : ~op[r].persistent
    /\ awaited' = UNION {HeldBy(h) : h \in S}
    /\ impl' = [h \in Objects |-> IF h \in S THEN Null ELSE impl[h]]
    /\ Strike(S)
    /\ UNCHANGED <<op, dropped, outcome, scope>>

\* Mutant: an inactive request is not considered done.
WhenComplete(r) == op[r].state = "complete"

\* MPI_Wait does not wait for an inactive request.
Done(r) == op[r].state \in {"complete", "inactive"}

\* The call returns when all it waits for is done.  A destroyed object frees its
\* request if it is persistent.
Return ==
    /\ awaited # {} /\ \A r \in awaited : Done(r)
    /\ op' = [r \in Requests |->
                IF r \in dropped THEN Free
                ELSE IF r \in awaited THEN Collected(op[r]) ELSE op[r]]
    /\ impl' = [h \in Objects |->
                  IF impl[h] \in awaited THEN Handle(impl[h]) ELSE impl[h]]
    /\ Strike({h \in Objects : impl[h] \in awaited})
    /\ awaited' = {} /\ dropped' = {}
    /\ UNCHANGED <<outcome, scope>>
-----------------------------------------------------------------------------
(* Waiting for some.  By its record the program asks only while something  *)
(* is under way; when nothing is, MPI returns MPI_UNDEFINED, of which      *)
(* wait_any makes an iterator out of range and the others a length_error.  *)

Completed == {h \in Objects : Holds(h, "complete")}
SomeActive == \E h \in Objects : \E r \in HeldBy(h) : Active(r)
Believes == \E h \in Objects : uses[h] # NoBuffer

Asks == Ready /\ Believes /\ UNCHANGED <<awaited, dropped, scope>>

NothingActive == ~SomeActive /\ outcome' = "undefined" /\ UNCHANGED <<impl, op, uses>>

\* Mutant: the first iterator is returned, whatever the index.
WaitAnyFirst ==
    /\ Asks
    /\ \/ NothingActive
       \/ \E h \in Completed :
             /\ Collect({h}) /\ Strike({CHOOSE k \in Objects : uses[k] # NoBuffer})
             /\ UNCHANGED outcome

\* wait_any returns the position of one request that completed.
WaitAny ==
    /\ Asks
    /\ IF SomeActive
       THEN \E h \in Completed : Collect({h}) /\ Strike({h}) /\ UNCHANGED outcome
       ELSE NothingActive

\* wait_some returns the positions of all that completed, one at least.
WaitSome ==
    /\ Asks
    /\ IF SomeActive
       THEN Completed # {} /\ Collect(Completed) /\ Strike(Completed) /\ UNCHANGED outcome
       ELSE NothingActive

\* completed_some does not wait, and may return no position.
CompletedSome ==
    /\ Asks
    /\ IF SomeActive
       THEN Collect(Completed) /\ Strike(Completed) /\ UNCHANGED outcome
       ELSE NothingActive

\* test_some collects too, and does not return the positions: the program looks at
\* valid(), which tells nothing of persistent requests.
TestSome ==
    /\ Asks
    /\ \A h \in Objects : \A r \in HeldBy(h) : ~op[r].persistent
    /\ Collect(Completed)
    /\ Strike({h \in Objects : impl'[h] = Null})
    /\ UNCHANGED outcome
-----------------------------------------------------------------------------
(* The end of the scope.                                                   *)

\* Between calls the program reaches the end, or an exception leaves the scope.
Leave ==
    /\ Ready
    /\ scope' = "leaving"
    /\ UNCHANGED <<impl, op, awaited, dropped, uses, outcome>>

\* Mutant: the destructor does not wait.
DestroyFreeing(h) ==
    /\ scope = "leaving" /\ awaited = {} /\ impl[h] # NoObject
    /\ impl' = [impl EXCEPT ![h] = NoObject]
    /\ UNCHANGED <<op, awaited, dropped, uses, outcome, scope>>

\* The destructor of one object.
Destroy(h) ==
    /\ scope = "leaving" /\ awaited = {} /\ impl[h] # NoObject
    /\ impl' = [impl EXCEPT ![h] = NoObject]
    /\ uses' = [uses EXCEPT ![h] = NoBuffer]
    /\ Release(h)
    /\ UNCHANGED <<op, outcome, scope>>

\* The buffers, declared before the objects, are destroyed after them.
DestroyBuffers ==
    /\ scope = "leaving" /\ awaited = {}
    /\ \A h \in Objects : impl[h] = NoObject
    /\ scope' = "left"
    /\ UNCHANGED <<impl, op, awaited, dropped, uses, outcome>>

Over == scope = "left" /\ UNCHANGED vars
-----------------------------------------------------------------------------
Construction(h) ==
    \/ \E b \in Buffers : Post(h, b) \/ PostPersistent(h, b)
    \/ \E g \in Objects : Move(h, g) \/ Swap(h, g)

Next ==
    \/ \E r \in Requests : Complete(r)
    \/ \E h \in Objects : Construction(h) \/ Start(h) \/ Wait(h) \/ Destroy(h)
    \/ WaitAll \/ (\E S \in SUBSET Objects : WaitArgs(S)) \/ Return
    \/ WaitAny \/ WaitSome \/ CompletedSome \/ TestSome
    \/ Leave \/ DestroyBuffers \/ Over

Spec == Init /\ [][Next]_vars

\* The peers take part in what was posted, and a scope that is left is unwound.
\* The program need not ever leave the scope.
Fairness ==
    /\ \A r \in Requests : WF_vars(Complete(r))
    /\ WF_vars(Return) /\ WF_vars(DestroyBuffers)
    /\ \A h \in Objects : WF_vars(Destroy(h))

FairSpec == Spec /\ Fairness
-----------------------------------------------------------------------------
(* Properties                                                              *)

\* The objects that hold a request.
Holders(r) == {h \in Objects : impl[h] = r}

\* Every request MPI allocated is held by one object, or by the temporary or
\* destructor that waits for it: none leaks, none is waited for or freed twice.
OneHolder ==
    \A r \in Requests :
        /\ op[r].state # "free" /\ r \notin awaited => \E h \in Objects : Holders(r) = {h}
        /\ r \in dropped => Holders(r) = {}
        /\ op[r].state = "free" => Holders(r) = {}

\* MPI uses no buffer after the scope of the requests is left, by an exception
\* for instance, and the buffers are destroyed; no request stays allocated; and two
\* operations never use one buffer at a time, though the program frees it for reuse by
\* what the waiting functions return.
BuffersQuiet ==
    /\ scope = "left" => \A r \in Requests : op[r] = Free
    /\ \A r, s \in Requests :
          Active(r) /\ Active(s) /\ op[r].buffer = op[s].buffer => r = s

\* A program that counts what it collected, as in test/request_test_some.cpp,
\* never asks for completions when there is nothing to complete.
CallsDefined == outcome = "defined"

\* A scope that is left is unwound: the destructors wait, but not forever.
ScopeIsLeft == scope = "leaving" ~> scope = "left"
=============================================================================
