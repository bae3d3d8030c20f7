------------------------------- MODULE Exchange -------------------------------
(***************************************************************************)
(* communicator::send_receive, send_receive_replace and their _n forms     *)
(* (communicator.hpp): each rank passes a value to one rank and receives   *)
(* one from another.  Values of basic types take one exchange of MPI.      *)
(* Serialized values take two: first the sizes of the packages, then the   *)
(* packages.  All ranks make a series of such calls, as in                 *)
(* test/communicator_send_receive.cpp, each a shift around the ring, and   *)
(* each rank from a container of its own; a rank may be ahead of another.  *)
(***************************************************************************)
EXTENDS Dispatch, Sequences

CONSTANTS
    N,           \* the size of the communicator
    Calls,       \* bound: the number of calls in the series
    Sizes,       \* sizes of serialized packages, of one value or more: none cannot be read back
    AnySource    \* the program leaves the source to its default, MPI_ANY_SOURCE

ASSUME SizeAssumption == N \in Nat \ {0} /\ Calls \in Nat /\ Sizes \subseteq Nat
ASSUME SourceAssumption == AnySource \in BOOLEAN

Ranks == 0 .. N-1
Series == 1 .. Calls

VARIABLES
    shift,     \* how far each call of the series passes the values
    packed,    \* the calls whose values are not of basic types
    call,      \* the number of the call each rank is in, or is to make next
    pc,        \* where each rank is in that call
    own,       \* the size of the package each rank sends, p
    told,      \* the size of the package each rank is to receive, p2
    net,       \* messages on their way, for each sender and receiver, in order
    inbox,     \* the message matched by each rank's receive: at most one
    got        \* the values each rank received, in the order of the calls

vars == <<shift, packed, call, pc, own, told, net, inbox, got>>
plan == <<shift, packed>>

Dest(r, k) == (r + shift[k]) % N
Source(r, k) == (r + N - shift[k]) % N

\* A value is named by the rank and the call that gave it; the size of one that
\* is not serialized does not matter.
Message == [kind : {"size", "value"}, from : Ranks, call : Series, size : Sizes \cup {0}]

TypeOK ==
    /\ shift \in [Series -> Ranks] /\ packed \subseteq Series
    /\ call \in [Ranks -> 1 .. Calls + 1]
    /\ pc \in [Ranks -> {"between", "sizes", "values"}]
    /\ own \in [Ranks -> Sizes \cup {0}] /\ told \in [Ranks -> Sizes \cup {0}]
    /\ net \in [Ranks -> [Ranks -> Seq(Message)]]
    /\ inbox \in [Ranks -> Seq(Message)] /\ \A r \in Ranks : Len(inbox[r]) <= 1
    /\ got \in [Ranks -> Seq(Ranks \X Series)] /\ \A r \in Ranks : Len(got[r]) = call[r] - 1

Init ==
    /\ shift \in [Series -> Ranks]
    /\ packed \in SUBSET Series
    /\ call = [r \in Ranks |-> 1]
    /\ pc = [r \in Ranks |-> "between"]
    /\ own = [r \in Ranks |-> 0] /\ told = [r \in Ranks |-> 0]
    /\ net = [r \in Ranks |-> [q \in Ranks |-> <<>>]]
    /\ inbox = [r \in Ranks |-> <<>>]
    /\ got = [r \in Ranks |-> <<>>]
-----------------------------------------------------------------------------
(* MPI_Sendrecv and MPI_Sendrecv_replace: a message is sent and one that    *)
(* the receive matches is received.                                        *)

Sending(r, kind, size) ==
    [net EXCEPT ![r][Dest(r, call[r])] =
        Append(@, [kind |-> kind, from |-> r, call |-> call[r], size |-> size])]

\* Mutant: the source is not looked at.
AnyRank(r) == Ranks

\* The senders that a receive of rank r may match.
Senders(r) == IF AnySource THEN Ranks ELSE {Source(r, call[r])}

\* The receive matches the first message of some sender; its tag is not looked at.
Match(r) ==
    /\ pc[r] # "between" /\ inbox[r] = <<>>
    /\ \E q \in Senders(r) :
          /\ net[q][r] # <<>>
          /\ inbox' = [inbox EXCEPT ![r] = <<Head(net[q][r])>>]
          /\ net' = [net EXCEPT ![q][r] = Tail(@)]
    /\ UNCHANGED <<plan, call, pc, own, told, got>>

\* Whether the message is what the receive is for, and fits its buffer.
Fits(r) ==
    LET message == Head(inbox[r])
    IN  IF pc[r] = "sizes" THEN message.kind = "size"
        ELSE /\ message.kind = "value"
             /\ message.size = told[r]

Received(r) == inbox[r] # <<>> /\ Fits(r)

\* Rank r's own message was matched: nothing is left to a buffer of the library.
Sent(r) == net[r][Dest(r, call[r])] = <<>>
-----------------------------------------------------------------------------
(* The steps of a call.                                                    *)

Category(r) == IF call[r] \in packed THEN "unspecified" ELSE "basic"

\* What any of the calls may do with values of a category.
ExchangeForms ==
    [category \in DOMAIN Categories |->
        UNION {Forms(SendReceiveForm)[category], Forms(SendReceiveNForm)[category],
               Forms(SendReceiveInPlaceForm)[category],
               Forms(SendReceiveReplaceForm)[category], Forms(SendReceiveReplaceNForm)[category]}]

\* Values of a basic type: one exchange, of them or of a copy in a vector.
ExchangeBasic(r) ==
    /\ pc[r] = "between" /\ call[r] \in Series /\ "message" \in ExchangeForms[Category(r)]
    /\ net' = Sending(r, "value", 0)
    /\ pc' = [pc EXCEPT ![r] = "values"]
    /\ UNCHANGED <<plan, call, own, told, inbox, got>>

\* Other values are packed, and the sizes of the packages exchanged first.
ExchangeSizes(r) ==
    /\ pc[r] = "between" /\ call[r] \in Series /\ "package" \in ExchangeForms[Category(r)]
    /\ \E size \in Sizes :
          /\ own' = [own EXCEPT ![r] = size]
          /\ net' = Sending(r, "size", size)
    /\ pc' = [pc EXCEPT ![r] = "sizes"]
    /\ UNCHANGED <<plan, call, told, inbox, got>>

\* Mutant: an empty package is not sent.
ExchangeNonEmpty(r) ==
    /\ pc[r] = "sizes" /\ Received(r)
    /\ told' = [told EXCEPT ![r] = Head(inbox[r]).size]
    /\ inbox' = [inbox EXCEPT ![r] = <<>>]
    /\ net' = IF own[r] = 0 THEN net ELSE Sending(r, "value", own[r])
    /\ pc' = [pc EXCEPT ![r] = "values"]
    /\ UNCHANGED <<plan, call, own, got>>

\* p2 gets the size that was received, and the packages are exchanged.
ExchangePackages(r) ==
    /\ pc[r] = "sizes" /\ Received(r)
    /\ told' = [told EXCEPT ![r] = Head(inbox[r]).size]
    /\ inbox' = [inbox EXCEPT ![r] = <<>>]
    /\ net' = Sending(r, "value", own[r])
    /\ pc' = [pc EXCEPT ![r] = "values"]
    /\ UNCHANGED <<plan, call, own, got>>

\* Mutant: the values are unpacked from p and not from p2.
ReturnOwn(r) ==
    /\ pc[r] = "values" /\ Received(r)
    /\ got' = [got EXCEPT ![r] = Append(@, <<r, call[r]>>)]
    /\ inbox' = [inbox EXCEPT ![r] = <<>>]
    /\ call' = [call EXCEPT ![r] = @ + 1]
    /\ pc' = [pc EXCEPT ![r] = "between"]
    /\ own' = [own EXCEPT ![r] = 0] /\ told' = [told EXCEPT ![r] = 0]
    /\ UNCHANGED <<plan, net>>

\* The received values replace those that were sent; the packages are destroyed.
Return(r) ==
    /\ pc[r] = "values" /\ Received(r)
    /\ got' = [got EXCEPT ![r] = Append(@, <<Head(inbox[r]).from, Head(inbox[r]).call>>)]
    /\ inbox' = [inbox EXCEPT ![r] = <<>>]
    /\ call' = [call EXCEPT ![r] = @ + 1]
    /\ pc' = [pc EXCEPT ![r] = "between"]
    /\ own' = [own EXCEPT ![r] = 0] /\ told' = [told EXCEPT ![r] = 0]
    /\ UNCHANGED <<plan, net>>
-----------------------------------------------------------------------------
Finished == (\A r \in Ranks : call[r] > Calls) /\ UNCHANGED vars

Step(r) ==
    \/ ExchangeBasic(r) \/ ExchangeSizes(r) \/ ExchangePackages(r) \/ Return(r)
    \/ Match(r)

Next == (\E r \in Ranks : Step(r)) \/ Finished

Spec == Init /\ [][Next]_vars

\* Ranks go on, and a message that a receive waits for arrives.  A rank waits for
\* its own message to be matched: an MPI library need not buffer it.
Fairness ==
    \A r \in Ranks :
        /\ WF_vars(ExchangeBasic(r)) /\ WF_vars(ExchangeSizes(r)) /\ WF_vars(Match(r))
        /\ WF_vars(ExchangePackages(r) /\ Sent(r)) /\ WF_vars(Return(r) /\ Sent(r))

FairSpec == Spec /\ Fairness
-----------------------------------------------------------------------------
(* Properties                                                              *)

\* The assertion at communicator.hpp:996, and what it takes for granted: a size
\* is received where a size is expected, and the package has the size announced,
\* although a rank may be calls ahead of another, from another container, and no tag
\* tells calls apart; no message outlives the call it is for, to be taken by a later one.
NothingMisread ==
    /\ \A r \in Ranks : inbox[r] # <<>> => Fits(r)
    /\ \A r, q \in Ranks : \A i \in 1 .. Len(net[r][q]) : net[r][q][i].call >= call[q]

\* Each call returns the values that the source gave to the same call.
RightValues ==
    \A r \in Ranks : \A k \in 1 .. Len(got[r]) : got[r][k] = <<Source(r, k), k>>

\* All calls return, even if the library buffers no message.
CallsReturn == <>(\A r \in Ranks : call[r] > Calls)
=============================================================================
