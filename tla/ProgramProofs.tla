----------------------------- MODULE ProgramProofs -----------------------------
(***************************************************************************)
(* Proofs about programs from their beginning to their end: C programs of  *)
(* any length over fake/mpi.h, each a process that is alone, and programs  *)
(* of any number of ranks that run the main() of main.hpp.                 *)
(***************************************************************************)
EXTENDS FakeMPI, MCProgram, TLAPS

HandlerVariables == {"fatal", "return", "own"}
HandlerFunctions == {"fatal_error_", "no_op_error_", "user"}

\* What was allocated: communicators have handlers, and the program's variables are null
\* or name what was allocated.
Allocated ==
    /\ objects \in Seq(Nat) /\ handlers \in Seq(HandlerFunctions)
    /\ \A k \in 1 .. Len(objects) : objects[k] \in 0 .. Len(handlers)
    /\ comm \in [Comms -> 0 .. Len(objects)]
    /\ handler \in [HandlerVariables -> 0 .. Len(handlers)]
    /\ phase = "before" => objects = <<>> /\ handlers = <<>>

\* The record of what MPI promises.
IsView(m) ==
    /\ m = [cell |-> m.cell, flag |-> m.flag, got |-> m.got, comm |-> m.comm]
    /\ m.comm = [v \in Comms |-> m.comm[v]]

\* m is what the program sees.
SeenAs(m) ==
    /\ cell = m.cell /\ flag = m.flag /\ got = m.got
    /\ \A v \in Comms : HandlerOf(v) = m.comm[v]

\* A program that kept to the header and was not stopped sees what MPI promises, in
\* every phase.
SeesPromised == kept /\ phase # "stopped" => SeenAs(mpi)

\* The inductive invariant.
FakeInv ==
    /\ phase \in {"before", "up", "finalized", "stopped", "exited"}
    /\ kept \in BOOLEAN /\ flag \in BOOLEAN
    /\ cell \in [Cells -> Data]
    /\ Allocated
    /\ IsView(mpi)
    /\ SeesPromised
-----------------------------------------------------------------------------
(* What is promised, changed in one place.                                 *)

LEMMA OtherGot ==
    ASSUME NEW m, IsView(m), NEW x
    PROVE  LET n == [m EXCEPT !.got = x]
           IN  /\ IsView(n)
               /\ n.cell = m.cell /\ n.flag = m.flag /\ n.got = x /\ n.comm = m.comm
BY DEF IsView

LEMMA OtherFlag ==
    ASSUME NEW m, IsView(m), NEW x
    PROVE  LET n == [m EXCEPT !.flag = x]
           IN  /\ IsView(n)
               /\ n.cell = m.cell /\ n.flag = x /\ n.got = m.got /\ n.comm = m.comm
BY DEF IsView

LEMMA OtherCell ==
    ASSUME NEW m, IsView(m), NEW x
    PROVE  LET n == [m EXCEPT !.cell = x]
           IN  /\ IsView(n)
               /\ n.cell = x /\ n.flag = m.flag /\ n.got = m.got /\ n.comm = m.comm
BY DEF IsView

LEMMA OtherComm ==
    ASSUME NEW m, IsView(m), NEW w \in Comms, NEW x
    PROVE  LET n == [m EXCEPT !.comm[w] = x]
           IN  /\ IsView(n)
               /\ n.cell = m.cell /\ n.flag = m.flag /\ n.got = m.got
               /\ n.comm[w] = x /\ \A v \in Comms \ {w} : n.comm[v] = m.comm[v]
BY DEF IsView

LEMMA SameView ==
    ASSUME IsView(mpi), NEW x
    PROVE  /\ IsView(Same(x))
           /\ Same(x).cell = mpi.cell /\ Same(x).flag = mpi.flag
           /\ Same(x).got = x /\ Same(x).comm = mpi.comm
BY OtherGot DEF Same
-----------------------------------------------------------------------------
(* A call keeps the invariant when what it promises is what is then seen,  *)
(* by a program that had kept to the header and still does.                *)

LEMMA Expects ==
    ASSUME NEW e, NEW k \in BOOLEAN, kept \in BOOLEAN, Expect(e, k)
    PROVE  /\ kept' \in BOOLEAN
           /\ kept' => kept /\ k /\ mpi' = e
           /\ ~kept' => mpi' = mpi
BY Zenon DEF Expect

LEMMA Fulfilled ==
    ASSUME FakeInv, phase # "stopped",
           NEW e, IsView(e), NEW k \in BOOLEAN, Expect(e, k),
           phase' \in {"up", "finalized", "exited"},
           flag' \in BOOLEAN, cell' \in [Cells -> Data], Allocated',
           kept /\ k /\ SeenAs(mpi) =>
               /\ cell' = e.cell /\ flag' = e.flag /\ got' = e.got
               /\ \A v \in Comms : HandlerOf(v)' = e.comm[v]
    PROVE  FakeInv'
<1>1. /\ kept' \in BOOLEAN
      /\ kept' => kept /\ k /\ mpi' = e
      /\ ~kept' => mpi' = mpi
  BY Expects DEF FakeInv
<1>2. IsView(mpi)'
  <2>1. CASE kept'
    BY <1>1, <2>1 DEF IsView
  <2>2. CASE ~kept'
    BY <1>1, <2>2 DEF FakeInv, IsView
  <2>3. QED
    BY <2>1, <2>2
<1>3. SeesPromised'
  <2>1. SUFFICES ASSUME kept'
                 PROVE  SeenAs(mpi)'
    BY DEF SeesPromised
  <2>2. kept /\ k /\ SeenAs(mpi) /\ mpi' = e
    BY <1>1, <2>1 DEF FakeInv, SeesPromised
  <2>3. QED
    BY <2>2 DEF SeenAs
<1>4. QED
  BY <1>1, <1>2, <1>3 DEF FakeInv

\* What is not allocated anew stays allocated.
LEMMA StillAllocated ==
    ASSUME FakeInv, phase # "before", phase' # "before",
           UNCHANGED <<objects, handlers, comm, handler>>
    PROVE  Allocated' /\ \A v \in Comms : HandlerOf(v)' = HandlerOf(v)
BY DEF FakeInv, Allocated, HandlerOf, Serves

\* Calls that make or change no communicator.
LEMMA Answered ==
    ASSUME FakeInv, phase # "before", phase # "stopped",
           NEW e, IsView(e), NEW k \in BOOLEAN, Expect(e, k),
           phase' \in {"up", "finalized", "exited"},
           UNCHANGED <<objects, handlers, comm, handler>>,
           flag' \in BOOLEAN, cell' \in [Cells -> Data],
           kept /\ k /\ SeenAs(mpi) =>
               /\ cell' = e.cell /\ flag' = e.flag /\ got' = e.got /\ e.comm = mpi.comm
    PROVE  FakeInv'
<1>1. Allocated' /\ \A v \in Comms : HandlerOf(v)' = HandlerOf(v)
  BY StillAllocated
<1>2. kept /\ k /\ SeenAs(mpi) => \A v \in Comms : HandlerOf(v)' = e.comm[v]
  BY <1>1 DEF SeenAs
<1>3. QED
  BY <1>1, <1>2, Fulfilled

\* Calls that only give something: what MPI gives, to a program that keeps to the header.
LEMMA Gave ==
    ASSUME FakeInv, phase # "before", phase # "stopped",
           NEW x, NEW y, NEW k \in BOOLEAN, Expect(Same(y), k),
           got' = x, k => x = y,
           phase' \in {"up", "finalized", "exited"},
           UNCHANGED <<objects, handlers, comm, handler, cell, flag>>
    PROVE  FakeInv'
<1>1. /\ IsView(Same(y))
      /\ Same(y).cell = mpi.cell /\ Same(y).flag = mpi.flag
      /\ Same(y).got = y /\ Same(y).comm = mpi.comm
  BY SameView DEF FakeInv
<1>2. flag' \in BOOLEAN /\ cell' \in [Cells -> Data]
  BY DEF FakeInv
<1>3. kept /\ k /\ SeenAs(mpi) =>
          /\ cell' = Same(y).cell /\ flag' = Same(y).flag /\ got' = Same(y).got
          /\ Same(y).comm = mpi.comm
  BY <1>1 DEF SeenAs
<1>4. QED
  BY <1>1, <1>2, <1>3, Answered

\* Calls that a program that keeps to the header does not make.
LEMMA NotKept ==
    ASSUME FakeInv, phase # "before", phase # "stopped",
           NEW e, Expect(e, FALSE),
           phase' \in {"up", "finalized", "exited"},
           flag' \in BOOLEAN,
           UNCHANGED <<objects, handlers, comm, handler, cell>>
    PROVE  FakeInv'
<1>1. ~kept' /\ kept' \in BOOLEAN /\ mpi' = mpi
  BY Expects DEF FakeInv
<1>2. Allocated' /\ \A v \in Comms : HandlerOf(v)' = HandlerOf(v)
  BY StillAllocated
<1>3. QED
  BY <1>1, <1>2 DEF FakeInv, SeesPromised, IsView

LEMMA StoppedKeeps ==
    ASSUME FakeInv, phase # "before", Stops
    PROVE  FakeInv'
<1>1. Allocated'
  BY StillAllocated DEF Stops, stub
<1>2. QED
  BY <1>1 DEF FakeInv, Stops, stub, SeesPromised, IsView
-----------------------------------------------------------------------------
(* The start and the end.                                                  *)

LEMMA PairInSeq ==
    ASSUME NEW S, NEW a \in S, NEW b \in S
    PROVE  <<a, b>> \in Seq(S) /\ Len(<<a, b>>) = 2
OBVIOUS

LEMMA ExceptTwo ==
    ASSUME NEW S, NEW T, NEW f \in [S -> T], NEW a, NEW b, NEW x \in T, NEW y \in T
    PROVE  [f EXCEPT ![a] = x, ![b] = y] \in [S -> T]
OBVIOUS

LEMMA FakeInvInit == Init => FakeInv
<1> SUFFICES ASSUME Init
             PROVE  FakeInv
  OBVIOUS
<1>1. objects = <<>> /\ handlers = <<>> /\ phase = "before" /\ kept = TRUE /\ flag = FALSE
  BY DEF Init
<1>2. comm = [v \in Comms |-> Null] /\ handler = [h \in HandlerVariables |-> Null]
  BY DEF Init, HandlerVariables
<1>3. /\ objects \in Seq(Nat) /\ handlers \in Seq(HandlerFunctions)
      /\ Len(objects) = 0 /\ Len(handlers) = 0
  BY <1>1
<1>4. Allocated
  BY <1>1, <1>2, <1>3 DEF Allocated, Null
<1>5. mpi = [cell |-> cell, flag |-> FALSE, got |-> Success, comm |-> [v \in Comms |-> "null"]]
  BY DEF Init
<1>6. IsView(mpi)
  BY <1>5 DEF IsView
<1>7. SeenAs(mpi)
  <2>1. \A v \in Comms : HandlerOf(v) = "null" /\ mpi.comm[v] = "null"
    BY <1>2, <1>5 DEF HandlerOf, Serves
  <2>2. cell = mpi.cell /\ got = mpi.got
    BY <1>5 DEF Init
  <2>3. mpi.flag = FALSE
    BY <1>5
  <2>4. QED
    BY <1>1, <2>1, <2>2, <2>3 DEF SeenAs
<1>8. QED
  BY <1>1, <1>4, <1>6, <1>7 DEF FakeInv, SeesPromised, Init

LEMMA InitKeeps == FakeInv /\ MPI_Init => FakeInv'
<1> SUFFICES ASSUME FakeInv, MPI_Init
             PROVE  FakeInv'
  OBVIOUS
<1>1. PICK e : e = [mpi EXCEPT !.comm = [@ EXCEPT !["world"] = "fatal_error_",
                                                 !["self"] = "fatal_error_"]]
  OBVIOUS
<1>2. /\ IsView(e)
      /\ e.cell = mpi.cell /\ e.flag = mpi.flag /\ e.got = mpi.got
      /\ \A v \in Comms : e.comm[v] = IF v \in {"world", "self"} THEN "fatal_error_"
                                      ELSE mpi.comm[v]
  BY <1>1 DEF FakeInv, IsView, Comms
<1>3. Expect(e, TRUE)
  BY <1>1, Zenon DEF MPI_Init
<1>4. /\ phase = "before" /\ phase' = "up" /\ UNCHANGED <<cell, flag, got>>
      /\ handlers' = <<"fatal_error_", "no_op_error_">> /\ objects' = <<1, 1>>
      /\ comm' = [comm EXCEPT !["world"] = 1, !["self"] = 2]
      /\ handler' = [handler EXCEPT !["fatal"] = 1, !["return"] = 2]
  BY DEF MPI_Init
<1>5. Allocated'
  <2>1. objects' \in Seq(Nat) /\ Len(objects') = 2 /\ objects'[1] = 1 /\ objects'[2] = 1
    BY <1>4
  <2>2. handlers' \in Seq(HandlerFunctions) /\ Len(handlers') = 2
    <3>1. "fatal_error_" \in HandlerFunctions /\ "no_op_error_" \in HandlerFunctions
      BY DEF HandlerFunctions
    <3>2. QED
      BY <1>4, <3>1, PairInSeq
  <2>3. \A k \in 1 .. Len(objects') : objects'[k] \in 0 .. Len(handlers')
    BY <2>1, <2>2
  <2>4. /\ comm \in [Comms -> 0 .. 0] /\ handler \in [HandlerVariables -> 0 .. 0]
    BY <1>4 DEF FakeInv, Allocated
  <2>5. comm' \in [Comms -> 0 .. 2]
    <3>1. comm \in [Comms -> 0 .. 2] /\ 1 \in 0 .. 2 /\ 2 \in 0 .. 2
      BY <2>4
    <3>2. QED
      BY <1>4, <3>1, ExceptTwo
  <2>6. handler' \in [HandlerVariables -> 0 .. 2]
    <3>1. handler \in [HandlerVariables -> 0 .. 2] /\ 1 \in 0 .. 2 /\ 2 \in 0 .. 2
      BY <2>4
    <3>2. QED
      BY <1>4, <3>1, ExceptTwo
  <2>7. QED
    BY <1>4, <2>1, <2>2, <2>3, <2>5, <2>6 DEF Allocated
<1>6. ASSUME SeenAs(mpi), NEW v \in Comms
      PROVE  HandlerOf(v)' = e.comm[v]
  <2>1. comm[v] = Null /\ mpi.comm[v] = "null"
    BY <1>4, <1>6 DEF FakeInv, Allocated, SeenAs, HandlerOf, Serves, Null
  <2>2. CASE v \in {"world", "self"}
    BY <1>2, <1>4, <2>2 DEF HandlerOf, Serves, Null, FakeInv, Allocated
  <2>3. CASE v \notin {"world", "self"}
    BY <1>2, <1>4, <2>1, <2>3 DEF HandlerOf, Serves, FakeInv, Allocated
  <2>4. QED
    BY <2>2, <2>3
<1>7. flag' \in BOOLEAN /\ cell' \in [Cells -> Data]
  BY <1>4 DEF FakeInv
<1>8. QED
  BY <1>2, <1>3, <1>4, <1>5, <1>6, <1>7, Fulfilled DEF SeenAs

LEMMA InitThreadKeeps == FakeInv /\ MPI_Init_thread => FakeInv'
<1> SUFFICES ASSUME FakeInv, MPI_Init_thread
             PROVE  FakeInv'
  OBVIOUS
<1>1. ~kept' /\ kept' \in BOOLEAN /\ mpi' = mpi
  BY Expects DEF FakeInv, MPI_Init_thread
<1>2. Allocated'
  BY DEF FakeInv, Allocated, MPI_Init_thread, stub
<1>3. QED
  BY <1>1, <1>2 DEF FakeInv, MPI_Init_thread, stub, SeesPromised, IsView

LEMMA InitializedKeeps == FakeInv /\ MPI_Initialized => FakeInv'
<1> SUFFICES ASSUME FakeInv, MPI_Initialized
             PROVE  FakeInv'
  OBVIOUS
<1>1. /\ phase \in {"before", "up"} /\ phase' = phase /\ flag' = TRUE /\ got' = Success
      /\ UNCHANGED <<objects, handlers, comm, handler, cell>>
  BY DEF MPI_Initialized, Gives
<1>2. CASE phase = "before"
  <2>1. Expect([Same(Success) EXCEPT !.flag = TRUE], FALSE)
    BY <1>2 DEF MPI_Initialized
  <2>2. ~kept' /\ kept' \in BOOLEAN /\ mpi' = mpi
    BY <2>1, Expects DEF FakeInv
  <2>3. Allocated'
    BY <1>1, <1>2 DEF FakeInv, Allocated
  <2>4. QED
    BY <1>1, <2>2, <2>3 DEF FakeInv, SeesPromised, IsView
<1>3. CASE phase = "up"
  <2>1. PICK e : e = [Same(Success) EXCEPT !.flag = TRUE]
    OBVIOUS
  <2>2. /\ IsView(e)
        /\ e.cell = mpi.cell /\ e.flag = TRUE /\ e.got = Success /\ e.comm = mpi.comm
    BY <2>1, SameView, OtherFlag DEF FakeInv
  <2>3. Expect(e, TRUE)
    BY <1>3, <2>1 DEF MPI_Initialized
  <2>4. flag' \in BOOLEAN /\ cell' \in [Cells -> Data]
    BY <1>1 DEF FakeInv
  <2>5. QED
    BY <1>1, <1>3, <2>2, <2>3, <2>4, Answered DEF SeenAs
<1>4. QED
  BY <1>1, <1>2, <1>3

\* MPI_Finalize, and what sets a flag once MPI is up.
LEMMA FinalizeKeeps == FakeInv /\ MPI_Finalize => FakeInv'
<1> SUFFICES ASSUME FakeInv, MPI_Finalize
             PROVE  FakeInv'
  OBVIOUS
<1>1. phase = "up" /\ phase' = "finalized" /\ got' = Success /\ Expect(Same(Success), TRUE)
  BY DEF MPI_Finalize
<1>2. UNCHANGED <<objects, handlers, comm, handler, cell, flag>>
  BY DEF MPI_Finalize, stub
<1>3. QED
  BY <1>1, <1>2, Gave

LEMMA AbortKeeps == FakeInv /\ MPI_Abort => FakeInv'
<1> SUFFICES ASSUME FakeInv, MPI_Abort
             PROVE  FakeInv'
  OBVIOUS
<1>1. phase = "up" /\ phase' = "exited" /\ got' = "exit" /\ Expect(Same("exit"), TRUE)
  BY DEF MPI_Abort, Call, CallWith, Exits
<1>2. UNCHANGED <<objects, handlers, comm, handler, cell, flag>>
  BY DEF MPI_Abort, Exits, stub
<1>3. QED
  BY <1>1, <1>2, Gave

LEMMA RequestStatusKeeps == FakeInv /\ MPI_Request_get_status => FakeInv'
<1> SUFFICES ASSUME FakeInv, MPI_Request_get_status
             PROVE  FakeInv'
  OBVIOUS
<1>1. PICK e : e = [Same(Success) EXCEPT !.flag = TRUE]
  OBVIOUS
<1>2. /\ IsView(e)
      /\ e.cell = mpi.cell /\ e.flag = TRUE /\ e.got = Success /\ e.comm = mpi.comm
  BY <1>1, SameView, OtherFlag DEF FakeInv
<1>3. /\ phase = "up" /\ phase' = "up" /\ flag' = TRUE /\ got' = Success /\ Expect(e, TRUE)
      /\ UNCHANGED <<objects, handlers, comm, handler, cell>>
  BY <1>1 DEF MPI_Request_get_status, Call, CallWith, Gives
<1>4. flag' \in BOOLEAN /\ cell' \in [Cells -> Data]
  BY <1>3 DEF FakeInv
<1>5. QED
  BY <1>2, <1>3, <1>4, Answered DEF SeenAs

LEMMA AsksKeeps == FakeInv /\ (\E name \in Questions : Asks(name)) => FakeInv'
<1> SUFFICES ASSUME FakeInv, NEW name \in Questions, Asks(name)
             PROVE  FakeInv'
  OBVIOUS
<1>1. PICK e : e = [Same(Success) EXCEPT !.flag = TRUE]
  OBVIOUS
<1>2. /\ IsView(e)
      /\ e.cell = mpi.cell /\ e.flag = TRUE /\ e.got = Success /\ e.comm = mpi.comm
  BY <1>1, SameView, OtherFlag DEF FakeInv
<1>3. /\ phase = "up" /\ phase' = "up" /\ got' = Success /\ Expect(e, flag)
      /\ UNCHANGED <<objects, handlers, comm, handler, cell, flag>>
  BY <1>1 DEF Asks, Call, CallWith, Gives, stub
<1>4. flag' \in BOOLEAN /\ cell' \in [Cells -> Data]
  BY <1>3 DEF FakeInv
<1>5. flag \in BOOLEAN
  BY DEF FakeInv
<1>6. QED
  BY <1>2, <1>3, <1>4, <1>5, Answered DEF SeenAs
-----------------------------------------------------------------------------
(* Communicators and their handlers.                                       *)

\* A call made w a communicator with the handler x.
WithComm(w, x) == [Same(Success) EXCEPT !.comm[w] = x]

LEMMA SameWithComm ==
    ASSUME FakeInv, NEW w \in Comms, NEW x
    PROVE  /\ IsView(WithComm(w, x))
           /\ WithComm(w, x).cell = mpi.cell /\ WithComm(w, x).flag = mpi.flag
           /\ WithComm(w, x).got = Success /\ WithComm(w, x).comm[w] = x
           /\ \A v \in Comms \ {w} : WithComm(w, x).comm[v] = mpi.comm[v]
<1>1. /\ IsView(Same(Success))
      /\ Same(Success).cell = mpi.cell /\ Same(Success).flag = mpi.flag
      /\ Same(Success).got = Success /\ Same(Success).comm = mpi.comm
  BY SameView DEF FakeInv
<1>2. QED
  BY <1>1, OtherComm DEF WithComm

\* The parts of Allocated that the calls below need.
LEMMA AllocatedFacts ==
    ASSUME FakeInv
    PROVE  /\ objects \in Seq(Nat) /\ Len(objects) \in Nat
           /\ handlers \in Seq(HandlerFunctions) /\ Len(handlers) \in Nat
           /\ \A k \in 1 .. Len(objects) : objects[k] \in 0 .. Len(handlers)
           /\ comm \in [Comms -> 0 .. Len(objects)]
           /\ handler \in [HandlerVariables -> 0 .. Len(handlers)]
BY DEF FakeInv, Allocated

LEMMA AppendFacts ==
    ASSUME NEW S, NEW s \in Seq(S), NEW x \in S
    PROVE  /\ Append(s, x) \in Seq(S) /\ Len(Append(s, x)) = Len(s) + 1
           /\ Append(s, x)[Len(s) + 1] = x
           /\ \A k \in 1 .. Len(s) : Append(s, x)[k] = s[k]
OBVIOUS

LEMMA CreateHandlerKeeps == FakeInv /\ MPI_Comm_create_errhandler => FakeInv'
<1> SUFFICES ASSUME FakeInv, MPI_Comm_create_errhandler
             PROVE  FakeInv'
  OBVIOUS
<1>1. /\ phase = "up" /\ phase' = "up" /\ got' = Success /\ Expect(Same(Success), TRUE)
      /\ UNCHANGED <<objects, comm, cell, flag>>
  BY DEF MPI_Comm_create_errhandler, Call, CallWith, Gives
<1>2. PICK n \in Nat : n = Len(handlers)
  BY AllocatedFacts
<1>3. /\ handlers' \in Seq(HandlerFunctions) /\ Len(handlers') = n + 1
      /\ \A k \in 1 .. n : handlers'[k] = handlers[k]
  <2>1. handlers' = Append(handlers, "user")
    BY DEF MPI_Comm_create_errhandler, NewHandler
  <2>2. "user" \in HandlerFunctions
    BY DEF HandlerFunctions
  <2>3. QED
    BY <1>2, <2>1, <2>2, AllocatedFacts, AppendFacts
<1>4. handler' \in [HandlerVariables -> 0 .. n + 1]
  <2>1. handler' = [handler EXCEPT !["own"] = n + 1]
    BY <1>3 DEF MPI_Comm_create_errhandler
  <2>2. handler \in [HandlerVariables -> 0 .. n + 1] /\ n + 1 \in 0 .. n + 1
    BY <1>2, AllocatedFacts
  <2>3. QED
    BY <2>1, <2>2
<1>5. Allocated'
  <2>1. /\ objects' \in Seq(Nat) /\ comm' \in [Comms -> 0 .. Len(objects')]
        /\ \A k \in 1 .. Len(objects') : objects'[k] \in 0 .. n + 1
    BY <1>1, <1>2, AllocatedFacts
  <2>2. QED
    BY <1>1, <1>3, <1>4, <2>1 DEF Allocated
<1>6. \A v \in Comms : HandlerOf(v)' = HandlerOf(v)
  BY <1>1, <1>2, <1>3, AllocatedFacts DEF HandlerOf, Serves, Null
<1>7. /\ IsView(Same(Success))
      /\ Same(Success).cell = mpi.cell /\ Same(Success).flag = mpi.flag
      /\ Same(Success).got = Success /\ Same(Success).comm = mpi.comm
  BY SameView DEF FakeInv
<1>8. flag' \in BOOLEAN /\ cell' \in [Cells -> Data]
  BY <1>1 DEF FakeInv
<1>9. kept /\ TRUE /\ SeenAs(mpi) =>
          /\ cell' = Same(Success).cell /\ flag' = Same(Success).flag
          /\ got' = Same(Success).got
          /\ \A v \in Comms : HandlerOf(v)' = Same(Success).comm[v]
  BY <1>1, <1>6, <1>7 DEF SeenAs
<1>10. QED
  BY <1>1, <1>5, <1>7, <1>8, <1>9, Fulfilled

LEMMA FreeHandlerKeeps == FakeInv /\ MPI_Errhandler_free => FakeInv'
<1> SUFFICES ASSUME FakeInv, MPI_Errhandler_free
             PROVE  FakeInv'
  OBVIOUS
<1>1. /\ phase = "up" /\ phase' = "up" /\ got' = Success /\ Expect(Same(Success), TRUE)
      /\ UNCHANGED <<objects, handlers, comm, cell, flag>>
      /\ handler' = [handler EXCEPT !["own"] = Null]
  BY DEF MPI_Errhandler_free, Call, CallWith, Gives
<1>2. handler' \in [HandlerVariables -> 0 .. Len(handlers)]
  <2>1. Null \in 0 .. Len(handlers)
    BY AllocatedFacts DEF Null
  <2>2. QED
    BY <1>1, <2>1, AllocatedFacts
<1>3. Allocated'
  BY <1>1, <1>2, AllocatedFacts DEF Allocated
<1>4. \A v \in Comms : HandlerOf(v)' = HandlerOf(v)
  BY <1>1 DEF HandlerOf, Serves
<1>5. /\ IsView(Same(Success))
      /\ Same(Success).cell = mpi.cell /\ Same(Success).flag = mpi.flag
      /\ Same(Success).got = Success /\ Same(Success).comm = mpi.comm
  BY SameView DEF FakeInv
<1>6. flag' \in BOOLEAN /\ cell' \in [Cells -> Data]
  BY <1>1 DEF FakeInv
<1>7. kept /\ TRUE /\ SeenAs(mpi) =>
          /\ cell' = Same(Success).cell /\ flag' = Same(Success).flag
          /\ got' = Same(Success).got
          /\ \A v \in Comms : HandlerOf(v)' = Same(Success).comm[v]
  BY <1>1, <1>4, <1>5 DEF SeenAs
<1>8. QED
  BY <1>1, <1>3, <1>5, <1>6, <1>7, Fulfilled

\* The handler is set in the object: it serves all that name it, which MPI promises when
\* nothing else does.
LEMMA SetHandlerKeeps ==
    ASSUME FakeInv, NEW v \in Comms, NEW h \in DOMAIN handler, MPI_Comm_set_errhandler(v, h)
    PROVE  FakeInv'
<1>1. /\ phase = "up" /\ phase' = "up"
      /\ UNCHANGED <<handlers, comm, handler, cell, flag>>
  BY DEF MPI_Comm_set_errhandler, CallWith, Gives
<1>2. CASE comm[v] = Null
  <2>1. Expect(mpi, FALSE) /\ UNCHANGED objects
    BY <1>2 DEF MPI_Comm_set_errhandler
  <2>2. flag' \in BOOLEAN
    BY <1>1 DEF FakeInv
  <2>3. QED
    BY <1>1, <2>1, <2>2, NotKept
<1>3. CASE comm[v] # Null
  <2>1. PICK e : e = WithComm(v, handlers[handler[h]])
    OBVIOUS
  <2>2. /\ IsView(e)
        /\ e.cell = mpi.cell /\ e.flag = mpi.flag /\ e.got = Success
        /\ e.comm[v] = handlers[handler[h]]
        /\ \A w \in Comms \ {v} : e.comm[w] = mpi.comm[w]
    BY <2>1, SameWithComm
  <2>3. /\ objects' = [objects EXCEPT ![comm[v]] = handler[h]]
        /\ got' = Success /\ Expect(e, handler[h] # Null /\ ~Shared(v))
    BY <1>3, <2>1 DEF MPI_Comm_set_errhandler, Gives, WithComm
  <2>4. comm[v] \in 1 .. Len(objects) /\ handler[h] \in 0 .. Len(handlers)
    BY <1>1, <1>3, AllocatedFacts DEF Null
  <2>5. /\ objects' \in Seq(Nat) /\ Len(objects') = Len(objects)
        /\ objects'[comm[v]] = handler[h]
        /\ \A k \in 1 .. Len(objects) : k # comm[v] => objects'[k] = objects[k]
    BY <2>3, <2>4, AllocatedFacts
  <2>6. Allocated'
    <3>1. \A k \in 1 .. Len(objects') : objects'[k] \in 0 .. Len(handlers')
      BY <1>1, <2>4, <2>5, AllocatedFacts
    <3>2. QED
      BY <1>1, <2>5, <3>1, AllocatedFacts DEF Allocated
  <2>7. ASSUME handler[h] # Null, ~Shared(v), SeenAs(mpi), NEW w \in Comms
        PROVE  HandlerOf(w)' = e.comm[w]
    <3>1. CASE w = v
      BY <1>1, <1>3, <2>2, <2>5, <2>7, <3>1 DEF HandlerOf, Serves
    <3>2. CASE w # v
      <4>1. comm[w] # comm[v]
        BY <2>7, <3>2 DEF Shared
      <4>2. HandlerOf(w)' = HandlerOf(w)
        BY <1>1, <2>5, <4>1, AllocatedFacts DEF HandlerOf, Serves, Null
      <4>3. QED
        BY <2>2, <2>7, <3>2, <4>2 DEF SeenAs
    <3>3. QED
      BY <3>1, <3>2
  <2>8. (handler[h] # Null /\ ~Shared(v)) \in BOOLEAN
    BY Zenon DEF Shared
  <2>9. flag' \in BOOLEAN /\ cell' \in [Cells -> Data]
    BY <1>1 DEF FakeInv
  <2>10. kept /\ (handler[h] # Null /\ ~Shared(v)) /\ SeenAs(mpi) =>
             /\ cell' = e.cell /\ flag' = e.flag /\ got' = e.got
             /\ \A w \in Comms : HandlerOf(w)' = e.comm[w]
    BY <1>1, <2>2, <2>3, <2>7 DEF SeenAs
  <2>11. QED
    BY <1>1, <2>2, <2>3, <2>6, <2>8, <2>9, <2>10, Fulfilled
<1>4. QED
  BY <1>2, <1>3

LEMMA CallHandlerKeeps ==
    ASSUME FakeInv, NEW v \in Comms, NEW code, MPI_Comm_call_errhandler(v, code)
    PROVE  FakeInv'
<1>1. phase = "up"
  BY DEF MPI_Comm_call_errhandler, Call, CallWith
<1>2. CASE HandlerOf(v) \in {"null", "none"}
  <2>1. Stops
    BY <1>2 DEF MPI_Comm_call_errhandler
  <2>2. QED
    BY <1>1, <2>1, StoppedKeeps
<1>3. CASE HandlerOf(v) \notin {"null", "none"}
  <2>1. SeenAs(mpi) => mpi.comm[v] = HandlerOf(v)
    BY DEF SeenAs
  <2>2. CASE HandlerOf(v) = "fatal_error_" /\ code = ErrComm
    <3>1. PICK x : x = IF mpi.comm[v] = "fatal_error_" THEN "exit" ELSE mpi.comm[v]
      OBVIOUS
    <3>2. PICK e : e = [mpi EXCEPT !.got = x]
      OBVIOUS
    <3>3. /\ phase' = "exited" /\ got' = "exit" /\ Expect(e, TRUE)
          /\ UNCHANGED <<objects, handlers, comm, handler, cell, flag>>
      BY <1>3, <2>2, <3>1, <3>2 DEF MPI_Comm_call_errhandler, Exits, stub
    <3>4. /\ IsView(e) /\ e.got = x
          /\ e.cell = mpi.cell /\ e.flag = mpi.flag /\ e.comm = mpi.comm
      BY <3>2, OtherGot DEF FakeInv
    <3>5. flag' \in BOOLEAN /\ cell' \in [Cells -> Data]
      BY <3>3 DEF FakeInv
    <3>6. kept /\ TRUE /\ SeenAs(mpi) =>
              /\ cell' = e.cell /\ flag' = e.flag /\ got' = e.got /\ e.comm = mpi.comm
      BY <2>1, <2>2, <3>1, <3>3, <3>4 DEF SeenAs
    <3>7. QED
      BY <1>1, <3>3, <3>4, <3>5, <3>6, Answered
  <2>3. CASE ~(HandlerOf(v) = "fatal_error_" /\ code = ErrComm)
    <3>1. PICK e : e = [mpi EXCEPT !.got = mpi.comm[v]]
      OBVIOUS
    <3>2. PICK k \in BOOLEAN : k = (mpi.comm[v] # "fatal_error_")
      OBVIOUS
    <3>3. /\ phase' = "up" /\ got' = HandlerOf(v) /\ Expect(e, k)
          /\ UNCHANGED <<objects, handlers, comm, handler, cell, flag>>
      BY <1>1, <1>3, <2>3, <3>1, <3>2 DEF MPI_Comm_call_errhandler, Gives, stub
    <3>4. /\ IsView(e) /\ e.got = mpi.comm[v]
          /\ e.cell = mpi.cell /\ e.flag = mpi.flag /\ e.comm = mpi.comm
      BY <3>1, OtherGot DEF FakeInv
    <3>5. flag' \in BOOLEAN /\ cell' \in [Cells -> Data]
      BY <3>3 DEF FakeInv
    <3>6. kept /\ k /\ SeenAs(mpi) =>
              /\ cell' = e.cell /\ flag' = e.flag /\ got' = e.got /\ e.comm = mpi.comm
      BY <2>1, <3>3, <3>4 DEF SeenAs
    <3>7. QED
      BY <1>1, <3>3, <3>4, <3>5, <3>6, Answered
  <2>4. QED
    BY <2>2, <2>3
<1>4. QED
  BY <1>2, <1>3

\* The communicator that is made has the handler of the original, and only it is assigned.
LEMMA DupKeeps ==
    ASSUME FakeInv, NEW v \in Comms, NEW w \in Own, MPI_Comm_dup(v, w)
    PROVE  FakeInv'
<1>1. phase = "up"
  BY DEF MPI_Comm_dup, Call, CallWith
<1>2. CASE comm[v] = Null
  <2>1. Stops
    BY <1>2 DEF MPI_Comm_dup
  <2>2. QED
    BY <1>1, <2>1, StoppedKeeps
<1>3. CASE comm[v] # Null
  <2>1. PICK e : e = WithComm(w, mpi.comm[v])
    OBVIOUS
  <2>2. w \in Comms
    BY DEF Comms, Own
  <2>3. /\ IsView(e)
        /\ e.cell = mpi.cell /\ e.flag = mpi.flag /\ e.got = Success
        /\ e.comm[w] = mpi.comm[v] /\ \A u \in Comms \ {w} : e.comm[u] = mpi.comm[u]
    BY <2>1, <2>2, SameWithComm
  <2>4. /\ objects' = Append(objects, objects[comm[v]])
        /\ comm' = [comm EXCEPT ![w] = Len(objects')]
        /\ phase' = "up" /\ got' = Success /\ Expect(e, TRUE)
        /\ UNCHANGED <<handlers, handler, cell, flag>>
    BY <1>1, <1>3, <2>1 DEF MPI_Comm_dup, Gives, WithComm
  <2>5. PICK n \in Nat : n = Len(objects)
    BY AllocatedFacts
  <2>6. PICK f \in 0 .. Len(handlers) : f = objects[comm[v]]
    BY <1>3, AllocatedFacts DEF Null
  <2>7. /\ objects' \in Seq(Nat) /\ Len(objects') = n + 1 /\ objects'[n + 1] = f
        /\ \A k \in 1 .. n : objects'[k] = objects[k]
    BY <2>4, <2>5, <2>6, AllocatedFacts, AppendFacts
  <2>8. comm' \in [Comms -> 0 .. n + 1] /\ comm' = [comm EXCEPT ![w] = n + 1]
    <3>1. comm' = [comm EXCEPT ![w] = n + 1]
      BY <2>4, <2>7
    <3>2. comm \in [Comms -> 0 .. n + 1] /\ n + 1 \in 0 .. n + 1
      BY <2>5, AllocatedFacts
    <3>3. QED
      BY <3>1, <3>2
  <2>9. \A k \in 1 .. n + 1 : objects'[k] \in 0 .. Len(handlers')
    BY <2>4, <2>5, <2>6, <2>7, AllocatedFacts
  <2>10. Allocated'
    BY <2>4, <2>7, <2>8, <2>9, AllocatedFacts DEF Allocated
  <2>11. ASSUME SeenAs(mpi), NEW u \in Comms
         PROVE  HandlerOf(u)' = e.comm[u]
    <3>1. CASE u = w
      <4>1. comm'[u] = n + 1 /\ n + 1 # 0
        BY <2>2, <2>8, <3>1, AllocatedFacts
      <4>2. HandlerOf(u)' = IF f = Null THEN "none" ELSE handlers[f]
        BY <2>4, <2>7, <4>1 DEF HandlerOf, Serves, Null
      <4>3. mpi.comm[v] = IF f = Null THEN "none" ELSE handlers[f]
        BY <1>3, <2>6, <2>11 DEF SeenAs, HandlerOf, Serves
      <4>4. QED
        BY <2>3, <3>1, <4>2, <4>3
    <3>2. CASE u # w
      <4>1. comm'[u] = comm[u] /\ comm[u] \in 0 .. n
        BY <2>5, <2>8, <3>2, AllocatedFacts
      <4>2. HandlerOf(u)' = HandlerOf(u)
        BY <2>4, <2>7, <4>1 DEF HandlerOf, Serves, Null
      <4>3. QED
        BY <2>3, <2>11, <3>2, <4>2 DEF SeenAs
    <3>3. QED
      BY <3>1, <3>2
  <2>12. flag' \in BOOLEAN /\ cell' \in [Cells -> Data]
    BY <2>4 DEF FakeInv
  <2>13. kept /\ TRUE /\ SeenAs(mpi) =>
             /\ cell' = e.cell /\ flag' = e.flag /\ got' = e.got
             /\ \A u \in Comms : HandlerOf(u)' = e.comm[u]
    BY <2>3, <2>4, <2>11 DEF SeenAs
  <2>14. QED
    BY <1>1, <2>3, <2>4, <2>10, <2>12, <2>13, Fulfilled
<1>4. QED
  BY <1>2, <1>3

\* A variable is assigned an object that there is, or none.
LEMMA AssignedKeeps ==
    ASSUME FakeInv, phase = "up", phase' = "up", got' = Success,
           NEW w \in Comms, NEW n \in 0 .. Len(objects), comm' = [comm EXCEPT ![w] = n],
           NEW x, NEW k \in BOOLEAN, Expect(WithComm(w, x), k),
           SeenAs(mpi) => x = Serves(n),
           UNCHANGED <<objects, handlers, handler, cell, flag>>
    PROVE  FakeInv'
<1>1. PICK e : e = WithComm(w, x)
  OBVIOUS
<1>2. /\ IsView(e)
      /\ e.cell = mpi.cell /\ e.flag = mpi.flag /\ e.got = Success
      /\ e.comm[w] = x /\ \A u \in Comms \ {w} : e.comm[u] = mpi.comm[u]
  BY <1>1, SameWithComm
<1>3. comm' \in [Comms -> 0 .. Len(objects)]
  BY AllocatedFacts
<1>4. Allocated'
  BY <1>3, AllocatedFacts DEF Allocated
<1>5. ASSUME SeenAs(mpi), NEW u \in Comms
      PROVE  HandlerOf(u)' = e.comm[u]
  <2>1. CASE u = w
    <3>1. comm'[u] = n
      BY <2>1, AllocatedFacts
    <3>2. QED
      BY <1>2, <1>5, <2>1, <3>1 DEF HandlerOf, Serves
  <2>2. CASE u # w
    <3>1. comm'[u] = comm[u]
      BY <2>2, AllocatedFacts
    <3>2. QED
      BY <1>2, <1>5, <2>2, <3>1 DEF HandlerOf, Serves, SeenAs
  <2>3. QED
    BY <2>1, <2>2
<1>6. flag' \in BOOLEAN /\ cell' \in [Cells -> Data]
  BY DEF FakeInv
<1>7. kept /\ k /\ SeenAs(mpi) =>
          /\ cell' = e.cell /\ flag' = e.flag /\ got' = e.got
          /\ \A u \in Comms : HandlerOf(u)' = e.comm[u]
  BY <1>2, <1>5 DEF SeenAs
<1>8. Expect(e, k)
  BY <1>1
<1>9. QED
  BY <1>2, <1>4, <1>6, <1>7, <1>8, Fulfilled

LEMMA BecameKeeps ==
    ASSUME FakeInv, phase = "up", NEW v \in Comms, NEW w \in Own, Became(v, w)
    PROVE  FakeInv'
<1>1. w \in Comms
  BY DEF Comms, Own
<1>2. PICK n \in 0 .. Len(objects) : n = comm[v]
  BY AllocatedFacts
<1>3. PICK x : x = mpi.comm[v]
  OBVIOUS
<1>4. PICK k \in BOOLEAN : k = (comm[v] # Null)
  OBVIOUS
<1>5. /\ comm' = [comm EXCEPT ![w] = n] /\ phase' = "up" /\ got' = Success
      /\ Expect(WithComm(w, x), k) /\ UNCHANGED <<objects, handlers, handler, cell, flag>>
  BY <1>2, <1>3, <1>4 DEF Became, Gives, WithComm
<1>6. SeenAs(mpi) => x = Serves(n)
  BY <1>2, <1>3 DEF SeenAs, HandlerOf, Serves
<1>7. QED
  BY <1>1, <1>5, <1>6, AssignedKeeps

LEMMA ForgetKeeps ==
    ASSUME FakeInv, phase = "up", NEW v \in Own, Forget(v)
    PROVE  FakeInv'
<1>1. v \in Comms
  BY DEF Comms, Own
<1>2. PICK n \in 0 .. Len(objects) : n = Null
  BY AllocatedFacts DEF Null
<1>3. PICK k \in BOOLEAN : k = (comm[v] # Null)
  OBVIOUS
<1>4. /\ comm' = [comm EXCEPT ![v] = n] /\ phase' = "up" /\ got' = Success
      /\ Expect(WithComm(v, "null"), k) /\ UNCHANGED <<objects, handlers, handler, cell, flag>>
  BY <1>2, <1>3 DEF Forget, Gives, WithComm
<1>5. SeenAs(mpi) => "null" = Serves(n)
  BY <1>2 DEF Serves
<1>6. QED
  BY <1>1, <1>4, <1>5, AssignedKeeps

LEMMA CommunicatorKeeps == FakeInv /\ NextCommunicator => FakeInv'
<1> SUFFICES ASSUME FakeInv, NextCommunicator
             PROVE  FakeInv'
  OBVIOUS
<1>1. ASSUME NEW v \in Comms, NEW w \in Comms, MPI_Comm_compare(v, w)
      PROVE  FakeInv'
  <2>1. PICK k \in BOOLEAN : k = (v # w /\ comm[v] # Null /\ comm[w] # Null)
    OBVIOUS
  <2>2. /\ phase = "up" /\ phase' = "up" /\ got' = "MPI_CONGRUENT"
        /\ Expect(Same("MPI_CONGRUENT"), k)
        /\ UNCHANGED <<objects, handlers, comm, handler, cell, flag>>
    BY <1>1, <2>1 DEF MPI_Comm_compare, Call, CallWith, Gives, stub
  <2>3. QED
    BY <2>2, Gave
<1>2. ASSUME NEW v \in Comms, MPI_Comm_size_rank(v)
      PROVE  FakeInv'
  <2>1. PICK k \in BOOLEAN : k = (comm[v] # Null)
    OBVIOUS
  <2>2. PICK x : x = <<"size, rank", 1, 0>>
    OBVIOUS
  <2>3. /\ phase = "up" /\ phase' = "up" /\ got' = x /\ Expect(Same(x), k)
        /\ UNCHANGED <<objects, handlers, comm, handler, cell, flag>>
    BY <1>2, <2>1, <2>2 DEF MPI_Comm_size_rank, Call, CallWith, Gives, stub
  <2>4. QED
    BY <2>3, Gave
<1>3. ASSUME NEW v \in Comms, NEW w \in Own, MPI_Comm_dup(v, w)
      PROVE  FakeInv'
  BY <1>3, DupKeeps
<1>4. ASSUME NEW v \in Comms, NEW w \in Own, MPI_Cart_sub(v, w)
      PROVE  FakeInv'
  BY <1>4, BecameKeeps DEF MPI_Cart_sub, Call, CallWith
<1>5. ASSUME NEW v \in Comms, NEW w \in Own, NEW dims \in {0, 1}, MPI_Cart_create(v, w, dims)
      PROVE  FakeInv'
  <2>1. phase = "up"
    BY <1>5 DEF MPI_Cart_create, Call, CallWith
  <2>2. CASE dims <= 0
    <3>1. /\ phase' = "up" /\ Expect(mpi, FALSE)
          /\ UNCHANGED <<objects, handlers, comm, handler, cell, flag>>
      BY <1>5, <2>1, <2>2 DEF MPI_Cart_create, Gives, stub
    <3>2. flag' \in BOOLEAN
      BY <3>1 DEF FakeInv
    <3>3. QED
      BY <2>1, <3>1, <3>2, NotKept
  <2>3. CASE ~(dims <= 0)
    <3>1. Became(v, w)
      BY <1>5, <2>3 DEF MPI_Cart_create
    <3>2. QED
      BY <2>1, <3>1, BecameKeeps
  <2>4. QED
    BY <2>2, <2>3
<1>6. ASSUME NEW v \in Own, MPI_Comm_free(v)
      PROVE  FakeInv'
  BY <1>6, ForgetKeeps DEF MPI_Comm_free, Call, CallWith
<1>7. ASSUME NEW v \in Own, MPI_Comm_disconnect(v)
      PROVE  FakeInv'
  <2>1. phase = "up"
    BY <1>7 DEF MPI_Comm_disconnect, Call, CallWith
  <2>2. CASE comm[v] = Null
    <3>1. /\ phase' = "up" /\ Expect(mpi, FALSE)
          /\ UNCHANGED <<objects, handlers, comm, handler, cell, flag>>
      BY <1>7, <2>1, <2>2 DEF MPI_Comm_disconnect, Gives, stub
    <3>2. flag' \in BOOLEAN
      BY <3>1 DEF FakeInv
    <3>3. QED
      BY <2>1, <3>1, <3>2, NotKept
  <2>3. CASE comm[v] # Null
    <3>1. Forget(v)
      BY <1>7, <2>3 DEF MPI_Comm_disconnect
    <3>2. QED
      BY <2>1, <3>1, ForgetKeeps
  <2>4. QED
    BY <2>2, <2>3
<1>8. QED
  BY <1>1, <1>2, <1>3, <1>4, <1>5, <1>6, <1>7, SetHandlerKeeps, CallHandlerKeeps
     DEF NextCommunicator
-----------------------------------------------------------------------------
(* Data, and the functions that have nothing to do.                        *)

LEMMA CopiedNothing ==
    ASSUME NEW sent \in Datatypes, NEW received \in Datatypes,
           Bytes[sent] # 0 \/ Bytes[received] # 0
    PROVE  CopiedBytes(sent, received) # 0
<1>1. Bytes[sent] \in Nat /\ Bytes[received] \in Nat
  BY DEF Datatypes, Bytes
<1>2. PICK types : types = {Bytes[sent], Bytes[received]}
  OBVIOUS
<1>3. \E n \in types : \A m \in types : n >= m
  BY <1>1, <1>2
<1>4. PICK n : n = CopiedBytes(sent, received)
  OBVIOUS
<1>5. n \in types /\ \A m \in types : n >= m
  BY <1>2, <1>3, <1>4 DEF CopiedBytes
<1>6. QED
  BY <1>1, <1>2, <1>4, <1>5

\* What a call that moves data promises.
WithCell(c) == [Same(Success) EXCEPT !.cell = c]

LEMMA SameWithCell ==
    ASSUME FakeInv, NEW c
    PROVE  /\ IsView(WithCell(c))
           /\ WithCell(c).cell = c /\ WithCell(c).flag = mpi.flag
           /\ WithCell(c).got = Success /\ WithCell(c).comm = mpi.comm
<1>1. /\ IsView(Same(Success))
      /\ Same(Success).cell = mpi.cell /\ Same(Success).flag = mpi.flag
      /\ Same(Success).got = Success /\ Same(Success).comm = mpi.comm
  BY SameView DEF FakeInv
<1>2. QED
  BY <1>1, OtherCell DEF WithCell

LEMMA CopiesKeeps ==
    ASSUME FakeInv, phase = "up", NEW s \in Cells \cup {InPlace}, NEW r \in Cells,
           NEW sent \in Datatypes, NEW received \in Datatypes, Copies(s, r, sent, received)
    PROVE  FakeInv'
<1>1. CASE s = InPlace
  <2>1. Stops
    BY <1>1 DEF Copies
  <2>2. QED
    BY <2>1, StoppedKeeps
<1>2. CASE s # InPlace
  <2>1. PICK k \in BOOLEAN : k = (Bytes[sent] # 0 \/ Bytes[received] # 0)
    OBVIOUS
  <2>2. PICK e : e = WithCell(Received(s, r))
    OBVIOUS
  <2>3. /\ cell' = IF CopiedBytes(sent, received) = 0 THEN cell ELSE [cell EXCEPT ![r] = cell[s]]
        /\ phase' = "up" /\ got' = Success /\ Expect(e, k)
        /\ UNCHANGED <<objects, handlers, comm, handler, flag>>
    BY <1>2, <2>1, <2>2 DEF Copies, Gives, WithCell
  <2>4. /\ IsView(e)
        /\ e.cell = Received(s, r) /\ e.flag = mpi.flag
        /\ e.got = Success /\ e.comm = mpi.comm
    BY <2>2, SameWithCell
  <2>5. s \in Cells
    BY <1>2
  <2>6. flag' \in BOOLEAN /\ cell' \in [Cells -> Data]
    <3>1. cell \in [Cells -> Data] /\ flag \in BOOLEAN
      BY DEF FakeInv
    <3>2. cell[s] \in Data
      BY <2>5, <3>1
    <3>3. QED
      BY <2>3, <3>1, <3>2
  <2>7. ASSUME k, SeenAs(mpi)
        PROVE  cell' = Received(s, r)
    <3>1. cell' = [cell EXCEPT ![r] = cell[s]]
      BY <2>1, <2>3, <2>7, CopiedNothing
    <3>2. cell = mpi.cell
      BY <2>7 DEF SeenAs
    <3>3. QED
      BY <1>2, <3>1, <3>2 DEF Received
  <2>8. kept /\ k /\ SeenAs(mpi) =>
            /\ cell' = e.cell /\ flag' = e.flag /\ got' = e.got /\ e.comm = mpi.comm
    BY <2>3, <2>4, <2>7 DEF SeenAs
  <2>9. QED
    BY <2>3, <2>4, <2>6, <2>8, Answered
<1>3. QED
  BY <1>1, <1>2

LEMMA EmptyCollectiveKeeps ==
    ASSUME FakeInv, NEW name, NEW s \in Cells \cup {InPlace}, NEW r \in Cells,
           EmptyCollective(name, s, r)
    PROVE  FakeInv'
<1>1. PICK k \in BOOLEAN : k = (s = InPlace)
  OBVIOUS
<1>2. PICK e : e = WithCell(Received(s, r))
  OBVIOUS
<1>3. /\ phase = "up" /\ phase' = "up" /\ got' = Success /\ Expect(e, k)
      /\ UNCHANGED <<objects, handlers, comm, handler, cell, flag>>
  BY <1>1, <1>2 DEF EmptyCollective, Call, CallWith, Gives, WithCell, stub
<1>4. /\ IsView(e)
      /\ e.cell = Received(s, r) /\ e.flag = mpi.flag
      /\ e.got = Success /\ e.comm = mpi.comm
  BY <1>2, SameWithCell
<1>5. flag' \in BOOLEAN /\ cell' \in [Cells -> Data] /\ cell \in [Cells -> Data]
  BY <1>3 DEF FakeInv
<1>6. s = InPlace /\ SeenAs(mpi) => Received(s, r) = cell
  BY <1>5 DEF Received, SeenAs
<1>7. kept /\ k /\ SeenAs(mpi) =>
          /\ cell' = e.cell /\ flag' = e.flag /\ got' = e.got /\ e.comm = mpi.comm
  BY <1>1, <1>3, <1>4, <1>6 DEF SeenAs
<1>8. QED
  BY <1>3, <1>4, <1>5, <1>7, Answered

LEMMA GatherKeeps ==
    ASSUME FakeInv, NEW s \in Cells \cup {InPlace}, NEW r \in Cells,
           NEW sent \in Datatypes, NEW received \in Datatypes, NEW v \in Comms,
           NEW root \in {0, 1}, MPI_Gather(v, root, s, r, sent, received)
    PROVE  FakeInv'
<1>1. phase = "up"
  BY DEF MPI_Gather, Call, CallWith
<1>2. CASE comm[v] = Null
  <2>1. /\ phase' = "up" /\ Expect(mpi, FALSE)
        /\ UNCHANGED <<objects, handlers, comm, handler, cell, flag>>
    BY <1>1, <1>2 DEF MPI_Gather, Gives, stub
  <2>2. flag' \in BOOLEAN
    BY <2>1 DEF FakeInv
  <2>3. QED
    BY <1>1, <2>1, <2>2, NotKept
<1>3. CASE comm[v] # Null /\ root # 0
  <2>1. Stops
    BY <1>3 DEF MPI_Gather
  <2>2. QED
    BY <1>1, <2>1, StoppedKeeps
<1>4. CASE comm[v] # Null /\ root = 0
  <2>1. Copies(s, r, sent, received)
    BY <1>4 DEF MPI_Gather
  <2>2. QED
    BY <1>1, <2>1, CopiesKeeps
<1>5. QED
  BY <1>2, <1>3, <1>4

\* The functions that only give something.
LEMMA TypesKeep ==
    ASSUME FakeInv,
           \/ \E t \in Datatypes : MPI_Type_size(t) \/ MPI_Type_get_extent(t)
                                       \/ MPI_Type_lb(t) \/ MPI_Type_ub(t)
           \/ MPI_Type_contiguous \/ MPI_Type_vector \/ MPI_Type_extent \/ MPI_Type_commit
           \/ MPI_Type_dup \/ SizeOfCopy \/ MPI_Type_free
    PROVE  FakeInv'
<1>1. ASSUME NEW t \in Datatypes, MPI_Type_size(t)
      PROVE  FakeInv'
  <2>1. PICK k \in BOOLEAN : k = (Bytes[t] # 0)
    OBVIOUS
  <2>2. PICK x : x = <<"size", Bytes[t]>>
    OBVIOUS
  <2>3. PICK y : y = <<"size", Promised[t]>>
    OBVIOUS
  <2>4. k => x = y
    <3>1. Bytes[t] # 0 => Bytes[t] = Promised[t]
      BY DEF Datatypes, Bytes, Promised
    <3>2. QED
      BY <2>1, <2>2, <2>3, <3>1
  <2>5. /\ phase = "up" /\ phase' = "up" /\ got' = x /\ Expect(Same(y), k)
        /\ UNCHANGED <<objects, handlers, comm, handler, cell, flag>>
    BY <1>1, <2>1, <2>2, <2>3 DEF MPI_Type_size, Call, CallWith, Gives, stub
  <2>6. QED
    BY <2>4, <2>5, Gave
<1>2. ASSUME NEW t \in Datatypes, MPI_Type_get_extent(t)
      PROVE  FakeInv'
  <2>1. phase = "up"
    BY <1>2 DEF MPI_Type_get_extent, Call, CallWith
  <2>2. CASE t = "MPI_BYTE"
    <3>1. PICK x : x = <<"extent", 0, 1>>
      OBVIOUS
    <3>2. /\ phase' = "up" /\ got' = x /\ Expect(Same(x), TRUE)
          /\ UNCHANGED <<objects, handlers, comm, handler, cell, flag>>
      BY <1>2, <2>1, <2>2, <3>1 DEF MPI_Type_get_extent, Gives, stub
    <3>3. QED
      BY <2>1, <3>2, Gave
  <2>3. CASE t # "MPI_BYTE"
    <3>1. Stops
      BY <1>2, <2>3 DEF MPI_Type_get_extent
    <3>2. QED
      BY <2>1, <3>1, StoppedKeeps
  <2>4. QED
    BY <2>2, <2>3
<1>3. ASSUME NEW t \in Datatypes, MPI_Type_lb(t)
      PROVE  FakeInv'
  <2>1. phase = "up"
    BY <1>3 DEF MPI_Type_lb, Call, CallWith
  <2>2. CASE t = "MPI_BYTE"
    <3>1. /\ phase' = "up" /\ Expect(Same(<<"bound", 0>>), FALSE)
          /\ UNCHANGED <<objects, handlers, comm, handler, cell, flag>>
      BY <1>3, <2>1, <2>2 DEF MPI_Type_lb, Gives, stub
    <3>2. flag' \in BOOLEAN
      BY <3>1 DEF FakeInv
    <3>3. QED
      BY <2>1, <3>1, <3>2, NotKept
  <2>3. CASE t # "MPI_BYTE"
    <3>1. Stops
      BY <1>3, <2>3 DEF MPI_Type_lb
    <3>2. QED
      BY <2>1, <3>1, StoppedKeeps
  <2>4. QED
    BY <2>2, <2>3
<1>4. ASSUME NEW t \in Datatypes, MPI_Type_ub(t)
      PROVE  FakeInv'
  <2>1. phase = "up"
    BY <1>4 DEF MPI_Type_ub, Call, CallWith
  <2>2. CASE t = "MPI_BYTE"
    <3>1. PICK x : x = <<"bound", 1>>
      OBVIOUS
    <3>2. /\ phase' = "up" /\ got' = x /\ Expect(Same(x), TRUE)
          /\ UNCHANGED <<objects, handlers, comm, handler, cell, flag>>
      BY <1>4, <2>1, <2>2, <3>1 DEF MPI_Type_ub, Gives, stub
    <3>3. QED
      BY <2>1, <3>2, Gave
  <2>3. CASE t # "MPI_BYTE"
    <3>1. Stops
      BY <1>4, <2>3 DEF MPI_Type_ub
    <3>2. QED
      BY <2>1, <3>1, StoppedKeeps
  <2>4. QED
    BY <2>2, <2>3
<1>5. CASE MPI_Type_contiguous \/ MPI_Type_vector \/ MPI_Type_extent
  <2>1. phase = "up" /\ Stops
    BY <1>5 DEF MPI_Type_contiguous, MPI_Type_vector, MPI_Type_extent, Call, CallWith
  <2>2. QED
    BY <2>1, StoppedKeeps
<1>6. CASE MPI_Type_commit \/ MPI_Type_dup \/ MPI_Type_free
  <2>1. /\ phase = "up" /\ phase' = "up" /\ got' = Success /\ Expect(Same(Success), TRUE)
        /\ UNCHANGED <<objects, handlers, comm, handler, cell, flag>>
    BY <1>6 DEF MPI_Type_commit, MPI_Type_dup, MPI_Type_free, Call, CallWith, Gives, stub
  <2>2. QED
    BY <2>1, Gave
<1>7. CASE SizeOfCopy
  <2>1. phase = "up"
    BY <1>7 DEF SizeOfCopy, Call, CallWith
  <2>2. CASE Stops
    BY <2>1, <2>2, StoppedKeeps
  <2>3. CASE ~Stops
    <3>1. /\ phase' = "up" /\ Expect(mpi, FALSE)
          /\ UNCHANGED <<objects, handlers, comm, handler, cell, flag>>
      BY <1>7, <2>1, <2>3 DEF SizeOfCopy, Gives, stub
    <3>2. flag' \in BOOLEAN
      BY <3>1 DEF FakeInv
    <3>3. QED
      BY <2>1, <3>1, <3>2, NotKept
  <2>4. QED
    BY <2>2, <2>3
<1>8. QED
  BY <1>1, <1>2, <1>3, <1>4, <1>5, <1>6, <1>7

LEMMA DataKeeps == FakeInv /\ NextData => FakeInv'
<1> SUFFICES ASSUME FakeInv, NextData
             PROVE  FakeInv'
  OBVIOUS
<1>1. ASSUME NEW v \in Comms, MPI_Bcast(v)
      PROVE  FakeInv'
  <2>1. PICK k \in BOOLEAN : k = (comm[v] # Null)
    OBVIOUS
  <2>2. PICK x : x = IF comm[v] = Null THEN ErrComm ELSE Success
    OBVIOUS
  <2>3. /\ phase = "up" /\ phase' = "up" /\ got' = x /\ Expect(Same(Success), k)
        /\ UNCHANGED <<objects, handlers, comm, handler, cell, flag>>
    BY <1>1, <2>1, <2>2 DEF MPI_Bcast, Call, CallWith, Gives, stub
  <2>4. QED
    BY <2>1, <2>2, <2>3, Gave
<1>2. ASSUME NEW v \in Comms, MPI_Igather(v)
      PROVE  FakeInv'
  <2>1. phase = "up"
    BY <1>2 DEF MPI_Igather, Call, CallWith
  <2>2. CASE comm[v] = Null
    <3>1. /\ phase' = "up" /\ Expect(mpi, FALSE)
          /\ UNCHANGED <<objects, handlers, comm, handler, cell, flag>>
      BY <1>2, <2>1, <2>2 DEF MPI_Igather, Gives, stub
    <3>2. flag' \in BOOLEAN
      BY <3>1 DEF FakeInv
    <3>3. QED
      BY <2>1, <3>1, <3>2, NotKept
  <2>3. CASE comm[v] # Null
    <3>1. Stops
      BY <1>2, <2>3 DEF MPI_Igather
    <3>2. QED
      BY <2>1, <3>1, StoppedKeeps
  <2>4. QED
    BY <2>2, <2>3
<1>3. ASSUME NEW peer \in Peers, MPI_Send_Recv(peer)
      PROVE  FakeInv'
  BY <1>3, StoppedKeeps DEF MPI_Send_Recv, Call, CallWith
<1>4. ASSUME NEW peer \in Peers, NEW name \in EmptyMessages, EmptyMessage(name, peer)
      PROVE  FakeInv'
  <2>1. PICK k \in BOOLEAN : k = (peer = "nobody")
    OBVIOUS
  <2>2. /\ phase = "up" /\ phase' = "up" /\ got' = Success /\ Expect(Same(Success), k)
        /\ UNCHANGED <<objects, handlers, comm, handler, cell, flag>>
    BY <1>4, <2>1 DEF EmptyMessage, Call, CallWith, Gives, stub
  <2>3. QED
    BY <2>2, Gave
<1>5. ASSUME NEW r \in Cells, NEW s \in Cells \cup {InPlace},
             NEW name \in EmptyCollectives, EmptyCollective(name, s, r)
      PROVE  FakeInv'
  BY <1>5, EmptyCollectiveKeeps
<1>6. ASSUME NEW r \in Cells, NEW s \in Cells \cup {InPlace},
             NEW sent \in Datatypes, NEW received \in Datatypes,
             MPI_Allgather(s, r, sent, received)
      PROVE  FakeInv'
  BY <1>6, CopiesKeeps DEF MPI_Allgather, Call, CallWith
<1>7. ASSUME NEW r \in Cells, NEW s \in Cells \cup {InPlace},
             NEW sent \in Datatypes, NEW received \in Datatypes,
             NEW v \in Comms, NEW root \in {0, 1}, MPI_Gather(v, root, s, r, sent, received)
      PROVE  FakeInv'
  BY <1>7, GatherKeeps
<1>8. QED
  BY <1>1, <1>2, <1>3, <1>4, <1>5, <1>6, <1>7, TypesKeep DEF NextData

LEMMA OthersKeep ==
    ASSUME FakeInv,
           \/ \E name \in Harmless : NothingToDo(name)
           \/ \E name \in UnansweredCalls : Unanswered(name)
           \/ MPI_Test_cancelled \/ MPI_Get_version \/ MPI_Get_processor_name
    PROVE  FakeInv'
<1>1. ASSUME NEW name \in Harmless, NothingToDo(name)
      PROVE  FakeInv'
  <2>1. /\ phase = "up" /\ phase' = "up" /\ got' = Success /\ Expect(Same(Success), TRUE)
        /\ UNCHANGED <<objects, handlers, comm, handler, cell, flag>>
    BY <1>1 DEF NothingToDo, Call, CallWith, Gives, stub
  <2>2. QED
    BY <2>1, Gave
<1>2. ASSUME NEW name \in UnansweredCalls, Unanswered(name)
      PROVE  FakeInv'
  <2>1. /\ phase = "up" /\ phase' = "up" /\ Expect(mpi, FALSE)
        /\ UNCHANGED <<objects, handlers, comm, handler, cell, flag>>
    BY <1>2 DEF Unanswered, Call, CallWith, Gives, stub
  <2>2. flag' \in BOOLEAN
    BY <2>1 DEF FakeInv
  <2>3. QED
    BY <2>1, <2>2, NotKept
<1>3. CASE MPI_Test_cancelled
  <2>1. /\ phase = "up" /\ phase' = "up" /\ flag' = TRUE
        /\ Expect([Same(Success) EXCEPT !.flag = FALSE], FALSE)
        /\ UNCHANGED <<objects, handlers, comm, handler, cell>>
    BY <1>3 DEF MPI_Test_cancelled, Call, CallWith, Gives
  <2>2. QED
    BY <2>1, NotKept
<1>4. CASE MPI_Get_version
  <2>1. PICK x : x = <<"version", 3, 1>>
    OBVIOUS
  <2>2. /\ phase = "up" /\ phase' = "up" /\ got' = x /\ Expect(Same(x), TRUE)
        /\ UNCHANGED <<objects, handlers, comm, handler, cell, flag>>
    BY <1>4, <2>1 DEF MPI_Get_version, Call, CallWith, Gives, stub
  <2>3. QED
    BY <2>2, Gave
<1>5. CASE MPI_Get_processor_name
  <2>1. /\ phase = "up" /\ phase' = "up" /\ got' = "host" /\ Expect(Same("host"), TRUE)
        /\ UNCHANGED <<objects, handlers, comm, handler, cell, flag>>
    BY <1>5 DEF MPI_Get_processor_name, Call, CallWith, Gives, stub
  <2>2. QED
    BY <2>1, Gave
<1>6. QED
  BY <1>1, <1>2, <1>3, <1>4, <1>5
-----------------------------------------------------------------------------
LEMMA FakeInvStep == FakeInv /\ [Next]_vars => FakeInv'
<1> SUFFICES ASSUME FakeInv, [Next]_vars
             PROVE  FakeInv'
  OBVIOUS
<1>1. CASE UNCHANGED vars
  <2>1. UNCHANGED <<phase, objects, handlers, comm, handler, cell, flag, got, mpi, kept>>
    BY <1>1 DEF vars, stub
  <2>2. Allocated'
    BY <2>1 DEF FakeInv, Allocated
  <2>3. \A v \in Comms : HandlerOf(v)' = HandlerOf(v)
    BY <2>1 DEF HandlerOf, Serves
  <2>4. QED
    BY <2>1, <2>2, <2>3 DEF FakeInv, SeesPromised, SeenAs, IsView
<1>2. CASE Next
  BY <1>2, InitKeeps, InitThreadKeeps, FinalizeKeeps, InitializedKeeps, AbortKeeps,
     CreateHandlerKeeps, FreeHandlerKeeps, CommunicatorKeeps, DataKeeps, OthersKeep,
     AsksKeeps, RequestStatusKeeps DEF Next
<1>3. QED
  BY <1>1, <1>2

\* The invariant holds of every program, however many calls it makes.
THEOREM FakeInvariant == Spec => []FakeInv
<1>1. QED
  BY FakeInvInit, FakeInvStep, PTL DEF Spec

\* A program that kept to the calls that an empty function is right for sees what MPI promises
\* to a process that is alone: data, flags, results, communicators and their handlers.
THEOREM AsWithMPIHolds == Spec => []AsWithMPI
<1>1. FakeInv => AsWithMPI
  BY DEF FakeInv, AsWithMPI, SeesPromised, SeenAs
<1>2. QED
  BY <1>1, FakeInvariant, PTL
-----------------------------------------------------------------------------
(* Handlers that are missing.                                              *)

\* No object is without a handler unless the program gave one a handler that was null.
NulledInv == nulled \in BOOLEAN /\ \A k \in 1 .. Len(objects) : objects[k] = Null => nulled

\* What the calls do to the objects.
LEMMA NulledKeeps ==
    ASSUME FakeInv, NulledInv, nulled' \in BOOLEAN, nulled => nulled',
           \/ objects' = objects
           \/ objects' = <<1, 1>>
           \/ \E v \in Comms : comm[v] # Null /\ objects' = Append(objects, objects[comm[v]])
           \/ \E v \in Comms, f \in Nat :
                 /\ comm[v] # Null /\ objects' = [objects EXCEPT ![comm[v]] = f]
                 /\ f = Null => nulled'
    PROVE  NulledInv'
<1>1. CASE objects' = objects
  BY <1>1 DEF NulledInv
<1>2. CASE objects' = <<1, 1>>
  BY <1>2 DEF NulledInv, Null
<1>3. ASSUME NEW v \in Comms, comm[v] # Null, objects' = Append(objects, objects[comm[v]])
      PROVE  NulledInv'
  <2>1. comm[v] \in 1 .. Len(objects)
    BY <1>3, AllocatedFacts DEF Null
  <2>2. PICK n \in Nat : n = Len(objects)
    BY AllocatedFacts
  <2>3. objects[comm[v]] \in Nat
    BY <2>1, AllocatedFacts
  <2>4. /\ Len(objects') = n + 1 /\ objects'[n + 1] = objects[comm[v]]
        /\ \A k \in 1 .. n : objects'[k] = objects[k]
    BY <1>3, <2>2, <2>3, AllocatedFacts, AppendFacts
  <2>5. ASSUME NEW k \in 1 .. n + 1, objects'[k] = Null
        PROVE  nulled'
    <3>1. CASE k = n + 1
      BY <2>1, <2>4, <2>5, <3>1 DEF NulledInv
    <3>2. CASE k # n + 1
      BY <2>2, <2>4, <2>5, <3>2 DEF NulledInv
    <3>3. QED
      BY <3>1, <3>2
  <2>6. QED
    BY <2>4, <2>5 DEF NulledInv
<1>4. ASSUME NEW v \in Comms, NEW f \in Nat, comm[v] # Null,
             objects' = [objects EXCEPT ![comm[v]] = f], f = Null => nulled'
      PROVE  NulledInv'
  <2>1. comm[v] \in 1 .. Len(objects)
    BY <1>4, AllocatedFacts DEF Null
  <2>2. /\ Len(objects') = Len(objects) /\ objects'[comm[v]] = f
        /\ \A k \in 1 .. Len(objects) : k # comm[v] => objects'[k] = objects[k]
    BY <1>4, <2>1, AllocatedFacts
  <2>3. QED
    BY <1>4, <2>2 DEF NulledInv
<1>5. QED
  BY <1>1, <1>2, <1>3, <1>4

\* The calls of a phase leave the record of null handlers as it is, but for one call.
LEMMA CallLeavesNulled ==
    ASSUME nulled \in BOOLEAN, Call
    PROVE  nulled' \in BOOLEAN /\ nulled' = nulled
BY Zenon DEF Call, CallWith

LEMMA StopsLeaves == Stops => objects' = objects
BY DEF Stops, stub

LEMMA NulledStep == FakeInv /\ NulledInv /\ [Next]_vars => NulledInv'
<1> SUFFICES ASSUME FakeInv, NulledInv, [Next]_vars
             PROVE  NulledInv'
  OBVIOUS
<1> DEFINE Quiet == objects' = objects /\ nulled' = nulled
<1>0. Quiet => NulledInv'
  BY NulledKeeps DEF NulledInv
<1>1. nulled \in BOOLEAN
  BY DEF NulledInv
<1>2. CASE MPI_Init
  <2>1. objects' = <<1, 1>> /\ nulled' = nulled
    BY <1>2 DEF MPI_Init
  <2>2. QED
    BY <1>1, <2>1, NulledKeeps
<1>3. CASE MPI_Init_thread \/ MPI_Finalize \/ MPI_Initialized \/ MPI_Abort
  <2>1. Quiet
    BY <1>1, <1>3, CallLeavesNulled
       DEF MPI_Init_thread, MPI_Finalize, MPI_Initialized, MPI_Abort, Exits, stub
  <2>2. QED
    BY <1>0, <2>1
<1>4. CASE MPI_Comm_create_errhandler \/ MPI_Errhandler_free
  <2>1. Quiet
    BY <1>1, <1>4, CallLeavesNulled DEF MPI_Comm_create_errhandler, MPI_Errhandler_free
  <2>2. QED
    BY <1>0, <2>1
<1>5. ASSUME NEW v \in Comms, NEW w \in Own, MPI_Comm_dup(v, w)
      PROVE  NulledInv'
  <2>1. nulled' = nulled
    BY <1>1, <1>5, CallLeavesNulled DEF MPI_Comm_dup
  <2>2. CASE comm[v] = Null
    BY <1>0, <1>5, <2>1, <2>2, StopsLeaves DEF MPI_Comm_dup
  <2>3. CASE comm[v] # Null
    <3>1. objects' = Append(objects, objects[comm[v]])
      BY <1>5, <2>3 DEF MPI_Comm_dup
    <3>2. QED
      BY <1>1, <2>1, <2>3, <3>1, NulledKeeps
  <2>4. QED
    BY <2>2, <2>3
<1>6. ASSUME NEW v \in Comms, NEW h \in DOMAIN handler, MPI_Comm_set_errhandler(v, h)
      PROVE  NulledInv'
  <2>1. /\ nulled' \in BOOLEAN
        /\ nulled => nulled'
        /\ comm[v] # Null /\ handler[h] = Null => nulled'
    BY <1>1, <1>6 DEF MPI_Comm_set_errhandler, CallWith
  <2>2. CASE comm[v] = Null
    <3>1. objects' = objects
      BY <1>6, <2>2 DEF MPI_Comm_set_errhandler
    <3>2. QED
      BY Zenon, <2>1, <3>1, NulledKeeps
  <2>3. CASE comm[v] # Null
    <3>1. objects' = [objects EXCEPT ![comm[v]] = handler[h]]
      BY <1>6, <2>3 DEF MPI_Comm_set_errhandler
    <3>2. PICK f \in Nat : f = handler[h]
      BY AllocatedFacts
    <3>3. f = Null => nulled'
      BY <2>1, <2>3, <3>2
    <3>4. \E f_1 \in Nat : comm[v] # Null /\ objects' = [objects EXCEPT ![comm[v]] = f_1] /\ (f_1 = Null => nulled')
      BY <2>3, <3>1, <3>2, <3>3
    <3>5. nulled' \in BOOLEAN /\ (nulled => nulled')
      BY Zenon, <2>1
    <3>6. QED
      BY Zenon, <3>4, <3>5, NulledKeeps
  <2>4. QED
    BY <2>2, <2>3
<1>7. CASE NextCommunicator
  <2>1. ASSUME NEW v \in Comms, NEW w \in Comms, MPI_Comm_compare(v, w) \/ MPI_Comm_size_rank(v)
        PROVE  Quiet
    BY <1>1, <2>1, CallLeavesNulled DEF MPI_Comm_compare, MPI_Comm_size_rank, stub
  <2>2. ASSUME NEW v \in Comms, NEW w \in Own, NEW dims \in {0, 1},
               MPI_Cart_sub(v, w) \/ MPI_Cart_create(v, w, dims)
        PROVE  Quiet
    BY <1>1, <2>2, CallLeavesNulled DEF MPI_Cart_sub, MPI_Cart_create, Became, stub
  <2>3. ASSUME NEW v \in Own, MPI_Comm_free(v) \/ MPI_Comm_disconnect(v)
        PROVE  Quiet
    BY <1>1, <2>3, CallLeavesNulled DEF MPI_Comm_free, MPI_Comm_disconnect, Forget, stub
  <2>4. ASSUME NEW v \in Comms, NEW code, MPI_Comm_call_errhandler(v, code)
        PROVE  Quiet
    BY <1>1, <2>4, CallLeavesNulled DEF MPI_Comm_call_errhandler, Stops, Exits, stub
  <2>5. QED
    BY <1>0, <1>5, <1>6, <1>7, <2>1, <2>2, <2>3, <2>4 DEF NextCommunicator
<1>8. CASE NextData
  <2>1. ASSUME NEW s, NEW r, NEW sent, NEW received, Copies(s, r, sent, received)
        PROVE  objects' = objects
    BY <2>1, StopsLeaves DEF Copies
  <2>2. ASSUME NEW name, NEW s, NEW r, NEW peer,
               EmptyCollective(name, s, r) \/ EmptyMessage(name, peer) \/ MPI_Send_Recv(peer)
        PROVE  Quiet
    BY <1>1, <2>2, CallLeavesNulled, StopsLeaves DEF EmptyCollective, EmptyMessage, MPI_Send_Recv, stub
  <2>3. ASSUME NEW v, NEW root, NEW s, NEW r, NEW sent, NEW received,
               MPI_Allgather(s, r, sent, received) \/ MPI_Gather(v, root, s, r, sent, received)
        PROVE  Quiet
    BY <1>1, <2>1, <2>3, CallLeavesNulled, StopsLeaves DEF MPI_Allgather, MPI_Gather, stub
  <2>4. ASSUME NEW v, MPI_Bcast(v) \/ MPI_Igather(v)
        PROVE  Quiet
    BY <1>1, <2>4, CallLeavesNulled, StopsLeaves DEF MPI_Bcast, MPI_Igather, stub
  <2>5. ASSUME NEW t, MPI_Type_size(t) \/ MPI_Type_get_extent(t) \/ MPI_Type_lb(t) \/ MPI_Type_ub(t)
        PROVE  Quiet
    BY <1>1, <2>5, CallLeavesNulled, StopsLeaves
       DEF MPI_Type_size, MPI_Type_get_extent, MPI_Type_lb, MPI_Type_ub, stub
  <2>6. ASSUME MPI_Type_contiguous \/ MPI_Type_vector \/ MPI_Type_extent \/ MPI_Type_commit
               \/ MPI_Type_dup \/ SizeOfCopy \/ MPI_Type_free
        PROVE  Quiet
    BY <1>1, <2>6, CallLeavesNulled, StopsLeaves
       DEF MPI_Type_contiguous, MPI_Type_vector, MPI_Type_extent, MPI_Type_commit, MPI_Type_dup,
           SizeOfCopy, MPI_Type_free, stub
  <2>7. QED
    BY <1>0, <1>8, <2>2, <2>3, <2>4, <2>5, <2>6 DEF NextData
<1>9. ASSUME NEW name, NothingToDo(name) \/ Asks(name) \/ Unanswered(name)
      PROVE  Quiet
  BY <1>1, <1>9, CallLeavesNulled DEF NothingToDo, Asks, Unanswered, stub
<1>10. CASE MPI_Request_get_status \/ MPI_Test_cancelled \/ MPI_Get_version \/ MPI_Get_processor_name
  <2>1. Quiet
    BY <1>1, <1>10, CallLeavesNulled
       DEF MPI_Request_get_status, MPI_Test_cancelled, MPI_Get_version, MPI_Get_processor_name, stub
  <2>2. QED
    BY <1>0, <2>1
<1>11. CASE UNCHANGED vars
  BY <1>0, <1>11 DEF vars, stub
<1>12. QED
  BY <1>0, <1>2, <1>3, <1>4, <1>7, <1>8, <1>9, <1>10, <1>11 DEF Next

\* Every communicator of the program is null or has a handler that can be called, whatever was
\* copied, freed, disconnected or given another handler before, unless one was given a null one.
THEOREM NothingDanglesHolds == Spec => []NothingDangles
<1>1. FakeInv /\ NulledInv => NothingDangles
  <2> SUFFICES ASSUME FakeInv, NulledInv, NEW v \in Comms, comm[v] # Null
               PROVE  /\ comm[v] \in DOMAIN objects
                      /\ objects[comm[v]] \in DOMAIN handlers \/ (nulled /\ HandlerOf(v) = "none")
    BY DEF NothingDangles
  <2>1. comm[v] \in 1 .. Len(objects)
    BY AllocatedFacts DEF Null
  <2>2. DOMAIN objects = 1 .. Len(objects) /\ DOMAIN handlers = 1 .. Len(handlers)
    BY AllocatedFacts
  <2>3. CASE objects[comm[v]] = Null
    <3>1. nulled /\ HandlerOf(v) = "none"
      BY <2>1, <2>3 DEF NulledInv, HandlerOf, Serves
    <3>2. QED
      BY <2>1, <2>2, <3>1
  <2>4. CASE objects[comm[v]] # Null
    <3>1. objects[comm[v]] \in 1 .. Len(handlers)
      BY <2>1, <2>4, AllocatedFacts DEF Null
    <3>2. QED
      BY <2>1, <2>2, <3>1
  <2>5. QED
    BY <2>3, <2>4
<1>2. Init => NulledInv
  <2> SUFFICES ASSUME Init PROVE NulledInv
    OBVIOUS
  <2>1. nulled = FALSE /\ objects = <<>>
    BY DEF Init
  <2>2. \A k \in 1 .. Len(objects) : FALSE
    BY <2>1
  <2>3. QED
    BY <2>1, <2>2 DEF NulledInv
<1>3. QED
  BY <1>1, <1>2, NulledStep, FakeInvariant, PTL DEF Spec
-----------------------------------------------------------------------------
(* The main() of main.hpp, for any number of ranks: its safety properties  *)
(* follow from one inductive invariant about who has called which          *)
(* collective.                                                             *)

\* The control points before the barrier of ::main, and those after it.
BeforeBarrier == {"start", "launching", "constructing", "initialized", "duplicating", "user", "meeting", "working",
                  "disconnecting"}
PastBarrier == {"finalizing", "statics", "exited"}

\* A rank that failed posted the ibarrier, and the other way round.
FailedInIbarrier == failed = entered["ibarrier"]

\* A rank that called the barrier of ::main has not failed and will not, and no
\* rank is past it before all have called it.
BarrierMeansSuccess ==
    /\ entered["barrier"] \cap failed = {}
    /\ \A r \in Main!Ranks : mainPc[r] \in BeforeBarrier => r \notin entered["barrier"]
    /\ \A r \in Main!Ranks : mainPc[r] \in PastBarrier => Main!World(r) \subseteq entered["barrier"]

\* The ranks in the terminate handler are those that failed and still live.
HandlersFailed ==
    \A r \in Main!Ranks :
        /\ mainPc[r] \in {"spinning", "checking"} => r \in failed
        /\ r \in failed => mainPc[r] \in {"spinning", "checking", "dead"}

\* After finalize() an exception does not reach timed_terminate.
LateHandler == \A r \in Main!Ranks : mainPc[r] \in PastBarrier => mainHandler[r] = "abort"

\* After finalize() there is no key to be freed.
LateKey == \A r \in Main!Ranks : mainPc[r] \in PastBarrier => ~key[r]

ProgramInv ==
    /\ Main!TypeOK /\ FailedInIbarrier /\ BarrierMeansSuccess
    /\ HandlersFailed /\ LateHandler /\ LateKey /\ Main!NoCallAfterFinalize

\* The initial states satisfy the invariant.
LEMMA ProgramInvInit == Main!Init => ProgramInv
  BY DEF Main!Init, ProgramInv, Main!TypeOK, FailedInIbarrier, BarrierMeansSuccess,
         HandlersFailed, LateHandler, LateKey, Main!World, Main!NoCallAfterFinalize,
         Main!PC, Main!Collectives, BeforeBarrier, PastBarrier

\* Every step of every rank preserves the invariant.
LEMMA ProgramInvStep == ProgramInv /\ [Main!Next]_(Main!vars) => ProgramInv'
<1> SUFFICES ASSUME ProgramInv, [Main!Next]_(Main!vars) PROVE ProgramInv'
    OBVIOUS
<1> USE DEF ProgramInv, Main!TypeOK, FailedInIbarrier, BarrierMeansSuccess,
            HandlersFailed, LateHandler, LateKey, Main!World, Main!NoCallAfterFinalize,
            Main!PC, Main!Collectives, BeforeBarrier, PastBarrier
<1>1. ASSUME NEW r \in Main!Ranks, Main!MainStep(r) PROVE ProgramInv'
  <2>1. CASE Main!Initialize(r) BY <2>1 DEF Main!Initialize
  <2>10. CASE Main!InitializeWarning(r) BY <2>10 DEF Main!InitializeWarning, Main!Call
  <2>11. CASE Main!Warned(r) BY <2>11 DEF Main!Warned, Main!Return
  <2>12. CASE Main!Construct(r) BY <2>12 DEF Main!Construct
  <2>2. CASE Main!Duplicate(r) BY <2>2 DEF Main!Duplicate, Main!Call
  <2>3. CASE Main!EnterUserMain(r) \/ Main!MetOthers(r)
        BY <2>3 DEF Main!EnterUserMain, Main!MetOthers, Main!Return
  <2>4. CASE Main!MeetOthers(r) BY <2>4 DEF Main!MeetOthers, Main!Call
  <2>5. CASE Main!ReturnFromUserMain(r) BY <2>5 DEF Main!ReturnFromUserMain, Main!Call
  <2>6. CASE Main!EnterBarrier(r) BY <2>6 DEF Main!EnterBarrier, Main!Call
  <2>7. CASE Main!Finalize(r) BY <2>7 DEF Main!Finalize, Main!Call, Main!Met
  <2>8. CASE Main!Finalized(r) BY <2>8 DEF Main!Finalized
  <2>9. CASE Main!DestroyStatics(r) BY <2>9 DEF Main!DestroyStatics, Main!Disconnects
  <2> QED BY <1>1, <2>1, <2>2, <2>3, <2>4, <2>5, <2>6, <2>7, <2>8, <2>9, <2>10, <2>11, <2>12
    DEF Main!MainStep
<1>2. ASSUME NEW r \in Main!Ranks, Main!TerminateStep(r) PROVE ProgramInv'
  <2>1. CASE Main!Throw(r) BY <2>1 DEF Main!Throw, Main!Call
  <2>2. CASE Main!ThrowLate(r) BY <2>2 DEF Main!ThrowLate
  <2>3. CASE Main!SeeAllFailed(r) BY <2>3 DEF Main!SeeAllFailed, Main!AbortAll
  <2>4. CASE Main!TimeOut(r) BY <2>4 DEF Main!TimeOut
  <2>5. CASE Main!CheckAgain(r) BY <2>5 DEF Main!CheckAgain, Main!AbortAll
  <2>6. CASE Main!Killed(r) BY <2>6 DEF Main!Killed
  <2> QED BY <1>2, <2>1, <2>2, <2>3, <2>4, <2>5, <2>6 DEF Main!TerminateStep
<1>3. CASE UNCHANGED Main!vars BY <1>3 DEF Main!vars
<1> QED BY <1>1, <1>2, <1>3 DEF Main!Next, Main!Ended

\* The invariant holds throughout, for any number of ranks.
THEOREM ProgramInvariant == Main!Spec => []ProgramInv
BY ProgramInvInit, ProgramInvStep, PTL DEF Main!Spec

\* A rank exits regularly only when no rank failed.
THEOREM NormalExitIsUnanimousHolds == Main!Spec => []NormalExitIsUnanimous
<1>1. ProgramInv => NormalExitIsUnanimous
  BY DEF ProgramInv, BarrierMeansSuccess, PastBarrier, NormalExitIsUnanimous, Main!NormalExitIsUnanimous
<1> QED BY <1>1, ProgramInvariant, PTL

\* No rank calls MPI after it finalised it.
THEOREM NoCallAfterFinalizeHolds == Main!Spec => []NoCallAfterFinalize
<1>1. ProgramInv => NoCallAfterFinalize BY DEF ProgramInv, NoCallAfterFinalize
<1> QED BY <1>1, ProgramInvariant, PTL

\* Of a world whose rank 0 was told another size, no other rank calls the barrier of
\* initialize(), so rank 0 stays in it.
WaitsAlone ==
    Main!Stranded =>
        /\ entered["launch"] \subseteq {0} /\ 0 \notin entered["dup"]
        /\ mainPc[0] \in {"start", "launching"}
        /\ ~aborting
        /\ Main!StrandedNeverStarts

\* A program whose rank 0 was told another size never gets to the user's main, at any rank.
THEOREM StrandedNeverStartsHolds == Main!Spec => []Main!StrandedNeverStarts
<1> USE DEF WaitsAlone, Main!Stranded, Main!StrandedNeverStarts
<1>1. Main!Init => WaitsAlone
  BY DEF Main!Init, Main!Collectives, Main!Ranks
<1>2. ProgramInv /\ WaitsAlone /\ [Main!Next]_(Main!vars) => WaitsAlone'
  <2> SUFFICES ASSUME ProgramInv, WaitsAlone, [Main!Next]_(Main!vars), Main!Stranded' PROVE WaitsAlone'
      OBVIOUS
  <2> USE DEF ProgramInv, Main!TypeOK, Main!World, Main!RankInWorld, Main!PC, Main!Collectives
  <2>0. N \in Nat /\ N > 1 /\ 0 \in Main!Ranks /\ 1 \in Main!Ranks /\ Main!Stranded
    BY SizeAssumption DEF Main!Ranks, Main!Next, Main!Ended, Main!MainStep, Main!TerminateStep, Main!vars, Main!Call,
       Main!Initialize, Main!InitializeWarning, Main!Warned, Main!Construct, Main!Duplicate,
       Main!EnterUserMain, Main!MeetOthers, Main!MetOthers, Main!Return,
       Main!ReturnFromUserMain, Main!EnterBarrier, Main!Finalize, Main!Finalized,
       Main!DestroyStatics, Main!Throw, Main!ThrowLate, Main!SeeAllFailed, Main!AbortAll,
       Main!TimeOut, Main!CheckAgain, Main!Killed
  <2>1. ASSUME NEW r \in Main!Ranks, Main!MainStep(r) PROVE WaitsAlone'
    <3>1. CASE Main!Initialize(r) BY <2>0, <3>1 DEF Main!Initialize, Main!Warns
    <3>2. CASE Main!InitializeWarning(r) BY <2>0, <3>2 DEF Main!InitializeWarning, Main!Warns, Main!Call
    <3>3. CASE Main!Warned(r) BY <2>0, <3>3 DEF Main!Warned, Main!Return, Main!Met
    <3>4. CASE Main!Construct(r) BY <2>0, <3>4 DEF Main!Construct
    <3>5. CASE Main!Duplicate(r) BY <2>0, <3>5 DEF Main!Duplicate, Main!Call
    <3>6. CASE Main!EnterUserMain(r) BY <2>0, <3>6 DEF Main!EnterUserMain, Main!Return, Main!Met
    <3>7. CASE Main!MeetOthers(r) BY <2>0, <3>7 DEF Main!MeetOthers, Main!Call
    <3>8. CASE Main!MetOthers(r) BY <2>0, <3>8 DEF Main!MetOthers, Main!Return
    <3>9. CASE Main!ReturnFromUserMain(r) BY <2>0, <3>9 DEF Main!ReturnFromUserMain, Main!Call
    <3>10. CASE Main!EnterBarrier(r) BY <2>0, <3>10 DEF Main!EnterBarrier, Main!Call
    <3>11. CASE Main!Finalize(r) BY <2>0, <3>11 DEF Main!Finalize, Main!Call
    <3>12. CASE Main!Finalized(r) BY <2>0, <3>12 DEF Main!Finalized
    <3>13. CASE Main!DestroyStatics(r) BY <2>0, <3>13 DEF Main!DestroyStatics
    <3> QED BY <2>1, <3>1, <3>2, <3>3, <3>4, <3>5, <3>6, <3>7, <3>8, <3>9, <3>10, <3>11, <3>12, <3>13 DEF Main!MainStep
  <2>2. ASSUME NEW r \in Main!Ranks, Main!TerminateStep(r) PROVE WaitsAlone'
    <3>1. CASE Main!Throw(r) BY <2>0, <3>1 DEF Main!Throw, Main!Call
    <3>2. CASE Main!ThrowLate(r) BY <2>0, <3>2 DEF Main!ThrowLate
    <3>3. CASE Main!SeeAllFailed(r) BY <2>0, <3>3 DEF Main!SeeAllFailed, Main!AbortAll
    <3>4. CASE Main!TimeOut(r) BY <2>0, <3>4 DEF Main!TimeOut
    <3>5. CASE Main!CheckAgain(r) BY <2>0, <3>5 DEF Main!CheckAgain, Main!AbortAll
    <3>6. CASE Main!Killed(r) BY <2>0, <3>6 DEF Main!Killed
    <3> QED BY <2>2, <3>1, <3>2, <3>3, <3>4, <3>5, <3>6 DEF Main!TerminateStep
  <2>3. CASE UNCHANGED Main!vars BY <2>3 DEF Main!vars
  <2> QED BY <2>1, <2>2, <2>3 DEF Main!Next, Main!Ended
<1>3. WaitsAlone => Main!StrandedNeverStarts OBVIOUS
<1> QED BY <1>1, <1>2, <1>3, ProgramInvariant, PTL DEF Main!Spec
=============================================================================
