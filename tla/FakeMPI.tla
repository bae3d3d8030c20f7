------------------------------- MODULE FakeMPI -------------------------------
(***************************************************************************)
(* A C program over fake/mpi.h, which stands in for MPI when there is one  *)
(* process.  Many of its functions are empty and return MPI_SUCCESS; some  *)
(* copy, some assert.  Beside what the program sees (its cells of data, a  *)
(* flag, its communicators, what the last call gave), the model keeps what *)
(* MPI promises to a process that is alone, as long as the program kept to *)
(* the calls that an empty function is right for.                          *)
(***************************************************************************)
EXTENDS Naturals, Sequences, FiniteSets

CONSTANTS
    Data,        \* what a cell of the program may hold
    MaxCalls     \* bound on the calls of a program

ASSUME CallsAssumption == MaxCalls \in Nat /\ Data # {}

VARIABLES
    calls,       \* how many calls were made
    phase,       \* "before" MPI_Init, "up", "finalized", "stopped" or "exited"
    objects,     \* the communicators that were allocated: the handler of each, or Null
    handlers,    \* the handlers that were allocated: the function of each
    comm,        \* the program's communicators: an object, or Null
    handler,     \* the program's handlers: a handler, or Null
    type,        \* the program's datatype: "none" or "copy"
    cell,        \* the program's data
    flag,        \* what it asks with MPI_Test and the like
    got,         \* what the last call gave
    mpi,         \* the same with MPI
    kept,        \* the program made no call that needs more than this header
    nulled       \* the program has given a communicator a handler that is null

stub == <<objects, handlers, comm, handler, type, cell, flag>>
vars == <<calls, phase, stub, got, mpi, kept, nulled>>

Null == 0                               \* MPI_COMM_NULL, MPI_ERRHANDLER_NULL
Cells == {"a", "b"}
InPlace == "in place"                   \* MPI_IN_PLACE
Comms == {"world", "self", "x", "y"}    \* x and y are the program's own
Own == {"x", "y"}

Success == "MPI_SUCCESS"
ErrComm == "MPI_ERR_COMM"
ErrDims == "MPI_ERR_DIMS"
ErrOther == "MPI_ERR_OTHER"

Init ==
    /\ calls = 0 /\ phase = "before"
    /\ objects = <<>> /\ handlers = <<>>
    /\ comm = [v \in Comms |-> Null]
    /\ handler = [h \in {"fatal", "return", "own"} |-> Null]
    /\ type = "none" /\ flag = FALSE /\ got = Success /\ kept = TRUE /\ nulled = FALSE
    /\ cell \in [Cells -> Data]
    /\ mpi = [cell |-> cell, flag |-> FALSE, got |-> Success,
              comm |-> [v \in Comms |-> "null"]]
-----------------------------------------------------------------------------
(* A call gives something, and MPI would give e to a program that keeps.   *)

CallWith(given) ==
    /\ phase = "up" /\ calls < MaxCalls /\ calls' = calls + 1
    /\ nulled' = (nulled \/ given)
Call == CallWith(FALSE)
Gives(x) == got' = x /\ UNCHANGED phase
Expect(e, keeps) ==
    /\ kept' = (kept /\ keeps)
    /\ mpi' = IF kept' THEN e ELSE mpi
Same(x) == [mpi EXCEPT !.got = x]

\* assert(0), or an access to address -1: the program is stopped, and learns nothing wrong.
Stops == phase' = "stopped" /\ UNCHANGED <<stub, got, mpi, kept>>
-----------------------------------------------------------------------------
(* Chapters 8.7 and 8.3: start, end, errors.                               *)

NewHandler(f) == handlers' = Append(handlers, f)

MPI_Init ==
    /\ phase = "before" /\ phase' = "up"
    /\ handlers' = <<"fatal_error_", "no_op_error_">>
    /\ handler' = [handler EXCEPT !["fatal"] = 1, !["return"] = 2]
    /\ objects' = <<1, 1>>
    /\ comm' = [comm EXCEPT !["world"] = 1, !["self"] = 2]
    /\ Expect([mpi EXCEPT !.comm = [@ EXCEPT !["world"] = "fatal_error_", !["self"] = "fatal_error_"]],
              TRUE)
    /\ UNCHANGED <<calls, nulled, type, cell, flag, got>>

\* It only says which level of threads there is: no communicator is made.
MPI_Init_thread ==
    /\ phase = "before" /\ phase' = "up"
    /\ got' = "MPI_THREAD_MULTIPLE" /\ Expect(mpi, FALSE)
    /\ UNCHANGED <<calls, nulled, stub>>

MPI_Finalize ==
    /\ phase = "up" /\ phase' = "finalized"
    /\ got' = Success /\ Expect(Same(Success), TRUE)
    /\ UNCHANGED <<calls, nulled, stub>>

\* Before MPI_Init as well it says true.
MPI_Initialized ==
    /\ phase \in {"before", "up"} /\ calls < MaxCalls /\ calls' = calls + 1
    /\ flag' = TRUE /\ Gives(Success)
    /\ Expect([Same(Success) EXCEPT !.flag = TRUE], phase = "up")
    /\ UNCHANGED <<nulled, objects, handlers, comm, handler, type, cell>>

Exits == phase' = "exited" /\ got' = "exit" /\ UNCHANGED stub

MPI_Abort == Call /\ Exits /\ Expect(Same("exit"), TRUE)

MPI_Comm_create_errhandler ==
    /\ Call
    /\ NewHandler("user")
    /\ handler' = [handler EXCEPT !["own"] = Len(handlers')]
    /\ Gives(Success) /\ Expect(Same(Success), TRUE)
    /\ UNCHANGED <<objects, comm, type, cell, flag>>

\* Only the variable is set: the handler serves the communicators that it was given to.
MPI_Errhandler_free ==
    /\ Call
    /\ handler["own"] # Null
    /\ handler' = [handler EXCEPT !["own"] = Null]
    /\ Gives(Success) /\ Expect(Same(Success), TRUE)
    /\ UNCHANGED <<objects, handlers, comm, type, cell, flag>>

\* A cartesian communicator is the one that it was made from.
Shared(v) == \E w \in Comms \ {v} : comm[w] = comm[v]

\* Any handler is taken, one that is null as well: MPI allows no such call.
MPI_Comm_set_errhandler(v, h) ==
    /\ CallWith(comm[v] # Null /\ handler[h] = Null)
    /\ IF comm[v] = Null
       THEN Gives(ErrComm) /\ Expect(mpi, FALSE) /\ UNCHANGED objects
       ELSE /\ objects' = [objects EXCEPT ![comm[v]] = handler[h]]
            /\ Gives(Success)
            /\ Expect([Same(Success) EXCEPT !.comm[v] = handlers[handler[h]]],
                      handler[h] # Null /\ ~Shared(v))
    /\ UNCHANGED <<handlers, comm, handler, type, cell, flag>>

\* The function that serves an object.
Serves(n) ==
    IF n = Null THEN "null" ELSE IF objects[n] = Null THEN "none" ELSE handlers[objects[n]]
HandlerOf(v) == Serves(comm[v])

\* fatal_error_ ends the program for an invalid communicator; other errors it ignores.  A null
\* communicator, and a null handler of one that is not, are accesses to address 0.
MPI_Comm_call_errhandler(v, code) ==
    /\ Call
    /\ IF HandlerOf(v) \in {"null", "none"} THEN Stops
       ELSE IF HandlerOf(v) = "fatal_error_" /\ code = ErrComm
       THEN Exits /\ Expect([mpi EXCEPT !.got = IF mpi.comm[v] = "fatal_error_" THEN "exit"
                                                ELSE mpi.comm[v]], TRUE)
       ELSE /\ Gives(HandlerOf(v)) /\ UNCHANGED stub
            /\ Expect([mpi EXCEPT !.got = mpi.comm[v]], mpi.comm[v] # "fatal_error_")
-----------------------------------------------------------------------------
(* Chapter 6.4 and 7.5: communicators.                                     *)

MPI_Comm_size_rank(v) ==
    /\ Call
    /\ Gives(<<"size, rank", 1, 0>>)
    /\ Expect(Same(<<"size, rank", 1, 0>>), comm[v] # Null)
    /\ UNCHANGED stub

MPI_Comm_compare(v, w) ==
    /\ Call
    /\ Gives("MPI_CONGRUENT") /\ UNCHANGED stub
    /\ Expect(Same("MPI_CONGRUENT"), v # w /\ comm[v] # Null /\ comm[w] # Null)

\* Mutant: the copy has the handler that communicators start with.
DupFatal(v, w) ==
    /\ Call
    /\ IF comm[v] = Null THEN Stops
       ELSE /\ objects' = Append(objects, handler["fatal"])
            /\ comm' = [comm EXCEPT ![w] = Len(objects')]
            /\ Gives(Success)
            /\ Expect([Same(Success) EXCEPT !.comm[w] = mpi.comm[v]], TRUE)
            /\ UNCHANGED <<handlers, handler, type, cell, flag>>

\* The copy has the handler of the original.  A null communicator is an access to address 0.
MPI_Comm_dup(v, w) ==
    /\ Call
    /\ IF comm[v] = Null THEN Stops
       ELSE /\ objects' = Append(objects, objects[comm[v]])
            /\ comm' = [comm EXCEPT ![w] = Len(objects')]
            /\ Gives(Success)
            /\ Expect([Same(Success) EXCEPT !.comm[w] = mpi.comm[v]], TRUE)
            /\ UNCHANGED <<handlers, handler, type, cell, flag>>

Became(v, w) ==
    /\ comm' = [comm EXCEPT ![w] = comm[v]]
    /\ Gives(Success)
    /\ Expect([Same(Success) EXCEPT !.comm[w] = mpi.comm[v]], comm[v] # Null)
    /\ UNCHANGED <<objects, handlers, handler, type, cell, flag>>

MPI_Cart_create(v, w, dims) ==
    /\ Call
    /\ IF dims <= 0
       THEN Gives(ErrDims) /\ Expect(mpi, FALSE) /\ UNCHANGED stub
       ELSE Became(v, w)

MPI_Cart_sub(v, w) == Call /\ Became(v, w)

\* Mutant: the communicator is destroyed, and with it those made from it.
FreeDestroys(v) ==
    /\ Call
    /\ comm[v] # Null
    /\ comm' = [comm EXCEPT ![v] = Null]
    /\ objects' = [objects EXCEPT ![comm[v]] = Null]
    /\ Gives(Success) /\ Expect([Same(Success) EXCEPT !.comm[v] = "null"], TRUE)
    /\ UNCHANGED <<handlers, handler, type, cell, flag>>

\* Only the variable is set, by MPI_Comm_free and by MPI_Comm_disconnect.
Forget(v) ==
    /\ comm' = [comm EXCEPT ![v] = Null]
    /\ Gives(Success) /\ Expect([Same(Success) EXCEPT !.comm[v] = "null"], comm[v] # Null)
    /\ UNCHANGED <<objects, handlers, handler, type, cell, flag>>

MPI_Comm_free(v) == Call /\ comm[v] # Null /\ Forget(v)

MPI_Comm_disconnect(v) ==
    /\ Call
    /\ IF comm[v] = Null
       THEN Gives(ErrComm) /\ Expect(mpi, FALSE) /\ UNCHANGED stub
       ELSE Forget(v)
-----------------------------------------------------------------------------
(* Chapter 4: datatypes.                                                   *)

\* The table of datatypes: those of C have their size, the others none.
Bytes == [MPI_INT |-> 4, MPI_BYTE |-> 0, MPI_FLOAT_INT |-> 0]
Promised == [MPI_INT |-> 4, MPI_BYTE |-> 1, MPI_FLOAT_INT |-> 8]
Datatypes == DOMAIN Bytes

MPI_Type_size(t) ==
    /\ Call
    /\ Gives(<<"size", Bytes[t]>>)
    /\ Expect(Same(<<"size", Promised[t]>>), Bytes[t] # 0)
    /\ UNCHANGED stub

\* What basic types have as count is 0, so that it asserts for every type there is.
MPI_Type_contiguous == Call /\ Stops
MPI_Type_vector == Call /\ Stops
MPI_Type_extent == Call /\ Stops

MPI_Type_get_extent(t) ==
    /\ Call
    /\ IF t = "MPI_BYTE"
       THEN /\ Gives(<<"extent", 0, 1>>) /\ Expect(Same(<<"extent", 0, 1>>), TRUE)
            /\ UNCHANGED stub
       ELSE Stops

\* The lower bound is that of the upper one.
MPI_Type_lb(t) ==
    /\ Call
    /\ IF t = "MPI_BYTE"
       THEN Gives(<<"bound", 1>>) /\ Expect(Same(<<"bound", 0>>), FALSE) /\ UNCHANGED stub
       ELSE Stops
MPI_Type_ub(t) ==
    /\ Call
    /\ IF t = "MPI_BYTE"
       THEN Gives(<<"bound", 1>>) /\ Expect(Same(<<"bound", 1>>), TRUE) /\ UNCHANGED stub
       ELSE Stops

MPI_Type_commit == Call /\ Gives(Success) /\ Expect(Same(Success), TRUE) /\ UNCHANGED stub

\* The copy of a basic type has a count of 0; its size, and whether it is basic, are not set.
MPI_Type_dup ==
    /\ Call
    /\ type' = "copy"
    /\ Gives(Success) /\ Expect(Same(Success), TRUE)
    /\ UNCHANGED <<objects, handlers, comm, handler, cell, flag>>

SizeOfCopy ==
    /\ Call
    /\ type = "copy"
    /\ \/ Stops
       \/ Gives("unset") /\ Expect(mpi, FALSE) /\ UNCHANGED stub

MPI_Type_free ==
    /\ Call
    /\ type = "copy" /\ type' = "none"
    /\ Gives(Success) /\ Expect(Same(Success), TRUE)
    /\ UNCHANGED <<objects, handlers, comm, handler, cell, flag>>
-----------------------------------------------------------------------------
(* Chapter 5: collectives.  s is what is sent, a cell or MPI_IN_PLACE, and *)
(* r where it is received: alone, a process receives what it sent.         *)

Received(s, r) == [mpi.cell EXCEPT ![r] = IF s = InPlace THEN @ ELSE mpi.cell[s]]

\* What is copied: the larger of both messages' sizes.
CopiedBytes(sent, received) ==
    LET types == {Bytes[sent], Bytes[received]} IN CHOOSE n \in types : \A m \in types : n >= m

Copies(s, r, sent, received) ==
    IF s = InPlace THEN Stops
    ELSE /\ cell' = IF CopiedBytes(sent, received) = 0 THEN cell ELSE [cell EXCEPT ![r] = cell[s]]
         /\ Gives(Success)
         /\ Expect([Same(Success) EXCEPT !.cell = Received(s, r)],
                   Bytes[sent] # 0 \/ Bytes[received] # 0)
         /\ UNCHANGED <<objects, handlers, comm, handler, type, flag>>

MPI_Gather(v, root, s, r, sent, received) ==
    /\ Call
    /\ IF comm[v] = Null
       THEN Gives(ErrComm) /\ Expect(mpi, FALSE) /\ UNCHANGED stub
       ELSE IF root # 0 THEN Stops ELSE Copies(s, r, sent, received)

MPI_Allgather(s, r, sent, received) == Call /\ Copies(s, r, sent, received)

\* Functions without a body but the return: the cells stay as they are.
EmptyGathers == {"MPI_Gatherv", "MPI_Scatter", "MPI_Scatterv"}
EmptyExchanges == {"MPI_Allgatherv", "MPI_Alltoall", "MPI_Alltoallv", "MPI_Alltoallw"}
EmptyReduce == {"MPI_Reduce"}
EmptyReductions ==
    {"MPI_Allreduce", "MPI_Reduce_scatter_block", "MPI_Reduce_scatter", "MPI_Scan"}
EmptyImmediate == {"MPI_Iallgather"}

EmptyCollectives == EmptyGathers \cup EmptyExchanges \cup EmptyReduce \cup EmptyReductions
                        \cup EmptyImmediate

EmptyCollective(name, s, r) ==
    /\ name \in EmptyCollectives
    /\ Call
    /\ Gives(Success)
    /\ Expect([Same(Success) EXCEPT !.cell = Received(s, r)], s = InPlace)
    /\ UNCHANGED stub

\* Nothing is to be done by a process that is alone.
NothingToCollect == {"MPI_Barrier", "MPI_Exscan", "MPI_Ibcast"}
MPI_Bcast(v) ==
    /\ Call
    /\ Gives(IF comm[v] = Null THEN ErrComm ELSE Success)
    /\ Expect(Same(Success), comm[v] # Null)
    /\ UNCHANGED stub

MPI_Igather(v) ==
    /\ Call
    /\ IF comm[v] = Null
       THEN Gives(ErrComm) /\ Expect(mpi, FALSE) /\ UNCHANGED stub
       ELSE Stops
-----------------------------------------------------------------------------
(* Chapter 3: messages.  The other side is the process itself or nobody,   *)
(* MPI_PROC_NULL, which has the number 0 as well.                          *)

Peers == {"self", "nobody"}

\* MPI_Send and MPI_Recv assert that the other rank is not this one.
MPI_Send_Recv(peer) == Call /\ Stops

\* These are empty: right for nobody, and for a message that replaces itself.
MessageModes == {"MPI_Bsend", "MPI_Ssend", "MPI_Rsend"}
Exchanges == {"MPI_Sendrecv"}
ImmediateMessages == {"MPI_Isend", "MPI_Ibsend", "MPI_Issend", "MPI_Irsend", "MPI_Irecv"}
PersistentMessages ==
    {"MPI_Send_init", "MPI_Bsend_init", "MPI_Ssend_init", "MPI_Rsend_init", "MPI_Recv_init",
     "MPI_Start", "MPI_Startall"}

EmptyMessages == MessageModes \cup Exchanges \cup ImmediateMessages \cup PersistentMessages

EmptyMessage(name, peer) ==
    /\ name \in EmptyMessages
    /\ Call
    /\ Gives(Success) /\ Expect(Same(Success), peer = "nobody")
    /\ UNCHANGED stub

\* A message to itself that replaces itself, or one with nobody.
Replacements == {"MPI_Sendrecv_replace"}

\* To wait for messages with nobody is to return.
Completions == {"MPI_Wait", "MPI_Request_free", "MPI_Waitall"}
Cancellations == {"MPI_Cancel"}

\* What the program gives back or tells, and does not ask for again.
Returned == {"MPI_Buffer_attach", "MPI_Op_free", "MPI_Group_free", "MPI_Comm_free_keyval", "MPI_Free_mem"}
Named == {"MPI_Comm_set_name", "MPI_Type_set_name"}
Clocks == {"MPI_Wtime", "MPI_Wtick"}
Profiled == {"MPI_Pcontrol"}

Harmless == NothingToCollect \cup Replacements \cup Completions \cup Cancellations
                \cup Returned \cup Named \cup Clocks \cup Profiled

NothingToDo(name) ==
    /\ name \in Harmless
    /\ Call
    /\ Gives(Success) /\ Expect(Same(Success), TRUE)
    /\ UNCHANGED stub

\* The version and the host's name are filled in.
MPI_Get_version ==
    /\ Call
    /\ Gives(<<"version", 3, 1>>) /\ Expect(Same(<<"version", 3, 1>>), TRUE)
    /\ UNCHANGED stub
MPI_Get_processor_name ==
    /\ Call
    /\ Gives("host") /\ Expect(Same("host"), TRUE)
    /\ UNCHANGED stub

\* To ask whether they are there: the flag stays as it is, and a program that asks until
\* it is set asks for ever.
Questions == {"MPI_Test", "MPI_Testall"}
Asks(name) ==
    /\ name \in Questions
    /\ Call
    /\ Gives(Success) /\ Expect([Same(Success) EXCEPT !.flag = TRUE], flag)
    /\ UNCHANGED stub

MPI_Request_get_status ==
    /\ Call
    /\ flag' = TRUE
    /\ Gives(Success) /\ Expect([Same(Success) EXCEPT !.flag = TRUE], TRUE)
    /\ UNCHANGED <<objects, handlers, comm, handler, type, cell>>

\* Every message is said to have been cancelled; MPI says it of none that is complete.
MPI_Test_cancelled ==
    /\ Call
    /\ flag' = TRUE
    /\ Gives(Success) /\ Expect([Same(Success) EXCEPT !.flag = FALSE], FALSE)
    /\ UNCHANGED <<objects, handlers, comm, handler, type, cell>>
-----------------------------------------------------------------------------
(* Functions that should give something and leave it as it was: a program  *)
(* that goes on with it has not kept to what this header can do.           *)

UnansweredRequests ==
    {"MPI_Waitany", "MPI_Testany", "MPI_Waitsome", "MPI_Testsome"}
UnansweredProbes == {"MPI_Get_count", "MPI_Iprobe", "MPI_Probe", "MPI_Mprobe", "MPI_Mrecv"}
UnansweredTypes ==
    {"MPI_Type_create_hvector", "MPI_Type_indexed", "MPI_Type_hindexed",
     "MPI_Type_create_struct", "MPI_Type_struct", "MPI_Get_address"}
UnansweredPacks ==
    {"MPI_Get_elements", "MPI_Type_get_envelope", "MPI_Type_get_contents", "MPI_Pack",
     "MPI_Unpack", "MPI_Pack_size"}
UnansweredOperations == {"MPI_Op_create"}
UnansweredGroups ==
    {"MPI_Group_size", "MPI_Group_rank", "MPI_Group_translate_ranks", "MPI_Group_compare",
     "MPI_Comm_group", "MPI_Group_union", "MPI_Group_intersection", "MPI_Group_difference",
     "MPI_Group_incl", "MPI_Group_excl", "MPI_Group_range_incl", "MPI_Group_range_excl"}
UnansweredCommunicators == {"MPI_Comm_create", "MPI_Comm_split"}
UnansweredIntercommunicators ==
    {"MPI_Comm_test_inter", "MPI_Comm_remote_size", "MPI_Comm_remote_group",
     "MPI_Intercomm_create", "MPI_Intercomm_merge"}
UnansweredAttributes ==
    {"MPI_Comm_create_keyval", "MPI_Comm_set_attr", "MPI_Comm_get_attr", "MPI_Comm_delete_attr",
     "MPI_Comm_set_name", "MPI_Comm_get_name", "MPI_Type_get_name"}
UnansweredGraphs ==
    {"MPI_Dims_create", "MPI_Graph_create", "MPI_Dist_graph_create_adjacent",
     "MPI_Dist_graph_create"}
UnansweredTopologies ==
    {"MPI_Topo_test", "MPI_Graphdims_get", "MPI_Graph_get", "MPI_Cartdim_get", "MPI_Cart_get",
     "MPI_Cart_rank", "MPI_Cart_coords", "MPI_Graph_neighbors_count", "MPI_Graph_neighbors",
     "MPI_Dist_graph_neighbors_count", "MPI_Dist_graph_neighbors"}
UnansweredPlaces == {"MPI_Cart_shift", "MPI_Cart_map", "MPI_Graph_map"}
UnansweredMemory == {"MPI_Alloc_mem", "MPI_Buffer_detach"}      \* no memory is given
UnansweredHandlers ==
    {"MPI_Comm_get_errhandler", "MPI_Errhandler_create", "MPI_Errhandler_get", "MPI_Error_string"}
UnansweredPorts == {"MPI_Comm_accept", "MPI_Comm_connect"}
UnansweredGeneralized ==
    {"MPI_Grequest_start", "MPI_Grequest_complete", "MPI_Status_set_elements",
     "MPI_Status_set_cancelled"}
UnansweredLevel == {"MPI_Query_thread"}

UnansweredCalls ==
    UnansweredRequests \cup UnansweredProbes \cup UnansweredTypes \cup UnansweredPacks
      \cup UnansweredOperations \cup UnansweredGroups \cup UnansweredCommunicators
      \cup UnansweredIntercommunicators \cup UnansweredAttributes \cup UnansweredGraphs
      \cup UnansweredTopologies \cup UnansweredPlaces \cup UnansweredMemory
      \cup UnansweredHandlers \cup UnansweredPorts \cup UnansweredGeneralized
      \cup UnansweredLevel

Unanswered(name) ==
    /\ name \in UnansweredCalls
    /\ Call
    /\ Gives("unset") /\ Expect(mpi, FALSE)
    /\ UNCHANGED stub
-----------------------------------------------------------------------------
NextCommunicator ==
    \/ \E v, w \in Comms : MPI_Comm_compare(v, w)
    \/ \E v \in Comms, w \in Own :
         \/ MPI_Comm_dup(v, w) \/ MPI_Cart_sub(v, w)
         \/ \E dims \in {0, 1} : MPI_Cart_create(v, w, dims)
    \/ \E v \in Own : MPI_Comm_free(v) \/ MPI_Comm_disconnect(v)
    \/ \E v \in Comms : MPI_Comm_size_rank(v)
    \/ \E v \in Comms, h \in DOMAIN handler : MPI_Comm_set_errhandler(v, h)
    \/ \E v \in Comms, code \in {ErrComm, ErrOther} : MPI_Comm_call_errhandler(v, code)

NextData ==
    \/ \E r \in Cells, s \in Cells \cup {InPlace} :
         \/ \E name \in EmptyCollectives : EmptyCollective(name, s, r)
         \/ \E sent, received \in Datatypes :
              \/ MPI_Allgather(s, r, sent, received)
              \/ \E v \in Comms, root \in {0, 1} : MPI_Gather(v, root, s, r, sent, received)
    \/ \E v \in Comms : MPI_Bcast(v) \/ MPI_Igather(v)
    \/ \E t \in Datatypes :
         MPI_Type_size(t) \/ MPI_Type_get_extent(t) \/ MPI_Type_lb(t) \/ MPI_Type_ub(t)
    \/ MPI_Type_contiguous \/ MPI_Type_vector \/ MPI_Type_extent \/ MPI_Type_commit
    \/ MPI_Type_dup \/ SizeOfCopy \/ MPI_Type_free
    \/ \E peer \in Peers :
         MPI_Send_Recv(peer) \/ \E name \in EmptyMessages : EmptyMessage(name, peer)

Next ==
    \/ MPI_Init \/ MPI_Init_thread \/ MPI_Finalize \/ MPI_Initialized \/ MPI_Abort
    \/ MPI_Comm_create_errhandler \/ MPI_Errhandler_free
    \/ NextCommunicator \/ NextData
    \/ \E name \in Harmless : NothingToDo(name)
    \/ \E name \in Questions : Asks(name)
    \/ \E name \in UnansweredCalls : Unanswered(name)
    \/ MPI_Request_get_status \/ MPI_Test_cancelled
    \/ MPI_Get_version \/ MPI_Get_processor_name

Spec == Init /\ [][Next]_vars
-----------------------------------------------------------------------------
\* A program that kept to what the header can do, and was not stopped by it, sees what MPI
\* would show it: the data, the flags, what calls give, which communicators are null, and which
\* handler serves which communicator, also when the handler that was given to it is freed, and
\* when it was copied before or after (fake/mpi.h:1301, 1376, 1842, 2387, 2441, 2475).
AsWithMPI ==
    kept /\ phase # "stopped" =>
        /\ cell = mpi.cell /\ flag = mpi.flag /\ got = mpi.got
        /\ phase \in {"up", "finalized"} => \A v \in Comms : HandlerOf(v) = mpi.comm[v]

\* Every communicator of the program is null or has a handler that can be called, also those
\* made by MPI_Cart_create and MPI_Cart_sub, which are not freed with the one that they were
\* made from, and those whose handler's variable was freed since; the one exception is for
\* programs that gave a communicator a handler that was null, or freed, already: it may be
\* without one, and so may its copies (fake/mpi.h:1883, 2078, 2273, 2387, 2441, 2653).
NothingDangles ==
    \A v \in Comms :
        comm[v] # Null =>
            /\ comm[v] \in DOMAIN objects
            /\ objects[comm[v]] \in DOMAIN handlers \/ (nulled /\ HandlerOf(v) = "none")
=============================================================================
