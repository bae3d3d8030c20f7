------------------------------ MODULE Collectives ------------------------------
(***************************************************************************)
(* The collective operations of communicator.hpp: every rank runs the same *)
(* program of library calls, and a call is one or several collectives of   *)
(* MPI, whose sizes, displacements and roots depend on what the earlier    *)
(* ones delivered.  Ranks proceed at their own pace: a collective of MPI   *)
(* matches the ranks' calls in the order they were made, and lets a rank   *)
(* go on as soon as it has what it receives.                               *)
(***************************************************************************)
EXTENDS Packages, FiniteSetsExt

CONSTANTS
    Size,       \* the ranks are 0 .. Size - 1
    Programs    \* sequences of calls [op, root, n]; rank r has n[r] values

Ranks == 0 .. Size - 1

ASSUME SizeAssumption == Size \in Nat \ {0}

VARIABLES
    program,    \* the calls every rank makes
    call,       \* call[r]: the call rank r is in, or the end
    mem,        \* mem[r]: the local variables of that call
    posted,     \* posted[r]: the collectives of MPI that rank r has started
    blocked,    \* the ranks that are in a collective
    requests,   \* requests[r]: <<collective, call>> of immediate calls, not complete
    results     \* results[r]: what the calls of rank r have returned, by call

vars == <<program, call, mem, posted, blocked, requests, results>>
-----------------------------------------------------------------------------
(* Arrays.  An element is a tuple: a value <<rank, i>>, or a count <<c>>.  *)

Outside == <<-2>>    \* what is read past the end
Blank == <<-1>>      \* what was never written
Blanks(n) == [i \in 1 .. n |-> Blank]
Own(r, n) == [i \in 1 .. n |-> <<r, i>>]

Slice(a, from, n) == [i \in 1 .. n |-> IF from + i <= Len(a) THEN a[from + i] ELSE Outside]

Resized(a, n) == [i \in 1 .. n |-> IF i <= Len(a) THEN a[i] ELSE Blank]

\* The sums of the first sizes, as std::partial_sum adds them up, and that of them all.
Sums(sizes) ==
    LET sum[i \in 0 .. Len(sizes)] == IF i = 0 THEN 0 ELSE sum[i - 1] + sizes[i]
    IN  sum
Total(sizes) == Sums(sizes)[Len(sizes)]

\* Serialized values: strings of different lengths, and the package of n of them.
Text(r, i) == [type |-> "string", x |-> [k \in 1 .. ((r + i) % 3) |-> 10 * r + i]]
Package(r, n) == SaveAll([i \in 1 .. n |-> Text(r, i)])

\* Mutant: the sums are written from displs.begin().
InclusiveSums(sizes, room) ==
    [i \in 1 .. room |-> IF i <= Len(sizes) THEN Sums(sizes)[i] ELSE 0]

\* std::partial_sum(sizes, displs.begin() + 1), for displs of room elements, all 0.
PartialSums(sizes, room) ==
    [i \in 1 .. room |-> IF i - 1 <= Len(sizes) THEN Sums(sizes)[i - 1] ELSE 0]
-----------------------------------------------------------------------------
(* The collectives of MPI: give[q] goes to rank q, want[q] elements are    *)
(* expected from rank q and are put at place[q] of into.                   *)

Operation(kind, root, give, want, place, into) ==
    [kind |-> kind, root |-> root, give |-> give, want |-> want, place |-> place, into |-> into]

If(condition, S) == IF condition THEN S ELSE {}

Barrier == Operation("barrier", 0, [q \in Ranks |-> <<>>], [q \in Ranks |-> 0], [q \in Ranks |-> 0], <<>>)

Bcast(kind, r, root, a, n) ==
    Operation(kind, root, [q \in If(r = root, Ranks \ {r}) |-> Slice(a, 0, n)],
              [q \in If(r # root, {root}) |-> n], [q \in If(r # root, {root}) |-> 0], a)

Gather(kind, r, root, a, counts, displs, into) ==
    Operation(kind, root, [q \in {root} |-> a], [q \in If(r = root, Ranks) |-> counts[q + 1]],
              [q \in If(r = root, Ranks) |-> displs[q + 1]], into)

AllGather(kind, a, counts, displs, into) ==
    Operation(kind, 0, [q \in Ranks |-> a], [q \in Ranks |-> counts[q + 1]],
              [q \in Ranks |-> displs[q + 1]], into)

Scatter(kind, r, root, a, counts, displs, n, into) ==
    Operation(kind, root, [q \in If(r = root, Ranks) |-> Slice(a, displs[q + 1], counts[q + 1])],
              [q \in {root} |-> n], [q \in {root} |-> 0], into)

Alltoall(a, n, into) ==
    Operation("alltoall", 0, [q \in Ranks |-> Slice(a, q * n, n)],
              [q \in Ranks |-> n], [q \in Ranks |-> q * n], into)

Reduce(r, root, a, into) ==
    Operation("reduce", root, [q \in {root} |-> a], [q \in If(r = root, Ranks) |-> Len(a)],
              [q \in If(r = root, Ranks) |-> 0], into)

Allreduce(kind, a, into) ==
    Operation(kind, 0, [q \in Ranks |-> a], [q \in Ranks |-> Len(a)], [q \in Ranks |-> 0], into)

Reductions == {"reduce", "allreduce", "max_loc", "max_by_value", "max", "min", "and", "or"}

\* The sum keeps its terms; false is 0 and true is 1.  MPI_MAXLOC gives the largest value
\* and the first rank that has it.  An operation that MPI is told to be commutative and
\* that compares the values only leaves, at each rank, any of those that have the largest:
\* the set of them all stands for it.
Combined(kind, terms) ==
    CASE kind = "max_loc" ->
             CHOOSE x \in terms : \A y \in terms : y[1] < x[1] \/ (y[1] = x[1] /\ x[2] <= y[2])
      [] kind = "max_by_value" ->
             LET largest == {x \in terms : \A y \in terms : y[1] <= x[1]}
             IN  <<(CHOOSE x \in largest : TRUE)[1], {x[2] : x \in largest}>>
      [] kind \in {"max", "or"} -> CHOOSE x \in terms : \A y \in terms : y[1] <= x[1]
      [] kind \in {"min", "and"} -> CHOOSE x \in terms : \A y \in terms : x[1] <= y[1]
      [] OTHER -> terms

\* What is in the receive buffer when gave[q] has come from rank q.
Delivered(o, gave) ==
    IF o.kind \in Reductions
    THEN IF o.want = <<>> THEN o.into
         ELSE [i \in DOMAIN o.into |-> Combined(o.kind, {gave[q][i] : q \in DOMAIN gave})]
    ELSE [i \in DOMAIN o.into |->
             LET From == {q \in DOMAIN gave : o.place[q] < i /\ i <= o.place[q] + Len(gave[q])}
             IN  IF From = {} THEN o.into[i]
                 ELSE LET q == CHOOSE q \in From : TRUE IN gave[q][i - o.place[q]]]
-----------------------------------------------------------------------------
(* The library's calls.  Memory: the step of the call, the counts and the  *)
(* displacements it has computed, the caller's array, the position it      *)
(* returns, and whether it has stayed inside its own arrays.               *)

Done == 0
Memory(a) == [step |-> 1, sizes |-> <<>>, displs |-> <<>>, out |-> a, end |-> 0, inside |-> TRUE]

Ones == [i \in 1 .. Size |-> 1]
Each(n) == [i \in 1 .. Size |-> n]
Steps(n) == [i \in 1 .. Size |-> (i - 1) * n]
Counts(a) == [i \in DOMAIN a |-> a[i][1]]
AtRoot(c, r, x) == IF r = c.root THEN x ELSE 0

\* The numbers of values, in the order of the ranks.
Sizes(c) == [i \in 1 .. Size |-> c.n[i - 1]]

\* The arrays as the caller passes them in.
Start(c, r) ==
    Memory(CASE c.op \in {"broadcast_value", "broadcast", "ibroadcast", "reduce_in_place",
                          "all_reduce_in_place"} -> Own(r, c.n[r])
             [] c.op = "all_to_all_in_place" -> Own(r, Size * c.n[r])
             [] c.op \in {"gather", "igather"} -> Blanks(AtRoot(c, r, Size * c.n[r]))
             [] c.op \in {"all_gather", "iall_gather", "all_to_all_n"} -> Blanks(Size * c.n[r])
             [] c.op = "all_to_all" -> Blanks(Size)
             [] c.op = "all_gatherv" -> Blanks(Total(Sizes(c)))
             [] c.op \in {"reduce", "all_reduce", "scatter_n", "scatterv_n_from"} -> Blanks(c.n[r])
             [] c.op = "gatherv" -> Blanks(AtRoot(c, r, Total(Sizes(c))))
             [] c.op = "gatherv_told" ->
                    Blanks(IF r = 0 THEN Total(Sizes(c)) ELSE 0)
             [] c.op \in {"max_element", "max_location", "max_location_other", "scatter",
                          "scatter_list", "max", "min", "and", "or", "reduce_value", "all_reduce_value"} -> Blanks(1)
             [] OTHER -> <<>>)

\* Mutant: every rank broadcasts as many elements as its own vector has had.
BroadcastValueOwn(c, r, m) ==
    IF m.step = 1 THEN Bcast("bcast", r, c.root, <<<<Len(m.out)>>>>, 1)
    ELSE Bcast("bcast", r, c.root, m.out, c.n[r])

\* broadcast_value of a vector: its size, a resize, then the contents.
BroadcastValue(c, r, m) ==
    IF m.step = 1 THEN Bcast("bcast", r, c.root, <<<<Len(m.out)>>>>, 1)
    ELSE Bcast("bcast", r, c.root, m.out, m.sizes[1])
BroadcastValueAfter(c, r, m, got) ==
    IF m.step = 1
    THEN [m EXCEPT !.step = 2, !.sizes = Counts(got), !.out = Resized(@, got[1][1])]
    ELSE [m EXCEPT !.step = Done, !.out = got]

\* Mutant: the displacements have no place for the total, and the last is written past it.
GatherPackageShort(c, r, m, got) ==
    IF m.step = 1
    THEN [m EXCEPT !.step = 2, !.sizes = Counts(got),
                   !.displs = PartialSums(Counts(got), Len(got)), !.inside = got = <<>>]
    ELSE [m EXCEPT !.step = Done, !.out = got, !.end = AtRoot(c, r, c.n[r] * Size)]

\* Mutant: only the root goes on to the packages.
GatherPackageRootOnly(c, r, m, got) ==
    IF m.step = 1 /\ r = c.root
    THEN [m EXCEPT !.step = 2, !.sizes = Counts(got),
                   !.displs = PartialSums(Counts(got), Len(got) + 1)]
    ELSE [m EXCEPT !.step = Done, !.out = got, !.end = AtRoot(c, r, c.n[r] * Size)]

\* gather_n of serialized values: the sizes of the packages, then the packages.
GatherPackage(c, r, m) ==
    IF m.step = 1
    THEN Gather("gather", r, c.root, <<<<Len(Package(r, c.n[r]))>>>>, Ones, Steps(1),
                Blanks(AtRoot(c, r, Size)))
    ELSE Gather("gatherv", r, c.root, Package(r, c.n[r]), m.sizes, m.displs, Blanks(Total(m.sizes)))
GatherPackageAfter(c, r, m, got) ==
    IF m.step = 1
    THEN [m EXCEPT !.step = 2, !.sizes = Counts(got),
                   !.displs = PartialSums(Counts(got), Len(got) + 1)]
    ELSE [m EXCEPT !.step = Done, !.out = got, !.end = AtRoot(c, r, c.n[r] * Size)]

\* all_gather_n of serialized values: displs has usize() elements, and the partial sums
\* are usize() + 1.
AllGatherPackage(c, r, m) ==
    IF m.step = 1
    THEN AllGather("allgather", <<<<Len(Package(r, c.n[r]))>>>>, Ones, Steps(1), Blanks(Size))
    ELSE AllGather("allgatherv", Package(r, c.n[r]), m.sizes, m.displs, Blanks(Total(m.sizes)))
AllGatherPackageAfter(c, r, m, got) ==
    IF m.step = 1
    THEN [m EXCEPT !.step = 2, !.sizes = Counts(got), !.displs = PartialSums(Counts(got), Size),
                   !.inside = FALSE]
    ELSE [m EXCEPT !.step = Done, !.out = got, !.end = c.n[r] * Size]

\* all_gatherv_n: how many elements each rank has, then the elements; for an output
\* iterator by way of a buffer of as many elements.
AllGatherv(c, r, m) ==
    IF m.step = 1
    THEN AllGather("allgather", <<<<c.n[r]>>>>, Ones, Steps(1), Blanks(Size))
    ELSE AllGather("allgatherv", Own(r, c.n[r]), m.sizes, m.displs,
                   IF c.op = "all_gatherv_output" THEN Blanks(Total(m.sizes)) ELSE m.out)
AllGathervAfter(c, r, m, got) ==
    IF m.step = 1
    THEN [m EXCEPT !.step = 2, !.sizes = Counts(got),
                   !.displs = PartialSums(Counts(got), Size + 1)]
    ELSE [m EXCEPT !.step = Done, !.out = got,
                   !.end = IF c.op = "all_gatherv_output" THEN Len(got)
                           ELSE m.displs[Size] + m.sizes[Size]]

\* scatterv_n_from: the ranks tell the root how many elements they take; displs is as
\* short as in all_gather_n.  The position returned is one in the root's array.
ScattervFrom(c, r, m) ==
    IF m.step = 1
    THEN Gather("gather", r, c.root, <<<<c.n[r]>>>>, Ones, Steps(1), [i \in 1 .. Size |-> <<0>>])
    ELSE Scatter("scatterv", r, c.root, Own(r, Total(m.sizes)), m.sizes, m.displs, c.n[r], m.out)
ScattervFromAfter(c, r, m, got) ==
    IF m.step = 1
    THEN [m EXCEPT !.step = 2, !.sizes = Counts(got), !.displs = PartialSums(Counts(got), Size),
                   !.inside = FALSE]
    ELSE [m EXCEPT !.step = Done, !.out = got,
                   !.end = AtRoot(c, r, m.displs[Size] + m.sizes[Size])]

\* scatterv of a container of containers, empty but at the root: the counts are always
\* scattered by rank 0, and the ranks that have no first element refer to it.
Scatterv(c, r, m) ==
    IF m.step = 1
    THEN Scatter("scatter", r, 0, IF r = c.root THEN [i \in 1 .. Size |-> <<c.n[i - 1]>>] ELSE <<>>,
                 Ones, Steps(1), 1, Blanks(1))
    ELSE LET counts == IF r = c.root THEN Sizes(c) ELSE Each(0)
         IN  Scatter("scatterv", r, c.root, Own(r, Total(counts)), counts,
                     PartialSums(counts, Size), m.sizes[1], Blanks(m.sizes[1]))
ScattervAfter(c, r, m, got) ==
    IF m.step = 1 THEN [m EXCEPT !.step = 2, !.sizes = Counts(got), !.inside = r = c.root]
    ELSE [m EXCEPT !.step = Done, !.out = got, !.end = m.sizes[1]]

\* scatter_n_from, and scatter of an array of which every rank takes one element.  A list
\* of n[r] elements is copied to a buffer first, Size elements of it by every rank.
ListHolds(c, r) == Size <= c.n[r]
ScatterN(c, r, m) ==
    LET a == IF r = c.root THEN Own(r, Size * Len(m.out)) ELSE <<>>
    IN  Scatter("scatter", r, c.root, a, Each(Len(m.out)), Steps(Len(m.out)), Len(m.out), m.out)

\* reduce_value and all_reduce_value: ret, which is 0, is the destination.
ReduceValue(c, r, m) == Reduce(r, c.root, Own(r, 1), m.out)
AllReduceValue(c, r, m) == Allreduce("allreduce", Own(r, 1), m.out)

\* max and min of a value of each rank, and the operators &= and |= of a truth value.
Extremum(c, r, m) == Allreduce(c.op, <<<<c.n[r]>>>>, m.out)
Truth(c, r, m) == Allreduce(c.op, <<<<IF c.n[r] > 0 THEN 1 ELSE 0>>>>, m.out)

\* max_loc: the value and the rank; max_location is max_loc.  Of ints they are reduced by
\* MPI_MAXLOC, of other types by std::max, and vlp's operator< does not compare the ranks.
Located(c) == IF c.op = "max_location_other" THEN "max_by_value" ELSE "max_loc"
MaxLoc(c, r, m) == Allreduce(Located(c), <<<<c.n[r], r>>>>, m.out)

\* Mutant: every element that has the value.
MaxElementByValue(c, r, m, got) ==
    [m EXCEPT !.step = Done, !.out = got, !.end = IF got[1][1] = c.n[r] THEN 1 ELSE 0]

\* max_element: the element of the rank that is the location.
MaxElementAfter(c, r, m, got) ==
    [m EXCEPT !.step = Done, !.out = got, !.end = IF got[1][2] = r THEN 1 ELSE 0]

Immediate(c) == c.op \in {"ibroadcast", "igather", "iall_gather"}

\* broadcast and ibroadcast of a range.
BroadcastN(c, r, m) ==
    Bcast(IF Immediate(c) THEN "ibcast" ELSE "bcast", r, c.root, m.out, Len(m.out))

\* reduce to another range, or in place, where only the root passes a destination.
ReduceN(c, r, m) ==
    IF c.op = "reduce" THEN Reduce(r, c.root, Own(r, c.n[r]), m.out)
    ELSE Reduce(r, c.root, m.out, IF r = c.root THEN m.out ELSE <<>>)

AllReduceN(c, r, m) ==
    Allreduce("allreduce", IF c.op = "all_reduce" THEN Own(r, c.n[r]) ELSE m.out, m.out)

\* gather and igather of a range of basic values.
GatherN(c, r, m) ==
    Gather(IF Immediate(c) THEN "igather" ELSE "gather", r, c.root, Own(r, c.n[r]),
           Each(c.n[r]), Steps(c.n[r]), m.out)

\* gather_value and all_gather_value make a vector for the values.
GatherValue(c, r, m) ==
    Gather("gather", r, c.root, Own(r, 1), Ones, Steps(1), Blanks(AtRoot(c, r, Size)))
AllGatherValue(c, r, m) == AllGather("allgather", Own(r, 1), Ones, Steps(1), Blanks(Size))

\* gatherv_n with the counts and displacements of the caller.
GathervN(c, r, m) ==
    Gather("gatherv", r, c.root, Own(r, c.n[r]), Sizes(c), PartialSums(Sizes(c), Size), m.out)

\* gatherv_n without them: as in all_gatherv_n, but only rank 0 gets the elements.
GathervTold(c, r, m) ==
    IF m.step = 1
    THEN AllGather("allgather", <<<<c.n[r]>>>>, Ones, Steps(1), Blanks(Size))
    ELSE Gather("gatherv", r, 0, Own(r, c.n[r]), m.sizes, m.displs, m.out)
GathervToldAfter(c, r, m, got) ==
    IF m.step = 1
    THEN [m EXCEPT !.step = 2, !.sizes = Counts(got), !.displs = PartialSums(Counts(got), Size + 1)]
    ELSE [m EXCEPT !.step = Done, !.out = got]

\* all_gather and iall_gather of a range of basic values.
AllGatherN(c, r, m) ==
    AllGather(IF Immediate(c) THEN "iallgather" ELSE "allgather", Own(r, c.n[r]),
              Each(c.n[r]), Steps(c.n[r]), m.out)

\* all_to_all_n, to another range and in place, and all_to_all: the number of values per
\* destination is the one given to all_to_all_n, and all_to_all gives size().
AllToAllN(c, r, m) ==
    CASE c.op = "all_to_all_n" -> Alltoall(Own(r, Size * c.n[r]), c.n[r], m.out)
      [] c.op = "all_to_all_in_place" -> Alltoall(m.out, c.n[r], m.out)
      [] c.op = "all_to_all" -> Alltoall(Own(r, c.n[r]), Size, m.out)

\* The collective of MPI that a call does next.
NextOperation(c, r, m) ==
    CASE c.op = "barrier" -> Barrier
      [] c.op = "broadcast_value" -> BroadcastValue(c, r, m)
      [] c.op \in {"broadcast", "ibroadcast"} -> BroadcastN(c, r, m)
      [] c.op \in {"reduce", "reduce_in_place"} -> ReduceN(c, r, m)
      [] c.op \in {"all_reduce", "all_reduce_in_place"} -> AllReduceN(c, r, m)
      [] c.op = "reduce_value" -> ReduceValue(c, r, m)
      [] c.op = "all_reduce_value" -> AllReduceValue(c, r, m)
      [] c.op \in {"max", "min"} -> Extremum(c, r, m)
      [] c.op \in {"and", "or"} -> Truth(c, r, m)
      [] c.op \in {"max_element", "max_location", "max_location_other"} -> MaxLoc(c, r, m)
      [] c.op \in {"scatter_n", "scatter", "scatter_list"} -> ScatterN(c, r, m)
      [] c.op = "scatterv" -> Scatterv(c, r, m)
      [] c.op = "scatterv_n_from" -> ScattervFrom(c, r, m)
      [] c.op \in {"gather", "igather"} -> GatherN(c, r, m)
      [] c.op = "gather_value" -> GatherValue(c, r, m)
      [] c.op = "all_gather_value" -> AllGatherValue(c, r, m)
      [] c.op = "gatherv" -> GathervN(c, r, m)
      [] c.op = "gatherv_told" -> GathervTold(c, r, m)
      [] c.op = "gather_package" -> GatherPackage(c, r, m)
      [] c.op \in {"all_gather", "iall_gather"} -> AllGatherN(c, r, m)
      [] c.op = "all_gather_package" -> AllGatherPackage(c, r, m)
      [] c.op \in {"all_gatherv", "all_gatherv_output"} -> AllGatherv(c, r, m)
      [] c.op \in {"all_to_all_n", "all_to_all_in_place", "all_to_all"} -> AllToAllN(c, r, m)

\* The position a call of one collective returns, counted from the destination's first.
ReturnedEnd(c, r, m) ==
    CASE c.op = "broadcast" -> c.n[r]
      [] c.op = "reduce" -> AtRoot(c, r, c.n[r])
      [] c.op = "all_reduce" -> c.n[r]
      [] c.op = "scatter_n" -> AtRoot(c, r, Size * c.n[r])
      [] c.op = "gather" -> AtRoot(c, r, Size * c.n[r])
      [] c.op = "all_gather" -> Size * c.n[r]
      [] c.op = "all_to_all_n" -> c.n[r]
      [] c.op = "all_to_all" -> Size
      [] c.op = "all_to_all_in_place" -> Size * c.n[r]
      [] OTHER -> 0

\* What a call does with what a collective has delivered.
AfterOperation(c, r, m, got) ==
    CASE c.op = "broadcast_value" -> BroadcastValueAfter(c, r, m, got)
      [] c.op = "max_element" -> MaxElementAfter(c, r, m, got)
      [] c.op = "scatterv" -> ScattervAfter(c, r, m, got)
      [] c.op = "scatterv_n_from" -> ScattervFromAfter(c, r, m, got)
      [] c.op = "gather_package" -> GatherPackageAfter(c, r, m, got)
      [] c.op = "all_gather_package" -> AllGatherPackageAfter(c, r, m, got)
      [] c.op \in {"all_gatherv", "all_gatherv_output"} -> AllGathervAfter(c, r, m, got)
      [] c.op = "gatherv_told" -> GathervToldAfter(c, r, m, got)
      [] c.op = "reduce_in_place" /\ r # c.root -> [m EXCEPT !.step = Done]
      [] c.op = "scatter_list" ->
             [m EXCEPT !.step = Done, !.out = got, !.end = 1, !.inside = ListHolds(c, r)]
      [] OTHER -> [m EXCEPT !.step = Done, !.out = got, !.end = ReturnedEnd(c, r, m)]
-----------------------------------------------------------------------------
\* The k-th collective of rank r has got from each rank what it expects, if that rank has
\* made the same collective; it waits for ever otherwise.
Arrived(r, k) ==
    \A q \in DOMAIN posted[r][k].want :
        /\ k <= Len(posted[q])
        /\ posted[q][k].kind = posted[r][k].kind
        /\ r \in DOMAIN posted[q][k].give

Buffer(r, k) ==
    Delivered(posted[r][k], [q \in DOMAIN posted[r][k].want |-> posted[q][k].give[r]])

\* What a program passes in: values of every rank, one each where a call is of one value,
\* and equally many where MPI asks for that; scatterv is the root's that scatters the counts.
OfOneValue == {"reduce_value", "all_reduce_value", "gather_value", "all_gather_value"}
OfEqualNumbers ==
    {"broadcast", "ibroadcast", "reduce", "reduce_in_place", "all_reduce", "all_reduce_in_place",
     "scatter_n", "gather", "igather", "all_gather", "iall_gather", "all_to_all_n",
     "all_to_all_in_place"}
OfOtherNumbers ==
    {"barrier", "broadcast_value", "max", "min", "and", "or", "max_element", "max_location",
     "max_location_other", "scatter", "scatter_list", "scatterv", "scatterv_n_from", "gatherv", "gatherv_told",
     "gather_package", "all_gather_package", "all_gatherv", "all_gatherv_output", "all_to_all"}

Callable(c) ==
    /\ c.op \in OfOneValue \cup OfEqualNumbers \cup OfOtherNumbers
    /\ c.root \in Ranks /\ c.n \in [Ranks -> Nat]
    /\ c.op \in OfOneValue => \A r \in Ranks : c.n[r] = 1
    /\ c.op \in OfEqualNumbers => \A r, q \in Ranks : c.n[r] = c.n[q]
    /\ c.op = "scatterv" => c.root = 0

ASSUME ProgramsAssumption ==
    \A p \in Programs :
        /\ Len(p) \in Nat \ {0} /\ DOMAIN p = 1 .. Len(p)
        /\ \A i \in DOMAIN p : Callable(p[i])

Init ==
    /\ program \in Programs
    /\ call = [r \in Ranks |-> 1]
    /\ mem = [r \in Ranks |-> Start(program[1], r)]
    /\ posted = [r \in Ranks |-> <<>>]
    /\ blocked = {}
    /\ requests = [r \in Ranks |-> {}]
    /\ results = [r \in Ranks |-> <<>>]

\* Rank r goes on to the next call of the program.
GoOn(r) ==
    /\ call' = [call EXCEPT ![r] = @ + 1]
    /\ mem' = [mem EXCEPT ![r] =
                  IF call[r] < Len(program) THEN Start(program[call[r] + 1], r) ELSE Memory(<<>>)]

Result(r, i, m) ==
    results' = [results EXCEPT ![r] = [j \in DOMAIN @ \cup {i} |-> IF j = i THEN m ELSE @[j]]]

\* Rank r starts the next collective of MPI; an immediate call returns with a request.
Post(r) ==
    /\ r \notin blocked /\ call[r] <= Len(program)
    /\ LET c == program[call[r]] IN
       /\ posted' = [posted EXCEPT ![r] = Append(@, NextOperation(c, r, mem[r]))]
       /\ IF Immediate(c)
          THEN /\ requests' = [requests EXCEPT ![r] = @ \cup {<<Len(posted[r]) + 1, call[r]>>}]
               /\ GoOn(r)
               /\ UNCHANGED blocked
          ELSE blocked' = blocked \cup {r} /\ UNCHANGED <<requests, call, mem>>
    /\ UNCHANGED <<program, results>>

\* The collective of rank r completes, and the call goes on or returns.
Complete(r) ==
    /\ r \in blocked
    /\ Arrived(r, Len(posted[r]))
    /\ blocked' = blocked \ {r}
    /\ \E m \in {AfterOperation(program[call[r]], r, mem[r], Buffer(r, Len(posted[r])))} :
           IF m.step = Done THEN Result(r, call[r], m) /\ GoOn(r)
           ELSE mem' = [mem EXCEPT ![r] = m] /\ UNCHANGED <<call, results>>
    /\ UNCHANGED <<program, posted, requests>>

\* The wait of a request, at the latest in its destructor.
Wait(r) ==
    /\ \E q \in requests[r] :
           /\ Arrived(r, q[1])
           /\ requests' = [requests EXCEPT ![r] = @ \ {q}]
           /\ Result(r, q[2], [Memory(Buffer(r, q[1])) EXCEPT !.step = Done])
    /\ UNCHANGED <<program, call, mem, posted, blocked>>

Next == \E r \in Ranks : Post(r) \/ Complete(r) \/ Wait(r)

Spec == Init /\ [][Next]_vars

\* Every rank goes on with its program, and MPI completes what has arrived.
FairSpec == Spec /\ \A r \in Ranks : WF_vars(Post(r)) /\ WF_vars(Complete(r)) /\ WF_vars(Wait(r))
-----------------------------------------------------------------------------
(* What the calls are for.                                                 *)

\* The arrays of all ranks one after the other.
InRankOrder(arrays) ==
    LET joined[n \in 0 .. Size] == IF n = 0 THEN <<>> ELSE joined[n - 1] \o arrays[n - 1]
    IN  joined[Size]

\* What is in the destination of rank r after the call c.
Expected(c, r) ==
    LET values == [q \in Ranks |-> Own(q, c.n[q])]
        columns == [q \in Ranks |-> SubSeq(Own(q, Size * c.n[q]), r * c.n[q] + 1, (r + 1) * c.n[q])]
        Sum(n) == [i \in 1 .. n |-> {<<q, i>> : q \in Ranks}]
        First == CHOOSE q \in Ranks : \A p \in Ranks : c.n[p] < c.n[q] \/ (c.n[p] = c.n[q] /\ q <= p)
    IN  CASE c.op = "barrier" -> <<>>
          [] c.op \in {"broadcast_value", "broadcast", "ibroadcast"} -> values[c.root]
          [] c.op \in {"reduce", "reduce_value"} -> IF r = c.root THEN Sum(c.n[r]) ELSE Blanks(c.n[r])
          [] c.op = "reduce_in_place" -> IF r = c.root THEN Sum(c.n[r]) ELSE values[r]
          [] c.op \in {"all_reduce", "all_reduce_value", "all_reduce_in_place"} -> Sum(c.n[r])
          [] c.op \in {"max", "min"} ->
                 LET all == {c.n[q] : q \in Ranks} IN <<<<IF c.op = "max" THEN Max(all) ELSE Min(all)>>>>
          [] c.op = "and" -> <<<<IF \A q \in Ranks : c.n[q] > 0 THEN 1 ELSE 0>>>>
          [] c.op = "or" -> <<<<IF \E q \in Ranks : c.n[q] > 0 THEN 1 ELSE 0>>>>
          [] c.op \in {"max_element", "max_location"} -> <<<<c.n[First], First>>>>
          [] c.op = "max_location_other" -> <<<<c.n[First], {q \in Ranks : c.n[q] = c.n[First]}>>>>
          [] c.op \in {"scatter", "scatter_list"} -> <<<<c.root, r + 1>>>>
          [] c.op = "scatter_n" -> SubSeq(Own(c.root, Size * c.n[r]), r * c.n[r] + 1, (r + 1) * c.n[r])
          [] c.op \in {"scatterv", "scatterv_n_from"} ->
                 LET before == Sums(Sizes(c))[r]
                 IN  SubSeq(Own(c.root, before + c.n[r]), before + 1, before + c.n[r])
          [] c.op \in {"gather", "igather", "gather_value", "gather_package", "gatherv"} ->
                 IF r = c.root THEN InRankOrder(values) ELSE <<>>
          [] c.op = "gatherv_told" -> IF r = 0 THEN InRankOrder(values) ELSE <<>>
          [] c.op \in {"all_gather", "iall_gather", "all_gather_value", "all_gather_package", "all_gatherv",
                       "all_gatherv_output"} -> InRankOrder(values)
          [] c.op \in {"all_to_all_n", "all_to_all_in_place"} -> InRankOrder(columns)
          [] c.op = "all_to_all" -> [i \in 1 .. Size |-> <<i - 1, r + 1>>]

\* The ranks that read the packages, with a package_iarchive, as many values as they are to
\* return the end of.
Reads(c, r) == c.op = "all_gather_package" \/ (c.op = "gather_package" /\ r = c.root)
Reading(m) == LoadN(m.out, "string", m.end)

\* The values that went into a package.
AsText(xs) == [i \in DOMAIN xs |-> Text(xs[i][1], xs[i][2])]

\* The position that a call returns, for those that return one: the end of what it wrote.
\* max_element returns an element at one rank.
ReturnsEnd == {"broadcast", "reduce", "all_reduce", "scatter_n", "scatter_list", "gather",
               "all_gather", "gather_package", "all_gather_package", "all_gatherv",
               "all_gatherv_output", "scatterv", "all_to_all_n", "all_to_all_in_place", "all_to_all"}
EndOf(c, r) ==
    CASE c.op = "max_element" -> IF Expected(c, r)[1][2] = r THEN 1 ELSE 0
      [] c.op = "scatterv_n_from" -> AtRoot(c, r, Total(Sizes(c)))
      [] c.op \in ReturnsEnd -> IF c.op = "reduce" /\ r # c.root THEN 0 ELSE Len(Expected(c, r))
      [] OTHER -> 0

TypeOK ==
    /\ program \in Programs
    /\ \A r \in Ranks :
           /\ call[r] \in 1 .. Len(program) + 1
           /\ mem[r].step \in 1 .. 2 /\ mem[r].inside \in BOOLEAN
           /\ requests[r] \subseteq (DOMAIN posted[r]) \X (DOMAIN program)
           /\ DOMAIN results[r] \subseteq 1 .. call[r]
    /\ blocked \subseteq Ranks

\* The ranks' k-th collectives are one collective: the same kind and the same root, and
\* each rank sends another as many elements as that one expects from it.
CollectivesAgree ==
    \A r, q \in Ranks : \A k \in DOMAIN posted[r] \cap DOMAIN posted[q] :
        LET mine == posted[r][k]
            other == posted[q][k]
        IN  /\ mine.kind = other.kind /\ mine.root = other.root
            /\ q \in DOMAIN mine.want <=> r \in DOMAIN other.give
            /\ q \in DOMAIN mine.want => mine.want[q] = Len(other.give[r])

\* A call leaves in each rank's destination what it is documented to, wherever the
\* other ranks are in their programs, and returns the end of what it has written; of
\* packages with no values at all the reading runs past the end, which is an error at
\* the ranks that read them (copy_n at communicator.hpp:2731, 2858).  The other ranks of
\* gather_n have no destination for a package.
ResultsInOrder ==
    \A r \in Ranks : \A i \in DOMAIN results[r] :
        LET c == program[i]
            m == results[r][i]
        IN  /\ IF ~Reads(c, r) THEN c.op = "gather_package" \/ m.out = Expected(c, r)
               ELSE IF Expected(c, r) = <<>> THEN Overruns(m.out, Reading(m))
               ELSE Reading(m).value = AsText(Expected(c, r))
            /\ m.end = EndOf(c, r)

\* Nothing is read or written outside the arrays: those of the caller, and the counts,
\* displacements and buffers of the calls.
ArraysHold ==
    /\ \A r \in Ranks : mem[r].inside /\ \A i \in DOMAIN results[r] : results[r][i].inside
    /\ \A r \in Ranks : \A k \in DOMAIN posted[r] :
           LET o == posted[r][k] IN
           /\ \A q \in DOMAIN o.want : o.place[q] + o.want[q] <= Len(o.into)
           /\ \A q \in DOMAIN o.give : \A i \in DOMAIN o.give[q] :
                  Len(o.give[q][i]) # 1 \/ o.give[q][i] # Outside

\* All ranks come to the end of their programs, with no request left.
EverythingReturns == <>(\A r \in Ranks : call[r] > Len(program) /\ requests[r] = {})
=============================================================================
